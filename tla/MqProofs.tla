------------------------------ MODULE MqProofs ------------------------------
(***************************************************************************)
(* Safety of the message queue for any number of clients, ids, commands and *)
(* messages, with either function in the I/O thread; and the proof that it  *)
(* implements MqService.                                                    *)
(***************************************************************************)
EXTENDS Mq, FiniteSets, FiniteSetTheorems, SequenceTheorems, TLAPS

-----------------------------------------------------------------------------
(* Types, with natural numbers for tags.                                    *)

Label == {"idle", "init", "spawn", "await", "submit", "send", "recv",
          "fallback", "join", "done"}
Results == {"none", "ok", "fail"}
Entry == [id : Nat, from : Caller, op : Ops, sub : Ids]

CallType ==
    /\ pc \in [Caller -> Label] /\ op \in [Caller -> Ops]
    /\ sub \in [Caller -> Ids] /\ cid \in [Caller -> Nat]
    /\ result \in [Caller -> Results] /\ calls \in 0..MaxCommands

StateType ==
    /\ entry \in EntryPoints
    /\ worker \in {"none", "starting", "poll", "execute", "ended"}
    /\ ready \in Results
    /\ initialized \in BOOLEAN /\ stop_requested \in BOOLEAN
    /\ ctxDown \in BOOLEAN

TableType ==
    /\ commands \subseteq Entry /\ taken \subseteq Entry
    /\ next_id \in Nat /\ inbox \in Seq(Nat)
    /\ reply \in [Caller -> Results]

SocketType ==
    /\ batch \subseteq Tags \cup {ControlTag}
    /\ subscribers \in [Ids -> Nat] /\ next_tag \in Nat \ {0}
    /\ pending \in [Tags -> Nat] /\ arrived \in 0..MaxMessages
    /\ \A t \in Tags : pending[t] <= arrived

HistType ==
    /\ executed \subseteq Nat /\ removed \subseteq Nat
    /\ initFailed \in BOOLEAN /\ crashed \in BOOLEAN

BaseType == CallType /\ StateType /\ TableType /\ SocketType /\ HistType

\* A group of variables that a step leaves alone keeps its type.
LEMMA UnchangedTypes ==
    ASSUME BaseType
    PROVE  /\ UNCHANGED callVars => CallType'
           /\ UNCHANGED stateVars => StateType'
           /\ UNCHANGED tableVars => TableType'
           /\ UNCHANGED socketVars => SocketType'
           /\ UNCHANGED histVars => HistType'
<1>1. UNCHANGED callVars => CallType'
  BY DEF callVars, CallType, BaseType
<1>2. UNCHANGED stateVars => StateType'
  BY DEF stateVars, StateType, BaseType
<1>3. UNCHANGED tableVars => TableType'
  BY DEF tableVars, TableType, BaseType
<1>4. UNCHANGED socketVars => SocketType'
  BY DEF socketVars, SocketType, BaseType
<1>5. UNCHANGED histVars => HistType'
  BY DEF histVars, HistType, BaseType
<1> QED BY <1>1, <1>2, <1>3, <1>4, <1>5

\* A request that is dropped from the inbox leaves requests that were there.
LEMMA WithoutProperties ==
    ASSUME NEW s \in Seq(Nat), NEW i \in 1..Len(s)
    PROVE  /\ Without(s, i) \in Seq(Nat)
           /\ \A j \in 1..Len(Without(s, i)) : \E m \in 1..Len(s) : Without(s, i)[j] = s[m]
<1> DEFINE a == SubSeq(s, 1, i - 1)
           b == SubSeq(s, i + 1, Len(s))
<1>1. /\ a \in Seq(Nat) /\ Len(a) = i - 1
      /\ \A j \in 1..(i - 1) : a[j] = s[j]
  BY SubSeqProperties
<1>2. /\ b \in Seq(Nat) /\ Len(b) = Len(s) - i
      /\ \A j \in 1..(Len(s) - i) : b[j] = s[i + j]
  BY SubSeqProperties
<1>3. /\ a \o b \in Seq(Nat) /\ Len(a \o b) = Len(s) - 1
      /\ \A j \in 1..(Len(s) - 1) :
            (a \o b)[j] = IF j < i THEN s[j] ELSE s[j + 1]
  <2> HIDE DEF a, b
  <2>1. /\ a \o b \in Seq(Nat) /\ Len(a \o b) = Len(a) + Len(b)
        /\ \A j \in 1..(Len(a) + Len(b)) :
              (a \o b)[j] = IF j <= Len(a) THEN a[j] ELSE b[j - Len(a)]
    BY <1>1, <1>2, ConcatProperties
  <2>2. Len(a) = i - 1 /\ Len(b) = Len(s) - i /\ Len(s) \in Nat /\ i \in Nat
        /\ 1 <= i /\ i <= Len(s)
    BY <1>1, <1>2
  <2>3. ASSUME NEW j \in 1..(Len(s) - 1)
        PROVE  (a \o b)[j] = IF j < i THEN s[j] ELSE s[j + 1]
    <3>1. (a \o b)[j] = IF j <= Len(a) THEN a[j] ELSE b[j - Len(a)]
      <4>1. j \in 1..(Len(a) + Len(b))
        BY <2>2
      <4> QED BY ONLY <2>1, <4>1
    <3>2. CASE j < i
      <4>1. j \in 1..(i - 1) /\ j <= Len(a)
        BY <2>2, <3>2
      <4> QED BY <1>1, <3>1, <3>2, <4>1
    <3>3. CASE ~(j < i)
      <4>1. j - Len(a) \in 1..(Len(s) - i) /\ i + (j - Len(a)) = j + 1 /\ ~(j <= Len(a))
        BY <2>2, <3>3
      <4>2. b[j - Len(a)] = s[i + (j - Len(a))]
        BY <1>2, <4>1
      <4> QED BY <3>1, <3>3, <4>1, <4>2
    <3> QED BY <3>2, <3>3
  <2>4. Len(a \o b) = Len(s) - 1
    BY <2>1, <2>2
  <2> QED BY <2>1, <2>3, <2>4
<1> HIDE DEF a, b
<1>4. Without(s, i) = a \o b
  BY DEF Without, a, b
<1>5. ASSUME NEW j \in 1..Len(Without(s, i))
      PROVE  \E m \in 1..Len(s) : Without(s, i)[j] = s[m]
  <2>1. j \in 1..(Len(s) - 1) /\ j \in 1..Len(s) /\ j + 1 \in 1..Len(s)
    BY <1>3, <1>4, <1>5
  <2>2. Without(s, i)[j] = s[j] \/ Without(s, i)[j] = s[j + 1]
    BY <1>3, <1>4, <2>1
  <2> QED BY <2>1, <2>2
<1> QED BY <1>3, <1>4, <1>5

\* Return moves the caller on, with a result.
LEMMA ReturnType ==
    ASSUME CallType, NEW c \in Caller, NEW r \in Results, Return(c, r),
           UNCHANGED <<op, sub, cid, calls>>
    PROVE  CallType'
  BY DEF CallType, Return, Goto, Label

\* A step that only moves a caller keeps CallType.
LEMMA GotoType ==
    ASSUME CallType, NEW c \in Caller, NEW l \in Label, Goto(c, l),
           UNCHANGED <<op, sub, cid, result, calls>>
    PROVE  CallType'
  BY DEF CallType, Goto

\* The steps of a call keep the types.
LEMMA CallTypes ==
    ASSUME BaseType, NEW c \in Caller, Call(c)
    PROVE  BaseType'
<1> USE UnchangedTypes
<1>0. CallType /\ StateType /\ TableType /\ HistType
      /\ {"ok", "fail"} \subseteq Results
      /\ {"submit", "spawn", "await", "send", "recv"} \subseteq Label
  BY DEF BaseType, Results, Label
<1>1. CASE InitCheck(c)
  <2>1. CallType'
    BY <1>0, <1>1, GotoType, ReturnType DEF InitCheck
  <2>2. StateType'
    BY <1>1 DEF InitCheck, StateType, BaseType
  <2> QED BY <1>1, <2>1, <2>2 DEF InitCheck, BaseType
<1>2. CASE InitSpawn(c)
  <2>1. CallType'
    BY <1>0, <1>2, GotoType DEF InitSpawn
  <2>2. StateType'
    BY <1>2 DEF InitSpawn, StateType, BaseType, Results
  <2>3. HistType'
    BY <1>2 DEF InitSpawn, HistType, BaseType
  <2> QED BY <1>2, <2>1, <2>2, <2>3 DEF InitSpawn, BaseType
<1>3. CASE InitOk(c)
  <2>1. CallType'
    BY <1>0, <1>3, GotoType, ReturnType DEF InitOk
  <2> QED BY <1>3, <2>1 DEF InitOk, BaseType
<1>4. CASE InitFail(c)
  <2>1. CallType'
    BY <1>0, <1>4, ReturnType DEF InitFail
  <2>2. StateType'
    BY <1>4 DEF InitFail, StateType, BaseType
  <2>3. HistType'
    BY <1>4 DEF InitFail, HistType, BaseType
  <2> QED BY <1>4, <2>1, <2>2, <2>3 DEF InitFail, BaseType
<1>5. CASE Submit(c)
  <2>1. CallType'
    BY <1>0, <1>5 DEF Submit, CallType, TableType, Goto
  <2>2. CommandOf(c, next_id) \in Entry
    BY <1>0 DEF CommandOf, Entry, CallType, TableType
  <2>3. TableType'
    BY <1>0, <1>5, <2>2 DEF Submit, TableType
  <2> QED BY <1>5, <2>1, <2>3 DEF Submit, BaseType
<1>6. CASE Send(c)
  <2>1. CallType'
    BY <1>0, <1>6, GotoType DEF Send
  <2>2. TableType'
    BY <1>0, <1>6 DEF Send, TableType, CallType
  <2> QED BY <1>6, <2>1, <2>2 DEF Send, BaseType
<1>7. CASE Recv(c)
  <2>1. CallType'
    BY <1>0, <1>7, ReturnType DEF Recv, TableType
  <2>2. TableType'
    BY <1>0, <1>7 DEF Recv, TableType, Results
  <2> QED BY <1>7, <2>1, <2>2 DEF Recv, BaseType
<1>8. CASE GiveUp(c)
  <2>1. CallType'
    BY <1>0, <1>8, ReturnType DEF GiveUp
  <2>2. inbox' \in Seq(Nat)
    BY <1>0, <1>8, WithoutProperties DEF GiveUp, TableType
  <2>3. TableType'
    BY <1>0, <1>8, <2>2 DEF GiveUp, TableType, Results
  <2> QED BY <1>8, <2>1, <2>3 DEF GiveUp, BaseType
<1> QED BY <1>1, <1>2, <1>3, <1>4, <1>5, <1>6, <1>7, <1>8 DEF Call

\* Whatever a command does, it keeps the types of the sockets.
LEMMA EffectType ==
    ASSUME BaseType, NEW k \in taken, NEW rc,
           Subscribe(k, rc) \/ Unsubscribe(k, rc) \/ RemoveSubscriber(k, rc) \/ Publish(k),
           batch' \subseteq batch, UNCHANGED arrived
    PROVE  SocketType' /\ removed' \subseteq Nat
<1>0. SocketType /\ removed \subseteq Nat /\ k.sub \in Ids
  BY DEF BaseType, HistType, TableType, Entry
<1>1. CASE Subscribe(k, rc)
  BY <1>0, <1>1 DEF Subscribe, SocketType, NoSub
<1>2. CASE Unsubscribe(k, rc) \/ Publish(k)
  BY <1>0, <1>2 DEF Unsubscribe, Publish, SocketType
<1>3. CASE RemoveSubscriber(k, rc)
  <2>1. subscribers' \in [Ids -> Nat]
    BY <1>0, <1>3 DEF RemoveSubscriber, SocketType, NoSub
  <2>2. pending' \in [Tags -> Nat] /\ \A t \in Tags : pending'[t] <= arrived'
    BY <1>0, <1>3 DEF RemoveSubscriber, SocketType
  <2>3. removed' \subseteq Nat
    BY <1>0, <1>3 DEF RemoveSubscriber, SocketType
  <2> QED BY <1>0, <1>3, <2>1, <2>2, <2>3 DEF RemoveSubscriber, SocketType
<1> QED BY <1>1, <1>2, <1>3

\* A result that is sent is a result.
LEMMA ControlResultType ==
    ASSUME BaseType, NEW k \in taken, NEW rc \in {"ok", "fail"},
           SendControlResult(k, rc)
    PROVE  reply' \in [Caller -> Results]
  BY DEF BaseType, TableType, SendControlResult, Results

\* The end of the loop leaves no subscriber.
LEMMA WorkerEndType ==
    ASSUME BaseType, WorkerEnd, UNCHANGED <<next_tag, arrived>>
    PROVE  SocketType'
  BY DEF WorkerEnd, BaseType, SocketType, NoSub

\* The steps of the I/O thread keep the types.
LEMMA WorkerTypes ==
    ASSUME BaseType, Worker
    PROVE  BaseType'
<1> USE UnchangedTypes
<1>0. CallType /\ StateType /\ TableType /\ HistType /\ SocketType
      /\ {"ok", "fail"} \subseteq Results
  BY DEF BaseType, Results
<1>1. CASE WorkerStart
  <2>1. StateType'
    BY <1>0, <1>1 DEF WorkerStart, RunStart, LoopStart, StateType
  <2> QED BY <1>1, <2>1 DEF WorkerStart, BaseType
<1>2. CASE WorkerStartFails
  <2>1. StateType'
    BY <1>0, <1>2 DEF WorkerStartFails, StateType
  <2> QED BY <1>2, <2>1 DEF WorkerStartFails, BaseType
<1>3. CASE WorkerPoll
  <2>1. Readable \subseteq Tags \cup {ControlTag}
    BY DEF Readable
  <2>2. SocketType'
    BY <1>0, <1>3, <2>1 DEF WorkerPoll, SocketType
  <2> QED BY <1>3, <2>2 DEF WorkerPoll, BaseType
<1>4. CASE WorkerStops
  <2>1. StateType'
    BY <1>0, <1>4 DEF WorkerStops, WorkerEnd, StateType
  <2>2. SocketType'
    BY <1>4, WorkerEndType DEF WorkerStops
  <2> QED BY <1>4, <2>1, <2>2 DEF WorkerStops, BaseType
<1>5. CASE WorkerTake
  <2>1. StateType'
    BY <1>0, <1>5 DEF WorkerTake, StateType
  <2>2. inbox' \in Seq(Nat)
    BY <1>0, <1>5 DEF WorkerTake, TableType
  <2>3. TableType'
    BY <1>0, <1>5, <2>2 DEF WorkerTake, TableType
  <2>4. SocketType'
    BY <1>0, <1>5 DEF WorkerTake, SocketType
  <2> QED BY <1>5, <2>1, <2>3, <2>4 DEF WorkerTake, BaseType
<1>6. CASE WorkerExecute
  <2>1. PICK k \in taken, rc \in {"ok", "fail"} :
          /\ Subscribe(k, rc) \/ Unsubscribe(k, rc) \/ RemoveSubscriber(k, rc)
             \/ Publish(k)
          /\ SendControlResult(k, rc)
          /\ executed' = executed \cup {k.id}
    BY <1>6 DEF WorkerExecute
  <2>2. SocketType' /\ removed' \subseteq Nat
    BY <1>6, <2>1, EffectType DEF WorkerExecute
  <2>3. TableType'
    BY <1>0, <1>6, <2>1, ControlResultType DEF WorkerExecute, TableType
  <2>4. StateType'
    BY <1>0, <1>6 DEF WorkerExecute, StateType
  <2>5. HistType'
    BY <1>0, <1>6, <2>1, <2>2 DEF WorkerExecute, HistType, TableType, Entry
  <2> QED BY <1>6, <2>2, <2>3, <2>4, <2>5 DEF WorkerExecute, BaseType
<1>7. CASE WorkerExecuteStop
  <2>1. PICK k \in taken :
          SendControlResult(k, "ok") /\ executed' = executed \cup {k.id}
    BY <1>7 DEF WorkerExecuteStop
  <2>2. SocketType'
    BY <1>7, WorkerEndType DEF WorkerExecuteStop
  <2>3. TableType'
    BY <1>0, <1>7, <2>1, ControlResultType DEF WorkerExecuteStop, TableType
  <2>4. StateType'
    BY <1>0, <1>7 DEF WorkerExecuteStop, WorkerEnd, StateType
  <2>5. HistType'
    BY <1>0, <1>7, <2>1 DEF WorkerExecuteStop, HistType, TableType, Entry
  <2> QED BY <1>7, <2>2, <2>3, <2>4, <2>5 DEF WorkerExecuteStop, BaseType
<1>8. ASSUME NEW t \in Tags, WorkerDeliver(t)
      PROVE  BaseType'
  <2>1. SocketType'
    BY <1>0, <1>8 DEF WorkerDeliver, SocketType
  <2> QED BY <1>8, <2>1 DEF WorkerDeliver, BaseType
<1> QED BY <1>1, <1>2, <1>3, <1>4, <1>5, <1>6, <1>7, <1>8 DEF Worker

\* Every step keeps the types.
LEMMA BaseTypeStep ==
    ASSUME BaseType, [Next]_vars
    PROVE  BaseType'
<1> USE UnchangedTypes
<1>0. CallType /\ StateType /\ SocketType /\ HistType /\ "stop" \in Caller
  BY DEF BaseType, Caller
<1>1. ASSUME NEW c \in Clients, NEW o \in Ops, NEW i \in Ids, Request(c, o, i)
      PROVE  BaseType'
  <2>1. calls' \in 0..MaxCommands
    BY <1>0, <1>1, BoundsAssumption DEF Request, CallType
  <2>2. CallType'
    BY <1>0, <1>1, <2>1 DEF Request, CallType, Goto, Caller, Label, Results
  <2> QED BY <1>1, <2>2 DEF Request, BaseType
<1>2. ASSUME NEW t \in Tags, Arrive(t)
      PROVE  BaseType'
  <2>1. SocketType'
    BY <1>0, <1>2, BoundsAssumption DEF Arrive, SocketType
  <2> QED BY <1>2, <2>1 DEF Arrive, BaseType
<1>3. CASE StopBegin
  <2>1. CallType'
    BY <1>0, <1>3, GotoType DEF StopBegin, Label
  <2>2. StateType'
    BY <1>0, <1>3 DEF StopBegin, StateType
  <2> QED BY <1>3, <2>1, <2>2 DEF StopBegin, BaseType
<1>4. CASE StopFallback
  <2>1. CallType'
    BY <1>0, <1>4, GotoType DEF StopFallback, Label
  <2>2. StateType'
    BY <1>0, <1>4 DEF StopFallback, StateType
  <2> QED BY <1>4, <2>1, <2>2 DEF StopFallback, BaseType
<1>5. CASE StopJoin
  <2>1. CallType'
    BY <1>0, <1>5 DEF StopJoin, CallType, Goto, Label
  <2>2. StateType'
    BY <1>0, <1>5 DEF StopJoin, StateType
  <2>3. HistType'
    BY <1>0, <1>5 DEF StopJoin, HistType
  <2> QED BY <1>5, <2>1, <2>2, <2>3 DEF StopJoin, BaseType
<1>6. CASE UNCHANGED vars
  BY <1>6 DEF vars, BaseType
<1> QED BY <1>1, <1>2, <1>3, <1>4, <1>5, <1>6, CallTypes, WorkerTypes DEF Next, Stop

-----------------------------------------------------------------------------
(* Callers.                                                                 *)

InCall == {"init", "spawn", "await", "submit", "send", "recv"}

\* A call has no result while it is under way; clients never send the stop
\* command and the destructor sends nothing else; before the init of main has
\* returned nobody calls.
CallInv ==
    /\ \A c \in Clients :
          /\ pc[c] \in InCall \cup {"idle"}
          /\ pc[c] \in InCall => op[c] # "stop" /\ result[c] = "none"
    /\ pc["main"] \in {"init", "spawn", "await", "idle"}
    /\ pc["main"] # "idle" => result["main"] = "none"
    /\ result["main"] = "none" => \A c \in Caller \ {"main"} : pc[c] = "idle"
    /\ op["stop"] = "stop"
    /\ pc["stop"] \in InCall \cup {"idle"} => result["stop"] = "none"

\* As long as no init has failed there is one I/O thread at most: main starts
\* it before anyone else calls, and only the destructor takes it away.
InitInv ==
    /\ crashed => initFailed
    /\ ~initFailed /\ pc["stop"] # "done" =>
          /\ pc["main"] \in {"init", "spawn"} <=> worker = "none"
          /\ \A c \in Caller \ {"main"} : pc[c] \notin {"spawn", "await"}

\* The I/O thread and the network touch no caller, and no step of them starts
\* or joins the thread.
LEMMA WorkerFrame ==
    ASSUME Worker \/ \E t \in Tags : Arrive(t)
    PROVE  /\ UNCHANGED <<callVars, crashed, initFailed>>
           /\ worker' = "none" <=> worker = "none"
<1>1. CASE \E t \in Tags : Arrive(t)
  BY <1>1 DEF Arrive, stateVars, histVars
<1>2. CASE WorkerStart \/ WorkerStartFails
  BY <1>2 DEF WorkerStart, RunStart, LoopStart, WorkerStartFails, histVars
<1>3. CASE WorkerPoll \/ \E t \in Tags : WorkerDeliver(t)
  BY <1>3 DEF WorkerPoll, WorkerDeliver, stateVars, histVars
<1>4. CASE WorkerStops
  BY <1>4 DEF WorkerStops, WorkerEnd, histVars
<1>5. CASE WorkerTake
  BY <1>5 DEF WorkerTake, histVars
<1>6. CASE WorkerExecute
  BY <1>6 DEF WorkerExecute
<1>7. CASE WorkerExecuteStop
  BY <1>7 DEF WorkerExecuteStop, WorkerEnd
<1> QED BY <1>1, <1>2, <1>3, <1>4, <1>5, <1>6, <1>7 DEF Worker

\* Who changes what of the callers.
LEMMA NextCases ==
    ASSUME [Next]_vars
    PROVE  \/ Running /\ \E c \in Caller : Call(c)
           \/ Running /\ \E c \in Clients, o \in Ops \ {"stop"}, i \in Ids :
                            Request(c, o, i)
           \/ Running /\ Stop
           \/ Running /\ (Worker \/ \E t \in Tags : Arrive(t))
           \/ UNCHANGED vars
  BY DEF Next

\* Every step keeps the discipline of the callers.
LEMMA CallInvStep ==
    ASSUME BaseType, CallInv, [Next]_vars
    PROVE  CallInv'
<1>0. /\ pc \in [Caller -> Label] /\ op \in [Caller -> Ops]
      /\ result \in [Caller -> Results]
      /\ {"main", "stop"} \subseteq Caller /\ Clients \subseteq Caller
      /\ "main" \notin Clients /\ "stop" \notin Clients
      /\ reply \in [Caller -> Results]
  BY ClientsAssumption DEF BaseType, CallType, TableType, Caller
<1>1. CASE UNCHANGED callVars
  BY <1>1 DEF callVars, CallInv
<1>2. ASSUME NEW c \in Caller, Call(c)
      PROVE  CallInv'
  <2>1. op' = op
    BY <1>2 DEF Call, InitCheck, InitSpawn, InitOk, InitFail, Submit, Send, Recv,
       GiveUp
  <2>2. pc[c] \in InCall
    BY <1>2 DEF Call, InitCheck, InitSpawn, InitOk, InitFail, Submit, Send, Recv,
       GiveUp, InCall
  <2>3. CASE \E r \in {"ok", "fail"} : Return(c, r)
    <3>1. PICK r \in {"ok", "fail"} : Return(c, r)
      BY <2>3
    <3>2. /\ \A d \in Caller \ {c} : pc'[d] = pc[d] /\ result'[d] = result[d]
          /\ pc'[c] = (IF c = "stop" THEN "fallback" ELSE "idle")
          /\ result'[c] = r
      BY <1>0, <3>1 DEF Return, Goto
    <3> QED BY <1>0, <2>1, <2>2, <3>2 DEF CallInv, InCall, Caller
  <2>4. CASE /\ result' = result
             /\ c # "main" => \E l \in InCall : Goto(c, l)
             /\ c = "main" => \E l \in {"spawn", "await"} : Goto(c, l)
    <3>1. PICK l \in InCall : Goto(c, l) /\ (c = "main" => l \in {"spawn", "await"})
      BY <2>4 DEF InCall
    <3>2. /\ \A d \in Caller \ {c} : pc'[d] = pc[d]
          /\ pc'[c] = l
      BY <1>0, <3>1 DEF Goto
    <3> QED BY <1>0, <2>1, <2>2, <2>4, <3>1, <3>2 DEF CallInv, InCall, Caller
  <2>5. CASE InitCheck(c)
    BY <2>3, <2>4, <2>5 DEF InitCheck, InCall
  <2>6. CASE InitSpawn(c)
    BY <2>4, <2>6 DEF InitSpawn, InCall
  <2>7. CASE InitOk(c)
    BY <2>3, <2>4, <2>7 DEF InitOk, InCall
  <2>8. CASE InitFail(c)
    BY <2>3, <2>8 DEF InitFail
  <2>9. CASE Submit(c) \/ Send(c)
    BY <2>4, <2>9 DEF Submit, Send, InCall, CallInv
  <2>10. CASE Recv(c)
    BY <1>0, <2>3, <2>10 DEF Recv, Results
  <2>11. CASE GiveUp(c)
    BY <2>3, <2>11 DEF GiveUp
  <2> QED BY <1>2, <2>5, <2>6, <2>7, <2>8, <2>9, <2>10, <2>11 DEF Call
<1>3. ASSUME NEW c \in Clients, NEW o \in Ops \ {"stop"}, NEW i \in Ids,
             Request(c, o, i)
      PROVE  CallInv'
  <2>1. PICK l \in {"submit", "init"} : Goto(c, l)
    BY <1>3 DEF Request
  <2>2. /\ \A d \in Caller \ {c} : /\ pc'[d] = pc[d] /\ result'[d] = result[d]
                                   /\ op'[d] = op[d]
        /\ pc'[c] = l /\ result'[c] = "none" /\ op'[c] # "stop"
        /\ result["main"] # "none"
    BY <1>0, <1>3, <2>1 DEF Request, Goto
  <2> QED BY <1>0, <2>2 DEF CallInv, InCall, Caller
<1>4. CASE Stop
  <2>1. op' = op /\ result' = result /\ (pc["stop"] = "idle" => result["main"] # "none")
    BY <1>4 DEF Stop, StopBegin, StopFallback, StopJoin
  <2>2. /\ \A d \in Caller \ {"stop"} : pc'[d] = pc[d]
        /\ pc'["stop"] \in InCall => pc["stop"] = "idle"
        /\ pc'["stop"] # "idle"
    BY <1>0, <1>4 DEF Stop, StopBegin, StopFallback, StopJoin, Goto, InCall
  <2> QED BY <1>0, <2>1, <2>2 DEF CallInv
<1> QED BY <1>1, <1>2, <1>3, <1>4, NextCases, WorkerFrame DEF vars

\* Every step keeps the invariant of the thread.
LEMMA InitInvStep ==
    ASSUME BaseType, CallInv, InitInv, [Next]_vars
    PROVE  InitInv'
<1>0. /\ pc \in [Caller -> Label]
      /\ {"main", "stop"} \subseteq Caller /\ Clients \subseteq Caller
      /\ "main" \notin Clients /\ "stop" \notin Clients
  BY ClientsAssumption DEF BaseType, CallType, Caller
<1>1. CASE /\ UNCHANGED <<callVars, crashed, initFailed>>
           /\ worker' = "none" <=> worker = "none"
  BY <1>1 DEF callVars, InitInv
<1>2. ASSUME Running, NEW c \in Caller, Call(c)
      PROVE  InitInv'
  <2>0. pc["stop"] # "done" /\ ~crashed
    BY <1>2 DEF Running
  <2>1. ASSUME NEW l, Goto(c, l), UNCHANGED <<worker, crashed, initFailed>>,
               l \notin {"init", "spawn", "await", "done"},
               c # "main" \/ pc["main"] = "await"
        PROVE  InitInv'
    <3>1. /\ \A d \in Caller \ {c} : pc'[d] = pc[d]
          /\ pc'[c] = l
      BY <1>0, <2>1 DEF Goto
    <3> QED BY <1>0, <2>0, <2>1, <3>1 DEF InitInv
  <2>2. CASE InitCheck(c)
    <3>1. CASE c = "main"
      <4>1. initFailed \/ worker = "none"
        BY <2>0, <2>2, <3>1 DEF InitCheck, InitInv
      <4>2. CASE initFailed
        BY <2>0, <2>2, <4>2 DEF InitCheck, InitInv, histVars
      <4>3. CASE worker = "none"
        <5>1. Goto(c, "spawn") /\ UNCHANGED <<worker, crashed, initFailed>>
          BY <2>2, <4>3 DEF InitCheck, Joinable, histVars
        <5>2. pc'["main"] = "spawn" /\ \A d \in Caller \ {c} : pc'[d] = pc[d]
          BY <1>0, <3>1, <5>1 DEF Goto
        <5> QED BY <1>0, <2>0, <3>1, <4>3, <5>1, <5>2 DEF InitInv
      <4> QED BY <4>1, <4>2, <4>3
    <3>2. CASE c # "main" /\ ~initFailed
      <4>1. worker # "none"
        BY <1>0, <2>0, <2>2, <3>2 DEF InitCheck, InitInv, CallInv
      <4>2. \E l \in {"submit", "fallback", "idle"} : Goto(c, l)
        BY <2>2, <3>2, <4>1 DEF InitCheck, Joinable, Return
      <4> QED BY <2>1, <2>2, <3>2, <4>2 DEF InitCheck, histVars
    <3>3. CASE initFailed
      BY <2>0, <2>2, <3>3 DEF InitCheck, InitInv, histVars
    <3> QED BY <3>1, <3>2, <3>3
  <2>3. CASE InitSpawn(c)
    <3>1. CASE initFailed
      BY <2>0, <2>3, <3>1 DEF InitSpawn, InitInv
    <3>2. CASE ~initFailed
      <4>1. c = "main" /\ worker = "none"
        BY <1>0, <2>0, <2>3, <3>2 DEF InitSpawn, InitInv
      <4>2. worker' = "starting" /\ UNCHANGED <<crashed, initFailed>> /\ Goto(c, "await")
        BY <2>3, <4>1 DEF InitSpawn, Joinable
      <4>3. pc'["main"] = "await" /\ \A d \in Caller \ {c} : pc'[d] = pc[d]
        BY <1>0, <4>1, <4>2 DEF Goto
      <4> QED BY <1>0, <2>0, <3>2, <4>1, <4>2, <4>3 DEF InitInv
    <3> QED BY <3>1, <3>2
  <2>4. CASE InitOk(c)
    <3>1. \E l \in {"submit", "fallback", "idle"} : Goto(c, l)
      BY <2>4 DEF InitOk, Return
    <3>2. c # "main" \/ pc["main"] = "await"
      BY <2>4 DEF InitOk
    <3> QED BY <2>1, <2>4, <3>1, <3>2 DEF InitOk, stateVars, histVars
  <2>5. CASE InitFail(c)
    BY <2>0, <2>5 DEF InitFail, InitInv
  <2>6. CASE Submit(c) \/ Send(c) \/ Recv(c) \/ GiveUp(c)
    <3>1. \E l \in {"send", "recv", "fallback", "idle"} : Goto(c, l)
      BY <2>6 DEF Submit, Send, Recv, GiveUp, Return
    <3>2. c # "main"
      BY <2>6 DEF Submit, Send, Recv, GiveUp, CallInv
    <3> QED BY <2>1, <2>6, <3>1, <3>2 DEF Submit, Send, Recv, GiveUp, stateVars, histVars
  <2> QED BY <1>2, <2>2, <2>3, <2>4, <2>5, <2>6 DEF Call
<1>3. ASSUME NEW c \in Clients, NEW o \in Ops \ {"stop"}, NEW i \in Ids,
             Request(c, o, i)
      PROVE  InitInv'
  <2>1. PICK l \in {"submit", "init"} : Goto(c, l)
    BY <1>3 DEF Request
  <2>2. /\ \A d \in Caller \ {c} : pc'[d] = pc[d]
        /\ pc'[c] = l /\ UNCHANGED <<worker, crashed, initFailed>>
    BY <1>0, <1>3, <2>1 DEF Request, Goto, stateVars, histVars
  <2> QED BY <1>0, <2>2 DEF InitInv
<1>4. CASE Running /\ Stop
  <2>0. pc["stop"] # "done" /\ ~crashed
    BY <1>4 DEF Running
  <2>1. /\ \A d \in Caller \ {"stop"} : pc'[d] = pc[d]
        /\ pc'["stop"] \notin {"spawn", "await"} \/ pc' = pc
    BY <1>0, <1>4 DEF Stop, StopBegin, StopFallback, StopJoin, Goto
  <2>2. UNCHANGED initFailed
    BY <1>4 DEF Stop, StopBegin, StopFallback, StopJoin, histVars
  <2>3. CASE StopBegin \/ StopFallback
    <3>1. UNCHANGED <<worker, crashed>>
      BY <2>3 DEF StopBegin, StopFallback, histVars
    <3> QED BY <1>0, <2>0, <2>1, <2>2, <3>1 DEF InitInv
  <2>4. CASE StopJoin
    <3>1. CASE worker = "ended"
      <4>1. pc'["stop"] = "done" /\ UNCHANGED crashed
        BY <1>0, <2>4, <3>1 DEF StopJoin, Goto
      <4> QED BY <2>0, <4>1 DEF InitInv
    <3>2. CASE worker = "none"
      <4>1. (result["main"] # "none" /\ pc["main"] = "idle") \/ initFailed
        BY <1>0, <2>0, <2>4, <3>2 DEF StopJoin, CallInv, InitInv
      <4>2. initFailed
        BY <2>0, <3>2, <4>1 DEF InitInv
      <4> QED BY <2>2, <4>2 DEF InitInv
    <3> QED BY <2>4, <3>1, <3>2 DEF StopJoin
  <2> QED BY <1>4, <2>3, <2>4 DEF Stop
<1> QED BY <1>1, <1>2, <1>3, <1>4, NextCases, WorkerFrame DEF vars, stateVars, histVars

-----------------------------------------------------------------------------
(* Subscribers.                                                             *)

\* Tags are given once; a removed one belongs to nobody.
TagInv ==
    /\ \A i \in Ids : subscribers[i] < next_tag
    /\ \A i, j \in Ids : i # j /\ subscribers[i] # NoSub
                           => subscribers[i] # subscribers[j]
    /\ \A t \in removed : /\ t < next_tag /\ t # NoSub
                          /\ \A i \in Ids : subscribers[i] # t

\* Who changes the subscribers and their tags.
LEMMA TagFrame ==
    ASSUME [Next]_vars
    PROVE  \/ UNCHANGED <<subscribers, next_tag, removed>>
           \/ WorkerEnd /\ UNCHANGED <<next_tag, removed>>
           \/ \E k \in taken, rc \in {"ok", "fail"} :
                 Subscribe(k, rc) \/ RemoveSubscriber(k, rc)
<1>1. CASE \E c \in Caller : Call(c)
  BY <1>1 DEF Call, InitCheck, InitSpawn, InitOk, InitFail, Submit, Send, Recv,
     GiveUp, socketVars, histVars
<1>2. CASE \E c \in Clients, o \in Ops \ {"stop"}, i \in Ids : Request(c, o, i)
  BY <1>2 DEF Request, socketVars, histVars
<1>3. CASE Stop
  BY <1>3 DEF Stop, StopBegin, StopFallback, StopJoin, socketVars, histVars
<1>4. CASE \E t \in Tags : Arrive(t) \/ WorkerDeliver(t)
  BY <1>4 DEF Arrive, WorkerDeliver, histVars
<1>5. CASE WorkerStart \/ WorkerStartFails \/ WorkerPoll \/ WorkerTake
  BY <1>5 DEF WorkerStart, WorkerStartFails, WorkerPoll, WorkerTake, socketVars,
     histVars
<1>6. CASE WorkerStops \/ WorkerExecuteStop
  BY <1>6 DEF WorkerStops, WorkerExecuteStop, histVars
<1>7. CASE WorkerExecute
  BY <1>7 DEF WorkerExecute, Unsubscribe, Publish
<1>8. CASE UNCHANGED vars
  BY <1>8 DEF vars, socketVars, histVars
<1> QED
  BY <1>1, <1>2, <1>3, <1>4, <1>5, <1>6, <1>7, <1>8, NextCases DEF Worker

\* Every step keeps tags apart.
LEMMA TagInvStep ==
    ASSUME BaseType, TagInv, [Next]_vars
    PROVE  TagInv'
<1>0. /\ subscribers \in [Ids -> Nat] /\ next_tag \in Nat \ {0} /\ removed \subseteq Nat
      /\ \A k \in taken : k.sub \in Ids
  BY DEF BaseType, SocketType, HistType, TableType, Entry
<1>1. CASE UNCHANGED <<subscribers, next_tag, removed>>
  BY <1>1 DEF TagInv
<1>2. CASE WorkerEnd /\ UNCHANGED <<next_tag, removed>>
  BY <1>0, <1>2 DEF WorkerEnd, TagInv, NoSub
<1>3. ASSUME NEW k \in taken, NEW rc, Subscribe(k, rc)
      PROVE  TagInv'
  <2>1. CASE UNCHANGED subscribers /\ next_tag' \in {next_tag, next_tag + 1}
    BY <1>0, <1>3, <2>1 DEF Subscribe, TagInv
  <2>2. CASE subscribers' = [subscribers EXCEPT ![k.sub] = next_tag]
             /\ next_tag' = next_tag + 1
    <3>1. /\ subscribers'[k.sub] = next_tag
          /\ \A i \in Ids : i # k.sub => subscribers'[i] = subscribers[i]
          /\ removed' = removed
      BY <1>0, <1>3, <2>2 DEF Subscribe
    <3> QED BY <1>0, <2>2, <3>1 DEF TagInv, NoSub
  <2> QED BY <1>3, <2>1, <2>2 DEF Subscribe
<1>4. ASSUME NEW k \in taken, NEW rc, RemoveSubscriber(k, rc)
      PROVE  TagInv'
  <2>1. /\ subscribers'[k.sub] = NoSub
        /\ \A i \in Ids : i # k.sub => subscribers'[i] = subscribers[i]
        /\ removed' = removed \cup ({subscribers[k.sub]} \ {NoSub})
        /\ next_tag' = next_tag
    BY <1>0, <1>4 DEF RemoveSubscriber
  <2> QED BY <1>0, <2>1 DEF TagInv, NoSub
<1> QED BY <1>1, <1>2, <1>3, <1>4, TagFrame

-----------------------------------------------------------------------------
(* The table.                                                               *)

\* The command of caller c's current call is on its way.
Current(k) == pc[k.from] \in {"send", "recv"} /\ cid[k.from] = k.id

\* Ids are fresh, one command has one id and is in one place; a command in the
\* table belongs to a call that waits; what was not sent has not arrived; a
\* result is that of the current command, which was executed.
TableInv ==
    /\ \A k \in commands \cup taken :
          /\ k.id < next_id /\ k.id \notin executed
          /\ k.from # "main" /\ (k.op = "stop" <=> k.from = "stop")
          /\ Current(k) => k.op = op[k.from] /\ k.sub = sub[k.from]
    /\ \A k \in commands : Current(k)
    /\ \A j, k \in commands : j.id = k.id => j = k
    /\ \A j, k \in taken : j = k
    /\ \A j \in commands, k \in taken : j.id # k.id
    /\ \A k \in taken : Current(k) => pc[k.from] = "recv"
    /\ \A c \in Caller :
          /\ cid[c] < next_id
          /\ pc[c] = "send" => \A i \in 1..Len(inbox) : inbox[i] # cid[c]
          /\ reply[c] # "none" => pc[c] = "recv" /\ cid[c] \in executed
    /\ \A c, d \in Caller : c # d /\ {pc[c], pc[d]} \subseteq {"send", "recv"}
                              => cid[c] # cid[d]
    /\ \A i \in 1..Len(inbox) : inbox[i] < next_id
    /\ \A n \in executed : n < next_id
    /\ taken # {} <=> worker = "execute"

\* Steps that leave table, callers and the thread's place alone.
LEMMA TableFrame ==
    ASSUME TableInv, UNCHANGED <<pc, cid, op, sub, commands, taken, next_id, inbox,
                                 reply, executed>>,
           worker' = "execute" <=> worker = "execute"
    PROVE  TableInv'
  BY DEF TableInv, Current

\* What the table invariant needs to know of the types.
TableFacts ==
    /\ pc \in [Caller -> Label] /\ cid \in [Caller -> Nat]
    /\ op \in [Caller -> Ops] /\ sub \in [Caller -> Ids]
    /\ next_id \in Nat /\ inbox \in Seq(Nat) /\ reply \in [Caller -> Results]
    /\ \A k \in commands \cup taken : k.from \in Caller /\ k.id \in Nat
    /\ executed \subseteq Nat

\* The types say so.
LEMMA TableFactsHold == BaseType => TableFacts
  BY DEF BaseType, CallType, TableType, HistType, Entry, TableFacts

\* A caller that is, and stays, outside of send and recv, or that stays where
\* it is, is of no account to the table.
LEMMA TableMove ==
    ASSUME TableFacts, TableInv, NEW c \in Caller,
           \A d \in Caller : d # c => /\ pc'[d] = pc[d] /\ op'[d] = op[d]
                                      /\ sub'[d] = sub[d],
           pc[c] \notin {"send", "recv"}, pc'[c] \notin {"send", "recv"},
           UNCHANGED <<cid, commands, taken, next_id, inbox, reply, executed>>,
           worker' = "execute" <=> worker = "execute"
    PROVE  TableInv'
<1>1. \A k \in commands \cup taken :
        /\ Current(k)' <=> Current(k)
        /\ Current(k) => op'[k.from] = op[k.from] /\ sub'[k.from] = sub[k.from]
                         /\ pc'[k.from] = pc[k.from]
  BY DEF Current, TableFacts
<1>2. \A d \in Caller : pc'[d] \in {"send", "recv"} => pc'[d] = pc[d]
  OBVIOUS
<1>3. \A d \in Caller : reply[d] # "none" => d # c
  BY DEF TableInv
<1> QED BY <1>1, <1>2, <1>3 DEF TableInv

\* A submitted command has a fresh id.
LEMMA TableSubmit ==
    ASSUME TableFacts, TableInv, CallInv, NEW c \in Caller, Submit(c)
    PROVE  TableInv'
<1>0. PICK new : new = CommandOf(c, next_id)
  OBVIOUS
<1>1. /\ new.id = next_id /\ new.from = c /\ new.op = op[c] /\ new.sub = sub[c]
      /\ commands' = commands \cup {new} /\ next_id' = next_id + 1
      /\ UNCHANGED <<op, sub, taken, inbox, reply, executed, worker>>
  BY <1>0 DEF Submit, CommandOf, stateVars, histVars
<1>2. /\ pc[c] = "submit" /\ pc'[c] = "send" /\ cid'[c] = next_id
      /\ \A d \in Caller : d # c => pc'[d] = pc[d] /\ cid'[d] = cid[d]
      /\ next_id \in Nat
  BY DEF Submit, Goto, TableFacts
<1>3. c # "main" /\ (op[c] = "stop" <=> c = "stop")
  BY <1>2 DEF CallInv, InCall, Caller
<1>4. \A k \in commands \cup taken :
        /\ k.from \in Caller /\ k.id \in Nat /\ k.id < next_id
        /\ Current(k)' <=> Current(k)
        /\ Current(k) => k.from # c
  BY <1>2 DEF Current, TableFacts, TableInv
<1>5. /\ Current(new)' /\ new \notin commands \cup taken
      /\ new.id \notin executed
  BY <1>1, <1>2, <1>4 DEF Current, TableInv, TableFacts
<1>6. \A k \in commands' \cup taken' :
          /\ k.id < next_id' /\ k.id \notin executed'
          /\ k.from # "main" /\ (k.op = "stop" <=> k.from = "stop")
          /\ Current(k)' => k.op = op'[k.from] /\ k.sub = sub'[k.from]
  BY <1>1, <1>2, <1>3, <1>4, <1>5 DEF TableInv
<1>7. /\ \A k \in commands' : Current(k)'
      /\ \A j, k \in commands' : j.id = k.id => j = k
      /\ \A j, k \in taken' : j = k
      /\ \A j \in commands', k \in taken' : j.id # k.id
  BY <1>1, <1>2, <1>4, <1>5 DEF TableInv
<1>8. \A k \in taken' : Current(k)' => pc'[k.from] = "recv"
  BY <1>1, <1>2, <1>4 DEF TableInv
<1>9. \A d \in Caller :
          /\ cid'[d] < next_id'
          /\ pc'[d] = "send" => \A i \in 1..Len(inbox') : inbox'[i] # cid'[d]
          /\ reply'[d] # "none" => pc'[d] = "recv" /\ cid'[d] \in executed'
  BY <1>1, <1>2 DEF TableInv, TableFacts
<1>11. \A d, e \in Caller : d # e /\ {pc'[d], pc'[e]} \subseteq {"send", "recv"}
                              => cid'[d] # cid'[e]
  <2>1. \A d \in Caller : cid[d] \in Nat /\ cid[d] < next_id
    BY DEF TableInv, TableFacts
  <2> QED BY <1>2, <2>1 DEF TableInv
<1>10. /\ \A i \in 1..Len(inbox') : inbox'[i] < next_id'
       /\ \A n \in executed' : n < next_id'
       /\ taken' # {} <=> worker' = "execute"
  BY <1>1, <1>2 DEF TableInv, TableFacts
<1> QED BY <1>6, <1>7, <1>8, <1>9, <1>10, <1>11 DEF TableInv

\* The id of a command that was not sent is nowhere else.
LEMMA TableSend ==
    ASSUME TableFacts, TableInv, NEW c \in Caller, Send(c)
    PROVE  TableInv'
<1>1. /\ inbox' = Append(inbox, cid[c])
      /\ UNCHANGED <<op, sub, cid, commands, taken, next_id, reply, executed, worker>>
      /\ pc[c] = "send" /\ pc'[c] = "recv"
      /\ \A d \in Caller : d # c => pc'[d] = pc[d]
  BY DEF Send, Goto, TableFacts, stateVars, histVars
<1>2. \A k \in commands \cup taken : Current(k)' <=> Current(k)
  BY <1>1 DEF Current, TableFacts
<1>3. \A i \in 1..Len(inbox') : inbox'[i] = cid[c] \/ \E j \in 1..Len(inbox) :
                                                    inbox'[i] = inbox[j]
  BY <1>1 DEF TableFacts
<1>4. \A d \in Caller : pc[d] = "send" /\ d # c => cid[d] # cid[c]
  BY <1>1 DEF TableInv
<1>5. \A d \in Caller :
          /\ cid'[d] < next_id'
          /\ pc'[d] = "send" => \A i \in 1..Len(inbox') : inbox'[i] # cid'[d]
          /\ reply'[d] # "none" => pc'[d] = "recv" /\ cid'[d] \in executed'
  <2>1. \A d \in Caller : pc'[d] = "send" => d # c /\ pc[d] = "send"
    BY <1>1
  <2> QED BY <1>1, <1>3, <1>4, <2>1 DEF TableInv
<1>6. \A d, e \in Caller : d # e /\ {pc'[d], pc'[e]} \subseteq {"send", "recv"}
                              => cid'[d] # cid'[e]
  BY <1>1 DEF TableInv
<1>7. /\ \A i \in 1..Len(inbox') : inbox'[i] < next_id'
      /\ \A n \in executed' : n < next_id'
      /\ taken' # {} <=> worker' = "execute"
  BY <1>1, <1>3 DEF TableInv
<1>8. \A k \in taken' : Current(k)' => pc'[k.from] = "recv"
  BY <1>1, <1>2 DEF TableInv, TableFacts
<1> QED BY <1>1, <1>2, <1>5, <1>6, <1>7, <1>8 DEF TableInv

\* A call that ends leaves no command of its own in the table.
LEMMA TableReturn ==
    ASSUME TableFacts, TableInv, NEW c \in Caller,
           \A d \in Caller : d # c => pc'[d] = pc[d],
           pc'[c] \notin {"send", "recv"},
           reply' = [reply EXCEPT ![c] = "none"],
           commands' \subseteq commands,
           \A k \in commands' : k.from = c => k.id # cid[c],
           \A i \in 1..Len(inbox') : \E j \in 1..Len(inbox) : inbox'[i] = inbox[j],
           UNCHANGED <<op, sub, cid, taken, next_id, executed, worker>>
    PROVE  TableInv'
<1>1. \A k \in commands \cup taken :
        /\ Current(k)' => Current(k)
        /\ Current(k) /\ k.from # c => Current(k)'
        /\ Current(k)' => k.from # c
  BY DEF Current, TableFacts
<1>2. \A k \in commands' : k.from # c
  BY DEF TableInv, Current
<1>3. /\ \A k \in commands' : Current(k)'
      /\ \A k \in taken' : Current(k)' => pc'[k.from] = "recv"
  BY <1>1, <1>2 DEF TableInv, TableFacts
<1>4. \A d \in Caller :
          /\ cid'[d] < next_id'
          /\ pc'[d] = "send" => \A i \in 1..Len(inbox') : inbox'[i] # cid'[d]
          /\ reply'[d] # "none" => pc'[d] = "recv" /\ cid'[d] \in executed'
  <2>1. \A d \in Caller : reply'[d] # "none" => reply[d] # "none" /\ d # c
    BY DEF TableFacts
  <2>2. \A d \in Caller : pc'[d] = "send" => pc[d] = "send"
    OBVIOUS
  <2> QED BY <2>1, <2>2 DEF TableInv
<1>5. \A d, e \in Caller : d # e /\ {pc'[d], pc'[e]} \subseteq {"send", "recv"}
                              => cid'[d] # cid'[e]
  BY DEF TableInv
<1>6. /\ \A i \in 1..Len(inbox') : inbox'[i] < next_id'
      /\ \A n \in executed' : n < next_id'
      /\ taken' # {} <=> worker' = "execute"
  BY DEF TableInv
<1> QED BY <1>1, <1>3, <1>4, <1>5, <1>6 DEF TableInv

\* The next command leaves the table for the I/O thread; it has been sent.
LEMMA TableTake ==
    ASSUME TableFacts, TableInv, WorkerTake
    PROVE  TableInv'
<1>1. /\ UNCHANGED <<pc, op, sub, cid, next_id, reply, executed>>
      /\ inbox # <<>> /\ inbox' = Tail(inbox)
      /\ taken' = {k \in commands : k.id = Head(inbox)}
      /\ commands' = commands \ taken'
      /\ worker' = "execute" <=> taken' # {}
  BY DEF WorkerTake, callVars, histVars
<1>2. /\ \A i \in 1..Len(inbox') : \E j \in 1..Len(inbox) : inbox'[i] = inbox[j]
      /\ Head(inbox) = inbox[1] /\ 1 \in 1..Len(inbox)
  BY <1>1 DEF TableFacts
<1>3. \A k \in commands \cup taken : Current(k)' <=> Current(k)
  BY <1>1 DEF Current
<1>4. \A k \in taken' : Current(k)' => pc'[k.from] = "recv"
  BY <1>1, <1>2 DEF TableInv, TableFacts, Current
<1>5. \A d \in Caller :
          /\ cid'[d] < next_id'
          /\ pc'[d] = "send" => \A i \in 1..Len(inbox') : inbox'[i] # cid'[d]
          /\ reply'[d] # "none" => pc'[d] = "recv" /\ cid'[d] \in executed'
  BY <1>1, <1>2 DEF TableInv
<1>6. \A i \in 1..Len(inbox') : inbox'[i] < next_id'
  BY <1>1, <1>2 DEF TableInv
<1>7. /\ \A j, k \in taken' : j = k
      /\ \A j \in commands', k \in taken' : j.id # k.id
  BY <1>1 DEF TableInv
<1> QED BY <1>1, <1>3, <1>4, <1>5, <1>6, <1>7 DEF TableInv

\* An executed command leaves the I/O thread; its result is that of its id.
LEMMA TableExecuted ==
    ASSUME TableFacts, TableInv, NEW k \in taken, NEW rc,
           SendControlResult(k, rc), executed' = executed \cup {k.id},
           taken' = {}, worker' # "execute",
           UNCHANGED <<pc, op, sub, cid, commands, next_id, inbox>>
    PROVE  TableInv'
<1>1. \A j \in commands : Current(j)' <=> Current(j)
  BY DEF Current
<1>2. \A j \in commands : j.id \notin executed'
  BY DEF TableInv
<1>3. k.from \in Caller /\ k.id < next_id
  BY DEF TableInv, TableFacts
<1>4. \A d \in Caller : reply'[d] # "none" => pc'[d] = "recv" /\ cid'[d] \in executed'
  <2>1. CASE pc[k.from] = "recv" /\ cid[k.from] = k.id
    <3>1. \A d \in Caller : d # k.from => reply'[d] = reply[d]
      BY <1>3, <2>1 DEF SendControlResult, TableFacts
    <3> QED BY <2>1, <3>1 DEF TableInv
  <2>2. CASE ~(pc[k.from] = "recv" /\ cid[k.from] = k.id)
    BY <2>2 DEF SendControlResult, TableInv
  <2> QED BY <2>1, <2>2
<1> QED BY <1>1, <1>2, <1>3, <1>4 DEF TableInv

\* The steps of a call keep the table in order.
LEMMA TableCall ==
    ASSUME BaseType, CallInv, TableInv, NEW c \in Caller, Call(c)
    PROVE  TableInv'
<1>0. TableFacts /\ pc \in [Caller -> Label]
  BY TableFactsHold DEF TableFacts
<1>1. CASE InitCheck(c) \/ InitSpawn(c) \/ InitOk(c) \/ InitFail(c)
  <2>1. /\ UNCHANGED <<op, sub, cid, commands, taken, next_id, inbox, reply, executed>>
        /\ worker' = "execute" <=> worker = "execute"
    BY <1>1 DEF InitCheck, InitSpawn, InitOk, InitFail, Joinable, stateVars,
       tableVars, histVars
  <2>2. /\ pc[c] \in {"init", "await", "spawn"}
        /\ \E l \in {"submit", "spawn", "await", "idle", "fallback"} : Goto(c, l)
    BY <1>1 DEF InitCheck, InitSpawn, InitOk, InitFail, Return
  <2>3. /\ pc[c] \notin {"send", "recv"} /\ pc'[c] \notin {"send", "recv"}
        /\ \A d \in Caller : d # c => pc'[d] = pc[d]
    BY <1>0, <2>2 DEF Goto
  <2> QED BY <1>0, <2>1, <2>3, TableMove
<1>2. CASE Recv(c)
  <2>1. /\ UNCHANGED <<op, sub, cid, commands, taken, next_id, inbox, executed, worker>>
        /\ reply' = [reply EXCEPT ![c] = "none"]
        /\ Goto(c, IF c = "stop" THEN "fallback" ELSE "idle")
    BY <1>2 DEF Recv, Return, stateVars, histVars
  <2>2. /\ \A d \in Caller : d # c => pc'[d] = pc[d]
        /\ pc'[c] \notin {"send", "recv"}
    BY <1>0, <2>1 DEF Goto
  <2>3. \A k \in commands' : k.from = c => k.id # cid[c]
    BY <1>2, <2>1 DEF Recv, TableInv
  <2> QED BY <1>0, <2>1, <2>2, <2>3, TableReturn
<1>3. CASE GiveUp(c)
  <2>1. /\ UNCHANGED <<op, sub, cid, taken, next_id, executed, worker>>
        /\ commands' = {k \in commands : k.id # cid[c]}
        /\ reply' = [reply EXCEPT ![c] = "none"]
        /\ Goto(c, IF c = "stop" THEN "fallback" ELSE "idle")
    BY <1>3 DEF GiveUp, Return, stateVars, histVars
  <2>2. /\ \A d \in Caller : d # c => pc'[d] = pc[d]
        /\ pc'[c] \notin {"send", "recv"}
    BY <1>0, <2>1 DEF Goto
  <2>3. \A i \in 1..Len(inbox') : \E j \in 1..Len(inbox) : inbox'[i] = inbox[j]
    <3>1. inbox \in Seq(Nat)
      BY <1>0 DEF TableFacts
    <3>2. CASE inbox' = inbox
      BY <3>2
    <3>3. CASE \E i \in 1..Len(inbox) : inbox' = Without(inbox, i)
      <4>1. PICK i \in 1..Len(inbox) : inbox' = Without(inbox, i)
        BY <3>3
      <4>2. \A j \in 1..Len(Without(inbox, i)) :
               \E m \in 1..Len(inbox) : Without(inbox, i)[j] = inbox[m]
        BY <3>1, WithoutProperties
      <4> QED BY <4>1, <4>2
    <3> QED BY <1>3, <3>2, <3>3 DEF GiveUp
  <2> QED BY <1>0, <2>1, <2>2, <2>3, TableReturn
<1> QED BY <1>0, <1>1, <1>2, <1>3, TableSubmit, TableSend DEF Call

\* Every step keeps the table in order.
LEMMA TableInvStep ==
    ASSUME BaseType, CallInv, TableInv, [Next]_vars
    PROVE  TableInv'
<1>0. TableFacts /\ pc \in [Caller -> Label] /\ op \in [Caller -> Ops]
      /\ sub \in [Caller -> Ids] /\ "stop" \in Caller
  BY TableFactsHold DEF TableFacts, Caller
<1>1. ASSUME NEW c \in Clients, NEW o, NEW i, Request(c, o, i)
      PROVE  TableInv'
  <2>1. PICK l \in {"submit", "init"} : Goto(c, l)
    BY <1>1 DEF Request
  <2>2. /\ \A d \in Caller : d # c => pc'[d] = pc[d] /\ op'[d] = op[d]
                                      /\ sub'[d] = sub[d]
        /\ pc[c] = "idle" /\ pc'[c] = l /\ c \in Caller
    BY <1>0, <1>1, <2>1 DEF Request, Goto, Caller
  <2>3. UNCHANGED <<cid, commands, taken, next_id, inbox, reply, executed, worker>>
    BY <1>1 DEF Request, stateVars, tableVars, histVars
  <2>4. pc[c] \notin {"send", "recv"} /\ pc'[c] \notin {"send", "recv"}
    BY <2>2
  <2> QED BY <1>0, <2>2, <2>3, <2>4, TableMove
<1>2. CASE Stop
  <2>1. /\ UNCHANGED <<op, sub, cid, commands, taken, next_id, inbox, reply, executed>>
        /\ worker' = "execute" <=> worker = "execute"
        /\ \/ UNCHANGED pc
           \/ /\ pc["stop"] \in {"idle", "fallback", "join"}
              /\ \E l \in {"submit", "init", "join", "done"} : Goto("stop", l)
    BY <1>2 DEF Stop, StopBegin, StopFallback, StopJoin, stateVars, tableVars,
       histVars
  <2>2. CASE UNCHANGED pc
    BY <2>1, <2>2, TableFrame
  <2>3. CASE pc["stop"] \in {"idle", "fallback", "join"}
             /\ \E l \in {"submit", "init", "join", "done"} : Goto("stop", l)
    <3>1. /\ pc["stop"] \notin {"send", "recv"} /\ pc'["stop"] \notin {"send", "recv"}
          /\ \A d \in Caller : d # "stop" => pc'[d] = pc[d]
      BY <1>0, <2>3 DEF Goto
    <3> QED BY <1>0, <2>1, <3>1, TableMove
  <2> QED BY <2>1, <2>2, <2>3
<1>3. CASE WorkerStart \/ WorkerStartFails \/ WorkerPoll \/ WorkerStops
  BY <1>3, TableFrame DEF WorkerStart, RunStart, LoopStart, WorkerStartFails,
     WorkerPoll, WorkerStops, WorkerEnd, callVars, stateVars, tableVars, histVars
<1>4. CASE \E t \in Tags : Arrive(t) \/ WorkerDeliver(t)
  BY <1>4, TableFrame DEF Arrive, WorkerDeliver, callVars, stateVars, tableVars,
     histVars
<1>5. CASE WorkerExecute
  BY <1>0, <1>5, TableExecuted DEF WorkerExecute, callVars
<1>6. CASE WorkerExecuteStop
  BY <1>0, <1>6, TableExecuted DEF WorkerExecuteStop, WorkerEnd, callVars
<1>7. CASE UNCHANGED vars
  BY <1>7, TableFrame DEF vars, callVars, stateVars, tableVars, histVars
<1> QED BY <1>0, <1>1, <1>2, <1>3, <1>4, <1>5, <1>6, <1>7, NextCases, TableCall,
           TableTake DEF Worker

-----------------------------------------------------------------------------
(* How many tags are given.                                                 *)

\* Calls whose command is not in the table yet, and commands not executed.
Waiting == {c \in Clients : pc[c] \in {"init", "spawn", "await", "submit"}}
Work == {k \in commands \cup taken : k.op # "stop"}

\* Each call of a client gives one tag at most.
Counted ==
    /\ IsFiniteSet(Waiting) /\ IsFiniteSet(Work)
    /\ (next_tag - 1) + Cardinality(Waiting) + Cardinality(Work) <= calls

\* The sets that are counted, as numbers.
LEMMA CountNat ==
    ASSUME Counted
    PROVE  Cardinality(Waiting) \in Nat /\ Cardinality(Work) \in Nat
  BY FS_CardinalityType DEF Counted

\* Calls that end and commands that disappear give no tag.
LEMMA CountShrinks ==
    ASSUME BaseType, Counted, Waiting' \subseteq Waiting, Work' \subseteq Work,
           UNCHANGED <<next_tag, calls>>
    PROVE  Counted'
<1>1. /\ IsFiniteSet(Waiting') /\ Cardinality(Waiting') <= Cardinality(Waiting)
      /\ IsFiniteSet(Work') /\ Cardinality(Work') <= Cardinality(Work)
  BY FS_Subset DEF Counted
<1>2. Cardinality(Waiting') \in Nat /\ Cardinality(Work') \in Nat
  BY <1>1, FS_CardinalityType
<1>3. next_tag \in Nat /\ calls \in Nat
  BY DEF BaseType, SocketType, CallType
<1>4. (next_tag - 1) + Cardinality(Waiting) + Cardinality(Work) <= calls
  BY DEF Counted
<1>5. (next_tag' - 1) + Cardinality(Waiting') + Cardinality(Work') <= calls'
  BY <1>1, <1>2, <1>3, <1>4, CountNat
<1> QED BY <1>1, <1>5 DEF Counted

\* A call becomes a command.
LEMMA CountSubmit ==
    ASSUME BaseType, CallInv, TableInv, Counted, NEW c \in Caller, Submit(c)
    PROVE  Counted'
<1>0. PICK new : new = CommandOf(c, next_id)
  OBVIOUS
<1>1. /\ new.op = op[c] /\ commands' = commands \cup {new}
      /\ UNCHANGED <<taken, next_tag, calls>>
      /\ pc[c] = "submit" /\ pc'[c] = "send"
      /\ \A d \in Caller : d # c => pc'[d] = pc[d]
  BY <1>0 DEF Submit, CommandOf, socketVars, Goto, BaseType, CallType
<1>2. CASE c \in Clients
  <2>1. Waiting' = Waiting \ {c} /\ c \in Waiting
    BY <1>1, <1>2 DEF Waiting, Caller
  <2>2. op[c] # "stop"
    BY <1>1, <1>2 DEF CallInv, InCall
  <2>3. Work' = Work \cup {new}
    BY <1>1, <2>2 DEF Work
  <2>4. /\ IsFiniteSet(Waiting')
        /\ Cardinality(Waiting') = Cardinality(Waiting) - 1
    BY <2>1, FS_RemoveElement DEF Counted
  <2>5. /\ IsFiniteSet(Work')
        /\ Cardinality(Work') \in {Cardinality(Work), Cardinality(Work) + 1}
    BY <2>3, FS_AddElement DEF Counted
  <2>6. next_tag \in Nat /\ calls \in Nat
    BY DEF BaseType, SocketType, CallType
  <2>7. (next_tag - 1) + Cardinality(Waiting) + Cardinality(Work) <= calls
    BY DEF Counted
  <2>8. (next_tag' - 1) + Cardinality(Waiting') + Cardinality(Work') <= calls'
    BY <1>1, <2>4, <2>5, <2>6, <2>7, CountNat
  <2> QED BY <2>4, <2>5, <2>8 DEF Counted
<1>3. CASE c \notin Clients
  <2>1. op[c] = "stop"
    BY <1>1, <1>3 DEF CallInv, Caller
  <2>2. Work' \subseteq Work /\ Waiting' \subseteq Waiting
    BY <1>1, <1>3, <2>1 DEF Work, Waiting, Caller
  <2> QED BY <1>1, <2>2, CountShrinks
<1> QED BY <1>2, <1>3

\* A call of a client is counted when it begins.
LEMMA CountRequest ==
    ASSUME BaseType, Counted, NEW c \in Clients, NEW o, NEW i, Request(c, o, i)
    PROVE  Counted'
<1>1. /\ UNCHANGED <<commands, taken, next_tag>> /\ calls' = calls + 1
      /\ pc[c] = "idle" /\ pc'[c] \in {"submit", "init"}
      /\ \A d \in Caller : d # c => pc'[d] = pc[d]
  BY DEF Request, tableVars, socketVars, Goto, BaseType, CallType, Caller
<1>2. Waiting' = Waiting \cup {c} /\ c \notin Waiting /\ Work' = Work
  BY <1>1 DEF Waiting, Work, Caller
<1>3. /\ IsFiniteSet(Waiting')
      /\ Cardinality(Waiting') = Cardinality(Waiting) + 1
  BY <1>2, FS_AddElement DEF Counted
<1>4. next_tag \in Nat /\ calls \in Nat
  BY DEF BaseType, SocketType, CallType
<1>5. (next_tag - 1) + Cardinality(Waiting) + Cardinality(Work) <= calls
  BY DEF Counted
<1>6. (next_tag' - 1) + Cardinality(Waiting') + Cardinality(Work') <= calls'
  BY <1>1, <1>2, <1>3, <1>4, <1>5, CountNat
<1> QED BY <1>2, <1>3, <1>6 DEF Counted

\* A command that is executed makes place for the tag it gives.
LEMMA CountExecute ==
    ASSUME BaseType, TableInv, Counted, WorkerExecute
    PROVE  Counted'
<1>1. PICK k \in taken : /\ k.op # "stop"
                         /\ next_tag' \in {next_tag, next_tag + 1}
  BY DEF WorkerExecute, Subscribe, Unsubscribe, RemoveSubscriber, Publish
<1>2. UNCHANGED <<pc, calls, commands>> /\ taken' = {}
  BY DEF WorkerExecute, callVars
<1>3. Waiting' = Waiting /\ Work' = Work \ {k} /\ k \in Work
  BY <1>1, <1>2 DEF Waiting, Work, TableInv
<1>4. /\ IsFiniteSet(Work')
      /\ Cardinality(Work') = Cardinality(Work) - 1
  BY <1>3, FS_RemoveElement DEF Counted
<1>5. next_tag \in Nat /\ calls \in Nat
  BY DEF BaseType, SocketType, CallType
<1>6. (next_tag - 1) + Cardinality(Waiting) + Cardinality(Work) <= calls
  BY DEF Counted
<1>7. (next_tag' - 1) + Cardinality(Waiting') + Cardinality(Work') <= calls'
  BY <1>1, <1>2, <1>3, <1>4, <1>5, <1>6, CountNat
<1> QED BY <1>3, <1>4, <1>7 DEF Counted

\* Every step keeps the count.
LEMMA CountedStep ==
    ASSUME BaseType, CallInv, TableInv, Counted, [Next]_vars
    PROVE  Counted'
<1>0. pc \in [Caller -> Label] /\ Clients \subseteq Caller /\ "stop" \notin Clients
  BY ClientsAssumption DEF BaseType, CallType, Caller
<1>1. ASSUME UNCHANGED <<next_tag, calls>>,
             commands' \cup taken' \subseteq commands \cup taken,
             UNCHANGED pc \/ \E c \in Caller, l \in Label :
                                /\ Goto(c, l)
                                /\ \/ pc[c] \in {"init", "spawn", "await"}
                                   \/ l \notin {"init", "spawn", "await", "submit"}
                                   \/ c = "stop"
      PROVE  Counted'
  <2>1. Work' \subseteq Work
    BY <1>1 DEF Work
  <2>2. Waiting' \subseteq Waiting
    BY <1>0, <1>1 DEF Waiting, Goto
  <2> QED BY <1>1, <2>1, <2>2, CountShrinks
<1>2. ASSUME NEW c \in Caller,
             InitCheck(c) \/ InitSpawn(c) \/ InitOk(c) \/ InitFail(c) \/ Send(c)
             \/ Recv(c) \/ GiveUp(c)
      PROVE  Counted'
  <2>1. UNCHANGED <<next_tag, calls>> /\ commands' \subseteq commands /\ taken' = taken
    BY <1>2 DEF InitCheck, InitSpawn, InitOk, InitFail, Send, Recv, GiveUp, tableVars,
       socketVars
  <2>2. \E l \in Label : /\ Goto(c, l)
                         /\ \/ pc[c] \in {"init", "spawn", "await"}
                            \/ l \notin {"init", "spawn", "await", "submit"}
    <3>1. CASE InitCheck(c) \/ InitSpawn(c) \/ InitOk(c) \/ InitFail(c)
      BY <3>1 DEF InitCheck, InitSpawn, InitOk, InitFail, Return, Label
    <3>2. CASE Send(c) \/ Recv(c) \/ GiveUp(c)
      BY <3>2 DEF Send, Recv, GiveUp, Return, Label
    <3> QED BY <1>2, <3>1, <3>2
  <2> QED BY <1>1, <2>1, <2>2
<1>3. CASE Stop
  <2>1. UNCHANGED <<next_tag, calls, commands, taken>>
    BY <1>3 DEF Stop, StopBegin, StopFallback, StopJoin, tableVars, socketVars
  <2>2. UNCHANGED pc \/ \E l \in Label : Goto("stop", l)
    BY <1>3 DEF Stop, StopBegin, StopFallback, StopJoin, Label
  <2> QED BY <1>1, <2>1, <2>2 DEF Caller
<1>4. CASE WorkerStart \/ WorkerStartFails \/ WorkerPoll \/ WorkerStops \/ WorkerTake
           \/ WorkerExecuteStop
  <2>1. UNCHANGED <<next_tag, calls, pc>>
    BY <1>4 DEF WorkerStart, WorkerStartFails, WorkerPoll, WorkerStops, WorkerTake,
       WorkerExecuteStop, callVars, socketVars
  <2>2. commands' \cup taken' \subseteq commands \cup taken
    BY <1>4 DEF WorkerStart, WorkerStartFails, WorkerPoll, WorkerStops, WorkerTake,
       WorkerExecuteStop, tableVars
  <2> QED BY <1>1, <2>1, <2>2
<1>5. CASE \E t \in Tags : Arrive(t) \/ WorkerDeliver(t)
  BY <1>1, <1>5 DEF Arrive, WorkerDeliver, callVars, tableVars
<1>6. CASE UNCHANGED vars
  BY <1>1, <1>6 DEF vars, callVars, tableVars, socketVars
<1> QED BY <1>2, <1>3, <1>4, <1>5, <1>6, CountSubmit, CountRequest, CountExecute,
           NextCases DEF Call, Worker

-----------------------------------------------------------------------------
(* What the queue guarantees.                                               *)

\* The inductive invariant.
Inv ==
    /\ BaseType /\ CallInv /\ InitInv /\ TagInv /\ TableInv /\ Counted
    /\ OkMeansExecuted

\* An "ok" is the result of the caller's own command.
LEMMA OkStep ==
    ASSUME BaseType, CallInv, TableInv, OkMeansExecuted, [Next]_vars
    PROVE  OkMeansExecuted'
<1>0. pc \in [Caller -> Label] /\ result \in [Caller -> Results] /\ cid \in [Caller -> Nat]
  BY DEF BaseType, CallType
<1>1. executed \subseteq executed'
  <2>1. CASE \E c \in Caller : Call(c)
    BY <2>1 DEF Call, InitCheck, InitSpawn, InitOk, InitFail, Submit, Send, Recv,
       GiveUp, histVars
  <2>2. CASE \E c \in Clients, o \in Ops \ {"stop"}, i \in Ids : Request(c, o, i)
    BY <2>2 DEF Request, histVars
  <2>3. CASE Stop
    BY <2>3 DEF Stop, StopBegin, StopFallback, StopJoin, histVars
  <2>4. CASE Worker \/ \E t \in Tags : Arrive(t)
    BY <2>4 DEF Worker, WorkerStart, WorkerStartFails, WorkerPoll, WorkerStops,
       WorkerTake, WorkerExecute, WorkerExecuteStop, WorkerDeliver, Arrive, histVars
  <2>5. CASE UNCHANGED vars
    BY <2>5 DEF vars, histVars
  <2> QED BY <2>1, <2>2, <2>3, <2>4, <2>5, NextCases
<1>2. CASE UNCHANGED <<result, cid>>
  BY <1>1, <1>2 DEF OkMeansExecuted
<1>3. ASSUME NEW c \in Caller, NEW r, Return(c, r), cid' = cid,
             r = "ok" => c = "main" \/ cid[c] \in executed
      PROVE  OkMeansExecuted'
  BY <1>0, <1>1, <1>3 DEF OkMeansExecuted, Return
<1>4. ASSUME NEW c \in Caller, Call(c)
      PROVE  OkMeansExecuted'
  <2>1. CASE InitCheck(c)
    BY <1>2, <1>3, <2>1 DEF InitCheck
  <2>2. CASE InitSpawn(c) \/ Send(c)
    BY <1>2, <2>2 DEF InitSpawn, Send
  <2>3. CASE InitOk(c)
    BY <1>2, <1>3, <2>3 DEF InitOk
  <2>4. CASE InitFail(c) \/ GiveUp(c)
    BY <1>3, <2>4 DEF InitFail, GiveUp
  <2>5. CASE Recv(c)
    BY <1>3, <2>5 DEF Recv, TableInv
  <2>6. CASE Submit(c)
    <3>1. pc[c] = "submit" /\ result' = result
          /\ \A d \in Caller : d # c => cid'[d] = cid[d]
      BY <1>0, <2>6 DEF Submit
    <3>2. result[c] = "none"
      BY <3>1 DEF CallInv, InCall, Caller
    <3> QED BY <1>1, <3>1, <3>2 DEF OkMeansExecuted
  <2> QED BY <1>4, <2>1, <2>2, <2>3, <2>4, <2>5, <2>6 DEF Call
<1>5. ASSUME NEW c \in Clients, NEW o, NEW i, Request(c, o, i)
      PROVE  OkMeansExecuted'
  BY <1>0, <1>1, <1>5 DEF OkMeansExecuted, Request
<1>6. CASE Stop
  BY <1>2, <1>6 DEF Stop, StopBegin, StopFallback, StopJoin
<1>7. CASE UNCHANGED callVars
  BY <1>2, <1>7 DEF callVars
<1> QED BY <1>4, <1>5, <1>6, <1>7, NextCases, WorkerFrame DEF vars

\* The queue starts in order.
LEMMA InvInit == Init => Inv
<1> SUFFICES ASSUME Init PROVE Inv
  OBVIOUS
<1>1. BaseType
  <2>1. CallType
    BY BoundsAssumption DEF Init, CallType, Label, Ops, Results
  <2>2. StateType
    BY DEF Init, StateType, Results
  <2>3. TableType
    BY DEF Init, TableType, Results
  <2>4. SocketType
    BY BoundsAssumption DEF Init, SocketType, NoSub
  <2>5. HistType
    BY DEF Init, HistType
  <2> QED BY <2>1, <2>2, <2>3, <2>4, <2>5 DEF BaseType
<1>2. CallInv
  BY ClientsAssumption DEF Init, CallInv, InCall, Caller
<1>3. InitInv
  BY DEF Init, InitInv, Caller
<1>4. TagInv
  BY DEF Init, TagInv, NoSub
<1>5. TableInv
  BY DEF Init, TableInv, Caller
<1>6. Counted
  <2>1. Waiting = {} /\ Work = {}
    BY ClientsAssumption DEF Init, Waiting, Work, Caller
  <2>2. next_tag = 1 /\ calls = 0
    BY DEF Init
  <2> QED BY <2>1, <2>2, FS_EmptySet DEF Counted
<1>7. OkMeansExecuted
  BY DEF Init, OkMeansExecuted
<1> QED BY <1>1, <1>2, <1>3, <1>4, <1>5, <1>6, <1>7 DEF Inv

\* Every step keeps the invariant.
LEMMA InvStep == Inv /\ [Next]_vars => Inv'
  BY BaseTypeStep, CallInvStep, InitInvStep, TagInvStep, TableInvStep, CountedStep,
     OkStep DEF Inv

\* The invariant holds in every state the queue can reach.
THEOREM MqInvariant == Spec => []Inv
  BY InvInit, InvStep, PTL DEF Spec

\* Types, tags included: at most MaxCommands subscribers ever get one.
LEMMA InvTypeOK == Inv => TypeOK
<1> SUFFICES ASSUME Inv PROVE TypeOK
  OBVIOUS
<1>1. BaseType /\ TagInv /\ Counted
  BY DEF Inv
<1>2. next_tag \in Nat \ {0} /\ next_tag - 1 <= MaxCommands
  <2>1. next_tag \in Nat \ {0} /\ calls \in Nat /\ calls <= MaxCommands
    BY <1>1, BoundsAssumption DEF BaseType, SocketType, CallType
  <2>2. (next_tag - 1) + Cardinality(Waiting) + Cardinality(Work) <= calls
    BY <1>1 DEF Counted
  <2> QED BY <1>1, <2>1, <2>2, CountNat, BoundsAssumption
<1>3. subscribers \in [Ids -> Tags \cup {NoSub}]
  <2>1. \A i \in Ids : subscribers[i] \in Nat /\ subscribers[i] < next_tag
    BY <1>1 DEF BaseType, SocketType, TagInv
  <2>2. \A n \in Nat : n < next_tag => n \in Tags \cup {NoSub}
    BY <1>2, BoundsAssumption DEF Tags, NoSub
  <2> QED BY <1>1, <2>1, <2>2 DEF BaseType, SocketType
<1>4. removed \subseteq Tags
  <2>1. \A n \in removed : n \in Nat /\ n # 0 /\ n < next_tag
    BY <1>1 DEF BaseType, HistType, TagInv, NoSub
  <2> QED BY <1>2, <2>1, BoundsAssumption DEF Tags
<1>5. pending \in [Tags -> 0..MaxMessages]
  BY <1>1, BoundsAssumption DEF BaseType, SocketType
<1>6. /\ entry \in EntryPoints
      /\ worker \in {"none", "starting", "poll", "execute", "ended"}
      /\ ready \in {"none", "ok", "fail"}
      /\ initialized \in BOOLEAN /\ stop_requested \in BOOLEAN
      /\ ctxDown \in BOOLEAN /\ initFailed \in BOOLEAN /\ crashed \in BOOLEAN
  BY <1>1 DEF BaseType, StateType, HistType, Results
<1>7. /\ pc \in [Caller -> {"idle", "init", "spawn", "await", "submit", "send",
                            "recv", "fallback", "join", "done"}]
      /\ op \in [Caller -> Ops] /\ sub \in [Caller -> Ids]
      /\ cid \in [Caller -> Nat] /\ result \in [Caller -> {"none", "ok", "fail"}]
      /\ calls \in 0..MaxCommands
  BY <1>1 DEF BaseType, CallType, Label, Results
<1>8. /\ commands \subseteq [id : Nat, from : Caller, op : Ops, sub : Ids]
      /\ taken \subseteq [id : Nat, from : Caller, op : Ops, sub : Ids]
      /\ next_id \in Nat /\ inbox \in Seq(Nat)
      /\ reply \in [Caller -> {"none", "ok", "fail"}]
  BY <1>1 DEF BaseType, TableType, Entry, Results
<1>9. /\ batch \subseteq Tags \cup {ControlTag} /\ arrived \in 0..MaxMessages
      /\ executed \subseteq Nat
  BY <1>1 DEF BaseType, SocketType, HistType
<1> QED BY <1>2, <1>3, <1>4, <1>5, <1>6, <1>7, <1>8, <1>9 DEF TypeOK

\* Every variable has its type; in particular the tags that _subscribe gives
\* never run past the calls that were made.
THEOREM MqTypeCorrect == Spec => []TypeOK
  BY MqInvariant, InvTypeOK, PTL

\* A call of sub, unsub, remove_suber or pub returns 0 only when its own
\* command was executed, however many calls timed out before.
THEOREM OkIsOwnResult == Spec => []OkMeansExecuted
<1>1. Inv => OkMeansExecuted
  BY DEF Inv
<1> QED BY <1>1, MqInvariant, PTL

\* Neither a second std::thread assigned to _thread nor a second join ends the
\* process, unless an init has failed.
THEOREM TerminateOnlyAfterFailedInit == Spec => []TerminateNeedsFailedInit
<1>1. Inv => TerminateNeedsFailedInit
  BY DEF Inv, InitInv, TerminateNeedsFailedInit
<1> QED BY <1>1, MqInvariant, PTL

\* A message of an event polled before remove_suber was executed is not
\* delivered after it.
THEOREM RemovedGetsNothing == Spec => NoDeliveryAfterRemove
<1> DEFINE A == \A t \in removed : WorkerDeliver(t) => pending'[t] = pending[t]
<1>1. Inv /\ [Next]_vars => [A]_vars
  <2> SUFFICES ASSUME Inv, NEW t \in removed, WorkerDeliver(t)
               PROVE  pending'[t] = pending[t]
    OBVIOUS
  <2> QED BY DEF WorkerDeliver, Inv, TagInv
<1> QED BY <1>1, MqInvariant, PTL DEF Spec, NoDeliveryAfterRemove

-----------------------------------------------------------------------------
(* The queue implements MqService.                                          *)

\* The calls, the results and the subscribers as the service sees them.
SPhase == [c \in Callers |-> ServicePhase(c)]
SCmd == [c \in Callers |-> ServiceCommand(op[c], sub[c])]
SOutcome == [c \in Callers |-> result[c]]
SAnswer == [c \in Callers |-> reply[c]]
SSubs == [i \in Ids |-> IF subscribers[i] = NoSub THEN "none" ELSE "callback"]

\* Where a call is, as the service sees it.
LEMMA PhaseOf ==
    ASSUME TableInv, NEW c \in Callers
    PROVE  /\ pc[c] \in {"idle", "fallback", "join", "done"} => ServicePhase(c) = "idle"
           /\ pc[c] \in {"init", "spawn", "await", "submit", "send"}
                 => ServicePhase(c) = "pending"
           /\ ServicePhase(c) = "answered" <=> reply[c] # "none"
           /\ ServicePhase(c) = "taken" <=> \E k \in taken : k.from = c /\ Current(k)
  BY DEF ServicePhase, TableInv, Current, Callers, Caller

\* The same of the next state.
LEMMA PhaseOfNext ==
    ASSUME TableInv', NEW c \in Callers
    PROVE  /\ pc'[c] \in {"idle", "fallback", "join", "done"} => ServicePhase(c)' = "idle"
           /\ pc'[c] \in {"init", "spawn", "await", "submit", "send"}
                 => ServicePhase(c)' = "pending"
           /\ ServicePhase(c)' = "answered" <=> reply'[c] # "none"
           /\ ServicePhase(c)' = "taken" <=> \E k \in taken' : k.from = c /\ Current(k)'
  BY DEF ServicePhase, TableInv, Current, Callers, Caller

\* Who waits for a command is seen from the phases.
LEMMA TakenFrame ==
    ASSUME taken' = taken,
           \A k \in taken : ServicePhase(k.from)' = "taken" <=> ServicePhase(k.from) = "taken"
    PROVE  ServiceTaken' = ServiceTaken
  BY DEF ServiceTaken

\* A step that changes nothing the service shows is a stutter.
LEMMA ServiceStutter ==
    ASSUME SPhase' = SPhase, SCmd' = SCmd, SOutcome' = SOutcome, SAnswer' = SAnswer,
           ServiceTaken' = ServiceTaken, SSubs' = SSubs
    PROVE  UNCHANGED Service!mqVars
  BY DEF Service!mqVars, SPhase, SCmd, SOutcome, SAnswer, SSubs, Callers

\* What the service sees of a step that concerns caller c at most.
OthersStay(c) ==
    /\ \A d \in Callers : d # c => ServicePhase(d)' = ServicePhase(d)
    /\ \A d \in Callers : d # c => result'[d] = result[d] /\ reply'[d] = reply[d]

\* A call that waits where it waited.
LEMMA ServiceWaits ==
    ASSUME NEW c, OthersStay(c),
           c \in Callers => /\ ServicePhase(c)' = ServicePhase(c)
                            /\ result'[c] = result[c] /\ reply'[c] = reply[c],
           UNCHANGED <<op, sub, subscribers>>, ServiceTaken' = ServiceTaken
    PROVE  UNCHANGED Service!mqVars
<1>1. SPhase' = SPhase
  BY DEF SPhase, OthersStay, Callers
<1>2. SOutcome' = SOutcome /\ SAnswer' = SAnswer
  BY DEF SOutcome, SAnswer, OthersStay, Callers
<1>3. SCmd' = SCmd /\ SSubs' = SSubs
  BY DEF SCmd, SSubs, Callers
<1> QED BY <1>1, <1>2, <1>3, ServiceStutter

\* A call that begins.
LEMMA ServiceCall ==
    ASSUME NEW c \in Callers, OthersStay(c), NEW o \in Ops, NEW i \in Ids,
           ServicePhase(c) = "idle", ServicePhase(c)' = "pending",
           result'[c] = "none", reply'[c] = reply[c],
           \A d \in Callers : d # c => op'[d] = op[d] /\ sub'[d] = sub[d],
           op'[c] = o, sub'[c] = i,
           UNCHANGED subscribers, ServiceTaken' = ServiceTaken
    PROVE  Service!MqNext
<1>1. SPhase[c] = "idle" /\ SPhase' = [SPhase EXCEPT ![c] = "pending"]
  BY DEF SPhase, OthersStay, Callers
<1>2. /\ SOutcome' = [SOutcome EXCEPT ![c] = "none"]
      /\ SAnswer' = SAnswer
  BY DEF SOutcome, SAnswer, OthersStay, Callers
<1>3. /\ SCmd' = [SCmd EXCEPT ![c] = ServiceCommand(o, i)]
      /\ ServiceCommand(o, i) \in Service!Command
  BY DEF SCmd, Callers, ServiceCommand, Service!Command, Ops
<1>4. SSubs' = SSubs
  BY DEF SSubs
<1>5. Service!MqCall(c, ServiceCommand(o, i))
  BY <1>1, <1>2, <1>3, <1>4 DEF Service!MqCall, SPhase, SCmd, SOutcome, SAnswer, SSubs,
     Callers
<1> QED BY <1>3, <1>5 DEF Service!MqNext, Callers

\* A call that returns the result of its command.
LEMMA ServiceReturn ==
    ASSUME NEW c \in Callers, OthersStay(c),
           ServicePhase(c) = "answered", ServicePhase(c)' = "idle",
           result'[c] = reply[c], reply'[c] = "none",
           UNCHANGED <<op, sub, subscribers>>, ServiceTaken' = ServiceTaken
    PROVE  Service!MqNext
<1>1. SPhase[c] = "answered" /\ SPhase' = [SPhase EXCEPT ![c] = "idle"]
  BY DEF SPhase, OthersStay, Callers
<1>2. /\ SOutcome' = [SOutcome EXCEPT ![c] = SAnswer[c]]
      /\ SAnswer' = [SAnswer EXCEPT ![c] = "none"]
  BY DEF SOutcome, SAnswer, OthersStay, Callers
<1>3. SCmd' = SCmd /\ SSubs' = SSubs
  BY DEF SCmd, SSubs, Callers
<1>4. Service!MqReturn(c)
  BY <1>1, <1>2, <1>3 DEF Service!MqReturn, SPhase, SCmd, SOutcome, SAnswer, SSubs, Callers
<1> QED BY <1>4 DEF Service!MqNext, Callers

\* A call that fails.
LEMMA ServiceGiveUp ==
    ASSUME NEW c \in Callers, OthersStay(c),
           ServicePhase(c) # "idle", ServicePhase(c)' = "idle",
           result'[c] = "fail", reply'[c] = "none",
           UNCHANGED <<op, sub, subscribers>>,
           ServiceTaken' = IF ServicePhase(c) = "taken"
                             THEN {[t EXCEPT !.from = "nobody"] : t \in ServiceTaken}
                             ELSE ServiceTaken
    PROVE  Service!MqNext
<1>1. /\ SPhase[c] # "idle" /\ SPhase' = [SPhase EXCEPT ![c] = "idle"]
      /\ SPhase[c] = ServicePhase(c)
  BY DEF SPhase, OthersStay, Callers
<1>2. /\ SOutcome' = [SOutcome EXCEPT ![c] = "fail"]
      /\ SAnswer' = [SAnswer EXCEPT ![c] = "none"]
  BY DEF SOutcome, SAnswer, OthersStay, Callers
<1>3. SCmd' = SCmd /\ SSubs' = SSubs
  BY DEF SCmd, SSubs, Callers
<1>4. Service!MqGiveUp(c)
  BY <1>1, <1>2, <1>3 DEF Service!MqGiveUp, SPhase, SCmd, SOutcome, SAnswer, SSubs, Callers
<1> QED BY <1>4 DEF Service!MqNext, Callers

\* A command that is taken.
LEMMA ServiceTake ==
    ASSUME NEW c \in Callers, OthersStay(c),
           ServicePhase(c) = "pending", ServicePhase(c)' = "taken",
           result'[c] = result[c], reply'[c] = reply[c],
           UNCHANGED <<op, sub, subscribers>>, ServiceTaken = {},
           ServiceTaken' = {[from |-> c, cmd |-> ServiceCommand(op[c], sub[c])]}
    PROVE  Service!MqNext
<1>1. SPhase[c] = "pending" /\ SPhase' = [SPhase EXCEPT ![c] = "taken"]
  BY DEF SPhase, OthersStay, Callers
<1>2. SOutcome' = SOutcome /\ SAnswer' = SAnswer
  BY DEF SOutcome, SAnswer, OthersStay, Callers
<1>3. SCmd' = SCmd /\ SSubs' = SSubs /\ SCmd[c] = ServiceCommand(op[c], sub[c])
  BY DEF SCmd, SSubs, Callers
<1>4. Service!MqTake(c)
  BY <1>1, <1>2, <1>3 DEF Service!MqTake, SPhase, SCmd, SOutcome, SAnswer, SSubs, Callers
<1> QED BY <1>4 DEF Service!MqNext, Callers

\* A caller whose place, command and result a step leaves alone.
LEMMA PhaseFrame ==
    ASSUME taken' = taken, NEW d,
           pc'[d] = pc[d], cid'[d] = cid[d], reply'[d] = reply[d]
    PROVE  ServicePhase(d)' = ServicePhase(d)
  BY DEF ServicePhase

\* Steps of a caller c that leave the others and the taken command alone.
LEMMA CallerFrame ==
    ASSUME BaseType, TableInv, taken' = taken, NEW c \in Caller,
           \A d \in Caller : d # c => /\ pc'[d] = pc[d] /\ cid'[d] = cid[d]
                                      /\ reply'[d] = reply[d] /\ result'[d] = result[d]
    PROVE  /\ OthersStay(c)
           /\ (c \in Callers => (ServicePhase(c)' = "taken" <=> ServicePhase(c) = "taken"))
                => ServiceTaken' = ServiceTaken
<1>1. \A d \in Callers : d # c => ServicePhase(d)' = ServicePhase(d)
  BY PhaseFrame DEF Callers, Caller
<1>2. \A k \in taken : k.from \in Callers
  BY DEF BaseType, TableType, Entry, TableInv, Callers, Caller
<1> QED BY <1>1, <1>2, TakenFrame DEF OthersStay, Callers, Caller

\* The steps of a call before its command is in the table.
LEMMA InitRefines ==
    ASSUME Inv, Inv', NEW c \in Caller,
           InitCheck(c) \/ InitSpawn(c) \/ InitOk(c) \/ InitFail(c)
    PROVE  Service!MqNext \/ UNCHANGED Service!mqVars
<1>0. /\ BaseType /\ TableInv /\ TableInv' /\ pc \in [Caller -> Label]
      /\ result \in [Caller -> Results] /\ reply \in [Caller -> Results]
      /\ Callers = Caller \ {"main"}
  BY ClientsAssumption DEF Inv, BaseType, CallType, TableType, Callers, Caller
<1>1. /\ UNCHANGED <<op, sub, cid, reply, taken, subscribers>>
      /\ pc[c] \in {"init", "spawn", "await"}
  BY DEF InitCheck, InitSpawn, InitOk, InitFail, tableVars, socketVars
<1>2. CASE \E l \in {"submit", "spawn", "await"} : Goto(c, l) /\ UNCHANGED result
  <2>1. /\ pc'[c] \in {"submit", "spawn", "await"}
        /\ \A d \in Caller : d # c => pc'[d] = pc[d]
    BY <1>0, <1>2 DEF Goto
  <2>2. c \in Callers => ServicePhase(c)' = "pending" /\ ServicePhase(c) = "pending"
    BY <1>0, <1>1, <2>1, PhaseOf, PhaseOfNext
  <2>3. OthersStay(c) /\ ServiceTaken' = ServiceTaken
    BY <1>0, <1>1, <1>2, <2>1, <2>2, CallerFrame
  <2> QED BY <1>1, <1>2, <2>2, <2>3, ServiceWaits
<1>3. CASE \E r \in Results : Return(c, r) /\ (r = "fail" \/ c = "main")
  <2>1. PICK r \in Results : Return(c, r) /\ (r = "fail" \/ c = "main")
    BY <1>3
  <2>2. /\ pc'[c] \in {"idle", "fallback"} /\ result'[c] = r
        /\ \A d \in Caller : d # c => pc'[d] = pc[d] /\ result'[d] = result[d]
    BY <1>0, <2>1 DEF Return, Goto
  <2>3. c \in Callers => /\ ServicePhase(c)' = "idle" /\ ServicePhase(c) = "pending"
                         /\ reply[c] = "none"
    BY <1>0, <1>1, <2>2, PhaseOf, PhaseOfNext
  <2>4. OthersStay(c) /\ ServiceTaken' = ServiceTaken
    BY <1>0, <1>1, <2>2, <2>3, CallerFrame
  <2>5. CASE c \in Callers
    BY <1>0, <1>1, <2>1, <2>2, <2>3, <2>4, <2>5, ServiceGiveUp
  <2>6. CASE c \notin Callers
    BY <1>1, <2>4, <2>6, ServiceWaits
  <2> QED BY <2>5, <2>6
<1>4. \/ \E l \in {"submit", "spawn", "await"} : Goto(c, l) /\ UNCHANGED result
      \/ \E r \in Results : Return(c, r) /\ (r = "fail" \/ c = "main")
  BY DEF InitCheck, InitSpawn, InitOk, InitFail, Results
<1> QED BY <1>2, <1>3, <1>4

\* The command is put into the table and its id is sent: the call waits on.
LEMMA SubmitRefines ==
    ASSUME Inv, Inv', NEW c \in Caller, Submit(c) \/ Send(c)
    PROVE  UNCHANGED Service!mqVars
<1>0. /\ BaseType /\ TableInv /\ TableInv' /\ pc \in [Caller -> Label]
      /\ cid \in [Caller -> Nat] /\ Callers = Caller \ {"main"} /\ CallInv
  BY ClientsAssumption DEF Inv, BaseType, CallType, Callers, Caller
<1>1. /\ UNCHANGED <<op, sub, reply, taken, subscribers, result>>
      /\ \A d \in Caller : d # c => cid'[d] = cid[d] /\ pc'[d] = pc[d]
  BY <1>0 DEF Submit, Send, Goto, socketVars
<1>2. c \in Callers
  BY <1>0 DEF Submit, Send, CallInv
<1>3. ServicePhase(c)' = ServicePhase(c)
  <2>1. CASE Submit(c)
    <3>1. pc[c] = "submit" /\ pc'[c] = "send"
      BY <1>0, <2>1 DEF Submit, Goto
    <3> QED BY <1>0, <1>2, <3>1, PhaseOf, PhaseOfNext
  <2>2. CASE Send(c)
    <3>1. pc[c] = "send" /\ pc'[c] = "recv" /\ cid' = cid
      BY <1>0, <2>2 DEF Send, Goto
    <3> QED BY <1>1, <3>1 DEF ServicePhase
  <2> QED BY <2>1, <2>2
<1>4. OthersStay(c) /\ ServiceTaken' = ServiceTaken
  BY <1>0, <1>1, <1>3, CallerFrame
<1> QED BY <1>1, <1>3, <1>4, ServiceWaits

\* The result that a call returns is the answer to it.
LEMMA RecvRefines ==
    ASSUME Inv, Inv', NEW c \in Caller, Recv(c)
    PROVE  Service!MqNext
<1>0. /\ BaseType /\ TableInv /\ TableInv' /\ pc \in [Caller -> Label]
      /\ result \in [Caller -> Results] /\ reply \in [Caller -> Results]
      /\ Callers = Caller \ {"main"} /\ CallInv
  BY ClientsAssumption DEF Inv, BaseType, CallType, TableType, Callers, Caller
<1>1. /\ UNCHANGED <<op, sub, cid, taken, subscribers>>
      /\ pc[c] = "recv" /\ pc'[c] \in {"idle", "fallback"} /\ reply[c] # "none"
      /\ result'[c] = reply[c] /\ reply'[c] = "none"
      /\ \A d \in Caller : d # c => /\ pc'[d] = pc[d] /\ reply'[d] = reply[d]
                                    /\ result'[d] = result[d]
  BY <1>0 DEF Recv, Return, Goto, socketVars
<1>2. c \in Callers
  BY <1>0, <1>1 DEF CallInv
<1>3. ServicePhase(c)' = "idle" /\ ServicePhase(c) = "answered"
  BY <1>0, <1>1, <1>2, PhaseOf, PhaseOfNext
<1>4. OthersStay(c) /\ ServiceTaken' = ServiceTaken
  BY <1>0, <1>1, <1>3, CallerFrame
<1> QED BY <1>1, <1>2, <1>3, <1>4, ServiceReturn

\* A call that gives up leaves a taken command without a caller.
LEMMA GiveUpRefines ==
    ASSUME Inv, Inv', NEW c \in Caller, GiveUp(c)
    PROVE  Service!MqNext
<1>0. /\ BaseType /\ TableInv /\ TableInv' /\ pc \in [Caller -> Label]
      /\ result \in [Caller -> Results] /\ reply \in [Caller -> Results]
      /\ Callers = Caller \ {"main"} /\ CallInv
  BY ClientsAssumption DEF Inv, BaseType, CallType, TableType, Callers, Caller
<1>1. /\ UNCHANGED <<op, sub, cid, taken, subscribers>>
      /\ pc[c] \in {"send", "recv"} /\ pc'[c] \in {"idle", "fallback"}
      /\ result'[c] = "fail" /\ reply'[c] = "none"
      /\ \A d \in Caller : d # c => /\ pc'[d] = pc[d] /\ reply'[d] = reply[d]
                                    /\ result'[d] = result[d]
  BY <1>0 DEF GiveUp, Return, Goto, socketVars
<1>2. c \in Callers
  BY <1>0, <1>1 DEF CallInv
<1>3. ServicePhase(c)' = "idle" /\ ServicePhase(c) # "idle"
  <2>1. ServicePhase(c)' = "idle"
    BY <1>0, <1>1, <1>2, PhaseOfNext
  <2>2. ServicePhase(c) # "idle"
    BY <1>1 DEF ServicePhase
  <2> QED BY <2>1, <2>2
<1>4. OthersStay(c)
  BY <1>0, <1>1, CallerFrame
<1>5. CASE ServicePhase(c) # "taken"
  <2>1. ServiceTaken' = ServiceTaken
    BY <1>0, <1>1, <1>3, <1>5, CallerFrame
  <2> QED BY <1>1, <1>2, <1>3, <1>4, <1>5, <2>1, ServiceGiveUp
<1>6. CASE ServicePhase(c) = "taken"
  <2>1. PICK k \in taken : k.from = c /\ Current(k)
    BY <1>0, <1>2, <1>6, PhaseOf
  <2>2. taken = {k}
    BY <1>0 DEF TableInv
  <2>3. ServiceTaken = {[from |-> c, cmd |-> ServiceCommand(k.op, k.sub)]}
    BY <1>6, <2>1, <2>2 DEF ServiceTaken
  <2>4. ServiceTaken' = {[from |-> "nobody", cmd |-> ServiceCommand(k.op, k.sub)]}
    BY <1>1, <1>3, <2>1, <2>2 DEF ServiceTaken
  <2>5. ServiceTaken' = {[t EXCEPT !.from = "nobody"] : t \in ServiceTaken}
    BY <2>3, <2>4
  <2> QED BY <1>1, <1>2, <1>3, <1>4, <1>6, <2>5, ServiceGiveUp
<1> QED BY <1>5, <1>6

\* A client's call begins.
LEMMA RequestRefines ==
    ASSUME Inv, Inv', NEW c \in Clients, NEW o \in Ops, NEW i \in Ids, Request(c, o, i)
    PROVE  Service!MqNext
<1>0. /\ BaseType /\ TableInv /\ TableInv' /\ pc \in [Caller -> Label]
      /\ result \in [Caller -> Results] /\ op \in [Caller -> Ops]
      /\ sub \in [Caller -> Ids] /\ c \in Caller /\ c \in Callers
      /\ Callers \subseteq Caller
  BY DEF Inv, BaseType, CallType, Callers, Caller
<1>1. /\ UNCHANGED <<cid, reply, taken, subscribers>>
      /\ pc[c] = "idle" /\ pc'[c] \in {"submit", "init"} /\ result'[c] = "none"
      /\ op'[c] = o /\ sub'[c] = i
      /\ \A d \in Caller : d # c => /\ pc'[d] = pc[d] /\ result'[d] = result[d]
                                    /\ op'[d] = op[d] /\ sub'[d] = sub[d]
  BY <1>0 DEF Request, Goto, tableVars, socketVars
<1>2. ServicePhase(c) = "idle" /\ ServicePhase(c)' = "pending"
  BY <1>0, <1>1, PhaseOf, PhaseOfNext
<1>3. OthersStay(c) /\ ServiceTaken' = ServiceTaken
  BY <1>0, <1>1, <1>2, CallerFrame
<1> QED BY <1>0, <1>1, <1>2, <1>3, ServiceCall

\* The destructor calls once, with the stop command; the rest of it is not seen.
LEMMA StopRefines ==
    ASSUME Inv, Inv', Stop
    PROVE  Service!MqNext \/ UNCHANGED Service!mqVars
<1>0. /\ BaseType /\ CallInv /\ TableInv /\ TableInv' /\ pc \in [Caller -> Label]
      /\ op \in [Caller -> Ops] /\ sub \in [Caller -> Ids] /\ "stop" \in Caller
      /\ "stop" \in Callers /\ Callers \subseteq Caller
  BY DEF Inv, BaseType, CallType, Callers, Caller
<1>1. UNCHANGED <<op, sub, cid, result, reply, taken, subscribers>>
  BY DEF Stop, StopBegin, StopFallback, StopJoin, tableVars, socketVars
<1>2. \A d \in Caller : d # "stop" => pc'[d] = pc[d]
  BY <1>0 DEF Stop, StopBegin, StopFallback, StopJoin, Goto
<1>3. CASE pc'["stop"] \in {"submit", "init"}
  <2>1. pc["stop"] = "idle" /\ result["stop"] = "none"
    BY <1>0, <1>3 DEF Stop, StopBegin, StopFallback, StopJoin, Goto, CallInv
  <2>2. ServicePhase("stop") = "idle" /\ ServicePhase("stop")' = "pending"
    BY <1>0, <1>3, <2>1, PhaseOf, PhaseOfNext
  <2>3. OthersStay("stop") /\ ServiceTaken' = ServiceTaken
    BY <1>0, <1>1, <1>2, <2>2, CallerFrame
  <2>4. op["stop"] \in Ops /\ sub["stop"] \in Ids
    BY <1>0
  <2> QED BY <1>0, <1>1, <2>1, <2>2, <2>3, <2>4, ServiceCall
<1>4. CASE pc'["stop"] \notin {"submit", "init"}
  <2>1. /\ pc["stop"] \in {"idle", "fallback", "join"}
        /\ pc'["stop"] \in {"fallback", "join", "done"}
    BY <1>0, <1>4 DEF Stop, StopBegin, StopFallback, StopJoin, Goto
  <2>2. ServicePhase("stop") = "idle" /\ ServicePhase("stop")' = "idle"
    BY <1>0, <2>1, PhaseOf, PhaseOfNext
  <2>3. OthersStay("stop") /\ ServiceTaken' = ServiceTaken
    BY <1>0, <1>1, <1>2, <2>2, CallerFrame
  <2> QED BY <1>1, <2>2, <2>3, ServiceWaits
<1> QED BY <1>3, <1>4

\* What the I/O thread does without a command is not seen, but for its end.
LEMMA ThreadRefines ==
    ASSUME UNCHANGED <<callVars, reply, taken>>,
           UNCHANGED subscribers \/ subscribers' = [i \in Ids |-> NoSub]
    PROVE  Service!MqNext \/ UNCHANGED Service!mqVars
<1>1. UNCHANGED <<pc, op, sub, cid, result>>
  BY DEF callVars
<1>2. \A d : ServicePhase(d)' = ServicePhase(d)
  BY <1>1, PhaseFrame
<1>3. ServiceTaken' = ServiceTaken
  BY <1>2, TakenFrame
<1>4. SPhase' = SPhase /\ SCmd' = SCmd /\ SOutcome' = SOutcome /\ SAnswer' = SAnswer
  BY <1>1, <1>2 DEF SPhase, SCmd, SOutcome, SAnswer, Callers
<1>5. CASE UNCHANGED subscribers
  <2>1. SSubs' = SSubs
    BY <1>5 DEF SSubs
  <2> QED BY <1>3, <1>4, <2>1, ServiceStutter
<1>6. CASE subscribers' = [i \in Ids |-> NoSub]
  <2>1. SSubs' = [i \in Ids |-> "none"]
    BY <1>6 DEF SSubs
  <2>2. Service!MqShutdown
    BY <1>3, <1>4, <2>1 DEF Service!MqShutdown, SPhase, SCmd, SOutcome, SAnswer, SSubs,
       Callers
  <2> QED BY <2>2 DEF Service!MqNext
<1> QED BY <1>5, <1>6

\* A command that is found is that of a call that waits for it.
LEMMA TakeRefines ==
    ASSUME Inv, Inv', WorkerTake
    PROVE  Service!MqNext \/ UNCHANGED Service!mqVars
<1>0. BaseType /\ TableInv /\ TableInv' /\ Callers = Caller \ {"main"}
  BY ClientsAssumption DEF Inv, Callers, Caller
<1>1. /\ UNCHANGED <<callVars, pc, op, sub, cid, result, reply, subscribers>>
      /\ taken' \subseteq commands /\ taken = {}
  BY <1>0 DEF WorkerTake, callVars, TableInv
<1>2. CASE taken' = {}
  BY <1>1, <1>2, ThreadRefines
<1>3. CASE taken' # {}
  <2>1. PICK k : k \in taken'
    BY <1>3
  <2>2. taken' = {k} /\ k \in commands
    BY <1>0, <1>1, <2>1 DEF TableInv
  <2>3. /\ k.from \in Callers /\ Current(k) /\ Current(k)'
        /\ k.op = op[k.from] /\ k.sub = sub[k.from]
    BY <1>0, <1>1, <2>2 DEF TableInv, Current, BaseType, TableType, Entry
  <2>4. ServicePhase(k.from)' = "taken"
    BY <1>0, <2>2, <2>3, PhaseOfNext
  <2>5. ServicePhase(k.from) = "pending"
    BY <1>0, <1>1, <2>2, <2>3 DEF ServicePhase, TableInv, Current
  <2>6. OthersStay(k.from)
    BY <1>1, <2>2 DEF OthersStay, ServicePhase
  <2>7. ServiceTaken = {}
    BY <1>1 DEF ServiceTaken
  <2>8. ServiceTaken' = {[from |-> k.from, cmd |-> ServiceCommand(op[k.from], sub[k.from])]}
    BY <1>1, <2>2, <2>3, <2>4 DEF ServiceTaken
  <2> QED BY <1>1, <2>3, <2>4, <2>5, <2>6, <2>7, <2>8, ServiceTake
<1> QED BY <1>2, <1>3

\* What a command does to the subscribers is what the service says.
LEMMA EffectRefines ==
    ASSUME BaseType, NEW k \in taken, NEW rc \in {"ok", "fail"},
           \/ Subscribe(k, rc) \/ Unsubscribe(k, rc) \/ RemoveSubscriber(k, rc)
           \/ Publish(k)
           \/ k.op = "stop" /\ rc = "ok" /\ subscribers' = [i \in Ids |-> NoSub]
    PROVE  Service!MqEffect(ServiceCommand(k.op, k.sub), rc)
<1>0. /\ subscribers \in [Ids -> Nat] /\ next_tag \in Nat \ {0} /\ k.sub \in Ids
      /\ NoSub = 0
  BY DEF BaseType, SocketType, TableType, Entry, NoSub
<1>1. /\ ServiceCommand(k.op, k.sub).op = k.op /\ ServiceCommand(k.op, k.sub).sub = k.sub
      /\ ServiceCommand(k.op, k.sub).recv = "callback"
  BY DEF ServiceCommand
<1>2. SSubs[k.sub] = "none" <=> subscribers[k.sub] = NoSub
  BY <1>0 DEF SSubs
<1>3. CASE Subscribe(k, rc)
  <2>1. SSubs' = IF rc = "fail" /\ SSubs[k.sub] = "none" THEN SSubs
                 ELSE [SSubs EXCEPT ![k.sub] = "callback"]
    <3>1. CASE subscribers[k.sub] # NoSub
      BY <1>0, <1>2, <1>3, <3>1 DEF Subscribe, SSubs
    <3>2. CASE subscribers[k.sub] = NoSub /\ rc = "fail"
      BY <1>2, <1>3, <3>2 DEF Subscribe, SSubs
    <3>3. CASE subscribers[k.sub] = NoSub /\ rc = "ok"
      <4>1. /\ subscribers'[k.sub] # NoSub
            /\ \A i \in Ids : i # k.sub => subscribers'[i] = subscribers[i]
        BY <1>0, <1>3, <3>3 DEF Subscribe
      <4> QED BY <1>0, <3>3, <4>1 DEF SSubs
    <3> QED BY <3>1, <3>2, <3>3
  <2> QED BY <1>1, <1>3, <2>1 DEF Service!MqEffect, SSubs, Subscribe
<1>4. CASE Unsubscribe(k, rc)
  BY <1>1, <1>2, <1>4 DEF Service!MqEffect, SSubs, Unsubscribe
<1>5. CASE RemoveSubscriber(k, rc)
  <2>1. SSubs' = [SSubs EXCEPT ![k.sub] = "none"]
    <3>1. /\ subscribers'[k.sub] = NoSub
          /\ \A i \in Ids : i # k.sub => subscribers'[i] = subscribers[i]
      BY <1>0, <1>5 DEF RemoveSubscriber
    <3> QED BY <1>0, <3>1 DEF SSubs
  <2> QED BY <1>1, <1>2, <1>5, <2>1 DEF Service!MqEffect, SSubs, RemoveSubscriber
<1>6. CASE Publish(k)
  BY <1>1, <1>6 DEF Service!MqEffect, Publish
<1>7. CASE k.op = "stop" /\ rc = "ok" /\ subscribers' = [i \in Ids |-> NoSub]
  <2>1. SSubs' = [i \in Ids |-> "none"]
    BY <1>7 DEF SSubs
  <2> QED BY <1>1, <1>7, <2>1 DEF Service!MqEffect, SSubs
<1> QED BY <1>3, <1>4, <1>5, <1>6, <1>7

\* A command is executed once; its result goes to its call, or nowhere.
LEMMA ExecuteRefines ==
    ASSUME Inv, Inv', NEW k \in taken, NEW rc \in {"ok", "fail"},
           Service!MqEffect(ServiceCommand(k.op, k.sub), rc),
           SendControlResult(k, rc), taken' = {}, UNCHANGED callVars
    PROVE  Service!MqNext
<1>0. /\ BaseType /\ TableInv /\ TableInv' /\ Callers = Caller \ {"main"}
      /\ reply \in [Caller -> Results] /\ "nobody" \notin Callers
  BY ClientsAssumption DEF Inv, BaseType, TableType, Callers, Caller
<1>1. UNCHANGED <<pc, op, sub, cid, result>>
  BY DEF callVars
<1>2. taken = {k} /\ k.from \in Callers
  BY <1>0 DEF TableInv, BaseType, TableType, Entry
<1>3. SCmd' = SCmd /\ SOutcome' = SOutcome
  BY <1>1 DEF SCmd, SOutcome, Callers
<1>4. ServiceTaken' = {}
  BY DEF ServiceTaken
<1>5. \A d \in Callers : d # k.from /\ reply'[d] = reply[d]
                           => ServicePhase(d)' = ServicePhase(d)
  BY <1>1, <1>2 DEF ServicePhase
<1>6. PICK t : t = [from |-> IF ServicePhase(k.from) = "taken" THEN k.from ELSE "nobody",
                    cmd |-> ServiceCommand(k.op, k.sub)]
  OBVIOUS
<1>7. /\ t \in ServiceTaken /\ t.cmd = ServiceCommand(k.op, k.sub)
      /\ t.from = IF ServicePhase(k.from) = "taken" THEN k.from ELSE "nobody"
  BY <1>2, <1>6 DEF ServiceTaken
<1>8. CASE ServicePhase(k.from) = "taken"
  <2>1. Current(k) /\ pc[k.from] = "recv" /\ cid[k.from] = k.id
    BY <1>0, <1>2, <1>8, PhaseOf DEF TableInv, Current
  <2>2. reply' = [reply EXCEPT ![k.from] = rc]
    BY <2>1 DEF SendControlResult
  <2>3. ServicePhase(k.from)' = "answered"
    BY <1>0, <1>2, <2>2, PhaseOfNext
  <2>4. SPhase' = [SPhase EXCEPT ![k.from] = "answered"]
    BY <1>0, <1>2, <1>5, <2>2, <2>3 DEF SPhase
  <2>5. SAnswer' = [SAnswer EXCEPT ![k.from] = rc]
    BY <1>0, <1>2, <2>2 DEF SAnswer
  <2>6. t.from = k.from /\ t.from # "nobody"
    BY <1>0, <1>2, <1>7, <1>8
  <2>7. /\ Service!MqEffect(t.cmd, rc)
        /\ SPhase' = [SPhase EXCEPT ![t.from] = "answered"]
        /\ SAnswer' = [SAnswer EXCEPT ![t.from] = rc]
    BY <1>7, <2>4, <2>5, <2>6
  <2>8. Service!MqExecute(rc)
    BY <1>3, <1>4, <1>7, <2>6, <2>7 DEF Service!MqExecute, SPhase, SCmd, SOutcome,
       SAnswer, Callers
  <2> QED BY <2>8 DEF Service!MqNext
<1>9. CASE ServicePhase(k.from) # "taken"
  <2>1. ~Current(k)
    BY <1>0, <1>2, <1>9, PhaseOf
  <2>2. reply' = reply
    BY <2>1 DEF SendControlResult, Current
  <2>3. ServicePhase(k.from)' = ServicePhase(k.from)
    BY <1>1, <1>2, <1>9, <2>2 DEF ServicePhase
  <2>4. SPhase' = SPhase /\ SAnswer' = SAnswer
    BY <1>5, <2>2, <2>3 DEF SPhase, SAnswer, Callers
  <2>5. t.from = "nobody"
    BY <1>7, <1>9
  <2>6. Service!MqExecute(rc)
    BY <1>3, <1>4, <1>7, <2>4, <2>5 DEF Service!MqExecute, SPhase, SCmd, SOutcome,
       SAnswer, Callers
  <2> QED BY <2>6 DEF Service!MqNext
<1> QED BY <1>8, <1>9

\* Every step is one of the service's, or a stutter.
LEMMA StepRefines ==
    ASSUME Inv, Inv', [Next]_vars
    PROVE  [Service!MqNext]_(Service!mqVars)
<1>0. BaseType
  BY DEF Inv
<1>1. CASE \E c \in Caller : Call(c)
  BY <1>1, InitRefines, SubmitRefines, RecvRefines, GiveUpRefines DEF Call
<1>2. CASE \E c \in Clients, o \in Ops \ {"stop"}, i \in Ids : Request(c, o, i)
  BY <1>2, RequestRefines
<1>3. CASE Stop
  BY <1>3, StopRefines
<1>4. CASE WorkerStart \/ WorkerStartFails \/ WorkerPoll \/ WorkerStops
  BY <1>4, ThreadRefines DEF WorkerStart, WorkerStartFails, WorkerPoll, WorkerStops,
     WorkerEnd, tableVars, socketVars
<1>5. CASE \E t \in Tags : Arrive(t) \/ WorkerDeliver(t)
  BY <1>5, ThreadRefines DEF Arrive, WorkerDeliver, tableVars
<1>6. CASE WorkerTake
  BY <1>6, TakeRefines
<1>7. CASE WorkerExecute
  <2>1. PICK k \in taken, rc \in {"ok", "fail"} :
          /\ Subscribe(k, rc) \/ Unsubscribe(k, rc) \/ RemoveSubscriber(k, rc)
             \/ Publish(k)
          /\ SendControlResult(k, rc)
    BY <1>7 DEF WorkerExecute
  <2>2. Service!MqEffect(ServiceCommand(k.op, k.sub), rc)
    BY <1>0, <2>1, EffectRefines
  <2> QED BY <1>7, <2>1, <2>2, ExecuteRefines DEF WorkerExecute
<1>8. CASE WorkerExecuteStop
  <2>1. PICK k \in taken : k.op = "stop" /\ SendControlResult(k, "ok")
    BY <1>8 DEF WorkerExecuteStop
  <2>2. Service!MqEffect(ServiceCommand(k.op, k.sub), "ok")
    BY <1>0, <1>8, <2>1, EffectRefines DEF WorkerExecuteStop, WorkerEnd
  <2> QED BY <1>8, <2>1, <2>2, ExecuteRefines DEF WorkerExecuteStop
<1>9. CASE UNCHANGED vars
  BY <1>9, ThreadRefines DEF vars, tableVars, socketVars
<1> QED BY <1>1, <1>2, <1>3, <1>4, <1>5, <1>6, <1>7, <1>8, <1>9, NextCases DEF Worker

\* The service starts where the queue starts.
LEMMA InitRefinesService == Init => Service!MqInit
<1> SUFFICES ASSUME Init PROVE Service!MqInit
  OBVIOUS
<1>1. \A c \in Callers : ServicePhase(c) = "idle"
  BY ClientsAssumption DEF Init, ServicePhase, Callers, Caller
<1>2. SPhase = [c \in Callers |-> "idle"]
  BY <1>1 DEF SPhase
<1>3. SOutcome = [c \in Callers |-> "none"] /\ SAnswer = [c \in Callers |-> "none"]
  BY DEF Init, SOutcome, SAnswer, Callers, Caller
<1>4. ServiceTaken = {} /\ SSubs = [i \in Ids |-> "none"]
  BY DEF Init, ServiceTaken, SSubs
<1>5. SCmd \in [Callers -> Service!Command]
  BY DEF Init, SCmd, ServiceCommand, Service!Command, Callers, Caller
<1> QED BY <1>2, <1>3, <1>4, <1>5 DEF Service!MqInit, SPhase, SOutcome, SAnswer, SCmd,
           SSubs

\* Threads, table, control socket and poller together do what MqService says,
\* for any number of clients, ids, commands and messages.
THEOREM MqImplementsService == Spec => ImplementsService
<1>1. Inv /\ Inv' /\ [Next]_vars => [Service!MqNext]_(Service!mqVars)
  BY StepRefines
<1> QED BY <1>1, MqInvariant, InitRefinesService, PTL
        DEF Spec, ImplementsService, Service!MqServiceSpec
=============================================================================
