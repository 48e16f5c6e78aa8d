-------------------------- MODULE SubscribeProofs --------------------------
(***************************************************************************)
(* Proofs about the Publish, Subscribe and UnSubscribe RPCs, for any number *)
(* of handlers, reactors and users.                                         *)
(***************************************************************************)
EXTENDS Subscribe, FiniteSetTheorems, TLAPS

Command1 == [from : Callers \cup {NoCaller}, cmd : Command]

\* The variables of MqService: at most one command is in execution, and an
\* answer is a result.
QueueType ==
    /\ phase \in [Callers -> {"idle", "pending", "taken", "answered"}]
    /\ cmd \in [Callers -> Command]
    /\ outcome \in [Callers -> {"none", "ok", "fail"}]
    /\ answer \in [Callers -> {"none", "ok", "fail"}]
    /\ taken = {} \/ \E t \in Command1 : taken = {t}
    /\ subs \in [Ids -> Reactors \cup {NoReactor}]

HandlerType ==
    /\ pc \in [Handlers -> {"idle", "create", "sub", "subbed", "delete",
                            "unsub", "unsubbed", "published"}]
    /\ user \in [Handlers -> Ids] /\ hand \in [Handlers -> Reactors \cup {NoReactor}]
    /\ calls \in 0..MaxCalls /\ disturbed \subseteq Ids

ReactorType ==
    /\ life \in [Reactors -> {"none", "live", "dying", "freed"}]
    /\ owner \in [Reactors -> Ids] /\ entry \in [Ids -> Reactors \cup {NoReactor}]
    /\ dpc \in [Reactors -> {"no", "remove", "removing"}]
    /\ then \in [Reactors -> Handlers \cup Reactors]

StreamType ==
    /\ bound \in [Reactors -> BOOLEAN] /\ inflight \in [Reactors -> BOOLEAN]
    /\ cancelled \in [Reactors -> BOOLEAN] /\ finished \in [Reactors -> BOOLEAN]
    /\ misuse \in {"none", "use_after_free", "double_bind"}

BaseType == QueueType /\ HandlerType /\ ReactorType /\ StreamType

\* The life of a reactor: one destructor, run by a handler that is waiting for
\* it or by OnDone; its thread calls the queue only from there.
LifeInv ==
    \A r \in Reactors :
        /\ dpc[r] # "no" <=> life[r] = "dying"
        /\ life[r] \in {"none", "live"} => then[r] = r
        /\ life[r] = "none" => ~bound[r]
        /\ dpc[r] # "no" /\ then[r] # r =>
              then[r] \in Handlers /\ pc[then[r]] = "delete" /\ hand[then[r]] = r
        /\ phase[r] # "idle" => dpc[r] = "removing"
        /\ dpc[r] = "removing" => cmd[r] = QueueCommand("remove", owner[r], r)

\* What a handler has in hand and which command it waits for.
HandOf(h) ==
    /\ hand[h] = NoReactor <=> pc[h] \in {"idle", "create", "published"}
    /\ hand[h] # NoReactor => owner[hand[h]] = user[h] /\ life[hand[h]] # "none"
    /\ pc[h] = "delete" => then[hand[h]] = h /\ life[hand[h]] = "dying"
    /\ phase[h] # "idle" => pc[h] \in {"subbed", "unsubbed", "published"}
    /\ pc[h] = "subbed" => cmd[h] = QueueCommand("subscribe", user[h], hand[h])
    /\ pc[h] = "unsubbed" => cmd[h] = QueueCommand("unsubscribe", user[h], hand[h])
    /\ pc[h] = "published" => cmd[h].op = "publish"
HandInv == \A h \in Handlers : HandOf(h)

\* The entry and the callback of a user belong to a reactor of that user.
OwnInv ==
    \A u \in Ids :
        /\ entry[u] # NoReactor => owner[entry[u]] = u /\ life[entry[u]] # "none"
        /\ subs[u] # NoReactor => owner[subs[u]] = u /\ life[subs[u]] # "none"

\* The command in execution is the one its caller waits for; a command whose
\* caller has given up is for a disturbed user.
TakenInv ==
    /\ \A t \in taken :
          /\ t.cmd.op \in {"subscribe", "unsubscribe", "remove", "publish"}
          /\ t.cmd.op # "publish" =>
                owner[t.cmd.recv] = t.cmd.sub /\ life[t.cmd.recv] # "none"
          /\ t.from = NoCaller => t.cmd.sub \in disturbed
          /\ t.from # NoCaller => phase[t.from] = "taken" /\ t.cmd = cmd[t.from]
    /\ \A c \in Callers : phase[c] = "taken" => \E t \in taken : t.from = c

Working == {"create", "sub", "subbed", "delete", "unsub", "unsubbed"}

\* A user whose calls have neither overlapped nor timed out: at most one
\* handler works for it, at most one reactor of it is not freed, and that one
\* is in the registry, in the handler's hand and, if any, in the queue.
Calm(u) ==
    /\ \A g, h \in Handlers : pc[g] \in Working /\ pc[h] \in Working
                              /\ user[g] = u /\ user[h] = u => g = h
    /\ \A r \in Reactors : owner[r] = u /\ life[r] \in {"live", "dying"} => entry[u] = r
    /\ entry[u] # NoReactor => life[entry[u]] \in {"live", "dying"}
    /\ subs[u] # NoReactor => subs[u] = entry[u]
    /\ \A h \in Handlers : pc[h] \in Working /\ user[h] = u =>
          /\ hand[h] = entry[u]
          /\ pc[h] \notin {"create", "delete"} => life[hand[h]] = "live"
          /\ pc[h] = "subbed" /\ (\/ phase[h] = "idle" /\ outcome[h] = "ok"
                                  \/ phase[h] = "answered" /\ answer[h] = "ok")
                => subs[u] = hand[h]
    /\ \A r \in Reactors : owner[r] = u =>
          /\ dpc[r] = "removing" /\ phase[r] \in {"idle", "answered"} => subs[u] = NoReactor
          /\ bound[r] /\ life[r] = "live" => subs[u] = r

CalmInv == \A u \in Ids \ disturbed : Calm(u)

Shape == LifeInv /\ HandInv /\ OwnInv /\ TakenInv
Inv == BaseType /\ (Running => Shape /\ CalmInv)

-----------------------------------------------------------------------------
(* Types.                                                                   *)

\* Handlers and reactors are the queue's callers; no name is shared.
LEMMA Names ==
    /\ Callers = Handlers \cup Reactors /\ Receivers = Reactors /\ NoReceiver = NoReactor
    /\ NoReactor \notin Reactors /\ NoReactor \notin Handlers /\ NoCaller \notin Callers
    /\ \A h \in Handlers : h \notin Reactors
  BY CallersAssumption, NoReceiverAssumption, NoCallerAssumption

\* The split type invariant is the model's.
LEMMA BaseIsType == BaseType => TypeOK
<1> SUFFICES ASSUME BaseType PROVE TypeOK
  OBVIOUS
<1>1. Cardinality(taken) <= 1 /\ taken \subseteq Command1
  <2>1. CASE taken = {}
    BY <2>1, FS_EmptySet
  <2>2. CASE \E t \in Command1 : taken = {t}
    BY <2>2, FS_Singleton
  <2> QED BY <2>1, <2>2 DEF BaseType, QueueType
<1> QED BY <1>1 DEF TypeOK, BaseType, QueueType, HandlerType, ReactorType, StreamType, Command1

\* The stand-ins are a user and a reactor whenever somebody calls.
LEMMA StandIns ==
    ASSUME NEW u \in Ids, NEW r \in Reactors
    PROVE  AnyUser \in Ids /\ AnyReactor \in Reactors
  BY DEF AnyUser, AnyReactor

\* Init has the types: the queue's own Init says that a caller has a command.
LEMMA InitType == Init => BaseType
<1> SUFFICES ASSUME Init PROVE BaseType
  OBVIOUS
<1>1. \A c \in Callers : cmd[c] \in Command /\ cmd[c].sub = AnyUser /\ cmd[c].recv = AnyReactor
  BY DEF Init, MqInit, QueueCommand
<1>2. \A c \in Callers : AnyUser \in Ids /\ AnyReactor \in Reactors
  BY <1>1, Names DEF Command
<1>3. QueueType
  BY Names DEF Init, MqInit, QueueType
<1>4. HandlerType
  BY <1>2, Names, MaxCallsAssumption DEF Init, HandlerType
<1>5. ReactorType
  BY <1>2, Names DEF Init, ReactorType
<1>6. StreamType
  BY DEF Init, StreamType
<1> QED BY <1>3, <1>4, <1>5, <1>6 DEF BaseType

\* A call of the queue by c.
LEMMA CallType ==
    ASSUME QueueType, NEW c \in Callers, NEW k \in Command, MqCall(c, k)
    PROVE  QueueType'
  BY DEF QueueType, MqCall

\* The queue's own steps keep its types.
LEMMA QueueStepType ==
    ASSUME QueueType, HandlerType, Queue
    PROVE  QueueType' /\ HandlerType'
<1>1. ASSUME NEW c \in Callers, MqTake(c)
      PROVE  QueueType'
  <2>1. [from |-> c, cmd |-> cmd[c]] \in Command1
    BY DEF QueueType, Command1
  <2> QED BY <1>1, <2>1 DEF QueueType, MqTake
<1>2. ASSUME NEW c \in Callers, MqReturn(c)
      PROVE  QueueType'
  BY <1>2 DEF QueueType, MqReturn
<1>3. ASSUME NEW c \in Callers, MqGiveUp(c)
      PROVE  QueueType' /\ cmd[c].sub \in Ids
  <2>1. taken' = {} \/ \E t \in Command1 : taken' = {t}
    <3>1. CASE taken = {}
      BY <1>3, <3>1 DEF MqGiveUp
    <3>2. ASSUME NEW t \in Command1, taken = {t}
          PROVE  \E s \in Command1 : taken' = {s}
      <4>1. [t EXCEPT !.from = NoCaller] \in Command1
        BY DEF Command1
      <4> QED BY <1>3, <3>2, <4>1 DEF MqGiveUp
    <3> QED BY <3>1, <3>2 DEF QueueType
  <2> QED BY <1>3, <2>1 DEF QueueType, MqGiveUp, Command
<1>4. ASSUME NEW rc \in {"ok", "fail"}, MqExecute(rc)
      PROVE  QueueType'
  <2>1. PICK t \in taken : /\ MqEffect(t.cmd, rc)
                           /\ \/ UNCHANGED <<phase, answer>>
                              \/ /\ phase' = [phase EXCEPT ![t.from] = "answered"]
                                 /\ answer' = [answer EXCEPT ![t.from] = rc]
    BY <1>4 DEF MqExecute
  <2>2. t.cmd \in Command
    BY DEF QueueType, Command1
  <2>3. subs' \in [Ids -> Reactors \cup {NoReactor}]
    BY <2>1, <2>2, Names DEF MqEffect, QueueType, Command
  <2>4. phase' \in [Callers -> {"idle", "pending", "taken", "answered"}]
        /\ answer' \in [Callers -> {"none", "ok", "fail"}]
    BY <2>1 DEF QueueType
  <2> QED BY <1>4, <2>3, <2>4 DEF QueueType, MqExecute
<1>5. QueueType'
  BY <1>1, <1>2, <1>3, <1>4 DEF Queue
<1>6. HandlerType'
  BY <1>3 DEF Queue, HandlerType, handlerVars
<1> QED BY <1>5, <1>6

\* A handler or a destructor that calls the queue through a reactor.
LEMMA CallMqType ==
    ASSUME QueueType, ReactorType, StreamType, NEW c \in Callers, NEW r \in Reactors,
           NEW o \in {"subscribe", "unsubscribe", "remove"}, CallMq(c, r, o)
    PROVE  QueueType' /\ misuse' \in {"none", "use_after_free", "double_bind"}
<1>1. QueueCommand(o, owner[r], r) \in Command
  BY Names DEF QueueCommand, Command, ReactorType
<1>2. CASE life[r] = "freed"
  BY <1>2 DEF CallMq, Breach, mqVars, QueueType
<1>3. CASE life[r] # "freed"
  BY <1>1, <1>3, CallType DEF CallMq, StreamType
<1> QED BY <1>2, <1>3

\* Beginning a call, or OnDone, disturbs at most the user it is for.
LEMMA EnterType ==
    ASSUME NEW t, NEW u \in Ids, Enter(t, u), disturbed \subseteq Ids
    PROVE  disturbed' \subseteq Ids /\ disturbed \subseteq disturbed'
           /\ (u \notin disturbed' => ~Busy(t, u) /\ UNCHANGED disturbed)
           /\ \A v \in Ids : v # u => (v \in disturbed' <=> v \in disturbed)
  BY DEF Enter

\* Create takes a reactor that does not exist yet.
Created(h, r) ==
    /\ life[r] = "none"
    /\ life' = [life EXCEPT ![r] = "live"]
    /\ owner' = [owner EXCEPT ![r] = user[h]]
    /\ entry' = [entry EXCEPT ![user[h]] = r]
    /\ hand' = [hand EXCEPT ![h] = r]

\* Create picks it among the unused ones.
LEMMA CreateFacts ==
    ASSUME NEW h \in Handlers, Create(h)
    PROVE  \E r \in Reactors : Created(h, r)
<1>1. PICK r : r = CHOOSE q \in Unused : TRUE
  OBVIOUS
<1>2. r \in Unused
  BY <1>1 DEF Create
<1>3. Created(h, r)
  BY <1>1, <1>2 DEF Create, Created, Unused
<1> QED BY <1>2, <1>3 DEF Unused

\* The handlers' steps keep the types.
LEMMA HandlerStepType ==
    ASSUME BaseType, HandInv, NEW h \in Handlers,
           \/ \E u \in Ids : SubscribeBegin(h, u) \/ UnSubscribeBegin(h, u)
           \/ Create(h) \/ Sub(h) \/ SubOk(h) \/ SubFails(h)
           \/ UnSub(h) \/ UnSubDone(h) \/ PublishBegin(h) \/ PublishDone(h)
    PROVE  BaseType'
<1> USE DEF BaseType
<1>0. h \in Callers /\ (pc[h] \in Working \ {"create"} => hand[h] \in Reactors)
  BY Names DEF HandInv, HandOf, HandlerType, Working
<1>1. ASSUME NEW u \in Ids, SubscribeBegin(h, u) \/ UnSubscribeBegin(h, u)
      PROVE  BaseType'
  <2>1. /\ UNCHANGED <<mqVars, entry, reactorVars, streamVars, misuse>>
        /\ Enter(h, u) /\ calls < MaxCalls /\ calls' = calls + 1
        /\ user' = [user EXCEPT ![h] = u] /\ hand' = [hand EXCEPT ![h] = entry[u]]
    BY <1>1 DEF SubscribeBegin, UnSubscribeBegin, Begin
  <2>2. \E l \in {"create", "sub", "unsub", "idle"} : Goto(h, l)
    BY <1>1 DEF SubscribeBegin, UnSubscribeBegin
  <2>3. calls' \in 0..MaxCalls /\ disturbed' \subseteq Ids
    BY <2>1, EnterType, MaxCallsAssumption DEF HandlerType
  <2>4. HandlerType'
    BY <2>1, <2>2, <2>3 DEF HandlerType, ReactorType, Goto
  <2> QED BY <2>1, <2>4 DEF QueueType, ReactorType, StreamType, mqVars, reactorVars, streamVars
<1>2. CASE Create(h)
  <2>1. PICK r \in Reactors : Created(h, r)
    BY <1>2, CreateFacts
  <2>2. Goto(h, "sub")
        /\ UNCHANGED <<mqVars, user, calls, dpc, then, streamVars, disturbed, misuse>>
    BY <1>2 DEF Create
  <2>3. HandlerType'
    BY <2>1, <2>2 DEF Created, Goto, HandlerType
  <2>4. ReactorType'
    <3>1. user[h] \in Ids
      BY DEF HandlerType
    <3> QED BY <2>1, <2>2, <3>1 DEF Created, ReactorType
  <2> QED BY <2>2, <2>3, <2>4 DEF QueueType, StreamType, mqVars, streamVars
<1>3. CASE Sub(h) \/ UnSub(h)
  <2>1. /\ UNCHANGED <<entry, user, hand, calls, reactorVars, streamVars, disturbed>>
        /\ \E l \in {"subbed", "unsubbed"} : Goto(h, l)
        /\ \E o \in {"subscribe", "unsubscribe"} : CallMq(h, hand[h], o)
        /\ pc[h] \in Working \ {"create"}
    BY <1>3 DEF Sub, UnSub, Working
  <2>2. QueueType' /\ misuse' \in {"none", "use_after_free", "double_bind"}
    BY <1>0, <2>1, CallMqType
  <2> QED BY <2>1, <2>2 DEF Goto, HandlerType, ReactorType, StreamType, reactorVars, streamVars
<1>4. CASE SubOk(h)
  <2>1. misuse' \in {"none", "use_after_free", "double_bind"}
    BY <1>4 DEF SubOk, StreamType
  <2> QED BY <1>4, <2>1 DEF SubOk, Goto, QueueType, HandlerType, ReactorType, StreamType, mqVars,
     reactorVars
<1>5. CASE SubFails(h)
  <2>1. UNCHANGED <<mqVars, entry, user, hand, calls, owner, streamVars, disturbed>>
        /\ Goto(h, "delete")
    BY <1>5 DEF SubFails
  <2>2. ReactorType'
    BY <1>5 DEF SubFails, ReactorType
  <2>3. misuse' \in {"none", "use_after_free", "double_bind"}
    BY <1>5 DEF SubFails, StreamType, Breach
  <2> QED BY <2>1, <2>2, <2>3 DEF Goto, QueueType, HandlerType, StreamType, mqVars, streamVars
<1>6. CASE UnSubDone(h) \/ PublishDone(h)
  BY <1>6 DEF UnSubDone, PublishDone, Goto, QueueType, HandlerType, ReactorType, StreamType,
     mqVars, reactorVars, streamVars
<1>7. CASE PublishBegin(h)
  <2>1. QueueCommand("publish", AnyUser, AnyReactor) \in Command
    <3>1. user[h] \in Ids /\ cmd[h].recv \in Reactors
      BY <1>0, Names DEF HandlerType, QueueType, Command
    <3> QED BY <3>1, StandIns, Names DEF QueueCommand, Command
  <2>2. QueueType'
    BY <1>0, <1>7, <2>1, CallType DEF PublishBegin
  <2>3. calls' \in 0..MaxCalls
    BY <1>7, MaxCallsAssumption DEF PublishBegin, HandlerType
  <2> QED BY <1>7, <2>2, <2>3 DEF PublishBegin, Goto, HandlerType, ReactorType, StreamType,
     reactorVars, streamVars
<1> QED BY <1>1, <1>2, <1>3, <1>4, <1>5, <1>6, <1>7

\* So do the steps of the reactors and of the queue.
LEMMA ReactorStepType ==
    ASSUME BaseType, NEW r \in Reactors,
           \/ Remove(r) \/ Unregister(r) \/ OnDone(r) \/ OnCancel(r)
           \/ \E ok \in BOOLEAN : OnWriteDone(r, ok)
    PROVE  BaseType'
<1> USE DEF BaseType
<1>0. r \in Callers /\ owner[r] \in Ids
  BY Names DEF ReactorType
<1>1. CASE Remove(r)
  <2>1. QueueCommand("remove", owner[r], r) \in Command
    BY <1>0, Names DEF QueueCommand, Command
  <2>2. QueueType'
    BY <1>0, <1>1, <2>1, CallType DEF Remove
  <2> QED BY <1>1, <2>2 DEF Remove, HandlerType, ReactorType, StreamType, handlerVars, streamVars
<1>2. CASE Unregister(r)
  <2>1. HandlerType'
    BY <1>2 DEF Unregister, Goto, HandlerType
  <2>2. ReactorType'
    BY <1>2 DEF Unregister, ReactorType
  <2>3. misuse' \in {"none", "use_after_free", "double_bind"}
    BY <1>2 DEF Unregister, StreamType
  <2> QED BY <1>2, <2>1, <2>2, <2>3 DEF Unregister, QueueType, StreamType, mqVars, streamVars
<1>3. CASE OnDone(r)
  <2>1. disturbed' \subseteq Ids
    BY <1>0, <1>3, EnterType DEF OnDone, HandlerType
  <2> QED BY <1>3, <2>1 DEF OnDone, QueueType, HandlerType, ReactorType, StreamType, mqVars,
     handlerVars, streamVars
<1>4. CASE OnCancel(r)
  BY <1>4 DEF OnCancel, QueueType, HandlerType, ReactorType, StreamType, mqVars,
     handlerVars, reactorVars
<1>5. ASSUME NEW ok \in BOOLEAN, OnWriteDone(r, ok)
      PROVE  BaseType'
  <2>1. cancelled' \in [Reactors -> BOOLEAN] /\ finished' \in [Reactors -> BOOLEAN]
        /\ inflight' \in [Reactors -> BOOLEAN]
    BY <1>5 DEF OnWriteDone, StreamType
  <2> QED BY <1>5, <2>1 DEF OnWriteDone, QueueType, HandlerType, ReactorType, StreamType, mqVars,
     handlerVars, reactorVars
<1> QED BY <1>1, <1>2, <1>3, <1>4, <1>5

\* Every step keeps the types, given what the handlers have in hand.
LEMMA NextType ==
    ASSUME BaseType, Running => HandInv, [Next]_vars
    PROVE  BaseType'
<1>1. CASE Queue
  BY <1>1, QueueStepType DEF BaseType, Queue, ReactorType, StreamType, reactorVars, streamVars
<1>2. ASSUME NEW u \in Ids, Deliver(u)
      PROVE  BaseType'
  <2>1. inflight' \in [Reactors -> BOOLEAN] /\ misuse' \in {"none", "use_after_free", "double_bind"}
    BY <1>2 DEF Deliver, Breach, BaseType, StreamType
  <2> QED BY <1>2, <2>1 DEF Deliver, BaseType, QueueType, HandlerType, ReactorType, StreamType,
     mqVars, handlerVars, reactorVars
<1>3. CASE UNCHANGED vars
  BY <1>3 DEF vars, BaseType, QueueType, HandlerType, ReactorType, StreamType, mqVars,
     handlerVars, reactorVars, streamVars
<1> QED BY <1>1, <1>2, <1>3, HandlerStepType, ReactorStepType DEF Next, Server

-----------------------------------------------------------------------------
(* Steps of the handlers.                                                   *)

\* Reactors that exist keep their owner.
Lasting ==
    \A r \in Reactors : life[r] # "none" => life'[r] # "none" /\ owner'[r] = owner[r]

\* A step that leaves the queue alone.
LEMMA TakenMove ==
    ASSUME QueueType, TakenInv, Lasting, UNCHANGED mqVars, disturbed \subseteq disturbed'
    PROVE  TakenInv'
<1>1. UNCHANGED <<phase, cmd, taken>>
  BY DEF mqVars
<1>2. \A t \in taken : t.cmd.recv \in Reactors
  BY Names DEF QueueType, Command1, Command
<1> QED BY <1>1, <1>2 DEF TakenInv, Lasting

\* A call of the queue by a thread that was not waiting for it.
LEMMA TakenCall ==
    ASSUME QueueType, TakenInv, Lasting, NEW c \in Callers, NEW k, MqCall(c, k),
           disturbed \subseteq disturbed'
    PROVE  TakenInv'
<1>1. /\ phase[c] = "idle" /\ phase'[c] = "pending" /\ UNCHANGED taken
      /\ \A d \in Callers : d # c => phase'[d] = phase[d] /\ cmd'[d] = cmd[d]
  BY DEF MqCall, QueueType
<1>2. \A t \in taken : t.cmd.recv \in Reactors /\ t.from \in Callers \cup {NoCaller}
  BY Names DEF QueueType, Command1, Command
<1> QED BY <1>1, <1>2 DEF TakenInv, Lasting

\* get_active_suber: a calm user's entry is live, for nobody else is at work.
LEMMA BeginStep ==
    ASSUME Inv, Running, NEW h \in Handlers, NEW u \in Ids,
           SubscribeBegin(h, u) \/ UnSubscribeBegin(h, u)
    PROVE  Shape' /\ CalmInv'
<1> USE DEF Inv, BaseType
<1>0. Shape /\ CalmInv /\ h \notin Reactors /\ NoReactor \notin Reactors
  BY Names
<1>1. /\ UNCHANGED <<mqVars, entry, reactorVars, streamVars>>
      /\ pc[h] = "idle" /\ Enter(h, u)
      /\ user' = [user EXCEPT ![h] = u] /\ hand' = [hand EXCEPT ![h] = entry[u]]
      /\ \E l : /\ Goto(h, l)
                /\ entry[u] = NoReactor => l \in {"create", "idle"}
                /\ entry[u] # NoReactor => l \in {"sub", "unsub"}
  BY <1>0 DEF SubscribeBegin, UnSubscribeBegin, Begin
<1>2. /\ user'[h] = u /\ hand'[h] = entry[u]
      /\ entry[u] = NoReactor => pc'[h] \in {"create", "idle"}
      /\ entry[u] # NoReactor => pc'[h] \in {"sub", "unsub"}
      /\ \A g \in Handlers : g # h => user'[g] = user[g] /\ hand'[g] = hand[g] /\ pc'[g] = pc[g]
  BY <1>1 DEF HandlerType, Goto
<1>3. UNCHANGED <<phase, cmd, outcome, answer, taken, subs, entry, life, owner, dpc, then, bound>>
  BY <1>1 DEF mqVars, reactorVars, streamVars
<1>4. /\ disturbed \subseteq disturbed' /\ (u \notin disturbed' => ~Busy(h, u))
      /\ \A v \in Ids : v # u => (v \in disturbed' <=> v \in disturbed)
  BY <1>1, EnterType DEF HandlerType
<1>5. phase[h] = "idle" /\ hand[h] = NoReactor
  BY <1>0, <1>1 DEF Shape, HandInv, HandOf
<1>6. LifeInv'
  BY <1>0, <1>1, <1>2, <1>3 DEF Shape, LifeInv, QueueCommand
<1>7. HandInv'
  <2>0. /\ entry[u] # NoReactor => owner[entry[u]] = u /\ life[entry[u]] # "none"
        /\ UNCHANGED <<phase, cmd, life, owner, then>> /\ phase'[h] = "idle"
    BY <1>0, <1>3, <1>5 DEF Shape, OwnInv
  <2>1. HandOf(h)'
    BY <1>2, <2>0 DEF HandOf
  <2>2. ASSUME NEW g \in Handlers, g # h
        PROVE  HandOf(g)'
    <3>1. HandOf(g)
      BY <1>0 DEF Shape, HandInv
    <3>2. user'[g] = user[g] /\ hand'[g] = hand[g] /\ pc'[g] = pc[g]
      BY <1>2, <2>2
    <3> QED BY <2>0, <3>1, <3>2 DEF HandOf
  <2> QED BY <2>1, <2>2 DEF HandInv
<1>8. OwnInv' /\ TakenInv'
  BY <1>0, <1>3, <1>4 DEF Shape, OwnInv, TakenInv
<1>9. ASSUME NEW v \in Ids \ disturbed' PROVE Calm(v)'
  <2>1. Calm(v)
    BY <1>0, <1>4, <1>9 DEF CalmInv
  <2>2. CASE v # u
    BY <1>0, <1>1, <1>2, <1>3, <2>1, <2>2 DEF Calm, Working
  <2>3. CASE v = u
    <3>1. /\ \A g \in Handlers : g # h => pc[g] \notin Working \/ user[g] # u
          /\ \A r \in Reactors : dpc[r] # "no" => owner[r] # u
      BY <1>0, <1>4, <1>9, <2>3 DEF Busy, Working
    <3>2. entry[u] # NoReactor => life[entry[u]] = "live"
      BY <1>0, <2>1, <2>3, <3>1 DEF Calm, Shape, OwnInv, LifeInv, ReactorType
    <3> QED BY <1>0, <1>1, <1>2, <1>3, <2>1, <2>3, <3>1, <3>2 DEF Calm, Working
  <2> QED BY <2>2, <2>3
<1> QED BY <1>6, <1>7, <1>8, <1>9 DEF Shape, CalmInv

\* The constructor registers a reactor for a user that has none.
LEMMA CreateStep ==
    ASSUME Inv, Running, NEW h \in Handlers, Create(h)
    PROVE  Shape' /\ CalmInv'
<1> USE DEF Inv, BaseType
<1>0. Shape /\ CalmInv /\ h \notin Reactors /\ NoReactor \notin Reactors /\ user[h] \in Ids
  BY Names DEF HandlerType
<1>1. PICK r \in Reactors : Created(h, r)
  BY CreateFacts
<1>2. pc[h] = "create" /\ Goto(h, "sub")
      /\ UNCHANGED <<mqVars, user, dpc, then, streamVars, disturbed>>
  BY DEF Create
<1>3. /\ life[r] = "none" /\ life'[r] = "live" /\ owner'[r] = user[h]
      /\ entry'[user[h]] = r /\ hand'[h] = r /\ pc'[h] = "sub"
      /\ \A q \in Reactors : q # r => life'[q] = life[q] /\ owner'[q] = owner[q]
      /\ \A v \in Ids : v # user[h] => entry'[v] = entry[v]
      /\ \A g \in Handlers : g # h => hand'[g] = hand[g] /\ pc'[g] = pc[g]
  BY <1>0, <1>1, <1>2 DEF Created, Goto, HandlerType, ReactorType
<1>4. UNCHANGED <<phase, cmd, outcome, answer, taken, subs, user, dpc, then, bound, disturbed>>
  BY <1>2 DEF mqVars, streamVars
<1>5. Lasting
  BY <1>3 DEF Lasting
<1>6. LifeInv'
  <2>1. dpc[r] = "no" /\ phase[r] = "idle" /\ ~bound[r] /\ then[r] = r
    BY <1>0, <1>3 DEF Shape, LifeInv
  <2> QED BY <1>0, <1>2, <1>3, <1>4, <2>1 DEF Shape, LifeInv, QueueCommand
<1>7. HandInv'
  <2>1. phase[h] = "idle"
    BY <1>0, <1>2 DEF Shape, HandInv, HandOf
  <2> QED BY <1>0, <1>3, <1>4, <2>1 DEF Shape, HandInv, HandOf, HandlerType
<1>8. OwnInv'
  BY <1>0, <1>3, <1>4 DEF Shape, OwnInv, ReactorType, QueueType
<1>9. TakenInv'
  BY <1>0, <1>2, <1>4, <1>5, TakenMove DEF Shape
<1>10. ASSUME NEW v \in Ids \ disturbed' PROVE Calm(v)'
  <2>1. Calm(v) /\ (subs[v] # NoReactor => subs[v] # r)
    BY <1>0, <1>3, <1>4, <1>10 DEF CalmInv, Shape, OwnInv
  <2>2. CASE v # user[h]
    BY <1>0, <1>2, <1>3, <1>4, <2>1, <2>2 DEF Calm, Working, Shape, OwnInv, HandInv, HandOf, HandlerType,
       ReactorType
  <2>3. CASE v = user[h]
    <3>1. entry[v] = NoReactor /\ subs[v] = NoReactor
      BY <1>0, <1>2, <2>1, <2>3 DEF Calm, Working, Shape, HandInv, HandOf
    <3>2. \A g \in Handlers : pc[g] \in Working /\ user[g] = v => g = h
      BY <1>2, <2>1, <2>3 DEF Calm, Working
    <3>3. \A q \in Reactors : owner[q] = v => life[q] \notin {"live", "dying"}
      BY <1>0, <2>1, <3>1 DEF Calm
    <3>4. ~bound[r] /\ dpc[r] = "no"
      BY <1>0, <1>3 DEF Shape, LifeInv
    <3>5. \A q \in Reactors : dpc[q] = "removing" => life[q] = "dying"
      BY <1>0 DEF Shape, LifeInv
    <3> QED BY <1>0, <1>3, <1>4, <2>3, <3>1, <3>2, <3>3, <3>4, <3>5 DEF Calm, Working
  <2> QED BY <2>2, <2>3
<1> QED BY <1>6, <1>7, <1>8, <1>9, <1>10 DEF Shape, CalmInv

\* Sub and UnSub ask the queue.
LEMMA CallStep ==
    ASSUME Inv, Running, NEW h \in Handlers, Sub(h) \/ UnSub(h), Running'
    PROVE  Shape' /\ CalmInv'
<1> USE DEF Inv, BaseType
<1>0. Shape /\ CalmInv /\ h \notin Reactors /\ NoReactor \notin Reactors /\ h \in Callers
  BY Names
<1>1. /\ UNCHANGED <<entry, user, hand, calls, reactorVars, streamVars, disturbed>>
      /\ \/ pc[h] = "sub" /\ CallMq(h, hand[h], "subscribe") /\ Goto(h, "subbed")
         \/ pc[h] = "unsub" /\ CallMq(h, hand[h], "unsubscribe") /\ Goto(h, "unsubbed")
  BY DEF Sub, UnSub
<1>2. hand[h] # NoReactor /\ owner[hand[h]] = user[h]
  BY <1>0, <1>1 DEF Shape, HandInv, HandOf
<1>3. \/ /\ pc[h] = "sub" /\ Goto(h, "subbed")
         /\ MqCall(h, QueueCommand("subscribe", user[h], hand[h]))
      \/ /\ pc[h] = "unsub" /\ Goto(h, "unsubbed")
         /\ MqCall(h, QueueCommand("unsubscribe", user[h], hand[h]))
  BY <1>1, <1>2 DEF CallMq, Breach, Running
<1>4. /\ phase'[h] = "pending" /\ UNCHANGED <<answer, taken, subs>>
      /\ \/ /\ pc[h] = "sub" /\ pc'[h] = "subbed"
            /\ cmd'[h] = QueueCommand("subscribe", user[h], hand[h])
         \/ /\ pc[h] = "unsub" /\ pc'[h] = "unsubbed"
            /\ cmd'[h] = QueueCommand("unsubscribe", user[h], hand[h])
      /\ \A c \in Callers : c # h => phase'[c] = phase[c] /\ cmd'[c] = cmd[c]
                                     /\ outcome'[c] = outcome[c]
      /\ \A g \in Handlers : g # h => pc'[g] = pc[g]
  BY <1>0, <1>3 DEF MqCall, Goto, QueueType, HandlerType
<1>5. UNCHANGED <<entry, user, hand, life, owner, dpc, then, bound, disturbed>> /\ Lasting
  BY <1>1 DEF reactorVars, streamVars, Lasting
<1>6. \A c : c \in Handlers \/ c \in Reactors => c \in Callers
  BY Names
<1>7. LifeInv'
  BY <1>0, <1>4, <1>5, <1>6 DEF Shape, LifeInv, QueueCommand
<1>8. HandInv'
  BY <1>0, <1>4, <1>5, <1>6 DEF Shape, HandInv, HandOf
<1>9. OwnInv'
  BY <1>0, <1>4, <1>5 DEF Shape, OwnInv
<1>10. TakenInv'
  BY <1>0, <1>3, <1>5, TakenCall DEF Shape
<1>11. ASSUME NEW v \in Ids \ disturbed' PROVE Calm(v)'
  <2>1. Calm(v)
    BY <1>0, <1>5, <1>11 DEF CalmInv
  <2> QED BY <1>0, <1>4, <1>5, <1>6, <2>1 DEF Calm, Working
<1> QED BY <1>7, <1>8, <1>9, <1>10, <1>11 DEF Shape, CalmInv

\* A handler returns: of Sub with success, of UnSub or of Publish.
LEMMA ReturnStep ==
    ASSUME Inv, Running, NEW h \in Handlers,
           SubOk(h) \/ UnSubDone(h) \/ PublishDone(h)
    PROVE  Shape' /\ CalmInv'
<1> USE DEF Inv, BaseType
<1>0. Shape /\ CalmInv /\ h \notin Reactors /\ NoReactor \notin Reactors
  BY Names
<1>1. /\ pc[h] \in {"subbed", "unsubbed", "published"} /\ phase[h] = "idle"
      /\ Goto(h, "idle") /\ (hand' = [hand EXCEPT ![h] = NoReactor]
                             \/ (pc[h] = "published" /\ UNCHANGED hand))
      /\ UNCHANGED <<mqVars, entry, user, reactorVars, disturbed>>
      /\ \/ UNCHANGED bound
         \/ /\ pc[h] = "subbed" /\ outcome[h] = "ok"
            /\ bound' = [bound EXCEPT ![hand[h]] = TRUE]
  BY DEF SubOk, UnSubDone, PublishDone, streamVars
<1>2. /\ pc'[h] = "idle" /\ hand'[h] = NoReactor
      /\ \A g \in Handlers : g # h => hand'[g] = hand[g] /\ pc'[g] = pc[g]
  BY <1>0, <1>1 DEF Goto, HandlerType, Shape, HandInv, HandOf
<1>3. UNCHANGED <<phase, cmd, outcome, answer, taken, subs, entry, user, life, owner, dpc, then,
                  disturbed>> /\ Lasting
  BY <1>1 DEF mqVars, reactorVars, Lasting
<1>4. \A r \in Reactors : bound'[r] # bound[r] =>
           r = hand[h] /\ pc[h] = "subbed" /\ outcome[h] = "ok"
  BY <1>1 DEF StreamType
<1>5. hand[h] # NoReactor => life[hand[h]] # "none" /\ owner[hand[h]] = user[h]
  BY <1>0 DEF Shape, HandInv, HandOf
<1>6. LifeInv'
  BY <1>0, <1>1, <1>2, <1>3, <1>4, <1>5 DEF Shape, LifeInv
<1>7. HandInv'
  BY <1>0, <1>1, <1>2, <1>3 DEF Shape, HandInv, HandOf
<1>8. OwnInv' /\ TakenInv'
  BY <1>0, <1>1, <1>3, TakenMove DEF Shape, OwnInv
<1>9. ASSUME NEW v \in Ids \ disturbed' PROVE Calm(v)'
  <2>1. Calm(v)
    BY <1>0, <1>3, <1>9 DEF CalmInv
  <2>2. \A r \in Reactors : bound'[r] # bound[r] /\ owner[r] = v => subs[v] = r
    BY <1>0, <1>1, <1>4, <1>5, <2>1 DEF Calm, Working
  <2> QED BY <1>0, <1>2, <1>3, <2>1, <2>2 DEF Calm, Working
<1> QED BY <1>6, <1>7, <1>8, <1>9 DEF Shape, CalmInv

\* A handler whose Sub has failed deletes the reactor.
LEMMA SubFailsStep ==
    ASSUME Inv, Running, NEW h \in Handlers, SubFails(h), Running'
    PROVE  Shape' /\ CalmInv'
<1> USE DEF Inv, BaseType
<1>0. Shape /\ CalmInv /\ h \notin Reactors /\ NoReactor \notin Reactors
  BY Names
<1>1. /\ pc[h] = "subbed" /\ phase[h] = "idle" /\ Goto(h, "delete") /\ life[hand[h]] = "live"
      /\ life' = [life EXCEPT ![hand[h]] = "dying"]
      /\ dpc' = [dpc EXCEPT ![hand[h]] = "remove"]
      /\ then' = [then EXCEPT ![hand[h]] = h]
      /\ UNCHANGED <<mqVars, entry, user, hand, owner, streamVars, disturbed>>
  BY DEF SubFails, Breach, Running
<1>2. PICK r \in Reactors : r = hand[h] /\ owner[r] = user[h]
  BY <1>0, <1>1 DEF Shape, HandInv, HandOf, HandlerType
<1>3. /\ pc'[h] = "delete" /\ life'[r] = "dying" /\ dpc'[r] = "remove" /\ then'[r] = h
      /\ \A g \in Handlers : g # h => pc'[g] = pc[g]
      /\ \A q \in Reactors : q # r => life'[q] = life[q] /\ dpc'[q] = dpc[q] /\ then'[q] = then[q]
  BY <1>1, <1>2 DEF Goto, HandlerType, ReactorType
<1>4. UNCHANGED <<phase, cmd, outcome, answer, taken, subs, entry, user, hand, owner, bound,
                  disturbed>>
  BY <1>1 DEF mqVars, streamVars
<1>5. Lasting /\ dpc[r] = "no" /\ phase[r] = "idle"
  BY <1>0, <1>1, <1>2, <1>3, <1>4 DEF Lasting, Shape, LifeInv
<1>6. LifeInv'
  BY <1>0, <1>1, <1>2, <1>3, <1>4, <1>5 DEF Shape, LifeInv
<1>7. HandInv'
  <2>1. \A g \in Handlers : pc[g] = "delete" => hand[g] # r
    BY <1>0, <1>1, <1>2 DEF Shape, HandInv, HandOf
  <2>2. \A g \in Handlers : hand[g] # NoReactor => hand[g] \in Reactors
    BY DEF HandlerType
  <2> QED BY <1>0, <1>1, <1>2, <1>3, <1>4, <2>1, <2>2 DEF Shape, HandInv, HandOf
<1>8. OwnInv' /\ TakenInv'
  <2>1. OwnInv'
    BY <1>0, <1>3, <1>4 DEF Shape, OwnInv, QueueType, ReactorType
  <2> QED BY <1>0, <1>1, <1>4, <1>5, <2>1, TakenMove DEF Shape
<1>9. ASSUME NEW v \in Ids \ disturbed' PROVE Calm(v)'
  <2>1. Calm(v)
    BY <1>0, <1>4, <1>9 DEF CalmInv
  <2>2. CASE v # user[h]
    <3>1. \A g \in Handlers : user[g] = v /\ hand[g] # NoReactor =>
             hand[g] \in Reactors \ {r} /\ life'[hand[g]] = life[hand[g]]
      BY <1>0, <1>2, <1>3, <2>2 DEF Shape, HandInv, HandOf, HandlerType
    <3>2. entry[v] # NoReactor => life'[entry[v]] = life[entry[v]]
      BY <1>0, <1>2, <1>3, <2>2 DEF Shape, OwnInv, ReactorType
    <3>3. \A q \in Reactors : owner[q] = v => q # r
      BY <1>2, <2>2
    <3>4. \A g \in Handlers : pc[g] \in Working \ {"create"} => hand[g] # NoReactor
      BY <1>0 DEF Shape, HandInv, HandOf, Working
    <3> QED BY <1>0, <1>1, <1>3, <1>4, <2>1, <2>2, <3>1, <3>2, <3>3, <3>4 DEF Calm, Working
  <2>3. CASE v = user[h]
    <3>1. entry[v] = r /\ \A g \in Handlers : pc[g] \in Working /\ user[g] = v => g = h
      BY <1>1, <1>2, <2>1, <2>3 DEF Calm, Working
    <3> QED BY <1>0, <1>1, <1>2, <1>3, <1>4, <2>1, <2>3, <3>1 DEF Calm, Working
  <2> QED BY <2>2, <2>3
<1> QED BY <1>6, <1>7, <1>8, <1>9 DEF Shape, CalmInv

\* Publish works for no user.
LEMMA PublishStep ==
    ASSUME Inv, Running, NEW h \in Handlers, PublishBegin(h)
    PROVE  Shape' /\ CalmInv'
<1> USE DEF Inv, BaseType
<1>0. Shape /\ CalmInv /\ h \notin Reactors /\ NoReactor \notin Reactors /\ h \in Callers
  BY Names
<1>1. /\ pc[h] = "idle" /\ Goto(h, "published")
      /\ MqCall(h, QueueCommand("publish", AnyUser, AnyReactor))
      /\ UNCHANGED <<entry, user, hand, reactorVars, streamVars, disturbed>>
  BY DEF PublishBegin
<1>2. /\ phase'[h] = "pending" /\ UNCHANGED <<answer, taken, subs>>
      /\ pc'[h] = "published" /\ cmd'[h].op = "publish"
      /\ \A c \in Callers : c # h => phase'[c] = phase[c] /\ cmd'[c] = cmd[c]
                                     /\ outcome'[c] = outcome[c]
      /\ \A g \in Handlers : g # h => pc'[g] = pc[g]
  BY <1>0, <1>1 DEF MqCall, Goto, QueueType, HandlerType, QueueCommand
<1>3. UNCHANGED <<entry, user, hand, life, owner, dpc, then, bound, disturbed>> /\ Lasting
  BY <1>1 DEF reactorVars, streamVars, Lasting
<1>4. \A c : c \in Handlers \/ c \in Reactors => c \in Callers
  BY Names
<1>5. LifeInv'
  BY <1>0, <1>1, <1>2, <1>3, <1>4 DEF Shape, LifeInv, QueueCommand
<1>6. HandInv'
  BY <1>0, <1>1, <1>2, <1>3, <1>4 DEF Shape, HandInv, HandOf
<1>7. OwnInv' /\ TakenInv'
  BY <1>0, <1>1, <1>2, <1>3, TakenCall DEF Shape, OwnInv
<1>8. ASSUME NEW v \in Ids \ disturbed' PROVE Calm(v)'
  <2>1. Calm(v)
    BY <1>0, <1>3, <1>8 DEF CalmInv
  <2> QED BY <1>0, <1>1, <1>2, <1>3, <1>4, <2>1 DEF Calm, Working
<1> QED BY <1>5, <1>6, <1>7, <1>8 DEF Shape, CalmInv

-----------------------------------------------------------------------------
(* Steps of the reactors and of the queue.                                  *)

\* The destructor asks the queue to forget the callback.
LEMMA RemoveStep ==
    ASSUME Inv, Running, NEW r \in Reactors, Remove(r)
    PROVE  Shape' /\ CalmInv'
<1> USE DEF Inv, BaseType
<1>0. Shape /\ CalmInv /\ NoReactor \notin Reactors /\ r \in Callers
      /\ (\A h \in Handlers : h # r) /\ \A c : c \in Handlers \/ c \in Reactors => c \in Callers
  BY Names
<1>1. /\ dpc[r] = "remove" /\ dpc' = [dpc EXCEPT ![r] = "removing"]
      /\ MqCall(r, QueueCommand("remove", owner[r], r))
      /\ UNCHANGED <<entry, handlerVars, life, owner, then, streamVars, disturbed>>
  BY DEF Remove
<1>2. /\ phase'[r] = "pending" /\ UNCHANGED <<answer, taken, subs>>
      /\ dpc'[r] = "removing" /\ cmd'[r] = QueueCommand("remove", owner[r], r)
      /\ \A c \in Callers : c # r => phase'[c] = phase[c] /\ cmd'[c] = cmd[c]
                                     /\ outcome'[c] = outcome[c]
      /\ \A q \in Reactors : q # r => dpc'[q] = dpc[q]
  BY <1>0, <1>1 DEF MqCall, QueueType, ReactorType
<1>3. UNCHANGED <<entry, pc, user, hand, life, owner, then, bound, disturbed>> /\ Lasting
  BY <1>1 DEF handlerVars, streamVars, Lasting
<1>4. LifeInv'
  BY <1>0, <1>1, <1>2, <1>3 DEF Shape, LifeInv, QueueCommand
<1>5. HandInv'
  BY <1>0, <1>2, <1>3 DEF Shape, HandInv, HandOf
<1>6. OwnInv' /\ TakenInv'
  BY <1>0, <1>1, <1>2, <1>3, TakenCall DEF Shape, OwnInv
<1>7. ASSUME NEW v \in Ids \ disturbed' PROVE Calm(v)'
  <2>1. Calm(v)
    BY <1>0, <1>3, <1>7 DEF CalmInv
  <2> QED BY <1>0, <1>2, <1>3, <2>1 DEF Calm, Working
<1> QED BY <1>4, <1>5, <1>6, <1>7 DEF Shape, CalmInv

\* The queue has answered; the reactor leaves the registry and is freed.
LEMMA UnregisterStep ==
    ASSUME Inv, Running, NEW r \in Reactors, Unregister(r)
    PROVE  Shape' /\ CalmInv'
<1> USE DEF Inv, BaseType
<1>0. Shape /\ CalmInv /\ NoReactor \notin Reactors /\ owner[r] \in Ids
      /\ \A h \in Handlers : h \notin Reactors
  BY Names DEF ReactorType
<1>1. /\ dpc[r] = "removing" /\ phase[r] = "idle"
      /\ entry' = [entry EXCEPT ![owner[r]] = NoReactor]
      /\ life' = [life EXCEPT ![r] = "freed"]
      /\ dpc' = [dpc EXCEPT ![r] = "no"]
      /\ then[r] = r => UNCHANGED <<pc, hand>>
      /\ then[r] # r => Goto(then[r], "idle") /\ hand' = [hand EXCEPT ![then[r]] = NoReactor]
      /\ UNCHANGED <<mqVars, user, owner, then, streamVars, disturbed>>
  BY DEF Unregister
<1>2. /\ entry'[owner[r]] = NoReactor /\ life'[r] = "freed" /\ dpc'[r] = "no"
      /\ \A v \in Ids : v # owner[r] => entry'[v] = entry[v]
      /\ \A q \in Reactors : q # r => life'[q] = life[q] /\ dpc'[q] = dpc[q]
  BY <1>0, <1>1 DEF ReactorType
<1>3. then[r] # r => then[r] \in Handlers /\ pc[then[r]] = "delete" /\ hand[then[r]] = r
  BY <1>0, <1>1 DEF Shape, LifeInv
<1>4. \A g \in Handlers :
         IF g = then[r] THEN pc'[g] = "idle" /\ hand'[g] = NoReactor
                        ELSE pc'[g] = pc[g] /\ hand'[g] = hand[g]
  BY <1>0, <1>1, <1>3 DEF HandlerType, Goto
<1>5. UNCHANGED <<phase, cmd, outcome, answer, taken, subs, user, owner, then, bound, disturbed>>
  BY <1>1 DEF mqVars, streamVars
<1>6. Lasting /\ life[r] = "dying"
  BY <1>0, <1>1, <1>2, <1>5 DEF Lasting, Shape, LifeInv
<1>7. \A g \in Handlers : pc[g] = "delete" /\ hand[g] = r => g = then[r]
  BY <1>0 DEF Shape, HandInv, HandOf
<1>8. LifeInv'
  <2>1. \A q \in Reactors : q # r /\ dpc[q] # "no" /\ then[q] # q => then[q] # then[r]
    BY <1>0, <1>3, <1>1 DEF Shape, LifeInv
  <2> QED BY <1>0, <1>1, <1>2, <1>4, <1>5, <1>6, <2>1 DEF Shape, LifeInv
<1>9. HandInv'
  <2>1. then[r] \in Handlers => phase[then[r]] = "idle"
    BY <1>0, <1>3 DEF Shape, HandInv, HandOf
  <2>2. \A g \in Handlers : hand[g] # NoReactor => hand[g] \in Reactors
    BY DEF HandlerType
  <2> QED BY <1>0, <1>2, <1>4, <1>5, <1>6, <1>7, <2>1, <2>2 DEF Shape, HandInv, HandOf
<1>10. OwnInv'
  BY <1>0, <1>2, <1>5 DEF Shape, OwnInv, QueueType, ReactorType
<1>11. TakenInv'
  BY <1>0, <1>1, <1>5, <1>6, TakenMove DEF Shape
<1>12. ASSUME NEW v \in Ids \ disturbed' PROVE Calm(v)'
  <2>1. Calm(v)
    BY <1>0, <1>5, <1>12 DEF CalmInv
  <2>2. CASE v # owner[r]
    <3>1. \A g \in Handlers : user[g] = v /\ hand[g] # NoReactor =>
             hand[g] \in Reactors \ {r} /\ life'[hand[g]] = life[hand[g]]
      BY <1>0, <1>2, <2>2 DEF Shape, HandInv, HandOf, HandlerType
    <3>2. entry[v] # NoReactor => life'[entry[v]] = life[entry[v]]
      BY <1>0, <1>2, <2>2 DEF Shape, OwnInv, ReactorType
    <3>3. \A g \in Handlers : pc[g] \in Working \ {"create"} => hand[g] # NoReactor
      BY <1>0 DEF Shape, HandInv, HandOf, Working
    <3> QED BY <1>0, <1>2, <1>4, <1>5, <2>1, <2>2, <3>1, <3>2, <3>3 DEF Calm, Working
  <2>3. CASE v = owner[r]
    <3>1. entry[v] = r /\ subs[v] = NoReactor
      BY <1>0, <1>1, <1>6, <2>1, <2>3 DEF Calm
    <3>2. \A g \in Handlers : pc'[g] \notin Working \/ user[g] # v
      <4> SUFFICES ASSUME NEW g \in Handlers, pc'[g] \in Working, user[g] = v
                   PROVE  FALSE
        OBVIOUS
      <4>1. g # then[r] /\ pc[g] \in Working
        BY <1>4 DEF Working
      <4>2. hand[g] = r
        BY <2>1, <3>1, <4>1 DEF Calm
      <4>3. pc[g] = "create" \/ pc[g] = "delete"
        BY <1>6, <2>1, <4>1, <4>2 DEF Calm
      <4> QED BY <1>0, <1>7, <4>1, <4>2, <4>3 DEF Shape, HandInv, HandOf
    <3>3. \A q \in Reactors : owner[q] = v => life'[q] \notin {"live", "dying"}
      BY <1>2, <2>1, <3>1 DEF Calm
    <3> QED BY <1>0, <1>2, <1>5, <2>3, <3>1, <3>2, <3>3 DEF Calm
  <2> QED BY <2>2, <2>3
<1> QED BY <1>8, <1>9, <1>10, <1>11, <1>12 DEF Shape, CalmInv

\* OnDone begins to delete a reactor no handler is working with.
LEMMA OnDoneStep ==
    ASSUME Inv, Running, NEW r \in Reactors, OnDone(r)
    PROVE  Shape' /\ CalmInv'
<1> USE DEF Inv, BaseType
<1>0. Shape /\ CalmInv /\ NoReactor \notin Reactors /\ owner[r] \in Ids
  BY Names DEF ReactorType
<1>1. /\ life[r] = "live" /\ life' = [life EXCEPT ![r] = "dying"]
      /\ dpc' = [dpc EXCEPT ![r] = "remove"] /\ Enter(r, owner[r])
      /\ UNCHANGED <<mqVars, entry, handlerVars, owner, then, streamVars>>
  BY DEF OnDone
<1>2. /\ life'[r] = "dying" /\ dpc'[r] = "remove"
      /\ \A q \in Reactors : q # r => life'[q] = life[q] /\ dpc'[q] = dpc[q]
  BY <1>1 DEF ReactorType
<1>3. UNCHANGED <<phase, cmd, outcome, answer, taken, subs, entry, pc, user, hand, owner, then,
                  bound>>
  BY <1>1 DEF mqVars, handlerVars, streamVars
<1>4. /\ disturbed \subseteq disturbed' /\ (owner[r] \notin disturbed' => ~Busy(r, owner[r]))
      /\ \A v \in Ids : v # owner[r] => (v \in disturbed' <=> v \in disturbed)
  BY <1>0, <1>1, EnterType DEF HandlerType
<1>5. Lasting /\ dpc[r] = "no" /\ phase[r] = "idle" /\ then[r] = r
  BY <1>0, <1>1, <1>2, <1>3 DEF Lasting, Shape, LifeInv
<1>6. LifeInv'
  BY <1>0, <1>1, <1>2, <1>3, <1>5 DEF Shape, LifeInv
<1>7. HandInv'
  BY <1>0, <1>1, <1>2, <1>3 DEF Shape, HandInv, HandOf, HandlerType
<1>8. OwnInv' /\ TakenInv'
  <2>1. OwnInv'
    BY <1>0, <1>2, <1>3 DEF Shape, OwnInv, QueueType, ReactorType
  <2> QED BY <1>0, <1>1, <1>4, <1>5, <2>1, TakenMove DEF Shape
<1>9. ASSUME NEW v \in Ids \ disturbed' PROVE Calm(v)'
  <2>1. Calm(v)
    BY <1>0, <1>4, <1>9 DEF CalmInv
  <2>2. CASE v # owner[r]
    <3>1. \A g \in Handlers : user[g] = v /\ hand[g] # NoReactor =>
             life'[hand[g]] = life[hand[g]]
      BY <1>0, <1>2, <2>2 DEF Shape, HandInv, HandOf, HandlerType
    <3>2. entry[v] # NoReactor => life'[entry[v]] = life[entry[v]]
      BY <1>0, <1>2, <2>2 DEF Shape, OwnInv, ReactorType
    <3>3. \A g \in Handlers : pc[g] \in Working \ {"create"} => hand[g] # NoReactor
      BY <1>0 DEF Shape, HandInv, HandOf, Working
    <3> QED BY <1>0, <1>1, <1>2, <1>3, <2>1, <2>2, <3>1, <3>2, <3>3 DEF Calm, Working
  <2>3. CASE v = owner[r]
    <3>1. \A g \in Handlers : pc[g] \notin Working \/ user[g] # v
      BY <1>4, <1>9, <2>3, Names DEF Busy, Working
    <3> QED BY <1>0, <1>1, <1>2, <1>3, <2>1, <2>3, <3>1 DEF Calm
  <2> QED BY <2>2, <2>3
<1> QED BY <1>6, <1>7, <1>8, <1>9 DEF Shape, CalmInv

\* Writes, their ends and OnCancel concern the stream only.
LEMMA StreamStep ==
    ASSUME Inv, Running,
           \/ \E u \in Ids : Deliver(u)
           \/ \E r \in Reactors : OnCancel(r) \/ \E ok \in BOOLEAN : OnWriteDone(r, ok)
           \/ UNCHANGED vars
    PROVE  Shape' /\ CalmInv'
<1>1. UNCHANGED <<mqVars, entry, handlerVars, reactorVars, bound, disturbed>>
  BY DEF Deliver, OnCancel, OnWriteDone, vars, streamVars
<1>2. UNCHANGED <<phase, cmd, outcome, answer, taken, subs, entry, pc, user, hand, life, owner, dpc,
                  then, bound, disturbed>>
  BY <1>1 DEF mqVars, handlerVars, reactorVars
<1>3. Shape'
  BY <1>2 DEF Inv, Shape, LifeInv, HandInv, HandOf, OwnInv, TakenInv
<1>4. CalmInv'
  BY <1>2 DEF Inv, CalmInv, Calm
<1> QED BY <1>3, <1>4

\* The command of caller c is the one its place in the code says.
Waits(c) ==
    \/ /\ c \in Handlers /\ pc[c] \in {"subbed", "unsubbed"}
       /\ cmd[c].op = IF pc[c] = "subbed" THEN "subscribe" ELSE "unsubscribe"
       /\ cmd[c].sub = user[c] /\ cmd[c].recv = hand[c]
       /\ hand[c] \in Reactors /\ owner[hand[c]] = user[c] /\ life[hand[c]] # "none"
    \/ c \in Handlers /\ pc[c] = "published" /\ cmd[c].op = "publish"
    \/ /\ c \in Reactors /\ dpc[c] = "removing" /\ life[c] = "dying"
       /\ cmd[c].op = "remove" /\ cmd[c].sub = owner[c] /\ cmd[c].recv = c

\* A waiting caller has given its own command to the queue.
LEMMA Waiting ==
    ASSUME HandlerType, Shape, NEW c \in Callers, phase[c] # "idle"
    PROVE  Waits(c)
<1>1. CASE c \in Handlers
  <2>1. /\ pc[c] \in {"subbed", "unsubbed", "published"}
        /\ pc[c] = "published" => cmd[c].op = "publish"
        /\ pc[c] = "subbed" => cmd[c] = QueueCommand("subscribe", user[c], hand[c])
        /\ pc[c] = "unsubbed" => cmd[c] = QueueCommand("unsubscribe", user[c], hand[c])
    BY <1>1 DEF Shape, HandInv, HandOf
  <2>2. pc[c] # "published" =>
           hand[c] \in Reactors /\ owner[hand[c]] = user[c] /\ life[hand[c]] # "none"
    BY <1>1, <2>1 DEF Shape, HandInv, HandOf, HandlerType
  <2> QED BY <1>1, <2>1, <2>2 DEF Waits, QueueCommand
<1>2. CASE c \in Reactors
  <2>1. dpc[c] = "removing" /\ life[c] = "dying" /\ cmd[c] = QueueCommand("remove", owner[c], c)
    BY <1>2 DEF Shape, LifeInv
  <2> QED BY <1>2, <2>1 DEF Waits, QueueCommand
<1> QED BY <1>1, <1>2, Names

\* The I/O thread takes a command.
LEMMA TakeStep ==
    ASSUME Inv, Running, NEW c \in Callers, MqTake(c),
           UNCHANGED <<disturbed, entry, handlerVars, reactorVars, streamVars>>
    PROVE  Shape' /\ CalmInv'
<1> USE DEF Inv, BaseType
<1>0. Shape /\ CalmInv /\ \A d : d \in Handlers \/ d \in Reactors => d \in Callers
  BY Names
<1>1. /\ phase[c] = "pending" /\ phase'[c] = "taken" /\ taken = {}
      /\ \A d \in Callers : d # c => phase'[d] = phase[d]
      /\ taken' = {[from |-> c, cmd |-> cmd[c]]}
      /\ UNCHANGED <<cmd, outcome, answer, subs, disturbed, entry, pc, user, hand, life, owner, dpc,
                     then, bound>>
  BY DEF MqTake, QueueType, handlerVars, reactorVars, streamVars
<1>2. LifeInv'
  BY <1>0, <1>1 DEF Shape, LifeInv
<1>3. HandInv'
  BY <1>0, <1>1 DEF Shape, HandInv, HandOf
<1>4. OwnInv'
  BY <1>0, <1>1 DEF Shape, OwnInv
<1>5. TakenInv'
  <2>1. PICK t : t = [from |-> c, cmd |-> cmd[c]]
    OBVIOUS
  <2>2. t.from = c /\ t.cmd = cmd[c] /\ taken' = {t} /\ c # NoCaller
    BY <1>1, <2>1, Names
  <2>3. cmd[c].op \in {"subscribe", "unsubscribe", "remove", "publish"}
        /\ (cmd[c].op # "publish" => owner[cmd[c].recv] = cmd[c].sub /\ life[cmd[c].recv] # "none")
    <3>1. Waits(c)
      BY <1>0, <1>1, Waiting
    <3> QED BY <1>0, <3>1 DEF Waits, Shape, LifeInv
  <2>4. \A d \in Callers : phase'[d] = "taken" => d = c
    BY <1>0, <1>1 DEF Shape, TakenInv
  <2> QED BY <1>1, <2>2, <2>3, <2>4 DEF TakenInv
<1>6. ASSUME NEW v \in Ids \ disturbed' PROVE Calm(v)'
  <2>1. Calm(v)
    BY <1>0, <1>1, <1>6 DEF CalmInv
  <2> QED BY <1>0, <1>1, <2>1 DEF Calm, Working
<1> QED BY <1>2, <1>3, <1>4, <1>5, <1>6 DEF Shape, CalmInv

\* A caller gets the result of its command.
LEMMA MqReturnStep ==
    ASSUME Inv, Running, NEW c \in Callers, MqReturn(c),
           UNCHANGED <<disturbed, entry, handlerVars, reactorVars, streamVars>>
    PROVE  Shape' /\ CalmInv'
<1> USE DEF Inv, BaseType
<1>0. Shape /\ CalmInv /\ \A d : d \in Handlers \/ d \in Reactors => d \in Callers
  BY Names
<1>1. /\ phase[c] = "answered" /\ phase'[c] = "idle" /\ outcome'[c] = answer[c]
      /\ \A d \in Callers : d # c => phase'[d] = phase[d] /\ outcome'[d] = outcome[d]
                                     /\ answer'[d] = answer[d]
      /\ UNCHANGED <<cmd, taken, subs, disturbed, entry, pc, user, hand, life, owner, dpc,
                     then, bound>>
  BY DEF MqReturn, QueueType, handlerVars, reactorVars, streamVars
<1>2. LifeInv'
  BY <1>0, <1>1 DEF Shape, LifeInv
<1>3. HandInv'
  BY <1>0, <1>1 DEF Shape, HandInv, HandOf
<1>4. OwnInv'
  BY <1>0, <1>1 DEF Shape, OwnInv
<1>5. TakenInv'
  <2>1. \A t \in taken : t.from \in Callers \cup {NoCaller}
    BY DEF QueueType, Command1
  <2> QED BY <1>0, <1>1, <2>1 DEF Shape, TakenInv
<1>6. ASSUME NEW v \in Ids \ disturbed' PROVE Calm(v)'
  <2>1. Calm(v)
    BY <1>0, <1>1, <1>6 DEF CalmInv
  <2> QED BY <1>0, <1>1, <2>1 DEF Calm, Working
<1> QED BY <1>2, <1>3, <1>4, <1>5, <1>6 DEF Shape, CalmInv

\* A caller that gives up disturbs the user it called for.
LEMMA GiveUpStep ==
    ASSUME Inv, Running, NEW c \in Callers, MqGiveUp(c),
           disturbed' = disturbed \cup {cmd[c].sub},
           UNCHANGED <<entry, handlerVars, reactorVars, streamVars>>
    PROVE  Shape' /\ CalmInv'
<1> USE DEF Inv, BaseType
<1>0. Shape /\ CalmInv /\ \A d : d \in Handlers \/ d \in Reactors => d \in Callers
  BY Names
<1>1. /\ phase[c] # "idle" /\ phase'[c] = "idle"
      /\ \A d \in Callers : d # c => phase'[d] = phase[d] /\ outcome'[d] = outcome[d]
                                     /\ answer'[d] = answer[d]
      /\ taken' = IF phase[c] = "taken"
                    THEN {[t EXCEPT !.from = NoCaller] : t \in taken} ELSE taken
      /\ UNCHANGED <<cmd, subs, entry, pc, user, hand, life, owner, dpc, then, bound>>
  BY DEF MqGiveUp, QueueType, handlerVars, reactorVars, streamVars
<1>2. LifeInv'
  BY <1>0, <1>1 DEF Shape, LifeInv
<1>3. HandInv'
  BY <1>0, <1>1 DEF Shape, HandInv, HandOf
<1>4. OwnInv'
  BY <1>0, <1>1 DEF Shape, OwnInv
<1>5. TakenInv'
  <2>0. \A t \in taken : t.from \in Callers \cup {NoCaller} /\ t \in Command1
    BY DEF QueueType, Command1
  <2>1. CASE phase[c] # "taken"
    BY <1>0, <1>1, <2>0, <2>1 DEF Shape, TakenInv
  <2>2. CASE phase[c] = "taken"
    <3>1. PICK t \in taken : t.from = c
      BY <1>0, <2>2 DEF Shape, TakenInv
    <3>2. taken = {t} /\ t \in Command1 /\ t.cmd = cmd[c]
      BY <1>0, <2>0, <3>1, Names DEF QueueType, Shape, TakenInv
    <3>3. PICK s : s = [t EXCEPT !.from = NoCaller]
      OBVIOUS
    <3>4. taken' = {s} /\ s.from = NoCaller /\ s.cmd = t.cmd
      BY <1>1, <2>2, <3>2, <3>3 DEF Command1
    <3>5. \A d \in Callers : phase'[d] # "taken"
      BY <1>0, <1>1, <3>1, <3>2 DEF Shape, TakenInv
    <3> QED BY <1>0, <1>1, <3>2, <3>4, <3>5 DEF Shape, TakenInv
  <2> QED BY <2>1, <2>2
<1>6. ASSUME NEW v \in Ids \ disturbed' PROVE Calm(v)'
  <2>1. Calm(v) /\ v # cmd[c].sub
    BY <1>0, <1>6 DEF CalmInv
  <2>2. /\ c \in Handlers => pc[c] \notin Working \/ user[c] # v
        /\ c \in Reactors => owner[c] # v
    <3>1. Waits(c)
      BY <1>0, <1>1, Waiting
    <3> QED BY <2>1, <3>1, Names DEF Waits, Working
  <2> QED BY <1>0, <1>1, <2>1, <2>2 DEF Calm, Working
<1> QED BY <1>2, <1>3, <1>4, <1>5, <1>6 DEF Shape, CalmInv

\* A command is executed: for a calm user, the one its only worker waits for.
LEMMA ExecuteStep ==
    ASSUME Inv, Running, NEW rc \in {"ok", "fail"}, MqExecute(rc),
           UNCHANGED <<disturbed, entry, handlerVars, reactorVars, streamVars>>
    PROVE  Shape' /\ CalmInv'
<1> USE DEF Inv, BaseType
<1>0. Shape /\ CalmInv /\ (\A d : d \in Handlers \/ d \in Reactors => d \in Callers)
      /\ NoReceiver = NoReactor /\ NoReactor \notin Reactors
  BY Names
<1>1. PICK t \in taken :
        /\ MqEffect(t.cmd, rc)
        /\ IF t.from = NoCaller
             THEN UNCHANGED <<phase, answer>>
             ELSE /\ phase' = [phase EXCEPT ![t.from] = "answered"]
                  /\ answer' = [answer EXCEPT ![t.from] = rc]
  BY DEF MqExecute
<1>2. /\ t.cmd.sub \in Ids /\ t.cmd.recv \in Reactors /\ t.from \in Callers \cup {NoCaller}
      /\ taken = {t}
  BY Names DEF QueueType, Command1, Command
<1>3. /\ t.cmd.op \in {"subscribe", "unsubscribe", "remove", "publish"}
      /\ t.cmd.op # "publish" => owner[t.cmd.recv] = t.cmd.sub /\ life[t.cmd.recv] # "none"
      /\ t.from = NoCaller => t.cmd.sub \in disturbed
      /\ t.from # NoCaller => phase[t.from] = "taken" /\ t.cmd = cmd[t.from]
  BY <1>0 DEF Shape, TakenInv
<1>4. /\ taken' = {}
      /\ UNCHANGED <<cmd, outcome, disturbed, entry, pc, user, hand, life, owner, dpc, then, bound>>
  BY DEF MqExecute, handlerVars, reactorVars, streamVars
<1>5. /\ \A d \in Callers : d # t.from => phase'[d] = phase[d] /\ answer'[d] = answer[d]
      /\ t.from # NoCaller => phase'[t.from] = "answered" /\ answer'[t.from] = rc
  BY <1>1, <1>2, Names DEF QueueType
<1>6. /\ \A v \in Ids : v # t.cmd.sub => subs'[v] = subs[v]
      /\ t.cmd.op \in {"unsubscribe", "publish"} => subs'[t.cmd.sub] = subs[t.cmd.sub]
      /\ t.cmd.op = "remove" => subs'[t.cmd.sub] = NoReactor
      /\ t.cmd.op = "subscribe" =>
            \/ subs'[t.cmd.sub] = t.cmd.recv
            \/ rc = "fail" /\ subs'[t.cmd.sub] = subs[t.cmd.sub]
  BY <1>0, <1>1, <1>2, <1>3 DEF MqEffect, QueueType
<1>a. \A d \in Callers : (phase'[d] # "idle" <=> phase[d] # "idle") /\ phase'[d] # "taken"
  <2> SUFFICES ASSUME NEW d \in Callers
               PROVE  (phase'[d] # "idle" <=> phase[d] # "idle") /\ phase'[d] # "taken"
    OBVIOUS
  <2>1. CASE d = t.from
    BY <1>3, <1>5, <2>1, Names
  <2>2. CASE d # t.from
    <3>1. phase[d] # "taken"
      BY <1>0, <1>2, <2>2 DEF Shape, TakenInv
    <3> QED BY <1>5, <2>2, <3>1
  <2> QED BY <2>1, <2>2
<1>7. LifeInv'
  BY <1>0, <1>4, <1>a DEF Shape, LifeInv
<1>8. HandInv'
  BY <1>0, <1>4, <1>a DEF Shape, HandInv, HandOf
<1>9. OwnInv'
  BY <1>0, <1>2, <1>3, <1>4, <1>6 DEF Shape, OwnInv
<1>10. TakenInv'
  BY <1>4, <1>a DEF TakenInv
<1>11. ASSUME NEW v \in Ids \ disturbed' PROVE Calm(v)'
  <2>1. Calm(v)
    BY <1>0, <1>4, <1>11 DEF CalmInv
  <2>2. CASE t.from = NoCaller
    <3>1. t.cmd.sub # v /\ subs'[v] = subs[v]
      BY <1>3, <1>4, <1>6, <1>11, <2>2
    <3> QED BY <1>0, <1>4, <1>5, <2>1, <2>2, <3>1, Names DEF Calm
  <2>3. CASE t.from \in Callers
    <3> PICK c \in Callers : c = t.from
      BY <2>3
    <3>0. c # NoCaller /\ phase[c] = "taken" /\ t.cmd = cmd[c]
      BY <1>3, Names
    <3>w. Waits(c)
      BY <1>0, <3>0, Waiting
    <3>1. CASE c \in Handlers /\ pc[c] = "subbed"
      <4>1. /\ t.cmd.op = "subscribe" /\ t.cmd.sub = user[c] /\ t.cmd.recv = hand[c]
        BY <3>0, <3>w, <3>1, Names DEF Waits
      <4>2. CASE v # user[c]
        <5>1. subs'[v] = subs[v]
          BY <1>6, <4>1, <4>2
        <5> QED BY <1>0, <1>4, <1>5, <2>1, <3>1, <4>2, <5>1, Names DEF Calm
      <4>3. CASE v = user[c]
        <5>1. /\ \A g \in Handlers : pc[g] \in Working /\ user[g] = v => g = c
              /\ hand[c] = entry[v] /\ life[hand[c]] = "live"
          BY <2>1, <3>1, <4>3 DEF Calm, Working
        <5>2. /\ subs'[v] = hand[c] \/ (rc = "fail" /\ subs'[v] = subs[v])
              /\ phase'[c] = "answered" /\ answer'[c] = rc
          BY <1>5, <1>6, <3>0, <4>1, <4>3
        <5>3. \A r \in Reactors : owner[r] = v =>
                  dpc[r] # "removing" /\ (bound[r] /\ life[r] = "live" => r = hand[c])
          BY <1>0, <2>1, <5>1 DEF Calm, Shape, LifeInv
        <5> QED BY <1>4, <2>1, <5>1, <5>2, <5>3 DEF Calm
      <4> QED BY <4>2, <4>3
    <3>2. CASE c \in Handlers /\ pc[c] # "subbed"
      <4>1. t.cmd.op \in {"unsubscribe", "publish"}
        BY <3>0, <3>w, <3>2, Names DEF Waits
      <4>2. subs'[v] = subs[v]
        BY <1>6, <4>1
      <4> QED BY <1>0, <1>4, <1>5, <2>1, <3>2, <4>2, Names DEF Calm
    <3>3. CASE c \in Reactors
      <4>1. /\ t.cmd.op = "remove" /\ t.cmd.sub = owner[c] /\ life[c] = "dying"
            /\ dpc[c] = "removing"
        BY <3>0, <3>w, <3>3, Names DEF Waits
      <4>2. CASE v # owner[c]
        <5>1. subs'[v] = subs[v]
          BY <1>6, <4>1, <4>2
        <5> QED BY <1>0, <1>4, <1>5, <2>1, <3>3, <4>2, <5>1, Names DEF Calm
      <4>3. CASE v = owner[c]
        <5>1. subs'[v] = NoReactor /\ entry[v] = c
          BY <1>6, <2>1, <3>3, <4>1, <4>3 DEF Calm
        <5>2. \A g \in Handlers : pc[g] \in Working /\ user[g] = v => pc[g] # "subbed"
          BY <2>1, <4>1, <5>1 DEF Calm
        <5>3. \A r \in Reactors : owner[r] = v => life[r] # "live"
          BY <2>1, <4>1, <5>1 DEF Calm
        <5> QED BY <1>4, <2>1, <5>1, <5>2, <5>3 DEF Calm
      <4> QED BY <4>2, <4>3
    <3> QED BY <3>1, <3>2, <3>3, Names
  <2> QED BY <1>2, <2>2, <2>3
<1> QED BY <1>7, <1>8, <1>9, <1>10, <1>11 DEF Shape, CalmInv

-----------------------------------------------------------------------------
(* The theorems.                                                            *)

\* At the start nothing exists.
LEMMA InitInv == Init => Inv
<1> SUFFICES ASSUME Init PROVE Inv
  OBVIOUS
<1>0. BaseType
  BY InitType
<1>1. Shape
  BY Names DEF Init, MqInit, Shape, LifeInv, HandInv, HandOf, OwnInv, TakenInv, QueueCommand
<1>2. CalmInv
  BY Names DEF Init, MqInit, CalmInv, Calm, Working
<1> QED BY <1>0, <1>1, <1>2 DEF Inv

\* Every step of the server and of its clients keeps the invariant.
LEMMA InvStep == Inv /\ [Next]_vars => Inv'
<1> SUFFICES ASSUME Inv, [Next]_vars PROVE Inv'
  OBVIOUS
<1>1. BaseType'
  BY NextType DEF Inv, Shape
<1> SUFFICES ASSUME Running' PROVE Shape' /\ CalmInv'
  BY <1>1 DEF Inv
<1>2. CASE UNCHANGED vars
  <2>1. Running
    BY <1>2 DEF vars, Running
  <2> QED BY <1>2, <2>1, StreamStep
<1>3. CASE Next
  <2>0. Running
    BY <1>3 DEF Next, Server
  <2>1. CASE Queue
    BY <2>0, <2>1, TakeStep, MqReturnStep, GiveUpStep, ExecuteStep DEF Queue
  <2>2. ASSUME NEW h \in Handlers,
               \/ Create(h) \/ Sub(h) \/ SubOk(h) \/ SubFails(h)
               \/ UnSub(h) \/ UnSubDone(h) \/ PublishBegin(h) \/ PublishDone(h)
        PROVE  Shape' /\ CalmInv'
    BY <2>0, <2>2, CreateStep, CallStep, ReturnStep, SubFailsStep, PublishStep
  <2>3. ASSUME NEW r \in Reactors, Remove(r) \/ Unregister(r) \/ OnDone(r)
        PROVE  Shape' /\ CalmInv'
    BY <2>0, <2>3, RemoveStep, UnregisterStep, OnDoneStep
  <2> QED BY <1>3, <2>0, <2>1, <2>2, <2>3, BeginStep, StreamStep DEF Next, Server
<1> QED BY <1>2, <1>3

\* The conjuncts of Inv are inductive together.
THEOREM SubscribeInvariant == Spec => []Inv
BY InitInv, InvStep, PTL DEF Spec

\* Every variable has its type.
THEOREM SubscribeTypes == Spec => []TypeOK
<1>1. Inv => TypeOK
  BY BaseIsType DEF Inv
<1> QED BY SubscribeInvariant, <1>1, PTL

\* Whatever handlers, destructors and the queue do, the entry and the callback
\* of a user belong to its own reactors; those of a user whose calls have
\* neither overlapped nor timed out are not freed.
THEOREM CallbacksAreAlive == Spec => []NoDanglingSubscriber
<1>1. Inv => NoDanglingSubscriber
  <2> SUFFICES ASSUME Inv, Running, NEW u \in Ids
               PROVE  /\ subs[u] # NoReactor => owner[subs[u]] = u
                      /\ entry[u] # NoReactor => owner[entry[u]] = u
                      /\ u \notin disturbed =>
                            /\ subs[u] # NoReactor => life[subs[u]] # "freed"
                            /\ entry[u] # NoReactor => life[entry[u]] # "freed"
    BY DEF NoDanglingSubscriber
  <2>1. u \notin disturbed => Calm(u)
    BY DEF Inv, CalmInv
  <2> QED BY <2>1 DEF Inv, Shape, OwnInv, Calm
<1> QED BY SubscribeInvariant, <1>1, PTL

\* The reactor gRPC serves for a user whose calls have neither overlapped nor
\* timed out is the one in the registry and the one the queue calls.
THEOREM ServedIsSubscribed == Spec => []ServedUserIsSubscribed
<1>1. Inv => ServedUserIsSubscribed
  <2> SUFFICES ASSUME Inv, Running, NEW r \in Reactors, bound[r], life[r] = "live",
                      owner[r] \notin disturbed
               PROVE  subs[owner[r]] = r /\ entry[owner[r]] = r
    BY DEF ServedUserIsSubscribed
  <2>1. Calm(owner[r])
    BY DEF Inv, CalmInv, BaseType, ReactorType
  <2> QED BY <2>1 DEF Calm
<1> QED BY SubscribeInvariant, <1>1, PTL
=============================================================================
