------------------------------ MODULE Subscribe ------------------------------
(***************************************************************************)
(* The Publish, Subscribe and UnSubscribe RPCs (api_handler,                *)
(* SubscribeReactor, subscribe_reactor_mgr) on top of the message queue, of *)
(* which only MqService is used.  A user has at most one entry in the registry and one *)
(* subscriber in the queue, whose callback is a raw pointer to a reactor.   *)
(*                                                                          *)
(* A handler takes the pointer from the registry and uses it after the      *)
(* mutex is given back; the destructor asks the queue to forget the         *)
(* callback, waits for the answer and only then leaves the registry.        *)
(*                                                                          *)
(* The reactor's stream is reduced to what its life depends on: a write in  *)
(* flight, _is_cancelled and Finish (_send and _flush are those of          *)
(* QueryReactor).  A second binding of a reactor to a call, and any use of  *)
(* a deleted one, set misuse and end the behaviour.                         *)
(***************************************************************************)
EXTENDS MqService, Naturals, FiniteSets

CONSTANTS
    Handlers,   \* gRPC threads that run Publish, Subscribe or UnSubscribe
    Reactors,   \* reactors that may be created
    NoReactor,  \* no entry in the registry, nothing in hand
    MaxCalls    \* bound: calls of the three RPCs

\* The queue is called by handlers and by the thread in a reactor's
\* destructor, named after the reactor.
ASSUME CallersAssumption ==
    /\ Callers = Handlers \cup Reactors /\ Handlers \cap Reactors = {}
    /\ Receivers = Reactors /\ NoReceiver = NoReactor
    /\ NoReactor \notin Handlers
ASSUME MaxCallsAssumption == MaxCalls \in Nat

VARIABLES
    life,       \* "none", "live", "dying" (in the destructor) or "freed"
    owner,      \* _user_id
    entry,      \* _active_subers
    pc,         \* where each handler is
    user,       \* the user it works for
    hand,       \* the reactor it has in hand
    dpc,        \* where the destructor of each reactor is
    then,       \* which handler runs it; the reactor itself: gRPC, in OnDone
    bound,      \* the reactor was returned to gRPC
    inflight,   \* a write of it is in flight
    cancelled,  \* _is_cancelled
    finished,   \* Finish was called
    calls,      \* calls of the three RPCs so far
    disturbed,  \* history: users whose calls overlapped or timed out
    misuse      \* the first breach

handlerVars == <<pc, user, hand, calls>>
reactorVars == <<life, owner, dpc, then>>
streamVars  == <<bound, inflight, cancelled, finished>>
vars == <<mqVars, entry, handlerVars, reactorVars, streamVars, disturbed, misuse>>

\* Stand for a user and a reactor where there is none yet.
AnyUser == CHOOSE u \in Ids : TRUE
AnyReactor == CHOOSE r \in Reactors : TRUE

QueueCommand(o, u, r) == [op |-> o, sub |-> u, recv |-> r]

Init ==
    /\ MqInit
    /\ cmd = [c \in Callers |-> QueueCommand("stop", AnyUser, AnyReactor)]
    /\ life = [r \in Reactors |-> "none"]
    /\ owner = [r \in Reactors |-> AnyUser]
    /\ entry = [u \in Ids |-> NoReactor]
    /\ pc = [h \in Handlers |-> "idle"]
    /\ user = [h \in Handlers |-> AnyUser]
    /\ hand = [h \in Handlers |-> NoReactor]
    /\ dpc = [r \in Reactors |-> "no"]
    /\ then = [r \in Reactors |-> r]
    /\ bound = [r \in Reactors |-> FALSE]
    /\ inflight = [r \in Reactors |-> FALSE]
    /\ cancelled = [r \in Reactors |-> FALSE]
    /\ finished = [r \in Reactors |-> FALSE]
    /\ calls = 0 /\ disturbed = {} /\ misuse = "none"

Goto(h, l) == pc' = [pc EXCEPT ![h] = l]

Breach(m) == misuse' = m

\* Someone other than thread t is at work for user u.
Busy(t, u) ==
    \/ \E h \in Handlers \ {t} : pc[h] \notin {"idle", "published"} /\ user[h] = u
    \/ \E r \in Reactors \ {t} : dpc[r] # "no" /\ owner[r] = u

\* Thread t begins to work for user u.
Enter(t, u) ==
    disturbed' = IF Busy(t, u) THEN disturbed \cup {u} ELSE disturbed

-----------------------------------------------------------------------------
(* The handlers.                                                            *)

\* get_active_suber, under the mutex; Subscribe creates a reactor if there is
\* none, whose constructor registers it in a second critical section.
Begin(h, u) ==
    /\ pc[h] = "idle" /\ calls < MaxCalls
    /\ calls' = calls + 1
    /\ user' = [user EXCEPT ![h] = u]
    /\ hand' = [hand EXCEPT ![h] = entry[u]]
    /\ Enter(h, u)
    /\ UNCHANGED <<mqVars, entry, reactorVars, streamVars, misuse>>

SubscribeBegin(h, u) ==
    /\ Begin(h, u)
    /\ Goto(h, IF entry[u] = NoReactor THEN "create" ELSE "sub")

Unused == {r \in Reactors : life[r] = "none"}

Create(h) ==
    /\ pc[h] = "create" /\ Unused # {}
    /\ LET r == CHOOSE q \in Unused : TRUE
       IN  /\ life' = [life EXCEPT ![r] = "live"]
           /\ owner' = [owner EXCEPT ![r] = user[h]]
           /\ entry' = [entry EXCEPT ![user[h]] = r]
           /\ hand' = [hand EXCEPT ![h] = r]
    /\ Goto(h, "sub")
    /\ UNCHANGED <<mqVars, user, calls, dpc, then, streamVars, disturbed, misuse>>

\* Sub, UnSub and the destructor call the queue through the reactor.
CallMq(c, r, o) ==
    IF life[r] = "freed"
      THEN Breach("use_after_free") /\ UNCHANGED mqVars
      ELSE /\ MqCall(c, QueueCommand(o, owner[r], r))
           /\ UNCHANGED misuse

Sub(h) ==
    /\ pc[h] = "sub"
    /\ CallMq(h, hand[h], "subscribe")
    /\ Goto(h, "subbed")
    /\ UNCHANGED <<entry, user, hand, calls, reactorVars, streamVars, disturbed>>

\* As SubOk, whatever Sub has returned.
SubOkAnyway(h) ==
    /\ pc[h] = "subbed" /\ phase[h] = "idle"
    /\ bound' = [bound EXCEPT ![hand[h]] = TRUE]
    /\ misuse' = IF life[hand[h]] = "freed" THEN "use_after_free"
                 ELSE IF bound[hand[h]] THEN "double_bind" ELSE misuse
    /\ hand' = [hand EXCEPT ![h] = NoReactor]
    /\ Goto(h, "idle")
    /\ UNCHANGED <<mqVars, entry, user, calls, reactorVars, inflight, cancelled,
                   finished, disturbed>>

\* Sub was successful: the reactor is returned, and gRPC binds it to the call.
SubOk(h) ==
    /\ pc[h] = "subbed" /\ phase[h] = "idle" /\ outcome[h] = "ok"
    /\ bound' = [bound EXCEPT ![hand[h]] = TRUE]
    /\ misuse' = IF life[hand[h]] = "freed" THEN "use_after_free"
                 ELSE IF bound[hand[h]] THEN "double_bind" ELSE misuse
    /\ hand' = [hand EXCEPT ![h] = NoReactor]
    /\ Goto(h, "idle")
    /\ UNCHANGED <<mqVars, entry, user, calls, reactorVars, inflight, cancelled,
                   finished, disturbed>>

\* Sub has failed: delete suber, also one that is bound to another call.
SubFails(h) ==
    /\ pc[h] = "subbed" /\ phase[h] = "idle" /\ outcome[h] = "fail"
    /\ IF life[hand[h]] = "live"
         THEN /\ life' = [life EXCEPT ![hand[h]] = "dying"]
              /\ dpc' = [dpc EXCEPT ![hand[h]] = "remove"]
              /\ then' = [then EXCEPT ![hand[h]] = h]
              /\ UNCHANGED misuse
         ELSE Breach("use_after_free") /\ UNCHANGED <<life, dpc, then>>
    /\ Goto(h, "delete")
    /\ UNCHANGED <<mqVars, entry, user, hand, calls, owner, streamVars, disturbed>>

\* UnSubscribe of a user without a reactor returns at once.
UnSubscribeBegin(h, u) ==
    /\ Begin(h, u)
    /\ Goto(h, IF entry[u] = NoReactor THEN "idle" ELSE "unsub")

UnSub(h) ==
    /\ pc[h] = "unsub"
    /\ CallMq(h, hand[h], "unsubscribe")
    /\ Goto(h, "unsubbed")
    /\ UNCHANGED <<entry, user, hand, calls, reactorVars, streamVars, disturbed>>

UnSubDone(h) ==
    /\ pc[h] = "unsubbed" /\ phase[h] = "idle"
    /\ hand' = [hand EXCEPT ![h] = NoReactor]
    /\ Goto(h, "idle")
    /\ UNCHANGED <<mqVars, entry, user, calls, reactorVars, streamVars,
                   disturbed, misuse>>

\* Publish hands its message to the queue and answers OK whatever becomes of
\* it; several messages are several calls.
PublishBegin(h) ==
    /\ pc[h] = "idle" /\ calls < MaxCalls
    /\ calls' = calls + 1
    /\ MqCall(h, QueueCommand("publish", AnyUser, AnyReactor))
    /\ Goto(h, "published")
    /\ UNCHANGED <<entry, user, hand, reactorVars, streamVars, disturbed, misuse>>

PublishDone(h) ==
    /\ pc[h] = "published" /\ phase[h] = "idle"
    /\ Goto(h, "idle")
    /\ UNCHANGED <<mqVars, entry, user, hand, calls, reactorVars, streamVars,
                   disturbed, misuse>>

-----------------------------------------------------------------------------
(* The destructor, run by a handler or by OnDone.                           *)

Remove(r) ==
    /\ dpc[r] = "remove" /\ phase[r] = "idle"
    /\ MqCall(r, QueueCommand("remove", owner[r], r))
    /\ dpc' = [dpc EXCEPT ![r] = "removing"]
    /\ UNCHANGED <<entry, handlerVars, life, owner, then, streamVars, disturbed,
                   misuse>>

\* As Unregister, before the queue has answered.
UnregisterEarly(r) ==
    /\ dpc[r] = "removing"
    /\ entry' = [entry EXCEPT ![owner[r]] = NoReactor]
    /\ life' = [life EXCEPT ![r] = "freed"]
    /\ dpc' = [dpc EXCEPT ![r] = "no"]
    /\ IF then[r] = r THEN UNCHANGED <<pc, hand>>
       ELSE /\ Goto(then[r], "idle")
            /\ hand' = [hand EXCEPT ![then[r]] = NoReactor]
    /\ misuse' = IF then[r] # r /\ bound[r] THEN "use_after_free" ELSE misuse
    /\ UNCHANGED <<mqVars, user, calls, owner, then, streamVars, disturbed>>

\* remove_suber has returned, whatever it returned; unregister_suber erases
\* the user's entry, and the memory goes.  gRPC still uses a bound reactor
\* that a handler has deleted.
Unregister(r) ==
    /\ dpc[r] = "removing" /\ phase[r] = "idle"
    /\ entry' = [entry EXCEPT ![owner[r]] = NoReactor]
    /\ life' = [life EXCEPT ![r] = "freed"]
    /\ dpc' = [dpc EXCEPT ![r] = "no"]
    /\ IF then[r] = r THEN UNCHANGED <<pc, hand>>
       ELSE /\ Goto(then[r], "idle")
            /\ hand' = [hand EXCEPT ![then[r]] = NoReactor]
    /\ misuse' = IF then[r] # r /\ bound[r] THEN "use_after_free" ELSE misuse
    /\ UNCHANGED <<mqVars, user, calls, owner, then, streamVars, disturbed>>

-----------------------------------------------------------------------------
(* The stream and the queue.                                                *)

\* The I/O thread hands a message to the callback of user u: _send, which
\* starts a write unless the call is cancelled or one is in flight; gRPC keeps
\* the write of a reactor it has not been given yet.
Deliver(u) ==
    /\ subs[u] # NoReceiver
    /\ IF life[subs[u]] = "freed"
         THEN Breach("use_after_free") /\ UNCHANGED inflight
         ELSE /\ ~cancelled[subs[u]] /\ ~inflight[subs[u]]
              /\ inflight' = [inflight EXCEPT ![subs[u]] = TRUE]
              /\ UNCHANGED misuse
    /\ UNCHANGED <<mqVars, entry, handlerVars, reactorVars, bound, cancelled,
                   finished, disturbed>>

\* OnCancel only sets the flag.
OnCancel(r) ==
    /\ bound[r] /\ life[r] = "live" /\ ~cancelled[r]
    /\ cancelled' = [cancelled EXCEPT ![r] = TRUE]
    /\ UNCHANGED <<mqVars, entry, handlerVars, reactorVars, bound, inflight,
                   finished, disturbed, misuse>>

\* OnWriteDone; a failed write cancels and finishes the call.  (A successful
\* one that is followed by the write of a queued message changes nothing here.)
OnWriteDone(r, ok) ==
    /\ inflight[r] /\ bound[r] /\ life[r] # "freed"
    /\ inflight' = [inflight EXCEPT ![r] = FALSE]
    /\ cancelled' = [cancelled EXCEPT ![r] = @ \/ ~ok]
    /\ finished' = [finished EXCEPT ![r] = @ \/ ~ok]
    /\ UNCHANGED <<mqVars, entry, handlerVars, reactorVars, bound, disturbed,
                   misuse>>

\* OnDone: delete this.
OnDone(r) ==
    /\ finished[r] /\ ~inflight[r] /\ life[r] = "live"
    /\ life' = [life EXCEPT ![r] = "dying"]
    /\ dpc' = [dpc EXCEPT ![r] = "remove"]
    /\ Enter(r, owner[r])
    /\ UNCHANGED <<mqVars, entry, handlerVars, owner, then, streamVars, misuse>>

\* The queue works on its own; a command that fails for want of time may be
\* executed later.
Queue ==
    /\ \/ /\ \/ \E c \in Callers : MqTake(c) \/ MqReturn(c)
             \/ \E rc \in {"ok", "fail"} : MqExecute(rc)
          /\ UNCHANGED disturbed
       \/ \E c \in Callers :
             /\ MqGiveUp(c)
             /\ disturbed' = disturbed \cup {cmd[c].sub}
    /\ UNCHANGED <<entry, handlerVars, reactorVars, streamVars, misuse>>

-----------------------------------------------------------------------------
Running == misuse = "none"

\* What the server does by itself.
Server ==
    /\ Running
    /\ \/ \E h \in Handlers : Create(h) \/ Sub(h) \/ SubOk(h) \/ SubFails(h)
                              \/ UnSub(h) \/ UnSubDone(h) \/ PublishDone(h)
       \/ \E r \in Reactors : Remove(r) \/ Unregister(r) \/ OnDone(r)
       \/ Queue

Next ==
    \/ Server
    \/ /\ Running
       /\ \/ \E h \in Handlers : PublishBegin(h)
          \/ \E h \in Handlers, u \in Ids :
                SubscribeBegin(h, u) \/ UnSubscribeBegin(h, u)
          \/ \E u \in Ids : Deliver(u)
          \/ \E r \in Reactors : OnCancel(r) \/ \E ok \in BOOLEAN : OnWriteDone(r, ok)

Spec == Init /\ [][Next]_vars

-----------------------------------------------------------------------------
(* Properties.                                                              *)

\* Every variable has its type.
TypeOK ==
    /\ phase \in [Callers -> {"idle", "pending", "taken", "answered"}]
    /\ cmd \in [Callers -> Command]
    /\ outcome \in [Callers -> {"none", "ok", "fail"}]
    /\ answer \in [Callers -> {"none", "ok", "fail"}]
    /\ taken \subseteq [from : Callers \cup {NoCaller}, cmd : Command]
    /\ Cardinality(taken) <= 1
    /\ subs \in [Ids -> Reactors \cup {NoReactor}]
    /\ life \in [Reactors -> {"none", "live", "dying", "freed"}]
    /\ owner \in [Reactors -> Ids] /\ entry \in [Ids -> Reactors \cup {NoReactor}]
    /\ pc \in [Handlers -> {"idle", "create", "sub", "subbed", "delete",
                            "unsub", "unsubbed", "published"}]
    /\ user \in [Handlers -> Ids] /\ hand \in [Handlers -> Reactors \cup {NoReactor}]
    /\ dpc \in [Reactors -> {"no", "remove", "removing"}]
    /\ then \in [Reactors -> Handlers \cup Reactors]
    /\ bound \in [Reactors -> BOOLEAN] /\ inflight \in [Reactors -> BOOLEAN]
    /\ cancelled \in [Reactors -> BOOLEAN] /\ finished \in [Reactors -> BOOLEAN]
    /\ calls \in 0..MaxCalls /\ disturbed \subseteq Ids
    /\ misuse \in {"none", "use_after_free", "double_bind"}

\* The callback of a user and the entry of a user belong to that user's own
\* reactors; and as long as the calls of the user have neither overlapped nor
\* timed out, neither points to a deleted one, whatever other users do: the
\* destructor waits for remove_suber before it frees anything.
NoDanglingSubscriber ==
    Running => \A u \in Ids :
        /\ subs[u] # NoReactor => owner[subs[u]] = u
        /\ entry[u] # NoReactor => owner[entry[u]] = u
        /\ u \notin disturbed =>
              /\ subs[u] # NoReactor => life[subs[u]] # "freed"
              /\ entry[u] # NoReactor => life[entry[u]] # "freed"

\* A user whose calls have neither overlapped nor timed out has what its last
\* Subscribe promised: the reactor gRPC serves is the one the queue calls.
ServedUserIsSubscribed ==
    Running => \A r \in Reactors :
        bound[r] /\ life[r] = "live" /\ owner[r] \notin disturbed =>
            subs[owner[r]] = r /\ entry[owner[r]] = r
=============================================================================
