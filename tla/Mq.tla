--------------------------------- MODULE Mq ---------------------------------
(***************************************************************************)
(* The ZeroMQ message queue of the core server (mq.h).  Application threads *)
(* put a command into a table under a lock, send its id to the I/O thread   *)
(* over an inproc REQ/REP pair and wait up to two seconds for the result;   *)
(* the I/O thread owns every other socket, the poller and the subscribers.  *)
(*                                                                          *)
(* entry says which function the I/O thread runs: "_run" is what the code   *)
(* starts; "_run_loop" is the loop its comment refers to, which nothing     *)
(* calls.  Everything else is common to both.                               *)
(***************************************************************************)
EXTENDS Naturals, Sequences

CONSTANTS
    EntryPoints,  \* "_run", "_run_loop" or both
    Clients,      \* application threads that use the queue
    Ids,          \* subscriber (user) ids
    MaxCommands,  \* bound: calls made by the clients
    MaxMessages   \* bound: messages that arrive for subscribers

ASSUME EntryPointsAssumption == EntryPoints \subseteq {"_run", "_run_loop"}
ASSUME ClientsAssumption == {"main", "stop", "nobody"} \cap Clients = {}
ASSUME BoundsAssumption == MaxCommands \in Nat /\ MaxMessages \in Nat

\* "main" calls init once, at start; "stop" is the thread of the destructor.
Caller == Clients \cup {"main", "stop"}

\* The types of a command; "publish" stands for bind as well, which also works
\* on the publisher socket only.
Ops == {"subscribe", "unsubscribe", "remove", "publish", "stop"}
ControlTag == 0
NoSub == 0

VARIABLES
    entry,          \* the function the I/O thread runs
    pc,             \* where each caller is
    op,             \* the type of its command
    sub,            \* the subscriber id of its command
    cid,            \* its command id
    result,         \* what its last call returned: "none", "ok" or "fail"
    calls,          \* calls made by the clients so far
    worker,         \* the I/O thread; "none" is a _thread that is not joinable
    ready,          \* the promise of the init under way
    initialized,    \* _initialized
    stop_requested, \* _stop_requested
    ctxDown,        \* the ZeroMQ context was shut down
    commands,       \* _commands
    next_id,        \* _next_command_id
    inbox,          \* ids that wait at the control socket
    reply,          \* results on their way to the callers
    taken,          \* the command the I/O thread executes
    batch,          \* tags of the events of the last poll still to handle
    subscribers,    \* _subscribers: the tag of each id, NoSub if there is none
    next_tag,       \* _next_subscriber_tag, counted from the first it gives
    pending,        \* messages that wait at each subscriber's socket, by tag
    arrived,        \* messages so far
    executed,       \* history: ids of executed commands
    removed,        \* history: tags whose removal was executed
    initFailed,     \* history: some init failed
    crashed         \* std::terminate was called

callVars   == <<pc, op, sub, cid, result, calls>>
stateVars  == <<entry, worker, ready, initialized, stop_requested, ctxDown>>
tableVars  == <<commands, next_id, inbox, reply, taken>>
socketVars == <<batch, subscribers, next_tag, pending, arrived>>
histVars   == <<executed, removed, initFailed, crashed>>
vars == <<callVars, stateVars, tableVars, socketVars, histVars>>

Tags == 1..MaxCommands

\* Command c has submitted: its id, its caller, its type and its subscriber.
CommandOf(c, id) == [id |-> id, from |-> c, op |-> op[c], sub |-> sub[c]]

Init ==
    /\ entry \in EntryPoints
    /\ pc = [c \in Caller |-> IF c = "main" THEN "init" ELSE "idle"]
    /\ op = [c \in Caller |-> "stop"]
    /\ sub \in [Caller -> Ids] /\ \A c, d \in Caller : sub[c] = sub[d]
    /\ cid = [c \in Caller |-> 0]
    /\ result = [c \in Caller |-> "none"] /\ calls = 0
    /\ worker = "none" /\ ready = "none"
    /\ initialized = FALSE /\ stop_requested = FALSE /\ ctxDown = FALSE
    /\ commands = {} /\ next_id = 1 /\ inbox = <<>>
    /\ reply = [c \in Caller |-> "none"]
    /\ taken = {}
    /\ batch = {} /\ subscribers = [i \in Ids |-> NoSub] /\ next_tag = 1
    /\ pending = [t \in Tags |-> 0] /\ arrived = 0
    /\ executed = {} /\ removed = {} /\ initFailed = FALSE /\ crashed = FALSE

Goto(c, l) == pc' = [pc EXCEPT ![c] = l]

\* Caller c's call returns; the destructor has its fallback to come.
Return(c, r) ==
    /\ result' = [result EXCEPT ![c] = r]
    /\ Goto(c, IF c = "stop" THEN "fallback" ELSE "idle")

Joinable == worker # "none"

-----------------------------------------------------------------------------
(* init, called by main and by _ensure_initialized.                         *)

\* As InitCheck, with the test of _thread dropped.
InitWithoutCheck(c) ==
    /\ pc[c] = "init"
    /\ stop_requested' = FALSE
    /\ Goto(c, "spawn")
    /\ UNCHANGED <<op, sub, cid, result, calls, worker, ready, initialized,
                   entry, ctxDown, tableVars, socketVars, histVars>>

\* Under _state_mu: an existing thread decides, else a new one is prepared.
InitCheck(c) ==
    /\ pc[c] = "init"
    /\ \/ /\ Joinable /\ initialized /\ c # "main"
          /\ Goto(c, "submit")
          /\ UNCHANGED <<result, stop_requested>>
       \/ /\ Joinable /\ ~initialized
          /\ Return(c, "fail")
          /\ UNCHANGED stop_requested
       \/ /\ ~Joinable
          /\ stop_requested' = FALSE
          /\ Goto(c, "spawn")
          /\ UNCHANGED result
    /\ UNCHANGED <<op, sub, cid, calls, worker, ready, initialized, entry,
                   ctxDown,
                   tableVars, socketVars, histVars>>

\* _thread = std::thread(...), outside the lock: assigning to a joinable
\* thread terminates the process.
InitSpawn(c) ==
    /\ pc[c] = "spawn"
    /\ Goto(c, "await")
    /\ IF Joinable
         THEN crashed' = TRUE /\ UNCHANGED <<worker, ready>>
         ELSE worker' = "starting" /\ ready' = "none" /\ UNCHANGED crashed
    /\ UNCHANGED <<op, sub, cid, result, calls, initialized, stop_requested,
                   entry, ctxDown, tableVars, socketVars, executed, removed,
                   initFailed>>

\* future.get() is true.
InitOk(c) ==
    /\ pc[c] = "await" /\ ready = "ok"
    /\ IF c = "main" THEN Return(c, "ok")
       ELSE Goto(c, "submit") /\ UNCHANGED result
    /\ UNCHANGED <<op, sub, cid, calls, stateVars, tableVars, socketVars,
                   histVars>>

\* future.get() is false: the thread, which is about to end, is joined.
InitFail(c) ==
    /\ pc[c] = "await" /\ ready = "fail" /\ worker = "ended"
    /\ worker' = "none"
    /\ initFailed' = TRUE
    /\ Return(c, "fail")
    /\ UNCHANGED <<op, sub, cid, calls, ready, initialized, stop_requested,
                   entry, ctxDown, tableVars, socketVars, executed, removed, crashed>>

-----------------------------------------------------------------------------
(* _request.                                                                *)

\* sub, unsub, remove_suber and pub: a command, then _ensure_initialized.
Request(c, o, i) ==
    /\ pc[c] = "idle" /\ result["main"] # "none" /\ calls < MaxCommands
    /\ calls' = calls + 1
    /\ op' = [op EXCEPT ![c] = o]
    /\ sub' = [sub EXCEPT ![c] = i]
    /\ Goto(c, IF initialized THEN "submit" ELSE "init")
    /\ result' = [result EXCEPT ![c] = "none"]
    /\ UNCHANGED <<cid, stateVars, tableVars, socketVars, histVars>>

\* The command goes into the table under _command_mu.
Submit(c) ==
    /\ pc[c] = "submit"
    /\ cid' = [cid EXCEPT ![c] = next_id]
    /\ next_id' = next_id + 1
    /\ commands' = commands \cup {CommandOf(c, next_id)}
    /\ Goto(c, "send")
    /\ UNCHANGED <<op, sub, result, calls, stateVars, inbox, reply, taken,
                   socketVars, histVars>>

\* The id is sent on a socket of the caller's own.
Send(c) ==
    /\ pc[c] = "send" /\ ~ctxDown
    /\ inbox' = Append(inbox, cid[c])
    /\ Goto(c, "recv")
    /\ UNCHANGED <<op, sub, cid, result, calls, stateVars, commands, next_id,
                   reply, taken, socketVars, histVars>>

\* The result is received.
Recv(c) ==
    /\ pc[c] = "recv" /\ reply[c] # "none"
    /\ Return(c, reply[c])
    /\ reply' = [reply EXCEPT ![c] = "none"]
    /\ UNCHANGED <<op, sub, cid, calls, stateVars, commands, next_id, inbox,
                   taken, socketVars, histVars>>

\* As GiveUp, with no timeout on the answer.
GiveUpOnSendOnly(c) ==
    /\ pc[c] = "send"
    /\ Return(c, "fail")
    /\ commands' = {k \in commands : k.id # cid[c]}
    /\ UNCHANGED <<op, sub, cid, calls, stateVars, next_id, inbox, reply,
                   taken,
                   socketVars, histVars>>

\* The requests in s without the i-th.
Without(s, i) == SubSeq(s, 1, i - 1) \o SubSeq(s, i + 1, Len(s))

\* The send fails or nothing is received for two seconds: the command is
\* erased and the socket closed; a request not yet read may go with it.
GiveUp(c) ==
    /\ pc[c] \in {"send", "recv"}
    /\ Return(c, "fail")
    /\ commands' = {k \in commands : k.id # cid[c]}
    /\ \/ UNCHANGED inbox
       \/ \E i \in 1..Len(inbox) :
             inbox[i] = cid[c] /\ inbox' = Without(inbox, i)
    /\ reply' = [reply EXCEPT ![c] = "none"]
    /\ UNCHANGED <<op, sub, cid, calls, stateVars, next_id, taken, socketVars,
                   histVars>>

-----------------------------------------------------------------------------
(* The I/O thread.                                                          *)

\* _run binds its sockets and returns.
RunStart ==
    /\ worker' = "ended" /\ UNCHANGED initialized

\* _run_loop binds its sockets, stores _initialized and polls.
LoopStart ==
    /\ worker' = "poll" /\ initialized' = TRUE

\* The sockets are created and bound; the promise is fulfilled.
WorkerStart ==
    /\ worker = "starting" /\ ~ctxDown
    /\ IF entry = "_run" THEN RunStart ELSE LoopStart
    /\ ready' = "ok"
    /\ UNCHANGED <<callVars, stop_requested, entry, ctxDown, tableVars,
                   socketVars, histVars>>

\* A socket cannot be created or bound.
WorkerStartFails ==
    /\ worker = "starting"
    /\ worker' = "ended" /\ initialized' = FALSE /\ ready' = "fail"
    /\ UNCHANGED <<callVars, stop_requested, entry, ctxDown, tableVars,
                   socketVars, histVars>>

\* The sockets with something to read.
Readable == {t \in Tags : pending[t] > 0}
            \cup (IF inbox = <<>> THEN {} ELSE {ControlTag})

\* _poller.poll returns the readable sockets, in one list.
WorkerPoll ==
    /\ worker = "poll" /\ batch = {} /\ ~stop_requested /\ Readable # {}
    /\ batch' = Readable
    /\ UNCHANGED <<callVars, stateVars, tableVars, subscribers, next_tag,
                   pending, arrived, histVars>>

\* The end of _run_loop: the poller and the subscribers are cleared.
WorkerEnd ==
    /\ worker' = "ended" /\ initialized' = FALSE
    /\ batch' = {}
    /\ subscribers' = [i \in Ids |-> NoSub]
    /\ pending' = [t \in Tags |-> 0]

\* The loop's test of _stop_requested, or a control socket found closed.
WorkerStops ==
    /\ worker = "poll"
    /\ \/ batch = {} /\ stop_requested
       \/ ControlTag \in batch /\ ctxDown
    /\ WorkerEnd
    /\ UNCHANGED <<callVars, ready, stop_requested, entry, ctxDown, tableVars,
                   next_tag, arrived, histVars>>

\* _process_control up to the lookup: the command leaves the table, or its
\* caller has erased it.  recv waits if the request was dropped after poll.
WorkerTake ==
    /\ worker = "poll" /\ ControlTag \in batch /\ inbox # <<>>
    /\ inbox' = Tail(inbox)
    /\ taken' = {k \in commands : k.id = Head(inbox)}
    /\ commands' = commands \ taken'
    /\ IF taken' = {}
         THEN batch' = batch \ {ControlTag} /\ UNCHANGED worker
         ELSE worker' = "execute" /\ UNCHANGED batch
    /\ UNCHANGED <<callVars, ready, initialized, stop_requested, entry,
                   ctxDown,
                   next_id, reply, subscribers, next_tag, pending, arrived,
                   histVars>>

\* As SendControlResult, with the result given to whatever call its caller
\* is in by now.
SendControlResultToCaller(k, rc) ==
    reply' = IF pc[k.from] = "recv" THEN [reply EXCEPT ![k.from] = rc] ELSE reply

\* The result reaches the socket the request came from, if it is still open.
SendControlResult(k, rc) ==
    reply' = IF pc[k.from] = "recv" /\ cid[k.from] = k.id
               THEN [reply EXCEPT ![k.from] = rc] ELSE reply

\* As Subscribe, with the tag read after it was advanced.
SubscribeTagAfter(k, rc) ==
    /\ k.op = "subscribe"
    /\ IF subscribers[k.sub] = NoSub
         THEN /\ next_tag' = next_tag + 1
              /\ subscribers' = IF rc = "ok"
                                  THEN [subscribers EXCEPT ![k.sub] = next_tag']
                                  ELSE subscribers
         ELSE UNCHANGED <<next_tag, subscribers>>
    /\ UNCHANGED <<pending, removed>>

\* _subscribe: a new socket takes a fresh tag even if it cannot connect.
Subscribe(k, rc) ==
    /\ k.op = "subscribe"
    /\ IF subscribers[k.sub] = NoSub
         THEN /\ next_tag' = next_tag + 1
              /\ subscribers' = IF rc = "ok"
                                  THEN [subscribers EXCEPT ![k.sub] = next_tag]
                                  ELSE subscribers
         ELSE UNCHANGED <<next_tag, subscribers>>
    /\ UNCHANGED <<pending, removed>>

\* _unsubscribe changes the filter of a socket, if there is one.
Unsubscribe(k, rc) ==
    /\ k.op = "unsubscribe"
    /\ subscribers[k.sub] = NoSub => rc = "fail"
    /\ UNCHANGED <<next_tag, subscribers, pending, removed>>

\* As RemoveSubscriber, with the entry left in _subscribers.
RemoveFromPollerOnly(k, rc) ==
    /\ k.op = "remove"
    /\ rc = IF subscribers[k.sub] = NoSub THEN "fail" ELSE "ok"
    /\ removed' = removed \cup ({subscribers[k.sub]} \ {NoSub})
    /\ UNCHANGED <<next_tag, subscribers, pending>>

\* _remove_subscriber: out of the poller, then the socket with its messages.
RemoveSubscriber(k, rc) ==
    /\ k.op = "remove"
    /\ rc = IF subscribers[k.sub] = NoSub THEN "fail" ELSE "ok"
    /\ subscribers' = [subscribers EXCEPT ![k.sub] = NoSub]
    /\ removed' = removed \cup ({subscribers[k.sub]} \ {NoSub})
    /\ pending' = [t \in Tags |-> IF t = subscribers[k.sub] THEN 0
                                  ELSE pending[t]]
    /\ UNCHANGED next_tag

\* publisher.pub or publisher.bind, whose effect is outside this process.
Publish(k) ==
    /\ k.op = "publish"
    /\ UNCHANGED <<next_tag, subscribers, pending, removed>>

\* _execute_command, the result and the return to the loop.
WorkerExecute ==
    /\ worker = "execute"
    /\ \E k \in taken, rc \in {"ok", "fail"} :
          /\ k.op # "stop"
          /\ \/ Subscribe(k, rc) \/ Unsubscribe(k, rc)
             \/ RemoveSubscriber(k, rc) \/ Publish(k)
          /\ SendControlResult(k, rc)
          /\ executed' = executed \cup {k.id}
    /\ worker' = "poll" /\ batch' = batch \ {ControlTag} /\ taken' = {}
    /\ UNCHANGED <<callVars, ready, initialized, stop_requested, entry,
                   ctxDown,
                   commands, next_id, inbox, arrived, initFailed, crashed>>

\* The stop command: the result, _stop_requested and the end of the loop.
WorkerExecuteStop ==
    /\ worker = "execute"
    /\ \E k \in taken :
          /\ k.op = "stop"
          /\ SendControlResult(k, "ok")
          /\ executed' = executed \cup {k.id}
    /\ stop_requested' = TRUE /\ taken' = {}
    /\ WorkerEnd
    /\ UNCHANGED <<callVars, ready, entry, ctxDown, commands, next_id, inbox,
                   next_tag, arrived, removed, initFailed, crashed>>

\* _process_subscriber: the subscriber with the event's tag, if it is still
\* there, is given every message that waits.
WorkerDeliver(t) ==
    /\ worker = "poll" /\ t \in batch \ {ControlTag}
    /\ batch' = batch \ {t}
    /\ pending' = IF \E i \in Ids : subscribers[i] = t
                    THEN [pending EXCEPT ![t] = 0] ELSE pending
    /\ UNCHANGED <<callVars, stateVars, tableVars, subscribers, next_tag,
                   arrived, histVars>>

\* A message arrives from the network for a subscriber's socket.
Arrive(t) ==
    /\ arrived < MaxMessages /\ \E i \in Ids : subscribers[i] = t
    /\ arrived' = arrived + 1
    /\ pending' = [pending EXCEPT ![t] = @ + 1]
    /\ UNCHANGED <<callVars, stateVars, tableVars, batch, subscribers,
                   next_tag, histVars>>

Worker ==
    \/ WorkerStart \/ WorkerStartFails \/ WorkerPoll \/ WorkerStops
    \/ WorkerTake \/ WorkerExecute \/ WorkerExecuteStop
    \/ \E t \in Tags : WorkerDeliver(t)

-----------------------------------------------------------------------------
(* stop, called by the destructor when the process ends.                    *)

\* The exchange of _stop_requested; without a thread there is nothing to
\* stop, otherwise a stop command is requested.
StopBegin ==
    /\ pc["stop"] = "idle" /\ result["main"] # "none"
    /\ stop_requested' = TRUE
    /\ IF Joinable
         THEN /\ Goto("stop", IF initialized THEN "submit" ELSE "init")
              /\ UNCHANGED initialized
         ELSE Goto("stop", "done") /\ initialized' = FALSE
    /\ UNCHANGED <<op, sub, cid, result, calls, worker, ready, entry, ctxDown,
                   tableVars, socketVars, histVars>>

\* As StopFallback, with the context left alone.
StopNoFallback ==
    /\ pc["stop"] = "fallback"
    /\ Goto("stop", "join")
    /\ UNCHANGED <<op, sub, cid, result, calls, stateVars, tableVars,
                   socketVars, histVars>>

\* If the stop command failed the context is shut down, which wakes the thread.
StopFallback ==
    /\ pc["stop"] = "fallback"
    /\ ctxDown' = (ctxDown \/ result["stop"] = "fail")
    /\ Goto("stop", "join")
    /\ UNCHANGED <<op, sub, cid, result, calls, worker, ready, initialized,
                   entry,
                   stop_requested, tableVars, socketVars, histVars>>

\* _thread.join(), which throws out of a noexcept function if another thread
\* has joined it.
StopJoin ==
    /\ pc["stop"] = "join"
    /\ \/ /\ worker = "ended"
          /\ worker' = "none" /\ initialized' = FALSE
          /\ Goto("stop", "done")
          /\ UNCHANGED crashed
       \/ /\ worker = "none"
          /\ crashed' = TRUE
          /\ UNCHANGED <<pc, worker, initialized>>
    /\ UNCHANGED <<op, sub, cid, result, calls, ready, stop_requested, entry,
                   ctxDown,
                   tableVars, socketVars, executed, removed, initFailed>>

Call(c) ==
    \/ InitCheck(c) \/ InitSpawn(c) \/ InitOk(c) \/ InitFail(c)
    \/ Submit(c) \/ Send(c) \/ Recv(c) \/ GiveUp(c)

Stop == StopBegin \/ StopFallback \/ StopJoin

-----------------------------------------------------------------------------
\* The process lives: it was not terminated and the destructor has not ended.
Running == ~crashed /\ pc["stop"] # "done"

Next ==
    /\ Running
    /\ \/ \E c \in Caller : Call(c)
       \/ \E c \in Clients, o \in Ops \ {"stop"}, i \in Ids : Request(c, o, i)
       \/ Worker
       \/ \E t \in Tags : Arrive(t)
       \/ Stop

Spec == Init /\ [][Next]_vars

\* Threads are scheduled, and receives time out.  Nothing obliges a client to
\* call, a message to arrive or the process to end.
FairSpec ==
    /\ Spec
    /\ \A c \in Caller : WF_vars(Running /\ Call(c))
    /\ WF_vars(Running /\ Worker)
    /\ WF_vars(Running /\ (StopFallback \/ StopJoin))

-----------------------------------------------------------------------------
(* Properties.                                                              *)

\* Every variable has its type.
TypeOK ==
    /\ entry \in EntryPoints
    /\ pc \in [Caller -> {"idle", "init", "spawn", "await", "submit", "send",
                          "recv", "fallback", "join", "done"}]
    /\ op \in [Caller -> Ops] /\ sub \in [Caller -> Ids]
    /\ cid \in [Caller -> Nat] /\ result \in [Caller -> {"none", "ok", "fail"}]
    /\ calls \in 0..MaxCommands
    /\ worker \in {"none", "starting", "poll", "execute", "ended"}
    /\ ready \in {"none", "ok", "fail"}
    /\ initialized \in BOOLEAN /\ stop_requested \in BOOLEAN
    /\ ctxDown \in BOOLEAN
    /\ commands \subseteq [id : Nat, from : Caller, op : Ops, sub : Ids]
    /\ taken \subseteq [id : Nat, from : Caller, op : Ops, sub : Ids]
    /\ next_id \in Nat /\ inbox \in Seq(Nat)
    /\ reply \in [Caller -> {"none", "ok", "fail"}]
    /\ batch \subseteq Tags \cup {ControlTag}
    /\ subscribers \in [Ids -> Tags \cup {NoSub}] /\ next_tag \in Nat
    /\ pending \in [Tags -> 0..MaxMessages] /\ arrived \in 0..MaxMessages
    /\ executed \subseteq Nat /\ removed \subseteq Tags
    /\ initFailed \in BOOLEAN /\ crashed \in BOOLEAN

\* A call returns 0 only for its own command, executed: the late result of a
\* call that timed out never answers the next one.
OkMeansExecuted ==
    \A c \in Caller \ {"main"} : result[c] = "ok" => cid[c] \in executed

\* Two init calls end in std::terminate only if an earlier one has failed.
TerminateNeedsFailedInit == crashed => initFailed

\* Once remove_suber was executed for a subscriber no message reaches its
\* callback, not even for an event polled before.
NoDeliveryAfterRemove ==
    [][\A t \in removed : WorkerDeliver(t) => pending'[t] = pending[t]]_vars

\* "Start the ZeroMQ I/O thread": when init returns true the thread serves,
\* until it is told to stop.
InitMeansServing ==
    result["main"] = "ok" /\ ~stop_requested => worker \in {"poll", "execute"}

\* "Never allow destruction to hang forever": stop returns, whatever the I/O
\* thread is doing, unless an init has failed before (then the init that
\* stop's own request makes clears _stop_requested again).
StopReturns ==
    (pc["stop"] # "idle") ~> (pc["stop"] = "done" \/ initFailed)

\* Every call of a client returns.
CallsReturn ==
    \A c \in Clients : (pc[c] # "idle") ~> (pc[c] = "idle" \/ ~Running)

-----------------------------------------------------------------------------
(* Mq implements MqService.                                                 *)

Callers == Clients \cup {"stop"}

\* A command as the service sees it; whose callback it carries is left out.
ServiceCommand(o, i) == [op |-> o, sub |-> i, recv |-> "callback"]

\* A call is pending from its start until the I/O thread has taken its command
\* out of the table.
ServicePhase(c) ==
    IF reply[c] # "none" THEN "answered"
    ELSE IF \E k \in taken : k.from = c /\ k.id = cid[c]
                            /\ pc[c] \in {"send", "recv"} THEN "taken"
    ELSE IF pc[c] \in {"idle", "fallback", "join", "done"} THEN "idle"
    ELSE "pending"

ServiceTaken ==
    {[from |-> IF ServicePhase(k.from) = "taken" THEN k.from ELSE "nobody",
      cmd |-> ServiceCommand(k.op, k.sub)] : k \in taken}

Service == INSTANCE MqService WITH
    Receivers <- {"callback"}, NoReceiver <- "none", NoCaller <- "nobody",
    phase <- [c \in Callers |-> ServicePhase(c)],
    cmd <- [c \in Callers |-> ServiceCommand(op[c], sub[c])],
    outcome <- [c \in Callers |-> result[c]],
    answer <- [c \in Callers |-> reply[c]],
    taken <- ServiceTaken,
    subs <- [i \in Ids |-> IF subscribers[i] = NoSub THEN "none" ELSE "callback"]

\* Threads, table, control socket and poller together do what MqService says:
\* each command at most once and one at a time, its result to its own call or
\* to nobody, and after a failed call at most one execution behind its back.
ImplementsService == Service!MqServiceSpec
=============================================================================
