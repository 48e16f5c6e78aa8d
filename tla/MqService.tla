------------------------------ MODULE MqService ------------------------------
(***************************************************************************)
(* What the message queue promises its callers, without thread, table,      *)
(* sockets and poller: commands are executed one at a time and each at most *)
(* once; a call returns the result of its own command, or fails when it     *)
(* waits too long (or the queue cannot be started), and then a command that *)
(* was already taken may still be executed, once, behind its caller's back. *)
(* Mq implements this specification; Subscribe is built on it.              *)
(***************************************************************************)
CONSTANTS
    Callers,    \* threads that call the queue
    Ids,        \* subscriber (user) ids
    Receivers,  \* what a callback of a subscriber can belong to
    NoReceiver, \* no callback: the id is not subscribed
    NoCaller    \* the caller of a taken command has given up

ASSUME NoReceiverAssumption == NoReceiver \notin Receivers
ASSUME NoCallerAssumption == NoCaller \notin Callers

VARIABLES
    phase,      \* of each caller's call: "idle", "pending", "taken", "answered"
    cmd,        \* its command
    outcome,    \* what its last call returned: "none", "ok" or "fail"
    answer,     \* the result of an answered call
    taken,      \* the command in execution, if any, and who waits for it
    subs        \* the callback of each subscriber

mqVars == <<phase, cmd, outcome, answer, taken, subs>>

Command == [op : {"subscribe", "unsubscribe", "remove", "publish", "stop"},
            sub : Ids, recv : Receivers]

MqInit ==
    /\ phase = [c \in Callers |-> "idle"]
    /\ cmd \in [Callers -> Command]
    /\ outcome = [c \in Callers |-> "none"]
    /\ answer = [c \in Callers |-> "none"]
    /\ taken = {}
    /\ subs = [i \in Ids |-> NoReceiver]

\* A call begins.
MqCall(c, k) ==
    /\ phase[c] = "idle"
    /\ phase' = [phase EXCEPT ![c] = "pending"]
    /\ cmd' = [cmd EXCEPT ![c] = k]
    /\ outcome' = [outcome EXCEPT ![c] = "none"]
    /\ UNCHANGED <<answer, taken, subs>>

\* As MqTake, also while another command is being executed.
MqTakeAtOnce(c) ==
    /\ phase[c] = "pending"
    /\ phase' = [phase EXCEPT ![c] = "taken"]
    /\ taken' = taken \cup {[from |-> c, cmd |-> cmd[c]]}
    /\ UNCHANGED <<cmd, outcome, answer, subs>>

\* The command of a waiting caller is taken for execution.
MqTake(c) ==
    /\ phase[c] = "pending" /\ taken = {}
    /\ phase' = [phase EXCEPT ![c] = "taken"]
    /\ taken' = {[from |-> c, cmd |-> cmd[c]]}
    /\ UNCHANGED <<cmd, outcome, answer, subs>>

\* What command k does to the subscribers when its result is rc.  A second
\* subscribe of an id replaces the callback even when it fails.
MqEffect(k, rc) ==
    \/ /\ k.op = "subscribe"
       /\ subs' = IF rc = "fail" /\ subs[k.sub] = NoReceiver THEN subs
                  ELSE [subs EXCEPT ![k.sub] = k.recv]
    \/ /\ k.op = "unsubscribe"
       /\ subs[k.sub] = NoReceiver => rc = "fail"
       /\ UNCHANGED subs
    \/ /\ k.op = "remove"
       /\ rc = IF subs[k.sub] = NoReceiver THEN "fail" ELSE "ok"
       /\ subs' = [subs EXCEPT ![k.sub] = NoReceiver]
    \/ /\ k.op = "publish"
       /\ UNCHANGED subs
    \/ /\ k.op = "stop" /\ rc = "ok"
       /\ subs' = [i \in Ids |-> NoReceiver]

\* The taken command is executed; its result goes to the caller that waits
\* for it, or nowhere.
MqExecute(rc) ==
    /\ \E t \in taken :
          /\ MqEffect(t.cmd, rc)
          /\ IF t.from = NoCaller
               THEN UNCHANGED <<phase, answer>>
               ELSE /\ phase' = [phase EXCEPT ![t.from] = "answered"]
                    /\ answer' = [answer EXCEPT ![t.from] = rc]
    /\ taken' = {}
    /\ UNCHANGED <<cmd, outcome>>

MqReturn(c) ==
    /\ phase[c] = "answered"
    /\ phase' = [phase EXCEPT ![c] = "idle"]
    /\ outcome' = [outcome EXCEPT ![c] = answer[c]]
    /\ answer' = [answer EXCEPT ![c] = "none"]
    /\ UNCHANGED <<cmd, taken, subs>>

\* The call fails, wherever its command is; a taken one has no caller then.
MqGiveUp(c) ==
    /\ phase[c] # "idle"
    /\ phase' = [phase EXCEPT ![c] = "idle"]
    /\ outcome' = [outcome EXCEPT ![c] = "fail"]
    /\ answer' = [answer EXCEPT ![c] = "none"]
    /\ taken' = IF phase[c] = "taken"
                  THEN {[t EXCEPT !.from = NoCaller] : t \in taken} ELSE taken
    /\ UNCHANGED <<cmd, subs>>

\* The I/O thread ends and takes the subscribers with it.
MqShutdown ==
    /\ subs' = [i \in Ids |-> NoReceiver]
    /\ UNCHANGED <<phase, cmd, outcome, answer, taken>>

MqNext ==
    \/ \E c \in Callers :
          \/ \E k \in Command : MqCall(c, k)
          \/ MqTake(c) \/ MqReturn(c) \/ MqGiveUp(c)
    \/ \E rc \in {"ok", "fail"} : MqExecute(rc)
    \/ MqShutdown

MqServiceSpec == MqInit /\ [][MqNext]_mqVars
=============================================================================
