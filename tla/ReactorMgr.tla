----------------------------- MODULE ReactorMgr -----------------------------
(***************************************************************************)
(* A registry of running streams (query_, recognize_ and embedding_         *)
(* reactor_mgr): a map from an id the client chooses (session or task) to a *)
(* raw pointer, under one mutex.  A reactor registers itself, a Stop RPC    *)
(* looks it up and calls Stop with the mutex held, and the destructor of    *)
(* the reactor erases the entry of its id, whoever it points to by then.    *)
(*                                                                          *)
(* QueryReactor registers in its constructor; RecognizeAudioReactor and     *)
(* EmbeddingReactor register when a request with a non-zero id is read, and *)
(* one that never registered unregisters nothing.                           *)
(***************************************************************************)
EXTENDS Naturals

CONSTANTS
    Reactors,  \* reactors that may be created
    Ids,       \* session or task ids
    Stoppers,  \* gRPC threads that run StopAnswer or StopEmbedding
    NoReactor, \* no entry in the map, no reactor being stopped
    NoStopper, \* the mutex is free
    NoId       \* the reactor has not registered

ASSUME NoReactorAssumption == NoReactor \notin Reactors
ASSUME NoStopperAssumption == NoStopper \notin Stoppers
ASSUME NoIdAssumption == NoId \notin Ids

VARIABLES
    life,       \* "none", "live", "dying" (in the destructor) or "freed"
    id,         \* the id a reactor has registered under, or NoId
    entry,      \* the map
    mu,         \* the thread that holds the mutex during Stop
    target,     \* the reactor each Stop RPC works on
    answer,     \* what stop_query last returned to each Stop RPC
    overlapped  \* history: reactors that shared their id with another one

vars == <<life, id, entry, mu, target, answer, overlapped>>

Init ==
    /\ life = [r \in Reactors |-> "none"]
    /\ id = [r \in Reactors |-> NoId]
    /\ entry = [i \in Ids |-> NoReactor]
    /\ mu = NoStopper
    /\ target = [s \in Stoppers |-> NoReactor]
    /\ answer = [s \in Stoppers |-> "none"]
    /\ overlapped = {}

\* Reactors other than r that are registered under i and not yet freed.
Sharing(r, i) ==
    {q \in Reactors \ {r} : id[q] = i /\ life[q] \in {"live", "dying"}}

\* A streaming RPC begins.
Create(r) ==
    /\ life[r] = "none"
    /\ life' = [life EXCEPT ![r] = "live"]
    /\ UNCHANGED <<id, entry, mu, target, answer, overlapped>>

\* register_query, register_recognize, register_embedding: the id's entry is
\* overwritten.
Register(r, i) ==
    /\ life[r] = "live" /\ id[r] = NoId /\ mu = NoStopper
    /\ id' = [id EXCEPT ![r] = i]
    /\ entry' = [entry EXCEPT ![i] = r]
    /\ overlapped' = IF Sharing(r, i) = {} THEN overlapped
                     ELSE overlapped \cup Sharing(r, i) \cup {r}
    /\ UNCHANGED <<life, mu, target, answer>>

\* OnDone: delete this.
BeginDelete(r) ==
    /\ life[r] = "live"
    /\ life' = [life EXCEPT ![r] = "dying"]
    /\ UNCHANGED <<id, entry, mu, target, answer, overlapped>>

\* As Unregister, without the mutex.
UnregisterUnlocked(r) ==
    /\ life[r] = "dying" /\ id[r] # NoId
    /\ entry' = [entry EXCEPT ![id[r]] = NoReactor]
    /\ life' = [life EXCEPT ![r] = "freed"]
    /\ UNCHANGED <<id, mu, target, answer, overlapped>>

\* As Unregister, with an entry of another id erased.
UnregisterAny(r) ==
    /\ life[r] = "dying" /\ id[r] # NoId /\ mu = NoStopper
    /\ \E i \in Ids : entry' = [entry EXCEPT ![i] = NoReactor]
    /\ life' = [life EXCEPT ![r] = "freed"]
    /\ UNCHANGED <<id, mu, target, answer, overlapped>>

\* unregister_query and its likes, then the rest of the destructor: the entry
\* of the id is erased, also if a later reactor has taken it over.
Unregister(r) ==
    /\ life[r] = "dying" /\ id[r] # NoId /\ mu = NoStopper
    /\ entry' = [entry EXCEPT ![id[r]] = NoReactor]
    /\ life' = [life EXCEPT ![r] = "freed"]
    /\ UNCHANGED <<id, mu, target, answer, overlapped>>

\* As FreeUnregistered, with the map touched at the id that was never set.
FreeTouchesMap(r) ==
    /\ life[r] = "dying" /\ id[r] = NoId
    /\ life' = [life EXCEPT ![r] = "freed"]
    /\ entry' = [i \in Ids \cup {NoId} |-> IF i = NoId THEN NoReactor ELSE entry[i]]
    /\ UNCHANGED <<id, mu, target, answer, overlapped>>

\* A bidirectional stream that carried no id ends.
FreeUnregistered(r) ==
    /\ life[r] = "dying" /\ id[r] = NoId
    /\ life' = [life EXCEPT ![r] = "freed"]
    /\ UNCHANGED <<id, entry, mu, target, answer, overlapped>>

\* stop_query finds a reactor and calls its Stop, holding the mutex.
StopBegin(s, i) ==
    /\ mu = NoStopper /\ entry[i] # NoReactor
    /\ mu' = s
    /\ target' = [target EXCEPT ![s] = entry[i]]
    /\ UNCHANGED <<life, id, entry, answer, overlapped>>

\* Stop returns and the mutex is released.
StopEnd(s) ==
    /\ mu = s
    /\ mu' = NoStopper
    /\ target' = [target EXCEPT ![s] = NoReactor]
    /\ answer' = [answer EXCEPT ![s] = "stopped"]
    /\ UNCHANGED <<life, id, entry, overlapped>>

\* stop_query finds nothing: STOP_FAIL.
StopMiss(s, i) ==
    /\ mu = NoStopper /\ entry[i] = NoReactor
    /\ answer' = [answer EXCEPT ![s] = "STOP_FAIL"]
    /\ UNCHANGED <<life, id, entry, mu, target, overlapped>>

Next ==
    \/ \E r \in Reactors :
          \/ Create(r) \/ BeginDelete(r) \/ Unregister(r) \/ FreeUnregistered(r)
          \/ \E i \in Ids : Register(r, i)
    \/ \E s \in Stoppers :
          \/ StopEnd(s)
          \/ \E i \in Ids : StopBegin(s, i) \/ StopMiss(s, i)

Spec == Init /\ [][Next]_vars

-----------------------------------------------------------------------------
(* Properties.                                                              *)

\* Every variable has its type.
TypeOK ==
    /\ life \in [Reactors -> {"none", "live", "dying", "freed"}]
    /\ id \in [Reactors -> Ids \cup {NoId}]
    /\ entry \in [Ids -> Reactors \cup {NoReactor}]
    /\ mu \in Stoppers \cup {NoStopper}
    /\ target \in [Stoppers -> Reactors \cup {NoReactor}]
    /\ answer \in [Stoppers -> {"none", "stopped", "STOP_FAIL"}]
    /\ overlapped \subseteq Reactors

\* The map holds no dangling pointer: an entry is a reactor of that id whose
\* destructor has not unregistered yet, although ids are reused, entries are
\* overwritten and a destructor erases by id only.
NoDanglingEntry ==
    \A i \in Ids : entry[i] # NoReactor =>
        id[entry[i]] = i /\ life[entry[i]] \in {"live", "dying"}

\* Stop runs on a reactor that is not freed, on at most one at a time.
StopTargetAlive ==
    \A s \in Stoppers : target[s] # NoReactor =>
        mu = s /\ life[target[s]] \in {"live", "dying"}

\* A stream that never shared its id with another one stays reachable by its
\* Stop RPC until its destructor: STOP_FAIL for a running stream means that
\* the client has used the id twice.
AloneIsStoppable ==
    \A r \in Reactors \ overlapped :
        life[r] = "live" /\ id[r] # NoId => entry[id[r]] = r
=============================================================================
