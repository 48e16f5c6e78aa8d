-------------------------- MODULE ReactorMgrProofs --------------------------
(***************************************************************************)
(* Proofs about the registry, for any number of reactors, ids and Stop      *)
(* RPCs: the map never dangles, Stop runs on a live reactor only, and a     *)
(* stream with an id of its own can always be stopped.                      *)
(*                                                                          *)
(* The three properties are not inductive.  Stop is safe because the        *)
(* reactor it works on has registered, so that its destructor needs the     *)
(* mutex (TargetRegistered); and the entry of a stream with its own id is   *)
(* not erased by another destructor because two streams that ever held the  *)
(* same id together are both recorded as such (SharersKnown).               *)
(***************************************************************************)
EXTENDS ReactorMgr, TLAPS

\* The reactor a Stop RPC works on has registered.
TargetRegistered ==
    \A s \in Stoppers : target[s] # NoReactor => id[target[s]] # NoId

\* Two reactors that hold the same id now are both in the history variable.
SharersKnown ==
    \A q, r \in Reactors :
        /\ q # r
        /\ id[q] # NoId
        /\ id[q] = id[r]
        /\ life[q] \in {"live", "dying"}
        /\ life[r] \in {"live", "dying"}
        => r \in overlapped

\* A reactor registers after it is created.
UncreatedHasNoId ==
    \A r \in Reactors : life[r] = "none" => id[r] = NoId

\* The inductive invariant.
IInv ==
    /\ TypeOK
    /\ UncreatedHasNoId
    /\ NoDanglingEntry
    /\ StopTargetAlive
    /\ TargetRegistered
    /\ SharersKnown
    /\ AloneIsStoppable

\* In the initial state nothing is registered and nothing is being stopped.
LEMMA InitIInv == Init => IInv
  BY NoReactorAssumption, NoStopperAssumption, NoIdAssumption
  DEF Init, IInv, TypeOK, NoDanglingEntry, StopTargetAlive, TargetRegistered,
      UncreatedHasNoId, SharersKnown, AloneIsStoppable

\* Create and BeginDelete touch only the life of one reactor.
LEMMA LifeStep ==
  ASSUME IInv, NEW r \in Reactors, Create(r) \/ BeginDelete(r)
  PROVE  IInv'
  <1> USE NoReactorAssumption, NoStopperAssumption, NoIdAssumption
  <1>1. CASE Create(r)
    <2>1. TypeOK' /\ UncreatedHasNoId'
      BY <1>1 DEF IInv, TypeOK, UncreatedHasNoId, Create
    <2>2. NoDanglingEntry'
      BY <1>1 DEF IInv, TypeOK, Create, NoDanglingEntry
    <2>3. StopTargetAlive' /\ TargetRegistered'
      BY <1>1 DEF IInv, TypeOK, Create, StopTargetAlive, TargetRegistered
    <2>4. SharersKnown'
      BY <1>1 DEF IInv, TypeOK, Create, SharersKnown, UncreatedHasNoId
    <2>5. AloneIsStoppable'
      BY <1>1 DEF IInv, TypeOK, Create, AloneIsStoppable, UncreatedHasNoId
    <2> QED BY <2>1, <2>2, <2>3, <2>4, <2>5 DEF IInv
  <1>2. CASE BeginDelete(r)
    <2>1. TypeOK' /\ UncreatedHasNoId'
      BY <1>2 DEF IInv, TypeOK, UncreatedHasNoId, BeginDelete
    <2>2. NoDanglingEntry'
      BY <1>2 DEF IInv, TypeOK, BeginDelete, NoDanglingEntry
    <2>3. StopTargetAlive' /\ TargetRegistered'
      BY <1>2 DEF IInv, TypeOK, BeginDelete, StopTargetAlive, TargetRegistered
    <2>4. SharersKnown'
      BY <1>2 DEF IInv, TypeOK, BeginDelete, SharersKnown
    <2>5. AloneIsStoppable'
      BY <1>2 DEF IInv, TypeOK, BeginDelete, AloneIsStoppable
    <2> QED BY <2>1, <2>2, <2>3, <2>4, <2>5 DEF IInv
  <1> QED BY <1>1, <1>2

\* Register overwrites the entry of its id; a reactor that loses its entry
\* shares its id from now on.
LEMMA RegisterStep ==
  ASSUME IInv, NEW r \in Reactors, NEW i \in Ids, Register(r, i)
  PROVE  IInv'
  <1> USE NoReactorAssumption, NoStopperAssumption, NoIdAssumption
  <1>1. TypeOK' /\ UncreatedHasNoId'
    BY DEF IInv, TypeOK, UncreatedHasNoId, Register, Sharing
  <1>2. NoDanglingEntry'
    BY DEF IInv, TypeOK, Register, NoDanglingEntry
  <1>3. StopTargetAlive' /\ TargetRegistered'
    BY DEF IInv, TypeOK, Register, StopTargetAlive, TargetRegistered
  <1>4. overlapped \subseteq overlapped'
    BY DEF Register
  <1>5. ASSUME NEW q \in Reactors \ {r}, id[q] = i, life[q] \in {"live", "dying"}
        PROVE  q \in overlapped' /\ r \in overlapped'
    BY <1>5 DEF Register, Sharing
  <1>6. SharersKnown'
    <2> SUFFICES ASSUME NEW p \in Reactors, NEW q \in Reactors, p # q,
                        id'[p] # NoId, id'[p] = id'[q],
                        life'[p] \in {"live", "dying"},
                        life'[q] \in {"live", "dying"}
                 PROVE  q \in overlapped'
      BY DEF SharersKnown
    <2>1. CASE p # r /\ q # r
      BY <2>1, <1>4 DEF IInv, TypeOK, Register, SharersKnown
    <2>2. CASE p = r
      BY <2>2, <1>5 DEF IInv, TypeOK, Register
    <2>3. CASE q = r
      BY <2>3, <1>5 DEF IInv, TypeOK, Register
    <2> QED BY <2>1, <2>2, <2>3
  <1>7. AloneIsStoppable'
    <2> SUFFICES ASSUME NEW q \in Reactors \ overlapped',
                        life'[q] = "live", id'[q] # NoId
                 PROVE  entry'[id'[q]] = q
      BY DEF AloneIsStoppable
    <2>1. CASE q = r
      BY <2>1 DEF IInv, TypeOK, Register
    <2>2. CASE q # r
      <3>1. id[q] # i
        BY <2>2, <1>5 DEF IInv, TypeOK, Register
      <3> QED BY <2>2, <3>1, <1>4 DEF IInv, TypeOK, Register, AloneIsStoppable
    <2> QED BY <2>1, <2>2
  <1> QED BY <1>1, <1>2, <1>3, <1>6, <1>7 DEF IInv

\* The destructor of a registered reactor: nobody is in Stop, and the entry
\* it erases is its own or one whose owner shared the id.
LEMMA UnregisterStep ==
  ASSUME IInv, NEW r \in Reactors, Unregister(r)
  PROVE  IInv'
  <1> USE NoReactorAssumption, NoStopperAssumption, NoIdAssumption
  <1>1. TypeOK' /\ UncreatedHasNoId'
    BY DEF IInv, TypeOK, UncreatedHasNoId, Unregister
  <1>2. NoDanglingEntry'
    BY DEF IInv, TypeOK, Unregister, NoDanglingEntry
  <1>3. StopTargetAlive' /\ TargetRegistered'
    BY DEF IInv, TypeOK, Unregister, StopTargetAlive, TargetRegistered
  <1>4. SharersKnown'
    BY DEF IInv, TypeOK, Unregister, SharersKnown
  <1>5. AloneIsStoppable'
    <2> SUFFICES ASSUME NEW q \in Reactors \ overlapped,
                        life'[q] = "live", id[q] # NoId
                 PROVE  entry'[id[q]] = q
      BY DEF AloneIsStoppable, Unregister
    <2>1. q # r /\ life[q] = "live"
      BY DEF IInv, TypeOK, Unregister
    <2>2. id[q] # id[r]
      BY <2>1 DEF IInv, TypeOK, Unregister, SharersKnown
    <2> QED BY <2>1, <2>2 DEF IInv, TypeOK, Unregister, AloneIsStoppable
  <1> QED BY <1>1, <1>2, <1>3, <1>4, <1>5 DEF IInv

\* The destructor of a reactor that never registered, which no Stop RPC can
\* have found.
LEMMA FreeUnregisteredStep ==
  ASSUME IInv, NEW r \in Reactors, FreeUnregistered(r)
  PROVE  IInv'
  <1> USE NoReactorAssumption, NoStopperAssumption, NoIdAssumption
  <1>1. TypeOK' /\ UncreatedHasNoId'
    BY DEF IInv, TypeOK, UncreatedHasNoId, FreeUnregistered
  <1>2. NoDanglingEntry'
    BY DEF IInv, TypeOK, FreeUnregistered, NoDanglingEntry
  <1>3. StopTargetAlive' /\ TargetRegistered'
    BY DEF IInv, TypeOK, FreeUnregistered, StopTargetAlive, TargetRegistered
  <1>4. SharersKnown' /\ AloneIsStoppable'
    BY DEF IInv, TypeOK, FreeUnregistered, SharersKnown, AloneIsStoppable
  <1> QED BY <1>1, <1>2, <1>3, <1>4 DEF IInv

\* The look-up of a Stop RPC.
LEMMA StopLookup ==
  ASSUME IInv, NEW s \in Stoppers, NEW i \in Ids,
         StopBegin(s, i) \/ StopMiss(s, i)
  PROVE  IInv'
  <1> USE NoReactorAssumption, NoStopperAssumption, NoIdAssumption
  <1>1. CASE StopBegin(s, i)
    <2>1. TypeOK' /\ UncreatedHasNoId'
      BY <1>1 DEF IInv, TypeOK, UncreatedHasNoId, StopBegin
    <2>2. NoDanglingEntry' /\ SharersKnown' /\ AloneIsStoppable'
      BY <1>1 DEF IInv, StopBegin, NoDanglingEntry, SharersKnown, AloneIsStoppable
    <2>3. StopTargetAlive' /\ TargetRegistered'
      BY <1>1 DEF IInv, TypeOK, StopBegin, NoDanglingEntry, StopTargetAlive,
                  TargetRegistered
    <2> QED BY <2>1, <2>2, <2>3 DEF IInv
  <1>2. CASE StopMiss(s, i)
    BY <1>2 DEF IInv, TypeOK, StopMiss, NoDanglingEntry, SharersKnown,
                UncreatedHasNoId, AloneIsStoppable, StopTargetAlive, TargetRegistered
  <1> QED BY <1>1, <1>2

\* The end of a Stop RPC: only the thread that holds the mutex has a target.
LEMMA StopEndStep ==
  ASSUME IInv, NEW s \in Stoppers, StopEnd(s)
  PROVE  IInv'
  <1> USE NoReactorAssumption, NoStopperAssumption, NoIdAssumption
  <1>1. TypeOK' /\ UncreatedHasNoId'
    BY DEF IInv, TypeOK, UncreatedHasNoId, StopEnd
  <1>2. NoDanglingEntry' /\ SharersKnown' /\ AloneIsStoppable'
    BY DEF IInv, StopEnd, NoDanglingEntry, SharersKnown, AloneIsStoppable
  <1>3. StopTargetAlive' /\ TargetRegistered'
    BY DEF IInv, TypeOK, StopEnd, StopTargetAlive, TargetRegistered
  <1> QED BY <1>1, <1>2, <1>3 DEF IInv

\* Every step keeps the inductive invariant.
LEMMA NextIInv == IInv /\ [Next]_vars => IInv'
  <1> SUFFICES ASSUME IInv, [Next]_vars PROVE IInv'
    OBVIOUS
  <1>1. CASE UNCHANGED vars
    BY <1>1 DEF IInv, vars, TypeOK, NoDanglingEntry, SharersKnown,
                UncreatedHasNoId, AloneIsStoppable, StopTargetAlive, TargetRegistered
  <1>2. ASSUME NEW r \in Reactors,
               Create(r) \/ BeginDelete(r) \/ Unregister(r) \/ FreeUnregistered(r)
        PROVE  IInv'
    BY <1>2, LifeStep, UnregisterStep, FreeUnregisteredStep
  <1>3. ASSUME NEW r \in Reactors, NEW i \in Ids, Register(r, i)
        PROVE  IInv'
    BY <1>3, RegisterStep
  <1>4. ASSUME NEW s \in Stoppers, StopEnd(s)
        PROVE  IInv'
    BY <1>4, StopEndStep
  <1>5. ASSUME NEW s \in Stoppers, NEW i \in Ids, StopBegin(s, i) \/ StopMiss(s, i)
        PROVE  IInv'
    BY <1>5, StopLookup
  <1> QED BY <1>1, <1>2, <1>3, <1>4, <1>5 DEF Next

\* The inductive invariant holds in every reachable state.
LEMMA Inductive == Spec => []IInv
  BY InitIInv, NextIInv, PTL DEF Spec

\* Type correctness of the registry.
THEOREM RegistryType == Spec => []TypeOK
  <1>1. IInv => TypeOK
    BY DEF IInv
  <1> QED BY Inductive, <1>1, PTL

\* The map holds no pointer to a reactor whose destructor has unregistered,
\* for any reuse of ids by any number of streams.
THEOREM MapNeverDangles == Spec => []NoDanglingEntry
  <1>1. IInv => NoDanglingEntry
    BY DEF IInv
  <1> QED BY Inductive, <1>1, PTL

\* stop_query, stop_recognize and stop_embedding call Stop on a reactor that
\* is not freed before they release the mutex.
THEOREM StopFindsLiveReactor == Spec => []StopTargetAlive
  <1>1. IInv => StopTargetAlive
    BY DEF IInv
  <1> QED BY Inductive, <1>1, PTL

\* A stream that never shared its id can be stopped as long as it runs.
THEOREM OwnIdIsStoppable == Spec => []AloneIsStoppable
  <1>1. IInv => AloneIsStoppable
    BY DEF IInv
  <1> QED BY Inductive, <1>1, PTL
=============================================================================
