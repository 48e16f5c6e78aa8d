---------------------------- MODULE RouterProofs ----------------------------
(***************************************************************************)
(* Proofs about the router for every configuration, every set of model ids  *)
(* and every length of a prompt.  Routing reads the configuration, which    *)
(* never changes, and writes pipeline and model, which nothing overwrites   *)
(* before the next query: the properties are inductive together with the    *)
(* fact that an unrouted query still has what the client asked for.         *)
(***************************************************************************)
EXTENDS Router, TLAPS

\* Until it is routed, a query has the pipeline and the model it came with.
UnroutedAsAsked ==
    ~Routed => pipeline = asked.pipeline /\ model = asked.model

\* A final response of a remote query names a missing caller if and only if
\* the caller is missing.
CodeMatchesCallers ==
    pc = "done" =>
        /\ pipeline = "remote" /\ code = "OK" => model \in callers
        /\ code = "CALLER_NOT_EXIST" => pipeline = "remote" /\ model \notin callers

\* main loads what is configured, and everything before the server runs.
BootFirst ==
    /\ booting \subseteq Configured
    /\ pc # "idle" => booting = {}

\* The inductive invariant.
IInv ==
    /\ TypeOK
    /\ BootFirst
    /\ UnroutedAsAsked
    /\ RoutedToConfigured
    /\ StaysLocalIfShortAndNormal
    /\ CodeMatchesCallers

\* The conversion keeps a value that is not negative, and adds 2^w otherwise.
LEMMA ToSizeT ==
  ASSUME NEW n \in Thresholds
  PROVE  n % SizeT = IF n < 0 THEN n + SizeT ELSE n
  BY SizeTAssumption, ThresholdsAssumption, MaxPromptAssumption

\* The choice of a pipeline, with both kinds of backend, is the policy.
LEMMA ChooseIsPolicy ==
  ASSUME NEW prompt \in Prompts, localModels # {}, remoteApis # {},
         threshold \in Thresholds
  PROVE  Choose(prompt) = "local" <=>
            /\ prompt.size # 0
            /\ threshold < 0 \/ prompt.size <= threshold
            /\ prompt.utf8 /\ prompt.norm /\ ~prompt.hard
  <1>1. prompt.size \in 0..MaxPrompt
    BY DEF Prompts
  <1>2. TooLong(prompt) <=> ~(threshold < 0 \/ prompt.size <= threshold)
    <2>1. threshold \in (MaxPrompt - SizeT)..(SizeT - 1)
      BY ThresholdsAssumption
    <2> QED BY <1>1, <2>1, ToSizeT, SizeTAssumption, MaxPromptAssumption DEF TooLong
  <1>3. classify(prompt) = "norm" <=>
            prompt.size # 0 /\ prompt.utf8 /\ ~prompt.hard /\ prompt.norm
    BY DEF classify
  <1>4. Choose(prompt) = "local" <=> ~TooLong(prompt) /\ classify(prompt) = "norm"
    BY DEF Choose
  <1> QED BY <1>2, <1>3, <1>4

\* Choose and select give a pipeline and a model of that pipeline, if
\* anything is configured.
LEMMA SelectConfigured ==
  ASSUME localModels \cup remoteApis # {}, NEW prompt, NEW m,
         NEW n \in select(m, Choose(prompt))
  PROVE  n \in Pool(Choose(prompt))
  <1>1. Pool(Choose(prompt)) # {}
    BY DEF Choose, Pool
  <1> QED BY <1>1 DEF select

\* The initial states satisfy the inductive invariant.
LEMMA InitIInv == Init => IInv
  <1> SUFFICES ASSUME Init PROVE IInv
    OBVIOUS
  <1>1. TypeOK
    BY DEF Init, TypeOK, Configured, Queries, Codes
  <1>2. BootFirst
    BY DEF Init, BootFirst
  <1>3. UnroutedAsAsked /\ RoutedToConfigured /\ StaysLocalIfShortAndNormal
        /\ CodeMatchesCallers
    BY DEF Init, UnroutedAsAsked, RoutedToConfigured,
           StaysLocalIfShortAndNormal, CodeMatchesCallers, Routed
  <1> QED BY <1>1, <1>2, <1>3 DEF IInv

\* Loading happens before the first query arrives.
LEMMA LoadStep ==
  ASSUME IInv, NEW m \in Models, LoadApi(m) \/ LoadModel(m)
  PROVE  IInv'
  <1>1. pc = "idle" /\ pc' = "idle"
    BY DEF IInv, BootFirst, LoadApi, LoadModel
  <1>2. m \in remoteApis \/ ~LoadApi(m)
    BY DEF IInv, BootFirst, Configured, LoadApi
  <1>3. m \in localModels \/ ~LoadModel(m)
    BY DEF IInv, BootFirst, Configured, LoadModel
  <1>4. booting' \subseteq booting /\ UNCHANGED <<conf, asked, pipeline, model, code>>
    BY DEF LoadApi, LoadModel
  <1>5. llms' \subseteq localModels /\ callers' \subseteq remoteApis
    BY <1>2, <1>3 DEF IInv, TypeOK, LoadApi, LoadModel
  <1>6. TypeOK'
    BY <1>1, <1>4, <1>5 DEF IInv, TypeOK, conf
  <1>7. BootFirst'
    BY <1>1, <1>4 DEF IInv, BootFirst, conf, Configured
  <1>8. UnroutedAsAsked'
    BY <1>1, <1>4 DEF IInv, UnroutedAsAsked, Routed
  <1>9. RoutedToConfigured' /\ StaysLocalIfShortAndNormal' /\ CodeMatchesCallers'
    BY <1>1 DEF RoutedToConfigured, StaysLocalIfShortAndNormal,
                CodeMatchesCallers, Routed
  <1> QED BY <1>6, <1>7, <1>8, <1>9 DEF IInv

\* The arrival of a query changes pc only.
LEMMA ArriveStep ==
  ASSUME IInv, Arrive
  PROVE  IInv'
  <1>1. TypeOK' /\ BootFirst'
    BY DEF IInv, TypeOK, BootFirst, Arrive, conf, Configured
  <1>2. UnroutedAsAsked' /\ RoutedToConfigured' /\ StaysLocalIfShortAndNormal'
        /\ CodeMatchesCallers'
    BY DEF IInv, Arrive, UnroutedAsAsked, RoutedToConfigured,
           StaysLocalIfShortAndNormal, CodeMatchesCallers, Routed
  <1> QED BY <1>1, <1>2 DEF IInv

\* route: an explicit pipeline is kept, otherwise Choose and select decide.
LEMMA RouteStep ==
  ASSUME IInv, Route
  PROVE  IInv'
  <1>1. pipeline = asked.pipeline /\ model = asked.model
    BY DEF IInv, UnroutedAsAsked, Routed, Route
  <1>2. UNCHANGED <<conf, booting, llms, callers, asked, code>> /\ pc' = "dispatch"
    BY DEF Route
  <1>3. asked \in Queries /\ asked.prompt \in Prompts
    BY DEF IInv, TypeOK, Queries
  <1>4. pipeline' \in {"local", "remote"} /\ model' \in Models
    BY DEF IInv, TypeOK, Route, Choose, select, Pool
  <1>5. Hybrid => /\ pipeline' = Choose(asked.prompt)
                  /\ model' \in select(model, Choose(asked.prompt))
    BY <1>1 DEF Hybrid, Route
  <1>6. TypeOK'
    BY <1>2, <1>4 DEF IInv, TypeOK, conf, Pipelines
  <1>7. BootFirst'
    BY <1>2 DEF IInv, BootFirst, conf, Configured, Route
  <1>8. RoutedToConfigured'
    BY <1>2, <1>4, <1>5, SelectConfigured
    DEF RoutedToConfigured, Hybrid, Pool, conf
  <1>9. StaysLocalIfShortAndNormal'
    BY <1>2, <1>3, <1>5, ChooseIsPolicy
    DEF IInv, TypeOK, StaysLocalIfShortAndNormal, Hybrid, conf
  <1>10. UnroutedAsAsked' /\ CodeMatchesCallers'
    BY <1>2 DEF UnroutedAsAsked, CodeMatchesCallers, Routed
  <1> QED BY <1>6, <1>7, <1>8, <1>9, <1>10 DEF IInv

\* The answer of a backend changes neither pipeline nor model.
LEMMA DispatchStep ==
  ASSUME IInv, DispatchLocal \/ DispatchRemote
  PROVE  IInv'
  <1>1. /\ pc = "dispatch" /\ pc' = "done"
        /\ UNCHANGED <<conf, booting, llms, callers, asked, pipeline, model>>
    BY DEF DispatchLocal, DispatchRemote, Answer
  <1>2. /\ code' \in Codes
        /\ pipeline = "remote" /\ code' = "OK" => model \in callers
        /\ code' = "CALLER_NOT_EXIST" => pipeline = "remote" /\ model \notin callers
    BY DEF DispatchLocal, DispatchRemote, Answer, Codes
  <1>3. TypeOK' /\ BootFirst'
    BY <1>1, <1>2 DEF IInv, TypeOK, BootFirst, conf, Configured
  <1>4. RoutedToConfigured' /\ StaysLocalIfShortAndNormal' /\ UnroutedAsAsked'
    BY <1>1 DEF IInv, RoutedToConfigured, StaysLocalIfShortAndNormal,
                UnroutedAsAsked, Routed, Hybrid, Pool, conf
  <1>5. CodeMatchesCallers'
    BY <1>1, <1>2 DEF CodeMatchesCallers
  <1> QED BY <1>3, <1>4, <1>5 DEF IInv

\* The next query starts unrouted.
LEMMA NextQueryStep ==
  ASSUME IInv, NextQuery
  PROVE  IInv'
  <1>1. TypeOK' /\ BootFirst'
    BY DEF IInv, TypeOK, BootFirst, NextQuery, conf, Configured, Queries, Codes
  <1>2. UnroutedAsAsked' /\ RoutedToConfigured' /\ StaysLocalIfShortAndNormal'
        /\ CodeMatchesCallers'
    BY DEF NextQuery, UnroutedAsAsked, RoutedToConfigured,
           StaysLocalIfShortAndNormal, CodeMatchesCallers, Routed
  <1> QED BY <1>1, <1>2 DEF IInv

\* Every step keeps the inductive invariant.
LEMMA NextIInv == IInv /\ [Next]_vars => IInv'
  <1> SUFFICES ASSUME IInv, [Next]_vars PROVE IInv'
    OBVIOUS
  <1>1. CASE UNCHANGED vars
    <2>1. TypeOK' /\ BootFirst' /\ UnroutedAsAsked' /\ CodeMatchesCallers'
      BY <1>1 DEF IInv, vars, conf, TypeOK, BootFirst, Configured,
                  UnroutedAsAsked, CodeMatchesCallers, Routed
    <2>2. RoutedToConfigured' /\ StaysLocalIfShortAndNormal'
      BY <1>1 DEF IInv, vars, conf, RoutedToConfigured,
                  StaysLocalIfShortAndNormal, Routed, Hybrid, Pool
    <2> QED BY <2>1, <2>2 DEF IInv
  <1>2. ASSUME NEW m \in Models, LoadApi(m) \/ LoadModel(m)
        PROVE  IInv'
    BY <1>2, LoadStep
  <1> QED BY <1>1, <1>2, ArriveStep, RouteStep, DispatchStep, NextQueryStep DEF Next

\* The inductive invariant holds in every reachable state.
LEMMA Inductive == Spec => []IInv
  BY InitIInv, NextIInv, PTL DEF Spec

\* Type correctness of loading and routing.
THEOREM RouterType == Spec => []TypeOK
  <1>1. IInv => TypeOK
    BY DEF IInv
  <1> QED BY Inductive, <1>1, PTL

\* Whatever is configured, the router leaves a query with a known pipeline
\* and, if it had the choice, with a model of that pipeline.
THEOREM RoutesToConfigured == Spec => []RoutedToConfigured
  <1>1. IInv => RoutedToConfigured
    BY DEF IInv
  <1> QED BY Inductive, <1>1, PTL

\* The router's decision is its policy for every int threshold, a negative one
\* being no limit at all.
THEOREM RouterKeepsPolicy == Spec => []StaysLocalIfShortAndNormal
  <1>1. IInv => StaysLocalIfShortAndNormal
    BY DEF IInv
  <1> QED BY Inductive, <1>1, PTL

\* With every configured backend loaded, no hybrid query is turned away.
THEOREM LoadedConfigurationIsEnough == Spec => []LoadedConfigurationServes
  <1>1. IInv => LoadedConfigurationServes
    <2> SUFFICES ASSUME IInv, pc = "done", Hybrid, callers = remoteApis,
                        localModels \cup remoteApis # {},
                        code = "CALLER_NOT_EXIST"
                 PROVE  FALSE
      BY DEF LoadedConfigurationServes
    <2>1. pipeline = "remote" /\ model \notin remoteApis
      BY DEF IInv, CodeMatchesCallers
    <2>2. model \in remoteApis
      BY <2>1 DEF IInv, RoutedToConfigured, Routed, Pool
    <2> QED BY <2>1, <2>2
  <1> QED BY Inductive, <1>1, PTL
=============================================================================
