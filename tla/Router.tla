------------------------------- MODULE Router -------------------------------
(***************************************************************************)
(* From the configuration to the backend that answers a query.              *)
(*                                                                          *)
(* main loads every configured remote API and every configured local model  *)
(* and ignores the error codes of load; the router then works from the      *)
(* configuration alone, and llm_mgr or caller_mgr from what was loaded.     *)
(* A query is the pipeline and model the client asked for and a prompt,     *)
(* reduced to its length and to the two regular expressions it matches.     *)
(***************************************************************************)
EXTENDS Integers

CONSTANTS
    Models,      \* ids a configuration or a client may name
    MaxPrompt,   \* bound on the length of a prompt
    Thresholds,  \* values of llm/local_prompt_threshold, an int
    SizeT        \* 2^w for the width w of size_t

ASSUME MaxPromptAssumption == MaxPrompt \in Nat
ASSUME SizeTAssumption == SizeT \in Nat \ {0} /\ MaxPrompt < SizeT

\* int is narrower than size_t, and no prompt is as long as the values that
\* negative ints are converted to.
ASSUME ThresholdsAssumption == Thresholds \subseteq (MaxPrompt - SizeT)..(SizeT - 1)

VARIABLES
    localModels,  \* conf: the keys of llm_models()
    remoteApis,   \* conf: the keys of llm_remote_apis()
    threshold,    \* conf: llm_local_prompt_threshold()
    booting,      \* what main still has to load: <<"api" | "model", id>>
    llms,         \* llm_mgr: the loaded models
    callers,      \* caller_mgr: the loaded callers
    pc,           \* the query: "idle", "route", "dispatch" or "done"
    asked,        \* the query as the client sent it
    pipeline,     \* _pipeline and
    model,        \* _model of the reactor
    code          \* the error code of the final response

conf == <<localModels, remoteApis, threshold>>
vars == <<conf, booting, llms, callers, pc, asked, pipeline, model, code>>

\* A pipeline other than local and remote, the empty one included, is hybrid.
Pipelines == {"local", "remote", "hybrid"}

Prompts ==
    [size : 0..MaxPrompt,
     hard : BOOLEAN,      \* _hard_pattern matches
     norm : BOOLEAN,      \* _norm_pattern matches
     utf8 : BOOLEAN]      \* utf8::encode gives a non-empty string

Queries == [pipeline : Pipelines, model : Models, prompt : Prompts]

Codes ==
    {"none", "OK", "LLM_MODEL_CREATE_CTX_FAIL", "LLM_MODEL_CTX_DECODE_FAIL",
     "CALLER_NOT_EXIST"}

\* The backends that main loads, APIs first.
Configured == ({"api"} \X remoteApis) \cup ({"model"} \X localModels)

Init ==
    /\ localModels \in SUBSET Models
    /\ remoteApis \in SUBSET Models
    /\ threshold \in Thresholds
    /\ booting = Configured
    /\ llms = {}
    /\ callers = {}
    /\ pc = "idle"
    /\ asked \in Queries
    /\ pipeline = asked.pipeline
    /\ model = asked.model
    /\ code = "none"

-----------------------------------------------------------------------------
(* Loading.                                                                 *)

\* caller_mgr::load; it fails for a type other than deepseek.
LoadApi(m) ==
    /\ <<"api", m>> \in booting
    /\ booting' = booting \ {<<"api", m>>}
    /\ callers' \in {callers, callers \cup {m}}
    /\ UNCHANGED <<conf, llms, pc, asked, pipeline, model, code>>

\* llm_mgr::load, after the remote APIs; it fails if the file does not load.
LoadModel(m) ==
    /\ <<"model", m>> \in booting
    /\ \A n \in Models : <<"api", n>> \notin booting
    /\ booting' = booting \ {<<"model", m>>}
    /\ llms' \in {llms, llms \cup {m}}
    /\ UNCHANGED <<conf, callers, pc, asked, pipeline, model, code>>

\* The server runs and a Query RPC arrives.
Arrive ==
    /\ booting = {} /\ pc = "idle"
    /\ pc' = "route"
    /\ UNCHANGED <<conf, booting, llms, callers, asked, pipeline, model, code>>

-----------------------------------------------------------------------------
(* Routing.                                                                 *)

\* The int threshold is converted to size_t for the comparison.
TooLong(prompt) == prompt.size > threshold % SizeT

\* As classify, with the patterns tried in the other order.
ClassifyNormFirst(prompt) ==
    IF prompt.size = 0 \/ ~prompt.utf8 THEN "unknown"
    ELSE IF prompt.norm THEN "norm"
    ELSE IF prompt.hard THEN "hard"
    ELSE "unknown"

\* router::classify
classify(prompt) ==
    IF prompt.size = 0 \/ ~prompt.utf8 THEN "unknown"
    ELSE IF prompt.hard THEN "hard"
    ELSE IF prompt.norm THEN "norm"
    ELSE "unknown"

\* The models that a pipeline is configured with.
Pool(p) == IF p = "local" THEN localModels ELSE remoteApis

\* As select, with the model kept if any pipeline has it.
SelectAnyKnown(m, p) ==
    IF m \in localModels \cup remoteApis \/ Pool(p) = {} THEN {m} ELSE Pool(p)

\* router::select: the model stays if the pipeline has it; otherwise the
\* first entry of an unordered_map, which is any of them; or the model as it
\* is if the map is empty.
select(m, p) == IF m \in Pool(p) \/ Pool(p) = {} THEN {m} ELSE Pool(p)

\* The pipeline route chooses for a query that names none.
Choose(prompt) ==
    IF remoteApis = {} THEN "local"
    ELSE IF localModels = {} THEN "remote"
    ELSE IF TooLong(prompt) THEN "remote"
    ELSE IF classify(prompt) # "norm" THEN "remote"
    ELSE "local"

\* router::route in the constructor of the reactor.
Route ==
    /\ pc = "route"
    /\ pc' = "dispatch"
    /\ IF pipeline \in {"local", "remote"}
       THEN UNCHANGED <<pipeline, model>>
       ELSE /\ pipeline' = Choose(asked.prompt)
            /\ model' \in select(model, Choose(asked.prompt))
    /\ UNCHANGED <<conf, booting, llms, callers, asked, code>>

-----------------------------------------------------------------------------
(* Dispatch.                                                                *)

Answer(c) ==
    /\ pc' = "done"
    /\ code' = c
    /\ UNCHANGED <<conf, booting, llms, callers, asked, pipeline, model>>

\* _process: tokenize returns nothing for a model that is not loaded, and
\* loop_query returns OK for no tokens before it looks the model up.  A
\* loaded model gives no tokens, fails, or runs.
DispatchLocal ==
    /\ pc = "dispatch" /\ pipeline = "local"
    /\ IF model \notin llms
       THEN Answer("OK")
       ELSE \E c \in {"OK", "LLM_MODEL_CREATE_CTX_FAIL",
                      "LLM_MODEL_CTX_DECODE_FAIL"} : Answer(c)

\* _processRemote: caller_mgr::loop_query looks the caller up; the request
\* itself ends with OK whatever the HTTP status.
DispatchRemote ==
    /\ pc = "dispatch" /\ pipeline = "remote"
    /\ Answer(IF model \in callers THEN "OK" ELSE "CALLER_NOT_EXIST")

\* The next query of the same server.
NextQuery ==
    /\ pc = "done"
    /\ pc' = "idle"
    /\ asked' \in Queries
    /\ pipeline' = asked'.pipeline
    /\ model' = asked'.model
    /\ code' = "none"
    /\ UNCHANGED <<conf, booting, llms, callers>>

Next ==
    \/ \E m \in Models : LoadApi(m) \/ LoadModel(m)
    \/ Arrive
    \/ Route
    \/ DispatchLocal \/ DispatchRemote
    \/ NextQuery

Spec == Init /\ [][Next]_vars

-----------------------------------------------------------------------------
(* Properties.                                                              *)

\* Every variable has its type, and a manager holds configured ids only.
TypeOK ==
    /\ localModels \subseteq Models
    /\ remoteApis \subseteq Models
    /\ threshold \in Thresholds
    /\ booting \subseteq {"api", "model"} \X Models
    /\ llms \subseteq localModels
    /\ callers \subseteq remoteApis
    /\ pc \in {"idle", "route", "dispatch", "done"}
    /\ asked \in Queries
    /\ pipeline \in Pipelines
    /\ model \in Models
    /\ code \in Codes

Routed == pc \in {"dispatch", "done"}
Hybrid == asked.pipeline = "hybrid"

\* A routed query has a pipeline the reactor's task knows, so that the
\* UNKNOWN_PIPELINE branch of the task is dead; and a query that left the
\* choice to the router has a model of that pipeline whenever a model or an
\* API is configured at all.
RoutedToConfigured ==
    Routed =>
        /\ pipeline \in {"local", "remote"}
        /\ Hybrid /\ localModels \cup remoteApis # {} => model \in Pool(pipeline)

\* The router's policy: with both kinds of backend, a hybrid query stays on
\* the machine exactly if it is a non-empty prompt of at most threshold bytes
\* that looks normal and not hard.  A negative threshold is no limit: the
\* conversion to size_t makes it larger than any prompt.
StaysLocalIfShortAndNormal ==
    (/\ Routed /\ Hybrid
     /\ localModels # {} /\ remoteApis # {}) =>
        (pipeline = "local" <=>
            /\ asked.prompt.size # 0
            /\ threshold < 0 \/ asked.prompt.size <= threshold
            /\ asked.prompt.utf8 /\ asked.prompt.norm /\ ~asked.prompt.hard)

\* If everything that is configured was loaded, a hybrid query is never
\* turned away for want of a backend, whatever model the client named.
LoadedConfigurationServes ==
    (/\ pc = "done" /\ Hybrid
     /\ llms = localModels /\ callers = remoteApis
     /\ localModels \cup remoteApis # {}) => code # "CALLER_NOT_EXIST"

=============================================================================
