# TLA+ specification of rag-core

rag-core is a C++ server that answers questions with local models (llama.cpp)
or remote APIs, transcribes audio, computes embeddings and relays messages of
a publish/subscribe bus. Clients use it over gRPC (`src/api.proto`), with
callback reactors; the server keeps accounts, sessions and messages in SQLite.
All paths below are relative to the repository.

This directory holds TLA+ modules of the parts with the hard control flow, TLC
configurations that check them on small instances, and proofs that TLAPS checks
for every instance. `PROJECT.json` lists the runs, the definitions with the
lines they model, the hazards and the theorems.

## 1. The system

| Component | State | Operations | Talks to |
|---|---|---|---|
| Query stream, `QueryReactor` (`src/server_reactor.cpp` 25-394) | `_is_cancelled`, `_is_writing`, `_w_queue`, `_answer`, message ids | constructor, `_process`, `_processRemote`, `_send`, `_flush`, `OnWriteDone`, `OnDone`, `OnCancel`, `Stop` | thread pool, registry, router, `llm_mgr`, `caller_mgr`, database, gRPC |
| Registries (`src/reactor_mgr.h`) | a map from an id to a raw pointer, a mutex | register, unregister, stop, get | reactors, Stop RPCs |
| Message queue, `mq` (`src/mq.h`) | `_thread`, `_initialized`, `_stop_requested`, `_commands`, `_subscribers`, sockets | `init`, `bind`, `sub`, `unsub`, `remove_suber`, `pub`, `stop`, the I/O thread | Subscribe RPCs, watch dog |
| Router (`src/router.cpp`) | two regular expressions; reads the configuration | `route`, `classify`, `select` | constructor of the query stream |
| `llm_mgr` (`src/llm.cpp`), `caller_mgr` (`src/caller.cpp`) | loaded models, loaded callers | `load`, `tokenize`, `loop_query`, `get_embedding` | `main`, streams |
| Recognition stream (`src/server_reactor.cpp` 397-770, `src/audio_buffer.cpp`, `src/asr.cpp`) | `_is_processing`, audio buffer, write queue | reads, pool tasks, writes, stop | thread pool, registry, `asr_mgr` |
| Embedding stream (773-1048) | as above | reads processed in the reaction, writes, stop | registry, `memory_mgr` |
| Subscribe stream (1052-1149) | write queue, user id | `Sub`, `UnSub`, message callback | `mq`, registry |
| Watch dog (`src/watch_dog.cpp`) | none | `watch`, `watch_pub`, `_on_pub_msg` | `mq`, database |
| RPC handlers (`src/server.cpp`) | none | accounts, sessions, messages, plugins, files | database |
| Database (`src/db_mgr.cpp`, `script/core.sql`) | connection pool, tables | `exec`, `query` | everything |
| Updater (`src/updater.cpp`) | versions | `check`, `migrate` | database |

What is hard in this code:

* The write path of every stream is lock-free: `_is_writing` is tested and set
  in separate steps by the pool task and by gRPC threads.
* A reactor deletes itself in `OnDone`, while its pool task and Stop RPCs hold
  raw pointers to it.
* `Finish`, `StartWrite` and `OnDone` have a protocol that several threads
  share without a lock.
* Requests to the I/O thread of `mq` time out while they are executed.
* Ids that name streams come from clients and can be used twice.
* Rows of one query are written by two threads at different times, and either
  insert may fail.
* A task of the recognition stream stands aside for another one that may have
  stopped looking at the audio; nothing counts the tasks of a deleted stream.
* The Subscribe handlers use a raw pointer after the registry's lock is given
  back, and the queue keeps a callback bound to it.
* A session is deleted in two statements, the schema is migrated in seven, and
  the process may end between any two.
* The answer of a remote model is cut into packets at any point.

The properties that make each part correct are listed with the runs; the places
where something can go wrong are the `hazards` of `PROJECT.json`.

## 2. Modules

### QueryReactor

One Query RPC, from the return of the constructor to the deletion of the
reactor. A step is one load, store, enqueue or dequeue of shared state, so that
every interleaving of the four kinds of thread is explored: the pool task
(`Process`, `ProcessRemote`), the threads in `OnWriteDone` (`Callbacks`), the
thread of `OnDone`, and the ones of `Stop` and `OnCancel`.

* `pc`, `ret`, `resp` are the control and the local response of each thread;
  `cancelled`, `writing`, `queue`, `answer`, `prev_msg_id`, `curr_msg_id` are the
  members of the class; `rows` is what was stored in the table `message`.
* `_send` and `_flush` are the seven actions of `SendAndFlush(t)`, shared by all
  threads that call them.
* The text of a response is the number of a piece, 0 for the empty string; the
  parameters of sampling and context are left out.
* `llm_mgr::loop_query` and the remote stream become `LocalStart`/`RemoteStart`,
  `Produce`, `EndOfPieces` and `Callback`. `watch_dog::watch` returns true in this
  code, so its branch is dead.
* gRPC is external and modelled by its contract. A breach of the contract
  (a second write in flight, a write after `Finish`, a second `Finish`, a write of
  a local before the call is bound) or a use of the deleted reactor sets
  `misuse`; nothing is claimed of a process after that, and the behaviour stops
  there. All five are reachable in this code (see the hazards); the invariants say
  under which circumstances.
* `stopped`, `lateWriters` and `failed` are history variables.

### ReactorMgr

The registry that `query_`, `recognize_` and `embedding_reactor_mgr` share, with
several streams and several Stop RPCs. The mutex is `mu` while a `Stop` runs; the
other critical sections are single steps. A destructor is two steps
(`BeginDelete`, then `Unregister` or `FreeUnregistered`), because it waits for
the mutex. `QueryReactor` has its own one-stream view of the registry
(`registered`, `SameSessionQuery`, `StopBegin`, `Delete`); ReactorMgr shows that
this view is right for any number of streams: `SameSessionQuery` is the entry
overwritten or erased by another stream of the session.
`StopRecognizeAudio` has its call of `stop_recognize` commented out in
`src/server.cpp`; `StopAnswer` and `StopEmbedding` are the Stop RPCs.

### Mq

Application threads, the I/O thread and the destructor. A call is `InitCheck`,
`InitSpawn`, `InitOk`/`InitFail` (from `_ensure_initialized`), then `Submit`,
`Send`, `Recv` or `GiveUp`, where `GiveUp` is the two-second timeout or a failed
send. The I/O thread polls a batch of readable sockets and handles the events of
the batch one by one.

`entry` is the function the I/O thread runs, one of `EntryPoints`. The code
starts `_run`, which binds its sockets and returns; the loop the comments describe
is `_run_loop`, which nothing calls. The run `mq_serving` shows the difference on
the code as it is. `mq_loop` and `mq_liveness` start with either, so that what
they check holds for the code as built and for the loop it was meant to start.
ZeroMQ sockets are external: a request that waits at the control socket may
vanish when its sender closes its socket.

### MqService

What the queue promises a caller: commands are executed one at a time, each at
most once; a call returns the result of its own command or fails, and after a
failure its command may still be executed once. No thread, table, tag or socket
appears in it. `Mq` implements it (`ImplementsService`, checked by TLC with the
mapping `ServicePhase`, `ServiceTaken`, `ServiceCommand` at the end of Mq), and
`Subscribe` uses it in place of `Mq`.

### Router

`main` loads what is configured and ignores the error codes; the router decides
from the configuration; `llm_mgr` and `caller_mgr` answer from what was loaded.
A prompt is its length and what the two regular expressions say of it. The first
entry of an `unordered_map` is any entry. `TooLong` keeps the conversion of the
`int` threshold to `size_t` (`% SizeT`).

### BidiReactor, Embedding, Recognition, BidiStreams

The two bidirectional streams have the same flags, queue, `_send`, `_flush`,
`OnCancel` and `OnDone`, which are in `BidiReactor`, one load or store a step as
in QueryReactor, with reads added: one read is outstanding at a time, and its
`OnReadDone` is run by the thread `"reader"`. Lines are mapped to the embedding
reactor, whose code the recognition reactor repeats (`SendAndFlush` is mapped to
the latter's).

* `Embedding`: requests are processed inside `OnReadDone` and get one response
  each, an index or an error; a cancelled call is finished by `OnReadDone` and
  by `OnWriteDone`; `StopEmbedding` runs `Stop` under the registry's mutex and
  ends with `TryCancel`.
* `Recognition`: a chunk goes into a ring buffer of `Capacity` chunks and queues
  a task. A task's two tests, its store of the flag, its loop, `pop_until`, `full`
  and the reading of the segments are steps of their own. `StopRecognizeAudio`
  never calls `Stop` (the call is commented out in `src/server.cpp` 237).
  The whisper context of a `ctx_id` belongs to the process (`asr_mgr::_ctxs`), and
  every task of every stream that names it calls `full` on it and reads its segments
  without a lock (`src/asr.cpp` 64, 123-144). `context` is this stream's part of it.
  A `full` leaves of the segments that some task has not read yet a prefix
  (`Remains`: `full` clears them one after the other while they are being read),
  whether it is called by a task of this stream (`TaskFull`) or of another one:
  the other streams are the environment, the action `OtherStreamFull`. It takes
  segments away at any time between a task's `full` and its reading; the text it
  puts in their place is left out.
* `BidiStreams` puts them side by side: a behaviour is that of one stream of
  either kind.

`failed`, `pipelined`, `audio`, `overlap`, `missed` and `refused` are history
variables; `pipelined` is recorded for embedding streams only, the ones a property
names it for. `audio` is the chunks pushed and not lost since: a step takes a chunk
out where the code loses it for a cause that `AudioIsKept` names (overwritten in
the ring buffer, its translation failed, its segments overwritten unread), so that
a chunk lost in any other way violates the property. Every breach is reachable: two writes in flight, a write after
`Finish`, a second `Finish`, and a recognition task on a deleted reactor (a client
that closes its side while a task runs is enough). The invariants say what holds
until then and what causes them.

### Subscribe

Publish, Subscribe and UnSubscribe with `subscribe_reactor_mgr`, composed with
`MqService`. A handler looks the reactor up, perhaps creates one, and calls the
queue; the destructor asks the queue to remove the callback, waits, unregisters
and frees. The stream of a reactor is reduced to what its life depends on.
`Callers` of the queue are the handlers and the threads in destructors, the latter
named after their reactors. `disturbed` is a history variable: the users whose
calls have overlapped or timed out.

### Updater, Store

`Updater` is the start of the process: `migrate` statement by statement, where
`disk` is committed and `work` is what the open connection sees; `db_mgr::add` with
its `uint32_t` index (`Add`, modulo `UintSize`); crash and restart. A configuration
that makes `db_mgr` write behind its vector, or dereference a null pool, leads to
the state `corrupt`, in which nothing is claimed. `Accepts` is `updater::check`.

`Store` composes it with everything that writes to the tables: handlers, the
rows of the Query stream, the watch dog. Statements are atomic and may fail;
foreign keys are not enforced, since SQLite enforces them only on request and
nothing in this repository does (so `ON DELETE CASCADE` does nothing). `late` in a message row
and `interrupted` are history. Accounts, files and plugins are there because their
handlers write to tables that `migrate` makes and share its failures and crashes;
only the type invariant speaks of them.

### EventStream, PieceSource

`EventStream` is `deepseek_caller::loop_query`: packets of any size, the buffer,
the loop over complete lines. A line is a short sequence of symbols, so that
packets can end inside a line and between CR and LF. `PieceSource` is what a
remote model is to the task that queries it: pieces in order, without a gap, until
the task has enough or the source ends. The mapping splits the whole body at its
line ends at once (`Lines`), keeps the lines that carry an event, and counts those
that end where `on_data` has handled the body up to (`Handled`: what has come and
is not in the buffer).

## 3. Runs

| Run | Configuration | Shows |
|---|---|---|
| `query_safety` | 2 callback threads, 3 pieces, 1 stop; 2 million states | no response is stranded in the queue; at most one write per thread starts after `Stop`; where a call can stay unfinished; where the reactor can be finished under a running task; a second `Finish` needs a failed write; the stored answer covers what was streamed and follows the question |
| `query_liveness` | 1 piece | cancellation releases the pool thread; a stored query is finished if generation ends |
| `registry` | 3 streams, 2 ids, 2 stops | no dangling entry, `Stop` on live reactors only, an id of one's own stays stoppable |
| `mq_loop` | 2 clients, 3 calls, 1 message; 3.6 million states | a late result never answers the next call; a removed subscriber gets nothing; `std::terminate` needs a failed init |
| `mq_liveness` | 1 client, 3 calls | calls and `stop` return; Mq implements MqService |
| `router` | 3 ids, prompts of 0 to 3 bytes, thresholds -1, 0 and 2 | routing policy (a negative threshold is no limit); what is loaded is served |
| `bidi_streams` | 2 requests, 2 callback threads, 2 tasks, 1 stop, a buffer of 1 chunk; 1.1 million states | no answer is lost; audio is lost by the causes named only; a client that waits for its answers gets them in order; audio left waiting and a second `Finish` have the causes named; a cancelled stream ends |
| `subscribe` | 2 handlers, 2 users, 2 reactors, 3 calls; 2.4 million states | callbacks and entries belong to their users, and do not dangle unless the user's calls overlapped or timed out; a served user is subscribed |
| `store` | 2 sessions, 2 queries, 2 DelSessions, 6 calls, 2 crashes, 4 configurations; 2.5 million states | a version row means a complete schema; orphaned messages have an interrupted DelSession; no half of a thread is shown; an accepted version is not older |
| `event_stream` | every body of 3 lines out of 9 kinds, with or without an open last line; 56,000 states | EventStream implements PieceSource |

Two runs expect a violation; each states what a comment of the repository says:

* `query_final_words`: `_process` queues its final response and calls `Finish`
  while an earlier write is in flight ("send final words").
* `mq_serving`: no I/O thread serves after `init` has returned true.

Other behaviour that the models show and that no property is stated for: a query
stopped by `StopAnswer` gets no final response, because `_send` does nothing once
`_is_cancelled` is set; a first message has the predecessor 0, where the comment in
`script/core.sql` says NULL; a query for a model that failed to load is answered
with OK; two writes can be in flight on every stream, on an embedding stream even
for a client that waits for each answer, from the third request on; a subscriber
whose client has gone stays until a write to it fails; a published batch is
dropped at the first plugin that is known already.

### Bounds

* `Callbacks`: gRPC serialises the completions of one write at a time, but a
  second completion may start while an earlier `OnWriteDone` is still in
  `_flush`; two threads and the task give every race of three.
* `MaxPieces` 3: one piece written, one in flight and one queued, followed by the
  final response. Empty pieces are unbounded.
* `MaxStops` 1: a second `Stop` repeats the stores of the first.
* Registry: two streams on one id and a third that takes over after the first
  has gone.
* Mq: a call that times out, the call whose answer it must not get, and a call of
  another thread; `MaxMessages` 1, since one waiting message is enough to make a
  stale event.
* Bidirectional streams: two requests are a chunk in the buffer with another one
  to overwrite it, and an answer on the wire with another one to overtake it; two
  tasks are enough for both races of `_is_processing`. A third request
  adds states and, for a client that waits, two writes in flight, at which the
  behaviour ends.
* Subscribe: with two users, one can be disturbed and the other not; three calls
  are two Subscribes of a user and a call between them.
* Store: two DelSessions and two Queries of one session; six calls are a session,
  two questions, two deletions and one more; two crashes, one in `migrate` and one
  in a handler. `UintSize` 16 stands for 2^32; ids are far below it, or -1.
* Event stream: three lines give every order of two kinds and what follows them.
* Router: two ids in a pool and one outside; the configuration, not the number
  of queries, is what varies.

### Symmetry

Callback threads, clients, reactors, ids, Stop RPCs and model ids are
interchangeable in the safety runs of the first four modules, and sessions,
queries and DelSession threads in `store`. Runs with liveness, those of
refinement included, use no symmetry.

### Deadlock

Behaviours of `QueryReactor` end when the reactor is deleted or leaked, or at a
misuse; those of `ReactorMgr` when every stream is gone; those of `Mq` when the
process has ended; those of the bidirectional streams and of `Subscribe` when
their reactors are gone and the calls are used up; those of `Store` when the
process stays down; those of `EventStream` when the request is over. Deadlock
checking is off there. `Router` never stops, and
deadlock is checked.

### Fairness

Weak fairness for each thread of the pool and of gRPC, since the operating
system schedules them; for the end of a write, since gRPC completes every write
it has accepted, with an error if need be; for the timeout of a request in `mq`.
No fairness for clients: nobody has to stop a query, disconnect, call `mq` or
send a message. Generation need not end: `StoredQueryFinishes` assumes that the
callback is not called for ever, `CancelEndsTask` does not.

`BidiStreams` has weak fairness of `Server` as a whole, all that the process does
by itself: some thread that can run does. That is less than fairness of each
thread, and enough, since every loop of these streams ends. Reads of a broken or
finished stream end, writes end, `pop_until` and `translate` return. Clients need
not send, close or stop, and other streams need not use the whisper context. The other modules of this kind (`Subscribe`, `Store`,
`EventStream`) state safety only.

## 4. Proofs

Every safety property of a passing run is proved, the two refinements and the
action property included, for every number of threads, requests, pieces, stops,
streams, users, ids, models, sessions, crashes and messages, and for every length
of an answer.

* `QueryReactorProofs`: `TypeCorrect`; `StopIsSafe` (the invariant needed is that a
  registered reactor, or one in `Stop`, is not freed, and that freeing needs the
  mutex); `NoLostWakeUp`. The last one is the interesting one: the property is
  that while a response is queued on a live call, a write is in flight or some
  thread is on its way to the queue. It is not inductive, because a thread may
  return from `_flush` after it saw `_is_writing` set. The strengthening
  `WritingIsCovered` says that while `_is_writing` is set on a live call the
  `OnWriteDone` that clears it is still to come: the write is in flight, about to
  be started, or just completed.

  The other six invariants follow from one, `QueryInvariant`. `CancelInv`:
  `_is_cancelled` is set before `Stop` does anything else and is never cleared, so
  a late writer is past its test (`StopLeavesOneWrite`). `FreshInv`: until the question is
  stored nothing has been sent. `TaskInv`: at which labels the task can be when the
  call is finished (`TaskFinishes`, `FinishMeetsTask`, `FinishIsCalledOnce`).
  `StreamInv`: whatever is in a hand, in the queue or on the wire was appended to the
  answer first; `RowInv`: the answer is stored when nothing more is appended
  (`StoredIsStreamed`, `AnswerIsLinked`).
* `ReactorMgrProofs`: `RegistryType`, `MapNeverDangles`, `StopFindsLiveReactor`,
  `OwnIdIsStoppable`. The strengthening says that the target of `Stop` has
  registered (so that its destructor needs the mutex), that streams register
  after they are created, and that two streams that hold one id are both
  recorded as sharing it.
* `MqProofs`: `MqTypeCorrect`, `OkIsOwnResult`, `TerminateOnlyAfterFailedInit`,
  `RemovedGetsNothing` and the refinement `MqImplementsService`. `InitInv`: as long as
  no init has failed there is one I/O thread at most. `TableInv` carries
  `OkIsOwnResult`: a command has one id and is in one place; one in the table belongs
  to a call that waits; a result belongs to the current command of its caller, and
  that was executed. `TagInv` carries `RemovedGetsNothing`: a tag is given once and a
  removed one belongs to nobody, so an event of it finds no subscriber. `Counted`
  bounds the tags by the calls, which the type invariant needs. The refinement
  maps the place of a command (table, hand of the I/O thread, reply) to the phase of
  the call in `MqService`; each action is a step of one caller or none.
* `SubscribeProofs`: `SubscribeTypes`, `CallbacksAreAlive`, `ServedIsSubscribed`. `Shape`
  says what a handler or a destructor holds at each of its labels; `Calm` says of a
  user whose calls have neither overlapped nor timed out that at most one
  handler works for it and at most one of its reactors is not freed, namely the one
  in the registry, in the handler's hand and in the queue. Neither property is
  inductive without `Calm`: a second reactor of the user could take the entry, or
  its destructor remove the callback of the first.
* `BidiStreamsProofs`, one development for both kinds of stream: `StreamTypes`,
  `FinishedTwiceWithCause`, `NoAnswerIsLost`, `WaitingClientIsOrdered`,
  `WaitingAudioHasCause`, `NoAudioIsLost`. `PlaceInv` says which labels a thread of each
  kind can be at, `HoldInv` that a thread without a response in hand has none in its
  variable, `FinishInv` that whoever drains comes after the cause. For the responses
  each step is put in one of five classes (`Effect`: none moves; one moves from hand
  to queue to hand to wire; `_send` is called; a request is read; one is discarded
  on a cancelled stream), and `AnswerInv` and `LockstepInv` are shown for the classes
  rather than action by action. `LockstepInv` is what makes order hold: with a
  client that waits, one answer is on its way at most, the one to the last request.
  `TaskInv` says which tasks have set `_is_processing`, whence `WaitingAudioHasCause`.
  For `NoAudioIsLost`, `ContextInv` says that audio not yet lost whose segments a task
  has still to read is in the context, and each step is shown to leave every chunk
  that it does not take out of `audio` in the buffer, with a task, or in a response
  (`KeptStep`); nothing is assumed of how tasks overlap or of what other streams do.
* `RouterProofs`: `RouterType`, `RoutesToConfigured`, `RouterKeepsPolicy`,
  `LoadedConfigurationIsEnough`, from the fact that loading is over before the
  first query and that an unrouted query still has what the client asked for.
* `StoreProofs`: `SchemaIsComplete`, from how far `migrate` has come (`SchemaInv`:
  the statements before `step` are in effect on the connection, what is committed
  is among them, and the version row is the last statement). `OrphansAreExplained`
  and `ThreadsStayIntact`, from one invariant of the sessions (`SessionInv`): an id
  is used for one session only, a `DelSession` between its two statements has
  deleted the session it is at, and a question is there as long as its session
  is. Without the first, `NewSession` could bring a deleted session back under
  its old messages; without the second, the messages that `DelMessages` removes
  could be those of a session that is there. `StoreTypeCorrect` uses both
  invariants. `VersionsAreOrdered` is a fact about `updater::check` alone, for
  parts of any size.
* `EventStreamProofs`: `BufferIsRest` and the refinement `StreamImplementsSource`. The
  invariant: the buffer is the part of the body that has come behind the last line
  handled, which ends at a line end of the body, and `on_data` waits with complete
  lines in the buffer only behind `[DONE]`. So the first line of the buffer is the
  next line of the body (`NextLine`), and handling it moves the count of events by
  one or by none (`PassLine`); that the event counted is the one handled rests on
  `EventAtRank`, by the cardinality of finite sets.

Each inductive invariant was model-checked before it was proved. Assumptions: the
named ASSUMEs of the modules (thread names are distinct, bounds are naturals, a
prompt's length fits `size_t`, the symbols of an event stream differ and a body is a
sequence of them, there are as many names of recognition tasks as requests).

Only model-checked: the liveness properties (`CancelEndsTask`, `StoredQueryFinishes`,
`CallsReturn`, `StopReturns`, `CancelledStreamEnds`), since fairness is outside what the
prover handles. `RoutedToConfigured`, `BufferIsRest` and the type invariant of `Router`
are proved and need no run.

## 5. Not modelled

* Generated code (`api.pb.*`, `api.grpc.pb.*`): 49,371 of the 55,915 lines of C++
  under `src/`. It is protoc's translation of `api.proto`; modelling it would say
  nothing of this program. The percentage of lines that the map covers is
  bounded by this: of the 6,500 lines that were written by hand, including the
  configuration's getters and the logging, the map covers the part with control
  flow.
* RPCs that only read (`Login`, `Logout`, `GetSession`, `GetChatMessage`,
  `GetPluginInfo`, `Download`, `Heartbeat`): one query each, formatted into a
  response; they change nothing. `Login`'s call of `updater::check` is `Accepts`.
* Numerical work (llama.cpp, whisper, faiss), SQLite, ZeroMQ, JSON and HTTP are
  external, and modelled by how the code uses them.
* The parameters of a translation: `_params` is overwritten by a request while a
  task may be using it, a data race on a structure that the models do not have.
* What the concurrent use of a whisper context does beyond the loss of segments:
  the text of another stream may end up in a transcript of this one, and the
  library may crash.
* The size of the thread pool, which is a library's; the connection pool.
* Parsing of the configuration, licences, logging, crash handler, telemetry.
* Bodies of regular expressions, prompts and SQL texts.

## 6. Plan

1. Proofs of what the models show beyond the properties of the runs: that the
   registries and the streams compose (a reactor that `Stop` finds is one that the
   stream's own proof calls live), and whether transcripts can overtake each
   other on a recognition stream whose tasks do not overlap.
2. An abstract specification of a stream (what a client may observe) that
   QueryReactor and BidiStreams implement as long as there is no misuse.
3. The pool of a fixed size: recognition tasks that wait in `pop_until` keep
   query tasks from starting.
