----------------------------- MODULE Recognition -----------------------------
(***************************************************************************)
(* The RecognizeAudio stream (RecognizeAudioReactor, audio_buffer,          *)
(* asr_mgr::translate): chunks of audio go into a ring buffer, and each     *)
(* chunk queues a task in the thread pool.  A task that finds no other one  *)
(* at work takes audio from the buffer and sends its transcript until the   *)
(* buffer stays empty for the time-out.                                     *)
(*                                                                          *)
(* StopRecognizeAudio never calls Stop (the call is commented out), so      *)
(* thread "stop" stays idle here.  Nothing counts the tasks: OnDone may     *)
(* delete the reactor under them.                                           *)
(*                                                                          *)
(* The whisper context of a ctx_id belongs to the process: every task of    *)
(* every stream with this ctx_id runs full on it and reads its segments,    *)
(* with no lock.  The other streams are the environment here, one action    *)
(* that takes segments of this stream out of the context; their own are     *)
(* left out.                                                                *)
(***************************************************************************)
EXTENDS BidiReactor, Functions

CONSTANTS
    MinChunk,   \* asr_audio_min_chunk_size, in chunks
    Capacity    \* asr_audio_buffer_size, in chunks

ASSUME AudioAssumption == MinChunk \in Nat \ {0} /\ Capacity \in Nat \ {0}

VARIABLES
    processing, \* _is_processing
    buffer,     \* _audio_buffer: numbers of the chunks in it
    hand,       \* the audio each task has popped
    context,    \* this stream's audio whose segments the shared whisper
                \* context holds
    audio,      \* history: chunks pushed and not lost since, as AudioIsKept says
    overlap,    \* history: two tasks were past the test of _is_processing
    missed,     \* history: a task stood aside for one that had stopped looking
    refused     \* history: a translation failed

recognitionVars == <<processing, buffer, hand, context, audio, overlap,
                     missed, refused>>

\* No Stop RPC looks a recognition stream up: that its requests carry an id
\* makes no difference.
RecognitionInit ==
    /\ kind = "recognition" => hasId
    /\ processing = FALSE /\ buffer = <<>>
    /\ hand = [t \in Tasks |-> <<>>] /\ context = <<>>
    /\ audio = {} /\ overlap = FALSE /\ missed = FALSE /\ refused = FALSE

-----------------------------------------------------------------------------
(* OnReadDone: unlike the embedding stream it does not test _is_cancelled,  *)
(* and goes on reading.                                                     *)

\* As Pushed, with the chunk before this one.
PushedOffByOne(n) == Append(buffer, n - 1)

\* audio_buffer::push: a full ring buffer overwrites its oldest audio.
Pushed(n) ==
    LET all == Append(buffer, n)
    IN  IF Len(all) > Capacity THEN Tail(all) ELSE all

UnusedTask == CHOOSE t \in Tasks : pc[t] = "unused"

\* _process: a chunk is pushed and a task queued for it; any other request is
\* acknowledged (a request with neither gets an error code).
ProcessAudio ==
    /\ pc["reader"] = "process"
    /\ \/ /\ cancelled
          /\ Goto("reader", "start_read")
          /\ UNCHANGED <<ret, resp, buffer, audio>>
       \/ /\ ~cancelled /\ request # "chunk"
          /\ CallSend("reader", [NoResp EXCEPT !.req = nread], "start_read")
          /\ UNCHANGED <<buffer, audio>>
       \/ /\ ~cancelled /\ request = "chunk"
          /\ buffer' = Pushed(nread)
          /\ audio' = (audio \cup {nread}) \ (Range(buffer) \ Range(buffer'))
          /\ pc' = [pc EXCEPT !["reader"] = "start_read",
                              ![UnusedTask] = "queued"]
          /\ UNCHANGED <<ret, resp>>
    /\ UNCHANGED <<kind, flagVars, reqVars, grpcVars, lifeVars, histVars,
                   processing, hand, context, overlap, missed, refused>>

RecognitionOnReadDone ==
    \/ ProcessAudio
    \/ /\ EnsureRegistered \/ SendAndFlush("reader") \/ StartRead
       /\ UNCHANGED recognitionVars

RecognitionOnWriteDone(c) ==
    /\ ClearWriting(c, "flush") \/ WriteFailed(c) \/ SendAndFlush(c)
    /\ UNCHANGED recognitionVars

-----------------------------------------------------------------------------
(* The task.                                                                *)

baseButThreads == <<kind, flagVars, reqVars, grpcVars, lifeVars, histVars>>

TaskTestCancelled(t) ==
    /\ pc[t] = "queued"
    /\ Goto(t, IF cancelled THEN "ended" ELSE "test_processing")
    /\ UNCHANGED <<ret, resp, baseButThreads, recognitionVars>>

\* Tasks that will look at the buffer again, or have still to decide.
Looking == {t \in Tasks : pc[t] \notin {"unused", "clear", "ended"}}

TaskTestProcessing(t) ==
    /\ pc[t] = "test_processing"
    /\ Goto(t, IF processing THEN "ended" ELSE "set_processing")
    /\ missed' = (missed \/ (processing /\ Looking = {t}))
    /\ UNCHANGED <<ret, resp, baseButThreads, processing, buffer, hand,
                   context, audio, overlap, refused>>

\* Tasks that were past the test before t.
AtWork == {t \in Tasks :
              pc[t] \notin {"unused", "queued", "test_processing", "ended"}}

TaskSetProcessing(t) ==
    /\ pc[t] = "set_processing"
    /\ processing' = TRUE
    /\ overlap' = (overlap \/ AtWork # {t})
    /\ Goto(t, "loop_cancelled")
    /\ UNCHANGED <<ret, resp, baseButThreads, buffer, hand, context, audio,
                   missed, refused>>

TaskLoopCancelled(t) ==
    /\ pc[t] = "loop_cancelled"
    /\ Goto(t, IF cancelled THEN "ended" ELSE "loop_processing")
    /\ UNCHANGED <<ret, resp, baseButThreads, recognitionVars>>

TaskLoopProcessing(t) ==
    /\ pc[t] = "loop_processing"
    /\ Goto(t, IF processing THEN "pop" ELSE "ended")
    /\ UNCHANGED <<ret, resp, baseButThreads, recognitionVars>>

\* audio_buffer::pop_until: waits for MinChunk, or pops what there is when the
\* time is up; a chunk size the buffer cannot hold is not waited for.
Popped == IF MinChunk > Capacity THEN 0
          ELSE IF Len(buffer) < MinChunk THEN Len(buffer) ELSE MinChunk

TaskPop(t) ==
    /\ pc[t] = "pop"
    /\ hand' = [hand EXCEPT ![t] = SubSeq(buffer, 1, Popped)]
    /\ buffer' = SubSeq(buffer, Popped + 1, Len(buffer))
    /\ Goto(t, IF Popped = 0 THEN "clear" ELSE "full")
    /\ UNCHANGED <<ret, resp, baseButThreads, processing, context, audio,
                   overlap, missed, refused>>

\* asr_mgr::translate finds no context, or full fails.
TaskTranslateFails(t) ==
    /\ pc[t] = "full"
    /\ hand' = [hand EXCEPT ![t] = <<>>]
    /\ audio' = audio \ Range(hand[t])
    /\ refused' = TRUE
    /\ CallSend(t, NoResp, "clear")
    /\ UNCHANGED <<baseButThreads, processing, buffer, context, overlap,
                   missed>>

\* Tasks between their full and the reading of its segments, and their audio.
Unread == {t \in Tasks : pc[t] = "segments"}
UnreadAudio == UNION {Range(hand[t]) : t \in Unread}

\* What another full may leave of the segments in the context: nothing if it
\* begins after all were read, else a part, as nothing orders the two.
Remains == {SubSeq(context, 1, n) :
               n \in IF Unread = {} THEN {0} ELSE 0..Len(context)}

\* full leaves its segments in the context; those of a task that has not read
\* its own yet may be lost.
TaskFull(t) ==
    /\ pc[t] = "full"
    /\ \E rest \in Remains : context' = rest \o hand[t]
    /\ audio' = audio \ (UnreadAudio \ Range(context'))
    /\ Goto(t, "segments")
    /\ UNCHANGED <<ret, resp, baseButThreads, processing, buffer, hand,
                   overlap, missed, refused>>

\* A task of another stream runs full on the same context while a task of
\* this one has still to read its segments.
OtherStreamFull ==
    /\ Unread # {} /\ ~freed
    /\ context' \in Remains \ {context}
    /\ audio' = audio \ (UnreadAudio \ Range(context'))
    /\ UNCHANGED <<streamVars, processing, buffer, hand, overlap, missed,
                   refused>>

\* As TaskSegments, with the task ending after its first transcript.
TaskSegmentsOnce(t) ==
    /\ pc[t] = "segments"
    /\ hand' = [hand EXCEPT ![t] = <<>>]
    /\ CallSend(t, [NoResp EXCEPT !.audio = context], "clear")
    /\ UNCHANGED <<baseButThreads, processing, buffer, context, audio,
                   overlap, missed, refused>>

\* The segments are read from the context, whoever has written them.
TaskSegments(t) ==
    /\ pc[t] = "segments"
    /\ hand' = [hand EXCEPT ![t] = <<>>]
    /\ CallSend(t, [NoResp EXCEPT !.audio = context], "loop_cancelled")
    /\ UNCHANGED <<baseButThreads, processing, buffer, context, audio,
                   overlap, missed, refused>>

TaskClear(t) ==
    /\ pc[t] = "clear"
    /\ processing' = FALSE
    /\ Goto(t, "ended")
    /\ UNCHANGED <<ret, resp, baseButThreads, buffer, hand, context, audio,
                   overlap, missed, refused>>

\* A task goes on with a reactor that OnDone has deleted.
TaskUsesFreed(t) ==
    /\ freed /\ pc[t] \notin {"unused", "ended"}
    /\ misuse' = "use_after_free"
    /\ UNCHANGED <<kind, threadVars, flagVars, reqVars, grpcVars, lifeVars,
                   failed, pipelined, recognitionVars>>

Task(t) ==
    \/ /\ ~freed
       /\ \/ TaskTestCancelled(t) \/ TaskTestProcessing(t)
          \/ TaskSetProcessing(t)
          \/ TaskLoopCancelled(t) \/ TaskLoopProcessing(t)
          \/ TaskPop(t)
          \/ TaskTranslateFails(t) \/ TaskFull(t) \/ TaskSegments(t)
          \/ TaskClear(t)
          \/ SendAndFlush(t) /\ UNCHANGED recognitionVars
    \/ TaskUsesFreed(t)

-----------------------------------------------------------------------------
Recognition == kind = "recognition" /\ Running

\* The steps the server takes by itself.
RecognitionServer ==
    \/ RecognitionOnReadDone
    \/ \E c \in Callbacks : RecognitionOnWriteDone(c)
    \/ \E t \in Tasks : Task(t)
    \/ Service /\ UNCHANGED recognitionVars

RecognitionNext ==
    /\ Recognition
    /\ \/ RecognitionServer
       \/ OtherStreamFull
       \/ ClientAct("register") /\ UNCHANGED recognitionVars

-----------------------------------------------------------------------------
(* Properties.                                                              *)

RecognitionType ==
    /\ processing \in BOOLEAN /\ buffer \in Seq(1..MaxReqs)
    /\ hand \in [Tasks -> Seq(1..MaxReqs)] /\ context \in Seq(1..MaxReqs)
    /\ audio \subseteq 1..MaxReqs
    /\ overlap \in BOOLEAN /\ missed \in BOOLEAN /\ refused \in BOOLEAN

\* Audio is left in the buffer with no task to look at it only when a task
\* stood aside for one whose pop had already come back empty (the flag is
\* cleared after the pop), when two tasks ran at once and one cleared the
\* flag of both, or after a failed translation.
AudioWaitsOnlyIfMissed ==
    kind = "recognition" /\ Running /\ ~cancelled /\ MinChunk <= Capacity
      /\ buffer # <<>> /\ Looking = {} => missed \/ overlap \/ refused

\* The audio of the responses in s.
AudioOf(s) == UNION {Range(s[i].audio) : i \in 1..Len(s)}

\* The audio the stream still holds or has sent the transcript of.
Kept == UNION {Range(buffer), AudioOf(queue), AudioOf(wire),
               UNION {Range(hand[t]) : t \in Tasks},
               UNION {Range(resp[t].audio) : t \in Thread}}

\* Audio gets lost in these ways only: the ring buffer overwrites it, its
\* translation fails, another full (of this stream or of any other) writes the
\* context between its own and the reading of its segments, or the stream is
\* cancelled.  The race in _flush, a task that stands aside and two tasks at
\* work on one buffer lose none by themselves: every other chunk is in the
\* buffer, with a task, or in a response.
AudioIsKept ==
    kind = "recognition" /\ Running /\ ~cancelled => audio \subseteq Kept

=============================================================================
