----------------------------- MODULE BidiStreams -----------------------------
(***************************************************************************)
(* The two bidirectional streams side by side: a behaviour is one of an     *)
(* embedding stream or one of a recognition stream.                         *)
(***************************************************************************)
EXTENDS Embedding, Recognition

vars == <<streamVars, stops, recognitionVars>>

Init == StreamInit /\ EmbeddingInit /\ RecognitionInit

Next ==
    \/ EmbeddingNext /\ UNCHANGED recognitionVars
    \/ RecognitionNext /\ UNCHANGED stops

Server ==
    \/ Embedding /\ EmbeddingServer /\ UNCHANGED recognitionVars
    \/ Recognition /\ RecognitionServer /\ UNCHANGED stops

\* The process goes on as long as one of its threads can: reactions are
\* delivered and run, a write in flight ends, so does the read of a broken or
\* finished stream, pop_until and translate return.  Nothing is assumed of
\* which thread is scheduled, and no client has to send, close or stop.
Fairness == WF_vars(Server)

Spec == Init /\ [][Next]_vars /\ Fairness

-----------------------------------------------------------------------------
(* Properties of both streams.                                              *)

\* Every variable has its type.
TypeOK == StreamType /\ EmbeddingType /\ RecognitionType

\* Finish is called by OnReadDone and by OnWriteDone.  An embedding stream
\* that was never cancelled, and a recognition stream none of whose writes
\* failed, is not finished twice.
DoubleFinishHasCause ==
    misuse = "double_finish" => IF kind = "embedding" THEN cancelled ELSE failed

\* A cancelled stream (by StopEmbedding, by the client or by a failed write)
\* ends: the reactor is deleted and its tasks give their pool threads back,
\* also when the client never closes its side.
CancelledStreamEnds ==
    cancelled ~> \/ ~Running
                 \/ freed /\ \A t \in Tasks : pc[t] \in {"unused", "ended"}
=============================================================================
