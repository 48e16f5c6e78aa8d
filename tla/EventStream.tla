----------------------------- MODULE EventStream -----------------------------
(***************************************************************************)
(* deepseek_caller::loop_query: the answer of the remote model comes as a   *)
(* stream of server-sent events that the network cuts into packets at any   *)
(* point.  on_data appends a packet to stream_buf and handles the complete  *)
(* lines; what is left waits for the next packet.                           *)
(*                                                                          *)
(* A line is a sequence of symbols: Data for "data: ", then the payload,    *)
(* one symbol; Comment for a colon; Cr and Lf.  A payload is a piece of the *)
(* answer, NoContent (JSON without choices[0].delta.content), DoneMark      *)
(* ("[DONE]") or anything else, which is no JSON.                           *)
(***************************************************************************)
EXTENDS Naturals, Sequences, FiniteSets

CONSTANTS
    Inputs,     \* the bodies the remote model may send
    Pieces,     \* pieces of an answer
    Data, Comment, Cr, Lf, NoContent, DoneMark,
    Malformed   \* stands for a line that is not to be parsed

ASSUME SymbolsAssumption ==
    LET marks == {Data, Comment, Cr, Lf, NoContent, DoneMark, Malformed}
    IN  Cardinality(marks) = 7 /\ marks \cap Pieces = {}

\* A body is made of these symbols.
Symbol == Pieces \cup {Data, Comment, Cr, Lf, NoContent, DoneMark, Malformed}

ASSUME InputsAssumption == Inputs \subseteq Seq(Symbol)

VARIABLES
    input,      \* the body
    pos,        \* how much of it has been received
    buf,        \* stream_buf
    pc,         \* "wait" for data, "parse" in on_data, or how the request ended
    given       \* pieces that the callback was given

vars == <<input, pos, buf, pc, given>>

\* The positions of the line ends in s.
LineEnds(s) == {i \in DOMAIN s : s[i] = Lf}

\* The first line of s, without its end.
FirstLine(s) ==
    SubSeq(s, 1, (CHOOSE i \in LineEnds(s) : \A j \in LineEnds(s) : i <= j) - 1)

\* "\r\n" ends a line as well.
StripCr(l) == IF l # <<>> /\ l[Len(l)] = Cr THEN SubSeq(l, 1, Len(l) - 1) ELSE l

\* Empty lines, comments and other fields are passed over.
IsData(l) == l # <<>> /\ l[1] = Data

\* What follows "data: ": a piece, NoContent, DoneMark or something malformed.
Payload(l) ==
    IF Len(l) = 2 /\ l[2] \in Pieces \cup {NoContent, DoneMark}
    THEN l[2] ELSE Malformed

Init ==
    /\ input \in Inputs
    /\ pos = 0 /\ buf = <<>> /\ pc = "wait" /\ given = <<>>

\* As OnData, with what was left of the last packet forgotten.
OnDataForgets(n) ==
    /\ pc = "wait" /\ pos + n <= Len(input)
    /\ pos' = pos + n
    /\ buf' = SubSeq(input, pos + 1, pos + n)
    /\ pc' = "parse"
    /\ UNCHANGED <<input, given>>

\* A packet of n symbols arrives.
OnData(n) ==
    /\ pc = "wait" /\ pos + n <= Len(input)
    /\ pos' = pos + n
    /\ buf' = buf \o SubSeq(input, pos + 1, pos + n)
    /\ pc' = "parse"
    /\ UNCHANGED <<input, given>>

\* One turn of the loop: a line is cut off and handled.  [DONE] leaves
\* on_data, but not the stream: lines behind it in the packet are handled when
\* the next packet comes, if one does.  A callback that returns false (more is
\* FALSE) and malformed JSON end the request.
ParseLine(more) ==
    /\ pc = "parse" /\ LineEnds(buf) # {}
    /\ LET raw == FirstLine(buf)
           line == StripCr(raw)
           load == Payload(line)
       IN  /\ buf' = SubSeq(buf, Len(raw) + 2, Len(buf))
           /\ IF IsData(line) /\ load \in Pieces
                THEN /\ given' = Append(given, load)
                     /\ pc' = IF more THEN "parse" ELSE "stopped"
                ELSE /\ UNCHANGED given
                     /\ pc' = IF ~IsData(line) \/ load = NoContent THEN "parse"
                              ELSE IF load = DoneMark THEN "wait"
                              ELSE "stopped"
    /\ UNCHANGED <<input, pos>>

\* No complete line is left.
OnDataReturns ==
    /\ pc = "parse" /\ LineEnds(buf) = {}
    /\ pc' = "wait"
    /\ UNCHANGED <<input, pos, buf, given>>

\* The whole body has come; a last line without its end is dropped.
EndOfBody ==
    /\ pc = "wait" /\ pos = Len(input)
    /\ pc' = "ended"
    /\ UNCHANGED <<input, pos, buf, given>>

\* The connection is lost or times out.  Like every end of the request this is
\* answered with OK.
ConnectionLost ==
    /\ pc = "wait" /\ pos < Len(input)
    /\ pc' = "lost"
    /\ UNCHANGED <<input, pos, buf, given>>

Next ==
    \/ \E n \in 1..Len(input) : OnData(n)
    \/ \E more \in BOOLEAN : ParseLine(more)
    \/ OnDataReturns \/ EndOfBody \/ ConnectionLost

Spec == Init /\ [][Next]_vars

-----------------------------------------------------------------------------
(* The refinement.                                                          *)

\* Where the lines of s begin and end: the place before the first symbol, and
\* that of the line end.
Spans(s) ==
    {p \in ({0} \cup LineEnds(s)) \X LineEnds(s) :
        /\ p[1] < p[2]
        /\ \A j \in LineEnds(s) : j <= p[1] \/ p[2] <= j}

\* The lines of the whole body, as if it had come in one packet: where each
\* ends, and its text.
Lines(s) ==
    {[end |-> p[2], text |-> StripCr(SubSeq(s, p[1] + 1, p[2] - 1))] : p \in Spans(s)}

\* Those that carry an event.
EventLines(s) ==
    {l \in Lines(s) : IsData(l.text) /\ Payload(l.text) # NoContent}

\* How many lines in S end at n or before.
UpTo(S, n) == Cardinality({l \in S : l.end <= n})

\* The events of the whole body, in the order of their lines.
Events(s) ==
    LET ls == EventLines(s)
        nth(i) == CHOOSE l \in ls : UpTo(ls, l.end) = i
    IN  [i \in 1..Cardinality(ls) |-> Payload(nth(i).text)]

\* How much of the body on_data has handled: what came and is not in
\* stream_buf.
Handled == pos - Len(buf)

Source == INSTANCE PieceSource WITH
    Done <- DoneMark,
    Broken <- Malformed,
    events <- Events(input),
    next <- UpTo(EventLines(input), Handled) + 1,
    given <- given,
    status <- IF pc \in {"wait", "parse"} THEN "open" ELSE pc

\* However the network cuts the answer, the task is given the pieces of the
\* uncut one, in order, each once and none left out up to [DONE], before the
\* request ends by itself.
ImplementsPieceSource == Source!SourceSpec
==============================================================================
