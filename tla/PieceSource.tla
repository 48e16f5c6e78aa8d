----------------------------- MODULE PieceSource -----------------------------
(***************************************************************************)
(* What a remote model is to the task that queries it: a source of pieces   *)
(* that come one by one, in order and without a gap, until the task has     *)
(* enough, the source breaks, says that it is done, or is lost.  Nothing    *)
(* here knows how the answer was cut into packets.  EventStream implements  *)
(* this specification.                                                      *)
(***************************************************************************)
EXTENDS Naturals, Sequences

CONSTANTS Done, Broken      \* what an event may be other than a piece

VARIABLES
    events,     \* the events of the answer, in order
    next,       \* the first one that has not been looked at
    given,      \* the pieces the task was given
    status      \* "open", "stopped", "ended" or "lost"

sourceVars == <<events, next, given, status>>

More == status = "open" /\ next <= Len(events)

SourceInit == next = 1 /\ given = <<>> /\ status = "open"

\* A piece is given to the task, which may have enough.
Give ==
    /\ More /\ events[next] \notin {Done, Broken}
    /\ given' = Append(given, events[next])
    /\ next' = next + 1
    /\ status' \in {"open", "stopped"}
    /\ UNCHANGED events

Break ==
    /\ More /\ events[next] = Broken
    /\ status' = "stopped" /\ next' = next + 1
    /\ UNCHANGED <<events, given>>

PassDone ==
    /\ More /\ events[next] = Done
    /\ next' = next + 1
    /\ UNCHANGED <<events, given, status>>

\* The source ends after its last event or, what follows it being of no
\* interest, after Done.
End ==
    /\ status = "open"
    /\ next > Len(events) \/ \E i \in 1..(next - 1) : events[i] = Done
    /\ status' = "ended"
    /\ UNCHANGED <<events, next, given>>

Lose ==
    /\ status = "open" /\ status' = "lost"
    /\ UNCHANGED <<events, next, given>>

SourceNext == Give \/ Break \/ PassDone \/ End \/ Lose

SourceSpec == SourceInit /\ [][SourceNext]_sourceVars
==============================================================================
