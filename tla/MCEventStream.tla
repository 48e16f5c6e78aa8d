---------------------------- MODULE MCEventStream ----------------------------
(* Instances of EventStream for TLC.                                         *)
EXTENDS EventStream, TLC

\* The lines a body may have at place i, where its piece is i.
LinesAt(i) ==
    {<<Lf>>, <<Comment, Lf>>, <<Malformed, Lf>>, <<Data, i, Lf>>,
     <<Data, i, Cr, Lf>>, <<Data, NoContent, Lf>>, <<Data, DoneMark, Lf>>,
     <<Data, Malformed, Lf>>, <<Data, Lf>>}

\* Three lines, and perhaps a last one without its end.
InputsValue ==
    {a \o b \o c \o t : a \in LinesAt(1), b \in LinesAt(2), c \in LinesAt(3),
                        t \in {<<>>, <<Data, 4>>}}
==============================================================================
