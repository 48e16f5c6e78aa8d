------------------------------- MODULE MCStore -------------------------------
(* Instances of Store for TLC.                                               *)
EXTENDS Store, TLC

\* Every plugin first, second and after an item of another topic.
BatchesValue == {<<"p1", "other", "p2">>, <<"p2", "p1">>}

\* No database, a section without id, only another database, all in order.
DbConfsValue == {<<>>, <<-1>>, <<1>>, <<1, 0>>}

Symmetric == Permutations(Sessions) \cup Permutations(Queries)
             \cup Permutations(Deleters)
==============================================================================
