----------------------------- MODULE MCPathTree -----------------------------
(* A small instance of PathTree: a host with nested, diverging and root      *)
(* paths, two replicas of one of them that write it differently, and two     *)
(* wildcards that overlap.                                                   *)
EXTENDS PathTree, TLC

CONSTANTS root, a1, a2, ab, aba, ac, wide, wideA, narrow

Shop == [name |-> <<"shop", "example", "com">>, port |-> FALSE]
Wide == [name |-> <<"*", "com">>, port |-> FALSE]
Narrow == [name |-> <<"*", "example", "com">>, port |-> FALSE]

\* a1 and a2 are replicas of one service; ab, aba and ac branch off below it
\* at one character, which is not a path segment of its own.
MCPathOf ==
  root :> <<"/">> @@ a1 :> <<"/", "a">> @@ a2 :> <<"/", "a", "/">>
    @@ ab :> <<"/", "a", "b">> @@ aba :> <<"/", "a", "b", "/", "a">>
    @@ ac :> <<"a", "c">>
    @@ wide :> <<>> @@ wideA :> <<"/", "a">> @@ narrow :> <<"/", "a">>

MCHostOf ==
  [c \in Containers |->
    CASE c \in {wide, wideA} -> Wide
      [] c = narrow -> Narrow
      [] OTHER -> Shop]

MCChars == {"/", "a", "b", "c", "*"}

MCRequestHosts ==
  {Shop, [Shop EXCEPT !.port = TRUE],
   [name |-> <<"example", "com">>, port |-> FALSE],
   [name |-> <<"mail", "com">>, port |-> FALSE],
   [name |-> <<"shop", "example", "org">>, port |-> FALSE]}

\* Every path of up to three characters after the slash, a few longer ones,
\* and "*", which a server-wide OPTIONS asks for.
MCRequestPaths ==
  {<<"/">> \o s : s \in BoundedSeq({"/", "a", "b", "c"}, 3)}
    \cup {<<"*">>, <<"/", "a", "b", "/", "a">>, <<"/", "a", "b", "/", "a", "/">>,
          <<"/", "a", "b", "/", "a", "b">>, <<"/", "a", "b", "/", "c", "a">>}
=============================================================================
