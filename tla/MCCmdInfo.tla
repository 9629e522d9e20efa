----------------------------- MODULE MCCmdInfo ------------------------------
(* CmdInfo on small instances.                                             *)
EXTENDS CmdInfo

CONSTANTS t1, t2

Res(n, r, w) == [name |-> n, readable |-> r, writable |-> w]
Cmd(n, g, s) == [name |-> n, get |-> g, set |-> s]

\* Resource R in every mode, and S; at most two commands, one of them perhaps
\* named like R.
ManyProfiles ==
  {[commands |-> c, resources |-> <<Res("R", r, w), Res("S", TRUE, FALSE)>>] :
     c \in {<<>>} \cup {<<Cmd(n, g, s)>> : n \in {"C", "R"},
                          g \in {<<>>, <<"R", "S">>}, s \in {<<>>, <<"R">>}}
           \cup {<<Cmd("C", <<"S">>, <<>>), Cmd("R", g, <<"R">>)>> :
                   g \in {<<>>, <<"R">>}},
     r \in BOOLEAN, w \in BOOLEAN}

\* A command and a resource, three list nodes.
OneProfile ==
  {[commands |-> <<Cmd("C", <<"R">>, <<"R">>)>>,
    resources |-> <<Res("R", TRUE, FALSE)>>]}

AllQueries == [name : {"C", "R", "S"}, forGet : BOOLEAN]

\* The last node, and one that the list does not have.
FewQueries == {[name |-> "R", forGet |-> TRUE], [name |-> "R", forGet |-> FALSE]}
=============================================================================
