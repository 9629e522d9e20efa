--------------------------- MODULE MCGraceCluster ---------------------------
(* Two servers and a client; GraceCluster and its properties. *)
EXTENDS GraceCluster

CONSTANTS n1, n2, c1

\* The servers meet only in the database, which no step of a client touches:
\* the client of one server is enough, unless clients of both are compared.
OneServer == {<<n1, c1>>}
BothServers == {<<n1, c1>>, <<n2, c1>>}

=============================================================================
