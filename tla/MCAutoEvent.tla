---- MODULE MCAutoEvent ----
(* Instances of AutoEvent for TLC. *)
EXTENDS AutoEvent

CONSTANTS a1, a2, w1, w2, v1

====
