---- MODULE MCCommands ----
(* Instances of Commands for TLC. *)
EXTENDS Commands

CONSTANTS d1, d2, t1, t2

Entry(r, rd, wr, df) == [res |-> r, readable |-> rd, writable |-> wr, dflt |-> df]

\* Commands on one or two resources: read-only and write-only entries, entries
\* with and without a default.
Plain == <<Entry("x", TRUE, TRUE, NULL)>>
Twin == <<Entry("x", TRUE, TRUE, NULL), Entry("y", TRUE, TRUE, "good")>>
Mixed == <<Entry("x", TRUE, TRUE, NULL), Entry("y", FALSE, FALSE, NULL)>>
Long == Twin \o Plain

AllProfiles ==
  {[get |-> Plain, set |-> Twin, enc |-> "CBOR"], [get |-> Long, set |-> Long, enc |-> "JSON"],
   [get |-> NULL, set |-> Mixed, enc |-> "JSON"], [get |-> Mixed, set |-> NULL, enc |-> "JSON"]}

Payload(f, vx, vy) == [form |-> f, val |-> [x |-> vx, y |-> vy]]
None == Payload("none", NULL, NULL)
Good == Payload("JSON", "good", "good")
Payloads ==
  {None, Payload("notJSON", NULL, NULL), Payload("JSON", "good", NULL),
   Payload("JSON", NULL, "good"), Payload("JSON", "unparsable", "good"),
   Payload("JSON", "good", "overflow")}

Ask(a, g, d, p) == [all |-> a, get |-> g, dev |-> d, payload |-> p]
\* Requests of every kind.
AllRequests ==
  {Ask(TRUE, TRUE, NULL, None)} \cup {Ask(FALSE, TRUE, d, None) : d \in Devices}
    \cup {Ask(TRUE, FALSE, NULL, p) : p \in Payloads}
    \cup {Ask(FALSE, FALSE, d, p) : d \in Devices, p \in Payloads \cup {Good}}
\* Those that may also arrive while another one is being answered.
FewRequests == {Ask(TRUE, TRUE, NULL, None), Ask(FALSE, FALSE, d1, Good)}

\* Bound: two requests at once are of the latter.
AtOnce == (\A t \in Threads : thread[t].pc # "idle") =>
            \A t \in Threads : thread[t].req \in FewRequests

====
