------------------------------ MODULE CmdInfo -------------------------------
(***************************************************************************)
(* The command list of a device profile.  It is built from the profile the *)
(* first time a command is looked up, by whatever thread does so: neither  *)
(* edgex_deviceprofile_findcommand nor populateCmdInfo takes a lock, and   *)
(* the callers hold at most the device map's read lock.                    *)
(*                                                                         *)
(* A list node is <<t, k>>: the node that thread t allocated for the k-th  *)
(* command.  A pointer that several threads use is read and written in one *)
(* step; the steps of different threads interleave.                        *)
(***************************************************************************)
EXTENDS Integers, Sequences

CONSTANTS Profiles,  \* device profiles
          Queries,   \* lookups: a command name and whether it is for a GET
          Threads,   \* connection threads and pool threads
          NULL

-----------------------------------------------------------------------------
(* populateCmdInfo as a function of the profile.                           *)

Info(name, isget, reqs) == <<[name |-> name, isget |-> isget, reqs |-> reqs]>>

\* Mutant: a command with a get list loses its set list.
CommandInfoGetOnly(c) ==
  IF c.get # <<>> THEN Info(c.name, TRUE, c.get)
  ELSE IF c.set # <<>> THEN Info(c.name, FALSE, c.set) ELSE <<>>

\* infoForRes for the get list and for the set list of a deviceCommand.
CommandInfo(c) ==
  (IF c.get # <<>> THEN Info(c.name, TRUE, c.get) ELSE <<>>)
    \o (IF c.set # <<>> THEN Info(c.name, FALSE, c.set) ELSE <<>>)

\* Mutant: deviceCommands of the same name are not looked for.
ResourceInfoAlways(p, r) ==
  (IF r.readable THEN Info(r.name, TRUE, <<r.name>>) ELSE <<>>)
    \o (IF r.writable THEN Info(r.name, FALSE, <<r.name>>) ELSE <<>>)

\* infoForDevRes, unless a deviceCommand has the name of the resource.
ResourceInfo(p, r) ==
  IF \E i \in DOMAIN p.commands : p.commands[i].name = r.name THEN <<>>
  ELSE (IF r.readable THEN Info(r.name, TRUE, <<r.name>>) ELSE <<>>)
         \o (IF r.writable THEN Info(r.name, FALSE, <<r.name>>) ELSE <<>>)

\* What one of the loops of populateCmdInfo appends, an element at a time.
Joined(s) ==
  IF s = <<>> THEN s
  ELSE LET upto[i \in 1..Len(s)] == IF i = 1 THEN s[i] ELSE upto[i - 1] \o s[i]
       IN  upto[Len(s)]

\* The list in the order populateCmdInfo appends to it.
Infos(p) ==
  Joined([i \in DOMAIN p.commands |-> CommandInfo(p.commands[i])])
    \o Joined([i \in DOMAIN p.resources |-> ResourceInfo(p, p.resources[i])])

IsSeq(s) == s \in Seq({s[i] : i \in DOMAIN s})

ASSUME CmdInfoAssumption ==
  /\ NULL \notin Threads \X Nat
  /\ \A p \in Profiles : IsSeq(p.commands) /\ IsSeq(p.resources)

-----------------------------------------------------------------------------
VARIABLES infos,    \* what the list of this profile will be
          profile,  \* the profile
          cmdinfo,  \* prof->cmdinfo
          next,     \* the next pointer of each node, NULL unless assigned
          thread    \* what each thread is doing

vars == <<infos, profile, cmdinfo, next, thread>>

Idle == [pc |-> "idle"]

Init ==
  /\ profile \in Profiles
  /\ infos = Infos(profile)
  /\ cmdinfo = NULL
  /\ next = [n \in Threads \X (1..Len(infos)) |-> NULL]
  /\ thread = [t \in Threads |-> Idle]

Become(t, s) == thread' = [thread EXCEPT ![t] = s]

\* edgex_deviceprofile_findcommand starts: is there a list?
Find(t, q) ==
  /\ thread[t] = Idle
  /\ Become(t, IF cmdinfo = NULL THEN [pc |-> "build", q |-> q, n |-> 0]
                                 ELSE [pc |-> "search", q |-> q, at |-> cmdinfo])
  /\ UNCHANGED <<infos, profile, cmdinfo, next>>

\* Mutant: every node is stored in prof->cmdinfo.
AppendToHead(t) ==
  /\ thread[t].pc = "build"
  /\ thread[t].n < Len(infos)
  /\ cmdinfo' = <<t, thread[t].n + 1>>
  /\ Become(t, [thread[t] EXCEPT !.n = @ + 1])
  /\ UNCHANGED <<infos, profile, next>>

\* Mutant: one node too many.
AppendPastEnd(t) ==
  /\ thread[t].pc = "build"
  /\ thread[t].n <= Len(infos)
  /\ LET n == thread[t].n IN
       \/ n = 0 /\ cmdinfo' = <<t, 1>> /\ UNCHANGED next
       \/ n > 0 /\ next' = [next EXCEPT ![<<t, n>>] = <<t, n + 1>>]
                /\ UNCHANGED cmdinfo
  /\ Become(t, [thread[t] EXCEPT !.n = @ + 1])
  /\ UNCHANGED <<infos, profile>>

\* One assignment to *head: the first goes to prof->cmdinfo, the others to
\* the next pointer of the node before.
Append1(t) ==
  /\ thread[t].pc = "build"
  /\ thread[t].n < Len(infos)
  /\ LET n == thread[t].n IN
       \/ n = 0 /\ cmdinfo' = <<t, 1>> /\ UNCHANGED next
       \/ n > 0 /\ next' = [next EXCEPT ![<<t, n>>] = <<t, n + 1>>]
                /\ UNCHANGED cmdinfo
  /\ Become(t, [thread[t] EXCEPT !.n = @ + 1])
  /\ UNCHANGED <<infos, profile>>

\* The list is built; the search starts from whatever prof->cmdinfo is now.
Built(t) ==
  /\ thread[t].pc = "build"
  /\ thread[t].n = Len(infos)
  /\ Become(t, [pc |-> "search", q |-> thread[t].q, at |-> cmdinfo])
  /\ UNCHANGED <<infos, profile, cmdinfo, next>>

Matches(i, q) == i.name = q.name /\ i.isget = q.forGet

\* Mutant: a node of the right name and the wrong method is not passed over.
SearchStuck(t) ==
  /\ thread[t].pc = "search"
  /\ LET at == thread[t].at IN
       \/ /\ at = NULL \/ (at # NULL /\ Matches(infos[at[2]], thread[t].q))
          /\ Become(t, [pc |-> "done", q |-> thread[t].q, res |-> at])
       \/ /\ at # NULL /\ infos[at[2]].name # thread[t].q.name
          /\ Become(t, [pc |-> "search", q |-> thread[t].q, at |-> next[at]])
  /\ UNCHANGED <<infos, profile, cmdinfo, next>>

\* One iteration of the search.
Search(t) ==
  /\ thread[t].pc = "search"
  /\ LET at == thread[t].at IN
       \/ /\ at = NULL \/ (at # NULL /\ Matches(infos[at[2]], thread[t].q))
          /\ Become(t, [pc |-> "done", q |-> thread[t].q, res |-> at])
       \/ /\ at # NULL /\ ~Matches(infos[at[2]], thread[t].q)
          /\ Become(t, [pc |-> "search", q |-> thread[t].q, at |-> next[at]])
  /\ UNCHANGED <<infos, profile, cmdinfo, next>>

Return(t) ==
  /\ thread[t].pc = "done"
  /\ Become(t, Idle)
  /\ UNCHANGED <<infos, profile, cmdinfo, next>>

Step(t) == Append1(t) \/ Built(t) \/ Search(t) \/ Return(t)

Next == \E t \in Threads : Step(t) \/ \E q \in Queries : Find(t, q)

\* A thread that is looking a command up keeps running.
Spec == Init /\ [][Next]_vars /\ \A t \in Threads : WF_vars(Step(t))

-----------------------------------------------------------------------------
(* Properties.                                                             *)

Nodes == Threads \X (1..Len(infos))

\* Types of the variables.
TypeOK ==
  /\ profile \in Profiles
  /\ infos = Infos(profile)
  /\ cmdinfo \in Nodes \cup {NULL}
  /\ next \in [Nodes -> Nodes \cup {NULL}]
  /\ thread \in [Threads ->
       {Idle} \cup [pc : {"build"}, q : Queries, n : 0..Len(infos)]
              \cup [pc : {"search"}, q : Queries, at : Nodes \cup {NULL}]
              \cup [pc : {"done"}, q : Queries, res : Nodes \cup {NULL}]]

\* The list at prof->cmdinfo has all the commands, in order.
Complete ==
  \E t \in Threads :
    /\ cmdinfo = <<t, 1>>
    /\ \A k \in 1..Len(infos) :
         next[<<t, k>>] = IF k = Len(infos) THEN NULL ELSE <<t, k + 1>>

\* Threads may build the list at the same time, each overwriting the head
\* that another one stored.  When none of them is building any more, the list
\* is nevertheless complete.
QuiescentComplete ==
  cmdinfo # NULL /\ (\A t \in Threads : thread[t].pc # "build") => Complete

\* The operations that a request for q stands for according to
\* deviceprofiles.md: those of the deviceCommand of that name if there is
\* one, otherwise the deviceResource itself.
Meaning(q) ==
  LET named == {i \in DOMAIN profile.commands :
                  profile.commands[i].name = q.name}
      res == {i \in DOMAIN profile.resources :
                /\ profile.resources[i].name = q.name
                /\ IF q.forGet THEN profile.resources[i].readable
                               ELSE profile.resources[i].writable}
  IN  IF named # {}
        THEN {IF q.forGet THEN profile.commands[i].get
                          ELSE profile.commands[i].set : i \in named} \ {<<>>}
        ELSE IF res # {} THEN {<<q.name>>} ELSE {}

\* A lookup that finds a command has found what the profile means by it, also
\* while the list is being built.
FoundIsMeant ==
  \A t \in Threads : thread[t].pc = "done" /\ thread[t].res # NULL =>
    infos[thread[t].res[2]].reqs \in Meaning(thread[t].q)

\* Every lookup ends: the list never has a cycle, whoever is changing it.
LookupEnds == \A t \in Threads : thread[t].pc # "idle" ~> thread[t].pc = "idle"
=============================================================================
