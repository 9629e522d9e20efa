------------------------------ MODULE FileLocks ------------------------------
(***************************************************************************)
(* The byte-range locks of one file (SAL/state_lock.c): the lock list, the *)
(* requests of NLM and NFSv4 clients that read and rewrite it, and the     *)
(* handshake by which a blocked NLM lock is granted later: GRANTED_MSG to  *)
(* the client, a cookie in a hash table, GRANTED_RES or a timeout back.    *)
(*                                                                         *)
(* The FSAL is one without locks of its own (fso_lock_support is false),   *)
(* so do_lock_op succeeds at once and the list is all there is. One        *)
(* export; no reclaims. Every request runs under the file's st_lock and is *)
(* one step; what runs outside it, state_find_grant, is a step of its own. *)
(***************************************************************************)
EXTENDS Integers, FiniteSets, SequencesExt

CONSTANTS Owners,
          MaxOff,       \* UINT64_MAX
          Plain,     \* <<start, length>> of the locks asked for
          Endless,   \* the same, with locks to the end of the file among them
          Cuts,      \* what they unlock, besides the whole file
          Eofs,      \* whether clients use Endless: a subset of BOOLEAN
          MaxReq     \* bound: lock requests

ASSUME FileLocksAssumption ==
  /\ MaxOff \in Nat /\ MaxReq \in Nat /\ Eofs \subseteq BOOLEAN
  /\ \A r \in Plain \cup Endless \cup Cuts :
       r[1] \in 0..MaxOff /\ r[2] \in 0..MaxOff /\ r[1] + r[2] - 1 <= MaxOff
  /\ \A r \in Plain : r[2] # 0 /\ r[1] + r[2] - 1 < MaxOff

VARIABLES eof,     \* whether clients use Endless
          list,    \* file.lock_list
          cookie,  \* cookie of the entry a blocked request made: "none",
                   \* "hash" (in ht_lock_cookies), or taken out by a thread
                   \* that will complete ("ok") or release ("no") the grant
          left     \* requests left

vars == <<eof, list, cookie, left>>

Keys  == 1..MaxReq
Types == {"R", "W"}

\* An entry. key names the entry of a blocked request, and is 0 in others;
\* blocked is sle_blocked: "granted" (STATE_NON_BLOCKING), "blocked"
\* (STATE_NLM_BLOCKING) or "granting" (STATE_GRANTING). A canceled entry
\* leaves the list in the step that cancels it.
Entry(key, o, t, r, blocked) ==
  [key |-> key, owner |-> o, type |-> t, start |-> r[1], len |-> r[2],
   blocked |-> blocked]

Init == /\ eof \in Eofs
        /\ list = << >>
        /\ cookie = [k \in Keys |-> "none"]
        /\ left = MaxReq

Ranges == IF eof THEN Endless ELSE Plain
-----------------------------------------------------------------------------
(* Ranges, in the arithmetic of uint64_t *)

Word(x) == x % (MaxOff + 1)

\* lock_end
End(e) == IF e.len = 0 THEN MaxOff ELSE Word(e.start + e.len - 1)

Overlap(e, f) == End(e) >= f.start /\ e.start <= End(f)

Conflict(e, f) ==
  Overlap(e, f) /\ "W" \in {e.type, f.type} /\ e.owner # f.owner

SameLock(e, f) == /\ e.owner = f.owner /\ e.type = f.type
                  /\ e.start = f.start /\ e.len = f.len

Holds(e) == e.blocked \in {"granted", "granting"}

\* Mutant: skips the entries being granted, too
FreeGranted(l, e) ==
  \A i \in DOMAIN l : l[i].blocked = "granted" => ~Conflict(l[i], e)

\* get_overlapping_entry
Free(l, e) == \A i \in DOMAIN l : Holds(l[i]) => ~Conflict(l[i], e)
-----------------------------------------------------------------------------
(* merge_lock_entry *)

Apart(c, e) == Word(End(c) + 1) < e.start \/ Word(End(e) + 1) < c.start

\* Mutant: an old lock that should be split only keeps its left part
ShrunkNoSplit(c, e) ==
  [keep |-> IF c.start < e.start
              THEN [c EXCEPT !.len = e.start - c.start]
              ELSE [c EXCEPT !.start = End(e) + 1, !.len = End(c) - End(e)],
   tail |-> << >>]

Shrunk(c, e) ==
  LET right == [c EXCEPT !.start = End(e) + 1, !.len = End(c) - End(e)]
      lft   == [c EXCEPT !.len = e.start - c.start]
  IN  [keep |-> IF c.start < e.start THEN lft ELSE right,
       tail |-> IF c.start < e.start /\ End(e) < End(c)
                  THEN <<[right EXCEPT !.key = 0]>> ELSE << >>]

Expanded(c, e) ==
  LET s == IF c.start < e.start THEN c.start ELSE e.start
      l == IF End(e) < End(c) THEN End(c) ELSE End(e)
  IN  [e EXCEPT !.start = s, !.len = Word(l - s + 1)]

\* One turn of the loop. The entry being merged may be in the list itself.
MergeOne(m, c) ==
  IF \/ c.key # 0 /\ c.key = m.entry.key
     \/ c.owner # m.entry.owner \/ c.blocked # "granted" \/ Apart(c, m.entry)
    THEN [m EXCEPT !.list = Append(@, c)]
  ELSE IF c.type # m.entry.type /\ (End(m.entry) < End(c) \/ c.start < m.entry.start)
    THEN [m EXCEPT !.list = Append(@, Shrunk(c, m.entry).keep),
                   !.tail = @ \o Shrunk(c, m.entry).tail]
  ELSE [m EXCEPT !.entry = Expanded(c, @)]

\* The loop, from any of the states S
MergeAll(S, l) == FoldLeft(LAMBDA T, c : {MergeOne(m, c) : m \in T}, S, l)

\* Right parts are added at the tail, where the loop comes upon them in the
\* end. It does not split them again, because they begin behind the entry.
\* There is one result, which is given as a set.
Merge(l, e) ==
  UNION {MergeAll({[m EXCEPT !.tail = << >>]}, m.tail) :
           m \in MergeAll({[list |-> << >>, tail |-> << >>, entry |-> e]}, l)}

\* A new entry is added at the tail, one that was in the list stays there.
Added(m) == Append(m.list, m.entry)

InPlace(m) ==
  [i \in DOMAIN m.list |->
     IF m.list[i].key = m.entry.key THEN m.entry ELSE m.list[i]]
-----------------------------------------------------------------------------
(* subtract_lock_from_list *)

\* subtract_lock_from_entry: what is left of e
Pieces(e, f) ==
  (IF e.start < f.start
     THEN <<[e EXCEPT !.key = 0, !.len = f.start - e.start]>> ELSE << >>)
  \o
  (IF End(f) < End(e)
     THEN <<[e EXCEPT !.key = 0, !.start = End(f) + 1,
                      !.len = IF End(e) = MaxOff THEN 0 ELSE End(e) - End(f)]>>
     ELSE << >>)

Subtract(l, f) ==
  LET Hit(e)  == e.owner = f.owner /\ e.blocked = "granted" /\ Overlap(e, f)
      Miss(e) == ~Hit(e)
      Cut(acc, e) == acc \o Pieces(e, f)
  IN  SelectSeq(l, Miss) \o FoldLeft(Cut, << >>, SelectSeq(l, Hit))
-----------------------------------------------------------------------------
(* Granting blocked locks *)

\* grant_blocked_locks: try_to_grant_lock on each entry that may have it now,
\* in the order of the list. It sends GRANTED_MSG and makes a cookie. The
\* result is given as a set, like that of Merge.
GrantBlocked(l) ==
  LET Waiting(i) == l[i].blocked = "blocked"
      TryOne(S, i) ==
        {IF Free(m, l[i]) THEN [m EXCEPT ![i].blocked = "granting"] ELSE m : m \in S}
  IN  FoldLeft(TryOne, {l}, SelectSeq([i \in DOMAIN l |-> i], Waiting))

At(l, k) == {i \in DOMAIN l : l[i].key = k}

\* The list becomes l, and then what it lets be granted is; ck are the
\* cookies before that.
Becomes(l, ck) ==
  \E m \in {l} : \E g \in GrantBlocked(m) :
    /\ list' = g
    /\ cookie' = [k \in Keys |->
                    IF \E i \in At(m, k) : m[i].blocked # g[i].blocked
                      THEN "hash" ELSE ck[k]]

\* Mark lock as granted, and merge
Granted(l, k) ==
  LET i == CHOOSE j \in At(l, k) : TRUE
  IN  Merge([l EXCEPT ![i].blocked = "granted"],
            [l[i] EXCEPT !.blocked = "granted"])

\* grant_blocked_lock_immediate. When another thread has the cookie nothing
\* changes, as when the lock was granted before.
GrantImmediate(k) ==
  /\ k # 0 /\ cookie[k] = "hash"
  /\ \E m \in Granted(list, k) :
       Becomes(InPlace(m), [cookie EXCEPT ![k] = "none"])

\* The blocked locks of the owner of f that overlap f
Pending(f) ==
  {k \in Keys : \E i \in At(list, k) : /\ list[i].owner = f.owner /\ Overlap(list[i], f)
                                       /\ list[i].blocked # "granted"}

\* cancel_blocked_lock, for each of the blocked locks K
Canceled(K) ==
  LET Stay(e) == e.key \notin K
  IN  [list   |-> SelectSeq(list, Stay),
       cookie |-> [k \in Keys |->
                     IF cookie[k] = "hash" /\ k \in K THEN "none" ELSE cookie[k]]]
-----------------------------------------------------------------------------
(* Requests *)

\* state_lock, for a request that may block. One that may not is answered
\* STATE_LOCK_CONFLICT where this one is queued, and is otherwise the same.
\* A request that is answered without a change is not counted by the bound.
Lock(o, t, r) ==
  LET new == Entry(0, o, t, r, "granted")
      Same(e)  == /\ e.owner = o /\ e.type = t /\ Holds(e)
                  /\ End(e) >= End(new) /\ e.start <= new.start
      Stop(e)  == Conflict(e, new) \/ Same(e)
      Again(e) == e.blocked = "blocked" /\ SameLock(e, new)
      i == SelectInSeq(list, Stop)
  IN  /\ left > 0 /\ left' = left - 1 /\ UNCHANGED eof
      /\ SelectInSeq(list, Again) = 0
      /\ \/ i = 0 /\ \E m \in Merge(list, new) : Becomes(Added(m), cookie)
         \/ i # 0 /\ Same(list[i]) /\ GrantImmediate(list[i].key)
         \/ /\ i # 0 /\ Conflict(list[i], new)
            /\ list' = Append(list, Entry(left, o, t, r, "blocked"))
            /\ UNCHANGED cookie

\* Mutant: does not cancel blocked locks
UnlockGranted(o, r) ==
  /\ list # << >>
  /\ Becomes(Subtract(list, Entry(0, o, "W", r, "granted")), cookie)
  /\ UNCHANGED <<eof, left>>

\* Mutant: does not look for blocked locks to grant
UnlockQuiet(o, r) ==
  LET f == Entry(0, o, "W", r, "granted")
  IN  /\ list # << >>
      /\ list' = Subtract(Canceled(Pending(f)).list, f)
      /\ cookie' = Canceled(Pending(f)).cookie
      /\ UNCHANGED <<eof, left>>

\* state_unlock
Unlock(o, r) ==
  LET f == Entry(0, o, "W", r, "granted")
  IN  /\ list # << >> /\ UNCHANGED <<eof, left>>
      /\ \E c \in {Canceled(Pending(f))} : Becomes(Subtract(c.list, f), c.cookie)

\* Mutant: leaves the cookie of the canceled lock in the hash table
CancelKeep(k) ==
  LET Stay(e) == e.key # k
  IN  /\ \E i \in At(list, k) : list[i].blocked # "granted"
      /\ Becomes(SelectSeq(list, Stay), cookie)
      /\ UNCHANGED <<eof, left>>

\* state_cancel. k is the first entry of the lock that the client names.
Cancel(k) ==
  /\ \E i \in At(list, k) :
       /\ list[i].blocked # "granted"
       /\ \A j \in 1..(i - 1) :
            list[j].blocked = "granted" \/ ~SameLock(list[j], list[i])
  /\ \E c \in {Canceled({k})} : Becomes(c.list, c.cookie)
  /\ UNCHANGED <<eof, left>>

\* state_find_grant: a thread of GRANTED_RES takes the cookie out of the hash
\* table, as does the one whose GRANTED_MSG was not delivered.
Answer(k, res) == /\ cookie[k] = "hash"
                  /\ cookie' = [cookie EXCEPT ![k] = res]
                  /\ UNCHANGED <<eof, list, left>>

Granting(k) == \E i \in At(list, k) : list[i].blocked = "granting"

\* state_complete_grant
Complete(k) ==
  /\ cookie[k] = "ok"
  /\ IF Granting(k)
       THEN \E m \in Granted(list, k) :
              Becomes(InPlace(m), [cookie EXCEPT ![k] = "none"])
       ELSE /\ cookie' = [cookie EXCEPT ![k] = "none"]
            /\ UNCHANGED list
  /\ UNCHANGED <<eof, left>>

\* Mutant: does not look for blocked locks to grant
ReleaseQuiet(k) ==
  LET Stay(e) == ~(e.key = k /\ e.blocked = "granting")
  IN  /\ cookie[k] = "no"
      /\ list' = SelectSeq(list, Stay)
      /\ cookie' = [cookie EXCEPT ![k] = "none"]
      /\ UNCHANGED <<eof, left>>

\* state_release_grant
Release(k) ==
  LET Stay(e) == ~(e.key = k /\ e.blocked = "granting")
  IN  /\ cookie[k] = "no"
      /\ Becomes(SelectSeq(list, Stay), [cookie EXCEPT ![k] = "none"])
      /\ UNCHANGED <<eof, left>>

Whole == <<0, 0>>

Next ==
  \/ \E o \in Owners, t \in Types, r \in Ranges : Lock(o, t, r)
  \/ \E o \in Owners, r \in Cuts \cup {Whole} : Unlock(o, r)
  \/ \E k \in Keys : Cancel(k) \/ Complete(k) \/ Release(k)
  \/ \E k \in Keys, res \in {"ok", "no"} : Answer(k, res)

Spec == Init /\ [][Next]_vars

Waits(o) == \E i \in DOMAIN list : list[i].owner = o /\ list[i].blocked # "granted"
Owns(o)  == \E i \in DOMAIN list : list[i].owner = o /\ list[i].blocked = "granted"

\* A client that is not itself waiting gives up its locks in the end; an
\* answer to GRANTED_MSG comes or the call fails; and threads run.
Fairness ==
  /\ WF_vars(\E o \in Owners : ~Waits(o) /\ Owns(o) /\ Unlock(o, Whole))
  /\ WF_vars(\E k \in Keys, res \in {"ok", "no"} : Answer(k, res))
  /\ WF_vars(\E k \in Keys : Complete(k) \/ Release(k))

FairSpec == Spec /\ Fairness
-----------------------------------------------------------------------------
(* Properties *)

\* Two owners never have conflicting locks, given or being given, whatever
\* merging, splitting and granting did to the list and up to its last byte
\* (state_lock, merge_lock_entry, subtract_lock_from_list, try_to_grant_lock).
Exclusive == \A i, j \in DOMAIN list :
               Holds(list[i]) /\ Holds(list[j]) => ~Conflict(list[i], list[j])

\* No wakeup is lost: an entry waits behind a lock that is held, or behind
\* a conflicting entry that waits ahead of it (grant_blocked_locks is called
\* wherever a lock is given up).
WaitsForHolder ==
  \A i \in DOMAIN list : list[i].blocked = "blocked" =>
    \/ ~Free(list, list[i])
    \/ \E j \in 1..(i - 1) : list[j].blocked = "blocked" /\ Conflict(list[i], list[j])

\* A cookie that GRANTED_RES can still find belongs to an entry of the list
\* that is being granted, and such an entry has a cookie: so the answer to
\* GRANTED_MSG never finds an entry that is gone, and no grant is left
\* without the answer that ends it (cancel_blocked_lock, state_find_grant).
CookieMatches == \A k \in Keys :
  /\ cookie[k] = "hash" => Granting(k)
  /\ Granting(k) => cookie[k] # "none"

\* state_unlock leaves its owner nothing in the range it was given: no lock,
\* and no request that could become one.
UnlockClears ==
  [][\A o \in Owners, r \in Cuts \cup {Whole} :
       (\E i \in DOMAIN list' :
          list'[i].owner = o /\ Overlap(list'[i], Entry(0, o, "W", r, "granted")))
         => ~Unlock(o, r)]_vars

Held(o) == [b \in 0..MaxOff |->
  LET T == {list[i].type : i \in {j \in DOMAIN list :
              /\ list[j].owner = o /\ list[j].blocked = "granted"
              /\ list[j].start <= b /\ b <= End(list[j])}}
  IN  IF "W" \in T THEN "W" ELSE IF "R" \in T THEN "R" ELSE "none"]

Abstract == INSTANCE ByteLocks WITH Bytes <- 0..MaxOff,
  held <- [o \in Owners |-> IF eof THEN [b \in 0..MaxOff |-> "none"] ELSE Held(o)]

\* The list does to each byte what a lock or an unlock of its range should,
\* in one step, and to no other byte, as long as no lock runs to the end of
\* the file (merge_lock_entry, subtract_lock_from_list).
ImplementsByteLocks == Abstract!Spec

\* Every blocked lock is granted or its request withdrawn, so that time and
\* again nobody waits, unless a client waits that holds a lock, as when
\* clients deadlock. The bound on requests is what keeps later ones from
\* overtaking for ever (grant_blocked_locks, state_release_grant).
EveryWaiterServed ==
  []<>(\A o \in Owners : Waits(o) => \E p \in Owners : Waits(p) /\ Owns(p))

Covers(e, f) == e.start <= f.start /\ End(f) <= End(e)

\* "If new lock totally overlaps old lock, the new lock will replace the old
\* lock" (merge_lock_entry): no lock of an owner is kept below a later one of
\* the same owner, of another type, that covers it.
NewReplacesOld == \A i, j \in DOMAIN list :
  i < j /\ list[i].owner = list[j].owner /\ list[i].type # list[j].type
    /\ list[i].blocked = "granted" /\ list[j].blocked = "granted"
    => ~Covers(list[j], list[i])
=============================================================================
