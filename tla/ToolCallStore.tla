---------------------------- MODULE ToolCallStore ----------------------------
(***************************************************************************)
(* toolcall.Manager (internal/toolcall/store.go): the calls handed to      *)
(* clients, kept so that the result a client sends back later can be put   *)
(* together with its call.  Requests put and get calls concurrently while  *)
(* the cleanup goroutine drops the ones that are too old; every method     *)
(* holds the lock throughout, so each is one action.                       *)
(*                                                                         *)
(* The map and the list are separate state, as in the code: a list element *)
(* is its call's ID here, and the list is the sequence of its elements     *)
(* from the least recently used on.  Time is the age of each call, which   *)
(* stops to matter beyond the TTL.                                         *)
(*                                                                         *)
(* Definitions ending in _Bug are the plausible slips the properties are   *)
(* tested against; nothing here uses them.                                 *)
(***************************************************************************)
EXTENDS Integers, FiniteSets, SequencesExt

CONSTANTS
  ID,       \* tool call IDs
  MaxSize,  \* calls kept
  TTL       \* ticks a call is kept

ASSUME StoreAssumption == MaxSize \in Nat \ {0} /\ TTL \in Nat

VARIABLES
  cache,   \* keys of the map
  order,   \* the list
  age,     \* ticks since the last Put of an ID
  put,     \* IDs put so far
  puts,    \* number of Puts so far, modulo 2
  since    \* other IDs put or found since the last time an ID was

entries == <<cache, order, age>>
history == <<put, puts, since>>
vars    == <<entries, history>>

Expired(id) == age[id] > TTL

\* The history of a use of id.
Touched(id) ==
  [other \in ID |-> IF other = id THEN {} ELSE since[other] \union {id}]

-----------------------------------------------------------------------------

Init ==
  /\ cache = {} /\ order = <<>>
  /\ age = [id \in ID |-> 0]
  /\ put = {} /\ puts = 0 /\ since = [id \in ID |-> {}]

\* CreatedAt is now.
Created(id) == [age EXCEPT ![id] = 0]

\* The entries the loop of Put evicts, from the front of the list, to make room.
Evicted(ids, list) ==
  LET n == Cardinality(ids) - MaxSize + 1
  IN  IF n <= 0 THEN <<>> ELSE SubSeq(list, 1, n)

\* The list keeps the element of the entry that is replaced.
Put_Bug(id) ==
  LET ids == cache \ {id}
      out == Evicted(ids, order)
  IN
  /\ cache' = (ids \ Range(out)) \union {id}
  /\ order' = Append(SubSeq(order, Len(out) + 1, Len(order)), id)
  /\ age' = Created(id)
  /\ put' = put \union {id} /\ puts' = 1 - puts
  /\ since' = Touched(id)

Put(id) ==
  LET ids  == cache \ {id}
      list == IF id \in cache THEN RemoveFirst(order, id) ELSE order
      out  == Evicted(ids, list)
  IN
  /\ cache' = (ids \ Range(out)) \union {id}
  /\ order' = Append(SubSeq(list, Len(out) + 1, Len(list)), id)
  /\ age' = Created(id)
  /\ put' = put \union {id} /\ puts' = 1 - puts
  /\ since' = Touched(id)

GetMissing(id) ==
  /\ id \notin cache
  /\ UNCHANGED vars

\* The time of a call is set before it is looked at.
GetExpired_Bug(id) ==
  /\ id \in cache /\ Expired(id)
  /\ age' = Created(id)
  /\ UNCHANGED <<cache, order, history>>

GetExpired(id) ==
  /\ id \in cache /\ Expired(id)
  /\ cache' = cache \ {id}
  /\ order' = RemoveFirst(order, id)
  /\ UNCHANGED <<age, history>>

\* A call that is found keeps its place.
GetFound_Bug(id) ==
  /\ id \in cache /\ ~Expired(id)
  /\ since' = Touched(id)
  /\ UNCHANGED <<entries, put, puts>>

GetFound(id) ==
  /\ id \in cache /\ ~Expired(id)
  /\ order' = Append(RemoveFirst(order, id), id)
  /\ since' = Touched(id)
  /\ UNCHANGED <<cache, age, put, puts>>

\* The walk ends at the first call that is not expired.
CleanupExpired_Bug ==
  LET fresh == {i \in DOMAIN order : ~Expired(order[i])}
      keep  == IF fresh = {} THEN <<>>
               ELSE SubSeq(order, CHOOSE i \in fresh : \A j \in fresh : i <= j, Len(order))
  IN
  /\ order' = keep
  /\ cache' = Range(keep)
  /\ UNCHANGED <<age, history>>

\* What the walk of cleanupExpired has left of the first elements of the list.
Walked ==
  LET keep[n \in 0..Len(order)] ==
        IF n = 0 THEN <<>>
        ELSE IF Expired(order[n]) THEN keep[n - 1]
        ELSE Append(keep[n - 1], order[n])
  IN  keep

CleanupExpired ==
  /\ cache' = cache \ {id \in Range(order) : Expired(id)}
  /\ order' = Walked[Len(order)]
  /\ UNCHANGED <<age, history>>

\* Time passes.
Tick ==
  /\ age' = [id \in ID |-> IF Expired(id) THEN age[id] ELSE age[id] + 1]
  /\ UNCHANGED <<cache, order, history>>

Next ==
  \/ \E id \in ID : Put(id) \/ GetMissing(id) \/ GetExpired(id) \/ GetFound(id)
  \/ CleanupExpired \/ Tick

\* The cleanup goroutine never stops.
Spec == Init /\ [][Next]_vars /\ WF_vars(CleanupExpired)

-----------------------------------------------------------------------------
(* Properties *)

TypeOK ==
  /\ cache \subseteq ID
  /\ order \in Seq(ID)
  /\ age \in [ID -> 0..(TTL + 1)]
  /\ put \subseteq ID /\ puts \in 0..1 /\ since \in [ID -> SUBSET ID]

\* The map and the list hold the same calls, each once, and never more than MaxSize,
\* whatever requests and the cleanup do: neither keeps a call the other has dropped.
Coherent ==
  /\ TypeOK
  /\ Range(order) = cache
  /\ \A i, j \in DOMAIN order : order[i] = order[j] => i = j
  /\ Len(order) <= MaxSize

\* A call is there when its result comes back: it is kept for its TTL unless MaxSize
\* other calls were put or found since it was last.
KeptWhileRecent ==
  \A id \in put :
    ~Expired(id) /\ Cardinality(since[id]) < MaxSize => id \in cache

\* A call that has expired is dropped, without any request for it.
ExpiredDropped == \A id \in ID : (id \in cache /\ Expired(id)) ~> ~(id \in cache /\ Expired(id))

\* The calls the store can still name.
Memory == INSTANCE ToolMemory WITH known <- {id \in cache : ~Expired(id)}

\* Seen from the handlers the store is a memory of the calls they put: a call comes to be
\* known only by its Put, and once it is expired or evicted nothing but another Put brings
\* it back, neither a Get that comes late nor the cleanup.
ImplementsMemory == Memory!Spec

=============================================================================
