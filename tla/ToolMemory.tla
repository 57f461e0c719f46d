----------------------------- MODULE ToolMemory -----------------------------
(***************************************************************************)
(* What the tool call store promises its callers: it knows the calls that  *)
(* were put in it until it forgets them, which it may do at any time (a    *)
(* call expires or is evicted, the program is restarted), and never knows  *)
(* a call nobody put.                                                      *)
(*                                                                         *)
(* ToolCallStore implements this (SoftTools_proofs), and Conversation      *)
(* is written over it.                                                     *)
(***************************************************************************)
EXTENDS FiniteSets

CONSTANT ID

VARIABLES
  known,  \* the calls the store can name
  puts    \* changes with every call that is put, and with nothing else

Init == known = {}

\* Calls are put one by one: those of the same turn may be evicted, the last is not.
Remember(ids) ==
  /\ \E id \in ids : \E kept \in SUBSET (known \union ids) : known' = kept \union {id}
  /\ puts' # puts

Forget ==
  /\ known' \in SUBSET known
  /\ UNCHANGED puts

Next == Forget \/ \E id \in ID : Remember({id})

Spec == Init /\ [][Next]_<<known, puts>>

=============================================================================
