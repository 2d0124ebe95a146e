----------------------------- MODULE PoolContract -----------------------------
(***************************************************************************)
(* What std.heap's Pool promises its clients (docs/stdlib.md, std.pool): a *)
(* bounded set of values under handles.  A handle is issued once; after it *)
(* is removed, or the pool is cleared or deinitialised, it stays invalid   *)
(* whatever is inserted later.                                             *)
(***************************************************************************)
EXTENDS Naturals, FiniteSets

CONSTANTS
  Handles,  \* every PoolHandle value
  Values    \* the values of the element type

NoValue  == "no value"

\* What a call returns: a handle or none, a value or null, whether it removed.
Issued(h)  == <<"handle", h>>
NoHandle   == <<"full">>
Found(v)   == <<"value", v>>
NotFound   == <<"null">>
Removed(b) == <<"removed", b>>

VARIABLES
  bound,   \* how many values fit
  live,    \* the value of every valid handle
  issued,  \* every handle insert() has returned so far
  reply    \* what the last call returned

vars == <<bound, live, issued, reply>>

Init ==
  /\ bound \in Nat
  /\ live = [h \in {} |-> NoValue]
  /\ issued = {}
  /\ reply = NoHandle

\* insert() never returns a handle it has returned before.
Insert(v) ==
  \/ /\ Cardinality(DOMAIN live) < bound
     /\ \E h \in Handles \ issued :
          /\ live' = [k \in DOMAIN live \cup {h} |-> IF k = h THEN v ELSE live[k]]
          /\ issued' = issued \cup {h}
          /\ reply' = Issued(h)
     /\ UNCHANGED bound
  \/ /\ Cardinality(DOMAIN live) = bound
     /\ reply' = NoHandle
     /\ UNCHANGED <<bound, live, issued>>

Get(h) ==
  /\ reply' = IF h \in DOMAIN live THEN Found(live[h]) ELSE NotFound
  /\ UNCHANGED <<bound, live, issued>>

\* A write through the pointer get() returned.
Write(h, v) ==
  /\ h \in DOMAIN live
  /\ live' = [live EXCEPT ![h] = v]
  /\ UNCHANGED <<bound, issued, reply>>

Remove(h) ==
  /\ reply' = Removed(h \in DOMAIN live)
  /\ live' = [k \in DOMAIN live \ {h} |-> live[k]]
  /\ UNCHANGED <<bound, issued>>

Clear ==
  /\ live' = [k \in {} |-> NoValue]
  /\ UNCHANGED <<bound, issued, reply>>

Deinit ==
  /\ bound' = 0
  /\ live' = [k \in {} |-> NoValue]
  /\ UNCHANGED <<issued, reply>>

Next ==
  \/ \E v \in Values : Insert(v)
  \/ \E h \in Handles : Get(h) \/ Remove(h) \/ \E v \in Values : Write(h, v)
  \/ Clear \/ Deinit

Spec == Init /\ [][Next]_vars
=============================================================================
