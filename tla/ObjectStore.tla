---------------------------- MODULE ObjectStore ----------------------------
(***************************************************************************)
(* What a handle table promises to the backends that keep their objects in *)
(* one: an object is created under a name that was never used before, is   *)
(* reachable under that name and no other until it is destroyed, and the   *)
(* name stays dead for ever after.                                         *)
(***************************************************************************)
CONSTANTS Name, Value

VARIABLES
  store, \* the live objects: a function from their names to their values
  used   \* every name that was ever given out

Init ==
  /\ store = [n \in {} |-> n]
  /\ used = {}

Create(n, v) ==
  /\ n \notin used
  /\ used' = used \cup {n}
  /\ store' = [m \in DOMAIN store \cup {n} |-> IF m = n THEN v ELSE store[m]]

Write(n, v) ==
  /\ n \in DOMAIN store
  /\ store' = [store EXCEPT ![n] = v]
  /\ UNCHANGED used

Destroy(S) ==
  /\ S \subseteq DOMAIN store
  /\ store' = [n \in DOMAIN store \ S |-> store[n]]
  /\ UNCHANGED used

Next ==
  \/ \E n \in Name, v \in Value : Create(n, v) \/ Write(n, v)
  \/ \E S \in SUBSET Name : Destroy(S)

Spec == Init /\ [][Next]_<<store, used>>
===========================================================================
