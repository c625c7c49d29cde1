------------------------------ MODULE Backend ------------------------------
(***************************************************************************)
(* What the server's backends have in common.  A backend keeps one handle  *)
(* table per family of objects; its handlers look handles up in them, and  *)
(* mint, change or release objects.  Every error a handler returns ends    *)
(* the session, so after the first rejected call nothing more happens.     *)
(*                                                                         *)
(* Sizes, usages, offsets, codecs and the like are stored and never read   *)
(* again by the code, so they are left out; of an object's state there     *)
(* remain the handle it was created under, the memory bound to it and its  *)
(* saturating u32 counter (commands recorded, frames submitted).           *)
(***************************************************************************)
EXTENDS HandleTableOps

CONSTANTS
  COUNT_MAX,  \* u32::MAX, where the counters saturate
  MaxSlots,   \* bound: slots a family's table may allocate
  Stray       \* families whose handles a client may pass for any other family

ASSUME CountAssumption == COUNT_MAX \in Nat

\* A handle of any family, and what is kept of an object.
Handle ==
  [kind : Nat, generation : 0 .. GENERATION_MAX, slot : 0 .. SLOT_SPACE - 1]

ObjectState ==
  [owner : Handle \cup {None}, bound : Handle \cup {None}, count : 0 .. COUNT_MAX]

ASSUME NoneAssumption == None \notin ObjectState

VARIABLES
  tables,  \* one handle table per family
  issued,  \* history: every handle returned to the client
  open     \* FALSE once a handler has returned an error

backendVars == <<tables, issued, open>>

Object(owner) == [owner |-> owner, bound |-> None, count |-> 0]

\* saturating_add(1)
SatInc(n) == IF n < COUNT_MAX THEN n + 1 ELSE COUNT_MAX

Counted(o) == [o EXCEPT !.count = SatInc(@)]

\* The handles a client can put where one of family f is expected: those it
\* was given, alive or not, of the right family or strayed from another.
Presented(KIND, f) ==
  {h \in issued : h.kind \in {KIND[f]} \cup {KIND[g] : g \in Stray}}

\* A family whose table is full up to its bound mints no more.
Room(f) == InsertReuses(tables[f]) \/ tables[f].len < MaxSlots[f]

Mint(f, kind, owner) ==
  /\ open
  /\ Room(f)
  /\ tables' = [tables EXCEPT ![f] = Insert(@, kind, Object(owner))]
  /\ issued' = issued \cup {InsertHandle(tables[f], kind)}
  /\ UNCHANGED open

\* A child is minted only under a handle that resolves among its parents.
MintUnder(f, kind, parents, h) ==
  /\ Resolves(tables[parents], h)
  /\ Mint(f, kind, h)

\* A call that only checks its handles.
Check(f, h) ==
  /\ open
  /\ Resolves(tables[f], h)
  /\ UNCHANGED backendVars

Count(f, h) ==
  /\ open
  /\ Resolves(tables[f], h)
  /\ tables' = [tables EXCEPT ![f] = Set(@, h, Counted(Get(@, h)))]
  /\ UNCHANGED <<issued, open>>

Release(f, h) ==
  /\ open
  /\ Resolves(tables[f], h)
  /\ tables' = [tables EXCEPT ![f] = Remove(@, h)]
  /\ UNCHANGED <<issued, open>>

\* A body that does not decode, an opcode nobody handles or a handle that
\* does not resolve: the handler returns an error before it changes anything
\* and the session is closed.
Reject ==
  /\ open
  /\ open' = FALSE
  /\ UNCHANGED <<tables, issued>>

---------------------------------------------------------------------------
(***************************************************************************)
(* What the properties of the backends speak about.                        *)
(***************************************************************************)

\* The handles of a table's live objects.
LiveHandles(t) == {HandleAt(t, i) : i \in Occupied(t)}

LiveObjects(t) == {t.slots[i].value : i \in Occupied(t)}

\* The objects a step has taken out of a table, by handle.
Gone(f) == LiveHandles(tables[f]) \ LiveHandles(tables'[f])

\* The objects a step has taken out of any table.
TakenAway == UNION {Gone(f) : f \in DOMAIN tables}
===========================================================================
