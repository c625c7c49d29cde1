--------------------------- MODULE RegistryProofs ---------------------------
(***************************************************************************)
(* Proofs about the registry and the load generator.                       *)
(***************************************************************************)
EXTENDS LoadTest, FiniteSetTheorems, TLAPS

(***************************************************************************)
(* What folds over a finite set compute.  A fold is a recursive function   *)
(* on the subsets of the set, which takes their elements away one by one.  *)
(***************************************************************************)

\* A set of subsets that holds every subset all of whose strict subsets it
\* holds, holds them all.
LEMMA SubsetInduction ==
  ASSUME NEW S, IsFiniteSet(S), NEW G,
         \A s \in SUBSET S : (\A t \in SUBSET S : t \subseteq s /\ t # s => t \in G) => s \in G
  PROVE  \A s \in SUBSET S : s \in G
<1> DEFINE Bad == {s \in SUBSET S : s \notin G}
<1> SUFFICES ASSUME Bad # {} PROVE FALSE
  OBVIOUS
<1>1. IsWellFoundedOn(StrictSubsetOrdering(S), SUBSET S)
  <2>1. FiniteSubsetsOf(S) = SUBSET S
    BY FS_FiniteSubsetsOfFinite
  <2>2. IsWellFoundedOn(StrictSubsetOrdering(S), FiniteSubsetsOf(S))
    BY FS_StrictSubsetOrderingWellFounded
  <2> QED
    BY <2>1, <2>2
<1>2. \E s \in Bad : \A t \in Bad : <<t, s>> \notin StrictSubsetOrdering(S)
  <2> DEFINE R == StrictSubsetOrdering(S)
             P == SUBSET S
  <2>1. IsWellFoundedOn(R, P) /\ Bad \subseteq P /\ Bad # {}
    BY <1>1
  <2> HIDE DEF R, P, Bad
  <2>2. \E s \in Bad : \A t \in Bad : ~(<<t, s>> \in R)
    BY <2>1, WFMin
  <2> QED
    BY <2>2 DEF R
<1>3. PICK s \in Bad : \A t \in Bad : <<t, s>> \notin StrictSubsetOrdering(S)
  BY <1>2
<1>4. \A t \in SUBSET S : t \subseteq s /\ t # s => t \in G
  BY <1>3 DEF StrictSubsetOrdering
<1> QED
  BY <1>3, <1>4

Chosen(s) == CHOOSE x \in s : TRUE

Step(F, base, g, s) == IF s = {} THEN base ELSE F[<<s, g[s \ {Chosen(s)}]>>]

\* g folds the subsets of S, where F combines a subset's chosen element with
\* the result for the others.
IsFold(F, base, S, g) == g = [s \in SUBSET S |-> Step(F, base, g, s)]

LEMMA ChosenIn ==
  ASSUME NEW s, s # {}
  PROVE  Chosen(s) \in s
  BY DEF Chosen

LEMMA FoldAt ==
  ASSUME NEW F, NEW base, NEW S, NEW g, IsFold(F, base, S, g)
  PROVE  /\ g[{}] = base
         /\ \A s \in SUBSET S : s # {} => g[s] = F[<<s, g[s \ {Chosen(s)}]>>]
<1>1. \A s \in SUBSET S : g[s] = Step(F, base, g, s)
  BY DEF IsFold
<1>2. g[{}] = Step(F, base, g, {})
  BY <1>1
<1> QED
  BY <1>1, <1>2 DEF Step

Agree(S, U, W, g, h) ==
  \A v \in SUBSET S : v \subseteq U /\ v \subseteq W => g[v] = h[v]

LEMMA FoldUnique ==
  ASSUME NEW S, IsFiniteSet(S), NEW F, NEW base, NEW U \in SUBSET S, NEW W \in SUBSET S,
         NEW g, IsFold(F, base, U, g), NEW h, IsFold(F, base, W, h)
  PROVE  Agree(S, U, W, g, h)
<1>0. /\ g[{}] = base /\ \A s \in SUBSET U : s # {} => g[s] = F[<<s, g[s \ {Chosen(s)}]>>]
      /\ h[{}] = base /\ \A s \in SUBSET W : s # {} => h[s] = F[<<s, h[s \ {Chosen(s)}]>>]
  BY FoldAt
<1> DEFINE G == {v \in SUBSET S : v \subseteq U /\ v \subseteq W => g[v] = h[v]}
<1>1. ASSUME NEW s \in SUBSET S, \A t \in SUBSET S : t \subseteq s /\ t # s => t \in G
      PROVE  s \in G
  <2> SUFFICES ASSUME s \subseteq U, s \subseteq W PROVE g[s] = h[s]
    OBVIOUS
  <2>1. CASE s = {}
    BY <1>0, <2>1
  <2>2. CASE s # {}
    <3> DEFINE t == s \ {Chosen(s)}
    <3>1. t \in SUBSET S /\ t \subseteq s /\ t # s /\ t \subseteq U /\ t \subseteq W
      BY <2>2, ChosenIn
    <3>2. g[t] = h[t]
      BY <1>1, <3>1
    <3>3. g[s] = F[<<s, g[t]>>] /\ h[s] = F[<<s, h[t]>>]
      BY <1>0, <2>2
    <3> QED
      BY <3>2, <3>3
  <2> QED
    BY <2>1, <2>2
<1> HIDE DEF G
<1>2. \A s \in SUBSET S : s \in G
  BY <1>1, SubsetInduction
<1> QED
  BY <1>2 DEF G, Agree

LEMMA FoldExists ==
  ASSUME NEW S, IsFiniteSet(S), NEW F, NEW base
  PROVE  \E g : IsFold(F, base, S, g)
<1> DEFINE G == {s \in SUBSET S : \E g : IsFold(F, base, s, g)}
<1>1. ASSUME NEW s \in SUBSET S, \A t \in SUBSET S : t \subseteq s /\ t # s => t \in G
      PROVE  s \in G
  <2> DEFINE w(t) == CHOOSE g : IsFold(F, base, t, g)
             Less(t) == t \ {Chosen(t)}
             h == [t \in SUBSET s |-> IF t = {} THEN base ELSE F[<<t, w(Less(t))[Less(t)]>>]]
  <2>1. \A t \in SUBSET S : t \subseteq s /\ t # s => IsFold(F, base, t, w(t))
    BY <1>1
  <2>2. \A t \in SUBSET s : t # {} =>
          Less(t) \in SUBSET S /\ Less(t) \subseteq s /\ Less(t) # s /\ Less(t) \subseteq t
    BY ChosenIn
  <2> HIDE DEF w
  <2>3. ASSUME NEW u \in SUBSET s, u # s
        PROVE  h[u] = w(u)[u]
    <3>1. u \in SUBSET S /\ IsFold(F, base, u, w(u))
      BY <2>1, <2>3
    <3> DEFINE p == w(u)
    <3>4. p[{}] = base /\ \A t \in SUBSET u : t # {} => p[t] = F[<<t, p[t \ {Chosen(t)}]>>]
      <4>1. IsFold(F, base, u, p)
        BY <3>1
      <4> HIDE DEF p
      <4> QED
        BY <4>1, FoldAt
    <3>2. CASE u = {}
      BY <3>2, <3>4
    <3>3. CASE u # {}
      <4> DEFINE v == Less(u)
      <4>1. v \in SUBSET S /\ v \subseteq u /\ v \subseteq s /\ v # s
        BY <2>2, <3>3
      <4>2. w(u)[u] = F[<<u, w(u)[v]>>]
        BY <3>3, <3>4
      <4>3. IsFold(F, base, v, w(v))
        BY <2>1, <4>1
      <4>4. w(u)[v] = w(v)[v]
        <5> HIDE DEF v
        <5> DEFINE q == w(v)
        <5>1. /\ u \in SUBSET S /\ v \in SUBSET S /\ v \subseteq u
              /\ IsFold(F, base, u, p) /\ IsFold(F, base, v, q)
          BY <3>1, <4>1, <4>3
        <5> HIDE DEF p, q
        <5>2. Agree(S, u, v, p, q)
          BY <5>1, FoldUnique
        <5>3. p[v] = q[v]
          BY <5>1, <5>2 DEF Agree
        <5> QED
          BY <5>3 DEF p, q
      <4>5. h[u] = F[<<u, w(v)[v]>>]
        BY <3>3
      <4> QED
        BY <4>2, <4>4, <4>5
    <3> QED
      BY <3>2, <3>3
  <2>4. ASSUME NEW t \in SUBSET s
        PROVE  h[t] = Step(F, base, h, t)
    <3>1. CASE t = {}
      BY <3>1 DEF Step
    <3>2. CASE t # {}
      <4>1. h[t] = F[<<t, w(Less(t))[Less(t)]>>]
        BY <3>2
      <4>2. h[Less(t)] = w(Less(t))[Less(t)]
        BY <2>2, <2>3, <3>2
      <4> QED
        BY <3>2, <4>1, <4>2 DEF Step
    <3> QED
      BY <3>1, <3>2
  <2>5. h = [t \in SUBSET s |-> h[t]]
    OBVIOUS
  <2> HIDE DEF h
  <2>6. IsFold(F, base, s, h)
    BY <2>4, <2>5 DEF IsFold
  <2> QED
    BY <2>6
<1> HIDE DEF G
<1>2. \A s \in SUBSET S : s \in G
  BY <1>1, SubsetInduction
<1>3. S \in G
  BY <1>2
<1> QED
  BY <1>3 DEF G

\* The values of a fold.
LEMMA FoldTyped ==
  ASSUME NEW S, IsFiniteSet(S), NEW F, NEW V, NEW base \in V, NEW g, IsFold(F, base, S, g),
         \A s \in SUBSET S, v \in V : s # {} => F[<<s, v>>] \in V
  PROVE  \A s \in SUBSET S : g[s] \in V
<1> DEFINE G == {s \in SUBSET S : g[s] \in V}
<1>0. g[{}] = base /\ \A s \in SUBSET S : s # {} => g[s] = F[<<s, g[s \ {Chosen(s)}]>>]
  BY FoldAt
<1>1. ASSUME NEW s \in SUBSET S, \A t \in SUBSET S : t \subseteq s /\ t # s => t \in G
      PROVE  s \in G
  <2>1. CASE s = {}
    BY <1>0, <2>1
  <2>2. CASE s # {}
    <3>1. g[s \ {Chosen(s)}] \in V
      BY <1>1, <2>2, ChosenIn
    <3> QED
      BY <1>0, <2>2, <3>1
  <2> QED
    BY <2>1, <2>2
<1> HIDE DEF G
<1>2. \A s \in SUBSET S : s \in G
  BY <1>1, SubsetInduction
<1> QED
  BY <1>2 DEF G

---------------------------------------------------------------------------
\* A sum of naturals takes the elements of the set away one by one.
IsSum(f, S, g) ==
  /\ SumFunctionOnSet(f, S) = g[S]
  /\ g[{}] = 0
  /\ \A s \in SUBSET S : g[s] \in Nat
  /\ \A s \in SUBSET S : s # {} => g[s] = f[Chosen(s)] + g[s \ {Chosen(s)}]

LEMMA SumIsFold ==
  ASSUME NEW S, IsFiniteSet(S), NEW f, \A x \in S : f[x] \in Nat
  PROVE  \E g : IsSum(f, S, g)
<1> DEFINE F == [p \in (SUBSET S) \X Nat |-> f[Chosen(p[1])] + p[2]]
           Sums(g) == g = [s \in SUBSET S |->
                             IF s = {} THEN 0 ELSE f[Chosen(s)] + g[s \ {Chosen(s)}]]
<1>1. ASSUME NEW s \in SUBSET S, NEW v \in Nat
      PROVE  F[<<s, v>>] = f[Chosen(s)] + v
  OBVIOUS
<1>2. \A s \in SUBSET S, v \in Nat : s # {} => f[Chosen(s)] + v \in Nat
  BY ChosenIn
<1> HIDE DEF F
<1>3. \A s \in SUBSET S, v \in Nat : s # {} => F[<<s, v>>] \in Nat
  BY <1>1, <1>2
<1>4. PICK h : IsFold(F, 0, S, h)
  BY FoldExists
<1>5. \A s \in SUBSET S : h[s] \in Nat
  <2>1. 0 \in Nat
    OBVIOUS
  <2> QED
    BY <1>3, <1>4, <2>1, FoldTyped
<1>6. h[{}] = 0 /\ \A s \in SUBSET S : s # {} => h[s] = F[<<s, h[s \ {Chosen(s)}]>>]
  BY <1>4, FoldAt
<1>7. \A s \in SUBSET S : s # {} => h[s] = f[Chosen(s)] + h[s \ {Chosen(s)}]
  BY <1>1, <1>5, <1>6
<1>8. h = [s \in SUBSET S |-> h[s]]
  <2>1. h = [s \in SUBSET S |-> Step(F, 0, h, s)]
    BY <1>4 DEF IsFold
  <2> QED
    BY <2>1
<1>9. Sums(h)
  BY <1>6, <1>7, <1>8
<1>10. SumFunctionOnSet(f, S) = (CHOOSE g : Sums(g))[S]
  BY DEF SumFunctionOnSet, FoldFunctionOnSet, MapThenFoldSet, Chosen
<1> DEFINE k == CHOOSE g : Sums(g)
<1>11. Sums(k)
  BY <1>9
<1> HIDE DEF k
<1>12. k[{}] = 0 /\ \A s \in SUBSET S : s # {} => k[s] = f[Chosen(s)] + k[s \ {Chosen(s)}]
  BY <1>11
<1> DEFINE G == {s \in SUBSET S : k[s] \in Nat}
<1>13. ASSUME NEW s \in SUBSET S, \A t \in SUBSET S : t \subseteq s /\ t # s => t \in G
       PROVE  s \in G
  <2>1. CASE s = {}
    BY <1>12, <2>1
  <2>2. CASE s # {}
    <3>1. Chosen(s) \in S /\ k[s \ {Chosen(s)}] \in Nat
      BY <1>13, <2>2, ChosenIn
    <3> QED
      BY <1>12, <2>2, <3>1
  <2> QED
    BY <2>1, <2>2
<1> HIDE DEF G
<1>14. \A s \in SUBSET S : s \in G
  BY <1>13, SubsetInduction
<1>15. \A s \in SUBSET S : k[s] \in Nat
  BY <1>14 DEF G
<1>16. SumFunctionOnSet(f, S) = k[S]
  BY <1>10 DEF k
<1> QED
  BY <1>12, <1>15, <1>16 DEF IsSum

LEMMA SumOfZeros ==
  ASSUME NEW S, IsFiniteSet(S), NEW f, \A x \in S : f[x] = 0
  PROVE  SumFunctionOnSet(f, S) = 0
<1>1. \A x \in S : f[x] \in Nat
  OBVIOUS
<1>2. PICK g : IsSum(f, S, g)
  BY <1>1, SumIsFold
<1> DEFINE G == {s \in SUBSET S : g[s] = 0}
<1>3. ASSUME NEW s \in SUBSET S, \A t \in SUBSET S : t \subseteq s /\ t # s => t \in G
      PROVE  s \in G
  <2>1. CASE s = {}
    BY <1>2, <2>1 DEF IsSum
  <2>2. CASE s # {}
    <3>1. f[Chosen(s)] = 0 /\ g[s \ {Chosen(s)}] = 0
      BY <1>3, <2>2, ChosenIn
    <3> QED
      BY <1>2, <2>2, <3>1 DEF IsSum
  <2> QED
    BY <2>1, <2>2
<1> HIDE DEF G
<1>4. \A s \in SUBSET S : s \in G
  BY <1>3, SubsetInduction
<1> QED
  BY <1>2, <1>4 DEF G, IsSum

\* One more at one place is one more in the sum over the sets it belongs to.
LEMMA SumBumped ==
  ASSUME NEW S, IsFiniteSet(S), NEW x, NEW f, \A y \in S : f[y] \in Nat,
         NEW h, \A y \in S : h[y] = IF y = x THEN f[y] + 1 ELSE f[y]
  PROVE  /\ SumFunctionOnSet(f, S) \in Nat
         /\ SumFunctionOnSet(h, S) = SumFunctionOnSet(f, S) + (IF x \in S THEN 1 ELSE 0)
<1>1. \A y \in S : h[y] \in Nat
  OBVIOUS
<1>2. PICK g : IsSum(f, S, g)
  BY SumIsFold
<1>3. PICK k : IsSum(h, S, k)
  BY <1>1, SumIsFold
<1> DEFINE More(s) == IF x \in s THEN 1 ELSE 0
           G == {s \in SUBSET S : k[s] = g[s] + More(s)}
<1>4. ASSUME NEW s \in SUBSET S, \A t \in SUBSET S : t \subseteq s /\ t # s => t \in G
      PROVE  s \in G
  <2>1. CASE s = {}
    BY <1>2, <1>3, <2>1 DEF IsSum
  <2>2. CASE s # {}
    <3> DEFINE c == Chosen(s)
               t == s \ {c}
    <3>1. c \in s /\ c \in S /\ t \in SUBSET S /\ t \subseteq s /\ t # s
      BY <2>2, ChosenIn
    <3>2. k[t] = g[t] + More(t) /\ g[t] \in Nat /\ f[c] \in Nat
      BY <1>2, <1>4, <3>1 DEF IsSum
    <3>3. k[s] = h[c] + k[t] /\ g[s] = f[c] + g[t]
      BY <1>2, <1>3, <2>2 DEF IsSum
    <3>4. h[c] = IF c = x THEN f[c] + 1 ELSE f[c]
      BY <3>1
    <3>5. More(s) = IF c = x THEN 1 ELSE More(t)
      BY <3>1
    <3>6. c = x => More(t) = 0
      OBVIOUS
    <3>7. More(t) \in Nat
      OBVIOUS
    <3> HIDE DEF c, t, More
    <3>8. k[s] = g[s] + More(s)
      BY <3>2, <3>3, <3>4, <3>5, <3>6, <3>7
    <3> QED
      BY <3>8
  <2> QED
    BY <2>1, <2>2
<1> HIDE DEF G
<1>5. \A s \in SUBSET S : s \in G
  BY <1>4, SubsetInduction
<1>6. k[S] = g[S] + More(S)
  BY <1>5 DEF G
<1> QED
  BY <1>2, <1>3, <1>6 DEF IsSum

---------------------------------------------------------------------------
(***************************************************************************)
(* The statistics.                                                         *)
(***************************************************************************)
Api == {"core", "vulkan", "opengl"}

Stats == [calls : Nat, bytes_out : Nat, bytes_in : Nat]

\* What was recorded of an API since the last reset: whole, cut by a panic,
\* and under way.
Done(a) == Entry(done, a, CallStats)
Torn(a) == Entry(torn, a, 0)
Held(a) == IF lockedBy # None /\ lockedBy.api = a THEN 1 ELSE 0

Row(d, n) ==
  [calls |-> Capped(d.calls + n), bytes_out |-> Capped(d.bytes_out),
   bytes_in |-> Capped(d.bytes_in)]

\* The statistics are what was recorded, a record under way counted without
\* its bytes.
Ledger ==
  /\ DOMAIN done \subseteq Api /\ DOMAIN torn \subseteq Api
  /\ \A a \in Api : Done(a) \in Stats /\ Torn(a) \in Nat
  /\ lockedBy = None \/ lockedBy \in Record
  /\ inner = [a \in DOMAIN done \cup DOMAIN torn \cup {b \in Api : Held(b) = 1} |->
                Row(Done(a), Torn(a) + Held(a))]

LEMMA CappedFacts ==
  ASSUME NEW x \in Nat, NEW y \in Nat
  PROVE  Plus(Capped(x), y) = Capped(x + y) /\ Capped(x) \in Nat
  BY RegistryAssumption DEF Plus, Capped

\* A row gets the bytes of the record that it counted before.
LEMMA RowFinished ==
  ASSUME NEW d \in Stats, NEW n \in Nat, NEW out \in Nat, NEW in \in Nat,
         NEW x, x = Row(d, n + 1)
  PROVE  AddBytes(x, out, in)
           = Row([calls |-> d.calls + 1, bytes_out |-> d.bytes_out + out,
                  bytes_in |-> d.bytes_in + in], n)
<1> DEFINE c == d.calls
           b == d.bytes_out
           a == d.bytes_in
<1>1. c \in Nat /\ b \in Nat /\ a \in Nat
  BY DEF Stats
<1>2. x = [calls |-> Capped(c + (n + 1)), bytes_out |-> Capped(b), bytes_in |-> Capped(a)]
  BY DEF Row
<1>3. Row([calls |-> c + 1, bytes_out |-> b + out, bytes_in |-> a + in], n)
        = [calls |-> Capped((c + 1) + n), bytes_out |-> Capped(b + out), bytes_in |-> Capped(a + in)]
  BY DEF Row
<1> HIDE DEF a, b, c
<1>4. Plus(Capped(b), out) = Capped(b + out) /\ Plus(Capped(a), in) = Capped(a + in)
  BY <1>1, CappedFacts
<1>5. c + (n + 1) = (c + 1) + n
  BY <1>1
<1>6. AddBytes(x, out, in)
        = [calls |-> Capped(c + (n + 1)), bytes_out |-> Plus(Capped(b), out),
           bytes_in |-> Plus(Capped(a), in)]
  BY <1>2 DEF AddBytes
<1>7. AddBytes(x, out, in)
        = Row([calls |-> c + 1, bytes_out |-> b + out, bytes_in |-> a + in], n)
  BY <1>3, <1>4, <1>5, <1>6
<1> QED
  BY <1>7 DEF a, b, c

LEMMA StartKeeps ==
  ASSUME Ledger, NEW t, NEW api, NEW out, NEW in, StartRecord(t, api, out, in),
         [thread |-> t, api |-> api, bytes_out |-> out, bytes_in |-> in] \in Record
  PROVE  /\ Ledger' /\ UNCHANGED <<done, torn>> /\ lockedBy = None
         /\ lockedBy' = [thread |-> t, api |-> api, bytes_out |-> out, bytes_in |-> in]
         /\ lockedBy' # None
<1> DEFINE r == [thread |-> t, api |-> api, bytes_out |-> out, bytes_in |-> in]
           s == Entry(inner, api, CallStats)
           v == [s EXCEPT !.calls = Plus(@, 1)]
<1>1. /\ lockedBy = None /\ lockedBy' = r /\ UNCHANGED <<done, torn>>
      /\ inner' = Put(inner, api, v)
  BY DEF StartRecord, Unlocked
<1>2. r.api = api /\ r # None /\ api \in Api /\ r \in Record
  BY NoneAssumption DEF Record, Api
<1>3. /\ \A a : Held(a) = 0
      /\ \A a : Held(a)' = IF a = api THEN 1 ELSE 0
      /\ \A a : Done(a)' = Done(a) /\ Torn(a)' = Torn(a)
  <2> HIDE DEF r
  <2> QED
    BY <1>1, <1>2 DEF Held, Done, Torn
<1>4. /\ inner = [a \in DOMAIN done \cup DOMAIN torn |-> Row(Done(a), Torn(a))]
      /\ Done(api) \in Stats /\ Torn(api) \in Nat
      /\ \A a \in Api : Done(a) \in Stats /\ Torn(a) \in Nat
      /\ DOMAIN done \subseteq Api /\ DOMAIN torn \subseteq Api
  BY <1>2, <1>3 DEF Ledger
<1>5. v = Row(Done(api), Torn(api) + 1)
  <2>1. s = Row(Done(api), Torn(api))
    <3>1. CASE api \in DOMAIN inner
      BY <1>4, <3>1 DEF Entry
    <3>2. CASE api \notin DOMAIN inner
      <4>1. s = CallStats /\ Done(api) = CallStats /\ Torn(api) = 0
        BY <1>4, <3>2 DEF Entry, Done, Torn
      <4>2. Capped(0) = 0
        BY RegistryAssumption DEF Capped
      <4> QED
        BY <4>1, <4>2 DEF Row, CallStats
    <3> QED
      BY <3>1, <3>2
  <2>2. Plus(Capped(Done(api).calls + Torn(api)), 1) = Capped(Done(api).calls + (Torn(api) + 1))
    <3>1. Done(api).calls \in Nat
      BY <1>4 DEF Stats
    <3> DEFINE x == Done(api).calls + Torn(api)
    <3>2. x \in Nat /\ Done(api).calls + (Torn(api) + 1) = x + 1
      BY <1>4, <3>1
    <3> HIDE DEF x
    <3>3. Plus(Capped(x), 1) = Capped(x + 1)
      BY <3>2, CappedFacts
    <3> QED
      BY <3>2, <3>3 DEF x
  <2> QED
    BY <2>1, <2>2 DEF Row
<1> HIDE DEF v, s
<1>6. inner' = [a \in DOMAIN inner \cup {api} |-> IF a = api THEN v ELSE inner[a]]
  BY <1>1 DEF Put
<1>7. {b \in Api : Held(b)' = 1} = {api}
  BY <1>2, <1>3
<1>8. inner' = [a \in DOMAIN done' \cup DOMAIN torn' \cup {b \in Api : Held(b)' = 1} |->
                  Row(Done(a)', Torn(a)' + Held(a)')]
  <2>1. \A a \in (DOMAIN done \cup DOMAIN torn) \ {api} : Torn(a) + 0 = Torn(a)
    BY <1>4
  <2> QED
    BY <1>1, <1>3, <1>4, <1>5, <1>6, <1>7, <2>1
<1> QED
  BY <1>1, <1>2, <1>3, <1>4, <1>8 DEF Ledger

LEMMA FinishKeeps ==
  ASSUME Ledger, NEW t, FinishRecord(t)
  PROVE  LET r == lockedBy
         IN  /\ Ledger' /\ lockedBy' = None
             /\ r \in Record /\ r.thread = t
             /\ UNCHANGED torn
             /\ DOMAIN done' = DOMAIN done \cup {r.api}
             /\ \A a \in Api : Done(a)' =
                  IF a = r.api
                  THEN [calls |-> Done(a).calls + 1, bytes_out |-> Done(a).bytes_out + r.bytes_out,
                        bytes_in |-> Done(a).bytes_in + r.bytes_in]
                  ELSE Done(a)
<1> DEFINE r == lockedBy
           k == r.api
           d == Done(k)
           e == [calls |-> d.calls + 1, bytes_out |-> d.bytes_out + r.bytes_out,
                 bytes_in |-> d.bytes_in + r.bytes_in]
<1>1. /\ r # None /\ r \in Record /\ r.thread = t /\ lockedBy' = None /\ UNCHANGED torn
      /\ done' = Put(done, k, e)
  BY DEF FinishRecord, Recording, Ledger, Done
<1>2. k \in Api /\ r.bytes_out \in Nat /\ r.bytes_in \in Nat
  BY <1>1 DEF Record, Api
<1>3. /\ d \in Stats /\ Torn(k) \in Nat
      /\ \A a \in Api : Done(a) \in Stats /\ Torn(a) \in Nat
      /\ DOMAIN done \subseteq Api /\ DOMAIN torn \subseteq Api
      /\ inner = [a \in DOMAIN done \cup DOMAIN torn \cup {b \in Api : Held(b) = 1} |->
                    Row(Done(a), Torn(a) + Held(a))]
  BY <1>2 DEF Ledger
<1>4. /\ \A a : Held(a) = IF a = k THEN 1 ELSE 0
      /\ \A a : Held(a)' = 0
      /\ \A a : Torn(a)' = Torn(a)
      /\ {b \in Api : Held(b) = 1} = {k}
  BY <1>1, <1>2 DEF Held, Torn
<1>5. e \in Stats
  BY <1>2, <1>3 DEF Stats
<1>6. /\ DOMAIN done' = DOMAIN done \cup {k}
      /\ \A a : Done(a)' = IF a = k THEN e ELSE Done(a)
  <2> HIDE DEF e
  <2> QED
    BY <1>1 DEF Put, Done, Entry
<1>7. inner[k] = Row(d, Torn(k) + 1)
  BY <1>3, <1>4
<1>8. inner' = [inner EXCEPT ![k] = AddBytes(inner[k], r.bytes_out, r.bytes_in)]
  BY <1>3, <1>4 DEF FinishRecord
<1>9. inner' = [inner EXCEPT ![k] = Row(e, Torn(k))]
  <2> DEFINE x == inner[k]
             n == Torn(k)
             o == r.bytes_out
             i == r.bytes_in
  <2>1. d \in Stats /\ n \in Nat /\ o \in Nat /\ i \in Nat /\ x = Row(d, n + 1)
    BY <1>2, <1>3, <1>7
  <2> HIDE DEF d, x, n, o, i
  <2>2. AddBytes(x, o, i)
          = Row([calls |-> d.calls + 1, bytes_out |-> d.bytes_out + o, bytes_in |-> d.bytes_in + i], n)
    BY <2>1, RowFinished
  <2> QED
    BY <1>8, <2>2 DEF x, n, o, i
<1> HIDE DEF e, d, k
<1>10. inner' = [a \in DOMAIN done' \cup DOMAIN torn' \cup {b \in Api : Held(b)' = 1} |->
                   Row(Done(a)', Torn(a)' + Held(a)')]
  <2>1. \A a \in Api : Torn(a) + 0 = Torn(a)
    BY <1>3
  <2>2. DOMAIN done' \cup DOMAIN torn' \cup {b \in Api : Held(b)' = 1} = DOMAIN inner
    BY <1>1, <1>3, <1>4, <1>6
  <2>3. DOMAIN inner \subseteq Api
    BY <1>2, <1>3, <1>4 DEF k
  <2>4. ASSUME NEW a \in DOMAIN inner
        PROVE  (IF a = k THEN Row(e, Torn(k)) ELSE inner[a]) = Row(Done(a)', Torn(a)' + Held(a)')
    BY <1>3, <1>4, <1>6, <2>1, <2>3, <2>4
  <2>5. inner' = [a \in DOMAIN inner |-> IF a = k THEN Row(e, Torn(k)) ELSE inner[a]]
    BY <1>3, <1>9
  <2> QED
    BY <2>2, <2>4, <2>5
<1>11. Ledger'
  BY <1>1, <1>2, <1>3, <1>4, <1>5, <1>6, <1>10 DEF Ledger, k
<1> QED
  BY <1>1, <1>6, <1>11 DEF e, d, k

\* A panic under the lock leaves the count of the record and no more.
LEMMA PanicKeeps ==
  ASSUME Ledger, NEW t, PanicInRecord(t)
  PROVE  LET r == lockedBy
         IN  /\ Ledger' /\ lockedBy' = None
             /\ r \in Record /\ r.thread = t
             /\ UNCHANGED done
             /\ DOMAIN torn' = DOMAIN torn \cup {r.api}
<1> DEFINE r == lockedBy
           k == r.api
<1>1. /\ r # None /\ r \in Record /\ r.thread = t /\ lockedBy' = None
      /\ UNCHANGED <<done, inner>> /\ torn' = Put(torn, k, Torn(k) + 1)
  BY DEF PanicInRecord, Recording, Ledger, Torn
<1>2. k \in Api
  BY <1>1 DEF Record, Api
<1>3. /\ \A a \in Api : Done(a) \in Stats /\ Torn(a) \in Nat
      /\ DOMAIN done \subseteq Api /\ DOMAIN torn \subseteq Api
      /\ inner = [a \in DOMAIN done \cup DOMAIN torn \cup {b \in Api : Held(b) = 1} |->
                    Row(Done(a), Torn(a) + Held(a))]
  BY DEF Ledger
<1>4. /\ \A a : Held(a) = IF a = k THEN 1 ELSE 0
      /\ \A a : Held(a)' = 0
      /\ \A a : Done(a)' = Done(a)
      /\ {b \in Api : Held(b) = 1} = {k}
      /\ {b \in Api : Held(b)' = 1} = {}
  BY <1>1, <1>2 DEF Held, Done
<1>5. /\ DOMAIN torn' = DOMAIN torn \cup {k}
      /\ \A a : Torn(a)' = IF a = k THEN Torn(k) + 1 ELSE Torn(a)
  BY <1>1 DEF Put, Torn, Entry
<1> HIDE DEF k
<1>6. \A a \in Api : Torn(a) + Held(a) = Torn(a)' + Held(a)' /\ Torn(a)' \in Nat
  BY <1>2, <1>3, <1>4, <1>5
<1>7. /\ DOMAIN done \cup DOMAIN torn \cup {b \in Api : Held(b) = 1}
           = DOMAIN done' \cup DOMAIN torn' \cup {b \in Api : Held(b)' = 1}
      /\ DOMAIN done \cup DOMAIN torn \cup {b \in Api : Held(b) = 1} \subseteq Api
  BY <1>1, <1>2, <1>3, <1>4, <1>5
<1>8. inner' = [a \in DOMAIN done' \cup DOMAIN torn' \cup {b \in Api : Held(b)' = 1} |->
                  Row(Done(a)', Torn(a)' + Held(a)')]
  BY <1>1, <1>3, <1>4, <1>6, <1>7
<1>9. Ledger'
  BY <1>1, <1>2, <1>3, <1>4, <1>5, <1>6, <1>8 DEF Ledger
<1> QED
  BY <1>1, <1>5, <1>9 DEF k

LEMMA ResetKeeps ==
  ASSUME Ledger, reset
  PROVE  /\ Ledger' /\ lockedBy' = None /\ lockedBy = None
         /\ DOMAIN torn' = {} /\ \A a : Done(a)' = CallStats
<1>1. /\ lockedBy = None /\ lockedBy' = None
      /\ inner' = << >> /\ done' = << >> /\ torn' = << >>
  BY DEF reset, Unlocked
<1>2. DOMAIN << >> = {} /\ << >> = [a \in {} |-> Row(Done(a)', Torn(a)' + Held(a)')]
  OBVIOUS
<1>3. /\ \A a : Done(a)' = CallStats /\ Torn(a)' = 0 /\ Held(a)' = 0
  BY <1>1, <1>2 DEF Done, Torn, Held, Entry
<1>4. CallStats \in Stats
  BY DEF CallStats, Stats
<1>5. {b \in Api : Held(b)' = 1} = {}
  BY <1>3
<1>6. inner' = [a \in DOMAIN done' \cup DOMAIN torn' \cup {b \in Api : Held(b)' = 1} |->
                  Row(Done(a)', Torn(a)' + Held(a)')]
  BY <1>1, <1>2, <1>5
<1>7. Ledger'
  BY <1>1, <1>2, <1>3, <1>4, <1>6 DEF Ledger
<1> QED
  BY <1>1, <1>2, <1>3, <1>7

\* Steps that leave the statistics alone.
LEMMA LedgerUnchanged ==
  ASSUME Ledger, UNCHANGED <<inner, done, torn, lockedBy>>
  PROVE  Ledger' /\ \A a : Done(a)' = Done(a)
<1>1. \A a : Done(a)' = Done(a) /\ Torn(a)' = Torn(a) /\ Held(a)' = Held(a)
  BY DEF Done, Torn, Held
<1> QED
  BY <1>1 DEF Ledger

LEMMA InitLedger ==
  ASSUME InitRegistry
  PROVE  /\ Ledger /\ lockedBy = None
         /\ DOMAIN torn = {} /\ \A a : Done(a) = CallStats
<1>1. lockedBy = None /\ inner = << >> /\ done = << >> /\ torn = << >>
  BY DEF InitRegistry
<1>2. DOMAIN << >> = {} /\ << >> = [a \in {} |-> Row(Done(a), Torn(a) + Held(a))]
  OBVIOUS
<1>3. \A a : Done(a) = CallStats /\ Torn(a) = 0 /\ Held(a) = 0
  BY <1>1, <1>2 DEF Done, Torn, Held, Entry
<1>4. CallStats \in Stats
  BY DEF CallStats, Stats
<1>5. inner = [a \in DOMAIN done \cup DOMAIN torn \cup {b \in Api : Held(b) = 1} |->
                 Row(Done(a), Torn(a) + Held(a))]
  BY <1>1, <1>2, <1>3
<1> QED
  BY <1>1, <1>2, <1>3, <1>4, <1>5 DEF Ledger

\* With the lock free, the ledger is what StatsExact says.
LEMMA LedgerExact ==
  ASSUME Ledger PROVE StatsExact
<1> SUFFICES ASSUME Unlocked
             PROVE  /\ DOMAIN inner = DOMAIN done \cup DOMAIN torn
                    /\ \A api \in DOMAIN inner :
                         inner[api] = [calls     |-> Capped(Done(api).calls + Torn(api)),
                                       bytes_out |-> Capped(Done(api).bytes_out),
                                       bytes_in  |-> Capped(Done(api).bytes_in)]
  BY DEF StatsExact, Done, Torn
<1>1. \A a : Held(a) = 0
  BY DEF Held, Unlocked
<1>2. \A a \in DOMAIN done \cup DOMAIN torn : Torn(a) + Held(a) = Torn(a)
  BY <1>1 DEF Ledger
<1> QED
  BY <1>1, <1>2 DEF Ledger, Row

---------------------------------------------------------------------------
(***************************************************************************)
(* Totals.                                                                 *)
(***************************************************************************)
LEMMA MergeTyped ==
  ASSUME NEW x \in Stats, NEW y \in Stats
  PROVE  Merge(x, y) \in Stats /\ Merge(x, y).calls = Plus(x.calls, y.calls)
<1>1. \A a, b \in Nat : Plus(a, b) \in Nat
  BY RegistryAssumption DEF Plus
<1> QED
  BY <1>1 DEF Merge, Stats

\* The total merges the rows one by one.
IsTotal(rows, g) ==
  /\ Total(rows) = g[DOMAIN rows]
  /\ g[{}] = CallStats
  /\ \A s \in SUBSET DOMAIN rows : g[s] \in Stats
  /\ \A s \in SUBSET DOMAIN rows :
       s # {} => g[s] = Merge(rows[Chosen(s)], g[s \ {Chosen(s)}])

LEMMA TotalIsFold ==
  ASSUME NEW rows, IsFiniteSet(DOMAIN rows), \A a \in DOMAIN rows : rows[a] \in Stats
  PROVE  \E g : IsTotal(rows, g)
<1> DEFINE D == DOMAIN rows
           F == [p \in (SUBSET D) \X Stats |-> Merge(rows[Chosen(p[1])], p[2])]
           Merges(g) == g = [s \in SUBSET D |->
                               IF s = {} THEN CallStats
                               ELSE Merge(rows[Chosen(s)], g[s \ {Chosen(s)}])]
<1>1. \A s \in SUBSET D, v \in Stats : F[<<s, v>>] = Merge(rows[Chosen(s)], v)
  OBVIOUS
<1>2. CallStats \in Stats
  BY DEF CallStats, Stats
<1>3. Total(rows) = (CHOOSE g : Merges(g))[D]
  BY DEF Total, FoldFunction, FoldFunctionOnSet, MapThenFoldSet, Chosen
<1> HIDE DEF F
<1>4. \A s \in SUBSET D, v \in Stats : s # {} => F[<<s, v>>] \in Stats
  BY <1>1, ChosenIn, MergeTyped
<1>5. PICK h : IsFold(F, CallStats, D, h)
  BY FoldExists
<1>6. h[{}] = CallStats /\ \A s \in SUBSET D : s # {} => h[s] = F[<<s, h[s \ {Chosen(s)}]>>]
  BY <1>5, FoldAt
<1>7. \A s \in SUBSET D : h[s] \in Stats
  <2>1. IsFiniteSet(D)
    OBVIOUS
  <2> HIDE DEF D
  <2> QED
    BY <1>2, <1>4, <1>5, <2>1, FoldTyped
<1>8. \A s \in SUBSET D : s # {} => h[s] = Merge(rows[Chosen(s)], h[s \ {Chosen(s)}])
  BY <1>1, <1>6, <1>7
<1>9. h = [s \in SUBSET D |-> h[s]]
  <2>1. h = [s \in SUBSET D |-> Step(F, CallStats, h, s)]
    BY <1>5 DEF IsFold
  <2> QED
    BY <2>1
<1>10. Merges(h)
  BY <1>6, <1>8, <1>9
<1> DEFINE k == CHOOSE g : Merges(g)
<1>11. Merges(k)
  BY <1>10
<1> HIDE DEF k
<1>12. k[{}] = CallStats /\ \A s \in SUBSET D : s # {} => k[s] = Merge(rows[Chosen(s)], k[s \ {Chosen(s)}])
  BY <1>11
<1> DEFINE G == {s \in SUBSET D : k[s] \in Stats}
<1>13. ASSUME NEW s \in SUBSET D, \A t \in SUBSET D : t \subseteq s /\ t # s => t \in G
       PROVE  s \in G
  <2>1. CASE s = {}
    BY <1>2, <1>12, <2>1
  <2>2. CASE s # {}
    <3>1. Chosen(s) \in D /\ k[s \ {Chosen(s)}] \in Stats
      BY <1>13, <2>2, ChosenIn
    <3>2. Merge(rows[Chosen(s)], k[s \ {Chosen(s)}]) \in Stats
      BY <3>1, MergeTyped
    <3> QED
      BY <1>12, <2>2, <3>2
  <2> QED
    BY <2>1, <2>2
<1>14. \A s \in SUBSET D : s \in G
  <2>1. IsFiniteSet(D)
    OBVIOUS
  <2> HIDE DEF D, G
  <2> QED
    BY <1>13, <2>1, SubsetInduction
<1>15. Total(rows) = k[D]
  BY <1>3 DEF k
<1> QED
  BY <1>12, <1>14, <1>15 DEF IsTotal

\* A total counts the calls of any two rows.
LEMMA TotalCovers ==
  ASSUME NEW rows, IsFiniteSet(DOMAIN rows), \A r \in DOMAIN rows : rows[r] \in Stats,
         NEW a, NEW b, a # b
  PROVE  Total(rows).calls
           >= Capped(Entry(rows, a, CallStats).calls + Entry(rows, b, CallStats).calls)
<1> DEFINE D == DOMAIN rows
           N(r, s) == IF r \in s THEN rows[r].calls ELSE 0
<1>1. PICK g : IsTotal(rows, g)
  BY TotalIsFold
<1> DEFINE G == {s \in SUBSET D : g[s].calls >= Capped(N(a, s) + N(b, s))}
<1>2. ASSUME NEW s \in SUBSET D, \A t \in SUBSET D : t \subseteq s /\ t # s => t \in G
      PROVE  s \in G
  <2>1. CASE s = {}
    <3>1. Capped(0 + 0) = 0
      BY RegistryAssumption DEF Capped
    <3> QED
      BY <1>1, <2>1, <3>1 DEF IsTotal, CallStats
  <2>2. CASE s # {}
    <3> DEFINE c == Chosen(s)
               t == s \ {c}
               x == rows[c].calls
               y == g[t].calls
    <3>1. c \in s /\ c \in D /\ t \in SUBSET D /\ t \subseteq s /\ t # s
      BY <2>2, ChosenIn
    <3>2. rows[c] \in Stats /\ g[t] \in Stats /\ g[s] = Merge(rows[c], g[t])
      BY <1>1, <2>2, <3>1 DEF IsTotal
    <3>3. g[s].calls = Plus(x, y) /\ x \in Nat /\ y \in Nat
      BY <3>2, MergeTyped DEF Stats
    <3>4. y >= Capped(N(a, t) + N(b, t))
      BY <1>2, <3>1
    <3>5. /\ N(a, t) \in Nat /\ N(b, t) \in Nat
          /\ N(a, s) = IF c = a THEN x ELSE N(a, t)
          /\ N(b, s) = IF c = b THEN x ELSE N(b, t)
          /\ c = a => N(a, t) = 0
          /\ c = b => N(b, t) = 0
      BY <3>1 DEF Stats
    <3> HIDE DEF x, y, N, t, c
    <3>6. Plus(x, y) >= Capped(N(a, s) + N(b, s))
      <4> DEFINE m == N(a, t)
                 n == N(b, t)
      <4>1. m \in Nat /\ n \in Nat /\ y >= Capped(m + n)
        BY <3>4, <3>5
      <4> HIDE DEF m, n
      <4>2. Plus(x, y) >= Capped(x + (m + n)) /\ Plus(x, y) >= Capped(m + n)
        BY <3>3, <4>1, RegistryAssumption DEF Plus, Capped
      <4>3. \/ N(a, s) + N(b, s) = x + (m + n)
            \/ N(a, s) + N(b, s) = m + n
        BY <3>3, <3>5, <4>1 DEF m, n
      <4> QED
        BY <4>2, <4>3
    <3> QED
      BY <3>3, <3>6
  <2> QED
    BY <2>1, <2>2
<1>3. \A s \in SUBSET D : s \in G
  <2>1. IsFiniteSet(D)
    OBVIOUS
  <2> HIDE DEF D, G
  <2> QED
    BY <1>2, <2>1, SubsetInduction
<1>4. g[D].calls >= Capped(N(a, D) + N(b, D)) /\ Total(rows) = g[D]
  BY <1>1, <1>3 DEF IsTotal
<1>5. N(a, D) = Entry(rows, a, CallStats).calls /\ N(b, D) = Entry(rows, b, CallStats).calls
  BY DEF Entry, CallStats
<1> QED
  BY <1>4, <1>5

---------------------------------------------------------------------------
Threads ==
  /\ main \in {"calling", "waiting", "joining", "reporting", "printing", "ended"}
  /\ server \in {"recv", "replied", "recording", "ended", "panicked"}
  /\ worker \in [Workers -> [at : {"idle", "guarded", "unwinding", "dropping", "dying",
                                  "measuring", "dead"}, bytes : Nat, left : Int]]
  /\ observer = [at |-> observer.at, rows |-> observer.rows, total |-> observer.total,
                 reports |-> observer.reports]
  /\ resets \in Nat

\* Who holds the lock, and what for.
Holder ==
  /\ server = "recording" => Recording("server")
  /\ Recording("server") =>
       /\ server = "recording"
       /\ lockedBy.api = ApiOf(served)
       /\ lockedBy.bytes_out = FRAME
  /\ lockedBy # None /\ lockedBy.thread # "server" => lockedBy.api = "opengl"

\* One call at a time: a request on its way is the last call made, a call
\* that is answered and not yet recorded is the one before it or the last.
Busy == server \in {"replied", "recording"}
OnItsWay == IF request # None THEN 1 ELSE 0
Unrecorded == IF Busy THEN 1 ELSE 0

Pipe ==
  /\ issued \in 0 .. LOAD
  /\ connected <=> main \in {"calling", "waiting"}
  /\ server # "panicked" =>
       /\ main = "calling" => request = None /\ reply = None
       /\ main = "waiting" =>
            /\ issued >= 1
            /\ \/ request = issued /\ reply = None
               \/ request = None
       /\ main \notin {"calling", "waiting"} => request = None /\ issued = LOAD
       /\ main \notin {"calling", "waiting", "joining"} => server = "ended"
       /\ server = "ended" => main \notin {"calling", "waiting"}
       /\ Busy => served = issued - OnItsWay /\ served >= 1

\* As long as the server has not panicked, every call it recorded is there
\* whole, and without a reset there are as many as it has recorded.
Counts ==
  server # "panicked" =>
    /\ \A a \in {"core", "vulkan"} :
         a \notin DOMAIN torn /\ Done(a).bytes_out = FRAME * Done(a).calls
    /\ resets = 0 =>
         LET n == issued - OnItsWay - Unrecorded
         IN  /\ Done("core").calls = IF n >= 1 THEN 1 ELSE 0
             /\ Done("vulkan").calls = IF n >= 1 THEN n - 1 ELSE 0

\* The rows the observer has copied and the total it has computed.
Observed ==
  /\ observer.at \in {"summing", "printed"} /\ server # "panicked" =>
       \A api \in DOMAIN observer.rows \cap {"core", "vulkan"} :
         observer.rows[api].bytes_out = Capped(FRAME * observer.rows[api].calls)
  /\ observer.at = "printed" => observer.total = Total(observer.rows)

\* What main knows of the run.
Reported ==
  /\ main \in {"calling", "waiting"} => report = None
  /\ main = "joining" => report = None \/ (server = "panicked" /\ report.ok = FALSE)
  /\ main \in {"reporting", "printing"} =>
       /\ server = "ended"
       /\ report = [ok |-> TRUE, total |-> report.total, rows |-> report.rows]
  /\ main = "printing" /\ resets = 0 => report.total.calls >= Capped(LOAD)
  /\ LoadReportExact

IInv == Ledger /\ Threads /\ Holder /\ Pipe /\ Counts /\ Observed /\ Reported

---------------------------------------------------------------------------
\* Capping a count before it is multiplied changes nothing once the product
\* is capped.
LEMMA CappedProduct ==
  ASSUME NEW c \in Nat
  PROVE  Capped(FRAME * c) = Capped(FRAME * Capped(c))
<1>1. FRAME \in Nat /\ STAT_MAX \in Nat
  BY LoadAssumption, RegistryAssumption
<1>2. CASE c <= STAT_MAX
  BY <1>1, <1>2 DEF Capped
<1>3. CASE c > STAT_MAX
  <2>1. Capped(c) = STAT_MAX
    BY <1>3 DEF Capped
  <2>2. CASE FRAME = 0
    <3>1. 0 * c = 0 /\ 0 * STAT_MAX = 0
      BY <1>1
    <3> QED
      BY <2>1, <2>2, <3>1
  <2>3. CASE FRAME # 0
    <3>1. \A x \in Nat : FRAME * x \in Nat /\ FRAME * x >= x
      <4>1. PICK f \in Nat : FRAME = f + 1
        BY <1>1, <2>3
      <4>2. \A x \in Nat : f * x \in Nat /\ (f + 1) * x = f * x + x
        BY <4>1
      <4> QED
        BY <4>1, <4>2
    <3>2. FRAME * c > STAT_MAX /\ FRAME * STAT_MAX >= STAT_MAX /\ FRAME * STAT_MAX \in Nat
      BY <1>1, <1>3, <3>1
    <3> QED
      BY <1>1, <2>1, <3>2 DEF Capped
  <2> QED
    BY <2>2, <2>3
<1> QED
  BY <1>1, <1>2, <1>3

\* With the lock free, the row of an API no panic has touched.
LEMMA WholeRow ==
  ASSUME Ledger, Unlocked, NEW a \in Api, a \notin DOMAIN torn
  PROVE  /\ Entry(inner, a, CallStats).calls = Capped(Done(a).calls)
         /\ Entry(inner, a, CallStats).bytes_out = Capped(Done(a).bytes_out)
         /\ a \in DOMAIN inner => Entry(inner, a, CallStats) = inner[a]
         /\ Done(a) \in Stats
<1>1. Torn(a) = 0 /\ Held(a) = 0 /\ Done(a) \in Stats
  BY DEF Torn, Entry, Held, Unlocked, Ledger
<1>2. CASE a \in DOMAIN inner
  <2>1. inner[a] = Row(Done(a), 0)
    BY <1>1, <1>2 DEF Ledger
  <2>2. Done(a).calls + 0 = Done(a).calls
    BY <1>1 DEF Stats
  <2> QED
    BY <1>1, <1>2, <2>1, <2>2 DEF Entry, Row
<1>3. CASE a \notin DOMAIN inner
  <2>1. Done(a) = CallStats
    BY <1>3 DEF Ledger, Done, Entry
  <2>2. Capped(0) = 0
    BY RegistryAssumption DEF Capped
  <2> QED
    BY <1>1, <1>3, <2>1, <2>2 DEF Entry, CallStats
<1> QED
  BY <1>2, <1>3

LEMMA InitInvariant == Init => IInv
<1> SUFFICES ASSUME Init PROVE IInv
  OBVIOUS
<1>1. /\ Ledger /\ lockedBy = None
      /\ DOMAIN torn = {} /\ \A a : Done(a) = CallStats
  BY InitLedger DEF Init
<1>2. LOAD \in Nat /\ LOAD >= 1 /\ FRAME * 0 = 0
  BY LoadAssumption DEF LOAD
<1>3. Threads
  BY LoadAssumption DEF Init, Threads
<1>4. Holder
  BY <1>1 DEF Init, Holder, Recording
<1>5. Pipe
  BY <1>2 DEF Init, Pipe, Busy
<1>6. Counts
  <2>1. OnItsWay = 0 /\ Unrecorded = 0 /\ issued = 0
    BY DEF Init, OnItsWay, Unrecorded, Busy
  <2> QED
    BY <1>1, <1>2, <2>1 DEF Counts, CallStats
<1>7. Observed /\ Reported
  BY DEF Init, Observed, Reported, LoadReportExact
<1> QED
  BY <1>1, <1>3, <1>4, <1>5, <1>6, <1>7 DEF IInv

---------------------------------------------------------------------------
\* Steps that record no call of the load.
LEMMA CountsUnchanged ==
  ASSUME Counts, server' # "panicked" => server # "panicked", UNCHANGED resets,
         \A a \in {"core", "vulkan"} :
           Done(a)' = Done(a) /\ (a \in DOMAIN torn' => a \in DOMAIN torn),
         server' # "panicked" =>
           (issued - OnItsWay - Unrecorded)' = issued - OnItsWay - Unrecorded
  PROVE  Counts'
  BY DEF Counts

LEMMA CallKeeps == ASSUME IInv, Call PROVE IInv'
<1> USE DEF IInv
<1>1. Ledger' /\ \A a : Done(a)' = Done(a)
  BY LedgerUnchanged DEF Call, registryVars
<1>2. LOAD \in Nat /\ issued \in Nat /\ issued + 1 # None /\ issued + 1 \in 0 .. LOAD
  BY LoadAssumption, NoneAssumption DEF LOAD, Pipe, Call
<1>3. request = None /\ reply = None /\ OnItsWay = 0 /\ OnItsWay' = 1 /\ UNCHANGED Unrecorded
  BY <1>2 DEF Call, Pipe, OnItsWay, Unrecorded, Busy
<1>4. Threads' /\ Holder'
  BY DEF Call, registryVars, Threads, Holder, Recording
<1>5. Pipe'
  BY <1>2, <1>3 DEF Call, Pipe, Busy
<1>6. Counts'
  <2>1. (issued - OnItsWay - Unrecorded)' = issued - OnItsWay - Unrecorded
    BY <1>2, <1>3 DEF Call, Unrecorded
  <2> QED
    BY <1>1, <2>1, CountsUnchanged DEF Call, registryVars
<1>7. Observed' /\ Reported'
  BY DEF Call, Observed, Reported, LoadReportExact
<1> QED
  BY <1>1, <1>4, <1>5, <1>6, <1>7

LEMMA CallReturnsKeeps == ASSUME IInv, CallReturns PROVE IInv'
<1> USE DEF IInv
<1>1. Ledger' /\ \A a : Done(a)' = Done(a)
  BY LedgerUnchanged DEF CallReturns, registryVars
<1>2. Threads' /\ Holder'
  BY DEF CallReturns, registryVars, Threads, Holder, Recording
<1>3. UNCHANGED <<OnItsWay, Unrecorded, issued>>
  BY DEF CallReturns, OnItsWay, Unrecorded, Busy
<1>4. Pipe'
  BY <1>3 DEF CallReturns, Pipe, Busy
<1>5. Counts'
  BY <1>1, <1>3, CountsUnchanged DEF CallReturns, registryVars
<1>6. Observed' /\ Reported'
  BY DEF CallReturns, Observed, Reported, LoadReportExact
<1> QED
  BY <1>1, <1>2, <1>4, <1>5, <1>6

LEMMA RunClientKeeps == ASSUME IInv, RunClientEnds \/ RunClientFails PROVE IInv'
<1> USE DEF IInv
<1>1. Ledger' /\ \A a : Done(a)' = Done(a)
  BY LedgerUnchanged DEF RunClientEnds, RunClientFails, registryVars
<1>2. Threads' /\ Holder'
  BY DEF RunClientEnds, RunClientFails, registryVars, Threads, Holder, Recording
<1>3. UNCHANGED <<OnItsWay, Unrecorded, issued>>
  BY DEF RunClientEnds, RunClientFails, OnItsWay, Unrecorded, Busy
<1>4. Pipe'
  BY <1>3 DEF RunClientEnds, RunClientFails, Pipe, Busy
<1>5. Counts'
  BY <1>1, <1>3, CountsUnchanged DEF RunClientEnds, RunClientFails, registryVars
<1>6. Observed' /\ Reported'
  BY DEF RunClientEnds, RunClientFails, Observed, Reported, LoadReportExact
<1> QED
  BY <1>1, <1>2, <1>4, <1>5, <1>6

LEMMA JoinKeeps == ASSUME IInv, Join PROVE IInv'
<1> USE DEF IInv
<1>1. Ledger' /\ \A a : Done(a)' = Done(a)
  BY LedgerUnchanged DEF Join, registryVars
<1>2. Threads' /\ Holder'
  BY DEF Join, registryVars, Threads, Holder, Recording
<1>3. UNCHANGED <<OnItsWay, Unrecorded, issued>>
  BY DEF Join, OnItsWay, Unrecorded, Busy
<1>4. /\ server = "ended" =>
           /\ report' = [ok |-> TRUE, total |-> CallStats, rows |-> << >>]
           /\ main' = "reporting"
      /\ server = "panicked" => report'.ok = FALSE /\ main' = "ended"
  BY DEF Join, Reported
<1>5. Pipe'
  BY <1>3, <1>4 DEF Join, Pipe, Busy
<1>6. Counts'
  BY <1>1, <1>3, CountsUnchanged DEF Join, registryVars
<1>7. Observed'
  BY DEF Join, Observed
<1>8. Reported'
  BY <1>4 DEF Join, Reported, LoadReportExact
<1> QED
  BY <1>1, <1>2, <1>5, <1>6, <1>7, <1>8

\* With the server thread ended, every call of the load is recorded.
LEMMA LoadRecorded ==
  ASSUME IInv, Unlocked, main \in {"reporting", "printing"}, resets = 0
  PROVE  /\ Entry(inner, "core", CallStats).calls = Capped(1)
         /\ Entry(inner, "vulkan", CallStats).calls = Capped(2 * ROUNDS)
         /\ Entry(inner, "vulkan", CallStats).bytes_out = Capped(FRAME * (2 * ROUNDS))
         /\ Total(inner).calls >= Capped(LOAD)
<1>1. server = "ended" /\ issued = LOAD /\ OnItsWay = 0 /\ Unrecorded = 0
  BY DEF IInv, Reported, Pipe, OnItsWay, Unrecorded, Busy
<1>2. LOAD \in Nat /\ LOAD >= 1 /\ LOAD = 1 + 2 * ROUNDS /\ 2 * ROUNDS \in Nat
  BY LoadAssumption DEF LOAD
<1>3. /\ Done("core").calls = 1 /\ Done("vulkan").calls = 2 * ROUNDS
      /\ Done("vulkan").bytes_out = FRAME * Done("vulkan").calls
      /\ "core" \notin DOMAIN torn /\ "vulkan" \notin DOMAIN torn
  BY <1>1, <1>2 DEF IInv, Counts
<1>4. "core" \in Api /\ "vulkan" \in Api
  BY DEF Api
<1>5. /\ Entry(inner, "core", CallStats).calls = Capped(1)
      /\ Entry(inner, "vulkan", CallStats).calls = Capped(2 * ROUNDS)
      /\ Entry(inner, "vulkan", CallStats).bytes_out = Capped(FRAME * (2 * ROUNDS))
  BY <1>3, <1>4, WholeRow DEF IInv
<1>6. Total(inner).calls >= Capped(Capped(1) + Capped(2 * ROUNDS))
  <2>1. IsFiniteSet(DOMAIN inner) /\ \A r \in DOMAIN inner : inner[r] \in Stats
    <3>1. DOMAIN inner \in SUBSET Api
      BY DEF IInv, Ledger
    <3>2. IsFiniteSet(Api)
      <4>1. IsFiniteSet({"core"})
        BY FS_Singleton
      <4>2. IsFiniteSet({"core"} \cup {"vulkan"})
        BY <4>1, FS_AddElement
      <4>3. IsFiniteSet(({"core"} \cup {"vulkan"}) \cup {"opengl"})
        BY <4>2, FS_AddElement
      <4>4. ({"core"} \cup {"vulkan"}) \cup {"opengl"} = Api
        BY DEF Api
      <4> QED
        BY <4>3, <4>4
    <3>3. IsFiniteSet(DOMAIN inner)
      BY <3>1, <3>2, FS_Subset
    <3>4. ASSUME NEW r \in DOMAIN inner PROVE inner[r] \in Stats
      <4>1. inner[r] = Row(Done(r), Torn(r) + Held(r)) /\ Done(r) \in Stats /\ Torn(r) \in Nat
        BY <3>1 DEF IInv, Ledger
      <4>2. Torn(r) + Held(r) \in Nat
        BY <4>1 DEF Held
      <4>3. \A n \in Nat : Capped(n) \in Nat
        BY CappedFacts
      <4> QED
        BY <4>1, <4>2, <4>3 DEF Row, Stats
    <3> QED
      BY <3>3, <3>4
  <2>2. Total(inner).calls >= Capped(Entry(inner, "core", CallStats).calls
                                       + Entry(inner, "vulkan", CallStats).calls)
    <3>1. "core" # "vulkan"
      OBVIOUS
    <3> QED
      BY <2>1, <3>1, TotalCovers
  <2> QED
    BY <1>5, <2>2
<1>7. Capped(Capped(1) + Capped(2 * ROUNDS)) = Capped(LOAD)
  <2> DEFINE n == 2 * ROUNDS
  <2>1. n \in Nat /\ LOAD = 1 + n
    BY <1>2
  <2> HIDE DEF n
  <2>2. Capped(Capped(1) + Capped(n)) = Capped(1 + n)
    BY <2>1, RegistryAssumption DEF Capped
  <2> QED
    BY <2>1, <2>2 DEF n
<1> QED
  BY <1>5, <1>6, <1>7

\* main reads the registry after the server thread has ended, in two visits;
\* what it finds is complete unless somebody has reset it.
LEMMA PrintKeeps == ASSUME IInv, TakeTotal \/ PrintReport PROVE IInv'
<1> USE DEF IInv
<1>1. Ledger' /\ \A a : Done(a)' = Done(a)
  BY LedgerUnchanged DEF TakeTotal, PrintReport, registryVars
<1>2. Threads' /\ Holder'
  BY DEF TakeTotal, PrintReport, registryVars, Threads, Holder, Recording
<1>3. UNCHANGED <<OnItsWay, Unrecorded, issued>>
  BY DEF TakeTotal, PrintReport, OnItsWay, Unrecorded, Busy
<1>4. /\ server = "ended" /\ report = [ok |-> TRUE, total |-> report.total, rows |-> report.rows]
      /\ Unlocked /\ UNCHANGED <<resets, server>> /\ main \in {"reporting", "printing"}
  BY DEF TakeTotal, PrintReport, Reported
<1>5. Pipe'
  BY <1>3, <1>4 DEF TakeTotal, PrintReport, Pipe, Busy
<1>6. Counts'
  BY <1>1, <1>3, CountsUnchanged DEF TakeTotal, PrintReport, registryVars
<1>7. Observed'
  BY DEF TakeTotal, PrintReport, Observed
<1> DEFINE t == Total(inner)
           o == report.total
           r == report.rows
<1>8. resets = 0 =>
        /\ Entry(inner, "core", CallStats).calls = Capped(1)
        /\ Entry(inner, "vulkan", CallStats).calls = Capped(2 * ROUNDS)
        /\ Entry(inner, "vulkan", CallStats).bytes_out = Capped(FRAME * (2 * ROUNDS))
        /\ t.calls >= Capped(LOAD)
  BY <1>4, LoadRecorded
<1>9. CASE TakeTotal
  <2>1. /\ report' = [report EXCEPT !.total = t] /\ report = [ok |-> TRUE, total |-> o, rows |-> r]
        /\ main' = "printing"
    BY <1>4, <1>9 DEF TakeTotal
  <2> HIDE DEF t, o, r
  <2>2. report' = [ok |-> TRUE, total |-> t, rows |-> r]
    BY <2>1
  <2>3. report' = [ok |-> TRUE, total |-> report'.total, rows |-> report'.rows] /\ report'.total = t
    BY <2>2
  <2>4. Reported'
    BY <1>4, <1>8, <2>1, <2>3 DEF Reported, LoadReportExact
  <2> QED
    BY <1>1, <1>2, <1>5, <1>6, <1>7, <2>4
<1>10. CASE PrintReport
  <2>1. report'.ok = TRUE /\ report'.rows = inner /\ report'.total = o /\ main' = "ended"
    BY <1>4, <1>10 DEF PrintReport
  <2>2. resets = 0 => o.calls >= Capped(LOAD)
    BY <1>10 DEF PrintReport, Reported
  <2> HIDE DEF t, o, r
  <2>3. Reported'
    BY <1>4, <1>8, <2>1, <2>2 DEF Reported, LoadReportExact
  <2> QED
    BY <1>1, <1>2, <1>5, <1>6, <1>7, <2>3
<1> QED
  BY <1>9, <1>10

---------------------------------------------------------------------------
LEMMA ServeReplyKeeps == ASSUME IInv, ServeReply PROVE IInv'
<1> USE DEF IInv
<1>1. Ledger' /\ \A a : Done(a)' = Done(a)
  BY LedgerUnchanged DEF ServeReply, registryVars
<1>2. LOAD \in Nat /\ issued \in Nat
  BY LoadAssumption DEF LOAD, Pipe
<1>3. /\ main = "waiting" /\ request = issued /\ issued >= 1
      /\ OnItsWay = 1 /\ OnItsWay' = 0 /\ Unrecorded = 0 /\ Unrecorded' = 1
  BY DEF ServeReply, Threads, Pipe, OnItsWay, Unrecorded, Busy
<1>4. Threads' /\ Holder'
  BY DEF ServeReply, registryVars, Threads, Holder, Recording
<1>5. Pipe'
  BY <1>2, <1>3 DEF ServeReply, Pipe, Busy
<1>6. Counts'
  <2>1. (issued - OnItsWay - Unrecorded)' = issued - OnItsWay - Unrecorded
    BY <1>2, <1>3 DEF ServeReply
  <2> QED
    BY <1>1, <2>1, CountsUnchanged DEF ServeReply, registryVars
<1>7. Observed' /\ Reported'
  BY <1>3 DEF ServeReply, Observed, Reported, LoadReportExact
<1> QED
  BY <1>1, <1>4, <1>5, <1>6, <1>7

LEMMA ServeRecordsKeeps == ASSUME IInv, ServeRecords PROVE IInv'
<1> USE DEF IInv
<1> DEFINE r == [thread |-> "server", api |-> ApiOf(served), bytes_out |-> FRAME, bytes_in |-> FRAME]
<1>1. r \in Record
  BY LoadAssumption DEF Record, ApiOf
<1>2. /\ Ledger' /\ UNCHANGED <<done, torn>> /\ lockedBy = None
      /\ lockedBy' = r /\ lockedBy' # None
  BY <1>1, StartKeeps DEF ServeRecords
<1>3. \A a : Done(a)' = Done(a)
  BY <1>2 DEF Done
<1>4. UNCHANGED <<OnItsWay, Unrecorded, issued>> /\ server' # "panicked"
  BY DEF ServeRecords, OnItsWay, Unrecorded, Busy
<1>5. Threads'
  BY DEF ServeRecords, Threads
<1>6. Holder'
  BY <1>2 DEF ServeRecords, Holder, Recording, ApiOf
<1>7. Pipe'
  BY <1>4 DEF ServeRecords, Pipe, Busy
<1>8. Counts'
  BY <1>2, <1>3, <1>4, CountsUnchanged DEF ServeRecords
<1>9. Observed' /\ Reported'
  BY DEF ServeRecords, Observed, Reported, LoadReportExact
<1> QED
  BY <1>2, <1>5, <1>6, <1>7, <1>8, <1>9

\* The record of the call in service completes the ledger of the load.
LEMMA ServeRecordedKeeps == ASSUME IInv, ServeRecorded PROVE IInv'
<1> USE DEF IInv
<1> DEFINE k == ApiOf(served)
<1>1. server = "recording" /\ server' = "recv" /\ UNCHANGED <<issued, request, resets>>
  BY DEF ServeRecorded
<1>2. lockedBy \in Record /\ lockedBy.api = k /\ lockedBy.bytes_out = FRAME
  BY FinishKeeps, <1>1 DEF ServeRecorded, Holder
<1>3. /\ Ledger' /\ lockedBy' = None /\ UNCHANGED torn
      /\ \A a \in Api :
           IF a = k
           THEN /\ Done(a)'.calls = Done(a).calls + 1
                /\ Done(a)'.bytes_out = Done(a).bytes_out + FRAME
           ELSE Done(a)' = Done(a)
  <2>1. k \in Api
    BY DEF ApiOf, Api
  <2> QED
    BY <1>2, <2>1, FinishKeeps DEF ServeRecorded
<1>4. /\ LOAD \in Nat /\ issued \in Nat /\ FRAME \in Nat
      /\ served = issued - OnItsWay /\ served >= 1 /\ OnItsWay \in {0, 1}
  BY <1>1, LoadAssumption DEF LOAD, Pipe, Busy, OnItsWay
<1>5. UNCHANGED OnItsWay /\ Unrecorded = 1 /\ Unrecorded' = 0
  BY <1>1 DEF OnItsWay, Unrecorded, Busy
<1>6. Threads'
  BY DEF ServeRecorded, Threads
<1>7. Holder'
  BY <1>1, <1>3 DEF Holder, Recording
<1>8. Pipe'
  BY <1>1, <1>5 DEF ServeRecorded, Pipe, Busy
<1>9. Counts'
  <2>1. ASSUME NEW a \in {"core", "vulkan"}
        PROVE  a \notin DOMAIN torn' /\ Done(a)'.bytes_out = FRAME * Done(a)'.calls
    <3>1. a \in Api /\ Done(a).calls \in Nat
      BY DEF Api, Ledger, Stats
    <3>2. a \notin DOMAIN torn /\ Done(a).bytes_out = FRAME * Done(a).calls
      BY <1>1 DEF Counts
    <3>3. CASE a # k
      BY <1>3, <3>1, <3>2, <3>3
    <3>4. CASE a = k
      <4> DEFINE c == Done(a).calls
      <4>1. Done(a)'.calls = c + 1 /\ Done(a)'.bytes_out = FRAME * c + FRAME /\ c \in Nat
        BY <1>3, <3>1, <3>2, <3>4
      <4> HIDE DEF c
      <4>2. FRAME * (c + 1) = FRAME * c + FRAME
        BY <1>4, <4>1
      <4> QED
        BY <1>3, <3>2, <4>1, <4>2
    <3> QED
      BY <3>3, <3>4
  <2>2. ASSUME resets' = 0
        PROVE  /\ Done("core")'.calls = IF served >= 1 THEN 1 ELSE 0
               /\ Done("vulkan")'.calls = IF served >= 1 THEN served - 1 ELSE 0
    <3>1. issued - OnItsWay - Unrecorded = served - 1 /\ served \in Nat
      BY <1>4, <1>5
    <3>2. /\ Done("core").calls = IF served - 1 >= 1 THEN 1 ELSE 0
          /\ Done("vulkan").calls = IF served - 1 >= 1 THEN (served - 1) - 1 ELSE 0
      BY <1>1, <2>2, <3>1 DEF Counts
    <3>3. CASE served = 1
      BY <1>3, <1>4, <3>2, <3>3 DEF ApiOf, Api
    <3>4. CASE served # 1
      BY <1>3, <1>4, <3>1, <3>2, <3>4 DEF ApiOf, Api
    <3> QED
      BY <3>3, <3>4
  <2>3. (issued - OnItsWay - Unrecorded)' = served
    BY <1>1, <1>4, <1>5
  <2> QED
    BY <2>1, <2>2, <2>3 DEF Counts
<1>10. Observed' /\ Reported'
  BY DEF ServeRecorded, Observed, Reported, LoadReportExact
<1> QED
  BY <1>3, <1>6, <1>7, <1>8, <1>9, <1>10

LEMMA ServeEndsKeeps == ASSUME IInv, ServeEnds PROVE IInv'
<1> USE DEF IInv
<1>1. Ledger' /\ \A a : Done(a)' = Done(a)
  BY LedgerUnchanged DEF ServeEnds, registryVars
<1>2. UNCHANGED <<OnItsWay, Unrecorded, issued>>
  BY DEF ServeEnds, OnItsWay, Unrecorded, Busy
<1>3. main \notin {"calling", "waiting"}
  BY DEF ServeEnds, Pipe
<1>4. Threads' /\ Holder'
  BY DEF ServeEnds, registryVars, Threads, Holder, Recording
<1>5. Pipe'
  BY <1>2, <1>3 DEF ServeEnds, Pipe, Busy
<1>6. Counts'
  BY <1>1, <1>2, CountsUnchanged DEF ServeEnds, registryVars
<1>7. Observed' /\ Reported'
  BY <1>3 DEF ServeEnds, Observed, Reported, LoadReportExact
<1> QED
  BY <1>1, <1>4, <1>5, <1>6, <1>7

LEMMA ServePanicsKeeps == ASSUME IInv, ServePanics PROVE IInv'
<1> USE DEF IInv
<1>1. server = "recording" /\ server' = "panicked" /\ UNCHANGED <<main, report>>
  BY DEF ServePanics
<1>2. Ledger' /\ lockedBy' = None
  BY PanicKeeps DEF ServePanics
<1>3. Threads' /\ Holder' /\ Pipe' /\ Counts'
  BY <1>1, <1>2 DEF ServePanics, Threads, Holder, Recording, Pipe, Counts
<1>4. main \in {"calling", "waiting", "joining"}
  BY <1>1 DEF Pipe, Threads
<1>5. Observed' /\ Reported'
  BY <1>1, <1>4 DEF ServePanics, Observed, Reported, LoadReportExact
<1> QED
  BY <1>2, <1>3, <1>5

---------------------------------------------------------------------------
\* Workers touch neither the load nor the reports.
LEMMA WorkerFrame ==
  ASSUME IInv, UNCHANGED othersOfWorker
  PROVE  /\ Pipe' /\ Observed' /\ Reported'
         /\ UNCHANGED <<OnItsWay, Unrecorded, issued, server, served, resets>>
<1>1. UNCHANGED <<OnItsWay, Unrecorded, issued, server, served, resets>>
  BY DEF othersOfWorker, OnItsWay, Unrecorded, Busy
<1>2. Pipe'
  BY <1>1 DEF IInv, othersOfWorker, Pipe, Busy
<1>3. Observed' /\ Reported'
  BY DEF IInv, othersOfWorker, Observed, Reported, LoadReportExact
<1> QED
  BY <1>1, <1>2, <1>3

LEMMA BecomesKeeps ==
  ASSUME IInv, UNCHANGED othersOfWorker, NEW w \in Workers, NEW s, Becomes(w, s),
         s \in [at : {"idle", "guarded", "unwinding", "dropping", "dying", "measuring", "dead"},
                bytes : Nat, left : Int]
  PROVE  Threads'
  BY DEF IInv, othersOfWorker, Threads, Becomes

\* The steps of a worker without the lock of the statistics.
LEMMA WorkerAlone ==
  ASSUME IInv, NEW w \in Workers, Begin(w) \/ set_bytes(w) \/ Measure(w) \/ PanicUnderGuard(w)
  PROVE  IInv'
<1> DEFINE At == {"idle", "guarded", "unwinding", "dropping", "dying", "measuring", "dead"}
           x == worker[w]
<1>1. UNCHANGED othersOfWorker /\ UNCHANGED <<inner, done, torn, lockedBy>>
  BY DEF Begin, set_bytes, Measure, PanicUnderGuard, record_latency, registryVars
<1>2. Ledger' /\ \A a : Done(a)' = Done(a)
  BY <1>1, LedgerUnchanged DEF IInv
<1>3. /\ Pipe' /\ Observed' /\ Reported'
      /\ UNCHANGED <<OnItsWay, Unrecorded, issued, server, served, resets>>
  BY <1>1, WorkerFrame
<1>4. Holder'
  BY <1>1, <1>3 DEF IInv, Holder, Recording
<1>5. Counts'
  BY <1>1, <1>2, <1>3, CountsUnchanged DEF IInv
<1>6. x \in [at : At, bytes : Nat, left : Int]
  BY DEF IInv, Threads
<1>7. PICK s \in [at : At, bytes : Nat, left : Int] : Becomes(w, s)
  <2> HIDE DEF x
  <2>1. CASE Begin(w)
    <3>1. Becomes(w, [at |-> "guarded", bytes |-> 0, left |-> x.left - 1])
      BY <2>1 DEF Begin, x
    <3> QED
      BY <1>6, <3>1
  <2>2. CASE set_bytes(w)
    <3>1. PICK b \in Bytes : Becomes(w, [x EXCEPT !.bytes = b])
      BY <2>2 DEF set_bytes, x
    <3> QED
      BY <1>6, <3>1, LoadAssumption
  <2>3. CASE Measure(w)
    <3>1. Becomes(w, [x EXCEPT !.at = "idle"])
      BY <2>3 DEF Measure, x
    <3> QED
      BY <1>6, <3>1
  <2>4. CASE PanicUnderGuard(w)
    <3>1. Becomes(w, [x EXCEPT !.at = "unwinding"])
      BY <2>4 DEF PanicUnderGuard, x
    <3> QED
      BY <1>6, <3>1
  <2> QED
    BY <2>1, <2>2, <2>3, <2>4
<1>8. Threads'
  BY <1>1, <1>7, BecomesKeeps
<1> QED
  BY <1>2, <1>3, <1>4, <1>5, <1>8 DEF IInv

LEMMA DropGuardKeeps ==
  ASSUME IInv, NEW w \in Workers, DropGuard(w)
  PROVE  IInv'
<1> DEFINE At == {"idle", "guarded", "unwinding", "dropping", "dying", "measuring", "dead"}
           x == worker[w]
           r == [thread |-> w, api |-> "opengl", bytes_out |-> x.bytes, bytes_in |-> x.bytes]
<1>1. x \in [at : At, bytes : Nat, left : Int]
  BY DEF IInv, Threads
<1>2. r \in Record /\ w # "server"
  BY <1>1, LoadAssumption DEF Record
<1>3. /\ Ledger' /\ UNCHANGED <<done, torn>> /\ lockedBy = None
      /\ lockedBy' = r /\ lockedBy' # None
  BY <1>2, StartKeeps DEF DropGuard, IInv
<1>4. UNCHANGED othersOfWorker
  BY DEF DropGuard
<1>5. /\ Pipe' /\ Observed' /\ Reported'
      /\ UNCHANGED <<OnItsWay, Unrecorded, issued, server, served, resets>>
  BY <1>4, WorkerFrame
<1>6. Holder'
  BY <1>2, <1>3, <1>5 DEF IInv, Holder, Recording
<1>7. Counts'
  BY <1>3, <1>5, CountsUnchanged DEF IInv, Done
<1>8. Threads'
  <2>1. PICK a \in At : Becomes(w, [x EXCEPT !.at = a])
    BY DEF DropGuard
  <2> HIDE DEF x
  <2>2. [x EXCEPT !.at = a] \in [at : At, bytes : Nat, left : Int]
    BY <1>1, <2>1
  <2> QED
    BY <1>4, <2>1, <2>2, BecomesKeeps
<1> QED
  BY <1>3, <1>5, <1>6, <1>7, <1>8 DEF IInv

\* A worker lets the lock go, its record whole or cut by a panic: it is of an
\* API the load does not call.
LEMMA ReleaseKeeps ==
  ASSUME IInv, NEW w \in Workers, Dropped(w) \/ PanicInDrop(w)
  PROVE  IInv'
<1> DEFINE At == {"idle", "guarded", "unwinding", "dropping", "dying", "measuring", "dead"}
           x == worker[w]
<1>1. x \in [at : At, bytes : Nat, left : Int]
  BY DEF IInv, Threads
<1>2. w # "server"
  BY LoadAssumption
<1>3. /\ Ledger' /\ lockedBy' = None /\ lockedBy \in Record /\ lockedBy.thread = w
      /\ \A a \in Api : a # lockedBy.api =>
           Done(a)' = Done(a) /\ (a \in DOMAIN torn' => a \in DOMAIN torn)
  <2>1. CASE Dropped(w)
    BY <2>1, FinishKeeps DEF Dropped, IInv
  <2>2. CASE PanicInDrop(w)
    BY <2>2, PanicKeeps DEF PanicInDrop, IInv, Done
  <2> QED
    BY <2>1, <2>2
<1>4. lockedBy # None /\ lockedBy.api = "opengl" /\ server # "recording"
  BY <1>2, <1>3, NoneAssumption DEF IInv, Holder, Recording
<1>5. UNCHANGED othersOfWorker
  BY DEF Dropped, PanicInDrop
<1>6. /\ Pipe' /\ Observed' /\ Reported'
      /\ UNCHANGED <<OnItsWay, Unrecorded, issued, server, served, resets>>
  BY <1>5, WorkerFrame
<1>7. Holder'
  BY <1>3, <1>4, <1>6 DEF Holder, Recording
<1>8. Counts'
  <2>1. \A a \in {"core", "vulkan"} :
          Done(a)' = Done(a) /\ (a \in DOMAIN torn' => a \in DOMAIN torn)
    BY <1>3, <1>4 DEF Api
  <2> QED
    BY <1>6, <2>1, CountsUnchanged DEF IInv
<1>9. Threads'
  <2>1. PICK a \in At : Becomes(w, [x EXCEPT !.at = a])
    BY DEF Dropped, PanicInDrop
  <2> HIDE DEF x
  <2>2. [x EXCEPT !.at = a] \in [at : At, bytes : Nat, left : Int]
    BY <1>1, <2>1
  <2> QED
    BY <1>5, <2>1, <2>2, BecomesKeeps
<1> QED
  BY <1>3, <1>6, <1>7, <1>8, <1>9 DEF IInv

---------------------------------------------------------------------------
\* The observer and whoever resets touch no thread of the load.
LEMMA ObserverFrame ==
  ASSUME IInv, UNCHANGED othersOfObserver
  PROVE  /\ Pipe' /\ UNCHANGED <<OnItsWay, Unrecorded, issued, server, served>>
<1>1. UNCHANGED <<OnItsWay, Unrecorded, issued, server, served>>
  BY DEF othersOfObserver, OnItsWay, Unrecorded, Busy
<1> QED
  BY <1>1 DEF IInv, othersOfObserver, Pipe, Busy

\* The rows of the load, copied with the lock free, hold no call by half.
LEMMA RowsWhole ==
  ASSUME IInv, Unlocked, server # "panicked", NEW a \in {"core", "vulkan"}, a \in DOMAIN inner
  PROVE  inner[a].bytes_out = Capped(FRAME * inner[a].calls)
<1>1. a \in Api /\ a \notin DOMAIN torn /\ Done(a).bytes_out = FRAME * Done(a).calls
  BY DEF IInv, Counts, Api
<1>2. /\ inner[a].calls = Capped(Done(a).calls) /\ inner[a].bytes_out = Capped(Done(a).bytes_out)
      /\ Done(a) \in Stats
  BY <1>1, WholeRow DEF IInv
<1> DEFINE c == Done(a).calls
<1>3. c \in Nat
  BY <1>2 DEF Stats
<1>4. Capped(FRAME * c) = Capped(FRAME * Capped(c))
  <2> HIDE DEF c
  <2> QED
    BY <1>3, CappedProduct
<1> QED
  BY <1>1, <1>2, <1>4

LEMMA ObserverKeeps == ASSUME IInv, TakeRows \/ SumRows \/ Forget PROVE IInv'
<1> DEFINE o == [at |-> observer.at, rows |-> observer.rows, total |-> observer.total,
                 reports |-> observer.reports]
<1>1. UNCHANGED <<registryVars, othersOfObserver, resets>>
  BY DEF TakeRows, SumRows, Forget
<1>2. Ledger' /\ \A a : Done(a)' = Done(a)
  BY <1>1, LedgerUnchanged DEF IInv, registryVars
<1>3. Pipe' /\ UNCHANGED <<OnItsWay, Unrecorded, issued, server, served>>
  BY <1>1, ObserverFrame
<1>4. Holder'
  BY <1>1, <1>3 DEF IInv, Holder, Recording, registryVars
<1>5. Counts'
  BY <1>1, <1>2, <1>3, CountsUnchanged DEF IInv, registryVars
<1>6. Reported'
  BY <1>1, <1>3 DEF IInv, Reported, LoadReportExact, othersOfObserver
<1>7. observer = o
  BY DEF IInv, Threads
<1>8. CASE TakeRows
  <2> DEFINE n == observer.reports + 1
  <2>1. observer' = [at |-> "summing", rows |-> inner, total |-> observer.total, reports |-> n]
    BY <1>7, <1>8 DEF TakeRows
  <2> HIDE DEF n
  <2>2. Threads'
    BY <1>1, <2>1 DEF IInv, Threads, othersOfObserver
  <2>3. Observed'
    BY <1>3, <1>8, <2>1, RowsWhole DEF Observed, TakeRows
  <2> QED
    BY <1>2, <1>3, <1>4, <1>5, <1>6, <2>2, <2>3 DEF IInv
<1>9. CASE SumRows
  <2> DEFINE t == Total(observer.rows)
  <2>1. /\ observer.at = "summing"
        /\ observer' = [at |-> "printed", rows |-> observer.rows, total |-> t,
                        reports |-> observer.reports]
    BY <1>7, <1>9 DEF SumRows
  <2>2. Total(observer'.rows) = t
    BY <2>1
  <2> HIDE DEF t
  <2>3. Threads'
    BY <1>1, <2>1 DEF IInv, Threads, othersOfObserver
  <2>4. Observed'
    BY <1>3, <2>1, <2>2 DEF IInv, Observed
  <2> QED
    BY <1>2, <1>3, <1>4, <1>5, <1>6, <2>3, <2>4 DEF IInv
<1>10. CASE Forget
  <2>1. observer' = [at |-> "idle", rows |-> << >>, total |-> CallStats,
                     reports |-> observer.reports]
    BY <1>7, <1>10 DEF Forget
  <2>2. Threads'
    BY <1>1, <2>1 DEF IInv, Threads, othersOfObserver
  <2>3. Observed'
    BY <2>1 DEF Observed
  <2> QED
    BY <1>2, <1>3, <1>4, <1>5, <1>6, <2>2, <2>3 DEF IInv
<1> QED
  BY <1>8, <1>9, <1>10

LEMMA ResetInvariant == ASSUME IInv, Reset PROVE IInv'
<1>1. /\ Ledger' /\ lockedBy' = None /\ lockedBy = None
      /\ DOMAIN torn' = {} /\ \A a : Done(a)' = CallStats
  BY ResetKeeps DEF IInv, Reset
<1>2. /\ resets \in Nat /\ resets' = resets + 1
      /\ UNCHANGED <<observer, othersOfObserver>>
  BY DEF IInv, Threads, Reset
<1>3. Pipe' /\ UNCHANGED <<OnItsWay, Unrecorded, issued, server, served>>
  BY <1>2, ObserverFrame
<1>4. Threads'
  BY <1>2 DEF IInv, Threads, othersOfObserver
<1>5. Holder'
  BY <1>1, <1>3 DEF IInv, Holder, Recording
<1>6. Counts'
  <2>1. FRAME * 0 = 0
    BY LoadAssumption
  <2>2. resets' # 0
    BY <1>2
  <2> QED
    BY <1>1, <2>1, <2>2 DEF Counts, CallStats
<1>7. Observed'
  BY <1>2, <1>3 DEF IInv, Observed
<1>8. Reported'
  BY <1>2, <1>3 DEF IInv, Reported, LoadReportExact, othersOfObserver
<1> QED
  BY <1>1, <1>3, <1>4, <1>5, <1>6, <1>7, <1>8 DEF IInv

LEMMA StutterKeeps == ASSUME IInv, UNCHANGED vars PROVE IInv'
<1>1. UNCHANGED <<inner, done, torn, lockedBy>> /\ UNCHANGED <<othersOfWorker, worker>>
  BY DEF vars, registryVars, threadVars, othersOfWorker
<1>2. Ledger' /\ \A a : Done(a)' = Done(a)
  BY <1>1, LedgerUnchanged DEF IInv
<1>3. /\ Pipe' /\ Observed' /\ Reported'
      /\ UNCHANGED <<OnItsWay, Unrecorded, issued, server, served, resets>>
  BY <1>1, WorkerFrame
<1>4. Threads' /\ Holder'
  BY <1>1, <1>3 DEF IInv, Threads, Holder, Recording, othersOfWorker
<1>5. Counts'
  BY <1>1, <1>2, <1>3, CountsUnchanged DEF IInv
<1> QED
  BY <1>2, <1>3, <1>4, <1>5 DEF IInv

---------------------------------------------------------------------------
\* IInv is an inductive invariant of the threads that share the registry, for
\* any number of workers, rounds, calls, resets and panics.
THEOREM Invariance == Spec => []IInv
<1>1. IInv /\ [Next]_vars => IInv'
  <2> SUFFICES ASSUME IInv, [Next]_vars PROVE IInv'
    OBVIOUS
  <2>1. CASE Main
    BY <2>1, CallKeeps, CallReturnsKeeps, RunClientKeeps, JoinKeeps, PrintKeeps DEF Main
  <2>2. CASE Server
    BY <2>2, ServeReplyKeeps, ServeRecordsKeeps, ServeRecordedKeeps, ServeEndsKeeps DEF Server
  <2>3. CASE ServePanics
    BY <2>3, ServePanicsKeeps
  <2>4. CASE \E w \in Workers : Worker(w) \/ PanicUnderGuard(w) \/ PanicInDrop(w)
    BY <2>4, WorkerAlone, DropGuardKeeps, ReleaseKeeps DEF Worker
  <2>5. CASE TakeRows \/ SumRows \/ Forget
    BY <2>5, ObserverKeeps
  <2>6. CASE Reset
    BY <2>6, ResetInvariant
  <2>7. CASE UNCHANGED vars
    BY <2>7, StutterKeeps
  <2> QED
    BY <2>1, <2>2, <2>3, <2>4, <2>5, <2>6, <2>7 DEF Next
<1> QED
  BY <1>1, InitInvariant, PTL DEF Spec

\* The statistics are those of the calls recorded since the last reset,
\* whatever the threads and wherever record panicked: no update is lost and
\* none is wrapped.
THEOREM StatsCorrect == Spec => []StatsExact
<1>1. IInv => StatsExact
  BY LedgerExact DEF IInv
<1> QED
  BY <1>1, Invariance, PTL

\* A report shows one moment of the registry, as report and to_json build it
\* from the copy they took under the lock.
THEOREM ReportCorrect == Spec => []ReportIsWhole
<1>1. IInv => ReportIsWhole
  BY DEF IInv, Observed, ReportIsWhole
<1> QED
  BY <1>1, Invariance, PTL

\* What the load generator prints, rows and total, holds every call it made,
\* the one that the server records after its reply included.
THEOREM LoadReportCorrect == Spec => []LoadReportExact
<1>1. IInv => LoadReportExact
  BY DEF IInv, Reported
<1> QED
  BY <1>1, Invariance, PTL

---------------------------------------------------------------------------
(***************************************************************************)
(* Latencies.                                                              *)
(***************************************************************************)
LEMMA Bounds ==
  /\ DOMAIN UPPER_BOUNDS_US = 0 .. 10
  /\ UPPER_BOUNDS_US[0] = 1 /\ UPPER_BOUNDS_US[1] = 2 /\ UPPER_BOUNDS_US[2] = 4
  /\ UPPER_BOUNDS_US[3] = 8 /\ UPPER_BOUNDS_US[4] = 16 /\ UPPER_BOUNDS_US[5] = 32
  /\ UPPER_BOUNDS_US[6] = 64 /\ UPPER_BOUNDS_US[7] = 128 /\ UPPER_BOUNDS_US[8] = 256
  /\ UPPER_BOUNDS_US[9] = 512 /\ UPPER_BOUNDS_US[10] = 1024
  BY DEF UPPER_BOUNDS_US, BUCKETS

LEMMA BoundsAscend ==
  ASSUME NEW i \in 0 .. 10, NEW j \in 0 .. 10, i < j
  PROVE  UPPER_BOUNDS_US[i] < UPPER_BOUNDS_US[j] /\ UPPER_BOUNDS_US[i] \in Nat
<1> DEFINE u == UPPER_BOUNDS_US
<1>1. /\ u[0] = 1 /\ u[1] = 2 /\ u[2] = 4 /\ u[3] = 8 /\ u[4] = 16 /\ u[5] = 32
      /\ u[6] = 64 /\ u[7] = 128 /\ u[8] = 256 /\ u[9] = 512 /\ u[10] = 1024
  BY Bounds
<1>2. /\ i = 0 \/ i = 1 \/ i = 2 \/ i = 3 \/ i = 4 \/ i = 5 \/ i = 6 \/ i = 7 \/ i = 8 \/ i = 9
      /\ j = 1 \/ j = 2 \/ j = 3 \/ j = 4 \/ j = 5 \/ j = 6 \/ j = 7 \/ j = 8 \/ j = 9 \/ j = 10
  OBVIOUS
<1> HIDE DEF u
<1>3. u[i] < u[j] /\ u[i] \in Nat
  BY <1>1, <1>2
<1> QED
  BY <1>3 DEF u

\* The buckets divide the latencies, and bucket_index finds the right one.
LEMMA BucketOf ==
  ASSUME NEW d \in Durations
  PROVE  /\ bucket_index(d) \in 0 .. 11
         /\ \A i \in 0 .. 11 : d \in Bucket(i) <=> i = bucket_index(d)
<1> DEFINE u == UPPER_BOUNDS_US
           In(i) == (i > 0 => d >= u[i - 1]) /\ (i < 11 => d < u[i])
           A == {i \in 0 .. 10 : d < u[i]} \cup {11}
<1>1. d \in Nat
  BY RegistryAssumption
<1>2. \A i, j \in 0 .. 10 : i < j => u[i] < u[j]
  BY BoundsAscend
<1>3. \A i \in 0 .. 10 : u[i] \in Nat
  <2>1. u[10] = 1024
    BY Bounds
  <2>2. ASSUME NEW i \in 0 .. 10 PROVE u[i] \in Nat
    <3>1. CASE i = 10
      BY <2>1, <3>1
    <3>2. CASE i < 10
      BY <3>2, BoundsAscend
    <3> QED
      BY <3>1, <3>2
  <2> QED
    BY <2>2
<1>4. \E i \in 0 .. 11 : In(i)
  BY <1>1, Bounds
<1>5. PICK k \in 0 .. 11 : In(k)
  BY <1>4
<1>6. bucket_index(d) = CHOOSE x \in A : \A y \in A : x <= y
  BY Bounds DEF bucket_index, BUCKETS, Min
<1> HIDE DEF u
<1>7. k \in A /\ \A y \in A : k <= y
  <2>1. k \in A
    BY <1>5
  <2>2. ASSUME NEW y \in 0 .. 10, d < u[y], y < k PROVE FALSE
    <3>1. k - 1 \in 0 .. 10 /\ y <= k - 1 /\ d >= u[k - 1]
      BY <1>5, <2>2
    <3>2. u[y] <= u[k - 1]
      BY <1>2, <1>3, <3>1
    <3> QED
      BY <1>1, <1>3, <2>2, <3>1, <3>2
  <2> QED
    BY <2>1, <2>2
<1>8. \A x \in A : (\A y \in A : x <= y) => x = k
  BY <1>7
<1> HIDE DEF A
<1>9. bucket_index(d) = k
  BY <1>6, <1>7, <1>8
<1>10. ASSUME NEW i \in 0 .. 11 PROVE In(i) <=> i = k
  <2>1. ASSUME In(i), i < k PROVE FALSE
    <3>1. k - 1 \in 0 .. 10 /\ i \in 0 .. 10 /\ i <= k - 1 /\ d >= u[k - 1] /\ d < u[i]
      BY <1>5, <2>1
    <3> QED
      BY <1>1, <1>2, <1>3, <3>1
  <2>2. ASSUME In(i), k < i PROVE FALSE
    <3>1. i - 1 \in 0 .. 10 /\ k \in 0 .. 10 /\ k <= i - 1 /\ d >= u[i - 1] /\ d < u[k]
      BY <1>5, <2>2
    <3> QED
      BY <1>1, <1>2, <1>3, <3>1
  <2> QED
    BY <1>5, <2>1, <2>2
<1>11. \A i \in 0 .. 11 : d \in Bucket(i) <=> In(i)
  BY DEF Bucket, BUCKETS, u
<1> QED
  BY <1>5, <1>9, <1>10, <1>11

\* A histogram and what was measured.
Matches(h, m) ==
  /\ h \in [0 .. 11 -> Nat]
  /\ m \in [Durations -> Nat]
  /\ \A i \in 0 .. 11 : h[i] = Capped(SumFunctionOnSet(m, Bucket(i)))

LEMMA BucketFinite ==
  ASSUME NEW i
  PROVE  IsFiniteSet(Bucket(i)) /\ Bucket(i) \subseteq Durations
<1>1. Bucket(i) \in SUBSET Durations
  BY DEF Bucket
<1> QED
  BY <1>1, FS_Subset, RegistryAssumption

LEMMA EmptyMatches == Matches(LatencyHist, [x \in Durations |-> 0])
<1> DEFINE m == [x \in Durations |-> 0]
<1>1. ASSUME NEW i \in 0 .. 11
      PROVE  LatencyHist[i] = Capped(SumFunctionOnSet(m, Bucket(i)))
  <2> DEFINE S == Bucket(i)
  <2>1. IsFiniteSet(S) /\ \A x \in S : m[x] = 0
    BY BucketFinite
  <2> HIDE DEF m, S
  <2>2. SumFunctionOnSet(m, S) = 0
    BY <2>1, SumOfZeros
  <2>3. Capped(0) = 0
    BY RegistryAssumption DEF Capped
  <2> QED
    BY <2>2, <2>3 DEF LatencyHist, BUCKETS, S
<1>2. LatencyHist \in [0 .. 11 -> Nat] /\ m \in [Durations -> Nat]
  BY DEF LatencyHist, BUCKETS
<1> QED
  BY <1>1, <1>2 DEF Matches

\* One more latency, in its bucket and in the account.
LEMMA MatchesMore ==
  ASSUME NEW h, NEW m, Matches(h, m), NEW d \in Durations
  PROVE  Matches([h EXCEPT ![bucket_index(d)] = Plus(@, 1)], [m EXCEPT ![d] = @ + 1])
<1> DEFINE b == bucket_index(d)
           h2 == [h EXCEPT ![b] = Plus(h[b], 1)]
           m2 == [m EXCEPT ![d] = m[d] + 1]
<1>1. b \in 0 .. 11 /\ \A i \in 0 .. 11 : d \in Bucket(i) <=> i = b
  BY BucketOf
<1>2. /\ h \in [0 .. 11 -> Nat] /\ m \in [Durations -> Nat]
      /\ \A i \in 0 .. 11 : h[i] = Capped(SumFunctionOnSet(m, Bucket(i)))
  BY DEF Matches
<1> HIDE DEF b
<1>3. /\ h2 \in [0 .. 11 -> Nat] /\ m2 \in [Durations -> Nat]
      /\ \A i \in 0 .. 11 : h2[i] = IF i = b THEN Plus(h[b], 1) ELSE h[i]
      /\ \A x \in Durations : m2[x] = IF x = d THEN m[x] + 1 ELSE m[x]
  <2>1. Plus(h[b], 1) \in Nat
    BY <1>1, <1>2, RegistryAssumption DEF Plus
  <2> QED
    BY <1>1, <1>2, <2>1
<1> HIDE DEF h2, m2
<1>4. ASSUME NEW i \in 0 .. 11
      PROVE  h2[i] = Capped(SumFunctionOnSet(m2, Bucket(i)))
  <2> DEFINE S == Bucket(i)
             n == SumFunctionOnSet(m, S)
  <2>1. IsFiniteSet(S) /\ \A y \in S : y \in Durations
    BY BucketFinite
  <2> HIDE DEF S
  <2>2. /\ \A y \in S : m[y] \in Nat
        /\ \A y \in S : m2[y] = IF y = d THEN m[y] + 1 ELSE m[y]
    BY <1>2, <1>3, <2>1
  <2>3. n \in Nat /\ SumFunctionOnSet(m2, S) = n + (IF d \in S THEN 1 ELSE 0)
    BY <2>1, <2>2, SumBumped
  <2>4. h[i] = Capped(n)
    BY <1>2 DEF S
  <2> HIDE DEF n
  <2>5. CASE i = b
    <3>1. d \in S
      BY <1>1, <2>5 DEF S
    <3>2. Plus(Capped(n), 1) = Capped(n + 1)
      BY <2>3, CappedFacts
    <3> QED
      BY <1>3, <2>3, <2>4, <2>5, <3>1, <3>2 DEF S
  <2>6. CASE i # b
    <3>1. d \notin S
      BY <1>1, <2>6 DEF S
    <3>2. n + 0 = n
      BY <2>3
    <3> QED
      BY <1>3, <2>3, <2>4, <2>6, <3>1, <3>2 DEF S
  <2> QED
    BY <2>5, <2>6
<1>5. Matches(h2, m2)
  BY <1>3, <1>4 DEF Matches
<1> QED
  BY <1>5 DEF h2, m2, b

\* The histograms have an inductive invariant of their own: nothing but
\* record_latency touches them.
Histograms ==
  /\ DOMAIN latency = DOMAIN measured
  /\ \A a \in DOMAIN latency : Matches(latency[a], measured[a])

LEMMA MeasuredKeeps ==
  ASSUME Histograms, NEW a, NEW d \in Durations, record_latency(a, d)
  PROVE  Histograms'
<1> DEFINE h == Entry(latency, a, LatencyHist)
           m == Entry(measured, a, [x \in Durations |-> 0])
           h2 == [h EXCEPT ![bucket_index(d)] = Plus(@, 1)]
           m2 == [m EXCEPT ![d] = @ + 1]
<1>1. latency' = Put(latency, a, h2) /\ measured' = Put(measured, a, m2)
  BY DEF record_latency
<1>2. Matches(h, m)
  <2>1. CASE a \in DOMAIN latency
    BY <2>1 DEF Entry, Histograms
  <2>2. CASE a \notin DOMAIN latency
    BY <2>2, EmptyMatches DEF Entry, Histograms
  <2> QED
    BY <2>1, <2>2
<1>3. Matches(h2, m2)
  <2> HIDE DEF h, m
  <2> QED
    BY <1>2, MatchesMore
<1> HIDE DEF h2, m2
<1>4. /\ DOMAIN latency' = DOMAIN latency \cup {a}
      /\ DOMAIN measured' = DOMAIN measured \cup {a}
      /\ \A b \in DOMAIN latency' : latency'[b] = IF b = a THEN h2 ELSE latency[b]
      /\ \A b \in DOMAIN measured' : measured'[b] = IF b = a THEN m2 ELSE measured[b]
  BY <1>1 DEF Put
<1>5. ASSUME NEW b \in DOMAIN latency' PROVE Matches(latency'[b], measured'[b])
  BY <1>3, <1>4 DEF Histograms
<1> QED
  BY <1>4, <1>5 DEF Histograms

\* The latency histograms are exact, for any durations and any saturation
\* bound: each holds in each bucket all the latencies between its bounds that were
\* ever recorded, also before a reset, which leaves the histograms as they are.
THEOREM LatencyCorrect == Spec => []LatencyExact
<1>1. Init => Histograms
  <2> SUFFICES ASSUME Init PROVE Histograms
    OBVIOUS
  <2>1. latency = << >> /\ measured = << >> /\ DOMAIN << >> = {}
    BY DEF Init, InitRegistry
  <2> QED
    BY <2>1 DEF Histograms
<1>2. Histograms /\ [Next]_vars => Histograms'
  <2> SUFFICES ASSUME Histograms, [Next]_vars PROVE Histograms'
    OBVIOUS
  <2>1. CASE \E w \in Workers : Measure(w)
    BY <2>1, MeasuredKeeps DEF Measure
  <2>2. CASE ~\E w \in Workers : Measure(w)
    <3>1. CASE Main \/ Server \/ ServePanics
      <4>1. UNCHANGED <<latency, measured>>
        BY <3>1 DEF Main, Call, CallReturns, RunClientEnds, RunClientFails, Join, TakeTotal,
          PrintReport, Server, ServeReply, ServeRecords, ServeRecorded, ServeEnds, ServePanics,
          StartRecord, FinishRecord, PanicInRecord, registryVars
      <4> QED
        BY <4>1 DEF Histograms
    <3>2. CASE \E w \in Workers : Worker(w) \/ PanicUnderGuard(w) \/ PanicInDrop(w)
      <4>1. UNCHANGED <<latency, measured>>
        BY <2>2, <3>2 DEF Worker, Begin, set_bytes, DropGuard, Dropped, PanicUnderGuard,
          PanicInDrop, StartRecord, FinishRecord, PanicInRecord, registryVars
      <4> QED
        BY <4>1 DEF Histograms
    <3>3. CASE TakeRows \/ SumRows \/ Forget \/ Reset \/ UNCHANGED vars
      <4>1. UNCHANGED <<latency, measured>>
        BY <3>3 DEF TakeRows, SumRows, Forget, Reset, reset, registryVars, vars
      <4> QED
        BY <4>1 DEF Histograms
    <3> QED
      BY <3>1, <3>2, <3>3 DEF Next
  <2> QED
    BY <2>1, <2>2
<1>3. Histograms => LatencyExact
  <2>1. 0 .. BUCKETS - 1 = 0 .. 11
    BY DEF BUCKETS
  <2> QED
    BY <2>1 DEF Histograms, Matches, LatencyExact
<1> QED
  BY <1>1, <1>2, <1>3, PTL DEF Spec
===========================================================================
