-------------------------- MODULE ResultSinkProof --------------------------
(***************************************************************************)
(* Proofs about ResultSink, for every number of clients, messages and      *)
(* results and for latencies and setup times of any length:                *)
(*   - what a sum over a finite set is, from an induction over its         *)
(*     subsets; where the sixth significant digit of a number stands and   *)
(*     what printing it loses; no variance is negative;                    *)
(*   - the loop that reads frames keeps in step with the messages          *)
(*     (Framing), and what it counts is what was announced (Accounting);   *)
(*   - the mean, the variance and the setup times of the report (Numbers); *)
(*   - the loop implements that of module Controller.                      *)
(***************************************************************************)
EXTENDS ResultSink, SequenceTheorems, FiniteSetTheorems, TLAPS

Statuses == {"0", "nonzero"}

StatsFrame(c) ==
  [text |-> "stats", type |-> get_stats(c).type, fields |-> get_stats(c).fields]

(* The unread frames, at each s_recv of the loop.  At the top of the loop  *)
(* the last frame of a "Finished" may be left.                             *)
Framing ==
  /\ rpc \in {"status", "name", "exit_status", "stats", "last", "over"}
  /\ rpc \in {"status", "over"} =>
       \/ frames = <<>> \/ frames = <<Text("")>>
       \/ \E s \in Statuses : frames = FinishedMessage(s)
       \/ \E c \in Connections : frames = ResultMessage(c)
  /\ rpc = "name" => \E s \in Statuses : frames = <<Text(""), Text(s), Text("")>>
  /\ rpc = "exit_status" => \E s \in Statuses : frames = <<Text(s), Text("")>>
  /\ rpc = "stats" => \E c \in Connections : frames = <<StatsFrame(c), Text("")>>
  /\ rpc = "last" => frames = <<Text("")>> /\ \E c \in Connections : stats = StatsFrame(c)

(* A "Finished", a "Result" that has arrived and is not yet counted.       *)
FinishedDue ==
  \/ rpc \in {"name", "exit_status"}
  \/ rpc \in {"status", "over"} /\ frames # <<>> /\ Head(frames).text = "Finished"

ResultDue ==
  \/ rpc = "stats"
  \/ rpc \in {"status", "over"} /\ frames # <<>> /\ Head(frames).text = "Result"

One(P) == IF P THEN 1 ELSE 0

Counters ==
  /\ clientsFinished \in Nat /\ clientsDied \in Nat /\ resultsReceived \in Nat
  /\ connectionsSucceeded \in Nat /\ connectionsDied \in Nat
  /\ exits \in Nat /\ samples \in Nat /\ totalcount \in Nat
  /\ sent \in Seq(Connections) /\ setup_stats \in Seq(Int)

Accounting ==
  /\ clientsFinished + clientsDied + One(FinishedDue) = exits /\ exits <= Expected
  /\ resultsReceived + One(ResultDue) = Len(sent) /\ Len(sent) <= MaxResults
  /\ Handled + One(rpc = "last") = resultsReceived
  /\ Len(setup_stats) = Handled
  /\ samples <= totalcount /\ totalcount <= Handled * Messages

SinkInv == Framing /\ Counters /\ Accounting

-----------------------------------------------------------------------------
(* Sums over finite sets.                                                  *)

(* Induction over the subsets of a finite set, with the set of subsets     *)
(* that have the property instead of the property.                         *)
LEMMA SubsetInduction ==
  ASSUME NEW S, IsFiniteSet(S), NEW Good,
         \A t \in SUBSET S : (\A u \in SUBSET t : u # t => u \in Good) => t \in Good
  PROVE  \A t \in SUBSET S : t \in Good
<1> SUFFICES ASSUME (SUBSET S) \ Good # {} PROVE FALSE
  OBVIOUS
<1> DEFINE Bad == (SUBSET S) \ Good
           R == StrictSubsetOrdering(S)
<1>1. IsWellFoundedOn(R, SUBSET S)
  <2>1. FiniteSubsetsOf(S) = SUBSET S
    BY FS_FiniteSubsetsOfFinite
  <2>2. IsWellFoundedOn(R, FiniteSubsetsOf(S))
    BY FS_StrictSubsetOrderingWellFounded
  <2> QED
    BY <2>1, <2>2
<1>2. Bad \subseteq SUBSET S /\ Bad # {}
  OBVIOUS
<1> HIDE DEF Bad, R
<1>3. PICK t \in Bad : \A u \in Bad : ~ (<<u, t>> \in R)
  BY <1>1, <1>2, WFMin
<1>4. \A u \in SUBSET t : u # t => <<u, t>> \in R
  BY <1>2, <1>3 DEF R, StrictSubsetOrdering
<1>5. ASSUME NEW u \in SUBSET t, u # t PROVE u \in Good
  <2>1. u \notin Bad
    BY <1>3, <1>4, <1>5
  <2>2. u \in SUBSET S
    BY <1>2, <1>3
  <2> QED
    BY <2>1, <2>2 DEF Bad
<1> QED
  BY <1>2, <1>3, <1>5 DEF Bad

Picked(t) == CHOOSE x \in t : TRUE

(* The equation of the fold on the subsets of S.                           *)
Adds(g, f, S) ==
  g = [t \in SUBSET S |-> IF t = {} THEN 0 ELSE f[Picked(t)] + g[t \ {Picked(t)}]]

LEMMA PickedIn ==
  ASSUME NEW t, t # {}
  PROVE  Picked(t) \in t /\ t \ {Picked(t)} \in SUBSET t /\ t \ {Picked(t)} # t
<1>1. \E x \in t : TRUE
  OBVIOUS
<1>2. Picked(t) \in t
  BY <1>1 DEF Picked
<1> QED
  BY <1>2

LEMMA AddsAt ==
  ASSUME NEW g, NEW f, NEW S, Adds(g, f, S), NEW t \in SUBSET S
  PROVE  g[t] = IF t = {} THEN 0 ELSE f[Picked(t)] + g[t \ {Picked(t)}]
BY Zenon DEF Adds

LEMMA AddsUnique ==
  ASSUME NEW S, IsFiniteSet(S), NEW f, NEW T \in SUBSET S, NEW U \in SUBSET S,
         NEW g, Adds(g, f, T), NEW h, Adds(h, f, U)
  PROVE  \A t \in SUBSET S : t \subseteq T /\ t \subseteq U => g[t] = h[t]
<1> DEFINE Good == {t \in SUBSET S : t \subseteq T /\ t \subseteq U => g[t] = h[t]}
<1>1. ASSUME NEW t \in SUBSET S, \A u \in SUBSET t : u # t => u \in Good
      PROVE  t \in Good
  <2> SUFFICES ASSUME t \subseteq T, t \subseteq U PROVE g[t] = h[t]
    OBVIOUS
  <2>1. /\ g[t] = IF t = {} THEN 0 ELSE f[Picked(t)] + g[t \ {Picked(t)}]
        /\ h[t] = IF t = {} THEN 0 ELSE f[Picked(t)] + h[t \ {Picked(t)}]
    BY AddsAt
  <2>2. t # {} => g[t \ {Picked(t)}] = h[t \ {Picked(t)}]
    BY <1>1, PickedIn
  <2> QED
    BY <2>1, <2>2
<1> HIDE DEF Good
<1>2. \A t \in SUBSET S : t \in Good
  BY <1>1, SubsetInduction
<1> QED
  BY <1>2 DEF Good

LEMMA AddsExists ==
  ASSUME NEW S, IsFiniteSet(S), NEW f
  PROVE  \A t \in SUBSET S : \E g : Adds(g, f, t)
<1> DEFINE Good == {t \in SUBSET S : \E g : Adds(g, f, t)}
<1>1. ASSUME NEW t \in SUBSET S, \A u \in SUBSET t : u # t => u \in Good
      PROVE  t \in Good
  <2> DEFINE G(u) == CHOOSE g : Adds(g, f, u)
             h == [u \in SUBSET t |->
                     IF u = {} THEN 0
                     ELSE f[Picked(u)] + G(u \ {Picked(u)})[u \ {Picked(u)}]]
  <2>1. ASSUME NEW u \in SUBSET t, u # t PROVE Adds(G(u), f, u)
    <3>1. \E g : Adds(g, f, u)
      BY <1>1, <2>1
    <3> QED
      BY <3>1
  <2> HIDE DEF G
  <2>2. ASSUME NEW u \in SUBSET t
        PROVE  h[u] = IF u = {} THEN 0 ELSE f[Picked(u)] + G(u \ {Picked(u)})[u \ {Picked(u)}]
    OBVIOUS
  <2>3. ASSUME NEW u \in SUBSET t, u # t PROVE h[u] = G(u)[u]
    <3>1. CASE u = {}
      BY <2>1, <2>2, <2>3, <3>1, AddsAt
    <3>2. CASE u # {}
      <4> DEFINE w == u \ {Picked(u)}
      <4>1. w \in SUBSET u /\ w # t /\ w \in SUBSET t
        BY <2>3, <3>2, PickedIn
      <4>2. Adds(G(u), f, u) /\ Adds(G(w), f, w)
        BY <2>1, <2>3, <4>1
      <4>3. G(u)[w] = G(w)[w]
        <5>1. u \in SUBSET S /\ w \in SUBSET S
          BY <4>1
        <5> DEFINE a == G(u)
                   b == G(w)
        <5>2. Adds(a, f, u) /\ Adds(b, f, w)
          BY <4>2
        <5> HIDE DEF w, a, b
        <5>3. \A x \in SUBSET S : x \subseteq u /\ x \subseteq w => a[x] = b[x]
          BY <5>1, <5>2, AddsUnique
        <5>4. a[w] = b[w]
          BY <4>1, <5>1, <5>3
        <5> QED
          BY <5>4 DEF a, b
      <4>4. G(u)[u] = f[Picked(u)] + G(u)[w]
        BY <3>2, <4>2, AddsAt
      <4> QED
        BY <2>2, <3>2, <4>3, <4>4
    <3> QED
      BY <3>1, <3>2
  <2>4. ASSUME NEW u \in SUBSET t, u # {}
        PROVE  h[u \ {Picked(u)}] = G(u \ {Picked(u)})[u \ {Picked(u)}]
    BY <2>3, <2>4, PickedIn
  <2>5. Adds(h, f, t)
    <3>1. \A u \in SUBSET t :
            h[u] = IF u = {} THEN 0 ELSE f[Picked(u)] + h[u \ {Picked(u)}]
      BY <2>2, <2>4, Zenon
    <3>2. h = [u \in SUBSET t |-> h[u]]
      OBVIOUS
    <3> HIDE DEF h
    <3> QED
      BY <3>1, <3>2 DEF Adds
  <2> QED
    BY <2>5
<1> HIDE DEF Good
<1>2. \A t \in SUBSET S : t \in Good
  BY <1>1, SubsetInduction
<1> QED
  BY <1>2 DEF Good

(* What the operator of the library computes: the equation holds.          *)
LEMMA SumAdds ==
  ASSUME NEW S, IsFiniteSet(S), NEW f, NEW T \in SUBSET S
  PROVE  \E g : Adds(g, f, T) /\ SumFunctionOnSet(f, T) = g[T]
<1> DEFINE h == CHOOSE g : Adds(g, f, T)
<1>1. Adds(h, f, T)
  BY AddsExists
<1>2. SumFunctionOnSet(f, T) = h[T]
  BY DEF SumFunctionOnSet, FoldFunctionOnSet, MapThenFoldSet, Adds, Picked
<1> QED
  BY <1>1, <1>2

(* Sums of integers: their type, and the order does not matter.            *)
LEMMA SumParts ==
  ASSUME NEW S, IsFiniteSet(S), NEW f, \A i \in S : f[i] \in Int
  PROVE  \A t \in SUBSET S :
           /\ SumFunctionOnSet(f, t) \in Int
           /\ t = {} => SumFunctionOnSet(f, t) = 0
           /\ \A x \in t : SumFunctionOnSet(f, t) = f[x] + SumFunctionOnSet(f, t \ {x})
<1>1. PICK g : Adds(g, f, S)
  BY AddsExists
<1>2. g[{}] = 0
  BY <1>1, AddsAt
<1>3. \A t \in SUBSET S : g[t] \in Int
  <2> DEFINE Good == {t \in SUBSET S : g[t] \in Int}
  <2>1. ASSUME NEW t \in SUBSET S, \A u \in SUBSET t : u # t => u \in Good
        PROVE  t \in Good
    <3>1. CASE t = {}
      BY <1>2, <3>1
    <3>2. CASE t # {}
      <4>1. Picked(t) \in S /\ g[t \ {Picked(t)}] \in Int
        BY <2>1, <3>2, PickedIn
      <4>2. g[t] = f[Picked(t)] + g[t \ {Picked(t)}]
        BY <1>1, <3>2, AddsAt
      <4> QED
        BY <4>1, <4>2
    <3> QED
      BY <3>1, <3>2
  <2> HIDE DEF Good
  <2>2. \A t \in SUBSET S : t \in Good
    BY <2>1, SubsetInduction
  <2> QED
    BY <2>2 DEF Good
<1>4. \A t \in SUBSET S : SumFunctionOnSet(f, t) = g[t]
  <2> TAKE t \in SUBSET S
  <2>1. PICK h : Adds(h, f, t) /\ SumFunctionOnSet(f, t) = h[t]
    BY SumAdds
  <2>2. \A x \in SUBSET S : x \subseteq S /\ x \subseteq t => g[x] = h[x]
    <3>1. S \in SUBSET S
      OBVIOUS
    <3> QED
      BY <1>1, <2>1, <3>1, AddsUnique
  <2> QED
    BY <2>1, <2>2
<1>5. \A t \in SUBSET S : \A x \in t : g[t] = f[x] + g[t \ {x}]
  <2> DEFINE Good == {t \in SUBSET S : \A x \in t : g[t] = f[x] + g[t \ {x}]}
  <2>1. ASSUME NEW t \in SUBSET S, \A u \in SUBSET t : u # t => u \in Good
        PROVE  t \in Good
    <3> SUFFICES ASSUME NEW x \in t PROVE g[t] = f[x] + g[t \ {x}]
      OBVIOUS
    <3> DEFINE p == Picked(t)
    <3>1. p \in t /\ g[t] = f[p] + g[t \ {p}]
      BY <1>1, PickedIn, AddsAt
    <3> HIDE DEF p
    <3>2. CASE x = p
      BY <3>1, <3>2
    <3>3. CASE x # p
      <4>1. g[t \ {p}] = f[x] + g[(t \ {p}) \ {x}]
        <5>1. t \ {p} \in SUBSET t /\ t \ {p} # t /\ x \in t \ {p}
          BY <3>1, <3>3
        <5> QED
          BY <2>1, <5>1
      <4>2. g[t \ {x}] = f[p] + g[(t \ {x}) \ {p}]
        <5>1. t \ {x} \in SUBSET t /\ t \ {x} # t /\ p \in t \ {x}
          BY <3>1, <3>3
        <5> QED
          BY <2>1, <5>1
      <4>3. (t \ {p}) \ {x} = (t \ {x}) \ {p}
        OBVIOUS
      <4>4. f[x] \in Int /\ f[p] \in Int /\ g[(t \ {x}) \ {p}] \in Int
        BY <1>3, <3>1
      <4>5. \A a, b, c \in Int : a + (b + c) = b + (a + c)
        OBVIOUS
      <4> DEFINE r == g[(t \ {x}) \ {p}]
      <4>6. f[p] + (f[x] + r) = f[x] + (f[p] + r)
        BY <4>4, <4>5
      <4>7. g[t] = f[p] + (f[x] + r)
        BY <3>1, <4>1, <4>3
      <4> QED
        BY <4>2, <4>6, <4>7
    <3> QED
      BY <3>2, <3>3
  <2> HIDE DEF Good
  <2>2. \A t \in SUBSET S : t \in Good
    BY <2>1, SubsetInduction
  <2> QED
    BY <2>2 DEF Good
<1> QED
  BY <1>2, <1>3, <1>4, <1>5

LEMMA SumEmpty ==
  ASSUME NEW f
  PROVE  SumFunctionOnSet(f, {}) = 0
<1>1. IsFiniteSet({}) /\ \A i \in {} : f[i] \in Int
  BY FS_EmptySet
<1>2. \A t \in SUBSET {} : t = {} => SumFunctionOnSet(f, t) = 0
  BY <1>1, SumParts
<1> QED
  BY <1>2

LEMMA SumWith ==
  ASSUME NEW S, IsFiniteSet(S), NEW f, NEW x, x \notin S,
         \A i \in S \cup {x} : f[i] \in Int
  PROVE  /\ SumFunctionOnSet(f, S) \in Int
         /\ SumFunctionOnSet(f, S \cup {x}) = f[x] + SumFunctionOnSet(f, S)
<1> DEFINE T == S \cup {x}
<1>1. IsFiniteSet(T)
  BY FS_AddElement
<1>2. x \in T /\ T \ {x} = S /\ S \in SUBSET T /\ T \in SUBSET T /\ \A i \in T : f[i] \in Int
  OBVIOUS
<1> HIDE DEF T
<1>3. \A t \in SUBSET T :
        /\ SumFunctionOnSet(f, t) \in Int
        /\ \A y \in t : SumFunctionOnSet(f, t) = f[y] + SumFunctionOnSet(f, t \ {y})
  BY <1>1, <1>2, SumParts
<1>4. SumFunctionOnSet(f, T) = f[x] + SumFunctionOnSet(f, S) /\ SumFunctionOnSet(f, S) \in Int
  BY <1>2, <1>3
<1> QED
  BY <1>4 DEF T

LEMMA SumSame ==
  ASSUME NEW S, IsFiniteSet(S), NEW f, NEW e, \A i \in S : f[i] \in Int /\ e[i] = f[i]
  PROVE  SumFunctionOnSet(e, S) = SumFunctionOnSet(f, S)
<1>0. \A i \in S : f[i] \in Int /\ e[i] \in Int
  OBVIOUS
<1> DEFINE F(t) == SumFunctionOnSet(f, t)
           E(t) == SumFunctionOnSet(e, t)
           Good == {t \in SUBSET S : E(t) = F(t)}
<1>1. \A t \in SUBSET S : /\ t = {} => F(t) = 0 /\ E(t) = 0
                          /\ \A x \in t : F(t) = f[x] + F(t \ {x}) /\ E(t) = e[x] + E(t \ {x})
  BY <1>0, SumParts
<1> HIDE DEF E, F
<1>2. ASSUME NEW t \in SUBSET S, \A u \in SUBSET t : u # t => u \in Good
      PROVE  t \in Good
  <2>1. CASE t = {}
    BY <1>1, <2>1
  <2>2. CASE t # {}
    <3>1. PICK x \in t : TRUE
      BY <2>2
    <3>2. t \ {x} \in SUBSET t /\ t \ {x} # t
      BY <3>1
    <3>3. E(t \ {x}) = F(t \ {x})
      BY <1>2, <3>2
    <3> QED
      BY <1>1, <3>1, <3>3
  <2> QED
    BY <2>1, <2>2
<1>3. \A t \in SUBSET S : t \in Good
  <2> HIDE DEF Good
  <2> QED
    BY <1>2, SubsetInduction
<1>4. E(S) = F(S)
  BY <1>3
<1> QED
  BY <1>4 DEF E, F

(* The same induction, one element at a time.                              *)
LEMMA GrowInduction ==
  ASSUME NEW S, IsFiniteSet(S), NEW Good, {} \in Good,
         \A t \in SUBSET S : t \in Good => \A x \in S \ t : t \cup {x} \in Good
  PROVE  S \in Good
<1>1. ASSUME NEW t \in SUBSET S, \A u \in SUBSET t : u # t => u \in Good
      PROVE  t \in Good
  <2>1. CASE t = {}
    BY <2>1
  <2>2. CASE t # {}
    <3>1. PICK x \in t : TRUE
      BY <2>2
    <3>2. t \ {x} \in SUBSET t /\ t \ {x} # t /\ (t \ {x}) \cup {x} = t
      BY <3>1
    <3>3. t \ {x} \in Good
      BY <1>1, <3>2
    <3>4. t \ {x} \in SUBSET S /\ x \in S \ (t \ {x})
      BY <3>1
    <3> QED
      BY <3>2, <3>3, <3>4
  <2> QED
    BY <2>1, <2>2
<1>2. \A t \in SUBSET S : t \in Good
  BY <1>1, SubsetInduction
<1> QED
  BY <1>2

LEMMA SumNat ==
  ASSUME NEW S, IsFiniteSet(S), NEW f, \A i \in S : f[i] \in Nat
  PROVE  SumFunctionOnSet(f, S) \in Nat
<1> DEFINE Good == {t \in SUBSET S : SumFunctionOnSet(f, t) \in Nat}
<1>1. {} \in Good
  BY SumEmpty
<1>2. ASSUME NEW t \in SUBSET S, t \in Good, NEW x \in S \ t
      PROVE  t \cup {x} \in Good
  <2>1. IsFiniteSet(t)
    BY FS_Subset
  <2>2. \A i \in t \cup {x} : f[i] \in Int
    OBVIOUS
  <2>3. SumFunctionOnSet(f, t \cup {x}) = f[x] + SumFunctionOnSet(f, t)
    BY <2>1, <2>2, SumWith
  <2>4. \A a, b \in Nat : a + b \in Nat
    OBVIOUS
  <2> QED
    BY <1>2, <2>3, <2>4
<1> HIDE DEF Good
<1>3. S \in Good
  BY <1>1, <1>2, GrowInduction
<1> QED
  BY <1>3 DEF Good

(* A finite set of integers has a smallest and a largest element.          *)
LEMMA Bounded ==
  ASSUME NEW S, IsFiniteSet(S), S \subseteq Int, S # {}
  PROVE  \E a, b \in S : \A y \in S : a <= y /\ b >= y
<1> DEFINE Good == {t \in SUBSET S : t = {} \/ \E a, b \in t : \A y \in t : a <= y /\ b >= y}
<1>1. {} \in Good
  OBVIOUS
<1>2. ASSUME NEW t \in SUBSET S, t \in Good, NEW x \in S \ t
      PROVE  t \cup {x} \in Good
  <2>1. CASE t = {}
    BY <2>1
  <2>2. CASE t # {}
    <3>1. PICK a \in t, b \in t : \A y \in t : a <= y /\ b >= y
      BY <1>2, <2>2
    <3> DEFINE c == IF x < a THEN x ELSE a
               d == IF x > b THEN x ELSE b
    <3>2. c \in t \cup {x} /\ d \in t \cup {x}
      OBVIOUS
    <3>3. \A y \in t \cup {x} : c <= y /\ d >= y
      BY <3>1
    <3> QED
      BY <3>2, <3>3
  <2> QED
    BY <2>1, <2>2
<1> HIDE DEF Good
<1>3. S \in Good
  BY <1>1, <1>2, GrowInduction
<1> QED
  BY <1>3 DEF Good

LEMMA Extremes ==
  ASSUME NEW S, IsFiniteSet(S), S \subseteq Int, S # {}
  PROVE  Min(S) \in S /\ Max(S) \in S
<1>1. PICK a \in S, b \in S : \A y \in S : a <= y /\ b >= y
  BY Bounded
<1>2. Min(S) \in S
  BY <1>1 DEF Min
<1>3. Max(S) \in S
  BY <1>1 DEF Max
<1> QED
  BY <1>2, <1>3

(* The squared distances of the numbers from x add up to no less than 0.   *)
LEMMA Distances ==
  ASSUME NEW S, IsFiniteSet(S), NEW f, NEW q, NEW x \in Int,
         \A i \in S : f[i] \in Int /\ q[i] \in Int /\ q[i] = f[i] * f[i]
  PROVE  /\ SumFunctionOnSet(f, S) \in Int /\ SumFunctionOnSet(q, S) \in Int
         /\ SumFunctionOnSet(q, S) - 2 * x * SumFunctionOnSet(f, S) + Cardinality(S) * (x * x) >= 0
<1> DEFINE T(t) == SumFunctionOnSet(f, t)
           Q(t) == SumFunctionOnSet(q, t)
           Good == {t \in SUBSET S : Q(t) - 2 * x * T(t) + Cardinality(t) * (x * x) >= 0}
<1>0. \A t \in SUBSET S : T(t) \in Int /\ Q(t) \in Int
  BY SumParts
<1>1. {} \in Good
  <2>1. T({}) = 0 /\ Q({}) = 0 /\ Cardinality({}) = 0
    BY SumEmpty, FS_EmptySet
  <2>2. 0 - 2 * x * 0 + 0 * (x * x) >= 0
    OBVIOUS
  <2> HIDE DEF T, Q
  <2>3. Q({}) - 2 * x * T({}) + Cardinality({}) * (x * x) >= 0
    BY <2>1, <2>2
  <2> QED
    BY <2>3
<1>2. ASSUME NEW t \in SUBSET S, t \in Good, NEW i \in S \ t
      PROVE  t \cup {i} \in Good
  <2> DEFINE u == t \cup {i}
  <2>1. /\ IsFiniteSet(t) /\ Cardinality(t) \in Nat
        /\ Cardinality(u) = Cardinality(t) + 1
    BY FS_Subset, FS_CardinalityType, FS_AddElement
  <2>2. T(u) = f[i] + T(t) /\ Q(u) = q[i] + Q(t)
    <3>1. \A j \in t \cup {i} : f[j] \in Int /\ q[j] \in Int
      OBVIOUS
    <3> QED
      BY <2>1, <3>1, SumWith
  <2>3. \A n, a, b, y \in Int :
          (y * y + b) - 2 * x * (y + a) + (n + 1) * (x * x)
            = (b - 2 * x * a + n * (x * x)) + (y - x) * (y - x)
    OBVIOUS
  <2>4. \A y \in Int : (y - x) * (y - x) >= 0 /\ (y - x) * (y - x) \in Int
    OBVIOUS
  <2>5. Q(t) - 2 * x * T(t) + Cardinality(t) * (x * x) >= 0
    BY <1>2
  <2>6. T(t) \in Int /\ Q(t) \in Int /\ f[i] \in Int /\ q[i] = f[i] * f[i]
    BY <1>0
  <2> HIDE DEF u, T, Q
  <2> DEFINE old == Q(t) - 2 * x * T(t) + Cardinality(t) * (x * x)
             more == (f[i] - x) * (f[i] - x)
  <2>7. Q(u) - 2 * x * T(u) + Cardinality(u) * (x * x) = old + more
    BY <2>1, <2>2, <2>3, <2>6
  <2>8. old \in Int /\ more \in Int /\ old >= 0 /\ more >= 0
    <3>1. \A n, a, b \in Int : b - 2 * x * a + n * (x * x) \in Int
      OBVIOUS
    <3>2. old \in Int
      BY <2>1, <2>6, <3>1
    <3>3. more \in Int /\ more >= 0
      BY <2>4, <2>6
    <3> QED
      BY <2>5, <3>2, <3>3
  <2> HIDE DEF old, more
  <2>9. Q(u) - 2 * x * T(u) + Cardinality(u) * (x * x) >= 0
    BY <2>7, <2>8
  <2> QED
    BY <2>9 DEF u
<1>3. S \in Good
  <2> HIDE DEF Good
  <2> QED
    BY <1>1, <1>2, GrowInduction
<1> QED
  BY <1>0, <1>3

(* The squares of n numbers, n times, are no less than the square of their *)
(* sum (Cauchy-Schwarz): no variance is negative.                          *)
LEMMA CauchySchwarz ==
  ASSUME NEW S, IsFiniteSet(S), NEW f, NEW q,
         \A i \in S : f[i] \in Int /\ q[i] \in Int /\ q[i] = f[i] * f[i]
  PROVE  Cardinality(S) * SumFunctionOnSet(q, S)
           - SumFunctionOnSet(f, S) * SumFunctionOnSet(f, S) >= 0
<1> DEFINE T(t) == SumFunctionOnSet(f, t)
           Q(t) == SumFunctionOnSet(q, t)
           Good == {t \in SUBSET S : Cardinality(t) * Q(t) - T(t) * T(t) >= 0}
<1>0. \A t \in SUBSET S : T(t) \in Int /\ Q(t) \in Int
  BY SumParts
<1>1. {} \in Good
  <2>1. T({}) = 0 /\ Q({}) = 0 /\ Cardinality({}) = 0
    BY SumEmpty, FS_EmptySet
  <2>2. 0 * 0 - 0 * 0 >= 0
    OBVIOUS
  <2> HIDE DEF T, Q
  <2>3. Cardinality({}) * Q({}) - T({}) * T({}) >= 0
    BY <2>1, <2>2
  <2> QED
    BY <2>3
<1>2. ASSUME NEW t \in SUBSET S, t \in Good, NEW i \in S \ t
      PROVE  t \cup {i} \in Good
  <2> DEFINE u == t \cup {i}
  <2>1. /\ IsFiniteSet(t) /\ Cardinality(t) \in Int
        /\ Cardinality(u) = Cardinality(t) + 1
    BY FS_Subset, FS_CardinalityType, FS_AddElement
  <2>2. T(u) = f[i] + T(t) /\ Q(u) = q[i] + Q(t)
    <3>1. \A j \in t \cup {i} : f[j] \in Int /\ q[j] \in Int
      OBVIOUS
    <3> QED
      BY <2>1, <3>1, SumWith
  <2>3. \A n, a, b, y \in Int :
          /\ (n + 1) * (y * y + b) - (y + a) * (y + a)
               = (n * b - a * a) + (b - 2 * y * a + n * (y * y))
          /\ n * b - a * a \in Int /\ b - 2 * y * a + n * (y * y) \in Int
    OBVIOUS
  <2>4. T(t) \in Int /\ Q(t) \in Int /\ f[i] \in Int /\ q[i] = f[i] * f[i]
    BY <1>0
  <2>5. Cardinality(t) * Q(t) - T(t) * T(t) >= 0
    BY <1>2
  <2>6. Q(t) - 2 * f[i] * T(t) + Cardinality(t) * (f[i] * f[i]) >= 0
    <3>1. \A j \in t : f[j] \in Int /\ q[j] \in Int /\ q[j] = f[j] * f[j]
      OBVIOUS
    <3> QED
      BY <2>1, <2>4, <3>1, Distances
  <2> HIDE DEF u, T, Q
  <2> DEFINE old == Cardinality(t) * Q(t) - T(t) * T(t)
             more == Q(t) - 2 * f[i] * T(t) + Cardinality(t) * (f[i] * f[i])
  <2>7. /\ Cardinality(u) * Q(u) - T(u) * T(u) = old + more
        /\ old \in Int /\ more \in Int
    <3> DEFINE n == Cardinality(t)
               a == T(t)
               b == Q(t)
               y == f[i]
    <3>1. n \in Int /\ a \in Int /\ b \in Int /\ y \in Int
      BY <2>1, <2>4
    <3>2. Cardinality(u) = n + 1 /\ T(u) = y + a /\ Q(u) = y * y + b
      BY <2>1, <2>2, <2>4
    <3>3. old = n * b - a * a /\ more = b - 2 * y * a + n * (y * y)
      OBVIOUS
    <3> HIDE DEF n, a, b, y, old, more
    <3>4. /\ (n + 1) * (y * y + b) - (y + a) * (y + a) = old + more
          /\ old \in Int /\ more \in Int
      BY <2>3, <3>1, <3>3
    <3> QED
      BY <3>2, <3>4
  <2>8. old >= 0 /\ more >= 0
    BY <2>5, <2>6
  <2> HIDE DEF old, more
  <2>9. Cardinality(u) * Q(u) - T(u) * T(u) >= 0
    BY <2>7, <2>8
  <2> QED
    BY <2>9 DEF u
<1>3. S \in Good
  <2> HIDE DEF Good
  <2> QED
    BY <1>1, <1>2, GrowInduction
<1> QED
  BY <1>3

-----------------------------------------------------------------------------
(* Integer division, and what printing loses.                              *)
LEMMA Division ==
  ASSUME NEW a \in Int, NEW b \in Nat \ {0}
  PROVE  /\ a \div b \in Int /\ b * (a \div b) <= a /\ a < b * (a \div b) + b
         /\ a >= 0 => a \div b \in Nat
OBVIOUS

LEMMA Cancel ==
  ASSUME NEW n \in Nat \ {0}, NEW a \in Int, NEW b \in Int, n * a < n * b
  PROVE  a < b
OBVIOUS

(* Strong induction over Nat, with the set of the numbers that have the    *)
(* property instead of the property.                                       *)
LEMMA NatSetInduction ==
  ASSUME NEW Good, \A n \in Nat : (\A m \in 0 .. (n - 1) : m \in Good) => n \in Good
  PROVE  \A n \in Nat : n \in Good
<1> SUFFICES ASSUME NEW n \in Nat, n \notin Good PROVE FALSE
  OBVIOUS
<1> DEFINE Bad == {m \in 0 .. n : m \notin Good}
<1>1. IsFiniteSet(Bad)
  <2>1. IsFiniteSet(0 .. n) /\ Bad \subseteq 0 .. n
    BY FS_Interval
  <2> QED
    BY <2>1, FS_Subset
<1>2. Bad \subseteq Int /\ Bad # {}
  OBVIOUS
<1>3. PICK a \in Bad : \A y \in Bad : a <= y
  BY <1>1, <1>2, Bounded
<1>4. \A m \in 0 .. (a - 1) : m \in Good
  BY <1>3
<1> QED
  BY <1>3, <1>4

LEMMA Millions == Micro \in Nat \ {0}
BY SMT DEF Micro

LEMMA Tenth ==
  ASSUME NEW x \in Nat
  PROVE  x \div 10 \in Nat /\ 10 * (x \div 10) <= x /\ (x # 0 => x \div 10 \in 0 .. (x - 1))
OBVIOUS

(* The equation of SixthPlace, up to m.                                    *)
Places(g, m) == g = [x \in 0 .. m |-> IF x < Micro THEN 1 ELSE 10 * g[x \div 10]]

LEMMA PlacesAt ==
  ASSUME NEW m \in Nat, NEW g, Places(g, m), NEW x \in 0 .. m
  PROVE  g[x] = IF x < Micro THEN 1 ELSE 10 * g[x \div 10]
BY Zenon DEF Places

LEMMA PlacesUnique ==
  ASSUME NEW m \in Nat, NEW g, Places(g, m), NEW k \in Nat, NEW h, Places(h, k)
  PROVE  \A x \in Nat : x \in 0 .. m /\ x \in 0 .. k => g[x] = h[x]
<1> DEFINE Good == {x \in Nat : x \in 0 .. m /\ x \in 0 .. k => g[x] = h[x]}
<1>1. ASSUME NEW x \in Nat, \A y \in 0 .. (x - 1) : y \in Good
      PROVE  x \in Good
  <2> SUFFICES ASSUME x \in 0 .. m, x \in 0 .. k PROVE g[x] = h[x]
    OBVIOUS
  <2>1. /\ g[x] = IF x < Micro THEN 1 ELSE 10 * g[x \div 10]
        /\ h[x] = IF x < Micro THEN 1 ELSE 10 * h[x \div 10]
    BY PlacesAt
  <2>2. CASE x < Micro
    BY <2>1, <2>2
  <2>3. CASE ~(x < Micro)
    <3> DEFINE y == x \div 10
    <3>1. y \in 0 .. (x - 1)
      BY <2>3, Millions, Tenth
    <3> HIDE DEF y
    <3>2. y \in Nat /\ y \in 0 .. m /\ y \in 0 .. k
      BY <3>1
    <3>3. g[y] = h[y]
      BY <1>1, <3>1, <3>2
    <3> QED
      BY <2>1, <2>3, <3>3 DEF y
  <2> QED
    BY <2>2, <2>3
<1> HIDE DEF Good
<1>2. \A x \in Nat : x \in Good
  BY <1>1, NatSetInduction
<1> QED
  BY <1>2 DEF Good

LEMMA PlacesExist == \A m \in Nat : \E g : Places(g, m)
<1> DEFINE Good == {m \in Nat : \E g : Places(g, m)}
<1>1. ASSUME NEW m \in Nat, \A k \in 0 .. (m - 1) : k \in Good
      PROVE  m \in Good
  <2>1. CASE m = 0
    <3> DEFINE g == [x \in 0 .. m |-> 1]
    <3>1. \A x \in 0 .. m : x < Micro
      BY <2>1, Millions
    <3>2. g = [x \in 0 .. m |-> IF x < Micro THEN 1 ELSE 10 * g[x \div 10]]
      BY <3>1
    <3> QED
      BY <3>2 DEF Places
  <2>2. CASE m # 0
    <3>1. m - 1 \in 0 .. (m - 1) /\ m - 1 \in Nat
      BY <2>2
    <3>2. PICK f : Places(f, m - 1)
      BY <1>1, <3>1
    <3> DEFINE g == [x \in 0 .. m |-> IF x # m THEN f[x]
                                      ELSE IF x < Micro THEN 1 ELSE 10 * f[x \div 10]]
    <3>3. \A x \in 0 .. m : g[x] = IF x # m THEN f[x]
                                   ELSE IF x < Micro THEN 1 ELSE 10 * f[x \div 10]
      OBVIOUS
    <3>4. g = [x \in 0 .. m |-> g[x]]
      OBVIOUS
    <3> HIDE DEF g
    <3>5. ASSUME NEW x \in 0 .. m PROVE g[x] = IF x < Micro THEN 1 ELSE 10 * g[x \div 10]
      <4>1. CASE x < Micro
        <5>1. x # m => x \in 0 .. (m - 1)
          OBVIOUS
        <5>2. x # m => f[x] = 1
          BY <3>1, <3>2, <4>1, <5>1, PlacesAt
        <5> QED
          BY <3>3, <4>1, <5>2
      <4>2. CASE ~(x < Micro)
        <5> DEFINE y == x \div 10
        <5>1. y \in 0 .. (x - 1)
          BY <4>2, Millions, Tenth
        <5> HIDE DEF y
        <5>2. y \in 0 .. m /\ y # m
          BY <5>1
        <5>3. g[y] = f[y]
          BY <3>3, <5>2
        <5>4. g[x] = 10 * f[y]
          <6>1. CASE x = m
            BY <3>3, <4>2, <6>1 DEF y
          <6>2. CASE x # m
            <7>1. x \in 0 .. (m - 1)
              BY <6>2
            <7>2. f[x] = 10 * f[y]
              BY <3>1, <3>2, <4>2, <7>1, PlacesAt DEF y
            <7> QED
              BY <3>3, <6>2, <7>2
          <6> QED
            BY <6>1, <6>2
        <5> QED
          BY <4>2, <5>3, <5>4 DEF y
      <4> QED
        BY <4>1, <4>2
    <3>6. Places(g, m)
      BY <3>4, <3>5 DEF Places
    <3> QED
      BY <3>6
  <2> QED
    BY <2>1, <2>2
<1> HIDE DEF Good
<1>2. \A m \in Nat : m \in Good
  BY <1>1, NatSetInduction
<1> QED
  BY <1>2 DEF Good

(* What SixthPlace computes: the equation it is defined by holds.          *)
LEMMA SixthPlaceAt ==
  \A x \in Nat : SixthPlace[x] = IF x < Micro THEN 1 ELSE 10 * SixthPlace[x \div 10]
<1> DEFINE G(m) == CHOOSE g : Places(g, m)
           h == [x \in Nat |-> G(x)[x]]
<1>1. \A m \in Nat : Places(G(m), m)
  BY PlacesExist
<1> HIDE DEF G
<1>2. ASSUME NEW x \in Nat PROVE h[x] = IF x < Micro THEN 1 ELSE 10 * h[x \div 10]
  <2>1. x \in 0 .. x /\ h[x] = G(x)[x]
    OBVIOUS
  <2>2. G(x)[x] = IF x < Micro THEN 1 ELSE 10 * G(x)[x \div 10]
    BY <1>1, <2>1, PlacesAt
  <2>3. CASE x < Micro
    BY <2>1, <2>2, <2>3
  <2>4. CASE ~(x < Micro)
    <3> DEFINE y == x \div 10
               a == G(x)
               b == G(y)
    <3>1. y \in 0 .. (x - 1)
      BY <2>4, Millions, Tenth
    <3>2. h[y] = b[y] /\ Places(a, x) /\ Places(b, y)
      BY <1>1, <3>1
    <3> HIDE DEF y, a, b
    <3>3. y \in Nat /\ y \in 0 .. x /\ y \in 0 .. y
      BY <3>1
    <3>4. a[y] = b[y]
      BY <3>2, <3>3, PlacesUnique
    <3>5. G(x)[x] = 10 * a[y]
      BY <2>2, <2>4 DEF a, y
    <3>6. h[x] = 10 * h[y]
      BY <2>1, <3>2, <3>4, <3>5
    <3> QED
      BY <2>4, <3>6 DEF y
  <2> QED
    BY <2>3, <2>4
<1>3. h = [x \in Nat |-> h[x]]
  OBVIOUS
<1> HIDE DEF h
<1>4. h = [x \in Nat |-> IF x < Micro THEN 1 ELSE 10 * h[x \div 10]]
  BY <1>2, <1>3
<1>5. SixthPlace = [x \in Nat |-> IF x < Micro THEN 1 ELSE 10 * SixthPlace[x \div 10]]
  BY <1>4, Zenon DEF SixthPlace
<1> QED
  BY <1>5, Zenon

(* The unit printing rounds to: one, or no more than a hundred thousandth  *)
(* of the number.                                                          *)
LEMMA Unit ==
  \A x \in Nat : SixthPlace[x] \in Nat \ {0} /\ (SixthPlace[x] = 1 \/ SixthPlace[x] * Micro <= 10 * x)
<1> DEFINE Good == {x \in Nat : /\ SixthPlace[x] \in Nat \ {0}
                                /\ SixthPlace[x] = 1 \/ SixthPlace[x] * Micro <= 10 * x}
<1>1. ASSUME NEW x \in Nat, \A y \in 0 .. (x - 1) : y \in Good
      PROVE  x \in Good
  <2>1. CASE x < Micro
    BY <2>1, SixthPlaceAt
  <2>2. CASE ~(x < Micro)
    <3> DEFINE y == x \div 10
               u == SixthPlace[y]
    <3>1. y \in 0 .. (x - 1) /\ 10 * y <= x
      BY <2>2, Millions, Tenth
    <3>2. SixthPlace[x] = 10 * u
      BY <2>2, SixthPlaceAt
    <3>3. u \in Nat \ {0} /\ (u = 1 \/ u * Micro <= 10 * y)
      BY <1>1, <3>1
    <3> HIDE DEF y, u
    <3>4. 10 * u \in Nat \ {0}
      BY <3>3
    <3>5. (10 * u) * Micro <= 10 * x
      <4>1. Micro \in Nat /\ Micro <= x /\ y \in Nat
        BY <2>2, <3>1, Millions
      <4>2. \A M \in Nat : (10 * 1) * M = 10 * M /\ (10 * u) * M = 10 * (u * M) /\ u * M \in Nat
        BY <3>3
      <4>3. CASE u = 1
        BY <4>1, <4>2, <4>3
      <4>4. CASE u * Micro <= 10 * y
        <5>1. \A a \in Nat : a <= 10 * y => 10 * a <= 10 * x
          BY <3>1, <4>1
        <5> QED
          BY <4>1, <4>2, <4>4, <5>1
      <4> QED
        BY <3>3, <4>3, <4>4
    <3> QED
      BY <3>2, <3>4, <3>5
  <2> QED
    BY <2>1, <2>2
<1> HIDE DEF Good
<1>2. \A x \in Nat : x \in Good
  BY <1>1, NatSetInduction
<1> QED
  BY <1>2 DEF Good

(* Rounding to a multiple of u errs by at most one half of it.             *)
LEMMA Rounding ==
  ASSUME NEW num \in Nat, NEW d \in Nat \ {0}, NEW u \in Nat \ {0}, NEW M \in Nat, NEW q \in Nat,
         2 * u * d * q <= 2 * num * M + u * d,
         2 * num * M + u * d < 2 * u * d * q + 2 * u * d
  PROVE  2 * (q * u * d - num * M) \in -(u * d) .. u * d
<1>1. 2 * u * d * q = 2 * (q * u * d) /\ q * u * d \in Nat /\ u * d \in Nat /\ num * M \in Nat
  OBVIOUS
<1>2. 2 * num * M = 2 * (num * M) /\ 2 * u * d = 2 * (u * d)
  OBVIOUS
<1> DEFINE a == q * u * d
           b == u * d
           c == num * M
<1>3. 2 * a <= 2 * c + b /\ 2 * c + b < 2 * a + 2 * b /\ a \in Nat /\ b \in Nat /\ c \in Nat
  BY <1>1, <1>2
<1> HIDE DEF a, b, c
<1>4. 2 * (a - c) \in -b .. b
  BY <1>3
<1> QED
  BY <1>4 DEF a, b, c

(* What is printed of num/den is within five parts in a million of it, or  *)
(* within a micro-unit.                                                    *)
LEMMA Printed ==
  ASSUME NEW num \in Nat, NEW den \in Nat \ {0}
  PROVE  /\ Print6(num, den) \in Nat
         /\ Print6(num, den) * den - num * Micro \in -(5 * num + den) .. (5 * num + den)
         /\ den = 1 => Print6(num, den) - num * Micro \in -5 * num .. 5 * num
<1>0. Micro \in Nat /\ Micro # 0
  BY Millions
<1> DEFINE w == num * Micro
           x == w \div den
           u == SixthPlace[x]
           a == 2 * num * Micro + u * den
           b == 2 * u * den
           q == a \div b
<1>1. w \in Nat
  BY <1>0
<1>2. Print6(num, den) = q * u
  BY Zenon DEF Print6
<1> HIDE DEF w
<1>3. x \in Nat /\ den * x <= w
  BY <1>1, Division
<1> HIDE DEF x
<1>4. u \in Nat \ {0} /\ (u = 1 \/ u * Micro <= 10 * x)
  BY <1>3, Unit
<1> HIDE DEF u
<1>5. a \in Nat /\ b \in Nat \ {0}
  BY <1>0, <1>4
<1> HIDE DEF a, b
<1>6. q \in Nat /\ b * q <= a /\ a < b * q + b
  BY <1>5, Division
<1> HIDE DEF q
<1>7. 2 * u * den * q <= 2 * num * Micro + u * den
      /\ 2 * num * Micro + u * den < 2 * u * den * q + 2 * u * den
  BY <1>6 DEF a, b
<1>8. 2 * (q * u * den - num * Micro) \in -(u * den) .. u * den
  BY <1>0, <1>4, <1>6, <1>7, Rounding
<1>9. u = 1 \/ u * den <= 10 * num
  <2> SUFFICES ASSUME u * Micro <= 10 * x PROVE u * den <= 10 * num
    BY <1>4
  <2>1. \A M \in Nat : (u * den) * M = den * (u * M) /\ (10 * num) * M = 10 * (num * M)
    BY <1>4
  <2>2. u * Micro \in Nat /\ 10 * x \in Nat
    BY <1>0, <1>3, <1>4
  <2>3. \A c, e \in Nat : c <= e => den * c <= den * e
    OBVIOUS
  <2>4. den * (u * Micro) <= den * (10 * x)
    BY <2>2, <2>3
  <2>5. den * (10 * x) = 10 * (den * x) /\ den * x \in Nat
    BY <1>3
  <2>6. (u * den) * Micro <= (10 * num) * Micro
    <3>1. den * (u * Micro) \in Nat
      BY <2>2
    <3>2. (u * den) * Micro <= 10 * w
      BY <1>0, <1>1, <1>3, <2>1, <2>4, <2>5, <3>1
    <3> QED
      BY <1>0, <2>1, <3>2 DEF w
  <2>7. \A M \in Nat \ {0} : \A c, e \in Nat : c * M <= e * M => c <= e
    OBVIOUS
  <2>8. u * den \in Nat /\ 10 * num \in Nat
    BY <1>4
  <2> QED
    BY <1>0, <2>6, <2>7, <2>8
<1>10. q * u \in Nat
  BY <1>4, <1>6
<1> DEFINE e == q * u * den - num * Micro
<1>11. e \in Int /\ 2 * e \in -(u * den) .. u * den
  BY <1>0, <1>8, <1>10
<1> HIDE DEF e
<1>12. e \in -(5 * num + den) .. (5 * num + den)
  <2>1. CASE u = 1
    BY <1>11, <2>1
  <2>2. CASE u * den <= 10 * num
    BY <1>4, <1>11, <2>2
  <2> QED
    BY <1>9, <2>1, <2>2
<1>13. ASSUME den = 1 PROVE e \in -5 * num .. 5 * num
  <2>1. CASE u = 1
    <3>1. e = 0
      BY <1>11, <1>13, <2>1
    <3> QED
      BY <3>1
  <2>2. CASE u * den <= 10 * num
    BY <1>4, <1>11, <1>13, <2>2
  <2> QED
    BY <1>9, <2>1, <2>2
<1>14. den = 1 => q * u * den = q * u
  BY <1>10
<1> QED
  BY <1>2, <1>10, <1>12, <1>13, <1>14 DEF e

(* A whole number of microseconds.                                         *)
LEMMA PrintedWhole ==
  ASSUME NEW num \in Nat
  PROVE  Print6(num, 1) \in Nat /\ Print6(num, 1) - num * Micro \in -5 * num .. 5 * num
<1>1. 1 \in Nat \ {0}
  OBVIOUS
<1> QED
  BY <1>1, Printed

-----------------------------------------------------------------------------
(* The tuples the frames of a message make.                                *)
LEMMA Tuples ==
  /\ \A a : Head(<<a>>) = a /\ Tail(<<a>>) = <<>> /\ <<a>> # <<>> /\ Len(<<a>>) = 1
  /\ \A a, b : Head(<<a, b>>) = a /\ Tail(<<a, b>>) = <<b>> /\ <<a, b>> # <<>>
               /\ Len(<<a, b>>) = 2
OBVIOUS

LEMMA Messaging ==
  /\ \A s : /\ FinishedMessage(s) # <<>> /\ Head(FinishedMessage(s)).text = "Finished"
            /\ Tail(FinishedMessage(s)) = <<Text(""), Text(s), Text("")>>
            /\ Len(FinishedMessage(s)) = 4
  /\ \A c : /\ ResultMessage(c) # <<>> /\ Head(ResultMessage(c)).text = "Result"
            /\ Tail(ResultMessage(c)) = <<StatsFrame(c), Text("")>>
            /\ Len(ResultMessage(c)) = 3
  /\ \A t : Text(t).text = t
  /\ \A c : StatsFrame(c).text = "stats" /\ StatsFrame(c).fields = get_stats(c).fields
<1>1. \A t : Text(t).text = t
  BY DEF Text
<1>2. ASSUME NEW s
      PROVE  /\ FinishedMessage(s) # <<>> /\ Head(FinishedMessage(s)).text = "Finished"
             /\ Tail(FinishedMessage(s)) = <<Text(""), Text(s), Text("")>>
             /\ Len(FinishedMessage(s)) = 4
  <2> DEFINE a == Text("Finished")
             b == Text(s)
             z == Text("")
  <2>1. FinishedMessage(s) = <<a, z, b, z>> /\ a.text = "Finished"
    BY <1>1 DEF FinishedMessage
  <2> HIDE DEF a, b, z
  <2>2. /\ FinishedMessage(s) # <<>> /\ Head(FinishedMessage(s)).text = "Finished"
        /\ Tail(FinishedMessage(s)) = <<z, b, z>> /\ Len(FinishedMessage(s)) = 4
    BY <2>1
  <2> QED
    BY <2>2 DEF b, z
<1>3. ASSUME NEW c
      PROVE  /\ ResultMessage(c) # <<>> /\ Head(ResultMessage(c)).text = "Result"
             /\ Tail(ResultMessage(c)) = <<StatsFrame(c), Text("")>>
             /\ Len(ResultMessage(c)) = 3
  <2> DEFINE a == Text("Result")
             b == StatsFrame(c)
             z == Text("")
  <2>1. ResultMessage(c) = <<a, b, z>> /\ a.text = "Result"
    BY <1>1 DEF ResultMessage, StatsFrame
  <2> HIDE DEF a, b, z
  <2>2. /\ ResultMessage(c) # <<>> /\ Head(ResultMessage(c)).text = "Result"
        /\ Tail(ResultMessage(c)) = <<b, z>> /\ Len(ResultMessage(c)) = 3
    BY <2>1
  <2> QED
    BY <2>2 DEF b, z
<1>4. \A c : StatsFrame(c).text = "stats" /\ StatsFrame(c).fields = get_stats(c).fields
  BY DEF StatsFrame
<1> QED
  BY <1>1, <1>2, <1>3, <1>4

(* What get_stats prints first and last: the number of echoes, which is at *)
(* most the number of messages, and the setup time.                        *)
LEMMA FieldsPrinted ==
  ASSUME NEW c \in Connections
  PROVE  get_stats(c).fields[1] \in 0 .. Messages /\ get_stats(c).fields[6] \in Int
<1>1. /\ get_stats(c).fields[1] = Len(c.samples)
      /\ get_stats(c).fields[6] = IF c.type = "fail" THEN c.setup ELSE Print6(c.setup, 1)
  BY DEF get_stats
<1>2. get_stats(c).fields[6] \in Int
  <2>1. \/ c.type = "fail" /\ c.setup \in Garbage
        \/ c.type = "success" /\ c.setup = Setup
    BY DEF Connections
  <2>2. Garbage \subseteq Int /\ Setup \in Nat
    BY SinkAssumption
  <2>3. Print6(Setup, 1) \in Nat
    BY <2>2, PrintedWhole
  <2>4. \A x \in Nat : x \in Int
    OBVIOUS
  <2> QED
    BY <1>1, <2>1, <2>2, <2>3, <2>4, Zenon
<1>3. Len(c.samples) \in 0 .. Messages
  <2>1. CASE c.samples = <<>>
    BY <2>1, SinkAssumption, EmptySeq
  <2>2. ASSUME NEW n \in 0 .. Messages, c.samples \in [1 .. n -> Latencies]
        PROVE  Len(c.samples) = n
    BY <2>2, SinkAssumption
  <2>3. c.samples = <<>> \/ c.samples \in UNION {[1 .. n -> Latencies] : n \in 0 .. Messages}
    BY DEF Connections
  <2> QED
    BY <2>1, <2>2, <2>3
<1> QED
  BY <1>1, <1>2, <1>3

(* And what the loop extracts of it.                                       *)
LEMMA FieldsRead ==
  ASSUME NEW f, f[1] \in 0 .. Messages, f[6] \in Int, NEW v \in Extract(f)
  PROVE  v[1] = f[1] /\ v[6] \in Int
  BY SinkAssumption DEF Extract, NaN

-----------------------------------------------------------------------------
(* What each s_recv of the loop reads, and what it leaves.                 *)
LEMMA ReadAtStatus ==
  ASSUME Framing, s_recv("status")
  PROVE  \/ Head(frames).text = "" /\ frames' = <<>>
         \/ /\ Head(frames).text = "Finished"
            /\ \E s \in Statuses : frames' = <<Text(""), Text(s), Text("")>>
         \/ /\ Head(frames).text = "Result"
            /\ \E c \in Connections : frames' = <<StatsFrame(c), Text("")>>
<1>1. rpc = "status" /\ frames # <<>> /\ frames' = Tail(frames)
  BY DEF s_recv
<1>2. CASE frames = <<Text("")>>
  BY <1>1, <1>2, Tuples, Messaging
<1>3. ASSUME NEW s \in Statuses, frames = FinishedMessage(s)
      PROVE  Head(frames).text = "Finished" /\ frames' = <<Text(""), Text(s), Text("")>>
  BY <1>1, <1>3, Messaging
<1>4. ASSUME NEW c \in Connections, frames = ResultMessage(c)
      PROVE  Head(frames).text = "Result" /\ frames' = <<StatsFrame(c), Text("")>>
  BY <1>1, <1>4, Messaging
<1> QED
  BY <1>1, <1>2, <1>3, <1>4 DEF Framing

LEMMA ReadAtName ==
  ASSUME Framing, s_recv("name")
  PROVE  \E s \in Statuses : frames' = <<Text(s), Text("")>>
<1>1. PICK s \in Statuses : frames = <<Text(""), Text(s), Text("")>>
  BY DEF s_recv, Framing
<1> DEFINE b == Text(s)
           z == Text("")
<1>2. frames = <<z, b, z>> /\ frames' = Tail(frames)
  BY <1>1 DEF s_recv
<1> HIDE DEF b, z
<1>3. frames' = <<b, z>>
  BY <1>2
<1> QED
  BY <1>3 DEF b, z

LEMMA ReadAtExitStatus ==
  ASSUME Framing, s_recv("exit_status")
  PROVE  frames' = <<Text("")>> /\ Head(frames).text \in Statuses
<1>1. PICK s \in Statuses : frames = <<Text(s), Text("")>>
  BY DEF s_recv, Framing
<1>2. frames' = Tail(frames)
  BY DEF s_recv
<1>3. Text(s).text = s
  BY Messaging
<1>4. Head(frames) = Text(s) /\ frames' = <<Text("")>>
  BY <1>1, <1>2, Tuples
<1> QED
  BY <1>3, <1>4

LEMMA ReadAtStats ==
  ASSUME Framing, s_recv("stats")
  PROVE  frames' = <<Text("")>> /\ \E c \in Connections : Head(frames) = StatsFrame(c)
<1>1. PICK c \in Connections : frames = <<StatsFrame(c), Text("")>>
  BY DEF s_recv, Framing
<1>2. frames' = Tail(frames)
  BY DEF s_recv
<1> QED
  BY <1>1, <1>2, Tuples

LEMMA ReadAtLast ==
  ASSUME Framing, s_recv("last")
  PROVE  frames' = <<>> /\ \E c \in Connections : stats = StatsFrame(c)
<1>1. frames = <<Text("")>> /\ frames' = Tail(frames) /\ \E c \in Connections : stats = StatsFrame(c)
  BY DEF s_recv, Framing
<1> QED
  BY <1>1, Tuples

(* The loop keeps in step.                                                 *)
LEMMA FramingStep ==
  ASSUME Framing, [Next]_vars
  PROVE  Framing'
<1>1. CASE ResultArrives
  <2>1. /\ rpc' = rpc /\ rpc # "over" /\ frames = <<>>
        /\ \E c \in Connections : frames' = ResultMessage(c)
    BY <1>1 DEF ResultArrives
  <2>2. rpc = "status"
    BY <2>1, Tuples DEF Framing
  <2> QED
    BY <2>1, <2>2 DEF Framing
<1>2. CASE FinishedArrives
  <2>1. /\ rpc' = rpc /\ rpc # "over" /\ frames = <<>>
        /\ \E s \in Statuses : frames' = FinishedMessage(s)
    BY <1>2 DEF FinishedArrives, Statuses
  <2>2. rpc = "status"
    BY <2>1, Tuples DEF Framing
  <2> QED
    BY <2>1, <2>2 DEF Framing
<1>3. CASE RecvStatus
  <2>1. s_recv("status")
        /\ rpc' = CASE Head(frames).text = "Finished" -> "name"
                    [] Head(frames).text = "Result"   -> "stats"
                    [] OTHER                          -> "status"
    BY <1>3 DEF RecvStatus
  <2>2. CASE Head(frames).text = "" /\ frames' = <<>>
    BY <2>1, <2>2 DEF Framing
  <2>3. CASE /\ Head(frames).text = "Finished"
             /\ \E s \in Statuses : frames' = <<Text(""), Text(s), Text("")>>
    BY <2>1, <2>3 DEF Framing
  <2>4. CASE /\ Head(frames).text = "Result"
             /\ \E c \in Connections : frames' = <<StatsFrame(c), Text("")>>
    BY <2>1, <2>4 DEF Framing
  <2> QED
    BY <2>1, <2>2, <2>3, <2>4, ReadAtStatus
<1>4. CASE RecvName
  BY <1>4, ReadAtName DEF RecvName, Framing
<1>5. CASE RecvExitStatus
  BY <1>5, ReadAtExitStatus DEF RecvExitStatus, Framing
<1>6. CASE RecvStats
  BY <1>6, ReadAtStats DEF RecvStats, Framing
<1>7. CASE RecvLast
  BY <1>7, ReadAtLast DEF RecvLast, Framing
<1>8. CASE Report
  BY <1>8 DEF Report, Framing
<1>9. CASE UNCHANGED vars
  BY <1>9 DEF vars, Framing
<1> QED
  BY <1>1, <1>2, <1>3, <1>4, <1>5, <1>6, <1>7, <1>8, <1>9 DEF Next, Stop

-----------------------------------------------------------------------------
(* A message that waits at the top of the loop is due.                     *)
LEMMA DueWhenWhole ==
  ASSUME rpc \in {"status", "over"}
  PROVE  /\ frames = <<>> => ~FinishedDue /\ ~ResultDue
         /\ frames = <<Text("")>> => ~FinishedDue /\ ~ResultDue
         /\ \A s : frames = FinishedMessage(s) => FinishedDue /\ ~ResultDue
         /\ \A c : frames = ResultMessage(c) => ResultDue /\ ~FinishedDue
<1>1. Head(<<Text("")>>).text = ""
  BY Tuples, Messaging
<1> QED
  BY <1>1, Messaging DEF FinishedDue, ResultDue

(* A step that counts nothing.                                             *)
LEMMA Uncounted ==
  ASSUME Counters, Accounting, UNCHANGED <<counters, resultsReceived, results, exits, sent>>,
         FinishedDue' <=> FinishedDue, ResultDue' <=> ResultDue,
         rpc' = "last" <=> rpc = "last"
  PROVE  Counters' /\ Accounting'
<1>1. Counters'
  BY DEF Counters, counters, results
<1>2. /\ One(FinishedDue)' = One(FinishedDue) /\ One(ResultDue)' = One(ResultDue)
      /\ One(rpc = "last")' = One(rpc = "last") /\ Handled' = Handled
  BY DEF One, Handled, results
<1>3. Accounting'
  BY <1>2 DEF Accounting, counters, results
<1> QED
  BY <1>1, <1>3

(* Every announced exit is counted once, and every announced connection is *)
(* received once and judged once.                                          *)
LEMMA AccountingStep ==
  ASSUME SinkInv, Framing', [Next]_vars
  PROVE  Counters' /\ Accounting'
<1>0. Framing /\ Counters /\ Accounting
  BY DEF SinkInv
<1>n. Expected \in Nat /\ Messages \in Nat /\ MaxResults \in Nat
  BY SinkAssumption
<1>1. CASE ResultArrives
  <2>1. /\ UNCHANGED <<rpc, counters, resultsReceived, results, exits>> /\ rpc # "over"
        /\ frames = <<>> /\ Len(sent) < MaxResults
    BY <1>1 DEF ResultArrives
  <2>2. PICK c \in Connections : frames' = ResultMessage(c) /\ sent' = Append(sent, c)
    BY <1>1 DEF ResultArrives
  <2>3. rpc = "status"
    BY <1>0, <2>1, Tuples DEF Framing
  <2>4. ~FinishedDue /\ ~ResultDue
    BY <2>1, <2>3, DueWhenWhole
  <2>5. ~FinishedDue' /\ ResultDue'
    BY <2>1, <2>2, <2>3, Messaging DEF FinishedDue, ResultDue
  <2>6. Len(sent') = Len(sent) + 1 /\ sent' \in Seq(Connections) /\ Len(sent) \in Nat
    BY <1>0, <2>2, AppendProperties DEF Counters
  <2>7. Handled' = Handled
    BY <2>1 DEF Handled, results
  <2>8. Counters'
    BY <1>0, <2>1, <2>6 DEF Counters, counters, results
  <2>9. Accounting'
    BY <1>0, <1>n, <2>1, <2>3, <2>4, <2>5, <2>6, <2>7 DEF Accounting, One, counters, results, Counters
  <2> QED
    BY <2>8, <2>9
<1>2. CASE FinishedArrives
  <2>1. /\ UNCHANGED <<rpc, counters, resultsReceived, results, sent>> /\ rpc # "over"
        /\ frames = <<>> /\ exits < Expected /\ exits' = exits + 1
        /\ \E s : frames' = FinishedMessage(s)
    BY <1>2 DEF FinishedArrives
  <2>3. rpc = "status"
    BY <1>0, <2>1, Tuples DEF Framing
  <2>4. ~FinishedDue /\ ~ResultDue
    BY <2>1, <2>3, DueWhenWhole
  <2>5. FinishedDue' /\ ~ResultDue'
    BY <2>1, <2>3, Messaging DEF FinishedDue, ResultDue
  <2>7. Handled' = Handled
    BY <2>1 DEF Handled, results
  <2>8. Counters'
    BY <1>0, <2>1 DEF Counters, counters, results
  <2>9. Accounting'
    BY <1>0, <1>n, <2>1, <2>3, <2>4, <2>5, <2>7 DEF Accounting, One, counters, results, Counters
  <2> QED
    BY <2>8, <2>9
<1>3. CASE RecvStatus
  <2>1. s_recv("status") /\ UNCHANGED <<stats, counters, resultsReceived, results, exits, sent>>
        /\ rpc' = CASE Head(frames).text = "Finished" -> "name"
                    [] Head(frames).text = "Result"   -> "stats"
                    [] OTHER                          -> "status"
    BY <1>3 DEF RecvStatus
  <2>2. rpc = "status" /\ frames # <<>>
    BY <2>1 DEF s_recv
  <2>3. (FinishedDue' <=> FinishedDue) /\ (ResultDue' <=> ResultDue) /\ rpc' # "last"
    <3>1. CASE Head(frames).text = "" /\ frames' = <<>>
      BY <2>1, <2>2, <3>1 DEF FinishedDue, ResultDue
    <3>2. CASE Head(frames).text = "Finished"
      BY <2>1, <2>2, <3>2 DEF FinishedDue, ResultDue
    <3>3. CASE Head(frames).text = "Result"
      BY <2>1, <2>2, <3>3 DEF FinishedDue, ResultDue
    <3> QED
      BY <1>0, <2>1, <3>1, <3>2, <3>3, ReadAtStatus
  <2> QED
    BY <1>0, <2>1, <2>2, <2>3, Uncounted
<1>4. CASE RecvName
  <2>1. rpc = "name" /\ rpc' = "exit_status" /\ UNCHANGED <<counters, resultsReceived, results, exits, sent>>
    BY <1>4 DEF RecvName, s_recv
  <2>2. FinishedDue /\ FinishedDue' /\ ~ResultDue /\ ~ResultDue'
    BY <2>1 DEF FinishedDue, ResultDue
  <2> QED
    BY <1>0, <2>1, <2>2, Uncounted
<1>5. CASE RecvExitStatus
  <2>1. /\ rpc = "exit_status" /\ rpc' = "status" /\ UNCHANGED <<resultsReceived, results, exits, sent>>
        /\ \/ clientsFinished' = clientsFinished + 1 /\ UNCHANGED clientsDied
           \/ clientsDied' = clientsDied + 1 /\ UNCHANGED clientsFinished
    BY <1>5 DEF RecvExitStatus, s_recv
  <2>2. FinishedDue /\ ~ResultDue
    BY <2>1 DEF FinishedDue, ResultDue
  <2>3. ~FinishedDue' /\ ~ResultDue'
    <3>1. frames' = <<Text("")>>
      BY <1>0, <1>5, ReadAtExitStatus DEF RecvExitStatus
    <3>2. Head(frames').text = ""
      BY <3>1, Tuples, Messaging
    <3> QED
      BY <2>1, <3>2 DEF FinishedDue, ResultDue
  <2>4. Handled' = Handled
    BY <2>1 DEF Handled, results
  <2>5. Counters'
    BY <1>0, <2>1 DEF Counters, results
  <2>6. Accounting'
    <3>1. /\ One(FinishedDue) = 1 /\ One(FinishedDue)' = 0
          /\ One(ResultDue) = 0 /\ One(ResultDue)' = 0
          /\ One(rpc = "last") = 0 /\ One(rpc = "last")' = 0
      BY <2>1, <2>2, <2>3 DEF One
    <3>2. clientsFinished' + clientsDied' + 0 = exits' /\ exits' <= Expected
      <4>1. clientsFinished + clientsDied + 1 = exits /\ exits <= Expected /\ exits' = exits
        BY <1>0, <2>1, <3>1 DEF Accounting
      <4> QED
        BY <1>0, <2>1, <4>1 DEF Counters
    <3> QED
      BY <1>0, <2>1, <2>4, <3>1, <3>2 DEF Accounting, results
  <2> QED
    BY <2>5, <2>6
<1>6. CASE RecvStats
  <2>1. /\ rpc = "stats" /\ rpc' = "last" /\ resultsReceived' = resultsReceived + 1
        /\ UNCHANGED <<counters, results, exits, sent>>
    BY <1>6 DEF RecvStats, s_recv
  <2>2. ~FinishedDue /\ ResultDue /\ ~FinishedDue' /\ ~ResultDue'
    BY <2>1 DEF FinishedDue, ResultDue
  <2>4. Handled' = Handled
    BY <2>1 DEF Handled, results
  <2>5. Counters'
    BY <1>0, <2>1 DEF Counters, counters, results
  <2>6. Accounting'
    BY <1>0, <2>1, <2>2, <2>4 DEF Accounting, One, counters, results, Counters
  <2> QED
    BY <2>5, <2>6
<1>7. CASE RecvLast
  <2>1. /\ rpc = "last" /\ rpc' = "status" /\ UNCHANGED <<counters, resultsReceived, exits, sent>>
        /\ frames' = <<>>
    BY <1>0, <1>7, ReadAtLast DEF RecvLast, s_recv
  <2>2. PICK v \in Extract(stats.fields) :
          /\ setup_stats' = Append(setup_stats, v[6])
          /\ Judge(stats.type, v[1])
          /\ Accumulate(v[1], v[4], v[5])
    BY <1>7 DEF RecvLast
  <2>3. v[1] \in 0 .. Messages /\ v[6] \in Int
    <3>1. PICK c \in Connections : stats = StatsFrame(c)
      BY <1>0, <2>1 DEF Framing
    <3>2. stats.fields[1] \in 0 .. Messages /\ stats.fields[6] \in Int
      BY <3>1, FieldsPrinted, Messaging
    <3> QED
      BY <2>2, <3>2, FieldsRead
  <2>4. ~FinishedDue /\ ~ResultDue /\ ~FinishedDue' /\ ~ResultDue'
    BY <2>1 DEF FinishedDue, ResultDue
  <2>5. Handled' = Handled + 1 /\ connectionsSucceeded' \in Nat /\ connectionsDied' \in Nat
        /\ Handled \in Nat
    BY <1>0, <2>2 DEF Judge, Handled, Counters
  <2>6. setup_stats' \in Seq(Int) /\ Len(setup_stats') = Len(setup_stats) + 1
    BY <1>0, <2>2, <2>3, AppendProperties DEF Counters
  <2>7. /\ totalcount' = totalcount + v[1]
        /\ samples' = samples + (IF v[1] > 0 THEN 1 ELSE 0)
    BY <1>0, <2>2, <2>3, <1>n DEF Accumulate, Counters
  <2>8. /\ totalcount' \in Nat /\ samples' \in Nat /\ samples' <= totalcount'
        /\ totalcount' <= totalcount + Messages
    <3>1. \A t, s, n, m \in Nat : s <= t /\ n <= m =>
            /\ t + n \in Nat /\ t + n <= t + m /\ s + 0 \in Nat /\ s + 1 \in Nat
            /\ s + 0 <= t + n /\ (n > 0 => s + 1 <= t + n)
      OBVIOUS
    <3>2. totalcount \in Nat /\ samples \in Nat /\ samples <= totalcount
      BY <1>0 DEF Counters, Accounting
    <3>3. v[1] \in Nat /\ v[1] <= Messages
      BY <1>n, <2>3
    <3>4. CASE v[1] > 0
      <4>1. samples' = samples + 1
        BY <2>7, <3>4
      <4> QED
        BY <1>n, <2>7, <3>1, <3>2, <3>3, <3>4, <4>1
    <3>5. CASE ~(v[1] > 0)
      <4>1. samples' = samples + 0
        BY <2>7, <3>5
      <4> QED
        BY <1>n, <2>7, <3>1, <3>2, <3>3, <4>1
    <3> QED
      BY <3>4, <3>5
  <2>9. totalcount' <= Handled' * Messages
    <3>1. \A h, m \in Nat : h * m \in Nat /\ (h + 1) * m = h * m + m
      OBVIOUS
    <3>2. Handled' * Messages = Handled * Messages + Messages /\ Handled * Messages \in Nat
      BY <1>n, <2>5, <3>1
    <3>3. \A t, u, k, m \in Nat : t <= k /\ u <= t + m => u <= k + m
      OBVIOUS
    <3>4. totalcount \in Nat /\ totalcount <= Handled * Messages
      BY <1>0 DEF Counters, Accounting
    <3> QED
      BY <1>n, <2>8, <3>2, <3>3, <3>4
  <2>10. Counters'
    BY <1>0, <2>1, <2>5, <2>6, <2>8 DEF Counters, counters
  <2>11. Accounting'
    <3>1. /\ One(FinishedDue)' = One(FinishedDue) /\ One(ResultDue)' = One(ResultDue)
          /\ One(rpc = "last") = 1 /\ One(rpc = "last")' = 0
      BY <2>1, <2>4 DEF One
    <3>2. UNCHANGED <<clientsFinished, clientsDied, exits, resultsReceived, sent>>
      BY <2>1 DEF counters
    <3>3. Handled' + One(rpc = "last")' = resultsReceived'
      <4>1. Handled + 1 = resultsReceived
        BY <1>0, <3>1 DEF Accounting
      <4> QED
        BY <2>5, <3>1, <3>2, <4>1
    <3>4. Len(setup_stats') = Handled'
      BY <1>0, <2>5, <2>6 DEF Accounting
    <3> QED
      BY <1>0, <2>8, <2>9, <3>1, <3>2, <3>3, <3>4 DEF Accounting
  <2> QED
    BY <2>10, <2>11
<1>8. CASE Report
  <2>1. rpc = "status" /\ rpc' = "over" /\ UNCHANGED <<frames, counters, resultsReceived, results, exits, sent>>
    BY <1>8 DEF Report
  <2>2. (FinishedDue' <=> FinishedDue) /\ (ResultDue' <=> ResultDue)
    BY <2>1 DEF FinishedDue, ResultDue
  <2> QED
    BY <1>0, <2>1, <2>2, Uncounted
<1>9. CASE UNCHANGED vars
  BY <1>0, <1>9, Uncounted DEF vars, FinishedDue, ResultDue
<1> QED
  BY <1>1, <1>2, <1>3, <1>4, <1>5, <1>6, <1>7, <1>8, <1>9 DEF Next, Stop

LEMMA SinkInit == Init => SinkInv
<1> SUFFICES ASSUME Init PROVE SinkInv
  OBVIOUS
<1>1. Expected \in Nat /\ Messages \in Nat /\ MaxResults \in Nat
  BY SinkAssumption
<1>2. Framing
  BY DEF Init, Framing
<1>3. /\ \A S : <<>> \in Seq(S)
      /\ Len(<<>>) = 0
  BY EmptySeq
<1>4. Counters
  BY <1>3 DEF Init, Counters
<1>5. One(FinishedDue) = 0 /\ One(ResultDue) = 0 /\ One(rpc = "last") = 0
  <2>1. rpc = "status" /\ frames = <<>>
    BY DEF Init
  <2> QED
    BY <2>1 DEF FinishedDue, ResultDue, One
<1>6. Handled = 0 /\ Handled * Messages = 0
  <2>1. Handled = 0
    <3>1. connectionsSucceeded = 0 /\ connectionsDied = 0
      BY DEF Init
    <3> QED
      BY <3>1 DEF Handled
  <2>2. \A m \in Nat : 0 * m = 0
    OBVIOUS
  <2> QED
    BY <1>1, <2>1, <2>2
<1>7. Accounting
  <2>1. /\ clientsFinished = 0 /\ clientsDied = 0 /\ exits = 0 /\ resultsReceived = 0
        /\ Len(sent) = 0 /\ Len(setup_stats) = 0 /\ samples = 0 /\ totalcount = 0
    BY <1>3 DEF Init
  <2>2. /\ clientsFinished + clientsDied + One(FinishedDue) = exits
        /\ resultsReceived + One(ResultDue) = Len(sent)
        /\ Handled + One(rpc = "last") = resultsReceived
    BY <1>5, <1>6, <2>1
  <2>3. exits <= Expected /\ Len(sent) <= MaxResults
    BY <1>1, <2>1
  <2>4. Len(setup_stats) = Handled
    BY <1>6, <2>1
  <2>5. samples <= totalcount /\ totalcount <= Handled * Messages
    BY <1>6, <2>1
  <2> QED
    BY <2>2, <2>3, <2>4, <2>5 DEF Accounting
<1> QED
  BY <1>2, <1>4, <1>7 DEF SinkInv

(* The sink is always in step, and its counters agree with what has been   *)
(* announced: exits counted once, results received once and judged once.   *)
THEOREM SinkCorrect == Spec => []SinkInv
<1>1. SinkInv /\ [Next]_vars => SinkInv'
  BY FramingStep, AccountingStep DEF SinkInv
<1> QED
  BY <1>1, SinkInit, PTL DEF Spec

(* The loop reads every frame for what it is, however many messages come   *)
(* and in whatever order.                                                  *)
THEOREM KeepsInStep == Spec => []FramesAligned
<1>1. Framing => FramesAligned
  <2> SUFFICES ASSUME Framing, frames # <<>> PROVE
        /\ rpc = "status" => Head(frames).text \in {"Finished", "Result", ""}
        /\ rpc = "exit_status" => Head(frames).text \in {"0", "nonzero"}
        /\ rpc = "stats" => Head(frames).text = "stats"
    BY DEF FramesAligned
  <2>1. rpc = "status" => Head(frames).text \in {"Finished", "Result", ""}
    BY Tuples, Messaging DEF Framing
  <2>2. ASSUME rpc = "exit_status" PROVE Head(frames).text \in {"0", "nonzero"}
    <3>1. PICK s \in Statuses : frames = <<Text(s), Text("")>>
      BY <2>2 DEF Framing
    <3>2. Head(frames) = Text(s) /\ Text(s).text = s
      BY <3>1, Tuples, Messaging
    <3> QED
      BY <3>2 DEF Statuses
  <2>3. ASSUME rpc = "stats" PROVE Head(frames).text = "stats"
    <3>1. PICK c \in Connections : frames = <<StatsFrame(c), Text("")>>
      BY <2>3 DEF Framing
    <3>2. Head(frames) = StatsFrame(c)
      BY <3>1, Tuples
    <3> QED
      BY <3>2, Messaging
  <2> QED
    BY <2>1, <2>2, <2>3
<1> QED
  BY <1>1, SinkCorrect, PTL DEF SinkInv

(* The counters of the report stay within what can have happened: no more  *)
(* exits than workers, no more verdicts than results, no more latencies    *)
(* than the results can hold.                                              *)
THEOREM TypeCorrect == Spec => []TypeOK
<1>1. SinkInv => TypeOK
  <2> SUFFICES ASSUME SinkInv PROVE TypeOK
    OBVIOUS
  <2>0. Framing /\ Counters /\ Accounting
    BY DEF SinkInv
  <2>n. Expected \in Nat /\ Messages \in Nat /\ MaxResults \in Nat
    BY SinkAssumption
  <2>1. Len(frames) <= 4
    <3>0. /\ Len(<<>>) = 0 /\ Len(<<Text("")>>) = 1
          /\ \A s : Len(<<Text(s), Text("")>>) = 2
          /\ \A c : Len(<<StatsFrame(c), Text("")>>) = 2
          /\ \A s : Len(FinishedMessage(s)) = 4 /\ \A c : Len(ResultMessage(c)) = 3
      BY Tuples, Messaging, EmptySeq
    <3>1. Len(frames) \in 0 .. 4
      <4>1. ASSUME rpc \in {"status", "over"} PROVE Len(frames) \in {0, 1, 3, 4}
        <5>1. \/ frames = <<>> \/ frames = <<Text("")>>
              \/ \E s \in Statuses : frames = FinishedMessage(s)
              \/ \E c \in Connections : frames = ResultMessage(c)
          BY <2>0, <4>1 DEF Framing
        <5>2. Len(frames) = 0 \/ Len(frames) = 1 \/ Len(frames) = 4 \/ Len(frames) = 3
          BY <3>0, <5>1, Zenon
        <5> QED
          BY <5>2
      <4>2. ASSUME rpc = "exit_status" PROVE Len(frames) = 2
        <5>1. PICK s \in Statuses : frames = <<Text(s), Text("")>>
          BY <2>0, <4>2 DEF Framing
        <5> QED
          BY <3>0, <5>1, Zenon
      <4>3. ASSUME rpc = "stats" PROVE Len(frames) = 2
        <5>1. PICK c \in Connections : frames = <<StatsFrame(c), Text("")>>
          BY <2>0, <4>3 DEF Framing
        <5> QED
          BY <3>0, <5>1, Zenon
      <4>4. ASSUME rpc = "last" PROVE Len(frames) = 1
        <5>1. frames = <<Text("")>>
          BY <2>0, <4>4 DEF Framing
        <5> QED
          BY <3>0, <5>1, Zenon
      <4>5. ASSUME rpc = "name" PROVE Len(frames) = 3
        <5>1. PICK s \in Statuses : frames = <<Text(""), Text(s), Text("")>>
          BY <2>0, <4>5 DEF Framing
        <5> DEFINE z == Text("")
                   b == Text(s)
        <5>2. frames = <<z, b, z>>
          BY <5>1
        <5> HIDE DEF b, z
        <5> QED
          BY <5>2
      <4>6. rpc \in {"status", "name", "exit_status", "stats", "last", "over"}
        BY <2>0 DEF Framing
      <4> QED
        BY <4>1, <4>2, <4>3, <4>4, <4>5, <4>6
    <3>2. \A n \in 0 .. 4 : n <= 4
      OBVIOUS
    <3> QED
      BY <3>1, <3>2, Zenon
  <2>2. clientsFinished + clientsDied \in 0 .. Expected
    BY <2>0, <2>n DEF Counters, Accounting, One
  <2>3. resultsReceived \in 0 .. Len(sent)
    BY <2>0 DEF Counters, Accounting, One
  <2>4. Handled \in 0 .. resultsReceived /\ Handled \in Nat
    BY <2>0 DEF Counters, Accounting, One, Handled
  <2>5. totalcount <= MaxResults * Messages
    <3>1. \A h, k, m \in Nat : h <= k => h * m \in Nat /\ k * m \in Nat /\ h * m <= k * m
      <4> TAKE h, k, m \in Nat
      <4> HAVE h <= k
      <4>1. PICK d \in Nat : k = h + d
        <5>1. k - h \in Nat /\ k = h + (k - h)
          OBVIOUS
        <5> QED
          BY <5>1
      <4>2. (h + d) * m = h * m + d * m
        OBVIOUS
      <4>3. h * m \in Nat /\ d * m \in Nat
        OBVIOUS
      <4>4. \A a, b \in Nat : a + b \in Nat /\ a <= a + b
        OBVIOUS
      <4> QED
        BY <4>1, <4>2, <4>3, <4>4
    <3>2. Handled <= MaxResults
      <4>1. \A a, b, c, d \in Nat : a <= b /\ b <= c /\ c <= d => a <= d
        OBVIOUS
      <4>2. Len(sent) \in Nat /\ resultsReceived \in Nat /\ Len(sent) <= MaxResults
        BY <2>0 DEF Counters, Accounting
      <4>3. Handled <= resultsReceived /\ resultsReceived <= Len(sent)
        BY <2>3, <2>4, <4>2
      <4> QED
        BY <2>n, <2>4, <4>1, <4>2, <4>3
    <3>3. /\ Handled * Messages \in Nat /\ MaxResults * Messages \in Nat
          /\ Handled * Messages <= MaxResults * Messages
      BY <2>n, <2>4, <3>1, <3>2
    <3>4. totalcount \in Nat /\ totalcount <= Handled * Messages
      BY <2>0 DEF Counters, Accounting
    <3>5. \A a, b, c \in Nat : a <= b /\ b <= c => a <= c
      OBVIOUS
    <3> QED
      BY <3>3, <3>4, <3>5
  <2>6. samples \in 0 .. totalcount /\ totalcount \in 0 .. MaxResults * Messages
    <3>1. \A k, m \in Nat : k * m \in Nat
      OBVIOUS
    <3>2. MaxResults * Messages \in Nat
      BY <2>n, <3>1
    <3> QED
      BY <2>0, <2>5, <3>2 DEF Counters, Accounting
  <2> QED
    BY <2>0, <2>1, <2>2, <2>3, <2>4, <2>6 DEF Framing, Accounting, TypeOK
<1> QED
  BY <1>1, SinkCorrect, PTL
-----------------------------------------------------------------------------
(* The latencies of one connection.                                        *)
LEMMA Latency ==
  ASSUME NEW n \in Nat, NEW s \in [1 .. n -> Latencies]
  PROVE  /\ Len(s) = n /\ Total(s) \in Nat /\ Spread(s) \in Nat
         /\ n = 1 => Spread(s) = 0
<1> DEFINE S == 1 .. n
           q == [i \in DOMAIN s |-> s[i] * s[i]]
<1>1. IsFiniteSet(S) /\ Cardinality(S) = n
  BY FS_Interval
<1>2. Len(s) = n /\ DOMAIN s = S /\ DOMAIN q = S
  OBVIOUS
<1>3. \A i \in S : s[i] \in Nat /\ q[i] = s[i] * s[i]
  <2>1. Latencies \subseteq Nat
    BY SinkAssumption
  <2>2. \A i \in S : s[i] \in Nat
    BY <2>1
  <2>3. \A i \in S : q[i] = s[i] * s[i]
    BY <1>2, Zenon
  <2> QED
    BY <2>2, <2>3
<1>4. \A i \in S : q[i] \in Nat
  <2>1. \A a \in Nat : a * a \in Nat
    OBVIOUS
  <2> QED
    BY <1>3, <2>1
<1>5. Total(s) = SumFunctionOnSet(s, S) /\ Squares(s) = SumFunctionOnSet(q, S)
  <2>1. SumFunction(s) = SumFunctionOnSet(s, DOMAIN s)
        /\ SumFunction(q) = SumFunctionOnSet(q, DOMAIN q)
    BY Zenon DEF SumFunction
  <2>2. Total(s) = SumFunction(s) /\ Squares(s) = SumFunction(q)
    BY Zenon DEF Total, Squares
  <2> QED
    BY <1>2, <2>1, <2>2, Zenon
<1> HIDE DEF S, q
<1>6. Total(s) \in Nat /\ Squares(s) \in Nat
  BY <1>1, <1>3, <1>4, <1>5, SumNat
<1>7. \A i \in S : s[i] \in Int /\ q[i] \in Int /\ q[i] = s[i] * s[i]
  BY <1>3, <1>4
<1>8. n * Squares(s) - Total(s) * Total(s) >= 0
  BY <1>1, <1>5, <1>7, CauchySchwarz
<1>9. Spread(s) = n * Squares(s) - Total(s) * Total(s)
  BY <1>2 DEF Spread
<1>10. Spread(s) \in Nat
  <2>1. \A a, b, c \in Nat : a * b - c * c >= 0 => a * b - c * c \in Nat
    OBVIOUS
  <2> QED
    BY <1>6, <1>8, <1>9, <2>1
<1>11. ASSUME n = 1 PROVE Spread(s) = 0
  <2>1. S = {} \cup {1} /\ 1 \in S
    BY <1>11 DEF S
  <2>2. IsFiniteSet({}) /\ 1 \notin {}
    BY FS_EmptySet
  <2>3. \A i \in {} \cup {1} : s[i] \in Int /\ q[i] \in Int
    BY <1>7, <2>1
  <2>4. SumFunctionOnSet(s, S) = s[1] + 0 /\ SumFunctionOnSet(q, S) = q[1] + 0
    BY <2>1, <2>2, <2>3, SumWith, SumEmpty
  <2>5. \A a \in Nat : 1 * (a * a + 0) - (a + 0) * (a + 0) = 0
    OBVIOUS
  <2>6. s[1] \in Nat /\ q[1] = s[1] * s[1]
    BY <1>3, <2>1
  <2> QED
    BY <1>5, <1>9, <1>11, <2>4, <2>5, <2>6
<1> QED
  BY <1>2, <1>6, <1>10, <1>11

(* A variance that is printed, weighted with n-1 instead of n: what is lost *)
(* against the squared deviations.                                         *)
Fifth == Micro \div 5

LEMMA Fifths == Fifth \in Nat \ {0} /\ Micro = 5 * Fifth
BY SMT DEF Fifth, Micro

LEMMA Weighted ==
  ASSUME NEW n \in Nat \ {0}, NEW V \in Nat, n = 1 => V = 0
  PROVE  LET p == Print6(V, n * n)
             D == (V * Micro) \div n
         IN  /\ p \in Nat /\ D \in Nat
             /\ (n - 1) * p <= D + (D \div Fifth + 2 * n)
             /\ 2 * ((n - 1) * p) >= D - (D \div Fifth + 2 * n)
<1> DEFINE p == Print6(V, n * n)
           w == V * Micro
           D == w \div n
           q == D \div Fifth
           F == Fifth
<1>m. Micro \in Nat /\ F \in Nat \ {0} /\ Micro = 5 * F
  BY Millions, Fifths
<1>0. w \in Nat /\ (V = 0 => w = 0) /\ w = F * (5 * V)
  <2> HIDE DEF F
  <2>1. \A a, b \in Nat : a * b \in Nat /\ (a = 0 => a * b = 0) /\ a * (5 * b) = b * (5 * a)
    OBVIOUS
  <2> QED
    BY <1>m, <2>1
<1>1. p \in Nat /\ p * (n * n) - w \in -(5 * V + n * n) .. (5 * V + n * n)
  <2>1. n * n \in Nat \ {0}
    OBVIOUS
  <2> QED
    BY <2>1, Printed
<1> HIDE DEF w, p
<1>2. D \in Nat /\ n * D <= w /\ w < n * D + n
  <2>1. w \in Int /\ w >= 0
    BY ONLY <1>0
  <2> QED
    BY ONLY <2>1, n \in Nat \ {0}, Division
<1>3. w = 0 => D = 0
  <2>1. 0 \div n = 0
    OBVIOUS
  <2> QED
    BY <2>1
<1> HIDE DEF D, F
<1>q. q \in Nat /\ F * q <= D /\ D < F * q + F
  BY <1>m, <1>2, Division DEF F
<1> HIDE DEF q
<1>v. 5 * V < n * (q + 1)
  <2>1. D + 1 <= F * (q + 1) /\ F * (q + 1) \in Nat
    <3>1. \A f, k \in Nat : f * (k + 1) = f * k + f /\ f * k \in Nat
      OBVIOUS
    <3> QED
      BY <1>m, <1>2, <1>q, <3>1
  <2>2. \A a, b \in Nat : a <= b => n * a <= n * b /\ n * a \in Nat /\ n * b \in Nat
    OBVIOUS
  <2>3. n * (D + 1) <= n * (F * (q + 1)) /\ n * (D + 1) = n * D + n
    <3>1. D + 1 \in Nat /\ n * (D + 1) = n * D + n
      BY <1>2
    <3> QED
      BY <2>1, <2>2, <3>1
  <2>4. \A f, k \in Nat : n * (f * k) = f * (n * k) /\ n * k \in Nat /\ f * (n * k) \in Nat
    OBVIOUS
  <2>5. F * (5 * V) < F * (n * (q + 1))
    <3>1. n * (F * (q + 1)) = F * (n * (q + 1)) /\ F * (n * (q + 1)) \in Nat
      BY <1>m, <1>q, <2>4
    <3>2. n * D + n \in Nat
      BY <1>2
    <3> DEFINE x == F * (n * (q + 1))
               y == n * D + n
    <3>3. y <= x /\ x \in Nat /\ y \in Nat /\ w < y
      BY <1>2, <2>3, <3>1, <3>2
    <3> HIDE DEF x, y
    <3>4. w < x
      BY <1>0, <3>3
    <3> QED
      BY <1>0, <3>4 DEF x
  <2>6. 5 * V \in Int /\ n * (q + 1) \in Int
    BY <1>q
  <2> QED
    BY <1>m, <2>5, <2>6, Cancel
<1>4. n * p < D + q + n + 2
  <2>1. n * (n * p) < n * (D + q + n + 2)
    <3>1. n * (n * p) = p * (n * n) /\ n * (D + q + n + 2) = n * D + n + n * (q + 1) + n * n
      BY <1>1, <1>2, <1>q
    <3>2. p * (n * n) <= w + 5 * V + n * n
      BY <1>0, <1>1
    <3>3. /\ n * D \in Nat /\ n * (q + 1) \in Nat /\ n * n \in Nat /\ p * (n * n) \in Nat
          /\ 5 * V \in Nat
      BY <1>1, <1>2, <1>q
    <3> QED
      BY <1>0, <1>2, <1>v, <3>1, <3>2, <3>3
  <2>2. n * p \in Int /\ D + q + n + 2 \in Int
    BY <1>1, <1>2, <1>q
  <2> QED
    BY <2>1, <2>2, Cancel
<1>5. D - q - n - 1 < n * p
  <2>1. n * (D - q - n - 1) < n * (n * p)
    <3>1. n * (n * p) = p * (n * n) /\ n * (D - q - n - 1) = n * D - n * (q + 1) - n * n
      BY <1>1, <1>2, <1>q
    <3>2. p * (n * n) >= w - 5 * V - n * n
      BY <1>0, <1>1
    <3>3. /\ n * D \in Nat /\ n * (q + 1) \in Nat /\ n * n \in Nat /\ p * (n * n) \in Nat
          /\ 5 * V \in Nat
      BY <1>1, <1>2, <1>q
    <3> QED
      BY <1>0, <1>2, <1>v, <3>1, <3>2, <3>3
  <2>2. n * p \in Int /\ D - q - n - 1 \in Int
    BY <1>1, <1>2, <1>q
  <2> QED
    BY <2>1, <2>2, Cancel
<1>6. (n - 1) * p = n * p - p /\ n * p \in Nat
  BY <1>1
<1>7. (n - 1) * p <= D + (q + 2 * n)
  BY <1>1, <1>2, <1>q, <1>4, <1>6
<1>8. 2 * ((n - 1) * p) >= D - (q + 2 * n)
  <2>1. CASE n = 1
    <3>1. D = 0 /\ (n - 1) * p = 0
      BY <1>0, <1>1, <1>3, <2>1
    <3> QED
      BY <1>q, <2>1, <3>1
  <2>2. CASE n # 1
    <3>1. 2 * ((n - 1) * p) = n * p + (n - 2) * p /\ (n - 2) * p \in Nat
      BY <1>1, <2>2
    <3> QED
      BY <1>2, <1>q, <1>5, <1>6, <3>1
  <2> QED
    BY <2>1, <2>2
<1> QED
  BY <1>1, <1>2, <1>7, <1>8 DEF p, D, w, q

(* A connection that echoed: its latencies, and its setup time.            *)
LEMMA Echoed ==
  ASSUME NEW c \in Connections, c.samples # <<>>
  PROVE  /\ Len(c.samples) \in Nat \ {0}
         /\ c.samples \in [1 .. Len(c.samples) -> Latencies]
         /\ c.type = "success" /\ c.setup \in Nat
<1>1. /\ c.samples \in UNION {[1 .. n -> Latencies] : n \in 0 .. Messages}
      /\ c.type = "success" /\ c.setup = Setup
  BY DEF Connections
<1>2. PICK n \in 0 .. Messages : c.samples \in [1 .. n -> Latencies]
  BY <1>1
<1>3. n \in Nat
  BY SinkAssumption
<1>4. Len(c.samples) = n
  BY <1>2, <1>3
<1>5. n # 0
  <2> SUFFICES ASSUME n = 0 PROVE FALSE
    OBVIOUS
  <2>1. c.samples \in Seq(Latencies) /\ Len(c.samples) = 0
    BY <1>2, <1>3, <1>4, SeqDef
  <2> QED
    BY <2>1, EmptySeq
<1>6. c.setup \in Nat
  BY <1>1, SinkAssumption
<1> QED
  BY <1>1, <1>2, <1>3, <1>4, <1>5, <1>6

(* All six of its numbers parse, so what is read is what was printed.      *)
LEMMA EchoedRead ==
  ASSUME NEW c \in Connections, c.samples # <<>>, NEW v \in Extract(get_stats(c).fields)
  PROVE  LET s == c.samples
         IN  /\ v[1] = Len(s) /\ v[6] = Print6(c.setup, 1)
             /\ v[4] = Print6(Total(s), Len(s))
             /\ v[5] = Print6(Spread(s), Len(s) * Len(s))
<1> DEFINE s == c.samples
           n == Len(s)
           f == get_stats(c).fields
           low == Print6(Min(Range(s)), 1)
           high == Print6(Max(Range(s)), 1)
           setup == Print6(c.setup, 1)
           mean == Print6(Total(s), n)
           variance == Print6(Spread(s), n * n)
<1>0. /\ n \in Nat \ {0} /\ s \in [1 .. n -> Latencies]
      /\ c.type = "success" /\ c.setup \in Nat
  BY Echoed
<1>1. f = <<n, low, high, mean, variance, setup>>
  <2>1. n # 0 /\ c.type # "fail"
    BY <1>0
  <2> QED
    BY <2>1 DEF get_stats
<1>2. low \in Nat /\ high \in Nat
  <2>1. IsFiniteSet(1 .. n)
    BY <1>0, FS_Interval
  <2>2. DOMAIN s = 1 .. n /\ 1 \in 1 .. n
    BY <1>0
  <2>3. IsFiniteSet(Range(s))
    <3>1. s \in Surjection(DOMAIN s, Range(s))
      BY <1>0, <2>2 DEF Surjection, Range
    <3> QED
      BY <2>1, <2>2, <3>1, FS_Surjection
  <2>4. Range(s) \subseteq Nat /\ Range(s) # {}
    <3>1. \A i \in DOMAIN s : s[i] \in Latencies
      BY <1>0, <2>2, Zenon
    <3>2. Latencies \subseteq Nat
      BY SinkAssumption
    <3> QED
      BY <2>2, <3>1, <3>2, Zenon DEF Range
  <2>5. Range(s) \subseteq Int
    BY <2>4
  <2>6. Min(Range(s)) \in Nat /\ Max(Range(s)) \in Nat
    BY <2>3, <2>4, <2>5, Extremes
  <2> QED
    BY <2>6, PrintedWhole
<1>3. mean \in Nat /\ variance \in Nat
  <2>1. Total(s) \in Nat /\ Spread(s) \in Nat
    BY <1>0, Latency
  <2>2. n * n \in Nat \ {0}
    <3>1. \A a \in Nat \ {0} : a * a \in Nat \ {0}
      OBVIOUS
    <3> QED
      BY <1>0, <3>1
  <2> QED
    BY <1>0, <2>1, <2>2, Printed
<1>4. setup \in Nat
  BY <1>0, PrintedWhole
<1> HIDE DEF n, f, low, high, mean, variance, setup
<1>5. \A j \in 1 .. 6 : f[j] \in Nat
  BY ONLY <1>0, <1>1, <1>2, <1>3, <1>4
<1>6. \A j \in 1 .. 6 : f[j] # NaN
  <2>1. \A x \in Nat : x # NaN
    BY DEF NaN
  <2> QED
    BY <1>5, <2>1, Zenon
<1>7. \A k \in 1 .. 6 : v[k] = f[k]
  <2>1. \A k \in 1 .. 6 : \A j \in 1 .. k : f[j] # NaN
    <3>1. \A k \in 1 .. 6 : \A j \in 1 .. k : j \in 1 .. 6
      OBVIOUS
    <3> QED
      BY <1>6, <3>1
  <2>2. v \in Extract(f)
    BY DEF f
  <2> QED
    BY <2>1, <2>2 DEF Extract
<1>8. v[1] = n /\ v[4] = mean /\ v[5] = variance /\ v[6] = setup
  BY <1>1, <1>7
<1> QED
  BY <1>8 DEF n, mean, variance, setup

(* Of a connection that did not echo, a count of 0 is read.                *)
LEMMA SilentRead ==
  ASSUME NEW c \in Connections, c.samples = <<>>, NEW v \in Extract(get_stats(c).fields)
  PROVE  v[1] = 0
<1> DEFINE f == get_stats(c).fields
<1>1. f[1] = Len(c.samples)
  BY DEF get_stats
<1>2. f[1] \in 0 .. Messages /\ f[6] \in Int
  BY FieldsPrinted
<1> HIDE DEF f
<1>3. v \in Extract(f)
  BY DEF f
<1>4. v[1] = f[1]
  BY <1>2, <1>3, FieldsRead
<1> QED
  BY <1>1, <1>4, EmptySeq

-----------------------------------------------------------------------------
(* The result under way is the one that was announced last.                *)
Newest == sent[Len(sent)]

Latest ==
  /\ rpc \in {"status", "over"} /\ ResultDue => frames = ResultMessage(Newest)
  /\ rpc = "stats" => frames = <<StatsFrame(Newest), Text("")>>
  /\ rpc = "last" => stats = StatsFrame(Newest)

LEMMA LatestStep ==
  ASSUME SinkInv, SinkInv', Latest, [Next]_vars
  PROVE  Latest'
<1>0. Framing /\ Counters
  BY DEF SinkInv
<1>1. CASE ResultArrives
  <2>1. /\ rpc' = rpc /\ rpc # "over" /\ frames = <<>>
    BY <1>1 DEF ResultArrives
  <2>2. PICK c \in Connections : frames' = ResultMessage(c) /\ sent' = Append(sent, c)
    BY <1>1 DEF ResultArrives
  <2>3. rpc' = "status"
    BY <1>0, <2>1, Tuples DEF Framing
  <2>4. sent'[Len(sent')] = c
    BY <1>0, <2>2, AppendProperties DEF Counters
  <2>5. Newest' = c
    BY <2>4 DEF Newest
  <2> QED
    BY <2>2, <2>3, <2>5 DEF Latest
<1>2. CASE FinishedArrives
  <2>1. /\ rpc' = rpc /\ rpc # "over" /\ frames = <<>> /\ \E s : frames' = FinishedMessage(s)
    BY <1>2 DEF FinishedArrives
  <2>2. rpc' = "status"
    BY <1>0, <2>1, Tuples DEF Framing
  <2>3. ~ResultDue'
    BY <2>1, <2>2, Messaging DEF ResultDue
  <2> QED
    BY <2>2, <2>3 DEF Latest
<1>3. CASE RecvStatus
  <2>1. s_recv("status") /\ UNCHANGED sent
        /\ rpc' = CASE Head(frames).text = "Finished" -> "name"
                    [] Head(frames).text = "Result"   -> "stats"
                    [] OTHER                          -> "status"
    BY <1>3 DEF RecvStatus
  <2>2. rpc = "status" /\ frames # <<>> /\ frames' = Tail(frames) /\ Newest' = Newest
    BY <2>1 DEF s_recv, Newest
  <2>3. CASE Head(frames).text = "Result"
    <3>1. rpc' = "stats"
      BY <2>1, <2>3
    <3>2. frames = ResultMessage(Newest)
      BY <2>2, <2>3 DEF Latest, ResultDue
    <3>3. frames' = <<StatsFrame(Newest), Text("")>>
      BY <2>2, <3>2, Messaging
    <3> QED
      BY <2>2, <3>1, <3>3 DEF Latest
  <2>4. CASE Head(frames).text = "Finished"
    BY <2>1, <2>4 DEF Latest
  <2>5. CASE Head(frames).text = "" /\ frames' = <<>>
    <3>1. rpc' = "status" /\ ~ResultDue'
      BY <2>1, <2>5 DEF ResultDue
    <3> QED
      BY <3>1 DEF Latest
  <2> QED
    BY <1>0, <2>1, <2>3, <2>4, <2>5, ReadAtStatus
<1>4. CASE RecvName
  BY <1>4 DEF RecvName, Latest
<1>5. CASE RecvExitStatus
  <2>1. rpc' = "status" /\ frames' = <<Text("")>>
    BY <1>0, <1>5, ReadAtExitStatus DEF RecvExitStatus
  <2>2. Head(frames').text = ""
    BY <2>1, Tuples, Messaging
  <2>3. ~ResultDue'
    BY <2>1, <2>2 DEF ResultDue
  <2> QED
    BY <2>1, <2>3 DEF Latest
<1>6. CASE RecvStats
  <2>1. rpc = "stats" /\ rpc' = "last" /\ stats' = Head(frames) /\ sent' = sent
    BY <1>6 DEF RecvStats, s_recv
  <2>2. frames = <<StatsFrame(Newest), Text("")>>
    BY <2>1 DEF Latest
  <2>3. stats' = StatsFrame(Newest) /\ Newest' = Newest
    BY <2>1, <2>2, Tuples DEF Newest
  <2> QED
    BY <2>1, <2>3 DEF Latest
<1>7. CASE RecvLast
  <2>1. rpc' = "status" /\ frames' = <<>>
    BY <1>0, <1>7, ReadAtLast DEF RecvLast
  <2>2. ~ResultDue'
    BY <2>1 DEF ResultDue
  <2> QED
    BY <2>1, <2>2 DEF Latest
<1>8. CASE Report
  <2>1. rpc = "status" /\ rpc' = "over" /\ UNCHANGED <<frames, sent>>
    BY <1>8 DEF Report
  <2>2. (ResultDue' <=> ResultDue) /\ Newest' = Newest
    BY <2>1 DEF ResultDue, Newest
  <2> QED
    BY <2>1, <2>2 DEF Latest
<1>9. CASE UNCHANGED vars
  BY <1>9 DEF vars, Latest, Newest, ResultDue
<1> QED
  BY <1>1, <1>2, <1>3, <1>4, <1>5, <1>6, <1>7, <1>8, <1>9 DEF Next, Stop

-----------------------------------------------------------------------------
(* The three references of the report, connection by connection.           *)
Counts == [k \in Measured |-> Len(sent[k].samples)]
Totals == [k \in Measured |-> Total(sent[k].samples)]
Squared == [k \in Measured |-> Deviations(sent[k].samples)]

(* What printing may cost of a mean, given the sum and the number of the   *)
(* latencies, and of a variance, given the squared deviations.             *)
MeanSlack(all, n) == 5 * all + n
VarianceSlack(pooled, n) == pooled \div Fifth + 2 * n

(* MeanIsMean and VarianceUnderstates, with their types.                   *)
Sums ==
  /\ meansum \in Int /\ variancesum \in Int
  /\ totalcount = SumFunction(Counts)
  /\ LET all   == SumFunction(Totals)
         slack == MeanSlack(all, totalcount)
     IN  all \in Nat /\ meansum - all * Micro \in -slack .. slack
  /\ LET pooled == SumFunction(Squared)
         slack  == VarianceSlack(pooled, totalcount)
     IN  pooled \in Nat /\ variancesum <= pooled + slack /\ 2 * variancesum >= pooled - slack
  /\ totalcount - samples = 0 <=> \A k \in Measured : Len(sent[k].samples) = 1

(* A sum over one more connection.                                         *)
LEMMA SumGrows ==
  ASSUME NEW S, IsFiniteSet(S), NEW x, x \notin S, NEW f, DOMAIN f = S,
         NEW g, DOMAIN g = S \cup {x}, \A i \in S : f[i] \in Int /\ g[i] = f[i], g[x] \in Int
  PROVE  SumFunction(f) \in Int /\ SumFunction(g) = g[x] + SumFunction(f)
<1>1. SumFunction(f) = SumFunctionOnSet(f, S)
      /\ SumFunction(g) = SumFunctionOnSet(g, S \cup {x})
  BY Zenon DEF SumFunction
<1>2. \A i \in S \cup {x} : g[i] \in Int
  OBVIOUS
<1>3. /\ SumFunctionOnSet(g, S) \in Int
      /\ SumFunctionOnSet(g, S \cup {x}) = g[x] + SumFunctionOnSet(g, S)
  BY <1>2, SumWith
<1>4. SumFunctionOnSet(g, S) = SumFunctionOnSet(f, S)
  BY SumSame
<1> QED
  BY <1>1, <1>3, <1>4

(* A step after which the report still is about the same connections.      *)
LEMMA SumsKept ==
  ASSUME Sums, Measured' = Measured, \A k \in Measured : sent'[k] = sent[k],
         UNCHANGED <<meansum, variancesum, totalcount, samples>>
  PROVE  Sums'
<1>1. Counts' = Counts /\ Totals' = Totals /\ Squared' = Squared
  BY DEF Counts, Totals, Squared
<1>2. \A k \in Measured : Len(sent'[k].samples) = Len(sent[k].samples)
  OBVIOUS
<1> QED
  BY <1>1, <1>2 DEF Sums

(* What the printed mean and variance of a connection say of its latencies.*)
LEMMA Measures ==
  ASSUME NEW c \in Connections, c.samples # <<>>
  PROVE  LET s == c.samples
             n == Len(s)
             mean == Print6(Total(s), n)
             variance == Print6(Spread(s), n * n)
         IN  /\ n \in Nat \ {0} /\ Total(s) \in Nat /\ Deviations(s) \in Nat
             /\ mean \in Int /\ variance \in Int
             /\ mean * n - Total(s) * Micro \in -MeanSlack(Total(s), n) .. MeanSlack(Total(s), n)
             /\ (n - 1) * variance <= Deviations(s) + VarianceSlack(Deviations(s), n)
             /\ 2 * ((n - 1) * variance) >= Deviations(s) - VarianceSlack(Deviations(s), n)
<1> DEFINE s == c.samples
           n == Len(s)
           mean == Print6(Total(s), n)
           variance == Print6(Spread(s), n * n)
<1>1. n \in Nat \ {0} /\ s \in [1 .. n -> Latencies]
  BY Echoed
<1>2. Total(s) \in Nat /\ Spread(s) \in Nat /\ (n = 1 => Spread(s) = 0)
  BY <1>1, Latency
<1>3. /\ mean \in Nat
      /\ mean * n - Total(s) * Micro \in -(5 * Total(s) + n) .. (5 * Total(s) + n)
  BY <1>1, <1>2, Printed
<1> HIDE DEF n
<1>4. LET D == (Spread(s) * Micro) \div n
      IN  /\ variance \in Nat /\ D \in Nat
          /\ (n - 1) * variance <= D + (D \div Fifth + 2 * n)
          /\ 2 * ((n - 1) * variance) >= D - (D \div Fifth + 2 * n)
  BY <1>1, <1>2, Weighted
<1>5. Deviations(s) = (Spread(s) * Micro) \div n
  BY Zenon DEF Deviations, n
<1> HIDE DEF mean, variance
<1>6. /\ variance \in Nat /\ Deviations(s) \in Nat
      /\ (n - 1) * variance <= Deviations(s) + VarianceSlack(Deviations(s), n)
      /\ 2 * ((n - 1) * variance) >= Deviations(s) - VarianceSlack(Deviations(s), n)
  BY <1>4, <1>5, Zenon DEF VarianceSlack
<1>7. mean * n - Total(s) * Micro \in -MeanSlack(Total(s), n) .. MeanSlack(Total(s), n)
  BY <1>3, Zenon DEF MeanSlack
<1>8. mean \in Int /\ variance \in Int
  BY <1>3, <1>6
<1> QED
  BY <1>1, <1>2, <1>6, <1>7, <1>8 DEF n, mean, variance

(* The connections that count are among those that were announced.         *)
LEMMA Within ==
  ASSUME SinkInv
  PROVE  /\ Handled \in Nat /\ Handled <= Len(sent) /\ Len(setup_stats) = Handled
         /\ sent \in Seq(Connections) /\ Measured \subseteq 1 .. Handled /\ IsFiniteSet(Measured)
         /\ \A k \in Measured : sent[k] \in Connections /\ sent[k].samples # <<>>
<1>0. Counters /\ Accounting
  BY DEF SinkInv
<1>1. Handled \in Nat
  BY <1>0 DEF Counters, Handled
<1>2. sent \in Seq(Connections) /\ Len(sent) \in Nat
  BY <1>0, LenProperties DEF Counters
<1>3. Handled <= Len(sent)
  BY <1>0, <1>1, <1>2 DEF Accounting, Counters, One
<1>4. Measured \subseteq 1 .. Handled
  BY DEF Measured
<1>5. IsFiniteSet(Measured)
  <2>1. IsFiniteSet(1 .. Handled)
    BY <1>1, FS_Interval
  <2> QED
    BY <1>4, <2>1, FS_Subset
<1>6. \A k \in 1 .. Handled : k \in 1 .. Len(sent)
  BY <1>1, <1>2, <1>3
<1>7. \A k \in Measured : sent[k] \in Connections /\ sent[k].samples # <<>>
  BY <1>2, <1>4, <1>6, ElementOfSeq DEF Measured
<1> QED
  BY <1>0, <1>1, <1>2, <1>3, <1>4, <1>5, <1>7 DEF Accounting

(* Errors and bounds of two parts add up.                                  *)
LEMMA Adding ==
  /\ \A m, x, t, y, z, n \in Int :
       m - x \in -t .. t /\ z - y \in -n .. n =>
         m + z \in Int /\ (m + z) - (y + x) \in -(n + t) .. (n + t)
  /\ \A v, x, t, d, z, n, r \in Int :
       v <= x + t /\ 2 * v >= x - t /\ z <= d + n /\ 2 * z >= d - n /\ n + t <= r =>
         v + z \in Int /\ v + z <= (d + x) + r /\ 2 * (v + z) >= (d + x) - r
  /\ \A a, b, m \in Int :
       (a + b) * m = a * m + b * m /\ a + b = b + a /\ a * m \in Int /\ (a - 1) * m \in Int
  /\ \A t, r \in Nat, n \in Nat \ {0} :
       r <= t => ((t + n) - (r + 1) = 0 <=> t - r = 0 /\ n = 1)
OBVIOUS

(* And so do the two slacks.                                               *)
LEMMA Slacks ==
  ASSUME NEW a \in Nat, NEW b \in Nat, NEW t \in Nat, NEW n \in Nat
  PROVE  /\ MeanSlack(a, t) \in Int /\ MeanSlack(b, n) + MeanSlack(a, t) = MeanSlack(b + a, t + n)
         /\ VarianceSlack(a, t) \in Int /\ VarianceSlack(b + a, t + n) \in Int
         /\ VarianceSlack(b, n) + VarianceSlack(a, t) <= VarianceSlack(b + a, t + n)
<1>1. MeanSlack(a, t) \in Int /\ MeanSlack(b, n) + MeanSlack(a, t) = MeanSlack(b + a, t + n)
  BY DEF MeanSlack
<1> DEFINE F == Fifth
           p == a \div F
           q == b \div F
           r == (b + a) \div F
<1>2. F \in Nat \ {0}
  BY Fifths
<1> HIDE DEF F
<1>3. /\ p \in Int /\ q \in Int /\ r \in Int
      /\ F * p <= a /\ F * q <= b /\ b + a < F * r + F
  BY <1>2, Division
<1> HIDE DEF p, q, r
<1>4. q + p < r + 1
  <2>1. F * (q + p) = F * q + F * p /\ F * (r + 1) = F * r + F
    BY <1>2, <1>3
  <2>2. F * q \in Int /\ F * p \in Int /\ F * r \in Int
    BY <1>2, <1>3
  <2>3. F * (q + p) < F * (r + 1)
    BY <1>2, <1>3, <2>1, <2>2
  <2>4. q + p \in Int /\ r + 1 \in Int
    BY <1>3
  <2> QED
    BY <1>2, <2>3, <2>4, Cancel
<1>5. /\ VarianceSlack(a, t) = p + 2 * t /\ VarianceSlack(b, n) = q + 2 * n
      /\ VarianceSlack(b + a, t + n) = r + 2 * (t + n)
  BY Zenon DEF VarianceSlack, p, q, r, F
<1>6. VarianceSlack(b, n) + VarianceSlack(a, t) <= VarianceSlack(b + a, t + n)
  BY <1>3, <1>4, <1>5
<1>7. VarianceSlack(a, t) \in Int /\ VarianceSlack(b + a, t + n) \in Int
  BY <1>3, <1>5
<1> QED
  BY <1>1, <1>6, <1>7

(* A connection that echoed is added to the report.                        *)
LEMMA SumsGrow ==
  ASSUME SinkInv, Sums, NEW k, k \notin Measured, Measured' = Measured \cup {k},
         sent' = sent, sent[k] \in Connections, sent[k].samples # <<>>,
         NEW n, n = Len(sent[k].samples),
         totalcount' = totalcount + n, samples' = samples + 1,
         meansum' = meansum + Print6(Total(sent[k].samples), n) * n,
         variancesum' = variancesum + (n - 1) * Print6(Spread(sent[k].samples), n * n)
  PROVE  Sums'
<1> DEFINE s == sent[k].samples
           mean == Print6(Total(s), n)
           variance == Print6(Spread(s), n * n)
           T == Total(s)
           D == Deviations(s)
<1>1. /\ n \in Nat \ {0} /\ T \in Nat /\ D \in Nat /\ mean \in Int /\ variance \in Int
      /\ mean * n - T * Micro \in -MeanSlack(T, n) .. MeanSlack(T, n)
      /\ (n - 1) * variance <= D + VarianceSlack(D, n)
      /\ 2 * ((n - 1) * variance) >= D - VarianceSlack(D, n)
  BY Measures
<1>2. meansum' = meansum + mean * n /\ variancesum' = variancesum + (n - 1) * variance
  OBVIOUS
<1>3. IsFiniteSet(Measured) /\ \A i \in Measured : sent[i] \in Connections /\ sent[i].samples # <<>>
  BY Within
<1>4. \A i \in Measured : /\ Len(sent[i].samples) \in Nat \ {0} /\ Total(sent[i].samples) \in Nat
                          /\ Deviations(sent[i].samples) \in Nat
  BY <1>3, Measures
<1>5. /\ Counts' = [i \in Measured \cup {k} |-> Len(sent[i].samples)]
      /\ Totals' = [i \in Measured \cup {k} |-> Total(sent[i].samples)]
      /\ Squared' = [i \in Measured \cup {k} |-> Deviations(sent[i].samples)]
  BY DEF Counts, Totals, Squared
<1>6. SumFunction(Counts) \in Int /\ SumFunction(Counts') = n + SumFunction(Counts)
  <2>1. /\ DOMAIN Counts = Measured /\ DOMAIN Counts' = Measured \cup {k}
        /\ \A i \in Measured : Counts[i] \in Int /\ Counts'[i] = Counts[i]
        /\ Counts'[k] = n
    BY <1>4, <1>5 DEF Counts
  <2> DEFINE S == Measured
             f == Counts
             g == Counts'
  <2>2. /\ IsFiniteSet(S) /\ k \notin S /\ DOMAIN f = S /\ DOMAIN g = S \cup {k}
        /\ \A i \in S : f[i] \in Int /\ g[i] = f[i]
        /\ g[k] \in Int
    BY <1>1, <1>3, <2>1
  <2> HIDE DEF S, f, g
  <2>3. SumFunction(f) \in Int /\ SumFunction(g) = g[k] + SumFunction(f)
    BY ONLY <2>2, SumGrows
  <2> QED
    BY <2>1, <2>3 DEF f, g
<1>7. SumFunction(Totals) \in Int /\ SumFunction(Totals') = T + SumFunction(Totals)
  <2>1. /\ DOMAIN Totals = Measured /\ DOMAIN Totals' = Measured \cup {k}
        /\ \A i \in Measured : Totals[i] \in Int /\ Totals'[i] = Totals[i]
        /\ Totals'[k] = T
    BY <1>4, <1>5 DEF Totals
  <2> DEFINE S == Measured
             f == Totals
             g == Totals'
  <2>2. /\ IsFiniteSet(S) /\ k \notin S /\ DOMAIN f = S /\ DOMAIN g = S \cup {k}
        /\ \A i \in S : f[i] \in Int /\ g[i] = f[i]
        /\ g[k] \in Int
    BY <1>1, <1>3, <2>1
  <2> HIDE DEF S, f, g
  <2>3. SumFunction(f) \in Int /\ SumFunction(g) = g[k] + SumFunction(f)
    BY ONLY <2>2, SumGrows
  <2> QED
    BY <2>1, <2>3 DEF f, g
<1>8. SumFunction(Squared) \in Int /\ SumFunction(Squared') = D + SumFunction(Squared)
  <2>1. /\ DOMAIN Squared = Measured /\ DOMAIN Squared' = Measured \cup {k}
        /\ \A i \in Measured : Squared[i] \in Int /\ Squared'[i] = Squared[i]
        /\ Squared'[k] = D
    BY <1>4, <1>5 DEF Squared
  <2> DEFINE S == Measured
             f == Squared
             g == Squared'
  <2>2. /\ IsFiniteSet(S) /\ k \notin S /\ DOMAIN f = S /\ DOMAIN g = S \cup {k}
        /\ \A i \in S : f[i] \in Int /\ g[i] = f[i]
        /\ g[k] \in Int
    BY <1>1, <1>3, <2>1
  <2> HIDE DEF S, f, g
  <2>3. SumFunction(f) \in Int /\ SumFunction(g) = g[k] + SumFunction(f)
    BY ONLY <2>2, SumGrows
  <2> QED
    BY <2>1, <2>3 DEF f, g
<1>9. /\ meansum \in Int /\ variancesum \in Int /\ totalcount \in Nat /\ samples \in Nat
      /\ samples <= totalcount /\ Micro \in Nat
  <2>1. Micro \in Nat
    BY SMT DEF Micro
  <2> QED
    BY <2>1 DEF Sums, SinkInv, Counters, Accounting
<1>10. totalcount' = SumFunction(Counts')
  <2>1. totalcount = SumFunction(Counts)
    BY DEF Sums
  <2>2. n \in Int
    BY <1>1
  <2> QED
    BY <1>6, <2>1, <2>2, Adding
<1> HIDE DEF s, mean, variance, T, D
<1>11. /\ meansum' \in Int /\ SumFunction(Totals') \in Nat
       /\ meansum' - SumFunction(Totals') * Micro
            \in -MeanSlack(SumFunction(Totals'), totalcount') .. MeanSlack(SumFunction(Totals'), totalcount')
  <2> DEFINE A == SumFunction(Totals)
             x == A * Micro
             y == T * Micro
             z == mean * n
             t == MeanSlack(A, totalcount)
             r == MeanSlack(T, n)
  <2>1. A \in Nat /\ meansum - x \in -t .. t
    BY DEF Sums
  <2>2. SumFunction(Totals') = T + A /\ T + A \in Nat
    <3>1. T \in Nat /\ A \in Nat
      BY <1>1, <2>1
    <3>2. SumFunction(Totals') = T + A
      BY ONLY <1>7
    <3> HIDE DEF A
    <3>3. T + A \in Nat
      BY ONLY <3>1
    <3> QED
      BY ONLY <3>2, <3>3
  <2>3. /\ (T + A) * Micro = y + x /\ y \in Int /\ x \in Int /\ z \in Int
    <3>1. Micro \in Int /\ n \in Int /\ T \in Int /\ A \in Int /\ mean \in Int
      BY <1>1, <1>9, <2>1
    <3> QED
      BY <3>1, Adding
  <2>4. t \in Int /\ r \in Int /\ r + t = MeanSlack(T + A, totalcount')
    <3>1. n \in Nat
      BY <1>1
    <3>2. t \in Int /\ r + t = MeanSlack(T + A, totalcount + n)
      <4>1. \A a, b, i, j \in Nat : /\ MeanSlack(a, i) \in Int
                                   /\ MeanSlack(b, j) + MeanSlack(a, i) = MeanSlack(b + a, i + j)
        BY ONLY Slacks
      <4>2. T \in Nat /\ A \in Nat /\ totalcount \in Nat
        BY <1>1, <1>9, <2>1
      <4> HIDE DEF A
      <4> QED
        BY ONLY <3>1, <4>1, <4>2, totalcount' = totalcount + n
    <3>3. r \in Int
      BY <1>1, <3>1, Slacks
    <3> QED
      BY <3>2, <3>3
  <2>5. meansum' = meansum + z /\ z - y \in -r .. r /\ meansum \in Int
    BY <1>1, <1>2, <1>9
  <2> HIDE DEF A, x, y, z, t, r
  <2>6. meansum + z \in Int /\ (meansum + z) - (y + x) \in -(r + t) .. (r + t)
    BY <2>1, <2>3, <2>4, <2>5, Adding
  <2> QED
    BY <2>2, <2>3, <2>4, <2>5, <2>6
<1>12. /\ variancesum' \in Int /\ SumFunction(Squared') \in Nat
       /\ variancesum' <= SumFunction(Squared') + VarianceSlack(SumFunction(Squared'), totalcount')
       /\ 2 * variancesum' >= SumFunction(Squared') - VarianceSlack(SumFunction(Squared'), totalcount')
  <2> DEFINE A == SumFunction(Squared)
             z == (n - 1) * variance
             t == VarianceSlack(A, totalcount)
             e == VarianceSlack(D, n)
             r == VarianceSlack(D + A, totalcount')
  <2>1. A \in Nat /\ variancesum <= A + t /\ 2 * variancesum >= A - t
    BY DEF Sums
  <2>2. SumFunction(Squared') = D + A /\ D + A \in Nat
    <3>1. D \in Nat /\ A \in Nat
      BY <1>1, <2>1
    <3>2. SumFunction(Squared') = D + A
      BY ONLY <1>8
    <3> HIDE DEF A
    <3>3. D + A \in Nat
      BY ONLY <3>1
    <3> QED
      BY ONLY <3>2, <3>3
  <2>3. z \in Int /\ z <= D + e /\ 2 * z >= D - e /\ variancesum' = variancesum + z
    <3>1. n \in Int /\ variance \in Int
      BY <1>1
    <3> QED
      BY <1>1, <1>2, <3>1, Adding
  <2>4. t \in Int /\ e \in Int /\ r \in Int /\ e + t <= r
    <3>1. n \in Nat
      BY <1>1
    <3>2. t \in Int /\ r \in Int /\ e + t <= r
      <4>1. \A a, b, i, j \in Nat :
              /\ VarianceSlack(a, i) \in Int /\ VarianceSlack(b + a, i + j) \in Int
              /\ VarianceSlack(b, j) + VarianceSlack(a, i) <= VarianceSlack(b + a, i + j)
        BY ONLY Slacks
      <4>2. D \in Nat /\ A \in Nat /\ totalcount \in Nat
        BY <1>1, <1>9, <2>1
      <4> HIDE DEF A
      <4> QED
        BY ONLY <3>1, <4>1, <4>2, totalcount' = totalcount + n
    <3>3. e \in Int
      BY <1>1, <3>1, Slacks
    <3> QED
      BY <3>2, <3>3
  <2>5. variancesum \in Int /\ A \in Int /\ D \in Int
    BY <1>1, <1>9, <2>1
  <2> HIDE DEF A, z, t, e, r
  <2>6. variancesum + z \in Int /\ variancesum + z <= (D + A) + r /\ 2 * (variancesum + z) >= (D + A) - r
    BY <2>1, <2>3, <2>4, <2>5, Adding
  <2> QED
    BY <2>2, <2>3, <2>6 DEF r
<1>13. totalcount' - samples' = 0 <=> \A i \in Measured' : Len(sent'[i].samples) = 1
  <2>1. totalcount - samples = 0 <=> \A i \in Measured : Len(sent[i].samples) = 1
    BY DEF Sums
  <2>2. totalcount' - samples' = 0 <=> totalcount - samples = 0 /\ n = 1
    BY ONLY <1>1, <1>9, Adding, totalcount' = totalcount + n, samples' = samples + 1
  <2>3. (\A i \in Measured' : Len(sent'[i].samples) = 1)
          <=> (\A i \in Measured : Len(sent[i].samples) = 1) /\ n = 1
    OBVIOUS
  <2> QED
    BY <2>1, <2>2, <2>3
<1> QED
  BY <1>10, <1>11, <1>12, <1>13 DEF Sums

(* What the report computes, and what it rests on.                         *)
Numbers == SinkInv /\ Latest /\ Sums /\ SetupsGenuine

(* A step that handles no result.                                          *)
LEMMA NumbersKept ==
  ASSUME Numbers, UNCHANGED results, \A k \in 1 .. Len(sent) : sent'[k] = sent[k]
  PROVE  Sums' /\ SetupsGenuine'
<1>0. SinkInv /\ Sums /\ SetupsGenuine
  BY DEF Numbers
<1>1. Handled' = Handled /\ setup_stats' = setup_stats
      /\ UNCHANGED <<meansum, variancesum, totalcount, samples>>
  BY DEF results, Handled
<1>2. \A k \in 1 .. Handled : sent'[k] = sent[k]
  <2>1. Handled \in Nat /\ Handled <= Len(sent) /\ Len(sent) \in Nat
    BY <1>0, Within, LenProperties
  <2>2. \A k \in 1 .. Handled : k \in 1 .. Len(sent)
    BY <2>1
  <2> QED
    BY <2>2
<1>3. Measured' = Measured /\ Measured \subseteq 1 .. Handled
  BY <1>1, <1>2 DEF Measured
<1>4. Sums'
  BY <1>0, <1>1, <1>2, <1>3, SumsKept
<1>5. SetupsGenuine'
  BY <1>0, <1>1, <1>2, <1>3 DEF SetupsGenuine
<1> QED
  BY <1>4, <1>5

(* The step that does: only a connection that echoed changes a sum, and    *)
(* the number added is one it printed.                                     *)
LEMMA NumbersGrow ==
  ASSUME Numbers, RecvLast
  PROVE  Sums' /\ SetupsGenuine'
<1>0. SinkInv /\ Latest /\ Sums /\ SetupsGenuine /\ Counters /\ Accounting
  BY DEF Numbers, SinkInv
<1> DEFINE k == Handled + 1
           c == sent[k]
<1>1. /\ Handled \in Nat /\ Len(setup_stats) = Handled /\ sent \in Seq(Connections)
      /\ Measured \subseteq 1 .. Handled
  BY <1>0, Within
<1>2. rpc = "last" /\ sent' = sent
  BY DEF RecvLast, s_recv
<1>3. Len(sent) = k
  <2>1. One(ResultDue) = 0 /\ One(rpc = "last") = 1
    BY <1>2 DEF ResultDue, One
  <2> QED
    BY <1>0, <1>1, <2>1 DEF Accounting, Counters
<1>4. c \in Connections
  <2>1. k \in 1 .. Len(sent)
    BY <1>1, <1>3
  <2> QED
    BY <1>1, <2>1, ElementOfSeq
<1>5. stats = StatsFrame(c)
  BY <1>0, <1>2, <1>3 DEF Latest, Newest
<1>6. PICK v \in Extract(get_stats(c).fields) :
        /\ setup_stats' = Append(setup_stats, v[6])
        /\ Judge(stats.type, v[1])
        /\ Accumulate(v[1], v[4], v[5])
  <2>1. stats.fields = get_stats(c).fields
    BY <1>5, Messaging
  <2> QED
    BY <2>1 DEF RecvLast
<1>7. Handled' = k
  BY <1>0, <1>6 DEF Judge, Handled, Counters
<1>8. setup_stats'[k] = v[6] /\ \A i \in 1 .. Handled : setup_stats'[i] = setup_stats[i]
  <2>1. v[6] \in Int
    <3> DEFINE f == get_stats(c).fields
    <3>1. f[1] \in 0 .. Messages /\ f[6] \in Int
      BY <1>4, FieldsPrinted
    <3>2. v \in Extract(f)
      OBVIOUS
    <3> HIDE DEF f
    <3> QED
      BY <3>1, <3>2, FieldsRead
  <2>2. setup_stats \in Seq(Int)
    BY <1>0 DEF Counters
  <2> QED
    BY <1>1, <1>6, <2>1, <2>2, AppendProperties
<1>9. k \notin Measured /\ 1 .. k = (1 .. Handled) \cup {k}
  BY <1>1
<1> HIDE DEF k
<1>10. Measured' = {i \in 1 .. k : sent[i].samples # <<>>}
  BY <1>2, <1>7 DEF Measured
<1>11. CASE c.samples = <<>>
  <2>1. Measured' = Measured
    BY <1>9, <1>10, <1>11 DEF Measured
  <2>2. v[1] = 0
    BY <1>4, <1>6, <1>11, SilentRead
  <2>3. UNCHANGED <<meansum, totalcount, samples, variancesum>>
    BY <1>6, <2>2 DEF Accumulate
  <2>4. Sums'
    BY <1>0, <1>2, <2>1, <2>3, SumsKept
  <2>5. SetupsGenuine'
    BY <1>0, <1>1, <1>2, <1>8, <2>1 DEF SetupsGenuine
  <2> QED
    BY <2>4, <2>5
<1>12. CASE c.samples # <<>>
  <2> DEFINE s == c.samples
             n == Len(s)
  <2>1. Measured' = Measured \cup {k}
    BY <1>9, <1>10, <1>12 DEF Measured
  <2>2. /\ v[1] = n /\ v[6] = Print6(c.setup, 1) /\ v[4] = Print6(Total(s), n)
        /\ v[5] = Print6(Spread(s), n * n)
    BY <1>4, <1>6, <1>12, EchoedRead
  <2>3. v[1] > 0
    <3>1. n \in Nat \ {0}
      BY <1>4, <1>12, Echoed
    <3> QED
      BY <2>2, <3>1
  <2>4. /\ meansum' = meansum + v[4] * v[1] /\ totalcount' = totalcount + v[1]
        /\ samples' = samples + 1 /\ variancesum' = variancesum + (v[1] - 1) * v[5]
    BY <1>6, <2>3 DEF Accumulate
  <2>5. /\ totalcount' = totalcount + n /\ samples' = samples + 1
        /\ meansum' = meansum + Print6(Total(s), n) * n
        /\ variancesum' = variancesum + (n - 1) * Print6(Spread(s), n * n)
    BY <2>2, <2>4, Zenon
  <2>6. n = Len(sent[k].samples) /\ s = sent[k].samples
    OBVIOUS
  <2> HIDE DEF n, s
  <2>7. Sums'
    BY <1>0, <1>2, <1>4, <1>9, <1>12, <2>1, <2>5, <2>6, SumsGrow
  <2>8. SetupsGenuine'
    <3> DEFINE setup == c.setup
    <3>1. setup \in Nat
      BY <1>4, <1>12, Echoed
    <3>2. v[6] - setup * Micro \in -5 * setup .. 5 * setup
      BY <2>2, <3>1, PrintedWhole
    <3>3. setup_stats'[k] - setup * Micro \in -5 * setup .. 5 * setup
      BY <1>8, <3>2
    <3>4. \A i \in Measured : setup_stats'[i] = setup_stats[i]
      BY <1>1, <1>8
    <3> QED
      BY <1>0, <1>2, <2>1, <3>3, <3>4 DEF SetupsGenuine
  <2> QED
    BY <2>7, <2>8
<1> QED
  BY <1>11, <1>12

LEMMA NumbersStep ==
  ASSUME Numbers, [Next]_vars
  PROVE  Numbers'
<1>0. SinkInv /\ Latest /\ sent \in Seq(Connections)
  BY DEF Numbers, SinkInv, Counters
<1>1. SinkInv'
  BY <1>0, FramingStep, AccountingStep DEF SinkInv
<1>2. Latest'
  BY <1>0, <1>1, LatestStep
<1>3. Sums' /\ SetupsGenuine'
  <2>1. CASE ResultArrives
    <3>1. UNCHANGED results /\ \E c \in Connections : sent' = Append(sent, c)
      BY <2>1 DEF ResultArrives
    <3>2. \A k \in 1 .. Len(sent) : sent'[k] = sent[k]
      BY <1>0, <3>1, AppendProperties
    <3> QED
      BY <3>1, <3>2, NumbersKept
  <2>2. CASE RecvLast
    BY <2>2, NumbersGrow
  <2>3. CASE ~ResultArrives /\ ~RecvLast
    <3>1. UNCHANGED <<results, sent>>
      BY <2>3 DEF Next, FinishedArrives, RecvStatus, RecvName, RecvExitStatus, RecvStats,
                  Report, Stop, vars
    <3> QED
      BY <3>1, NumbersKept
  <2> QED
    BY <2>1, <2>2, <2>3
<1> QED
  BY <1>1, <1>2, <1>3 DEF Numbers

LEMMA NumbersInit == Init => Numbers
<1> SUFFICES ASSUME Init PROVE Numbers
  OBVIOUS
<1>1. SinkInv
  BY SinkInit
<1>2. rpc = "status" /\ frames = <<>>
  BY DEF Init
<1>3. Latest
  BY <1>2 DEF Latest, ResultDue
<1>4. Measured = {}
  <2>1. connectionsSucceeded = 0 /\ connectionsDied = 0
    BY DEF Init
  <2>2. Handled = 0
    BY <2>1 DEF Handled
  <2> QED
    BY <2>2 DEF Measured
<1>5. SumFunction(Counts) = 0 /\ SumFunction(Totals) = 0 /\ SumFunction(Squared) = 0
  <2>1. DOMAIN Counts = {} /\ DOMAIN Totals = {} /\ DOMAIN Squared = {}
    BY <1>4 DEF Counts, Totals, Squared
  <2> QED
    BY <2>1, SumEmpty, Zenon DEF SumFunction
<1>6. Sums
  <2>1. meansum = 0 /\ variancesum = 0 /\ totalcount = 0 /\ samples = 0
    BY DEF Init
  <2>2. Micro \in Int
    BY SMT DEF Micro
  <2>3. \A m \in Int : 0 - 0 * m = 0
    OBVIOUS
  <2>4. meansum - SumFunction(Totals) * Micro = 0
    BY <1>5, <2>1, <2>2, <2>3
  <2>5. MeanSlack(0, 0) = 0 /\ VarianceSlack(0, 0) = 0
    <3>1. \A f \in Nat \ {0} : 0 \div f = 0
      OBVIOUS
    <3> QED
      BY <3>1, Fifths DEF MeanSlack, VarianceSlack
  <2>6. 0 \in -0 .. 0 /\ 0 <= 0 + 0 /\ 2 * 0 >= 0 - 0
    OBVIOUS
  <2> QED
    BY <1>4, <1>5, <2>1, <2>4, <2>5, <2>6 DEF Sums
<1> QED
  BY <1>1, <1>3, <1>4, <1>6 DEF Numbers, SetupsGenuine

LEMMA NumbersAlways == Spec => []Numbers
<1>1. Numbers /\ [Next]_vars => Numbers'
  BY NumbersStep
<1> QED
  BY <1>1, NumbersInit, PTL DEF Spec

(* The mean of the report is the mean of all the latencies that were       *)
(* measured, within what printing them has cost: five parts in a million,  *)
(* and a micro-unit of each.  For any number of connections and messages,  *)
(* and any latencies.                                                      *)
THEOREM MeanCorrect == Spec => []MeanIsMean
<1>1. Numbers => MeanIsMean
  BY DEF Numbers, Sums, MeanIsMean, Counts, Totals, MeanSlack
<1> QED
  BY <1>1, NumbersAlways, PTL

(* The variance of the report, (count - 1) times the variance of each      *)
(* population, is at least one half and at most the whole of the pooled    *)
(* one, up to the same cost of printing; its divisor is 0 exactly if no    *)
(* connection echoed twice.                                                *)
THEOREM VarianceBounded == Spec => []VarianceUnderstates
<1>1. Numbers => VarianceUnderstates
  BY DEF Numbers, Sums, VarianceUnderstates, Squared, VarianceSlack, Fifth
<1> QED
  BY <1>1, NumbersAlways, PTL

(* A setup time of the report that belongs to a connection that echoed is  *)
(* the one the connection measured, to six digits, although others are     *)
(* uninitialised.                                                          *)
THEOREM SetupsRead == Spec => []SetupsGenuine
<1>1. Numbers => SetupsGenuine
  BY DEF Numbers
<1> QED
  BY <1>1, NumbersAlways, PTL

-----------------------------------------------------------------------------
(* What module Controller sees of the loop, as a function of where the     *)
(* loop is, its unread frames and the newest connection.                   *)
Finisheds(at, f) ==
  IF at \in {"name", "exit_status"}
     \/ (at \in {"status", "over"} /\ f # <<>> /\ Head(f).text = "Finished")
  THEN <<f[Len(f) - 1].text>> ELSE <<>>

Results(at, f, c) ==
  IF at \in {"stats", "last"}
     \/ (at \in {"status", "over"} /\ f # <<>> /\ Head(f).text = "Result")
  THEN <<Outcome(c)>> ELSE <<>>

Delimiter(at, f) == at \in {"status", "over"} /\ f # <<>> /\ Head(f).text = ""

Received(at, n) == IF at = "last" THEN n - 1 ELSE n

LEMMA Seen ==
  /\ finishedUnread = Finisheds(rpc, frames) /\ finishedUnread' = Finisheds(rpc', frames')
  /\ resultUnread = Results(rpc, frames, Newest) /\ resultUnread' = Results(rpc', frames', Newest')
  /\ (AtTop /\ Head(frames).text = "") = Delimiter(rpc, frames)
  /\ (AtTop /\ Head(frames).text = "")' = Delimiter(rpc', frames')
<1>1. finishedUnread = Finisheds(rpc, frames) /\ finishedUnread' = Finisheds(rpc', frames')
  BY Zenon DEF finishedUnread, Finisheds, AtTop
<1>2. resultUnread = Results(rpc, frames, Newest) /\ resultUnread' = Results(rpc', frames', Newest')
  BY Zenon DEF resultUnread, Results, AtTop, Newest
<1>3. /\ (AtTop /\ Head(frames).text = "") = Delimiter(rpc, frames)
      /\ (AtTop /\ Head(frames).text = "")' = Delimiter(rpc', frames')
  BY Zenon DEF Delimiter, AtTop
<1> QED
  BY <1>1, <1>2, <1>3

(* It at the top of the loop, where the next message is whole or none.     *)
LEMMA SeenAtTop ==
  ASSUME NEW at \in {"status", "over"}, NEW c
  PROVE  /\ Finisheds(at, <<>>) = <<>> /\ Results(at, <<>>, c) = <<>> /\ ~Delimiter(at, <<>>)
         /\ /\ Finisheds(at, <<Text("")>>) = <<>> /\ Results(at, <<Text("")>>, c) = <<>>
            /\ Delimiter(at, <<Text("")>>)
         /\ \A s : /\ Finisheds(at, FinishedMessage(s)) = <<s>>
                   /\ Results(at, FinishedMessage(s), c) = <<>>
                   /\ ~Delimiter(at, FinishedMessage(s))
         /\ \A d : /\ Finisheds(at, ResultMessage(d)) = <<>>
                   /\ Results(at, ResultMessage(d), c) = <<Outcome(c)>>
                   /\ ~Delimiter(at, ResultMessage(d))
<1>1. Finisheds(at, <<>>) = <<>> /\ Results(at, <<>>, c) = <<>> /\ ~Delimiter(at, <<>>)
  BY DEF Finisheds, Results, Delimiter
<1>2. /\ Finisheds(at, <<Text("")>>) = <<>> /\ Results(at, <<Text("")>>, c) = <<>>
      /\ Delimiter(at, <<Text("")>>)
  <2> DEFINE f == <<Text("")>>
  <2>1. f # <<>> /\ Head(f).text = ""
    BY Tuples, Messaging
  <2> HIDE DEF f
  <2>2. Finisheds(at, f) = <<>> /\ Results(at, f, c) = <<>> /\ Delimiter(at, f)
    BY <2>1 DEF Finisheds, Results, Delimiter
  <2> QED
    BY <2>2 DEF f
<1>3. ASSUME NEW s
      PROVE  /\ Finisheds(at, FinishedMessage(s)) = <<s>>
             /\ Results(at, FinishedMessage(s), c) = <<>>
             /\ ~Delimiter(at, FinishedMessage(s))
  <2> DEFINE f == FinishedMessage(s)
  <2>1. f # <<>> /\ Head(f).text = "Finished"
    BY Messaging
  <2>2. f[Len(f) - 1].text = s
    <3> DEFINE a == Text("Finished")
               b == Text(s)
               z == Text("")
    <3>1. f = <<a, z, b, z>> /\ b.text = s
      BY Messaging DEF FinishedMessage
    <3> HIDE DEF f, a, b, z
    <3> QED
      BY <3>1
  <2> HIDE DEF f
  <2>3. Finisheds(at, f) = <<s>> /\ Results(at, f, c) = <<>> /\ ~Delimiter(at, f)
    BY <2>1, <2>2 DEF Finisheds, Results, Delimiter
  <2> QED
    BY <2>3 DEF f
<1>4. ASSUME NEW d
      PROVE  /\ Finisheds(at, ResultMessage(d)) = <<>>
             /\ Results(at, ResultMessage(d), c) = <<Outcome(c)>>
             /\ ~Delimiter(at, ResultMessage(d))
  <2> DEFINE f == ResultMessage(d)
  <2>1. f # <<>> /\ Head(f).text = "Result"
    BY Messaging
  <2> HIDE DEF f
  <2>2. Finisheds(at, f) = <<>> /\ Results(at, f, c) = <<Outcome(c)>> /\ ~Delimiter(at, f)
    BY <2>1 DEF Finisheds, Results, Delimiter
  <2> QED
    BY <2>2 DEF f
<1> QED
  BY <1>1, <1>2, <1>3, <1>4

(* And while the frames of a message are read.                             *)
LEMMA SeenWithin ==
  /\ \A s : Finisheds("name", <<Text(""), Text(s), Text("")>>) = <<s>>
  /\ \A s : Finisheds("exit_status", <<Text(s), Text("")>>) = <<s>>
  /\ \A f, c : \A at \in {"stats", "last"} :
       Finisheds(at, f) = <<>> /\ Results(at, f, c) = <<Outcome(c)>>
  /\ \A f, c : \A at \in {"name", "exit_status"} : Results(at, f, c) = <<>>
  /\ \A f : \A at \in {"name", "exit_status", "stats", "last"} : ~Delimiter(at, f)
<1>1. ASSUME NEW s PROVE Finisheds("name", <<Text(""), Text(s), Text("")>>) = <<s>>
  <2> DEFINE b == Text(s)
             z == Text("")
             f == <<z, b, z>>
  <2>1. b.text = s
    BY Messaging
  <2> HIDE DEF b, z
  <2>2. f[Len(f) - 1].text = s
    BY <2>1
  <2> HIDE DEF f
  <2>3. Finisheds("name", f) = <<s>>
    BY <2>2 DEF Finisheds
  <2> QED
    BY <2>3 DEF f, b, z
<1>2. ASSUME NEW s PROVE Finisheds("exit_status", <<Text(s), Text("")>>) = <<s>>
  <2> DEFINE b == Text(s)
             z == Text("")
             f == <<b, z>>
  <2>1. b.text = s
    BY Messaging
  <2> HIDE DEF b, z
  <2>2. f[Len(f) - 1].text = s
    BY <2>1
  <2> HIDE DEF f
  <2>3. Finisheds("exit_status", f) = <<s>>
    BY <2>2 DEF Finisheds
  <2> QED
    BY <2>3 DEF f, b, z
<1>3. \A f, c : \A at \in {"stats", "last"} :
        Finisheds(at, f) = <<>> /\ Results(at, f, c) = <<Outcome(c)>>
  BY DEF Finisheds, Results
<1>4. \A f, c : \A at \in {"name", "exit_status"} : Results(at, f, c) = <<>>
  BY DEF Results
<1>5. \A f : \A at \in {"name", "exit_status", "stats", "last"} : ~Delimiter(at, f)
  BY DEF Delimiter
<1> QED
  BY <1>1, <1>2, <1>3, <1>4, <1>5

(* What a step may change of what Controller sees, besides the queues and  *)
(* the counters it names.                                                  *)
Still == UNCHANGED <<Received(rpc, resultsReceived), connectionsSucceeded, connectionsDied>>

SameCounts == UNCHANGED <<clientsFinished, clientsDied>>

LEMMA Mapped ==
  /\ (IF rpc = "last" THEN resultsReceived - 1 ELSE resultsReceived)
       = Received(rpc, resultsReceived)
  /\ (IF rpc = "last" THEN resultsReceived - 1 ELSE resultsReceived)'
       = Received(rpc, resultsReceived)'
BY DEF Received

(* No publication reaches anybody: nobody is subscribed in the mapping.    *)
LEMMA Unpublished ==
  [s \in {sender, worker} |-> <<>>]
    = [s \in Loop!Subscribers |-> IF Loop!Delivered(s, "END")
                                  THEN Append([r \in {sender, worker} |-> <<>>][s], "END")
                                  ELSE [r \in {sender, worker} |-> <<>>][s]]
<1>1. Loop!Subscribers = {sender, worker}
  <2>1. 0 .. 1 - 1 = {0}
    OBVIOUS
  <2>2. {sender} \X {0} = {worker}
    BY DEF worker
  <2> QED
    BY <2>1, <2>2 DEF Loop!Subscribers, Loop!Workers
<1>2. \A s \in {sender, worker} : ~Loop!Delivered(s, "END")
  <2>1. 1 .. 0 = {}
    OBVIOUS
  <2>2. \A s \in {sender, worker} : [r \in {sender, worker} |-> 0][s] = 0
    OBVIOUS
  <2> QED
    BY <2>1, <2>2 DEF Loop!Delivered, Loop!Subscribed
<1> QED
  BY <1>1, <1>2

LEMMA Invisible ==
  ASSUME rpc' = "over" <=> rpc = "over", Still, SameCounts,
         finishedUnread' = finishedUnread, resultUnread' = resultUnread,
         Delimiter(rpc', frames') <=> Delimiter(rpc, frames)
  PROVE  UNCHANGED <<Loop!controllerVars, Loop!netVars>>
<1>1. (AtTop /\ Head(frames).text = "")' = (AtTop /\ Head(frames).text = "")
  BY Seen, Zenon DEF Delimiter
<1> QED
  BY <1>1, Mapped DEF Still, SameCounts, Loop!controllerVars, Loop!netVars

(* A message arrives.                                                      *)
LEMMA Pushes ==
  ASSUME rpc' = "over" <=> rpc = "over", Still, SameCounts,
         ~Delimiter(rpc, frames), ~Delimiter(rpc', frames'),
         \/ /\ \E s \in Statuses : finishedUnread' = Append(finishedUnread, s)
            /\ resultUnread' = resultUnread
         \/ /\ \E c : resultUnread' = Append(resultUnread, Outcome(c))
            /\ finishedUnread' = finishedUnread
  PROVE  Pushed
<1>1. (AtTop /\ Head(frames).text = "")' = (AtTop /\ Head(frames).text = "")
  BY Seen, Zenon DEF Delimiter
<1>2. UNCHANGED Loop!controllerVars
  BY <1>1, Mapped DEF Still, SameCounts, Loop!controllerVars
<1>3. \A c : Outcome(c) \in Loop!Outcomes
  BY DEF Outcome, Loop!Outcomes
<1>4. Statuses = Loop!Statuses
  BY DEF Statuses, Loop!Statuses
<1> QED
  BY <1>2, <1>3, <1>4 DEF Pushed

(* Controller goes on collecting.                                          *)
LEMMA StillCollecting ==
  ASSUME rpc # "over", clientsFinished + clientsDied < Expected
  PROVE  Loop!Collecting
<1>1. \A n \in Nat : n * 1 = n
  OBVIOUS
<1>2. Expected * 1 = Expected
  BY <1>1, SinkAssumption
<1> QED
  BY <1>2 DEF Loop!Collecting, Loop!Clients

LEMMA TakesDelimiter ==
  ASSUME rpc # "over", rpc' # "over", clientsFinished + clientsDied < Expected, Still, SameCounts,
         finishedUnread' = finishedUnread, resultUnread' = resultUnread,
         Delimiter(rpc, frames), ~Delimiter(rpc', frames')
  PROVE  Loop!CollectDelimiter
<1>1. (AtTop /\ Head(frames).text = "") /\ (AtTop /\ Head(frames).text = "")' = FALSE
  BY Seen, Zenon DEF Delimiter
<1> QED
  BY <1>1, Mapped, StillCollecting
  DEF Still, SameCounts, Loop!CollectDelimiter, Loop!netVars

LEMMA TakesFinished ==
  ASSUME rpc # "over", rpc' # "over", clientsFinished + clientsDied < Expected, Still,
         NEW s \in Statuses, finishedUnread = <<s>>, finishedUnread' = <<>>,
         resultUnread' = resultUnread,
         ~Delimiter(rpc, frames), Delimiter(rpc', frames'),
         IF s = "0" THEN clientsFinished' = clientsFinished + 1 /\ UNCHANGED clientsDied
                    ELSE clientsDied' = clientsDied + 1 /\ UNCHANGED clientsFinished
  PROVE  Loop!CollectFinished(sender)
<1>1. ~(AtTop /\ Head(frames).text = "") /\ (AtTop /\ Head(frames).text = "")' = TRUE
  BY Seen, Zenon DEF Delimiter
<1>2. Head(<<s>>) = s /\ Tail(<<s>>) = <<>> /\ <<s>> # <<>>
  BY Tuples
<1> DEFINE q == [l \in {sender} |-> finishedUnread]
<1>3. q[sender] = <<s>> /\ q' = [q EXCEPT ![sender] = Tail(@)]
  BY <1>2
<1>4. q[sender] # <<>> /\ Head(q[sender]) = s
  BY <1>2, <1>3
<1> QED
  BY <1>1, <1>3, <1>4, Mapped, StillCollecting DEF Still, Loop!CollectFinished

LEMMA TakesResult ==
  ASSUME rpc # "over", rpc' # "over", clientsFinished + clientsDied < Expected, SameCounts,
         NEW o, resultUnread = <<o>>, resultUnread' = <<>>, finishedUnread' = finishedUnread,
         ~Delimiter(rpc, frames), ~Delimiter(rpc', frames'),
         Received(rpc, resultsReceived)' = Received(rpc, resultsReceived) + 1,
         IF o = "complete"
         THEN connectionsSucceeded' = connectionsSucceeded + 1 /\ UNCHANGED connectionsDied
         ELSE connectionsDied' = connectionsDied + 1 /\ UNCHANGED connectionsSucceeded
  PROVE  Loop!CollectResult(worker)
<1>1. /\ ~(AtTop /\ Head(frames).text = "")
      /\ (AtTop /\ Head(frames).text = "")' = (AtTop /\ Head(frames).text = "")
  BY Seen, Zenon DEF Delimiter
<1>2. Head(<<o>>) = o /\ Tail(<<o>>) = <<>> /\ <<o>> # <<>>
  BY Tuples
<1> DEFINE q == [w \in {worker} |-> resultUnread]
<1>3. q[worker] = <<o>> /\ q' = [q EXCEPT ![worker] = Tail(@)]
  BY <1>2
<1>4. q[worker] # <<>> /\ Head(q[worker]) = o
  BY <1>2, <1>3
<1>5. Loop!CountConnection(Head(q[worker]))
  BY <1>4 DEF Loop!CountConnection
<1> QED
  BY <1>1, <1>3, <1>4, <1>5, Mapped, StillCollecting DEF SameCounts, Loop!CollectResult

LEMMA Ends ==
  ASSUME rpc # "over", rpc' = "over", ~(clientsFinished + clientsDied < Expected), Still, SameCounts,
         finishedUnread' = finishedUnread, resultUnread' = resultUnread,
         Delimiter(rpc', frames') <=> Delimiter(rpc, frames)
  PROVE  Loop!End
<1>1. (AtTop /\ Head(frames).text = "")' = (AtTop /\ Head(frames).text = "")
  BY Seen, Zenon DEF Delimiter
<1>2. ~Loop!Collecting
  <2>1. \A n \in Nat : n * 1 = n
    OBVIOUS
  <2>2. Expected * 1 = Expected
    BY <2>1, SinkAssumption
  <2> QED
    BY <2>2 DEF Loop!Collecting, Loop!Clients
<1>3. Loop!Publish("END")
  BY Unpublished, Zenon DEF Loop!Publish
<1> QED
  BY <1>1, <1>2, <1>3, Mapped DEF Still, SameCounts, Loop!End, Loop!sinkVars

(* The condition of the loop holds until the message has been read.        *)
Awaited ==
  rpc \in {"name", "exit_status", "stats", "last"} => clientsFinished + clientsDied < Expected

LEMMA AwaitedStep ==
  ASSUME Awaited, [Next]_vars
  PROVE  Awaited'
<1>1. CASE RecvStatus
  <2>1. UNCHANGED counters /\ Collecting /\ rpc = "status"
    BY <1>1 DEF RecvStatus, s_recv
  <2> QED
    BY <2>1 DEF Awaited, Collecting, counters
<1>2. CASE ResultArrives \/ FinishedArrives \/ UNCHANGED vars
  BY <1>2 DEF ResultArrives, FinishedArrives, vars, counters, Awaited
<1>3. CASE RecvName \/ RecvStats
  BY <1>3 DEF RecvName, RecvStats, s_recv, counters, Awaited
<1>4. CASE RecvExitStatus \/ RecvLast \/ Report
  <2>1. rpc' \in {"status", "over"}
    BY <1>4 DEF RecvExitStatus, RecvLast, Report
  <2> QED
    BY <2>1 DEF Awaited
<1> QED
  BY <1>1, <1>2, <1>3, <1>4 DEF Next, Stop

(* The verdict on a connection is the one it deserves.                     *)
LEMMA Judged ==
  ASSUME NEW c \in Connections, NEW v \in Extract(get_stats(c).fields)
  PROVE  get_stats(c).type = "success" /\ v[1] = Messages <=> Outcome(c) = "complete"
<1> DEFINE f == get_stats(c).fields
<1>1. f[1] = Len(c.samples) /\ get_stats(c).type = c.type
  BY DEF get_stats
<1>2. f[1] \in 0 .. Messages /\ f[6] \in Int
  BY FieldsPrinted
<1> HIDE DEF f
<1>3. v \in Extract(f)
  BY DEF f
<1>4. v[1] = f[1]
  BY <1>2, <1>3, FieldsRead
<1> QED
  BY <1>1, <1>4 DEF Outcome

LoopStep ==
  \/ Loop!CollectDelimiter \/ Loop!CollectFinished(sender)
  \/ Loop!CollectResult(worker) \/ Loop!End \/ Pushed

(* Every step of the loop is one of Controller's, or is not seen by it.    *)
LEMMA ControllerSteps ==
  ASSUME SinkInv, Latest, Awaited, [Next]_vars
  PROVE  LoopStep \/ UNCHANGED <<Loop!controllerVars, Loop!netVars>>
<1>0. Framing /\ Counters /\ Accounting
  BY DEF SinkInv
<1>1. CASE ResultArrives
  <2>1. /\ rpc' = rpc /\ rpc # "over" /\ frames = <<>>
        /\ UNCHANGED <<counters, resultsReceived, results>>
    BY <1>1 DEF ResultArrives
  <2>2. PICK c \in Connections : frames' = ResultMessage(c) /\ sent' = Append(sent, c)
    BY <1>1 DEF ResultArrives
  <2>3. rpc = "status"
    BY <1>0, <2>1, Tuples DEF Framing
  <2>4. Still /\ SameCounts
    BY <2>1 DEF Still, SameCounts, Received, counters, results
  <2>5. /\ finishedUnread = <<>> /\ finishedUnread' = <<>> /\ resultUnread = <<>>
        /\ resultUnread' = <<Outcome(Newest')>>
        /\ ~Delimiter(rpc, frames) /\ ~Delimiter(rpc', frames')
    BY <2>1, <2>2, <2>3, Seen, SeenAtTop
  <2>6. \A o : <<o>> = Append(<<>>, o)
    OBVIOUS
  <2>7. resultUnread' = Append(resultUnread, Outcome(Newest'))
    BY <2>5, <2>6
  <2> QED
    BY <2>1, <2>3, <2>4, <2>5, <2>7, Pushes DEF LoopStep
<1>2. CASE FinishedArrives
  <2>1. /\ rpc' = rpc /\ rpc # "over" /\ frames = <<>>
        /\ UNCHANGED <<counters, resultsReceived, results>>
    BY <1>2 DEF FinishedArrives
  <2>2. PICK s \in Statuses : frames' = FinishedMessage(s)
    BY <1>2 DEF FinishedArrives, Statuses
  <2>3. rpc = "status"
    BY <1>0, <2>1, Tuples DEF Framing
  <2>4. Still /\ SameCounts
    BY <2>1 DEF Still, SameCounts, Received, counters, results
  <2>5. /\ finishedUnread = <<>> /\ finishedUnread' = <<s>> /\ resultUnread = <<>>
        /\ resultUnread' = <<>>
        /\ ~Delimiter(rpc, frames) /\ ~Delimiter(rpc', frames')
    BY <2>1, <2>2, <2>3, Seen, SeenAtTop
  <2>6. \A o : <<o>> = Append(<<>>, o)
    OBVIOUS
  <2>7. finishedUnread' = Append(finishedUnread, s)
    BY <2>5, <2>6
  <2> QED
    BY <2>1, <2>3, <2>4, <2>5, <2>7, Pushes DEF LoopStep
<1>3. CASE RecvStatus
  <2>1. /\ rpc = "status" /\ frames # <<>> /\ frames' = Tail(frames)
        /\ clientsFinished + clientsDied < Expected
        /\ UNCHANGED <<counters, resultsReceived, results, sent>>
        /\ rpc' = CASE Head(frames).text = "Finished" -> "name"
                    [] Head(frames).text = "Result"   -> "stats"
                    [] OTHER                          -> "status"
    BY <1>3 DEF RecvStatus, s_recv, Collecting
  <2>2. Newest' = Newest /\ SameCounts /\ rpc' \in {"name", "stats", "status"}
    BY <2>1 DEF Newest, SameCounts, counters
  <2>3. Still
    BY <2>1, <2>2 DEF Still, Received, results
  <2>4. CASE frames = <<Text("")>>
    <3>1. Head(frames).text = "" /\ frames' = <<>>
      BY <2>1, <2>4, Tuples, Messaging
    <3>2. rpc' = "status"
      BY <2>1, <3>1
    <3>3. /\ finishedUnread' = finishedUnread /\ resultUnread' = resultUnread
          /\ Delimiter(rpc, frames) /\ ~Delimiter(rpc', frames')
      BY <2>1, <2>4, <3>1, <3>2, Seen, SeenAtTop
    <3> QED
      BY <2>1, <2>2, <2>3, <3>2, <3>3, TakesDelimiter DEF LoopStep
  <2>5. ASSUME NEW s, frames = FinishedMessage(s)
        PROVE  UNCHANGED <<Loop!controllerVars, Loop!netVars>>
    <3>1. Head(frames).text = "Finished" /\ frames' = <<Text(""), Text(s), Text("")>>
      BY <2>1, <2>5, Messaging
    <3>2. rpc' = "name"
      BY <2>1, <3>1
    <3>3. finishedUnread = <<s>> /\ resultUnread = <<>> /\ ~Delimiter(rpc, frames)
      BY <2>1, <2>5, Seen, SeenAtTop
    <3>4. finishedUnread' = <<s>> /\ resultUnread' = <<>> /\ ~Delimiter(rpc', frames')
      BY <3>1, <3>2, Seen, SeenWithin, Zenon
    <3> QED
      BY <2>1, <2>2, <2>3, <3>2, <3>3, <3>4, Invisible
  <2>6. ASSUME NEW c, frames = ResultMessage(c)
        PROVE  UNCHANGED <<Loop!controllerVars, Loop!netVars>>
    <3>1. Head(frames).text = "Result"
      BY <2>6, Messaging
    <3>2. rpc' = "stats"
      BY <2>1, <3>1
    <3>3. finishedUnread = <<>> /\ resultUnread = <<Outcome(Newest)>> /\ ~Delimiter(rpc, frames)
      BY <2>1, <2>6, Seen, SeenAtTop
    <3>4. /\ finishedUnread' = <<>> /\ resultUnread' = <<Outcome(Newest)>>
          /\ ~Delimiter(rpc', frames')
      BY <2>2, <3>2, Seen, SeenWithin
    <3> QED
      BY <2>1, <2>2, <2>3, <3>2, <3>3, <3>4, Invisible
  <2> QED
    BY <1>0, <2>1, <2>4, <2>5, <2>6 DEF Framing
<1>4. CASE RecvName
  <2>1. /\ rpc = "name" /\ rpc' = "exit_status" /\ s_recv("name")
        /\ UNCHANGED <<counters, resultsReceived, results, sent>>
    BY <1>4 DEF RecvName, s_recv
  <2>2. PICK s \in Statuses : frames = <<Text(""), Text(s), Text("")>>
    BY <1>0, <2>1 DEF Framing
  <2>3. frames' = <<Text(s), Text("")>>
    <3> DEFINE b == Text(s)
               z == Text("")
    <3>1. frames = <<z, b, z>> /\ frames' = Tail(frames)
      BY <2>1, <2>2 DEF s_recv
    <3> HIDE DEF b, z
    <3>2. frames' = <<b, z>>
      BY <3>1
    <3> QED
      BY <3>2 DEF b, z
  <2>4. /\ finishedUnread = <<s>> /\ finishedUnread' = <<s>>
        /\ resultUnread = <<>> /\ resultUnread' = <<>>
        /\ ~Delimiter(rpc, frames) /\ ~Delimiter(rpc', frames')
    BY <2>1, <2>2, <2>3, Seen, SeenWithin, Zenon
  <2>5. Still /\ SameCounts
    BY <2>1 DEF Still, SameCounts, Received, counters, results
  <2> QED
    BY <2>1, <2>4, <2>5, Invisible
<1>5. CASE RecvExitStatus
  <2>1. /\ rpc = "exit_status" /\ rpc' = "status" /\ s_recv("exit_status")
        /\ UNCHANGED <<resultsReceived, results, sent>>
        /\ IF Head(frames).text = "0"
           THEN clientsFinished' = clientsFinished + 1 /\ UNCHANGED clientsDied
           ELSE clientsDied' = clientsDied + 1 /\ UNCHANGED clientsFinished
    BY <1>5 DEF RecvExitStatus, s_recv
  <2>2. PICK s \in Statuses : frames = <<Text(s), Text("")>>
    BY <1>0, <2>1 DEF Framing
  <2>3. Head(frames).text = s /\ frames' = <<Text("")>>
    <3>1. frames' = <<Text("")>>
      BY <1>0, <2>1, ReadAtExitStatus
    <3>2. Head(frames) = Text(s) /\ Text(s).text = s
      BY <2>2, Tuples, Messaging
    <3> QED
      BY <3>1, <3>2
  <2>4. finishedUnread = <<s>> /\ resultUnread = <<>> /\ ~Delimiter(rpc, frames)
    BY <2>1, <2>2, Seen, SeenWithin, Zenon
  <2>5. finishedUnread' = <<>> /\ resultUnread' = <<>> /\ Delimiter(rpc', frames')
    BY <2>1, <2>3, Seen, SeenAtTop
  <2>6. Still
    BY <2>1 DEF Still, Received, results
  <2>7. clientsFinished + clientsDied < Expected
    BY <2>1 DEF Awaited
  <2> QED
    BY <2>1, <2>3, <2>4, <2>5, <2>6, <2>7, TakesFinished DEF LoopStep
<1>6. CASE RecvStats
  <2>1. /\ rpc = "stats" /\ rpc' = "last" /\ resultsReceived' = resultsReceived + 1
        /\ UNCHANGED <<counters, results, sent>>
    BY <1>6 DEF RecvStats, s_recv
  <2>2. /\ finishedUnread = <<>> /\ finishedUnread' = <<>> /\ resultUnread' = resultUnread
        /\ ~Delimiter(rpc, frames) /\ ~Delimiter(rpc', frames')
    <3>1. Newest' = Newest
      BY <2>1 DEF Newest
    <3> QED
      BY <2>1, <3>1, Seen, SeenWithin
  <2>3. Still
    <3>1. resultsReceived \in Nat
      BY <1>0 DEF Counters
    <3>2. Received(rpc, resultsReceived)' = Received(rpc, resultsReceived)
      BY <2>1, <3>1 DEF Received
    <3> QED
      BY <2>1, <3>2 DEF Still, results
  <2>4. SameCounts
    BY <2>1 DEF SameCounts, counters
  <2> QED
    BY <2>1, <2>2, <2>3, <2>4, Invisible
<1>7. CASE RecvLast
  <2>1. /\ rpc = "last" /\ rpc' = "status" /\ s_recv("last")
        /\ UNCHANGED <<counters, resultsReceived, sent>>
    BY <1>7 DEF RecvLast, s_recv
  <2>2. frames' = <<>>
    BY <1>0, <2>1, ReadAtLast
  <2>3. Newest \in Connections /\ stats = StatsFrame(Newest)
    <3>1. sent \in Seq(Connections) /\ Len(sent) \in Nat
      BY <1>0, LenProperties DEF Counters
    <3>2. Len(sent) > 0
      <4>1. One(ResultDue) = 0 /\ One(rpc = "last") = 1
        BY <2>1 DEF ResultDue, One
      <4>2. Handled \in Nat
        BY <1>0 DEF Handled, Counters
      <4> QED
        BY <1>0, <3>1, <4>1, <4>2 DEF Accounting, Counters
    <3>3. Len(sent) \in 1 .. Len(sent)
      BY <3>1, <3>2
    <3> QED
      BY <2>1, <3>1, <3>3, ElementOfSeq DEF Latest, Newest
  <2>4. stats.fields = get_stats(Newest).fields /\ stats.type = get_stats(Newest).type
    BY <2>3 DEF StatsFrame
  <2>5. PICK v \in Extract(get_stats(Newest).fields) : Judge(stats.type, v[1])
    BY <1>7, <2>4 DEF RecvLast
  <2>6. IF Outcome(Newest) = "complete"
        THEN connectionsSucceeded' = connectionsSucceeded + 1 /\ UNCHANGED connectionsDied
        ELSE connectionsDied' = connectionsDied + 1 /\ UNCHANGED connectionsSucceeded
    BY <2>3, <2>4, <2>5, Judged DEF Judge
  <2>7. finishedUnread = <<>> /\ resultUnread = <<Outcome(Newest)>> /\ ~Delimiter(rpc, frames)
    BY <2>1, Seen, SeenWithin
  <2>8. finishedUnread' = <<>> /\ resultUnread' = <<>> /\ ~Delimiter(rpc', frames')
    BY <2>1, <2>2, Seen, SeenAtTop
  <2>9. Received(rpc, resultsReceived)' = Received(rpc, resultsReceived) + 1
    <3>1. resultsReceived \in Nat
      BY <1>0 DEF Counters
    <3> QED
      BY <2>1, <3>1 DEF Received
  <2>10. SameCounts /\ clientsFinished + clientsDied < Expected
    BY <2>1 DEF SameCounts, counters, Awaited
  <2> QED
    BY <2>1, <2>6, <2>7, <2>8, <2>9, <2>10, TakesResult DEF LoopStep
<1>8. CASE Report
  <2>1. /\ rpc = "status" /\ rpc' = "over" /\ ~(clientsFinished + clientsDied < Expected)
        /\ UNCHANGED <<frames, counters, resultsReceived, results, sent>>
    BY <1>8 DEF Report, Collecting
  <2>2. /\ finishedUnread' = finishedUnread /\ resultUnread' = resultUnread
        /\ (Delimiter(rpc', frames') <=> Delimiter(rpc, frames))
    BY <2>1 DEF finishedUnread, resultUnread, Delimiter, AtTop
  <2>3. Still /\ SameCounts
    BY <2>1 DEF Still, SameCounts, Received, counters, results
  <2> QED
    BY <2>1, <2>2, <2>3, Ends DEF LoopStep
<1>9. CASE UNCHANGED vars
  <2>1. UNCHANGED <<rpc, frames, counters, resultsReceived, results, sent>>
    BY <1>9 DEF vars
  <2>2. /\ finishedUnread' = finishedUnread /\ resultUnread' = resultUnread
        /\ (Delimiter(rpc', frames') <=> Delimiter(rpc, frames))
    BY <2>1 DEF finishedUnread, resultUnread, Delimiter, AtTop
  <2>3. Still /\ SameCounts
    BY <2>1 DEF Still, SameCounts, Received, counters, results
  <2> QED
    BY <2>1, <2>2, <2>3, Invisible
<1> QED
  BY <1>1, <1>2, <1>3, <1>4, <1>5, <1>6, <1>7, <1>8, <1>9 DEF Next, Stop

(* The loop that reads frames is the loop of Controller that takes whole   *)
(* messages: what the coordination model shows of the counters holds for   *)
(* the frames, the leftover one and the numbers printed in them.           *)
THEOREM LoopRefinement == Spec => ImplementsController
<1>1. Init => Awaited
  BY DEF Init, Awaited
<1>2. Numbers /\ Awaited /\ [Next]_vars => Awaited'
  BY AwaitedStep
<1>3. Numbers /\ Awaited /\ [Next]_vars => [LoopStep]_<<Loop!controllerVars, Loop!netVars>>
  BY ControllerSteps DEF Numbers
<1> QED
  BY <1>1, <1>2, <1>3, NumbersAlways, PTL DEF Spec, ImplementsController, LoopStep
=============================================================================
