------------------------------ MODULE TestRun ------------------------------
(***************************************************************************)
(* What the coordination of a test promises, without sockets, HELLOs or    *)
(* counters: workers are launched, none of them runs its clients before    *)
(* the configured number has been launched, and the one report is printed  *)
(* after every worker is gone and tells how many completed and how many    *)
(* died.  Module PerfTest implements it.                                   *)
(***************************************************************************)
EXTENDS Naturals, FiniteSets

CONSTANTS
  Worker,      \* the workers that may be launched
  Wanted       \* how many of them make a test

VARIABLES
  phase,       \* "gather", "launch", "run", "reported"
  life,        \* life[w]: none, launched, running, completed, died
  waited,      \* the workers that their listeners have waited for
  report       \* what is printed: workers completed, workers died

Gone == {"completed", "died"}

Launched == {w \in Worker : life[w] # "none"}

With(state) == Cardinality({w \in Worker : life[w] = state})

NoReport == [completed |-> 0, died |-> 0]

Init ==
  /\ phase = "gather"
  /\ life = [w \in Worker |-> "none"]
  /\ waited = {}
  /\ report = NoReport

Gathered ==
  /\ phase = "gather" /\ phase' = "launch"
  /\ UNCHANGED <<life, waited, report>>

Launch(S) ==
  /\ phase = "launch" /\ S \cap Launched = {}
  /\ life' = [w \in Worker |-> IF w \in S THEN "launched" ELSE life[w]]
  /\ UNCHANGED <<phase, waited, report>>

(* The barrier.                                                            *)
Start ==
  /\ phase = "launch" /\ Cardinality(Launched) = Wanted
  /\ phase' = "run"
  /\ UNCHANGED <<life, waited, report>>

Begin(w) ==
  /\ phase = "run" /\ life[w] = "launched"
  /\ life' = [life EXCEPT ![w] = "running"]
  /\ UNCHANGED <<phase, waited, report>>

(* A worker may die at any time, and completes only what it has begun.     *)
Leave(w, how) ==
  /\ life[w] = "running" \/ (life[w] = "launched" /\ how = "died")
  /\ life' = [life EXCEPT ![w] = how]
  /\ UNCHANGED <<phase, waited, report>>

WaitFor(w) ==
  /\ life[w] \in Gone /\ w \notin waited
  /\ waited' = waited \cup {w}
  /\ UNCHANGED <<phase, life, report>>

Report ==
  /\ phase = "run" /\ waited = Launched
  /\ phase' = "reported"
  /\ report' = [completed |-> With("completed"), died |-> With("died")]
  /\ UNCHANGED <<life, waited>>

Next ==
  \/ Gathered \/ Start \/ Report
  \/ \E S \in SUBSET Worker : Launch(S)
  \/ \E w \in Worker : Begin(w) \/ WaitFor(w) \/ \E how \in Gone : Leave(w, how)

Spec == Init /\ [][Next]_<<phase, life, waited, report>>
=============================================================================
