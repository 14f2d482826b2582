---------------------------- MODULE ReportProof ----------------------------
(***************************************************************************)
(* Proofs about what the controller counts once the websockets run: exits  *)
(* of workers and results; and that PerfTest implements TestRun.           *)
(***************************************************************************)
EXTENDS BarrierProof

-----------------------------------------------------------------------------
(* How many messages of a family of queues are in the set V.               *)
Holding(q, V) == {e \in Entries(q) : q[e[1]][e[2]] \in V}

Pushed(p, q, d, x) == p = [q EXCEPT ![d] = Append(@, x)]

Pulled(p, q, d) == p = [q EXCEPT ![d] = Tail(@)]

LEMMA EntriesAre ==
  ASSUME NEW q, NEW e
  PROVE  e \in Entries(q) <=> \E s \in DOMAIN q : \E i \in 1 .. Len(q[s]) : e = <<s, i>>
BY DEF Entries

LEMMA HoldingAre ==
  ASSUME NEW q, NEW V, NEW e
  PROVE  e \in Holding(q, V) <=>
           \E s \in DOMAIN q : \E i \in 1 .. Len(q[s]) : e = <<s, i>> /\ q[s][i] \in V
BY EntriesAre DEF Holding

LEMMA HoldingIn ==
  ASSUME NEW q, NEW V, NEW s \in DOMAIN q, NEW i \in 1 .. Len(q[s]), q[s][i] \in V
  PROVE  <<s, i>> \in Holding(q, V)
BY HoldingAre

(* Pushing one message adds it, and only it.                               *)
LEMMA PushHolding ==
  ASSUME NEW D, NEW E, NEW q \in [D -> Seq(E)], NEW d \in D, NEW x \in E, NEW V,
         IsFiniteSet(Holding(q, V)), NEW p, Pushed(p, q, d, x)
  PROVE  /\ IsFiniteSet(Holding(p, V))
         /\ Cardinality(Holding(p, V)) = Cardinality(Holding(q, V)) + (IF x \in V THEN 1 ELSE 0)
<1> DEFINE n == Len(q[d])
           new == <<d, n + 1>>
<1>1. /\ n \in Nat /\ p \in [D -> Seq(E)] /\ p[d] = Append(q[d], x)
      /\ Len(p[d]) = n + 1 /\ p[d][n + 1] = x
      /\ \A i \in 1 .. n : p[d][i] = q[d][i]
      /\ \A s \in D : s # d => p[s] = q[s]
      /\ DOMAIN p = D /\ DOMAIN q = D
  BY AppendProperties DEF Pushed
<1>2. new \notin Holding(q, V)
  <2> SUFFICES ASSUME NEW s \in D, NEW i \in 1 .. Len(q[s]), new = <<s, i>>
               PROVE  FALSE
    BY HoldingAre
  <2>1. s = d /\ i = n + 1
    OBVIOUS
  <2> QED
    BY <1>1, <2>1
<1>3. ASSUME NEW e
      PROVE  e \in Holding(p, V) <=> e \in Holding(q, V) \/ (e = new /\ x \in V)
  <2>1. ASSUME NEW s \in D, NEW i \in 1 .. Len(p[s]), e = <<s, i>>, p[s][i] \in V
        PROVE  e \in Holding(q, V) \/ (e = new /\ x \in V)
    <3>1. CASE s = d /\ i = n + 1
      BY <1>1, <2>1, <3>1
    <3>2. CASE ~(s = d /\ i = n + 1)
      <4>1. i \in 1 .. Len(q[s]) /\ p[s][i] = q[s][i]
        BY <1>1, <3>2
      <4> QED
        BY <2>1, <4>1, HoldingAre
    <3> QED
      BY <3>1, <3>2
  <2>2. ASSUME NEW s \in D, NEW i \in 1 .. Len(q[s]), e = <<s, i>>, q[s][i] \in V
        PROVE  e \in Holding(p, V)
    <3>1. CASE s = d
      <4>1. i \in 1 .. n
        BY <3>1
      <4>2. i \in 1 .. Len(p[d]) /\ p[d][i] = q[d][i]
        BY <1>1, <4>1
      <4> QED
        BY <1>1, <2>2, <3>1, <4>2, HoldingIn
    <3>2. CASE s # d
      BY <1>1, <2>2, <3>2, HoldingIn
    <3> QED
      BY <3>1, <3>2
  <2>3. ASSUME e = new, x \in V
        PROVE  e \in Holding(p, V)
    <3>1. n + 1 \in 1 .. Len(p[d]) /\ p[d][n + 1] \in V /\ d \in DOMAIN p
      BY <1>1, <2>3
    <3> QED
      BY <2>3, <3>1, HoldingIn
  <2> QED
    BY <1>1, <2>1, <2>2, <2>3, HoldingAre
<1>4. CASE x \in V
  <2>1. Holding(p, V) = Holding(q, V) \cup {new}
    BY <1>3, <1>4
  <2> QED
    BY <1>2, <1>4, <2>1, FS_AddElement
<1>5. CASE x \notin V
  <2>1. Holding(p, V) = Holding(q, V)
    BY <1>3, <1>5
  <2>2. Cardinality(Holding(q, V)) \in Nat
    BY FS_CardinalityType
  <2> QED
    BY <1>5, <2>1, <2>2
<1> QED
  BY <1>4, <1>5

(* Pulling the first message takes it away: the others move up by one.     *)
LEMMA PullHolding ==
  ASSUME NEW D, NEW E, NEW q \in [D -> Seq(E)], NEW d \in D, q[d] # <<>>, NEW V,
         IsFiniteSet(Holding(q, V)), NEW p, Pulled(p, q, d)
  PROVE  /\ IsFiniteSet(Holding(p, V))
         /\ Cardinality(Holding(p, V))
              = Cardinality(Holding(q, V)) - (IF Head(q[d]) \in V THEN 1 ELSE 0)
<1> DEFINE n == Len(q[d])
           S == Holding(q, V) \ {<<d, 1>>}
           T == Holding(p, V)
           f == [e \in S |-> IF e[1] = d THEN <<d, e[2] - 1>> ELSE e]
<1>1. /\ n \in Nat \ {0} /\ p \in [D -> Seq(E)] /\ p[d] = Tail(q[d])
      /\ Len(p[d]) = n - 1 /\ Head(q[d]) = q[d][1]
      /\ \A i \in 1 .. n - 1 : p[d][i] = q[d][i + 1]
      /\ \A s \in D : s # d => p[s] = q[s]
      /\ DOMAIN p = D /\ DOMAIN q = D
  BY HeadTailProperties, EmptySeq DEF Pulled
<1>0. \A e \in S : f[e] = IF e[1] = d THEN <<d, e[2] - 1>> ELSE e
  OBVIOUS
<1>f. f \in [S -> {f[e] : e \in S}]
  OBVIOUS
<1> HIDE DEF f
<1>2. /\ IsFiniteSet(S)
      /\ Cardinality(S) = Cardinality(Holding(q, V)) - (IF Head(q[d]) \in V THEN 1 ELSE 0)
  <2>1. <<d, 1>> \in Holding(q, V) <=> Head(q[d]) \in V
    <3>1. 1 \in 1 .. n
      BY <1>1
    <3>2. ASSUME Head(q[d]) \in V PROVE <<d, 1>> \in Holding(q, V)
      BY <1>1, <3>1, <3>2, HoldingAre
    <3>3. ASSUME <<d, 1>> \in Holding(q, V) PROVE Head(q[d]) \in V
      BY <1>1, <3>3 DEF Holding
    <3> QED
      BY <3>2, <3>3
  <2>2. Cardinality(Holding(q, V)) \in Nat
    BY FS_CardinalityType
  <2> DEFINE H == Holding(q, V)
             x == <<d, 1>>
  <2>3. IsFiniteSet(H)
    OBVIOUS
  <2> HIDE DEF H, x, S
  <2>4. /\ IsFiniteSet(H \ {x})
        /\ Cardinality(H \ {x}) = IF x \in H THEN Cardinality(H) - 1 ELSE Cardinality(H)
    BY <2>3, FS_RemoveElement
  <2>5. S = H \ {x}
    BY DEF H, x, S
  <2>6. x \in H <=> Head(q[d]) \in V
    BY <2>1 DEF H, x
  <2>7. Cardinality(H) \in Nat
    BY <2>2 DEF H
  <2>8. IsFiniteSet(S) /\ Cardinality(S) = Cardinality(H) - (IF Head(q[d]) \in V THEN 1 ELSE 0)
    <3>1. CASE x \in H
      BY <2>4, <2>5, <2>6, <3>1
    <3>2. CASE x \notin H
      BY <2>4, <2>5, <2>6, <2>7, <3>2
    <3> QED
      BY <3>1, <3>2
  <2> QED
    BY <2>8 DEF H
<1>3. ASSUME NEW e \in S
      PROVE  \E s \in D : \E i \in 1 .. Len(q[s]) :
               e = <<s, i>> /\ q[s][i] \in V /\ e[1] = s /\ e[2] = i /\ (s = d => i # 1)
  BY HoldingAre
<1>4. ASSUME NEW e \in S PROVE f[e] \in T
  <2>0. PICK s \in D : \E i \in 1 .. Len(q[s]) :
          e = <<s, i>> /\ q[s][i] \in V /\ e[1] = s /\ e[2] = i /\ (s = d => i # 1)
    BY <1>3
  <2>1. PICK i \in 1 .. Len(q[s]) :
          e = <<s, i>> /\ q[s][i] \in V /\ e[1] = s /\ e[2] = i /\ (s = d => i # 1)
    BY <2>0
  <2>2. CASE s = d
    <3>1. f[e] = <<d, i - 1>>
      BY <1>0, <2>1, <2>2
    <3>2. i - 1 \in 1 .. n - 1 /\ (i - 1) + 1 = i
      BY <1>1, <2>1, <2>2
    <3>3. i - 1 \in 1 .. Len(p[d]) /\ p[d][i - 1] = q[d][i]
      BY <1>1, <3>2
    <3>4. p[d][i - 1] \in V /\ d \in DOMAIN p
      BY <1>1, <2>1, <2>2, <3>3
    <3>5. <<d, i - 1>> \in Holding(p, V)
      BY <3>3, <3>4, HoldingIn
    <3> QED
      BY <3>1, <3>5
  <2>3. CASE s # d
    <3>1. f[e] = <<s, i>> /\ p[s] = q[s]
      BY <1>0, <1>1, <2>1, <2>3
    <3> QED
      BY <1>1, <2>1, <3>1, HoldingIn
  <2> QED
    BY <2>2, <2>3
<1>5. ASSUME NEW a \in S, NEW b \in S, f[a] = f[b] PROVE a = b
  <2>a. PICK s \in D : \E i \in 1 .. Len(q[s]) : a = <<s, i>> /\ a[1] = s /\ a[2] = i
    BY <1>3
  <2>1. PICK i \in 1 .. Len(q[s]) : a = <<s, i>> /\ a[1] = s /\ a[2] = i
    BY <2>a
  <2>b. PICK t \in D : \E j \in 1 .. Len(q[t]) : b = <<t, j>> /\ b[1] = t /\ b[2] = j
    BY <1>3
  <2>2. PICK j \in 1 .. Len(q[t]) : b = <<t, j>> /\ b[1] = t /\ b[2] = j
    BY <2>b
  <2>3. f[a][1] = s /\ f[a][2] = IF s = d THEN i - 1 ELSE i
    <3>1. f[a] = IF a[1] = d THEN <<d, a[2] - 1>> ELSE a
      BY <1>0
    <3>2. CASE s = d
      BY <2>1, <3>1, <3>2
    <3>3. CASE s # d
      BY <2>1, <3>1, <3>3
    <3> QED
      BY <3>2, <3>3
  <2>4. f[b][1] = t /\ f[b][2] = IF t = d THEN j - 1 ELSE j
    <3>1. f[b] = IF b[1] = d THEN <<d, b[2] - 1>> ELSE b
      BY <1>0
    <3>2. CASE t = d
      BY <2>2, <3>1, <3>2
    <3>3. CASE t # d
      BY <2>2, <3>1, <3>3
    <3> QED
      BY <3>2, <3>3
  <2>5. s = t /\ f[a][2] = f[b][2]
    BY <1>5, <2>3, <2>4
  <2>6. i = j
    BY <2>3, <2>4, <2>5
  <2> QED
    BY <2>1, <2>2, <2>5, <2>6
<1>6. ASSUME NEW y \in T PROVE \E e \in S : f[e] = y
  <2>0. PICK s \in D : \E i \in 1 .. Len(p[s]) : y = <<s, i>> /\ p[s][i] \in V
    BY <1>1, HoldingAre
  <2>1. PICK i \in 1 .. Len(p[s]) : y = <<s, i>> /\ p[s][i] \in V
    BY <2>0
  <2>2. CASE s = d
    <3>1. i + 1 \in 1 .. Len(q[d]) /\ q[d][i + 1] = p[d][i] /\ i + 1 # 1 /\ (i + 1) - 1 = i
      BY <1>1, <2>2
    <3>2. <<d, i + 1>> \in S
      BY <2>1, <2>2, <3>1, HoldingAre
    <3>3. f[<<d, i + 1>>] = <<d, i>>
      BY <1>0, <3>1, <3>2
    <3> QED
      BY <2>1, <2>2, <3>2, <3>3
  <2>3. CASE s # d
    <3>1. <<s, i>> \in S
      BY <1>1, <2>1, <2>3, HoldingAre
    <3>2. f[<<s, i>>] = <<s, i>>
      BY <1>0, <2>3, <3>1
    <3> QED
      BY <2>1, <3>1, <3>2
  <2> QED
    BY <2>2, <2>3
<1>7. f \in Bijection(S, T)
  <2>1. f \in [S -> T]
    BY <1>4, <1>f
  <2> HIDE DEF S, T
  <2> QED
    BY <1>5, <1>6, <2>1 DEF Bijection, Injection, Surjection, IsInjective
<1>8. IsFiniteSet(T) /\ Cardinality(T) = Cardinality(S)
  BY <1>2, <1>7, FS_Bijection DEF ExistsBijection
<1> QED
  BY <1>2, <1>8

-----------------------------------------------------------------------------
(* Each exit is reported once: the balance of one wait status.             *)
Reported(status) == IF status = "0" THEN clientsFinished ELSE clientsDied

Balanced(status) ==
  /\ IsFiniteSet(FinishedWaiting(status))
  /\ Reported(status) + Cardinality(FinishedWaiting(status)) = Cardinality(ReapedWith(status))

LEMMA WaitingIsHolding ==
  ASSUME NEW status
  PROVE  /\ FinishedWaiting(status) = Holding(finishedQ, {status})
         /\ FinishedWaiting(status)' = Holding(finishedQ', {status})
BY DEF FinishedWaiting, Holding, Entries

LEMMA BalancedStep ==
  ASSUME TypeOK, LaunchedOnce, ChildToReap, NEW status \in Statuses, Balanced(status), [Next]_vars
  PROVE  Balanced(status)'
<1> DEFINE W == FinishedWaiting(status)
           R == ReapedWith(status)
<1>a. /\ wpc \in [Workers -> WorkerStates] /\ wstatus \in [Workers -> Statuses]
      /\ finishedQ \in [Listeners -> Seq(Statuses)]
      /\ clientsFinished \in Nat /\ clientsDied \in Nat
  BY DEF TypeOK, NetTypeOK, WorkerTypeOK, ControllerTypeOK
<1>b. R \in SUBSET Workers /\ IsFiniteSet(R) /\ Cardinality(R) \in Nat
  BY FiniteWorkers DEF ReapedWith
<1>c. IsFiniteSet(W) /\ Cardinality(W) \in Nat /\ Reported(status) + Cardinality(W) = Cardinality(R)
  BY FS_CardinalityType DEF Balanced
<1>d. ASSUME UNCHANGED <<finishedQ, clientsFinished, clientsDied>>,
             \A w \in Workers : w \in R' <=> w \in R
      PROVE  Balanced(status)'
  <2>1. R' = R
    BY <1>d DEF ReapedWith
  <2>2. W' = W /\ Reported(status)' = Reported(status)
    BY <1>d DEF FinishedWaiting, Entries, Reported
  <2> QED
    BY <1>c, <2>1, <2>2 DEF Balanced
<1>1. ASSUME NEW l \in Listeners, CollectFinished(l), ControllerActs \/ ControllerTimesOut
      PROVE  Balanced(status)'
  <2>1. /\ finishedQ[l] # <<>> /\ Pulled(finishedQ', finishedQ, l)
        /\ finishedQ[l] \in Seq(Statuses)
    BY <1>1, <1>a DEF CollectFinished, Pulled
  <2>2. IsFiniteSet(Holding(finishedQ, {status}))
    BY <1>c, WaitingIsHolding
  <2>3. /\ IsFiniteSet(Holding(finishedQ', {status}))
        /\ Cardinality(Holding(finishedQ', {status}))
             = Cardinality(Holding(finishedQ, {status})) - (IF Head(finishedQ[l]) \in {status} THEN 1 ELSE 0)
    BY <1>a, <2>1, <2>2, PullHolding
  <2>4. Head(finishedQ[l]) \in Statuses
    BY <2>1, HeadTailProperties
  <2>5. Reported(status)' = Reported(status) + (IF Head(finishedQ[l]) = status THEN 1 ELSE 0)
    BY <1>1, <1>a, <2>4 DEF CollectFinished, Reported, Statuses
  <2>6. R' = R
    BY <1>1, ControllerFrame DEF ReapedWith
  <2>7. Reported(status) \in Nat
    BY <1>a DEF Reported
  <2> QED
    BY <1>c, <2>3, <2>5, <2>6, <2>7, WaitingIsHolding DEF Balanced
<1>2. CASE /\ ControllerActs \/ ControllerTimesOut
           /\ \A l \in Listeners : ~CollectFinished(l)
  <2>1. UNCHANGED <<finishedQ, clientsFinished, clientsDied>>
    BY <1>2 DEF ControllerActs, ControllerTimesOut, ControllerTimeout, ControllerStep,
                HelloListeners, HelloSockets, SyncListener, SyncProcess, CollectResult,
                StartProcesses, StartWebsockets, CollectDelimiter, End, netVars, sinkVars,
                controllerVars
  <2>2. UNCHANGED <<wpc, wstatus>>
    BY <1>2, ControllerFrame
  <2> QED
    BY <1>d, <2>1, <2>2 DEF ReapedWith
<1>3. ASSUME NEW l \in Listeners, ListenerActs(l), ~Reap(l)
      PROVE  Balanced(status)'
  <2>1. UNCHANGED <<finishedQ, clientsFinished, clientsDied, wstatus>>
    BY <1>3, ListenerFrame
       DEF ListenerActs, ListenerStep, ListenerHello, ListenerSynced, ListenerRequest
  <2>2. \A w \in Workers : wpc'[w] = "reaped" <=> wpc[w] = "reaped"
    <3>1. \A w \in Workers : wpc[w] = "reaped" => wpc'[w] = "reaped"
      BY <1>3, ListenerMoves
    <3>2. UNCHANGED wpc \/ Launch(l) \/ LaunchFails(l)
      BY <1>3 DEF ListenerActs, ListenerStep, ListenerHello, ListenerSynced, ListenerRequest, workerVars
    <3>3. \A w \in Workers : wpc'[w] = "reaped" => wpc[w] = "reaped"
      BY <3>2 DEF Launch, LaunchFails
    <3> QED
      BY <3>1, <3>3
  <2> QED
    BY <1>d, <2>1, <2>2 DEF ReapedWith
<1>4. ASSUME NEW l \in Listeners, ListenerActs(l), Reap(l)
      PROVE  Balanced(status)'
  <2>1. PICK z \in ChildrenOf(l) : /\ wpc[z] = "exited" /\ wpc' = [wpc EXCEPT ![z] = "reaped"]
                                   /\ PushFinished(l, wstatus[z])
    BY <1>4, ReapsOne
  <2>2. z \in Workers /\ wstatus[z] \in Statuses /\ Pushed(finishedQ', finishedQ, l, wstatus[z])
    BY <1>a, <2>1 DEF ChildrenOf, PushFinished, Pushed
  <2>3. IsFiniteSet(Holding(finishedQ, {status}))
    BY <1>c, WaitingIsHolding
  <2>4. /\ IsFiniteSet(Holding(finishedQ', {status}))
        /\ Cardinality(Holding(finishedQ', {status}))
             = Cardinality(Holding(finishedQ, {status})) + (IF wstatus[z] \in {status} THEN 1 ELSE 0)
    BY <1>a, <2>2, <2>3, PushHolding
  <2>5. UNCHANGED <<clientsFinished, clientsDied, wstatus>>
    BY <1>4, ListenerFrame
  <2>6. Cardinality(R') = Cardinality(R) + (IF wstatus[z] = status THEN 1 ELSE 0)
    <3>1. z \notin R
      BY <2>1 DEF ReapedWith
    <3>2. CASE wstatus[z] = status
      <4>1. R' = R \cup {z}
        BY <1>a, <2>1, <2>2, <2>5, <3>2 DEF ReapedWith
      <4> QED
        BY <1>b, <3>1, <3>2, <4>1, FS_AddElement
    <3>3. CASE wstatus[z] # status
      <4>1. R' = R
        BY <1>a, <2>1, <2>2, <2>5, <3>3 DEF ReapedWith
      <4> QED
        BY <1>b, <3>3, <4>1
    <3> QED
      BY <3>2, <3>3
  <2>7. Reported(status) \in Nat /\ Reported(status)' = Reported(status)
    BY <1>a, <2>5 DEF Reported
  <2> QED
    BY <1>b, <1>c, <2>4, <2>6, <2>7, WaitingIsHolding DEF Balanced
<1>5. ASSUME NEW w \in Workers, WorkerActs(w) \/ WorkerDies(w)
      PROVE  Balanced(status)'
  <2>1. \A v \in Workers : v \in R' <=> v \in R
    BY <1>5, WorkerFrame DEF ReapedWith, Running
  <2> QED
    BY <1>5, <1>d, <2>1, WorkerFrame
<1>6. CASE \/ \E k \in Listeners : ListenerSubscribes(k)
           \/ \E v \in Workers : WorkerSubscribes(v)
  BY <1>6, <1>d, SubscribeFrame DEF ReapedWith
<1>7. CASE UNCHANGED vars
  BY <1>7, <1>d DEF vars, netVars, workerVars, controllerVars, ReapedWith
<1> QED
  BY <1>1, <1>2, <1>3, <1>4, <1>5, <1>6, <1>7 DEF Next, Stop

ReportInv ==
  /\ \A status \in Statuses : Balanced(status)
  /\ cpc = "ended" => clientsFinished + clientsDied = Clients

LEMMA ReportInvStep ==
  ASSUME TypeOK, LaunchedOnce, ChildToReap, ReportInv, [Next]_vars
  PROVE  ReportInv'
<1>1. ASSUME NEW status \in Statuses
      PROVE  Balanced(status)'
  <2>1. Balanced(status)
    BY DEF ReportInv
  <2> QED
    BY <2>1, BalancedStep
<1>2. cpc' = "ended" => clientsFinished' + clientsDied' = Clients
  <2>1. CASE ControllerActs \/ ControllerTimesOut
    <3>1. CASE End
      <4>1. UNCHANGED <<clientsFinished, clientsDied>> /\ ~(clientsFinished + clientsDied < Clients)
        BY <3>1 DEF End, sinkVars, Collecting
      <4>2. Clients \in Nat
        BY NetworkAssumption DEF Clients
      <4> QED
        BY <4>1, <4>2 DEF TypeOK, ControllerTypeOK
    <3>2. CASE ~End
      <4>1. cpc' = "ended" => cpc = "ended" /\ UNCHANGED <<clientsFinished, clientsDied>>
        BY <2>1, <3>2
           DEF ControllerActs, ControllerTimesOut, ControllerTimeout, ControllerStep,
               HelloListeners, HelloSockets, SyncListener, SyncProcess, CollectResult, CollectFinished,
               StartProcesses, StartWebsockets, CollectDelimiter, Collecting, controllerVars
      <4> QED
        BY <4>1 DEF ReportInv
    <3> QED
      BY <3>1, <3>2
  <2>2. CASE UNCHANGED <<cpc, clientsFinished, clientsDied>>
    BY <2>2 DEF ReportInv
  <2> QED
    BY <2>1, <2>2, ListenerFrame, WorkerFrame, SubscribeFrame DEF Next, Stop, vars, controllerVars
<1> QED
  BY <1>1, <1>2 DEF ReportInv, Statuses

(* Whatever the interleaving of exits, reaping and collecting, every       *)
(* reachable state balances.                                               *)
THEOREM ReportCorrect ==
  Spec => [](TypeOK /\ BarrierInv /\ Assembled /\ ChildToReap /\ ReportInv)
<1>1. Init => ReportInv
  <2> SUFFICES ASSUME Init PROVE ReportInv
    OBVIOUS
  <2>1. Entries(finishedQ) = {}
    BY EmptySeq DEF Init, NetInit, Entries
  <2>2. ASSUME NEW status \in Statuses
        PROVE  FinishedWaiting(status) = {} /\ ReapedWith(status) = {} /\ Reported(status) = 0
    BY <2>1 DEF Init, WorkerInit, ControllerInit, CountersInit, FinishedWaiting, ReapedWith, Reported
  <2> QED
    BY <2>2, FS_EmptySet DEF Init, ControllerInit, CountersInit, ReportInv, Balanced
<1>2. TypeOK /\ BarrierInv /\ ChildToReap /\ ReportInv /\ [Next]_vars => ReportInv'
  BY ReportInvStep DEF BarrierInv
<1> QED
  BY <1>1, <1>2, BarrierCorrect, ReapsChildren, PTL DEF Spec

(* What the controller has counted and what waits at its PULL socket are   *)
(* the workers that were waited for, by status, in every reachable state.  *)
THEOREM ExitsReportedOnce == Spec => []ReportedOnce
<1>1. ReportInv => ReportedOnce
  BY DEF ReportInv, Balanced, Reported, ReportedOnce, Statuses
<1> QED
  BY <1>1, ReportCorrect, PTL

(* When the count of exits is complete, it is the count of everybody.      *)
LEMMA AllAccountedFor ==
  ASSUME TypeOK, Assembled, ReportInv, cpc \in {"collect", "ended"},
         clientsFinished + clientsDied = Clients
  PROVE  /\ \A w \in Workers : wpc[w] \in {"none", "reaped"}
         /\ clientsFinished = Cardinality(ReapedWith("0"))
         /\ clientsDied = Cardinality(ReapedWith("nonzero"))
<1> DEFINE A == ReapedWith("0")
           B == ReapedWith("nonzero")
<1>1. A \in SUBSET Workers /\ B \in SUBSET Workers /\ A \cap B = {}
  BY DEF ReapedWith
<1>2. /\ IsFiniteSet(A) /\ IsFiniteSet(B) /\ Cardinality(A) \in Nat /\ Cardinality(B) \in Nat
      /\ Cardinality(A \cup B) = Cardinality(A) + Cardinality(B)
  <2>1. IsFiniteSet(A) /\ IsFiniteSet(B) /\ Cardinality(A) \in Nat /\ Cardinality(B) \in Nat
    BY <1>1, FiniteWorkers
  <2>2. Cardinality(A \cup B) = Cardinality(A) + Cardinality(B) - Cardinality(A \cap B)
    BY <2>1, FS_Union
  <2> QED
    BY <1>1, <2>1, <2>2, FS_EmptySet
<1>3. ASSUME NEW s \in Statuses
      PROVE  Reported(s) + Cardinality(FinishedWaiting(s)) = Cardinality(ReapedWith(s))
             /\ Cardinality(FinishedWaiting(s)) \in Nat
  BY FS_CardinalityType DEF ReportInv, Balanced
<1>4. Cardinality(A) >= clientsFinished /\ Cardinality(B) >= clientsDied
  BY <1>2, <1>3 DEF Statuses, Reported, TypeOK, ControllerTypeOK
<1>5. A \cup B \in SUBSET counted /\ IsFiniteSet(counted) /\ Cardinality(counted) = Clients
  <2>1. A \cup B \in SUBSET counted
    BY DEF Assembled, ReapedWith
  <2>2. counted \in SUBSET Workers
    BY DEF TypeOK, ControllerTypeOK
  <2> QED
    BY <2>1, <2>2, FiniteWorkers DEF Assembled
<1>6. Cardinality(A \cup B) <= Clients
  BY <1>5, FS_Subset
<1>7. /\ Cardinality(A) = clientsFinished /\ Cardinality(B) = clientsDied
      /\ Cardinality(A \cup B) = Clients
  BY <1>2, <1>4, <1>6 DEF TypeOK, ControllerTypeOK
<1>8. A \cup B = counted
  BY <1>5, <1>7, FS_Subset
<1>9. \A w \in Workers : wpc[w] # "none" => w \in A \cup B
  BY <1>8 DEF Assembled
<1> QED
  BY <1>7, <1>9 DEF ReapedWith

(* END is published, and the report printed, when nobody is left: a count  *)
(* that reaches Machines * Processes has counted every launched worker.    *)
THEOREM EndsWithoutOrphans == Spec => []NoOrphans
<1>1. TypeOK /\ Assembled /\ ReportInv => NoOrphans
  BY AllAccountedFor DEF NoOrphans, ReportInv
<1> QED
  BY <1>1, ReportCorrect, PTL

-----------------------------------------------------------------------------
(* The results.  A family of counters is a family of numbered pairs, as    *)
(* the queues are.                                                         *)
Column(d, m, n) == {d} \X ((m + 1) .. n)

LEMMA ColumnSize ==
  ASSUME NEW d, NEW n \in Nat, NEW m \in 0 .. n
  PROVE  IsFiniteSet(Column(d, m, n)) /\ Cardinality(Column(d, m, n)) = n - m
<1>1. IsFiniteSet((m + 1) .. n) /\ Cardinality((m + 1) .. n) = n - m
  <2>1. m + 1 \in Int /\ n \in Int /\ m \in Int /\ m <= n
    OBVIOUS
  <2>2. /\ IsFiniteSet((m + 1) .. n)
        /\ Cardinality((m + 1) .. n) = IF m + 1 > n THEN 0 ELSE n - (m + 1) + 1
    BY <2>1, FS_Interval
  <2> QED
    BY <2>1, <2>2
<1>2. IsFiniteSet({d}) /\ Cardinality({d}) = 1
  BY FS_Singleton
<1>3. /\ IsFiniteSet({d} \X ((m + 1) .. n))
      /\ Cardinality({d} \X ((m + 1) .. n)) = 1 * (n - m)
  <2> DEFINE S == {d}
             T == (m + 1) .. n
  <2>1. IsFiniteSet(S) /\ IsFiniteSet(T) /\ Cardinality(S) = 1 /\ Cardinality(T) = n - m
    BY <1>1, <1>2
  <2> HIDE DEF S, T
  <2>2. IsFiniteSet(S \X T) /\ Cardinality(S \X T) = Cardinality(S) * Cardinality(T)
    BY <2>1, FS_Product
  <2>3. IsFiniteSet(S \X T) /\ Cardinality(S \X T) = 1 * (n - m)
    BY <2>1, <2>2
  <2> QED
    BY <2>3 DEF S, T
<1> QED
  BY <1>3 DEF Column

Truncated(p, q, d, n) == p = [q EXCEPT ![d] = SubSeq(@, 1, n)]

(* Losing the tail of one queue loses as many messages as it was long.     *)
LEMMA TruncateEntries ==
  ASSUME NEW D, NEW E, NEW q \in [D -> Seq(E)], NEW d \in D, NEW n \in 0 .. Len(q[d]),
         IsFiniteSet(Entries(q)), NEW p, Truncated(p, q, d, n)
  PROVE  /\ IsFiniteSet(Entries(p))
         /\ Cardinality(Entries(p)) = Cardinality(Entries(q)) - (Len(q[d]) - n)
         /\ Len(p[d]) = n
<1> DEFINE L == Len(q[d])
           C == Column(d, n, L)
<1>1. /\ L \in Nat /\ DOMAIN p = D /\ DOMAIN q = D /\ Len(p[d]) = n
      /\ \A s \in D : s # d => p[s] = q[s]
  <2>1. q[d] \in Seq(E) /\ L \in Nat /\ n \in Nat
    OBVIOUS
  <2>2. Len(SubSeq(q[d], 1, n)) = n
    BY <2>1, SubSeqProperties
  <2> QED
    BY <2>1, <2>2 DEF Truncated
<1>2. ASSUME NEW e
      PROVE  e \in Entries(p) <=> e \in Entries(q) /\ e \notin C
  <2>1. ASSUME NEW s \in D, NEW i \in 1 .. Len(p[s]), e = <<s, i>>
        PROVE  e \in Entries(q) /\ e \notin C
    <3>1. CASE s = d
      <4>1. i \in 1 .. L /\ i \notin (n + 1) .. L
        BY <1>1, <3>1
      <4> QED
        BY <1>1, <2>1, <3>1, <4>1, EntriesAre DEF Column
    <3>2. CASE s # d
      BY <1>1, <2>1, <3>2, EntriesAre DEF Column
    <3> QED
      BY <3>1, <3>2
  <2>2. ASSUME NEW s \in D, NEW i \in 1 .. Len(q[s]), e = <<s, i>>, e \notin C
        PROVE  e \in Entries(p)
    <3>1. CASE s = d
      <4>1. i \in 1 .. n
        BY <1>1, <2>2, <3>1 DEF Column
      <4> QED
        BY <1>1, <2>2, <3>1, <4>1, EntriesAre
    <3>2. CASE s # d
      BY <1>1, <2>2, <3>2, EntriesAre
    <3> QED
      BY <3>1, <3>2
  <2> QED
    BY <1>1, <2>1, <2>2, EntriesAre
<1>3. Entries(p) = Entries(q) \ C
  BY <1>2
<1>4. Entries(q) \cap C = C
  <2> SUFFICES ASSUME NEW i \in (n + 1) .. L
               PROVE  <<d, i>> \in Entries(q)
    BY DEF Column
  <2>1. i \in 1 .. L
    BY <1>1
  <2> QED
    BY <1>1, <2>1, EntriesAre
<1>5. IsFiniteSet(C) /\ Cardinality(C) = L - n
  BY <1>1, ColumnSize
<1>6. /\ IsFiniteSet(Entries(q) \ C)
      /\ Cardinality(Entries(q) \ C) = Cardinality(Entries(q)) - Cardinality(Entries(q) \cap C)
  BY FS_Difference
<1> HIDE DEF C
<1> QED
  BY <1>1, <1>3, <1>4, <1>5, <1>6

Pairs(S, c) == UNION {{s} \X (1 .. c[s]) : s \in S}

LEMMA PairsAre ==
  ASSUME NEW S, NEW c, NEW e
  PROVE  e \in Pairs(S, c) <=> \E s \in S : \E i \in 1 .. c[s] : e = <<s, i>>
BY DEF Pairs

Increased(b, c, d) == b = [c EXCEPT ![d] = @ + 1]

LEMMA PairsMore ==
  ASSUME NEW c, NEW S \in SUBSET DOMAIN c, NEW d \in S, c[d] \in Nat, IsFiniteSet(Pairs(S, c)),
         NEW b, Increased(b, c, d)
  PROVE  Cardinality(Pairs(S, b)) = Cardinality(Pairs(S, c)) + 1
<1> DEFINE new == <<d, c[d] + 1>>
<1>0. \A s \in S : b[s] = IF s = d THEN c[d] + 1 ELSE c[s]
  BY DEF Increased
<1>1. new \notin Pairs(S, c)
  <2> SUFFICES ASSUME NEW s \in S, NEW i \in 1 .. c[s], new = <<s, i>>
               PROVE  FALSE
    BY PairsAre
  <2>1. s = d /\ i = c[d] + 1
    OBVIOUS
  <2> QED
    BY <2>1
<1>2. ASSUME NEW s \in S, NEW i \in 1 .. b[s]
      PROVE  <<s, i>> \in Pairs(S, c) \cup {new}
  <2>1. CASE i \in 1 .. c[s]
    BY <2>1, PairsAre
  <2>2. CASE i \notin 1 .. c[s]
    <3>1. s = d
      BY <1>0, <2>2
    <3>2. i = c[d] + 1
      BY <1>0, <2>2, <3>1
    <3> QED
      BY <3>1, <3>2
  <2> QED
    BY <2>1, <2>2
<1>3. ASSUME NEW s \in S, NEW i \in 1 .. c[s]
      PROVE  <<s, i>> \in Pairs(S, b)
  <2>1. i \in 1 .. b[s]
    <3>1. CASE s = d
      <4>1. i \in 1 .. c[d] + 1
        BY <3>1
      <4> QED
        BY <1>0, <3>1, <4>1
    <3>2. CASE s # d
      BY <1>0, <3>2
    <3> QED
      BY <3>1, <3>2
  <2> QED
    BY <2>1, PairsAre
<1>4. new \in Pairs(S, b)
  <2>1. c[d] + 1 \in 1 .. b[d]
    BY <1>0
  <2> QED
    BY <2>1, PairsAre
<1>5. Pairs(S, b) = Pairs(S, c) \cup {new}
  <2>1. ASSUME NEW e \in Pairs(S, b) PROVE e \in Pairs(S, c) \cup {new}
    BY <1>2, <2>1, PairsAre
  <2>2. ASSUME NEW e \in Pairs(S, c) PROVE e \in Pairs(S, b)
    BY <1>3, <2>2, PairsAre
  <2> QED
    BY <1>4, <2>1, <2>2
<1> HIDE DEF new
<1> QED
  BY <1>1, <1>5, FS_AddElement

LEMMA PairsWithout ==
  ASSUME NEW S, NEW c, NEW d \in S, c[d] \in Nat, IsFiniteSet(Pairs(S, c))
  PROVE  Cardinality(Pairs(S \ {d}, c)) = Cardinality(Pairs(S, c)) - c[d]
<1> DEFINE C == Column(d, 0, c[d])
<1>0. \A e : e \in C <=> \E i \in 1 .. c[d] : e = <<d, i>>
  BY DEF Column
<1>1. IsFiniteSet(C) /\ Cardinality(C) = c[d]
  <2>1. 0 \in 0 .. c[d] /\ c[d] - 0 = c[d]
    OBVIOUS
  <2>2. IsFiniteSet(C) /\ Cardinality(C) = c[d] - 0
    BY <2>1, ColumnSize
  <2> QED
    BY <2>1, <2>2
<1> HIDE DEF C
<1>2. Pairs(S, c) \cap C = C
  BY <1>0, PairsAre
<1>3. Pairs(S \ {d}, c) = Pairs(S, c) \ C
  <2>1. ASSUME NEW e \in Pairs(S \ {d}, c) PROVE e \in Pairs(S, c) \ C
    BY <1>0, <2>1, PairsAre
  <2>2. ASSUME NEW e \in Pairs(S, c) \ C PROVE e \in Pairs(S \ {d}, c)
    BY <1>0, <2>2, PairsAre
  <2> QED
    BY <2>1, <2>2
<1>4. Cardinality(Pairs(S, c) \ C) = Cardinality(Pairs(S, c)) - Cardinality(Pairs(S, c) \cap C)
  BY FS_Difference
<1> QED
  BY <1>1, <1>2, <1>3, <1>4

LEMMA SentAre ==
  ASSUME TypeOK, NEW S \in SUBSET Workers
  PROVE  /\ SentBy(S) = {e \in Workers \X (1 .. Instances) : e[1] \in S /\ e[2] <= sent[e[1]]}
         /\ IsFiniteSet(SentBy(S)) /\ Cardinality(SentBy(S)) \in Nat
<1>1. sent \in [Workers -> 0 .. Instances]
  BY DEF TypeOK, WorkerTypeOK
<1>2. SentBy(S) = {e \in Workers \X (1 .. Instances) : e[1] \in S /\ e[2] <= sent[e[1]]}
  <2>1. ASSUME NEW w \in S, NEW i \in 1 .. sent[w]
        PROVE  <<w, i>> \in Workers \X (1 .. Instances) /\ i <= sent[w]
    BY <1>1, NetworkAssumption
  <2>2. ASSUME NEW w \in Workers, NEW i \in 1 .. Instances, w \in S, i <= sent[w]
        PROVE  i \in 1 .. sent[w]
    BY <1>1, <2>2, NetworkAssumption
  <2>3. \A e : e \in SentBy(S) <=> \E w \in S : \E i \in 1 .. sent[w] : e = <<w, i>>
    BY DEF SentBy
  <2> QED
    BY <2>1, <2>2, <2>3
<1>3. IsFiniteSet(1 .. Instances)
  BY FS_Interval, NetworkAssumption
<1>4. IsFiniteSet(Workers \X (1 .. Instances))
  BY <1>3, FS_Product, FiniteWorkers
<1>5. SentBy(S) \in SUBSET (Workers \X (1 .. Instances))
  BY <1>2
<1>6. IsFiniteSet(SentBy(S))
  BY <1>4, <1>5, FS_Subset
<1> QED
  BY <1>2, <1>6, FS_CardinalityType

LEMMA AllHeld ==
  ASSUME NEW D, NEW E, NEW q \in [D -> Seq(E)]
  PROVE  Holding(q, E) = Entries(q)
<1>1. ASSUME NEW e \in Entries(q)
      PROVE  q[e[1]][e[2]] \in E
  <2>1. PICK s \in D : \E i \in 1 .. Len(q[s]) : e = <<s, i>>
    BY <1>1, EntriesAre
  <2>2. PICK i \in 1 .. Len(q[s]) : e = <<s, i>>
    BY <2>1
  <2>3. q[s][i] \in E
    BY ElementOfSeq
  <2> QED
    BY <2>2, <2>3
<1> QED
  BY <1>1 DEF Holding

(* The workers that have not failed: those that run have status 0.         *)
Unfailed == {w \in Workers : wstatus[w] = "0"}

Alive == Running \cup {"none"}

ResultInv ==
  /\ IsFiniteSet(Entries(resultQ))
  /\ \A w \in Workers : Len(resultQ[w]) <= sent[w] /\ (wpc[w] \in Alive => wstatus[w] = "0")
  /\ ResultsConserved

LEMMA ResultInvStep ==
  ASSUME TypeOK, TypeOK', LaunchedOnce, ResultInv, [Next]_vars
  PROVE  ResultInv'
<1> DEFINE Q == Entries(resultQ)
           A == SentBy(Workers)
           U == SentBy(Unfailed)
<1>a. /\ wpc \in [Workers -> WorkerStates] /\ wstatus \in [Workers -> Statuses]
      /\ resultQ \in [Workers -> Seq(Outcomes)] /\ sent \in [Workers -> 0 .. Instances]
      /\ resultsReceived \in Nat /\ connectionsSucceeded \in Nat /\ connectionsDied \in Nat
  BY DEF TypeOK, NetTypeOK, WorkerTypeOK, ControllerTypeOK
<1>r. resultQ \in [Workers -> Seq(Outcomes)] /\ DOMAIN sent = Workers
  BY <1>a
<1>p. resultQ' \in [Workers -> Seq(Outcomes)] /\ Q' = Entries(resultQ')
  BY DEF TypeOK, NetTypeOK, Entries
<1>b. /\ IsFiniteSet(Q) /\ Cardinality(Q) \in Nat
      /\ IsFiniteSet(A) /\ Cardinality(A) \in Nat
      /\ IsFiniteSet(U) /\ Cardinality(U) \in Nat
      /\ \A w \in Workers : Len(resultQ[w]) <= sent[w] /\ (wpc[w] \in Alive => wstatus[w] = "0")
      /\ resultsReceived + Cardinality(Q) <= Cardinality(A)
      /\ resultsReceived + Cardinality(Q) >= Cardinality(U)
      /\ connectionsSucceeded + connectionsDied = resultsReceived
  BY SentAre, FS_CardinalityType DEF ResultInv, ResultsConserved, Unfailed
<1>q. ASSUME IsFiniteSet(Q'),
             \A w \in Workers : Len(resultQ'[w]) <= sent'[w] /\ (wpc'[w] \in Alive => wstatus'[w] = "0"),
             resultsReceived' + Cardinality(Q') <= Cardinality(A'),
             resultsReceived' + Cardinality(Q') >= Cardinality(U'),
             connectionsSucceeded' + connectionsDied' = resultsReceived'
      PROVE  ResultInv'
  BY <1>q DEF ResultInv, ResultsConserved, Unfailed, Alive, Running
<1>c. ASSUME UNCHANGED <<resultQ, sent, wstatus, resultsReceived, connectionsSucceeded, connectionsDied>>,
             \A w \in Workers : wpc'[w] \in Alive => wpc[w] \in Alive
      PROVE  ResultInv'
  <2>1. Q' = Q /\ A' = A /\ U' = U
    BY <1>c DEF Entries, SentBy, Unfailed
  <2> QED
    BY <1>b, <1>c, <1>q, <2>1
<1>1. ASSUME NEW w \in Workers, CollectResult(w), ControllerActs \/ ControllerTimesOut
      PROVE  ResultInv'
  <2>1. UNCHANGED <<wpc, wstatus, sent>> /\ A' = A /\ U' = U
    BY <1>1, ControllerFrame DEF SentBy, Unfailed
  <2>2. resultQ[w] # <<>> /\ Pulled(resultQ', resultQ, w) /\ resultQ[w] \in Seq(Outcomes)
    BY <1>1, <1>a DEF CollectResult, Pulled
  <2>3. Holding(resultQ, Outcomes) = Q /\ Holding(resultQ', Outcomes) = Q'
    BY <1>a, <1>p, AllHeld
  <2>4. Head(resultQ[w]) \in Outcomes
    BY <2>2, HeadTailProperties
  <2>5. IsFiniteSet(Q') /\ Cardinality(Q') = Cardinality(Q) - 1
    <3>1. IsFiniteSet(Holding(resultQ, Outcomes))
      BY <1>b, <2>3
    <3>2. /\ IsFiniteSet(Holding(resultQ', Outcomes))
          /\ Cardinality(Holding(resultQ', Outcomes))
               = Cardinality(Holding(resultQ, Outcomes)) - (IF Head(resultQ[w]) \in Outcomes THEN 1 ELSE 0)
      BY <1>r, <2>2, <3>1, PullHolding
    <3> QED
      BY <2>3, <2>4, <3>2
  <2>6. /\ resultsReceived' = resultsReceived + 1
        /\ connectionsSucceeded' + connectionsDied' = connectionsSucceeded + connectionsDied + 1
    BY <1>1, <1>a DEF CollectResult, CountConnection
  <2>7. \A v \in Workers : Len(resultQ'[v]) <= Len(resultQ[v]) /\ Len(resultQ[v]) \in Nat
                           /\ Len(resultQ'[v]) \in Nat
    BY <1>a, <2>2, HeadTailProperties, EmptySeq DEF Pulled
  <2>8. \A v \in Workers : Len(resultQ'[v]) <= sent'[v] /\ (wpc'[v] \in Alive => wstatus'[v] = "0")
    BY <1>a, <1>b, <2>1, <2>7
  <2> QED
    BY <1>a, <1>b, <1>q, <2>1, <2>5, <2>6, <2>8
<1>2. CASE /\ ControllerActs \/ ControllerTimesOut
           /\ \A w \in Workers : ~CollectResult(w)
  <2>1. UNCHANGED <<resultQ, resultsReceived, connectionsSucceeded, connectionsDied>>
    BY <1>2 DEF ControllerActs, ControllerTimesOut, ControllerTimeout, ControllerStep,
                HelloListeners, HelloSockets, SyncListener, SyncProcess, CollectFinished,
                StartProcesses, StartWebsockets, CollectDelimiter, End, netVars, sinkVars,
                controllerVars
  <2>2. UNCHANGED <<wpc, wstatus, sent>>
    BY <1>2, ControllerFrame
  <2> QED
    BY <1>c, <2>1, <2>2
<1>3. ASSUME NEW l \in Listeners, ListenerActs(l)
      PROVE  ResultInv'
  <2>1. \A w \in Workers : wpc'[w] \in Alive => wpc[w] \in Alive
    BY <1>3, ListenerMoves DEF Alive, Running
  <2> QED
    BY <1>3, <1>c, <2>1, ListenerFrame
<1>4. ASSUME NEW w \in Workers, WorkerActs(w) \/ WorkerDies(w)
      PROVE  ResultInv'
  <2>0. /\ UNCHANGED <<resultsReceived, connectionsSucceeded, connectionsDied>>
        /\ wpc[w] \in Alive /\ wstatus[w] = "0" /\ w \in Unfailed
        /\ \A v \in Workers \ {w} : /\ wpc'[v] = wpc[v] /\ wstatus'[v] = wstatus[v]
                                    /\ sent'[v] = sent[v] /\ resultQ'[v] = resultQ[v]
    BY <1>4, <1>b, WorkerFrame DEF Alive, Unfailed
  <2>1. CASE WorkerHello(w) \/ WorkerSynced(w) \/ WorkerRequest(w)
    <3>1. UNCHANGED <<resultQ, sent, wstatus>>
      BY <2>1 DEF WorkerHello, WorkerSynced, WorkerRequest
    <3> QED
      BY <1>c, <2>0, <3>1
  <2>2. CASE SendResult(w)
    <3>1. PICK o \in Outcomes : Pushed(resultQ', resultQ, w, o)
      BY <2>2 DEF SendResult, Pushed
    <3>2. Holding(resultQ, Outcomes) = Q /\ Holding(resultQ', Outcomes) = Q'
      BY <1>a, <1>p, AllHeld
    <3>3. IsFiniteSet(Q') /\ Cardinality(Q') = Cardinality(Q) + 1
      <4>1. IsFiniteSet(Holding(resultQ, Outcomes))
        BY <1>b, <3>2
      <4>2. /\ IsFiniteSet(Holding(resultQ', Outcomes))
            /\ Cardinality(Holding(resultQ', Outcomes))
                 = Cardinality(Holding(resultQ, Outcomes)) + (IF o \in Outcomes THEN 1 ELSE 0)
        BY <1>r, <3>1, <4>1, PushHolding
      <4> QED
        BY <3>2, <4>2
    <3>4. UNCHANGED <<wpc, wstatus>> /\ sent' = [sent EXCEPT ![w] = @ + 1]
      BY <2>2 DEF SendResult
    <3>5. \A v \in Workers : sent'[v] = IF v = w THEN sent[w] + 1 ELSE sent[v]
      BY <1>a, <3>4
    <3>6. Cardinality(A') = Cardinality(A) + 1
      <4>1. A = Pairs(Workers, sent) /\ A' = Pairs(Workers, sent')
        BY DEF SentBy, Pairs
      <4>2. Increased(sent', sent, w) /\ sent[w] \in Nat /\ IsFiniteSet(Pairs(Workers, sent))
        BY <1>a, <1>b, <3>4, <4>1 DEF Increased
      <4> QED
        BY <1>r, <4>1, <4>2, PairsMore
    <3>7. Cardinality(U') = Cardinality(U) + 1
      <4>1. U = Pairs(Unfailed, sent) /\ U' = Pairs(Unfailed, sent')
        BY <3>4 DEF SentBy, Pairs, Unfailed
      <4>2. Increased(sent', sent, w) /\ sent[w] \in Nat /\ IsFiniteSet(Pairs(Unfailed, sent))
        BY <1>a, <1>b, <3>4, <4>1 DEF Increased
      <4>3. Unfailed \in SUBSET DOMAIN sent /\ w \in Unfailed
        BY <1>r, <2>0 DEF Unfailed
      <4> QED
        BY <4>1, <4>2, <4>3, PairsMore
    <3>8. Len(resultQ'[w]) = Len(resultQ[w]) + 1 /\ Len(resultQ[w]) \in Nat
      BY <1>a, <3>1, AppendProperties DEF Pushed
    <3>9. \A v \in Workers : Len(resultQ'[v]) <= sent'[v] /\ (wpc'[v] \in Alive => wstatus'[v] = "0")
      BY <1>a, <1>b, <2>0, <3>4, <3>5, <3>8
    <3> QED
      BY <1>a, <1>b, <1>q, <2>0, <3>3, <3>6, <3>7, <3>9
  <2>3. CASE WorkerReturns(w)
    <3>1. UNCHANGED <<resultQ, sent>> /\ wstatus' = wstatus
      BY <1>a, <2>0, <2>3 DEF WorkerReturns, Exit
    <3> QED
      BY <1>c, <2>0, <3>1
  <2>4. CASE WorkerKilled(w)
    <3>1. PICK n \in 0 .. Len(resultQ[w]) : Truncated(resultQ', resultQ, w, n)
      BY <2>4 DEF WorkerKilled, Truncated
    <3>2. /\ IsFiniteSet(Q') /\ Cardinality(Q') = Cardinality(Q) - (Len(resultQ[w]) - n)
          /\ Len(resultQ'[w]) = n
      <4>1. IsFiniteSet(Entries(resultQ))
        BY <1>b
      <4>2. /\ IsFiniteSet(Entries(resultQ'))
            /\ Cardinality(Entries(resultQ')) = Cardinality(Entries(resultQ)) - (Len(resultQ[w]) - n)
            /\ Len(resultQ'[w]) = n
        BY <1>r, <3>1, <4>1, TruncateEntries
      <4> QED
        BY <1>p, <4>2
    <3>3. UNCHANGED sent /\ wpc'[w] = "exited" /\ wstatus'[w] = "nonzero"
      BY <1>a, <2>4 DEF WorkerKilled, Exit
    <3>4. A' = A
      BY <3>3 DEF SentBy
    <3>5. Cardinality(U') = Cardinality(U) - sent[w]
      <4>1. Unfailed' = Unfailed \ {w}
        BY <2>0, <3>3 DEF Unfailed
      <4>2. U = Pairs(Unfailed, sent) /\ U' = Pairs(Unfailed \ {w}, sent)
        BY <3>3, <4>1 DEF SentBy, Pairs
      <4>3. sent[w] \in Nat
        BY <1>a
      <4> QED
        BY <1>b, <2>0, <4>2, <4>3, PairsWithout
    <3>6. Len(resultQ[w]) \in Nat /\ Len(resultQ[w]) <= sent[w] /\ sent[w] \in Nat
      BY <1>a, <1>b
    <3>7. \A v \in Workers : Len(resultQ'[v]) <= sent'[v] /\ (wpc'[v] \in Alive => wstatus'[v] = "0")
      <4>1. Len(resultQ'[w]) <= sent'[w] /\ wpc'[w] \notin Alive
        BY <3>2, <3>3, <3>6 DEF Alive, Running
      <4> QED
        BY <1>b, <2>0, <3>3, <4>1
    <3> QED
      BY <1>a, <1>b, <1>q, <2>0, <3>2, <3>4, <3>5, <3>6, <3>7
  <2> QED
    BY <1>4, <2>1, <2>2, <2>3, <2>4 DEF WorkerActs, WorkerDies, WorkerStep
<1>5. CASE \/ \E k \in Listeners : ListenerSubscribes(k)
           \/ \E v \in Workers : WorkerSubscribes(v)
  BY <1>5, <1>c, SubscribeFrame
<1>6. CASE UNCHANGED vars
  BY <1>6, <1>c DEF vars, netVars, workerVars, controllerVars
<1> QED
  BY <1>1, <1>2, <1>3, <1>4, <1>5, <1>6 DEF Next, Stop

(* Every result a worker pushed reaches the controller once, or waits for  *)
(* it, or was the unsent tail of a worker that died; and each that was     *)
(* received has one verdict.                                               *)
THEOREM ResultsAreConserved == Spec => []ResultsConserved
<1>1. Init => ResultInv
  <2> SUFFICES ASSUME Init PROVE ResultInv
    OBVIOUS
  <2>1. Entries(resultQ) = {}
    BY EmptySeq DEF Init, NetInit, Entries
  <2>2. \A S \in SUBSET Workers : SentBy(S) = {}
    BY DEF Init, WorkerInit, SentBy
  <2>3. SentBy(Workers) = {} /\ SentBy({w \in Workers : wstatus[w] = "0"}) = {}
    BY <2>2
  <2>4. \A w \in Workers : Len(resultQ[w]) <= sent[w] /\ wstatus[w] = "0"
    BY EmptySeq DEF Init, NetInit, WorkerInit
  <2>5. ResultsConserved
    BY <2>1, <2>3, FS_EmptySet DEF Init, ControllerInit, CountersInit, ResultsConserved
  <2> QED
    BY <2>1, <2>4, <2>5, FS_EmptySet DEF ResultInv
<1>2. TypeOK /\ TypeOK' /\ BarrierInv /\ ResultInv /\ [Next]_vars => ResultInv'
  BY ResultInvStep DEF BarrierInv
<1>3. ResultInv => ResultsConserved
  BY DEF ResultInv
<1> QED
  BY <1>1, <1>2, <1>3, BarrierCorrect, PTL DEF Spec

-----------------------------------------------------------------------------
(* The refinement.  What the refinement mapping of PerfTest computes.      *)
Phase == PhaseOf[cpc]

Life == [w \in Workers |-> LifeOf(w)]

Waited == {w \in Workers : wpc[w] = "reaped"}

Printed == IF cpc = "ended" THEN [completed |-> clientsFinished, died |-> clientsDied]
                            ELSE [completed |-> 0, died |-> 0]

TestVars == <<Phase, Life, Waited, Printed>>

LEMMA LifeAre ==
  ASSUME TypeOK, NEW w \in Workers
  PROVE  /\ Life[w] = LifeOf(w)
         /\ wpc[w] = "none" => LifeOf(w) = "none"
         /\ wpc[w] \in {"hello", "req", "ready"} => LifeOf(w) = "launched"
         /\ wpc[w] = "working" => LifeOf(w) = "running"
         /\ wpc[w] \in {"exited", "reaped"} =>
              LifeOf(w) = IF wstatus[w] = "0" THEN "completed" ELSE "died"
         /\ LifeOf(w) = "none" => wpc[w] = "none"
         /\ LifeOf(w) = "completed" => wpc[w] \in {"exited", "reaped"} /\ wstatus[w] = "0"
         /\ LifeOf(w) = "died" => wpc[w] \in {"exited", "reaped"} /\ wstatus[w] = "nonzero"
<1>1. wpc[w] \in WorkerStates /\ wstatus[w] \in Statuses
  BY DEF TypeOK, WorkerTypeOK
<1> QED
  BY <1>1 DEF LifeOf, Life, WorkerStates, Statuses

LEMMA LifeKept ==
  ASSUME TypeOK, TypeOK', NEW w \in Workers, wstatus'[w] = wstatus[w],
         \/ wpc'[w] = wpc[w]
         \/ wpc[w] \in {"hello", "req", "ready"} /\ wpc'[w] \in {"hello", "req", "ready"}
         \/ wpc[w] = "exited" /\ wpc'[w] = "reaped"
  PROVE  LifeOf(w)' = LifeOf(w)
<1>1. wpc[w] \in WorkerStates /\ wstatus[w] \in Statuses
  BY DEF TypeOK, WorkerTypeOK
<1> QED
  BY <1>1 DEF LifeOf, WorkerStates, Statuses

(* Steps that TestRun does not see.                                        *)
LEMMA Unseen ==
  ASSUME TypeOK, TypeOK', UNCHANGED cpc,
         cpc = "ended" => UNCHANGED <<clientsFinished, clientsDied>>,
         \A w \in Workers :
           /\ wstatus'[w] = wstatus[w]
           /\ \/ wpc'[w] = wpc[w]
              \/ wpc[w] \in {"hello", "req", "ready"} /\ wpc'[w] \in {"hello", "req", "ready"}
  PROVE  UNCHANGED TestVars
<1>1. \A w \in Workers : LifeOf(w)' = LifeOf(w)
  BY LifeKept
<1>2. Life' = Life
  BY <1>1 DEF Life
<1>3. Waited' = Waited
  BY DEF Waited
<1> QED
  BY <1>2, <1>3 DEF TestVars, Phase, Printed

LEMMA TestGathered ==
  ASSUME TypeOK, TypeOK', StartProcesses, UNCHANGED <<wpc, wstatus>>
  PROVE  Test!Gathered
<1>1. cpc = "listeners" /\ cpc' = "workers"
  BY DEF StartProcesses
<1>2. \A w \in Workers : LifeOf(w)' = LifeOf(w)
  BY LifeKept
<1>3. Life' = Life /\ Waited' = Waited
  BY <1>2 DEF Life, Waited
<1> QED
  BY <1>1, <1>3 DEF Test!Gathered, PhaseOf, Life, Waited

(* TestRun counts with the same Cardinality.                               *)
LEMMA SameCount ==
  ASSUME NEW S
  PROVE  Test!Cardinality(S) = Cardinality(S)
  BY DEF Test!Cardinality, Cardinality, Test!IsFiniteSet, IsFiniteSet

LEMMA LaunchedAre ==
  ASSUME TypeOK
  PROVE  Test!Launched = {w \in Workers : wpc[w] # "none"}
<1>1. ASSUME NEW w \in Workers PROVE LifeOf(w) # "none" <=> wpc[w] # "none"
  BY LifeAre
<1> QED
  BY <1>1 DEF Test!Launched

LEMMA TestStart ==
  ASSUME TypeOK, TypeOK', Assembled', StartWebsockets, UNCHANGED <<wpc, wstatus>>
  PROVE  Test!Start
<1>1. cpc = "workers" /\ cpc' = "collect"
  BY DEF StartWebsockets
<1>2. \A w \in Workers : LifeOf(w)' = LifeOf(w)
  BY LifeKept
<1>3. Life' = Life /\ Waited' = Waited
  BY <1>2 DEF Life, Waited
<1>4. Cardinality(Test!Launched) = Clients
  <2>1. {w \in Workers : wpc[w] # "none"} = counted' /\ Cardinality(counted') = Clients
    BY <1>1 DEF Assembled, Clients
  <2> QED
    BY <2>1, LaunchedAre
<1> QED
  BY <1>1, <1>3, <1>4, SameCount DEF Test!Start, PhaseOf, Life, Waited

LEMMA TestReport ==
  ASSUME TypeOK, TypeOK', Assembled, ReportInv, End, UNCHANGED <<wpc, wstatus>>
  PROVE  Test!Report
<1>1. cpc = "collect" /\ cpc' = "ended" /\ UNCHANGED <<clientsFinished, clientsDied>>
  BY DEF End, sinkVars
<1>2. clientsFinished + clientsDied = Clients
  <2>1. Clients \in Nat
    BY NetworkAssumption DEF Clients
  <2> QED
    BY <2>1 DEF End, Collecting, TypeOK, ControllerTypeOK
<1>3. /\ \A w \in Workers : wpc[w] \in {"none", "reaped"}
      /\ clientsFinished = Cardinality(ReapedWith("0"))
      /\ clientsDied = Cardinality(ReapedWith("nonzero"))
  BY <1>1, <1>2, AllAccountedFor
<1>4. \A w \in Workers : LifeOf(w)' = LifeOf(w)
  BY LifeKept
<1>5. Life' = Life /\ Waited' = Waited
  BY <1>4 DEF Life, Waited
<1>6. Waited = Test!Launched
  BY <1>3, LaunchedAre DEF Waited
<1>7. /\ {w \in Workers : LifeOf(w) = "completed"} = ReapedWith("0")
      /\ {w \in Workers : LifeOf(w) = "died"} = ReapedWith("nonzero")
  BY <1>3, LifeAre DEF ReapedWith
<1>8. Test!With("completed") = clientsFinished /\ Test!With("died") = clientsDied
  <2>1. /\ Test!With("completed") = Cardinality({w \in Workers : LifeOf(w) = "completed"})
        /\ Test!With("died") = Cardinality({w \in Workers : LifeOf(w) = "died"})
    BY SameCount, LifeAre DEF Test!With, Life
  <2> QED
    BY <1>3, <1>7, <2>1
<1> QED
  BY <1>1, <1>5, <1>6, <1>8 DEF Test!Report, PhaseOf, Life, Waited

(* A listener launches children only between StartProcesses and            *)
(* StartWebsockets: before, it has no request, and after, none of its      *)
(* children can be in its first loop (Assembled).                          *)
LEMMA TestLaunch ==
  ASSUME TypeOK, TypeOK', LaunchedOnce, LaunchedOnce', Assembled',
         NEW l \in Listeners, ListenerActs(l), ListenerRequest(l)
  PROVE  UNCHANGED TestVars \/ \E S \in SUBSET Workers : Test!Launch(S)
<1> DEFINE S == {w \in Workers : wpc[w] = "none" /\ wpc'[w] = "hello"}
<1>0. UNCHANGED <<wstatus, cpc, clientsFinished, clientsDied>>
  BY ListenerFrame
<1>1. \A w \in Workers : wpc'[w] = wpc[w] \/ (wpc[w] = "none" /\ wpc'[w] = "hello")
  <2>1. \A w \in Workers : wpc'[w] = wpc[w] \/ wpc'[w] = "hello"
    BY DEF ListenerRequest, Launch, LaunchFails
  <2> QED
    BY <2>1, ListenerMoves
<1>2. CASE S = {}
  BY <1>0, <1>1, <1>2, Unseen
<1>3. ASSUME NEW v \in S PROVE cpc = "workers"
  <2>1. v \in Workers /\ v[1] \in Listeners /\ v \in ChildrenOf(v[1]) /\ wpc'[v] = "hello"
    BY DEF Workers, ChildrenOf
  <2>2. cpc # "listeners"
    BY <1>0, <2>1 DEF LaunchedOnce, Unlaunched
  <2>3. cpc \notin {"collect", "ended"}
    BY <1>0, <2>1 DEF Assembled
  <2> QED
    BY <2>2, <2>3 DEF TypeOK, ControllerTypeOK, ControllerStates
<1>4. CASE S # {}
  <2>1. cpc = "workers" /\ cpc' = "workers"
    BY <1>0, <1>3, <1>4
  <2>2. \A w \in Workers : LifeOf(w)' = IF w \in S THEN "launched" ELSE LifeOf(w)
    <3>1. ASSUME NEW w \in Workers, w \in S PROVE LifeOf(w)' = "launched"
      BY <3>1 DEF LifeOf
    <3>2. ASSUME NEW w \in Workers, w \notin S PROVE LifeOf(w)' = LifeOf(w)
      BY <1>0, <1>1, <3>2, LifeKept
    <3> QED
      BY <3>1, <3>2
  <2>3. Life' = [w \in Workers |-> IF w \in S THEN "launched" ELSE Life[w]]
    BY <2>2 DEF Life
  <2>4. S \cap Test!Launched = {}
    BY LaunchedAre
  <2>5. Waited' = Waited
    BY <1>1 DEF Waited
  <2>6. Test!Launch(S)
    BY <2>1, <2>3, <2>4, <2>5 DEF Test!Launch, PhaseOf, Life, Waited
  <2> QED
    BY <2>6
<1> QED
  BY <1>2, <1>4

LEMMA TestWaitFor ==
  ASSUME TypeOK, TypeOK', ChildToReap, NEW l \in Listeners, ListenerActs(l), Reap(l)
  PROVE  \E w \in Workers : Test!WaitFor(w)
<1>0. UNCHANGED <<wstatus, cpc, clientsFinished, clientsDied>>
  BY ListenerFrame
<1>1. PICK z \in ChildrenOf(l) : wpc[z] = "exited" /\ wpc' = [wpc EXCEPT ![z] = "reaped"]
  BY ReapsOne
<1>2. z \in Workers /\ wpc \in [Workers -> WorkerStates] /\ wstatus[z] \in Statuses
  BY DEF ChildrenOf, TypeOK, WorkerTypeOK
<1>3. Life' = Life
  <2>1. \A w \in Workers : LifeOf(w)' = LifeOf(w)
    BY <1>0, <1>1, <1>2, LifeKept
  <2> QED
    BY <2>1 DEF Life
<1>4. Life[z] \in {"completed", "died"} /\ z \notin Waited /\ Waited' = Waited \cup {z}
  BY <1>1, <1>2, LifeAre DEF Waited
<1>5. Test!WaitFor(z)
  BY <1>0, <1>3, <1>4 DEF Test!WaitFor, Test!Gone, PhaseOf, Life, Waited
<1> QED
  BY <1>2, <1>5

(* A step of one worker that changes its life.                             *)
LEMMA OneLife ==
  ASSUME TypeOK, TypeOK', NEW w \in Workers, WorkerActs(w) \/ WorkerDies(w), NEW how,
         LifeOf(w)' = how
  PROVE  /\ Life' = [Life EXCEPT ![w] = how] /\ Waited' = Waited
         /\ UNCHANGED <<cpc, clientsFinished, clientsDied>>
<1>1. /\ UNCHANGED <<cpc, clientsFinished, clientsDied>>
      /\ \A v \in Workers \ {w} : wpc'[v] = wpc[v] /\ wstatus'[v] = wstatus[v]
      /\ wpc[w] # "reaped" /\ wpc'[w] # "reaped"
  BY WorkerFrame DEF Running
<1>2. \A v \in Workers \ {w} : LifeOf(v)' = LifeOf(v)
  BY <1>1, LifeKept
<1>3. Life' = [Life EXCEPT ![w] = how]
  BY <1>2 DEF Life
<1>4. Waited' = Waited
  BY <1>1 DEF Waited
<1> QED
  BY <1>1, <1>3, <1>4

LEMMA TestBegin ==
  ASSUME TypeOK, TypeOK', NotBefore, NoOrphans, NEW w \in Workers, WorkerActs(w),
         WorkerRequest(w), Head(inbox[w]) = "StartWebsockets"
  PROVE  Test!Begin(w)
<1>1. wpc[w] = "ready" /\ wpc'[w] = "working"
  BY DEF WorkerRequest, TypeOK, WorkerTypeOK
<1>2. Queued(w, "StartWebsockets")
  <2>1. inbox[w] \in Seq(Topics) /\ inbox[w] # <<>>
    BY DEF WorkerRequest, TypeOK, NetTypeOK, Subscribers
  <2> QED
    BY <2>1, EmptySeq DEF Queued
<1>3. cpc = "collect"
  BY <1>1, <1>2 DEF NotBefore, NoOrphans, TypeOK, ControllerTypeOK, ControllerStates
<1>4. LifeOf(w)' = "running" /\ Life[w] = "launched"
  BY <1>1, LifeAre DEF LifeOf
<1>5. Life' = [Life EXCEPT ![w] = "running"] /\ Waited' = Waited /\ cpc' = cpc
  BY <1>4, OneLife
<1> QED
  BY <1>3, <1>4, <1>5 DEF Test!Begin, PhaseOf, Life, Waited

LEMMA TestLeave ==
  ASSUME TypeOK, TypeOK', NEW w \in Workers, WorkerActs(w) \/ WorkerDies(w),
         WorkerReturns(w) \/ WorkerKilled(w)
  PROVE  \E how \in Test!Gone : Test!Leave(w, how)
<1> DEFINE how == IF wstatus'[w] = "0" THEN "completed" ELSE "died"
<1>1. wpc'[w] = "exited" /\ how \in {"completed", "died"}
  BY DEF WorkerReturns, WorkerKilled, Exit, TypeOK, WorkerTypeOK
<1>2. \/ Life[w] = "running"
      \/ Life[w] = "launched" /\ how = "died"
  <2>1. CASE wpc[w] = "working"
    BY <2>1, LifeAre
  <2>2. CASE wpc[w] # "working"
    <3>1. wpc[w] \in {"hello", "req", "ready"} /\ wstatus'[w] = "nonzero"
      BY <2>2 DEF WorkerReturns, WorkerKilled, Exit, Running, TypeOK, WorkerTypeOK
    <3> QED
      BY <3>1, LifeAre
  <2> QED
    BY <2>1, <2>2
<1>3. LifeOf(w)' = how
  BY <1>1 DEF LifeOf
<1>4. Life' = [Life EXCEPT ![w] = how] /\ Waited' = Waited
      /\ UNCHANGED <<cpc, clientsFinished, clientsDied>>
  BY <1>3, OneLife
<1>5. Test!Leave(w, how)
  BY <1>2, <1>4 DEF Test!Leave, PhaseOf, Life, Waited
<1> QED
  BY <1>1, <1>5 DEF Test!Gone

(* Every step of the protocol is a step of TestRun, or one that it does    *)
(* not see.                                                                *)
LEMMA TestStep ==
  ASSUME TypeOK, TypeOK', BarrierInv, BarrierInv', Assembled, Assembled', ChildToReap,
         ReportInv, NoOrphans, [Next]_vars
  PROVE  Test!Next \/ UNCHANGED TestVars
<1>0. LaunchedOnce /\ LaunchedOnce' /\ NotBefore
  BY DEF BarrierInv
<1>1. CASE ControllerActs \/ ControllerTimesOut
  <2>0. UNCHANGED <<wpc, wstatus>>
    BY <1>1, ControllerFrame
  <2>1. CASE StartProcesses
    BY <2>0, <2>1, TestGathered DEF Test!Next
  <2>2. CASE StartWebsockets
    BY <2>0, <2>2, TestStart DEF Test!Next
  <2>3. CASE End
    BY <2>0, <2>3, TestReport DEF Test!Next
  <2>4. CASE ~StartProcesses /\ ~StartWebsockets /\ ~End
    <3>1. /\ UNCHANGED cpc
          /\ cpc = "ended" => UNCHANGED <<clientsFinished, clientsDied>>
      BY <1>1, <2>4 DEF ControllerActs, ControllerTimesOut, ControllerTimeout, ControllerStep,
                        HelloListeners, HelloSockets, SyncListener, SyncProcess,
                        CollectFinished, CollectResult, CollectDelimiter, Collecting,
                        sinkVars, controllerVars
    <3> QED
      BY <2>0, <3>1, Unseen
  <2> QED
    BY <2>1, <2>2, <2>3, <2>4
<1>2. ASSUME NEW l \in Listeners, ListenerActs(l)
      PROVE  Test!Next \/ UNCHANGED TestVars
  <2>1. CASE ListenerRequest(l)
    BY <1>0, <1>2, <2>1, TestLaunch DEF Test!Next
  <2>2. CASE Reap(l)
    BY <1>2, <2>2, TestWaitFor DEF Test!Next
  <2>3. CASE ListenerHello(l) \/ ListenerSynced(l)
    <3>1. UNCHANGED <<wpc, wstatus, cpc, clientsFinished, clientsDied>>
      BY <1>2, <2>3, ListenerFrame DEF ListenerHello, ListenerSynced, workerVars
    <3> QED
      BY <3>1, Unseen
  <2> QED
    BY <1>2, <2>1, <2>2, <2>3 DEF ListenerActs, ListenerStep
<1>3. ASSUME NEW w \in Workers, WorkerActs(w) \/ WorkerDies(w)
      PROVE  Test!Next \/ UNCHANGED TestVars
  <2>1. CASE WorkerReturns(w) \/ WorkerKilled(w)
    BY <1>3, <2>1, TestLeave DEF Test!Next
  <2>2. CASE WorkerRequest(w) /\ Head(inbox[w]) = "StartWebsockets"
    <3>1. WorkerActs(w)
      BY <1>3, <2>2 DEF WorkerActs, WorkerDies, WorkerStep
    <3> QED
      BY <1>0, <2>2, <3>1, TestBegin DEF Test!Next
  <2>3. CASE \/ WorkerHello(w) \/ WorkerSynced(w) \/ SendResult(w)
             \/ WorkerRequest(w) /\ Head(inbox[w]) # "StartWebsockets"
    <3>0. wpc \in [Workers -> WorkerStates]
      BY DEF TypeOK, WorkerTypeOK
    <3>1. UNCHANGED <<cpc, clientsFinished, clientsDied>>
      BY <1>3, WorkerFrame
    <3>2. /\ wstatus' = wstatus
          /\ \A v \in Workers :
               \/ wpc'[v] = wpc[v]
               \/ wpc[v] \in {"hello", "req", "ready"} /\ wpc'[v] \in {"hello", "req", "ready"}
      BY <2>3, <3>0 DEF WorkerHello, WorkerSynced, SendResult, WorkerRequest
    <3> QED
      BY <3>1, <3>2, Unseen
  <2> QED
    BY <1>3, <2>1, <2>2, <2>3 DEF WorkerActs, WorkerDies, WorkerStep
<1>4. CASE \/ \E l \in Listeners : ListenerSubscribes(l)
           \/ \E w \in Workers : WorkerSubscribes(w)
  BY <1>4, SubscribeFrame, Unseen
<1>5. CASE UNCHANGED vars
  BY <1>5, Unseen DEF vars, workerVars, controllerVars, sinkVars
<1> QED
  BY <1>1, <1>2, <1>3, <1>4, <1>5 DEF Next, Stop

(* The protocol of sockets, HELLOs and counters implements TestRun: no     *)
(* worker runs its clients before the configured number is launched, and   *)
(* the one report is printed when every launched worker has been waited    *)
(* for, with the numbers that completed and that died.                     *)
THEOREM RunsTheTest == Spec => ImplementsTestRun
<1>1. Init => Test!Init
  <2> SUFFICES ASSUME Init PROVE Test!Init
    OBVIOUS
  <2>1. cpc = "listeners" /\ \A w \in Workers : wpc[w] = "none"
    BY DEF Init, ControllerInit, CountersInit, WorkerInit
  <2>2. Phase = "gather" /\ Printed = [completed |-> 0, died |-> 0]
    BY <2>1 DEF Phase, PhaseOf, Printed
  <2>3. Life = [w \in Workers |-> "none"] /\ Waited = {}
    BY <2>1 DEF Life, LifeOf, Waited
  <2> QED
    BY <2>2, <2>3 DEF Test!Init, Test!NoReport, Phase, Life, Waited, Printed
<1>2. /\ TypeOK /\ TypeOK' /\ BarrierInv /\ BarrierInv' /\ Assembled /\ Assembled'
      /\ ChildToReap /\ ReportInv /\ NoOrphans /\ [Next]_vars
      => [Test!Next]_TestVars
  BY TestStep
<1>3. Spec => [][Test!Next]_TestVars
  BY <1>2, ReportCorrect, EndsWithoutOrphans, PTL DEF Spec
<1> QED
  BY <1>1, <1>3, PTL DEF Spec, ImplementsTestRun, Test!Spec, TestVars, Phase, Life, Waited, Printed
=============================================================================
