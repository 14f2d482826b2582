---------------------------- MODULE BarrierProof ----------------------------
(***************************************************************************)
(* Proofs about the barrier of PerfTest, for every value of the constants: *)
(* the controller compares two counters of anonymous requests with the     *)
(* configuration, and that is enough for every worker to be there when     *)
(* StartWebsockets is published.  The argument counts sets.                *)
(***************************************************************************)
EXTENDS PerfTestProof, FiniteSetTheorems

-----------------------------------------------------------------------------
(* What the steps of one program leave alone.                              *)

(* A step of worker w changes w, its queues and its requests.              *)
LEMMA WorkerFrame ==
  ASSUME TypeOK, NEW w \in Workers, WorkerActs(w) \/ WorkerDies(w)
  PROVE  /\ UNCHANGED <<syncReq, syncRep, finishedQ, lpc, unfinished, cpc, subscribers,
                        processes, clientsFinished, clientsDied, resultsReceived,
                        connectionsSucceeded, connectionsDied, delimiter, counted>>
         /\ \A r \in Subscribers \ {w} : inbox'[r] = inbox[r] /\ subs'[r] = subs[r]
         /\ \A v \in Workers \ {w} :
              /\ wpc'[v] = wpc[v] /\ wstatus'[v] = wstatus[v] /\ sent'[v] = sent[v]
              /\ resultQ'[v] = resultQ[v]
              /\ v \in procReq' <=> v \in procReq
              /\ v \in procRep' <=> v \in procRep
         /\ wpc[w] \in Running
         /\ wpc'[w] \in Running \cup {"exited"}
         /\ wpc'[w] = "hello" => wpc[w] = "hello"
<1> USE DEF TypeOK, NetTypeOK, WorkerTypeOK, Running, Receive
<1>0. w \in Subscribers /\ UNCHANGED <<listenerVars, controllerVars>>
  BY DEF Subscribers, WorkerActs, WorkerDies
<1>1. CASE WorkerHello(w)
  BY <1>0, <1>1 DEF WorkerHello, listenerVars, controllerVars
<1>2. CASE WorkerSynced(w)
  BY <1>0, <1>2 DEF WorkerSynced, listenerVars, controllerVars
<1>3. CASE WorkerRequest(w)
  BY <1>0, <1>3 DEF WorkerRequest, listenerVars, controllerVars
<1>4. CASE SendResult(w)
  BY <1>0, <1>4 DEF SendResult, listenerVars, controllerVars
<1>5. CASE WorkerReturns(w)
  BY <1>0, <1>5 DEF WorkerReturns, Exit, listenerVars, controllerVars
<1>6. CASE WorkerKilled(w)
  BY <1>0, <1>6 DEF WorkerKilled, Exit, listenerVars, controllerVars
<1> QED
  BY <1>1, <1>2, <1>3, <1>4, <1>5, <1>6 DEF WorkerActs, WorkerDies, WorkerStep

(* A step of listener l touches no worker but its children, and those only *)
(* by launching or reaping them.                                           *)
LEMMA ListenerFrame ==
  ASSUME TypeOK, NEW l \in Listeners, ListenerActs(l)
  PROVE  /\ UNCHANGED <<subs, procReq, procRep, resultQ, wstatus, sent, cpc, subscribers,
                        processes, clientsFinished, clientsDied, resultsReceived,
                        connectionsSucceeded, connectionsDied, delimiter, counted>>
         /\ \A r \in Subscribers \ {l} : inbox'[r] = inbox[r]
         /\ \A k \in Listeners \ {l} :
              /\ lpc'[k] = lpc[k] /\ unfinished'[k] = unfinished[k]
              /\ finishedQ'[k] = finishedQ[k]
              /\ k \in syncReq' <=> k \in syncReq
              /\ k \in syncRep' <=> k \in syncRep
         /\ \A w \in Workers : w[1] # l => wpc'[w] = wpc[w]
<1> USE DEF TypeOK, NetTypeOK, WorkerTypeOK, ListenerTypeOK, Receive, workerVars
<1>0. l \in Subscribers /\ UNCHANGED controllerVars
  BY DEF Subscribers, ListenerActs
<1>1. CASE ListenerHello(l)
  BY <1>0, <1>1 DEF ListenerHello, controllerVars
<1>2. CASE ListenerSynced(l)
  BY <1>0, <1>2 DEF ListenerSynced, controllerVars
<1>3. CASE ListenerRequest(l)
  <2>1. /\ \A k \in Listeners \ {l} : lpc'[k] = lpc[k] /\ unfinished'[k] = unfinished[k]
        /\ \A w \in Workers : w[1] # l => wpc'[w] = wpc[w]
    BY <1>3 DEF ListenerRequest, Launch, LaunchFails
  <2> QED
    BY <1>0, <1>3, <2>1 DEF ListenerRequest, controllerVars
<1>4. CASE Reap(l)
  <2>1. PICK r \in WaitPid(l) :
          /\ wpc' = [w \in Workers |-> IF w \in r.pid THEN "reaped" ELSE wpc[w]]
          /\ PushFinished(l, r.status)
    BY <1>4 DEF Reap
  <2>2. \A w \in r.pid : w[1] = l
    BY DEF WaitPid, ChildrenOf
  <2> QED
    BY <1>0, <1>4, <2>1, <2>2 DEF Reap, PushFinished, controllerVars
<1> QED
  BY <1>1, <1>2, <1>3, <1>4 DEF ListenerActs, ListenerStep

(* The controller touches the network and itself.                          *)
LEMMA ControllerFrame ==
  ASSUME ControllerActs \/ ControllerTimesOut
  PROVE  UNCHANGED <<subs, lpc, unfinished, wpc, wstatus, sent>>
BY DEF ControllerActs, ControllerTimesOut, ControllerTimeout, ControllerStep, HelloListeners,
       HelloSockets, SyncListener, CollectFinished, SyncProcess, CollectResult, StartProcesses,
       StartWebsockets, CollectDelimiter, End, workerVars, listenerVars, netVars

(* A subscription that arrives changes subs and nothing else.              *)
LEMMA SubscribeFrame ==
  ASSUME \/ \E l \in Listeners : ListenerSubscribes(l)
         \/ \E w \in Workers : WorkerSubscribes(w)
  PROVE  UNCHANGED <<inbox, syncReq, syncRep, procReq, procRep, finishedQ, resultQ, wpc, wstatus,
                     sent, lpc, unfinished, cpc, subscribers, processes, clientsFinished,
                     clientsDied, resultsReceived, connectionsSucceeded, connectionsDied,
                     delimiter, counted>>
BY DEF ListenerSubscribes, WorkerSubscribes, Subscribe, workerVars, listenerVars, controllerVars

-----------------------------------------------------------------------------
(* The children of a listener, as many as it is configured to launch.      *)
Unreaped(l) == {w \in ChildrenOf(l) : wpc[w] \in Running \cup {"exited"}}

LEMMA FiniteWorkers ==
  /\ IsFiniteSet(Workers)
  /\ \A S \in SUBSET Workers : IsFiniteSet(S) /\ Cardinality(S) \in Nat
<1>1. IsFiniteSet(0 .. Processes - 1)
  BY NetworkAssumption, FS_Interval
<1>2. IsFiniteSet(Workers)
  BY <1>1, NetworkAssumption, FS_Product DEF Workers
<1> QED
  BY <1>2, FS_Subset, FS_CardinalityType

LEMMA Brood ==
  ASSUME NEW l \in Listeners
  PROVE  /\ ChildrenOf(l) \in SUBSET Workers
         /\ Cardinality(ChildrenOf(l)) = Processes
         /\ ChildrenOf(l) = {l} \X (0 .. Processes - 1)
<1>1. ChildrenOf(l) = {l} \X (0 .. Processes - 1)
  BY DEF ChildrenOf, Workers
<1>2. /\ IsFiniteSet(0 .. Processes - 1)
      /\ Cardinality(0 .. Processes - 1) = Processes
  BY NetworkAssumption, FS_Interval
<1>3. IsFiniteSet({l}) /\ Cardinality({l}) = 1
  BY FS_Singleton
<1>4. Cardinality({l} \X (0 .. Processes - 1)) = 1 * Processes
  <2> DEFINE S == {l}
             T == 0 .. Processes - 1
  <2>1. IsFiniteSet(S) /\ IsFiniteSet(T) /\ Cardinality(S) = 1 /\ Cardinality(T) = Processes
    BY <1>2, <1>3
  <2> HIDE DEF S, T
  <2>2. Cardinality(S \X T) = Cardinality(S) * Cardinality(T)
    BY <2>1, FS_Product
  <2>3. Cardinality(S \X T) = 1 * Processes
    BY <2>1, <2>2
  <2> QED
    BY <2>3 DEF S, T
<1> QED
  BY <1>1, <1>4, NetworkAssumption DEF ChildrenOf

(* The reaping loop finds a child: one zombie goes, its status is pushed.  *)
LEMMA ReapsOne ==
  ASSUME TypeOK, ChildToReap, NEW l \in Listeners, Reap(l)
  PROVE  \E z \in ChildrenOf(l) :
           /\ wpc[z] = "exited" /\ wpc' = [wpc EXCEPT ![z] = "reaped"]
           /\ PushFinished(l, wstatus[z])
<1>1. PICK r \in WaitPid(l) :
        /\ wpc' = [w \in Workers |-> IF w \in r.pid THEN "reaped" ELSE wpc[w]]
        /\ PushFinished(l, r.status)
  BY DEF Reap
<1>2. Unreaped(l) # {}
  BY FS_EmptySet DEF ChildToReap, Reap, Unreaped
<1>3. {w \in ChildrenOf(l) : wpc[w] = "exited"} \cup {w \in ChildrenOf(l) : wpc[w] \in Running}
        = Unreaped(l)
  BY DEF Unreaped
<1>4. PICK z \in ChildrenOf(l) : wpc[z] = "exited" /\ r = [pid |-> {z}, status |-> wstatus[z]]
  BY <1>1, <1>2, <1>3 DEF WaitPid
<1>5. wpc' = [wpc EXCEPT ![z] = "reaped"]
  BY <1>1, <1>4 DEF TypeOK, WorkerTypeOK
<1> QED
  BY <1>1, <1>4, <1>5

LEMMA ChildToReapStep ==
  ASSUME TypeOK, ChildToReap, [Next]_vars
  PROVE  ChildToReap'
<1> SUFFICES ASSUME NEW l \in Listeners, lpc'[l] = "reaping"
             PROVE  unfinished'[l] > 0 /\ unfinished'[l] = Cardinality(Unreaped(l)')
  BY DEF ChildToReap, Unreaped, ChildrenOf
<1>a. lpc[l] = "reaping" => unfinished[l] > 0 /\ unfinished[l] = Cardinality(Unreaped(l))
  BY DEF ChildToReap, Unreaped
<1>b. /\ lpc \in [Listeners -> ListenerStates] /\ unfinished \in [Listeners -> 0 .. Processes]
      /\ wpc \in [Workers -> WorkerStates]
  BY DEF TypeOK, ListenerTypeOK, WorkerTypeOK
<1>c. ASSUME lpc'[l] = lpc[l], unfinished'[l] = unfinished[l],
             \A w \in ChildrenOf(l) : wpc'[w] = wpc[w]
      PROVE  unfinished'[l] > 0 /\ unfinished'[l] = Cardinality(Unreaped(l)')
  <2>1. Unreaped(l)' = Unreaped(l)
    BY <1>c DEF Unreaped, ChildrenOf
  <2> QED
    BY <1>a, <1>c, <2>1
<1>1. CASE ControllerActs \/ ControllerTimesOut
  BY <1>1, <1>c, ControllerFrame
<1>2. ASSUME NEW k \in Listeners, ListenerActs(k)
      PROVE  unfinished'[l] > 0 /\ unfinished'[l] = Cardinality(Unreaped(l)')
  <2>1. CASE k # l
    BY <1>2, <1>c, <2>1, ListenerFrame DEF ChildrenOf
  <2>2. CASE k = l /\ lpc[l] # "reaping"
    <3>1. Launch(l)
      BY <1>2, <1>b, <2>2
         DEF ListenerActs, ListenerStep, ListenerHello, ListenerSynced, ListenerRequest, Reap
    <3>2. Unreaped(l)' = ChildrenOf(l)
      BY <3>1 DEF Launch, Unreaped, ChildrenOf, Running
    <3> QED
      BY <1>b, <3>1, <3>2, Brood, NetworkAssumption DEF Launch
  <2>3. CASE k = l /\ lpc[l] = "reaping"
    <3>1. Reap(l)
      BY <1>2, <2>3 DEF ListenerActs, ListenerStep, ListenerHello, ListenerSynced, ListenerRequest
    <3>2. PICK z \in ChildrenOf(l) : wpc[z] = "exited" /\ wpc' = [wpc EXCEPT ![z] = "reaped"]
      BY <3>1, ReapsOne
    <3>3. Unreaped(l) \in SUBSET Workers
      BY Brood DEF Unreaped
    <3>4. Unreaped(l)' = Unreaped(l) \ {z} /\ z \in Unreaped(l)
      BY <1>b, <3>2, Brood DEF Unreaped, ChildrenOf, Running
    <3>5. Cardinality(Unreaped(l)') = Cardinality(Unreaped(l)) - 1
      BY <3>3, <3>4, FiniteWorkers, FS_RemoveElement
    <3>6. unfinished'[l] = unfinished[l] - 1 /\ unfinished[l] > 1
      BY <1>b, <3>1 DEF Reap
    <3> QED
      BY <1>a, <1>b, <2>3, <3>5, <3>6
  <2> QED
    BY <2>1, <2>2, <2>3
<1>3. ASSUME NEW w \in Workers, WorkerActs(w) \/ WorkerDies(w)
      PROVE  unfinished'[l] > 0 /\ unfinished'[l] = Cardinality(Unreaped(l)')
  <2>1. Unreaped(l)' = Unreaped(l)
    BY <1>3, WorkerFrame DEF Unreaped, ChildrenOf
  <2> QED
    BY <1>3, <1>a, <2>1, WorkerFrame
<1>4. CASE \/ \E k \in Listeners : ListenerSubscribes(k)
           \/ \E w \in Workers : WorkerSubscribes(w)
  BY <1>4, <1>c, SubscribeFrame
<1>5. CASE UNCHANGED vars
  BY <1>5, <1>c DEF vars, workerVars, listenerVars
<1> QED
  BY <1>1, <1>2, <1>3, <1>4, <1>5 DEF Next, Stop

(* The reaping loop of the listener: unfinished is the number of children  *)
(* that run or are zombies, so that waitpid always has a child and the     *)
(* uninitialised status is never pushed, for any number of processes.      *)
THEOREM ReapsChildren == Spec => []ChildToReap
<1>1. Init => ChildToReap
  BY DEF Init, ListenerInit, ChildToReap
<1>2. TypeOK /\ ChildToReap /\ [Next]_vars => ChildToReap'
  BY ChildToReapStep
<1> QED
  BY <1>1, <1>2, TypeCorrect, PTL DEF Spec

-----------------------------------------------------------------------------
(* A topic waits at most once in the queue of a subscriber.                *)
Once(s, t) ==
  \A i, j \in 1 .. Len(inbox[s]) : inbox[s][i] = t /\ inbox[s][j] = t => i = j

LEMMA PublishOnce ==
  ASSUME NetTypeOK, NEW topic \in Topics, Publish(topic), NEW s \in Subscribers, NEW t,
         Once(s, t), topic # t \/ ~Queued(s, t)
  PROVE  Once(s, t)'
<1>1. inbox[s] \in Seq(Topics)
  BY DEF NetTypeOK
<1>2. inbox'[s] = inbox[s] \/ inbox'[s] = Append(inbox[s], topic)
  BY DEF Publish
<1>3. CASE inbox'[s] = inbox[s]
  BY <1>3 DEF Once
<1>4. CASE inbox'[s] = Append(inbox[s], topic)
  <2>1. /\ Len(inbox[s]) \in Nat
        /\ Len(inbox'[s]) = Len(inbox[s]) + 1
        /\ \A i \in 1 .. Len(inbox[s]) : inbox'[s][i] = inbox[s][i]
        /\ inbox'[s][Len(inbox[s]) + 1] = topic
    BY <1>1, <1>4, AppendProperties
  <2>2. \A i \in 1 .. Len(inbox'[s]) : i \in 1 .. Len(inbox[s]) \/ i = Len(inbox[s]) + 1
    BY <2>1
  <2> QED
    BY <2>1, <2>2 DEF Once, Queued
<1> QED
  BY <1>2, <1>3, <1>4

LEMMA ReceiveOnce ==
  ASSUME NetTypeOK, NEW s \in Subscribers, inbox[s] # <<>>, Receive(s), NEW t, Once(s, t)
  PROVE  Once(s, t)' /\ (Head(inbox[s]) = t => ~Queued(s, t)')
<1>1. inbox[s] \in Seq(Topics) /\ inbox'[s] = Tail(inbox[s])
  BY DEF Receive, NetTypeOK
<1>2. /\ Len(inbox[s]) \in Nat \ {0}
      /\ Len(inbox'[s]) = Len(inbox[s]) - 1
      /\ \A i \in 1 .. Len(inbox'[s]) : inbox'[s][i] = inbox[s][i + 1]
      /\ Head(inbox[s]) = inbox[s][1]
  BY <1>1, HeadTailProperties, EmptySeq
<1>3. /\ 1 \in 1 .. Len(inbox[s])
      /\ \A i \in 1 .. Len(inbox'[s]) : i + 1 \in 1 .. Len(inbox[s]) /\ i + 1 # 1
  BY <1>2
<1>4. Once(s, t)'
  <2> SUFFICES ASSUME NEW i \in 1 .. Len(inbox'[s]), NEW j \in 1 .. Len(inbox'[s]),
                      inbox'[s][i] = t, inbox'[s][j] = t
               PROVE  i = j
    BY DEF Once
  <2>1. i + 1 = j + 1
    BY <1>2, <1>3 DEF Once
  <2> QED
    BY <2>1
<1>5. ASSUME Head(inbox[s]) = t, NEW i \in 1 .. Len(inbox'[s]), inbox'[s][i] = t
      PROVE  FALSE
  BY <1>2, <1>3, <1>5 DEF Once
<1> QED
  BY <1>4, <1>5 DEF Queued

(* StartProcesses is published once and served once.                       *)
Unlaunched(l) == \A w \in ChildrenOf(l) : wpc[w] = "none"

LaunchedOnce ==
  /\ cpc = "listeners" =>
       \A l \in Listeners : /\ lpc[l] \in {"hello", "req", "ready", "ended"}
                            /\ Unlaunched(l)
                            /\ ~Queued(l, "StartProcesses")
  /\ \A l \in Listeners :
       /\ Once(l, "StartProcesses")
       /\ Queued(l, "StartProcesses") \/ lpc[l] \in {"hello", "req"} => Unlaunched(l)
       /\ lpc[l] = "crashed" => \E w \in ChildrenOf(l) : wpc[w] = "none"

(* Publishing another topic does not disturb it.                           *)
LEMMA LaunchedOnceKept ==
  ASSUME TypeOK, LaunchedOnce, UNCHANGED <<lpc, wpc>>,
         cpc' = "listeners" => cpc = "listeners",
         UNCHANGED inbox \/ \E t \in Topics \ {"StartProcesses"} : Publish(t)
  PROVE  LaunchedOnce'
<1>1. ASSUME NEW l \in Listeners
      PROVE  /\ Queued(l, "StartProcesses")' => Queued(l, "StartProcesses")
             /\ Once(l, "StartProcesses")'
  <2>1. NetTypeOK /\ l \in Subscribers /\ Once(l, "StartProcesses")
    BY DEF TypeOK, Subscribers, LaunchedOnce
  <2>2. CASE UNCHANGED inbox
    BY <2>1, <2>2 DEF Queued, Once
  <2>3. ASSUME NEW t \in Topics, t # "StartProcesses", Publish(t)
        PROVE  /\ Queued(l, "StartProcesses")' => Queued(l, "StartProcesses")
               /\ Once(l, "StartProcesses")'
    BY <2>1, <2>3, PublishQueued, PublishOnce
  <2> QED
    BY <2>2, <2>3
<1> QED
  BY <1>1 DEF LaunchedOnce, Unlaunched, ChildrenOf

LEMMA LaunchedOnceStep ==
  ASSUME TypeOK, LaunchedOnce, [Next]_vars
  PROVE  LaunchedOnce'
<1>b. /\ NetTypeOK /\ Listeners \subseteq Subscribers
      /\ lpc \in [Listeners -> ListenerStates] /\ wpc \in [Workers -> WorkerStates]
  BY DEF TypeOK, ListenerTypeOK, WorkerTypeOK, Subscribers
<1>1. CASE ControllerTimesOut
  <2>1. UNCHANGED cpc /\ \E t \in Topics \ {"StartProcesses"} : Publish(t)
    BY <1>1 DEF ControllerTimesOut, ControllerTimeout, HelloListeners, HelloSockets,
                controllerVars, Topics, HelloTopics
  <2> QED
    BY <1>1, <2>1, LaunchedOnceKept, ControllerFrame
<1>2. CASE ControllerActs
  <2>1. CASE StartProcesses
    <3>1. cpc = "listeners" /\ cpc' = "workers" /\ Publish("StartProcesses")
      BY <2>1 DEF StartProcesses
    <3>2. \A l \in Listeners : Once(l, "StartProcesses")'
      BY <1>b, <3>1, PublishOnce DEF LaunchedOnce, Topics
    <3> QED
      BY <1>2, <3>1, <3>2, ControllerFrame DEF LaunchedOnce, Unlaunched, ChildrenOf
  <2>2. CASE ~StartProcesses
    <3>1. /\ cpc' = "listeners" => cpc = "listeners"
          /\ UNCHANGED inbox \/ \E t \in Topics \ {"StartProcesses"} : Publish(t)
      BY <1>2, <2>2
         DEF ControllerActs, ControllerStep, SyncListener, CollectFinished, SyncProcess, Topics,
             CollectResult, StartWebsockets, CollectDelimiter, End, netVars
    <3> QED
      BY <1>2, <3>1, LaunchedOnceKept, ControllerFrame
  <2> QED
    BY <2>1, <2>2
<1>3. ASSUME NEW k \in Listeners, ListenerActs(k)
      PROVE  LaunchedOnce'
  <2>0. UNCHANGED cpc /\ inbox[k] \in Seq(Topics)
    BY <1>3, <1>b, ListenerFrame DEF NetTypeOK
  <2>a. ASSUME NEW l \in Listeners
        PROVE  /\ Queued(l, "StartProcesses")' => Queued(l, "StartProcesses")
               /\ Once(l, "StartProcesses")'
    <3>1. Once(l, "StartProcesses")
      BY DEF LaunchedOnce
    <3>2. CASE inbox'[l] = inbox[l]
      BY <3>1, <3>2 DEF Queued, Once
    <3>3. CASE inbox'[l] # inbox[l]
      <4>1. l = k /\ inbox[k] # <<>> /\ Receive(k)
        BY <1>3, <1>b, <3>3, ListenerFrame
           DEF ListenerActs, ListenerStep, ListenerHello, ListenerSynced, ListenerRequest, Reap
      <4> QED
        BY <1>b, <3>1, <4>1, ReceiveQueued, ReceiveOnce
    <3> QED
      BY <3>2, <3>3
  <2>b. ASSUME NEW l \in Listeners, l # k
        PROVE  lpc'[l] = lpc[l] /\ Unlaunched(l)' = Unlaunched(l)
               /\ \A w \in ChildrenOf(l) : wpc'[w] = wpc[w]
    BY <1>3, <2>b, ListenerFrame DEF Unlaunched, ChildrenOf
  <2>c. ASSUME \A w \in ChildrenOf(k) : wpc'[w] = wpc[w], lpc'[k] # "crashed",
               lpc'[k] \in {"hello", "req"} => lpc[k] \in {"hello", "req"},
               cpc = "listeners" => lpc'[k] \in {"hello", "req", "ready", "ended"}
        PROVE  LaunchedOnce'
    <3>1. Unlaunched(k)' = Unlaunched(k)
      BY <2>c DEF Unlaunched, ChildrenOf
    <3> QED
      BY <2>0, <2>a, <2>b, <2>c, <3>1 DEF LaunchedOnce, ChildrenOf
  <2>1. CASE ListenerHello(k) \/ ListenerSynced(k)
    BY <1>b, <2>1, <2>c DEF ListenerHello, ListenerSynced, ChildrenOf, LaunchedOnce, workerVars
  <2>2. CASE ListenerRequest(k)
    <3>1. CASE Head(inbox[k]) = "StartProcesses"
      <4>1. Queued(k, "StartProcesses") /\ ~Queued(k, "StartProcesses")'
        <5>1. Len(inbox[k]) \in Nat \ {0} /\ Head(inbox[k]) = inbox[k][1]
          BY <2>0, <2>2, EmptySeq DEF ListenerRequest
        <5>2. Once(k, "StartProcesses")
          BY DEF LaunchedOnce
        <5> QED
          BY <1>b, <2>2, <3>1, <5>1, <5>2, ReceiveOnce DEF ListenerRequest, Queued
      <4>2. cpc # "listeners"
        BY <4>1 DEF LaunchedOnce
      <4>3. lpc'[k] \in {"reaping", "crashed"}
        BY <1>b, <2>2, <3>1 DEF ListenerRequest
      <4>4. lpc'[k] = "crashed" => \E w \in ChildrenOf(k) : wpc'[w] = "none"
        <5>1. SUFFICES ASSUME LaunchFails(k)
                       PROVE  \E w \in ChildrenOf(k) : wpc'[w] = "none"
          BY <1>b, <2>2, <3>1 DEF ListenerRequest
        <5>2. PICK n \in 0 .. Processes - 1 :
                wpc' = [w \in Workers |-> IF w[1] = k /\ w[2] < n THEN "hello" ELSE wpc[w]]
          BY <5>1 DEF LaunchFails
        <5>3. <<k, n>> \in ChildrenOf(k) /\ <<k, n>>[2] = n /\ wpc[<<k, n>>] = "none"
          BY <4>1 DEF LaunchedOnce, Unlaunched, ChildrenOf, Workers
        <5>4. wpc'[<<k, n>>] = "none"
          BY <5>2, <5>3 DEF ChildrenOf
        <5> QED
          BY <5>3, <5>4
      <4> QED
        BY <2>0, <2>a, <2>b, <4>1, <4>2, <4>3, <4>4 DEF LaunchedOnce, ChildrenOf
    <3>2. CASE Head(inbox[k]) # "StartProcesses"
      BY <1>b, <2>2, <2>c, <3>2 DEF ListenerRequest, ChildrenOf, LaunchedOnce
    <3> QED
      BY <3>1, <3>2
  <2>3. CASE Reap(k)
    <3>1. \A w \in ChildrenOf(k) : wpc[w] = "none" => wpc'[w] = "none"
      <4>1. PICK r \in WaitPid(k) :
              wpc' = [w \in Workers |-> IF w \in r.pid THEN "reaped" ELSE wpc[w]]
        BY <2>3 DEF Reap
      <4>2. \A w \in r.pid : wpc[w] = "exited"
        BY DEF WaitPid
      <4> QED
        BY <4>1, <4>2 DEF ChildrenOf
    <3>2. lpc'[k] \in {"reaping", "ready"} /\ cpc # "listeners"
      BY <1>b, <2>3 DEF Reap, LaunchedOnce
    <3>3. Queued(k, "StartProcesses")' => Unlaunched(k)'
      BY <2>a, <3>1 DEF LaunchedOnce, Unlaunched, ChildrenOf
    <3> QED
      BY <2>0, <2>a, <2>b, <3>2, <3>3 DEF LaunchedOnce, ChildrenOf
  <2> QED
    BY <1>3, <2>1, <2>2, <2>3 DEF ListenerActs, ListenerStep
<1>4. ASSUME NEW w \in Workers, WorkerActs(w) \/ WorkerDies(w)
      PROVE  LaunchedOnce'
  <2>1. \A l \in Listeners : inbox'[l] = inbox[l]
    BY <1>4, <1>b, WorkerFrame, NetworkAssumption
  <2>2. UNCHANGED <<lpc, cpc>> /\ \A v \in Workers : wpc'[v] = "none" <=> wpc[v] = "none"
    BY <1>4, WorkerFrame DEF Running
  <2> QED
    BY <2>1, <2>2 DEF LaunchedOnce, Unlaunched, ChildrenOf, Queued, Once
<1>5. CASE \/ \E k \in Listeners : ListenerSubscribes(k)
           \/ \E w \in Workers : WorkerSubscribes(w)
  BY <1>5, LaunchedOnceKept, SubscribeFrame
<1>6. CASE UNCHANGED vars
  BY <1>6, LaunchedOnceKept DEF vars, netVars, workerVars, listenerVars, controllerVars
<1> QED
  BY <1>1, <1>2, <1>3, <1>4, <1>5, <1>6 DEF Next, Stop

(* A listener launches what was not launched and reaps what has exited.    *)
LEMMA ListenerMoves ==
  ASSUME TypeOK, LaunchedOnce, NEW l \in Listeners, ListenerActs(l), NEW w \in Workers
  PROVE  \/ wpc'[w] = wpc[w]
         \/ wpc[w] = "exited" /\ wpc'[w] = "reaped"
         \/ wpc[w] = "none" /\ wpc'[w] = "hello"
<1>1. CASE ListenerHello(l) \/ ListenerSynced(l)
  BY <1>1 DEF ListenerHello, ListenerSynced, workerVars
<1>2. CASE ListenerRequest(l)
  <2>1. CASE Head(inbox[l]) = "StartProcesses"
    <3>1. Queued(l, "StartProcesses")
      <4>1. inbox[l] \in Seq(Topics) /\ inbox[l] # <<>>
        BY <1>2 DEF TypeOK, NetTypeOK, ListenerRequest, Subscribers
      <4>2. Len(inbox[l]) \in Nat \ {0} /\ Head(inbox[l]) = inbox[l][1]
        BY <4>1, EmptySeq
      <4> QED
        BY <2>1, <4>2 DEF Queued
    <3>2. w[1] = l => wpc[w] = "none"
      BY <3>1 DEF LaunchedOnce, Unlaunched, ChildrenOf
    <3>3. Launch(l) \/ LaunchFails(l)
      BY <1>2, <2>1 DEF ListenerRequest
    <3> QED
      BY <3>2, <3>3 DEF Launch, LaunchFails
  <2>2. CASE Head(inbox[l]) # "StartProcesses"
    BY <1>2, <2>2 DEF ListenerRequest
  <2> QED
    BY <2>1, <2>2
<1>3. CASE Reap(l)
  <2>1. PICK r \in WaitPid(l) :
          wpc' = [v \in Workers |-> IF v \in r.pid THEN "reaped" ELSE wpc[v]]
    BY <1>3 DEF Reap
  <2>2. \A v \in r.pid : wpc[v] = "exited"
    BY DEF WaitPid
  <2> QED
    BY <2>1, <2>2
<1> QED
  BY <1>1, <1>2, <1>3 DEF ListenerActs, ListenerStep

-----------------------------------------------------------------------------
(* The handshake of the workers, the same argument as for the listeners:   *)
(* a worker that has seen HELLO_SOCKET is subscribed to StartWebsockets;   *)
(* and the controller counts it once, when it takes its request.           *)
WorkerHandshake ==
  \A w \in Workers :
    /\ wpc[w] \in {"req", "ready", "working"} \/ Queued(w, "HELLO_SOCKET") => subs[w] = 2
    /\ w \in procReq => wpc[w] \in {"req", "exited", "reaped"} /\ w \notin counted
    /\ w \in procRep => wpc[w] \in {"req", "exited", "reaped"}
    /\ w \in counted => wpc[w] \notin {"none", "hello"}
    /\ (wpc[w] = "req" /\ w \in procRep) \/ wpc[w] \in {"ready", "working"} => w \in counted

LEMMA WorkerSubscribed ==
  ASSUME NEW w \in Workers, NetTypeOK
  PROVE  /\ Subscribed(w, "HELLO_SOCKET") => subs[w] = 2
         /\ subs[w] = 2 => Delivered(w, "StartWebsockets")
         /\ subs[w] \in 0 .. 2
<1>1. Subscriptions(w) = <<"StartWebsockets", "HELLO_SOCKET">>
  BY NetworkAssumption DEF Subscriptions, WorkerSubscriptions
<1>2. subs[w] \in Nat /\ subs[w] <= 2
  <2>1. w \in Subscribers /\ Len(Subscriptions(w)) = 2
    BY <1>1 DEF Subscribers
  <2> QED
    BY <2>1 DEF NetTypeOK
<1>3. Subscriptions(w)[1] = "StartWebsockets" /\ Subscriptions(w)[2] = "HELLO_SOCKET"
  BY <1>1
<1>4. Subscribed(w, "HELLO_SOCKET") => subs[w] = 2
  <2> SUFFICES ASSUME NEW i \in 1 .. subs[w], Subscriptions(w)[i] = "HELLO_SOCKET"
               PROVE  subs[w] = 2
    BY DEF Subscribed
  <2>1. i = 1 \/ i = 2
    BY <1>2
  <2> QED
    BY <1>2, <1>3, <2>1
<1>5. subs[w] = 2 => Delivered(w, "StartWebsockets")
  BY <1>3 DEF Subscribed, Delivered, HelloTopics
<1> QED
  BY <1>2, <1>4, <1>5

LEMMA WorkerHandshakeStep ==
  ASSUME TypeOK, LaunchedOnce, WorkerHandshake, [Next]_vars
  PROVE  WorkerHandshake'
<1> DEFINE H(w) == Queued(w, "HELLO_SOCKET")
           OK(w) ==
             /\ wpc[w] \in {"req", "ready", "working"} \/ H(w) => subs[w] = 2
             /\ w \in procReq => wpc[w] \in {"req", "exited", "reaped"} /\ w \notin counted
             /\ w \in procRep => wpc[w] \in {"req", "exited", "reaped"}
             /\ w \in counted => wpc[w] \notin {"none", "hello"}
             /\ (wpc[w] = "req" /\ w \in procRep) \/ wpc[w] \in {"ready", "working"} => w \in counted
<1> SUFFICES ASSUME NEW w \in Workers
             PROVE  OK(w)'
  BY DEF WorkerHandshake
<1>a. OK(w)
  BY DEF WorkerHandshake
<1>b. NetTypeOK /\ w \in Subscribers /\ w \notin Listeners /\ wpc \in [Workers -> WorkerStates]
  BY NetworkAssumption DEF TypeOK, WorkerTypeOK, Subscribers
<1>1. CASE ControllerActs \/ ControllerTimesOut
  <2>1. UNCHANGED <<wpc, subs>>
    BY <1>1, ControllerFrame
  <2>2. H(w)' => subs[w] = 2
    <3>1. UNCHANGED inbox \/ \E t \in Topics : Publish(t)
      BY <1>1
         DEF ControllerActs, ControllerTimesOut, ControllerTimeout, HelloListeners, HelloSockets,
             ControllerStep, SyncListener, CollectFinished, SyncProcess, CollectResult, Topics,
             HelloTopics, StartProcesses, StartWebsockets, CollectDelimiter, End, netVars
    <3>2. CASE UNCHANGED inbox
      BY <1>a, <3>2 DEF Queued
    <3>3. ASSUME NEW t \in Topics, Publish(t), H(w)'
          PROVE  subs[w] = 2
      <4>1. H(w) \/ (t = "HELLO_SOCKET" /\ Delivered(w, t))
        BY <1>b, <3>3, PublishQueued
      <4> QED
        BY <1>a, <1>b, <4>1, WorkerSubscribed DEF Delivered
    <3> QED
      BY <3>1, <3>2, <3>3
  <2>3. CASE UNCHANGED <<procReq, procRep, counted>>
    BY <1>a, <2>1, <2>2, <2>3
  <2>4. ASSUME NEW v \in Workers, SyncProcess(v)
        PROVE  OK(w)'
    BY <1>a, <2>1, <2>2, <2>4 DEF SyncProcess
  <2> QED
    BY <1>1, <2>3, <2>4
       DEF ControllerActs, ControllerTimesOut, ControllerTimeout, HelloListeners, HelloSockets,
           ControllerStep, SyncListener, CollectFinished, CollectResult, controllerVars,
           StartProcesses, StartWebsockets, CollectDelimiter, End, netVars
<1>2. ASSUME NEW l \in Listeners, ListenerActs(l)
      PROVE  OK(w)'
  <2>1. UNCHANGED <<subs, procReq, procRep, counted>> /\ H(w)' = H(w)
    BY <1>2, <1>b, ListenerFrame DEF Queued
  <2>2. \/ wpc'[w] = wpc[w]
        \/ wpc[w] = "exited" /\ wpc'[w] = "reaped"
        \/ wpc[w] = "none" /\ wpc'[w] = "hello"
    BY <1>2, ListenerMoves
  <2> QED
    BY <1>a, <2>1, <2>2
<1>3. ASSUME NEW v \in Workers, WorkerActs(v) \/ WorkerDies(v), v # w
      PROVE  OK(w)'
  <2>1. /\ subs'[w] = subs[w] /\ inbox'[w] = inbox[w] /\ wpc'[w] = wpc[w] /\ UNCHANGED counted
        /\ (w \in procReq' <=> w \in procReq) /\ (w \in procRep' <=> w \in procRep)
    BY <1>3, <1>b, WorkerFrame
  <2> QED
    BY <1>a, <2>1 DEF Queued
<1>4. CASE WorkerActs(w) \/ WorkerDies(w)
  <2>0. UNCHANGED counted
    BY <1>4, WorkerFrame
  <2>1. CASE WorkerHello(w)
    <3>1. H(w)' => H(w)
      BY <1>b, <2>1, ReceiveQueued DEF WorkerHello
    <3>2. Head(inbox[w]) = "HELLO_SOCKET" => H(w)
      <4>1. inbox[w] \in Seq(Topics) /\ inbox[w] # <<>>
        BY <1>b, <2>1 DEF NetTypeOK, WorkerHello
      <4>2. Len(inbox[w]) \in Nat \ {0} /\ Head(inbox[w]) = inbox[w][1]
        BY <4>1, EmptySeq
      <4> QED
        BY <4>2 DEF Queued
    <3>3. UNCHANGED <<subs, procRep>> /\ wpc[w] = "hello"
      BY <2>1 DEF WorkerHello
    <3>4. CASE Head(inbox[w]) = "HELLO_SOCKET"
      <4>1. wpc'[w] = "req" /\ procReq' = procReq \cup {w}
        BY <1>b, <2>1, <3>4 DEF WorkerHello
      <4> QED
        BY <1>a, <2>0, <3>1, <3>2, <3>3, <3>4, <4>1
    <3>5. CASE Head(inbox[w]) # "HELLO_SOCKET"
      <4>1. UNCHANGED <<wpc, procReq>>
        BY <2>1, <3>5 DEF WorkerHello
      <4> QED
        BY <1>a, <2>0, <3>1, <3>3, <4>1
    <3> QED
      BY <3>4, <3>5
  <2>2. CASE WorkerSynced(w)
    BY <1>a, <1>b, <2>0, <2>2 DEF WorkerSynced, Queued
  <2>3. CASE WorkerRequest(w)
    <3>1. H(w)' => H(w)
      BY <1>b, <2>3, ReceiveQueued DEF WorkerRequest
    <3> QED
      BY <1>a, <1>b, <2>0, <2>3, <3>1 DEF WorkerRequest
  <2>4. CASE SendResult(w)
    BY <1>a, <2>0, <2>4 DEF SendResult, Queued
  <2>5. CASE WorkerReturns(w) \/ WorkerKilled(w)
    <3>1. Exit(w, "0") \/ Exit(w, "nonzero")
      BY <2>5 DEF WorkerReturns, WorkerKilled
    <3>2. wpc'[w] = "exited" /\ inbox'[w] = <<>> /\ w \notin procRep'
      BY <1>b, <3>1 DEF Exit, NetTypeOK
    <3>3. ~H(w)' /\ (w \in procReq' => w \in procReq)
      BY <2>5, <3>2, EmptySeq DEF WorkerReturns, WorkerKilled, Queued
    <3> QED
      BY <1>a, <2>0, <3>2, <3>3
  <2> QED
    BY <1>4, <2>1, <2>2, <2>3, <2>4, <2>5 DEF WorkerActs, WorkerDies, WorkerStep
<1>5. CASE \/ \E k \in Listeners : ListenerSubscribes(k)
           \/ \E v \in Workers : WorkerSubscribes(v)
  <2>1. UNCHANGED <<inbox, wpc, procReq, procRep, counted>>
    BY <1>5, SubscribeFrame
  <2>2. subs[w] = 2 => subs'[w] = 2
    <3>1. PICK s \in Subscribers : Subscribe(s)
      BY <1>5 DEF ListenerSubscribes, WorkerSubscribes, Subscribers
    <3>2. Len(Subscriptions(w)) = 2
      BY <1>b DEF Subscriptions, WorkerSubscriptions
    <3>3. CASE s = w
      BY <3>1, <3>2, <3>3 DEF Subscribe
    <3>4. CASE s # w
      BY <1>b, <3>1, <3>4 DEF Subscribe, NetTypeOK
    <3> QED
      BY <3>3, <3>4
  <2> QED
    BY <1>a, <2>1, <2>2 DEF Queued
<1>6. CASE UNCHANGED vars
  BY <1>a, <1>6 DEF vars, netVars, workerVars, controllerVars, Queued
<1> QED
  BY <1>1, <1>2, <1>3, <1>4, <1>5, <1>6 DEF Next, Stop

-----------------------------------------------------------------------------
(* What the two counters of the controller count.                          *)
CountedListeners == {l \in Listeners : Synced(l) \/ lpc[l] = "crashed"}

Counts ==
  /\ Cardinality(CountedListeners) = subscribers
  /\ Cardinality(counted) = processes
  /\ cpc # "listeners" => subscribers = Machines
  /\ cpc \in {"collect", "ended"} => processes = Clients

LEMMA CountsStep ==
  ASSUME TypeOK, Handshake, WorkerHandshake, Counts, [Next]_vars
  PROVE  Counts'
<1>a. /\ subscribers \in 0 .. Machines /\ processes \in 0 .. Clients /\ counted \in SUBSET Workers
      /\ lpc \in [Listeners -> ListenerStates]
      /\ CountedListeners \in SUBSET Listeners
      /\ Machines \in Nat /\ Clients \in Nat
  BY NetworkAssumption DEF TypeOK, ControllerTypeOK, ListenerTypeOK, CountedListeners, Clients
<1>b. IsFiniteSet(CountedListeners) /\ IsFiniteSet(counted)
  BY <1>a, NetworkAssumption, FS_Subset, FiniteWorkers
<1>c. ASSUME UNCHANGED <<subscribers, processes, cpc, counted>>,
             \A l \in Listeners : l \in CountedListeners' <=> l \in CountedListeners
      PROVE  Counts'
  <2>1. CountedListeners' = CountedListeners
    BY <1>c DEF CountedListeners
  <2> QED
    BY <1>c, <2>1 DEF Counts
<1>1. CASE ControllerActs
  <2>0. UNCHANGED lpc
    BY <1>1, ControllerFrame
  <2>1. ASSUME NEW l \in Listeners, SyncListener(l)
        PROVE  Counts'
    <3>1. l \notin CountedListeners
      BY <2>1 DEF SyncListener, Handshake, CountedListeners, Synced
    <3>2. CountedListeners' = CountedListeners \cup {l}
      BY <2>0, <2>1 DEF SyncListener, CountedListeners, Synced
    <3>3. Cardinality(CountedListeners') = Cardinality(CountedListeners) + 1
      BY <1>b, <3>1, <3>2, FS_AddElement
    <3> QED
      BY <2>1, <3>3 DEF SyncListener, Counts
  <2>2. ASSUME NEW w \in Workers, SyncProcess(w)
        PROVE  Counts'
    <3>1. w \notin counted /\ counted' = counted \cup {w}
      BY <2>2 DEF SyncProcess, WorkerHandshake
    <3>2. Cardinality(counted') = Cardinality(counted) + 1
      BY <1>b, <3>1, FS_AddElement
    <3>3. CountedListeners' = CountedListeners
      BY <2>0, <2>2 DEF SyncProcess, CountedListeners, Synced
    <3> QED
      BY <2>2, <3>2, <3>3 DEF SyncProcess, Counts
  <2>3. CASE StartProcesses \/ StartWebsockets \/ End
    <3>1. CountedListeners' = CountedListeners /\ UNCHANGED <<subscribers, processes, counted>>
      BY <2>0, <2>3 DEF StartProcesses, StartWebsockets, End, CountedListeners, Synced
    <3> QED
      BY <1>a, <2>3, <3>1 DEF StartProcesses, StartWebsockets, End, Counts
  <2>4. CASE \/ \E l \in Listeners : CollectFinished(l)
             \/ \E w \in Workers : CollectResult(w)
             \/ CollectDelimiter
    BY <1>c, <2>0, <2>4 DEF CollectFinished, CollectResult, CollectDelimiter, netVars,
                            CountedListeners, Synced
  <2> QED
    BY <1>1, <2>1, <2>2, <2>3, <2>4 DEF ControllerActs, ControllerStep
<1>2. CASE ControllerTimesOut
  BY <1>2, <1>c DEF ControllerTimesOut, ControllerTimeout, HelloListeners, HelloSockets,
                    controllerVars, listenerVars, CountedListeners, Synced
<1>3. ASSUME NEW k \in Listeners, ListenerActs(k)
      PROVE  Counts'
  <2>1. k \in CountedListeners' <=> k \in CountedListeners
    <3>1. CASE ListenerHello(k)
      <4>1. lpc[k] = "hello" /\ k \notin syncRep /\ k \notin syncRep' /\ lpc'[k] \in {"hello", "req"}
        BY <1>a, <3>1 DEF ListenerHello, Handshake
      <4> QED
        BY <4>1 DEF CountedListeners, Synced
    <3>2. CASE ListenerSynced(k)
      BY <1>a, <3>2 DEF ListenerSynced, CountedListeners, Synced
    <3>3. CASE ListenerRequest(k)
      <4>1. lpc[k] = "ready" /\ lpc'[k] \in {"ready", "ended", "reaping", "crashed"}
        BY <1>a, <3>3 DEF ListenerRequest
      <4> QED
        BY <4>1 DEF CountedListeners, Synced
    <3>4. CASE Reap(k)
      BY <1>a, <3>4 DEF Reap, CountedListeners, Synced
    <3> QED
      BY <1>3, <3>1, <3>2, <3>3, <3>4 DEF ListenerActs, ListenerStep
  <2> QED
    BY <1>3, <1>c, <2>1, ListenerFrame DEF CountedListeners, Synced
<1>4. ASSUME NEW w \in Workers, WorkerActs(w) \/ WorkerDies(w)
      PROVE  Counts'
  BY <1>4, <1>c, WorkerFrame DEF CountedListeners, Synced
<1>5. CASE \/ \E k \in Listeners : ListenerSubscribes(k)
           \/ \E v \in Workers : WorkerSubscribes(v)
  BY <1>5, <1>c, SubscribeFrame DEF CountedListeners, Synced
<1>6. CASE UNCHANGED vars
  BY <1>6, <1>c DEF vars, netVars, listenerVars, controllerVars, CountedListeners, Synced
<1> QED
  BY <1>1, <1>2, <1>3, <1>4, <1>5, <1>6 DEF Next, Stop

(* Once the barrier is open, the workers that were launched are those that *)
(* were counted, and every listener that was counted has launched all its. *)
Assembled ==
  cpc \in {"collect", "ended"} =>
    /\ {w \in Workers : wpc[w] # "none"} = counted
    /\ \A l \in CountedListeners : ChildrenOf(l) \subseteq counted
    /\ Cardinality(counted) = Clients
    /\ \A w \in Workers : wpc[w] # "hello"

(* The heart of the barrier.  A counted worker is a child of a counted     *)
(* listener; there are Machines of those, with Processes children each; so *)
(* that Machines * Processes counted workers are all the workers there are.*)
LEMMA EveryoneCounted ==
  ASSUME TypeOK, LaunchedOnce, WorkerHandshake, Counts
  PROVE  Assembled
<1> SUFFICES ASSUME cpc \in {"collect", "ended"}
             PROVE  /\ {w \in Workers : wpc[w] # "none"} = counted
                    /\ \A l \in CountedListeners : ChildrenOf(l) \subseteq counted
                    /\ Cardinality(counted) = Clients
                    /\ \A w \in Workers : wpc[w] # "hello"
  BY DEF Assembled
<1> DEFINE All == CountedListeners \X (0 .. Processes - 1)
<1>1. CountedListeners \in SUBSET Listeners /\ IsFiniteSet(CountedListeners)
  BY NetworkAssumption, FS_Subset DEF CountedListeners
<1>2. IsFiniteSet(0 .. Processes - 1) /\ Cardinality(0 .. Processes - 1) = Processes
  BY NetworkAssumption, FS_Interval
<1>3. IsFiniteSet(All) /\ Cardinality(All) = Cardinality(CountedListeners) * Processes
  BY <1>1, <1>2, FS_Product
<1>4. Cardinality(All) = Clients /\ Cardinality(counted) = Clients
  BY <1>3 DEF Counts, Clients
<1>5. ASSUME NEW w \in Workers, wpc[w] # "none"
      PROVE  w \in All
  <2>1. w[1] \in Listeners /\ w \in ChildrenOf(w[1]) /\ w = <<w[1], w[2]>> /\ w[2] \in 0 .. Processes - 1
    BY DEF Workers, ChildrenOf
  <2>2. lpc[w[1]] \notin {"hello", "req"}
    BY <1>5, <2>1 DEF LaunchedOnce, Unlaunched
  <2>3. w[1] \in CountedListeners
    BY <2>1, <2>2 DEF CountedListeners, Synced, TypeOK, ListenerTypeOK, ListenerStates
  <2> QED
    BY <2>1, <2>3
<1>6. counted \in SUBSET All
  BY <1>5 DEF WorkerHandshake, TypeOK, ControllerTypeOK
<1>7. counted = All
  BY <1>3, <1>4, <1>6, FS_Subset
<1>8. \A w \in counted : w \in Workers /\ wpc[w] # "none"
  BY DEF WorkerHandshake, TypeOK, ControllerTypeOK
<1>9. \A l \in CountedListeners : ChildrenOf(l) \subseteq All
  BY <1>1, Brood
<1>10. \A w \in Workers : wpc[w] # "hello"
  BY <1>5, <1>7 DEF WorkerHandshake
<1> QED
  BY <1>4, <1>5, <1>7, <1>8, <1>9, <1>10

-----------------------------------------------------------------------------
(* Nothing of the run happens before the barrier opens.                    *)
NotBefore ==
  cpc \in {"listeners", "workers"} =>
    \A w \in Workers : /\ wpc[w] # "working" /\ resultQ[w] = <<>>
                       /\ ~Queued(w, "StartWebsockets")

LEMMA NotBeforeStep ==
  ASSUME TypeOK, LaunchedOnce, NotBefore, [Next]_vars
  PROVE  NotBefore'
<1> SUFFICES ASSUME cpc' \in {"listeners", "workers"}, NEW w \in Workers
             PROVE  /\ wpc'[w] # "working" /\ resultQ'[w] = <<>>
                    /\ ~Queued(w, "StartWebsockets")'
  BY DEF NotBefore
<1> DEFINE Q == Queued(w, "StartWebsockets")
<1>a. cpc \in {"listeners", "workers"} => wpc[w] # "working" /\ resultQ[w] = <<>> /\ ~Q
  BY DEF NotBefore
<1>b. NetTypeOK /\ w \in Subscribers /\ w \notin Listeners /\ wpc \in [Workers -> WorkerStates]
  BY NetworkAssumption DEF TypeOK, WorkerTypeOK, Subscribers
<1>1. CASE ControllerActs \/ ControllerTimesOut
  <2>1. /\ cpc \in {"listeners", "workers"} /\ UNCHANGED <<wpc, resultQ>>
        /\ UNCHANGED inbox \/ \E t \in Topics \ {"StartWebsockets"} : Publish(t)
    BY <1>1
       DEF ControllerActs, ControllerTimesOut, ControllerTimeout, HelloListeners, HelloSockets,
           ControllerStep, SyncListener, CollectFinished, SyncProcess, CollectResult, Topics,
           HelloTopics, StartProcesses, StartWebsockets, CollectDelimiter, End, netVars,
           workerVars, controllerVars, Collecting
  <2>2. Q' => Q
    <3>1. CASE UNCHANGED inbox
      BY <3>1 DEF Queued
    <3>2. CASE \E t \in Topics \ {"StartWebsockets"} : Publish(t)
      BY <1>b, <3>2, PublishQueued
    <3> QED
      BY <2>1, <3>1, <3>2
  <2> QED
    BY <1>a, <2>1, <2>2
<1>2. ASSUME NEW l \in Listeners, ListenerActs(l)
      PROVE  wpc'[w] # "working" /\ resultQ'[w] = <<>> /\ ~Q'
  <2>1. UNCHANGED <<cpc, resultQ>> /\ inbox'[w] = inbox[w]
    BY <1>2, <1>b, ListenerFrame
  <2>2. wpc'[w] = "working" => wpc[w] = "working"
    BY <1>2, ListenerMoves
  <2> QED
    BY <1>a, <2>1, <2>2 DEF Queued
<1>3. ASSUME NEW v \in Workers, WorkerActs(v) \/ WorkerDies(v), v # w
      PROVE  wpc'[w] # "working" /\ resultQ'[w] = <<>> /\ ~Q'
  BY <1>3, <1>a, <1>b, WorkerFrame DEF Queued
<1>4. CASE WorkerActs(w) \/ WorkerDies(w)
  <2>0. wpc[w] # "working" /\ resultQ[w] = <<>> /\ ~Q
    BY <1>4, <1>a, WorkerFrame
  <2>1. CASE WorkerHello(w)
    <3>1. Q' => Q
      BY <1>b, <2>1, ReceiveQueued DEF WorkerHello
    <3> QED
      BY <1>b, <2>0, <2>1, <3>1 DEF WorkerHello
  <2>2. CASE WorkerSynced(w)
    BY <1>b, <2>0, <2>2 DEF WorkerSynced, Queued
  <2>3. CASE WorkerRequest(w)
    <3>1. Q' => Q
      BY <1>b, <2>3, ReceiveQueued DEF WorkerRequest
    <3>2. Head(inbox[w]) # "StartWebsockets"
      <4>1. inbox[w] \in Seq(Topics) /\ inbox[w] # <<>>
        BY <1>b, <2>3 DEF NetTypeOK, WorkerRequest
      <4>2. Len(inbox[w]) \in Nat \ {0} /\ Head(inbox[w]) = inbox[w][1]
        BY <4>1, EmptySeq
      <4> QED
        BY <2>0, <4>2 DEF Queued
    <3> QED
      BY <1>b, <2>0, <2>3, <3>1, <3>2 DEF WorkerRequest
  <2>4. CASE WorkerKilled(w)
    <3>1. wpc'[w] = "exited" /\ inbox'[w] = <<>>
      BY <1>b, <2>4 DEF WorkerKilled, Exit, NetTypeOK
    <3>2. resultQ'[w] = <<>>
      <4>1. PICK n \in 0 .. Len(resultQ[w]) : resultQ' = [resultQ EXCEPT ![w] = SubSeq(@, 1, n)]
        BY <2>4 DEF WorkerKilled
      <4>2. resultQ'[w] = SubSeq(resultQ[w], 1, n) /\ resultQ[w] \in Seq(Outcomes)
        BY <1>b, <4>1 DEF NetTypeOK
      <4>3. n = 0
        BY <2>0, EmptySeq
      <4>4. SubSeq(resultQ[w], 1, 0) = <<>>
        BY <4>2, SubSeqProperties, EmptySeq
      <4> QED
        BY <4>2, <4>3, <4>4
    <3> QED
      BY <3>1, <3>2, EmptySeq DEF Queued
  <2> QED
    BY <1>4, <2>0, <2>1, <2>2, <2>3, <2>4
       DEF WorkerActs, WorkerDies, WorkerStep, SendResult, WorkerReturns
<1>5. CASE \/ \E k \in Listeners : ListenerSubscribes(k)
           \/ \E v \in Workers : WorkerSubscribes(v)
  BY <1>5, <1>a, SubscribeFrame DEF Queued
<1>6. CASE UNCHANGED vars
  BY <1>6, <1>a DEF vars, netVars, workerVars, controllerVars, Queued
<1> QED
  BY <1>1, <1>2, <1>3, <1>4, <1>5, <1>6 DEF Next, Stop

-----------------------------------------------------------------------------
(* All that the barrier rests on.                                          *)
BarrierInv == Handshake /\ LaunchedOnce /\ WorkerHandshake /\ Counts /\ NotBefore

LEMMA BarrierInvInit ==
  Init => BarrierInv
<1> SUFFICES ASSUME Init PROVE BarrierInv
  OBVIOUS
<1> USE DEF Init, NetInit, WorkerInit, ListenerInit, ControllerInit, CountersInit
<1>1. \A s \in Subscribers : inbox[s] = <<>> /\ Len(inbox[s]) = 0
  OBVIOUS
<1>2. \A s \in Subscribers : \A t : ~Queued(s, t) /\ Once(s, t)
  BY <1>1 DEF Queued, Once
<1>3. Handshake
  BY <1>2 DEF Handshake, Subscribers
<1>4. LaunchedOnce
  BY <1>2 DEF LaunchedOnce, Unlaunched, ChildrenOf, Subscribers
<1>5. WorkerHandshake
  BY <1>2 DEF WorkerHandshake, Subscribers
<1>6. Counts
  <2>1. CountedListeners = {}
    BY DEF CountedListeners, Synced
  <2> QED
    BY <2>1, FS_EmptySet DEF Counts
<1>7. NotBefore
  BY <1>2 DEF NotBefore, Subscribers
<1> QED
  BY <1>3, <1>4, <1>5, <1>6, <1>7 DEF BarrierInv

LEMMA BarrierInvStep ==
  TypeOK /\ BarrierInv /\ [Next]_vars => BarrierInv'
BY HandshakeStep, LaunchedOnceStep, WorkerHandshakeStep, CountsStep, NotBeforeStep DEF BarrierInv

(* Whatever is counted, lost, killed or late: the invariant holds in every *)
(* reachable state.                                                        *)
THEOREM BarrierCorrect == Spec => [](TypeOK /\ BarrierInv /\ Assembled)
<1>1. TypeOK /\ BarrierInv => Assembled
  BY EveryoneCounted DEF BarrierInv
<1> QED
  BY <1>1, BarrierInvInit, BarrierInvStep, TypeCorrect, PTL DEF Spec

LEMMA NoMissedStartStep ==
  ASSUME TypeOK, BarrierInv, Assembled', NoMissedStart, [Next]_vars
  PROVE  NoMissedStart'
<1> SUFFICES ASSUME cpc' \in {"collect", "ended"}, NEW w \in Workers
             PROVE  /\ wpc'[w] # "hello"
                    /\ wpc'[w] \in {"req", "ready"} => Queued(w, "StartWebsockets")'
  BY DEF NoMissedStart
<1> DEFINE Q == Queued(w, "StartWebsockets")
<1>1. wpc'[w] # "hello"
  BY DEF Assembled
<1>2. ASSUME wpc'[w] \in {"req", "ready"}
      PROVE  Q'
  <2>a. NetTypeOK /\ w \in Subscribers /\ w \notin Listeners /\ wpc \in [Workers -> WorkerStates]
    BY NetworkAssumption DEF TypeOK, WorkerTypeOK, Subscribers
  <2>b. cpc \in {"collect", "ended"} => wpc[w] # "hello" /\ (wpc[w] \in {"req", "ready"} => Q)
    BY DEF NoMissedStart
  <2>1. CASE (ControllerActs \/ ControllerTimesOut) /\ StartWebsockets
    <3>1. UNCHANGED wpc /\ Publish("StartWebsockets")
      BY <2>1, ControllerFrame DEF StartWebsockets
    <3>2. Delivered(w, "StartWebsockets")
      BY <1>2, <2>a, <3>1, WorkerSubscribed DEF BarrierInv, WorkerHandshake
    <3> QED
      BY <2>a, <3>1, <3>2, PublishQueued DEF Topics
  <2>2. CASE (ControllerActs \/ ControllerTimesOut) /\ ~StartWebsockets
    <3>1. /\ cpc \in {"collect", "ended"} /\ UNCHANGED wpc
          /\ UNCHANGED inbox \/ \E t \in Topics : Publish(t)
      BY <2>2
         DEF ControllerActs, ControllerTimesOut, ControllerTimeout, HelloListeners, HelloSockets,
             ControllerStep, SyncListener, CollectFinished, SyncProcess, CollectResult, Topics,
             HelloTopics, StartProcesses, CollectDelimiter, End, netVars, workerVars,
             controllerVars, Collecting
    <3>2. Q
      BY <1>2, <2>b, <3>1
    <3>3. CASE UNCHANGED inbox
      BY <3>2, <3>3 DEF Queued
    <3>4. CASE \E t \in Topics : Publish(t)
      BY <2>a, <3>2, <3>4, PublishQueued
    <3> QED
      BY <3>1, <3>3, <3>4
  <2>3. ASSUME NEW l \in Listeners, ListenerActs(l)
        PROVE  Q'
    <3>1. UNCHANGED cpc /\ inbox'[w] = inbox[w]
      BY <2>3, <2>a, ListenerFrame
    <3>2. wpc'[w] = wpc[w]
      BY <1>2, <2>3, ListenerMoves DEF BarrierInv
    <3> QED
      BY <1>2, <2>b, <3>1, <3>2 DEF Queued
  <2>4. ASSUME NEW v \in Workers, WorkerActs(v) \/ WorkerDies(v), v # w
        PROVE  Q'
    BY <1>2, <2>4, <2>a, <2>b, WorkerFrame DEF Queued
  <2>5. CASE WorkerActs(w) \/ WorkerDies(w)
    <3>0. UNCHANGED cpc
      BY <2>5, WorkerFrame
    <3>1. CASE WorkerHello(w)
      BY <2>b, <3>0, <3>1 DEF WorkerHello
    <3>2. CASE WorkerSynced(w)
      BY <2>b, <3>0, <3>2 DEF WorkerSynced, Queued
    <3>3. CASE WorkerRequest(w)
      <4>1. Head(inbox[w]) # "StartWebsockets" /\ wpc[w] = "ready"
        BY <1>2, <2>a, <3>3 DEF WorkerRequest
      <4> QED
        BY <2>a, <2>b, <3>0, <3>3, <4>1, ReceiveQueued DEF WorkerRequest
    <3>4. CASE SendResult(w)
      BY <1>2, <3>4 DEF SendResult
    <3>5. CASE WorkerReturns(w) \/ WorkerKilled(w)
      BY <1>2, <2>a, <3>5 DEF WorkerReturns, WorkerKilled, Exit
    <3> QED
      BY <2>5, <3>1, <3>2, <3>3, <3>4, <3>5 DEF WorkerActs, WorkerDies, WorkerStep
  <2>6. CASE \/ \E k \in Listeners : ListenerSubscribes(k)
             \/ \E v \in Workers : WorkerSubscribes(v)
    BY <1>2, <2>6, <2>b, SubscribeFrame DEF Queued
  <2>7. CASE UNCHANGED vars
    BY <1>2, <2>7, <2>b DEF vars, netVars, workerVars, controllerVars, Queued
  <2> QED
    BY <2>1, <2>2, <2>3, <2>4, <2>5, <2>6, <2>7 DEF Next, Stop
<1> QED
  BY <1>1, <1>2

(* No worker misses StartWebsockets, however the HELLO_SOCKET messages,    *)
(* requests and deaths interleave: when it is published every launched     *)
(* worker has been counted, and a counted worker is subscribed to it.      *)
THEOREM StartReachesWorkers == Spec => []NoMissedStart
<1>1. Init => NoMissedStart
  BY DEF Init, ControllerInit, CountersInit, NoMissedStart
<1>2. TypeOK /\ BarrierInv /\ NoMissedStart /\ [Next]_vars /\ Assembled' => NoMissedStart'
  BY NoMissedStartStep
<1> QED
  BY <1>1, <1>2, BarrierCorrect, PTL DEF Spec

(* No client runs on an incomplete testbed: a listener that crashed half   *)
(* way leaves a child unlaunched, a worker that died before its request is *)
(* launched and never counted.  Either way the count of workers does not   *)
(* reach Machines * Processes and the controller stays in its second loop. *)
THEOREM IncompleteNeverStarts == Spec => []NoPartialTest
<1>1. TypeOK /\ BarrierInv /\ Assembled => NoPartialTest
  <2> SUFFICES ASSUME TypeOK, BarrierInv, Assembled, LaunchFailed \/ EarlyDeath
               PROVE  /\ cpc = "workers"
                      /\ \A w \in Workers : wpc[w] # "working" /\ resultQ[w] = <<>>
    BY DEF NoPartialTest
  <2>1. cpc \notin {"listeners", "collect", "ended"}
    <3>1. CASE LaunchFailed
      <4>1. PICK l \in Listeners : lpc[l] = "crashed"
        BY <3>1 DEF LaunchFailed
      <4>2. PICK c \in ChildrenOf(l) : wpc[c] = "none"
        BY <4>1 DEF BarrierInv, LaunchedOnce
      <4>3. c \notin counted
        BY <4>2 DEF BarrierInv, WorkerHandshake, ChildrenOf
      <4>4. cpc \notin {"collect", "ended"}
        BY <4>1, <4>2, <4>3 DEF Assembled, CountedListeners
      <4>5. cpc # "listeners"
        BY <4>1 DEF BarrierInv, LaunchedOnce
      <4> QED
        BY <4>4, <4>5
    <3>2. CASE EarlyDeath
      <4>1. PICK w \in Workers : wpc[w] \in {"exited", "reaped"} /\ w \notin counted
        BY <3>2 DEF EarlyDeath
      <4>2. cpc \notin {"collect", "ended"}
        BY <4>1 DEF Assembled
      <4>3. w[1] \in Listeners /\ w \in ChildrenOf(w[1])
        BY <4>1 DEF ChildrenOf, Workers
      <4>4. cpc # "listeners"
        BY <4>1, <4>3 DEF BarrierInv, LaunchedOnce, Unlaunched
      <4> QED
        BY <4>2, <4>4
    <3> QED
      BY <3>1, <3>2
  <2>2. cpc = "workers"
    BY <2>1 DEF TypeOK, ControllerTypeOK, ControllerStates
  <2> QED
    BY <2>2 DEF BarrierInv, NotBefore
<1> QED
  BY <1>1, BarrierCorrect, PTL
=============================================================================
