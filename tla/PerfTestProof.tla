--------------------------- MODULE PerfTestProof ---------------------------
(***************************************************************************)
(* Proofs about PerfTest, for every number of listeners, machines,         *)
(* processes and instances, and every backlog of HELLO messages.           *)
(***************************************************************************)
EXTENDS PerfTest, SequenceTheorems, TLAPS

(* A listener in the waitpid loop has a child to wait for.                 *)
ReapingCounts == \A l \in Listeners : lpc[l] = "reaping" => unfinished[l] > 0

-----------------------------------------------------------------------------
(* What publishing and receiving do to the queues of the subscribers.      *)

LEMMA PublishType ==
  ASSUME NetTypeOK, NEW topic \in Topics, Publish(topic)
  PROVE  inbox' \in [Subscribers -> Seq(Topics)]
BY AppendProperties DEF NetTypeOK, Publish

LEMMA ReceiveType ==
  ASSUME NetTypeOK, NEW s \in Subscribers, inbox[s] # <<>>, Receive(s)
  PROVE  inbox' \in [Subscribers -> Seq(Topics)]
<1>1. inbox[s] \in Seq(Topics)
  BY DEF NetTypeOK
<1>2. Tail(inbox[s]) \in Seq(Topics)
  BY <1>1, HeadTailProperties
<1> QED
  BY <1>2 DEF NetTypeOK, Receive

(* A publication keeps what is queued and adds at most its own topic, for  *)
(* the subscribers it is delivered to.                                     *)
LEMMA PublishQueued ==
  ASSUME NetTypeOK, NEW topic \in Topics, Publish(topic),
         NEW s \in Subscribers, NEW t
  PROVE  /\ Queued(s, t) => Queued(s, t)'
         /\ Delivered(s, topic) => Queued(s, topic)'
         /\ Queued(s, t)' => Queued(s, t) \/ (t = topic /\ Delivered(s, topic))
<1>1. inbox[s] \in Seq(Topics)
  BY DEF NetTypeOK
<1>2. inbox'[s] = IF Delivered(s, topic) THEN Append(inbox[s], topic) ELSE inbox[s]
  BY DEF Publish
<1>3. CASE ~Delivered(s, topic)
  BY <1>2, <1>3 DEF Queued
<1>4. CASE Delivered(s, topic)
  <2>1. inbox'[s] = Append(inbox[s], topic)
    BY <1>2, <1>4
  <2>2. /\ Len(inbox[s]) \in Nat
        /\ Len(inbox'[s]) = Len(inbox[s]) + 1
        /\ \A i \in 1 .. Len(inbox[s]) : inbox'[s][i] = inbox[s][i]
        /\ inbox'[s][Len(inbox[s]) + 1] = topic
    BY <1>1, <2>1, AppendProperties
  <2>3. Queued(s, t) => Queued(s, t)'
    BY <2>2 DEF Queued
  <2>4. Queued(s, topic)'
    BY <2>2 DEF Queued
  <2>5. ASSUME Queued(s, t)' PROVE Queued(s, t) \/ t = topic
    <3>1. PICK i \in 1 .. Len(inbox'[s]) : inbox'[s][i] = t
      BY <2>5 DEF Queued
    <3>2. i \in 1 .. Len(inbox[s]) \/ i = Len(inbox[s]) + 1
      BY <2>2, <3>1
    <3> QED
      BY <2>2, <3>1, <3>2 DEF Queued
  <2> QED
    BY <1>4, <2>3, <2>4, <2>5
<1> QED
  BY <1>3, <1>4

(* Receiving takes the head away from one subscriber, and only that.       *)
LEMMA ReceiveQueued ==
  ASSUME NetTypeOK, NEW s \in Subscribers, inbox[s] # <<>>, Receive(s),
         NEW r \in Subscribers, NEW t
  PROVE  /\ Queued(r, t)' => Queued(r, t)
         /\ Queued(r, t) => Queued(r, t)' \/ (r = s /\ Head(inbox[s]) = t)
<1>1. CASE r # s
  <2>1. inbox'[r] = inbox[r]
    BY <1>1 DEF Receive, NetTypeOK
  <2> QED
    BY <2>1 DEF Queued
<1>2. CASE r = s
  <2>1. inbox[s] \in Seq(Topics) /\ inbox'[s] = Tail(inbox[s])
    BY DEF Receive, NetTypeOK
  <2>2. /\ Len(inbox[s]) \in Nat \ {0}
        /\ Len(inbox'[s]) = Len(inbox[s]) - 1
        /\ \A i \in 1 .. Len(inbox'[s]) : inbox'[s][i] = inbox[s][i + 1]
        /\ Head(inbox[s]) = inbox[s][1]
    BY <2>1, HeadTailProperties, EmptySeq
  <2>3. \A i \in 1 .. Len(inbox'[s]) : i + 1 \in 1 .. Len(inbox[s])
    BY <2>2
  <2>4. \A i \in 1 .. Len(inbox[s]) : i = 1 \/ i - 1 \in 1 .. Len(inbox'[s])
    BY <2>2
  <2>5. \A i \in 2 .. Len(inbox[s]) : inbox'[s][i - 1] = inbox[s][i]
    BY <2>2, <2>4
  <2>6. ASSUME NEW i \in 1 .. Len(inbox'[s]), inbox'[s][i] = t
        PROVE  Queued(s, t)
    BY <2>2, <2>3, <2>6 DEF Queued
  <2>7. ASSUME NEW i \in 1 .. Len(inbox[s]), inbox[s][i] = t
        PROVE  Queued(s, t)' \/ Head(inbox[s]) = t
    <3>1. CASE i = 1
      BY <2>2, <2>7, <3>1
    <3>2. CASE i # 1
      <4>1. i \in 2 .. Len(inbox[s]) /\ i - 1 \in 1 .. Len(inbox'[s])
        BY <2>2, <2>4, <3>2
      <4> QED
        BY <2>5, <2>7, <4>1 DEF Queued
    <3> QED
      BY <3>1, <3>2
  <2> QED
    BY <1>2, <2>6, <2>7 DEF Queued
<1> QED
  BY <1>1, <1>2

-----------------------------------------------------------------------------
(* The types.  Each program touches its own variables and the network.     *)

LEMMA ControllerTyping ==
  ASSUME TypeOK, ControllerStep \/ ControllerTimeout
  PROVE  NetTypeOK' /\ ControllerTypeOK'
<1> USE NetworkAssumption DEF TypeOK, NetTypeOK, ControllerTypeOK, controllerVars, sinkVars
<1>0. Clients \in Nat
  BY DEF Clients
<1>1. CASE HelloListeners
  BY <1>1, PublishType DEF HelloListeners, Topics, HelloTopics, Subscriptions
<1>2. CASE \E l \in Listeners : SyncListener(l)
  BY <1>2 DEF SyncListener, Subscriptions
<1>3. CASE StartProcesses
  BY <1>3, PublishType DEF StartProcesses, Topics, ControllerStates
<1>4. CASE HelloSockets
  BY <1>4, PublishType DEF HelloSockets, Topics, HelloTopics
<1>5. CASE \E w \in Workers : SyncProcess(w)
  BY <1>0, <1>5 DEF SyncProcess
<1>6. CASE StartWebsockets
  BY <1>6, PublishType DEF StartWebsockets, Topics, ControllerStates
<1>7. CASE CollectDelimiter
  BY <1>7 DEF CollectDelimiter, netVars
<1>8. CASE \E l \in Listeners : CollectFinished(l)
  BY <1>0, <1>8, HeadTailProperties DEF CollectFinished, Collecting
<1>9. CASE \E w \in Workers : CollectResult(w)
  BY <1>9, HeadTailProperties DEF CollectResult, CountConnection
<1>10. CASE End
  BY <1>10, PublishType DEF End, Topics, ControllerStates
<1> QED
  BY <1>1, <1>2, <1>3, <1>4, <1>5, <1>6, <1>7, <1>8, <1>9, <1>10
     DEF ControllerStep, ControllerTimeout

LEMMA ListenerTyping ==
  ASSUME TypeOK, ReapingCounts, NEW l \in Listeners, ListenerStep(l)
  PROVE  NetTypeOK' /\ WorkerTypeOK' /\ ListenerTypeOK' /\ ReapingCounts'
<1> USE NetworkAssumption DEF TypeOK, NetTypeOK, WorkerTypeOK, ListenerTypeOK, ReapingCounts,
        workerVars, ListenerStates, WorkerStates
<1>0. l \in Subscribers
  BY DEF Subscribers
<1>1. CASE ListenerHello(l)
  BY <1>0, <1>1, ReceiveType DEF ListenerHello
<1>2. CASE ListenerSynced(l)
  BY <1>2 DEF ListenerSynced
<1>3. CASE ListenerRequest(l)
  <2>1. inbox' \in [Subscribers -> Seq(Topics)]
    BY <1>0, <1>3, ReceiveType DEF ListenerRequest
  <2>2. CASE Head(inbox[l]) = "END"
    BY <1>3, <2>1, <2>2 DEF ListenerRequest
  <2>3. CASE Head(inbox[l]) = "StartProcesses"
    <3>1. \/ Launch(l) /\ lpc' = [lpc EXCEPT ![l] = "reaping"]
          \/ LaunchFails(l) /\ lpc' = [lpc EXCEPT ![l] = "crashed"]
      BY <1>3, <2>3 DEF ListenerRequest
    <3>2. wpc' \in [Workers -> WorkerStates] /\ ListenerTypeOK' /\ ReapingCounts'
      <4>1. CASE Launch(l) /\ lpc' = [lpc EXCEPT ![l] = "reaping"]
        BY <4>1 DEF Launch
      <4>2. CASE LaunchFails(l) /\ lpc' = [lpc EXCEPT ![l] = "crashed"]
        BY <4>2 DEF LaunchFails
      <4> QED
        BY <3>1, <4>1, <4>2
    <3> QED
      BY <1>3, <2>1, <3>2 DEF ListenerRequest
  <2>4. CASE Head(inbox[l]) \notin {"END", "StartProcesses"}
    BY <1>3, <2>1, <2>4 DEF ListenerRequest
  <2> QED
    BY <2>2, <2>3, <2>4
<1>4. CASE Reap(l)
  <2>1. PICK r \in WaitPid(l) :
          /\ wpc' = [w \in Workers |-> IF w \in r.pid THEN "reaped" ELSE wpc[w]]
          /\ PushFinished(l, r.status)
    BY <1>4 DEF Reap
  <2>2. r.status \in Statuses
    BY DEF WaitPid, ChildrenOf
  <2>3. finishedQ' \in [Listeners -> Seq(Statuses)]
    BY <2>1, <2>2, AppendProperties DEF PushFinished
  <2>4. NetTypeOK' /\ WorkerTypeOK'
    BY <1>4, <2>1, <2>3 DEF Reap
  <2>5. ListenerTypeOK' /\ ReapingCounts'
    BY <1>4 DEF Reap
  <2> QED
    BY <2>4, <2>5
<1> QED
  BY <1>1, <1>2, <1>3, <1>4 DEF ListenerStep

LEMMA WorkerTyping ==
  ASSUME TypeOK, NEW w \in Workers, WorkerStep(w) \/ WorkerKilled(w)
  PROVE  NetTypeOK' /\ WorkerTypeOK'
<1> USE NetworkAssumption DEF TypeOK, NetTypeOK, WorkerTypeOK, WorkerStates, Statuses
<1>0. w \in Subscribers
  BY DEF Subscribers
<1>1. CASE WorkerHello(w)
  BY <1>0, <1>1, ReceiveType DEF WorkerHello
<1>2. CASE WorkerSynced(w)
  BY <1>2 DEF WorkerSynced
<1>3. CASE WorkerRequest(w)
  BY <1>0, <1>3, ReceiveType DEF WorkerRequest
<1>4. CASE SendResult(w)
  BY <1>4, AppendProperties DEF SendResult, Outcomes
<1>5. CASE WorkerReturns(w)
  BY <1>0, <1>5, EmptySeq DEF WorkerReturns, Exit
<1>6. CASE WorkerKilled(w)
  BY <1>0, <1>6, EmptySeq, SubSeqProperties DEF WorkerKilled, Exit
<1> QED
  BY <1>1, <1>2, <1>3, <1>4, <1>5, <1>6 DEF WorkerStep

LEMMA SubscribeTyping ==
  ASSUME NetTypeOK, NEW s \in Subscribers, Subscribe(s)
  PROVE  NetTypeOK'
<1>1. Len(Subscriptions(s)) \in Nat
  BY DEF Subscriptions, ListenerSubscriptions, WorkerSubscriptions
<1> QED
  BY <1>1 DEF NetTypeOK, Subscribe

LEMMA TypingStep ==
  ASSUME TypeOK, ReapingCounts, [Next]_vars
  PROVE  TypeOK' /\ ReapingCounts'
<1>1. CASE ControllerActs \/ ControllerTimesOut
  BY <1>1, ControllerTyping
     DEF ControllerActs, ControllerTimesOut, TypeOK, WorkerTypeOK, ListenerTypeOK,
         ReapingCounts, workerVars, listenerVars
<1>2. ASSUME NEW l \in Listeners, ListenerActs(l)
      PROVE  TypeOK' /\ ReapingCounts'
  BY <1>2, ListenerTyping DEF ListenerActs, TypeOK, ControllerTypeOK, controllerVars
<1>3. ASSUME NEW l \in Listeners, ListenerSubscribes(l)
      PROVE  TypeOK' /\ ReapingCounts'
  BY <1>3, SubscribeTyping
     DEF ListenerSubscribes, Subscribers, TypeOK, WorkerTypeOK, ListenerTypeOK,
         ControllerTypeOK, ReapingCounts, workerVars, listenerVars, controllerVars
<1>4. ASSUME NEW w \in Workers, WorkerActs(w) \/ WorkerDies(w)
      PROVE  TypeOK' /\ ReapingCounts'
  BY <1>4, WorkerTyping
     DEF WorkerActs, WorkerDies, TypeOK, ListenerTypeOK, ControllerTypeOK,
         ReapingCounts, listenerVars, controllerVars
<1>5. ASSUME NEW w \in Workers, WorkerSubscribes(w)
      PROVE  TypeOK' /\ ReapingCounts'
  BY <1>5, SubscribeTyping
     DEF WorkerSubscribes, Subscribers, TypeOK, WorkerTypeOK, ListenerTypeOK,
         ControllerTypeOK, ReapingCounts, workerVars, listenerVars, controllerVars
<1>6. CASE UNCHANGED vars
  BY <1>6 DEF vars, netVars, workerVars, listenerVars, controllerVars, TypeOK,
              NetTypeOK, WorkerTypeOK, ListenerTypeOK, ControllerTypeOK, ReapingCounts
<1> QED
  BY <1>1, <1>2, <1>3, <1>4, <1>5, <1>6 DEF Next, Stop

(* Every reachable state of the composed system has its types, whatever    *)
(* the constants: in particular the controller never counts more listeners *)
(* or workers than configured, and no listener counts a child below zero.  *)
THEOREM TypeCorrect == Spec => []TypeOK
<1>1. Init => TypeOK /\ ReapingCounts
  <2> SUFFICES ASSUME Init PROVE TypeOK /\ ReapingCounts
    OBVIOUS
  <2>1. NetTypeOK
    <3>1. \A s : Len(Subscriptions(s)) \in Nat
      BY DEF Subscriptions, ListenerSubscriptions, WorkerSubscriptions
    <3> QED
      BY <3>1, EmptySeq DEF Init, NetInit, NetTypeOK
  <2>2. WorkerTypeOK
    BY NetworkAssumption DEF Init, WorkerInit, WorkerTypeOK, WorkerStates, Statuses
  <2>3. ListenerTypeOK /\ ReapingCounts
    BY NetworkAssumption DEF Init, ListenerInit, ListenerTypeOK, ListenerStates, ReapingCounts
  <2>4. ControllerTypeOK
    <3>1. Clients \in Nat
      BY NetworkAssumption DEF Clients
    <3>2. 0 \in 0 .. Machines /\ 0 \in 0 .. Clients /\ 0 \in Nat /\ 0 + 0 <= Clients
      BY <3>1, NetworkAssumption
    <3> QED
      BY <3>2, Zenon DEF Init, ControllerInit, CountersInit, ControllerTypeOK, ControllerStates
  <2> QED
    BY <2>1, <2>2, <2>3, <2>4 DEF TypeOK
<1>2. TypeOK /\ ReapingCounts /\ [Next]_vars => TypeOK' /\ ReapingCounts'
  BY TypingStep
<1> QED
  BY <1>1, <1>2, PTL DEF Spec

-----------------------------------------------------------------------------
(* No listener the controller counts misses a request.  The argument: the  *)
(* subscriptions reach PUB in order, HELLO_LISTENER last, so that a        *)
(* listener that has seen HELLO_LISTENER is subscribed to everything; and  *)
(* a listener is counted only on a request it sends after that.            *)
Handshake ==
  \A l \in Listeners :
    /\ lpc[l] # "hello" \/ Queued(l, "HELLO_LISTENER") => subs[l] = 3
    /\ l \in syncReq \cup syncRep => lpc[l] = "req"
    /\ ~(l \in syncReq /\ l \in syncRep)

LEMMA FullySubscribed ==
  ASSUME NEW l \in Listeners, NetTypeOK
  PROVE  /\ Subscribed(l, "HELLO_LISTENER") => subs[l] = 3
         /\ subs[l] = 3 => Delivered(l, "StartProcesses") /\ Delivered(l, "END")
<1>1. subs[l] \in Nat /\ subs[l] <= 3
  BY DEF NetTypeOK, Subscribers, Subscriptions, ListenerSubscriptions
<1> QED
  BY <1>1 DEF Subscribed, Delivered, Subscriptions, ListenerSubscriptions, HelloTopics

LEMMA HandshakeStep ==
  ASSUME TypeOK, Handshake, [Next]_vars
  PROVE  Handshake'
<1> SUFFICES ASSUME NEW l \in Listeners
             PROVE  /\ lpc'[l] # "hello" \/ Queued(l, "HELLO_LISTENER")' => subs'[l] = 3
                    /\ l \in syncReq' \cup syncRep' => lpc'[l] = "req"
                    /\ ~(l \in syncReq' /\ l \in syncRep')
  BY DEF Handshake
<1> DEFINE H == Queued(l, "HELLO_LISTENER")
           OK == /\ lpc[l] # "hello" \/ H => subs[l] = 3
                 /\ l \in syncReq \cup syncRep => lpc[l] = "req"
                 /\ ~(l \in syncReq /\ l \in syncRep)
<1>a. OK
  BY DEF Handshake
<1>b. NetTypeOK /\ l \in Subscribers /\ lpc \in [Listeners -> ListenerStates]
  BY DEF TypeOK, ListenerTypeOK, Subscribers
<1>c. l \notin Workers
  BY NetworkAssumption
<1>1. CASE ControllerTimesOut
  <2>1. UNCHANGED <<lpc, subs, syncReq, syncRep>>
    BY <1>1 DEF ControllerTimesOut, ControllerTimeout, HelloListeners, HelloSockets, listenerVars
  <2>2. H' => subs[l] = 3
    BY <1>1, <1>a, <1>b, PublishQueued, FullySubscribed
       DEF ControllerTimesOut, ControllerTimeout, HelloListeners, HelloSockets,
           Topics, HelloTopics, Delivered
  <2> QED
    BY <1>a, <2>1, <2>2
<1>2. CASE ControllerActs
  <2>1. /\ UNCHANGED <<lpc, subs>>
        /\ l \in syncReq' \cup syncRep' => l \in syncReq \cup syncRep
        /\ ~(l \in syncReq /\ l \in syncRep) => ~(l \in syncReq' /\ l \in syncRep')
    BY <1>2 DEF ControllerActs, ControllerStep, SyncListener, CollectFinished, SyncProcess,
                CollectResult, StartProcesses, StartWebsockets, CollectDelimiter, End,
                listenerVars, netVars
  <2>2. H' => H
    <3>1. CASE UNCHANGED inbox
      BY <3>1 DEF Queued
    <3>2. CASE \E t \in {"StartProcesses", "StartWebsockets", "END"} : Publish(t)
      BY <1>b, <3>2, PublishQueued DEF Topics
    <3> QED
      BY <1>2, <3>1, <3>2
         DEF ControllerActs, ControllerStep, SyncListener, CollectFinished, SyncProcess,
             CollectResult, StartProcesses, StartWebsockets, CollectDelimiter, End, netVars
  <2> QED
    BY <1>a, <2>1, <2>2
<1>3. ASSUME NEW k \in Listeners, ListenerActs(k)
      PROVE  OK'
  <2>0. k \in Subscribers
    BY DEF Subscribers
  <2>1. CASE ListenerHello(k)
    <3>1. H' => H
      BY <1>b, <2>0, <2>1, ReceiveQueued DEF ListenerHello
    <3>2. Head(inbox[k]) = "HELLO_LISTENER" => Queued(k, "HELLO_LISTENER")
      <4>1. inbox[k] \in Seq(Topics) /\ inbox[k] # <<>>
        BY <1>b, <2>0, <2>1 DEF NetTypeOK, ListenerHello
      <4>2. Len(inbox[k]) \in Nat \ {0} /\ Head(inbox[k]) = inbox[k][1]
        BY <4>1, EmptySeq
      <4> QED
        BY <4>2 DEF Queued
    <3> QED
      BY <1>a, <1>b, <2>1, <3>1, <3>2 DEF ListenerHello
  <2>2. CASE ListenerSynced(k)
    BY <1>a, <1>b, <2>2 DEF ListenerSynced, Queued
  <2>3. CASE ListenerRequest(k)
    <3>1. H' => H
      BY <1>b, <2>0, <2>3, ReceiveQueued DEF ListenerRequest
    <3> QED
      BY <1>a, <1>b, <2>3, <3>1 DEF ListenerRequest
  <2>4. CASE Reap(k)
    <3>1. UNCHANGED <<subs, inbox, syncReq, syncRep>>
      BY <2>4 DEF Reap
    <3>2. lpc'[l] = lpc[l] \/ (l = k /\ lpc[l] = "reaping" /\ lpc'[l] = "ready")
      BY <1>b, <2>4 DEF Reap
    <3> QED
      BY <1>a, <3>1, <3>2 DEF Queued
  <2> QED
    BY <1>3, <2>1, <2>2, <2>3, <2>4 DEF ListenerActs, ListenerStep
<1>4. ASSUME NEW k \in Subscribers, Subscribe(k), UNCHANGED listenerVars
      PROVE  OK'
  BY <1>a, <1>b, <1>4
     DEF Subscribe, listenerVars, Queued, NetTypeOK, Subscriptions, ListenerSubscriptions
<1>5. ASSUME NEW w \in Workers, WorkerActs(w) \/ WorkerDies(w)
      PROVE  OK'
  <2>1. UNCHANGED <<lpc, syncReq, syncRep>> /\ subs'[l] = subs[l] /\ inbox'[l] = inbox[l]
    BY <1>b, <1>c, <1>5
       DEF WorkerActs, WorkerDies, WorkerStep, WorkerHello, WorkerSynced, WorkerRequest,
           SendResult, WorkerReturns, WorkerKilled, Exit, Receive, listenerVars, NetTypeOK
  <2> QED
    BY <1>a, <2>1 DEF Queued
<1>6. CASE UNCHANGED vars
  BY <1>a, <1>6 DEF vars, netVars, listenerVars, Queued
<1> QED
  BY <1>1, <1>2, <1>3, <1>4, <1>5, <1>6
     DEF Next, Stop, ListenerSubscribes, WorkerSubscribes, Subscribers

(* The state change behind NoMissedRequest, for one listener: counting     *)
(* happens before StartProcesses is published, and a request leaves the    *)
(* queue only by being served.                                             *)
LEMMA NoMissedRequestStep ==
  ASSUME TypeOK, Handshake, NoMissedRequest, [Next]_vars
  PROVE  NoMissedRequest'
<1> DEFINE Launched(l) == \A w \in ChildrenOf(l) : wpc[w] # "none"
           Served(l) == Queued(l, "StartProcesses") \/ Launched(l)
           Ending(l) == Queued(l, "END") \/ lpc[l] = "ended"
<1> SUFFICES ASSUME NEW l \in Listeners, Synced(l)'
             PROVE  (cpc' # "listeners" => Served(l)') /\ (cpc' = "ended" => Ending(l)')
  BY DEF NoMissedRequest
<1>a. Synced(l) => (cpc # "listeners" => Served(l)) /\ (cpc = "ended" => Ending(l))
  BY DEF NoMissedRequest
<1>b. /\ NetTypeOK /\ l \in Subscribers /\ l \notin Workers
      /\ lpc \in [Listeners -> ListenerStates] /\ wpc \in [Workers -> WorkerStates]
  BY NetworkAssumption DEF TypeOK, ListenerTypeOK, WorkerTypeOK, Subscribers
<1>c. Synced(l) => lpc[l] # "hello" /\ subs[l] = 3
  BY DEF Synced, Handshake
<1>1. CASE ControllerTimesOut
  <2>1. UNCHANGED <<lpc, wpc, syncRep, cpc>> /\ \E t \in HelloTopics : Publish(t)
    BY <1>1 DEF ControllerTimesOut, ControllerTimeout, HelloListeners, HelloSockets, HelloTopics,
                listenerVars, workerVars, controllerVars
  <2>2. \A t : Queued(l, t) => Queued(l, t)'
    BY <1>b, <2>1, PublishQueued DEF Topics
  <2> QED
    BY <1>a, <2>1, <2>2 DEF Synced
<1>2. CASE StartProcesses /\ UNCHANGED <<workerVars, listenerVars>>
  <2>1. UNCHANGED <<lpc, syncRep>> /\ cpc' = "workers" /\ Publish("StartProcesses")
    BY <1>2 DEF StartProcesses, listenerVars
  <2>2. Delivered(l, "StartProcesses")
    BY <1>b, <1>c, <2>1, FullySubscribed DEF Synced
  <2> QED
    BY <1>b, <2>1, <2>2, PublishQueued DEF Topics
<1>3. CASE (StartWebsockets \/ End) /\ UNCHANGED <<workerVars, listenerVars>>
  <2>1. /\ UNCHANGED <<lpc, wpc, syncRep>> /\ cpc # "listeners"
        /\ \/ Publish("StartWebsockets") /\ cpc' = "collect"
           \/ Publish("END")
    BY <1>3 DEF StartWebsockets, End, listenerVars, workerVars
  <2>2. Queued(l, "StartProcesses") => Queued(l, "StartProcesses")'
    BY <1>b, <2>1, PublishQueued DEF Topics
  <2>3. Publish("END") => Queued(l, "END")'
    BY <1>b, <1>c, <2>1, FullySubscribed, PublishQueued DEF Synced, Topics
  <2> QED
    BY <1>a, <2>1, <2>2, <2>3 DEF Synced
<1>4. CASE /\ \/ \E k \in Listeners : SyncListener(k) \/ CollectFinished(k)
              \/ \E w \in Workers : SyncProcess(w) \/ CollectResult(w)
              \/ CollectDelimiter
           /\ UNCHANGED <<workerVars, listenerVars>>
  <2>1. /\ UNCHANGED <<inbox, lpc, wpc, cpc>>
        /\ syncRep' = syncRep \/ cpc = "listeners"
    BY <1>4 DEF SyncListener, CollectFinished, SyncProcess, CollectResult, CollectDelimiter,
                netVars, listenerVars, workerVars
  <2> QED
    BY <1>a, <2>1 DEF Synced, Queued
<1>5. ASSUME NEW k \in Listeners, ListenerActs(k)
      PROVE  (cpc' # "listeners" => Served(l)') /\ (cpc' = "ended" => Ending(l)')
  <2>0. k \in Subscribers /\ UNCHANGED cpc
    BY <1>5 DEF Subscribers, ListenerActs, controllerVars
  <2>1. CASE ListenerHello(k)
    <3>1. Synced(l) /\ k # l /\ UNCHANGED wpc /\ lpc'[l] = lpc[l]
      BY <1>b, <1>c, <2>1 DEF ListenerHello, Synced, workerVars, Handshake
    <3>2. \A t : Queued(l, t) => Queued(l, t)'
      BY <1>b, <2>0, <2>1, <3>1, ReceiveQueued DEF ListenerHello
    <3> QED
      BY <1>a, <2>0, <3>1, <3>2
  <2>2. CASE ListenerSynced(k)
    BY <1>a, <1>b, <2>0, <2>2 DEF ListenerSynced, Synced, Queued, workerVars
  <2>3. CASE ListenerRequest(k)
    <3>1. Synced(l)
      BY <1>b, <2>3 DEF ListenerRequest, Synced
    <3>2. \A t : Queued(l, t) => Queued(l, t)' \/ (l = k /\ Head(inbox[k]) = t)
      BY <1>b, <2>0, <2>3, ReceiveQueued DEF ListenerRequest
    <3>3. CASE Head(inbox[k]) = "END"
      <4>1. UNCHANGED wpc /\ lpc' = [lpc EXCEPT ![k] = "ended"]
        BY <2>3, <3>3 DEF ListenerRequest
      <4> QED
        BY <1>a, <1>b, <2>0, <3>1, <3>2, <3>3, <4>1
    <3>4. CASE Head(inbox[k]) = "StartProcesses"
      <4>1. CASE Launch(k) /\ lpc' = [lpc EXCEPT ![k] = "reaping"] /\ lpc[k] = "ready"
        <5>1. Launched(l) \/ l = k => Launched(l)'
          BY <1>b, <4>1 DEF Launch, ChildrenOf
        <5> QED
          BY <1>a, <1>b, <2>0, <3>1, <3>2, <3>4, <4>1, <5>1
      <4>2. CASE LaunchFails(k) /\ lpc' = [lpc EXCEPT ![k] = "crashed"] /\ lpc[k] = "ready"
        <5>1. l # k
          BY <1>b, <2>3, <4>2 DEF ListenerRequest, Synced, Handshake
        <5>2. Launched(l) => Launched(l)'
          BY <1>b, <4>2 DEF LaunchFails, ChildrenOf
        <5> QED
          BY <1>a, <1>b, <2>0, <3>1, <3>2, <4>2, <5>1, <5>2
      <4> QED
        BY <2>3, <3>4, <4>1, <4>2 DEF ListenerRequest
    <3>5. CASE Head(inbox[k]) \notin {"END", "StartProcesses"}
      <4>1. UNCHANGED <<lpc, wpc>>
        BY <2>3, <3>5 DEF ListenerRequest
      <4> QED
        BY <1>a, <2>0, <3>1, <3>2, <3>5, <4>1
    <3> QED
      BY <3>3, <3>4, <3>5
  <2>4. CASE Reap(k)
    <3>1. UNCHANGED <<inbox, syncRep>> /\ \A w \in Workers : wpc[w] # "none" => wpc'[w] # "none"
      BY <1>b, <2>4 DEF Reap
    <3>2. lpc'[l] = lpc[l] \/ (lpc[l] = "reaping" /\ lpc'[l] = "ready")
      BY <1>b, <2>4 DEF Reap
    <3> QED
      BY <1>a, <2>0, <3>1, <3>2 DEF Synced, Queued, ChildrenOf
  <2> QED
    BY <1>5, <2>1, <2>2, <2>3, <2>4 DEF ListenerActs, ListenerStep
<1>6. ASSUME NEW k \in Subscribers, Subscribe(k), UNCHANGED <<workerVars, listenerVars, controllerVars>>
      PROVE  (cpc' # "listeners" => Served(l)') /\ (cpc' = "ended" => Ending(l)')
  BY <1>a, <1>6 DEF Subscribe, workerVars, listenerVars, controllerVars, Synced, Queued
<1>7. ASSUME NEW w \in Workers, WorkerActs(w) \/ WorkerDies(w)
      PROVE  (cpc' # "listeners" => Served(l)') /\ (cpc' = "ended" => Ending(l)')
  <2>1. UNCHANGED <<lpc, syncRep, cpc>> /\ inbox'[l] = inbox[l]
    BY <1>b, <1>7
       DEF WorkerActs, WorkerDies, WorkerStep, WorkerHello, WorkerSynced, WorkerRequest,
           SendResult, WorkerReturns, WorkerKilled, Exit, Receive, listenerVars,
           controllerVars, NetTypeOK
  <2>2. \A v \in Workers : wpc[v] # "none" => wpc'[v] # "none"
    BY <1>b, <1>7
       DEF WorkerActs, WorkerDies, WorkerStep, WorkerHello, WorkerSynced, WorkerRequest,
           SendResult, WorkerReturns, WorkerKilled, Exit
  <2> QED
    BY <1>a, <2>1, <2>2 DEF Synced, Queued, ChildrenOf
<1>8. CASE UNCHANGED vars
  BY <1>a, <1>8 DEF vars, netVars, workerVars, listenerVars, controllerVars, Synced, Queued
<1> QED
  BY <1>1, <1>2, <1>3, <1>4, <1>5, <1>6, <1>7, <1>8
     DEF Next, Stop, ControllerActs, ControllerStep, ListenerSubscribes, WorkerSubscribes, Subscribers

(* The HELLO handshake works: however slowly subscriptions travel and      *)
(* however many listeners there are, one the controller has counted gets   *)
(* StartProcesses and END.                                                 *)
THEOREM RequestsReachListeners == Spec => []NoMissedRequest
<1> DEFINE I == Handshake /\ NoMissedRequest
<1>1. Init => I
  BY DEF Init, NetInit, ListenerInit, ControllerInit, CountersInit, Handshake, NoMissedRequest, Synced,
         Queued, Subscribers
<1>2. TypeOK /\ I /\ [Next]_vars => I'
  BY HandshakeStep, NoMissedRequestStep
<1> QED
  BY <1>1, <1>2, TypeCorrect, PTL DEF Spec
=============================================================================
