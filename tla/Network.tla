------------------------------ MODULE Network ------------------------------
(***************************************************************************)
(* The ZeroMQ sockets that join the controller, the listeners and the      *)
(* worker processes, as the code in controller.cpp, listener.cpp and       *)
(* listener-websocket.cpp uses them:                                       *)
(*                                                                         *)
(*   PUB 5561   controller -> listeners and workers, filtered by topic     *)
(*   REP 5562   a listener announces itself, the controller answers        *)
(*   REP 5563   a worker announces itself, the controller answers          *)
(*   PULL 5564  "Finished" from listeners, "Result" from workers           *)
(*                                                                         *)
(* ZeroMQ itself is external: TCP keeps every connection in order, PUB     *)
(* drops what a peer has not subscribed to yet, REP and PULL take from     *)
(* their peers in any order, a multipart message arrives whole.            *)
(***************************************************************************)
EXTENDS Naturals, Sequences, FiniteSets

CONSTANTS
  Listeners,   \* the listeners somebody has started, one per machine
  Machines,    \* conf.machines: how many of them the controller waits for
  Processes,   \* conf.processes: workers each listener launches
  Instances,   \* conf.instances: websocket clients in each worker
  MaxHello     \* bound on the HELLO messages unread in one subscriber

(* The i-th child of listener l; the code names it listenerName-i.         *)
Workers == Listeners \X (0 .. Processes - 1)

Subscribers == Listeners \cup Workers

ASSUME NetworkAssumption ==
  /\ IsFiniteSet(Listeners)
  /\ Machines \in Nat \ {0}
  /\ Processes \in Nat \ {0}
  /\ Instances \in Nat \ {0}
  /\ MaxHello \in Nat \ {0}
  /\ Listeners \cap Workers = {}

VARIABLES
  subs,        \* subs[s]: how many of s's subscriptions PUB knows
  inbox,       \* inbox[s]: messages published to s and not received
  syncReq,     \* listeners whose request waits at REP 5562
  syncRep,     \* listeners whose answer is on its way back
  procReq,     \* workers whose request waits at REP 5563
  procRep,     \* workers whose answer is on its way back
  finishedQ,   \* finishedQ[l]: "Finished" messages pushed by l and not pulled
  resultQ      \* resultQ[w]: "Result" messages pushed by w and not pulled

netVars == <<subs, inbox, syncReq, syncRep, procReq, procRep, finishedQ, resultQ>>

-----------------------------------------------------------------------------
HelloTopics == {"HELLO_LISTENER", "HELLO_SOCKET"}

Topics == HelloTopics \cup {"StartProcesses", "StartWebsockets", "END"}

(* A wait status, up to what the controller tells apart: "0" or not.       *)
Statuses == {"0", "nonzero"}

(* What the controller tells apart in the statistics of a connection: all  *)
(* messages echoed on a connection that did not fail, or not.              *)
Outcomes == {"complete", "incomplete"}

(* Mutant: HELLO_LISTENER subscribed first.                                *)
HelloSubscribedFirst == <<"HELLO_LISTENER", "StartProcesses", "END">>

(* The topics in the order in which each program subscribes.               *)
ListenerSubscriptions == <<"StartProcesses", "END", "HELLO_LISTENER">>

(* Mutant: HELLO_SOCKET subscribed first.                                  *)
HelloSocketFirst == <<"HELLO_SOCKET", "StartWebsockets">>

WorkerSubscriptions == <<"StartWebsockets", "HELLO_SOCKET">>

Subscriptions(s) == IF s \in Listeners THEN ListenerSubscriptions
                                       ELSE WorkerSubscriptions

(* PUB knows a prefix of them: they travel on one connection, in order.    *)
Subscribed(s, topic) == \E i \in 1 .. subs[s] : Subscriptions(s)[i] = topic

Queued(s, topic) == \E i \in 1 .. Len(inbox[s]) : inbox[s][i] = topic

Backlog(s, topic) == Cardinality({i \in 1 .. Len(inbox[s]) : inbox[s][i] = topic})

(* PUB sends to the peers that have subscribed and drops for the others.   *)
(* A HELLO behind MaxHello unread ones is not kept: the code ignores a     *)
(* second HELLO, and ZeroMQ drops beyond the high-water mark anyway.       *)
Delivered(s, topic) ==
  /\ Subscribed(s, topic)
  /\ topic \in HelloTopics => Backlog(s, topic) < MaxHello

Publish(topic) ==
  inbox' = [s \in Subscribers |-> IF Delivered(s, topic)
                                  THEN Append(inbox[s], topic)
                                  ELSE inbox[s]]

(* s_recv(subscriber): the next message, all its frames.                   *)
Receive(s) == inbox' = [inbox EXCEPT ![s] = Tail(@)]

(* One more subscription of s reaches the PUB socket.                      *)
Subscribe(s) ==
  /\ subs[s] < Len(Subscriptions(s))
  /\ subs' = [subs EXCEPT ![s] = @ + 1]
  /\ UNCHANGED <<inbox, syncReq, syncRep, procReq, procRep, finishedQ, resultQ>>

-----------------------------------------------------------------------------
NetInit ==
  /\ subs = [s \in Subscribers |-> 0]
  /\ inbox = [s \in Subscribers |-> <<>>]
  /\ syncReq = {} /\ syncRep = {}
  /\ procReq = {} /\ procRep = {}
  /\ finishedQ = [l \in Listeners |-> <<>>]
  /\ resultQ = [w \in Workers |-> <<>>]

NetTypeOK ==
  /\ subs \in [Subscribers -> Nat]
  /\ \A s \in Subscribers : subs[s] <= Len(Subscriptions(s))
  /\ inbox \in [Subscribers -> Seq(Topics)]
  /\ syncReq \subseteq Listeners /\ syncRep \subseteq Listeners
  /\ procReq \subseteq Workers /\ procRep \subseteq Workers
  /\ finishedQ \in [Listeners -> Seq(Statuses)]
  /\ resultQ \in [Workers -> Seq(Outcomes)]
=============================================================================
