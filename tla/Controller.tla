----------------------------- MODULE Controller -----------------------------
(***************************************************************************)
(* The controller (controller.cpp, main).  The loop over the test          *)
(* configurations runs its body once (iteration 16 only), and so does this *)
(* module: gather the listeners, have them launch the workers, gather the  *)
(* workers, start the websockets, collect results, end.                    *)
(*                                                                         *)
(* A result counts as succeeded or died; the latency sums that the report  *)
(* is computed from are left out.                                          *)
(***************************************************************************)
EXTENDS Network

VARIABLES
  cpc,                    \* which loop main is in
  subscribers, processes, \* listeners and workers counted so far
  clientsFinished, clientsDied,
  resultsReceived, connectionsSucceeded, connectionsDied,
  delimiter,              \* the empty last frame of a "Finished" is unread
  counted                 \* history: the workers that "processes" counts

controllerVars == <<cpc, subscribers, processes, clientsFinished, clientsDied,
                    resultsReceived, connectionsSucceeded, connectionsDied,
                    delimiter, counted>>

sinkVars == <<clientsFinished, clientsDied, resultsReceived,
              connectionsSucceeded, connectionsDied, delimiter>>

ControllerStates == {"listeners", "workers", "collect", "ended"}

Clients == Machines * Processes

CountersInit ==
  /\ clientsFinished = 0 /\ clientsDied = 0
  /\ resultsReceived = 0 /\ connectionsSucceeded = 0 /\ connectionsDied = 0
  /\ delimiter = FALSE

ControllerInit ==
  /\ cpc = "listeners"
  /\ subscribers = 0 /\ processes = 0
  /\ CountersInit
  /\ counted = {}

ControllerTypeOK ==
  /\ cpc \in ControllerStates
  /\ subscribers \in 0 .. Machines
  /\ processes \in 0 .. Clients
  /\ clientsFinished \in Nat /\ clientsDied \in Nat
  /\ clientsFinished + clientsDied <= Clients
  /\ resultsReceived \in Nat
  /\ connectionsSucceeded \in Nat /\ connectionsDied \in Nat
  /\ delimiter \in BOOLEAN
  /\ counted \subseteq Workers

-----------------------------------------------------------------------------
(* First loop.  syncservice.recv gives up after 5 s and HELLO_LISTENER is  *)
(* published; a request may be on its way, or arrive before the publish.   *)
HelloListeners ==
  /\ cpc = "listeners" /\ subscribers < Machines
  /\ Publish("HELLO_LISTENER")
  /\ UNCHANGED <<subs, syncReq, syncRep, procReq, procRep, finishedQ, resultQ, controllerVars>>

(* Mutant: listeners are counted beyond the configured number.             *)
SyncAnyListener(l) ==
  /\ cpc = "listeners"
  /\ l \in syncReq
  /\ syncReq' = syncReq \ {l}
  /\ syncRep' = syncRep \cup {l}
  /\ subscribers' = subscribers + 1
  /\ UNCHANGED <<subs, inbox, procReq, procRep, finishedQ, resultQ,
                 cpc, processes, sinkVars, counted>>

SyncListener(l) ==
  /\ cpc = "listeners" /\ subscribers < Machines
  /\ l \in syncReq
  /\ syncReq' = syncReq \ {l}
  /\ syncRep' = syncRep \cup {l}
  /\ subscribers' = subscribers + 1
  /\ UNCHANGED <<subs, inbox, procReq, procRep, finishedQ, resultQ,
                 cpc, processes, sinkVars, counted>>

StartProcesses ==
  /\ cpc = "listeners" /\ ~(subscribers < Machines)
  /\ Publish("StartProcesses")
  /\ cpc' = "workers"
  /\ UNCHANGED <<subs, syncReq, syncRep, procReq, procRep, finishedQ, resultQ,
                 subscribers, processes, sinkVars, counted>>

(* Mutant: HELLO_SOCKET is not repeated once a worker has answered.        *)
HelloSocketsOnce ==
  /\ cpc = "workers" /\ processes < Clients
  /\ IF processes = 0 THEN Publish("HELLO_SOCKET") ELSE UNCHANGED inbox
  /\ UNCHANGED <<subs, syncReq, syncRep, procReq, procRep, finishedQ, resultQ, controllerVars>>

(* Mutant: processes++ outside the else, so that a timeout is counted too. *)
HelloSocketsCounted ==
  /\ cpc = "workers" /\ processes < Clients
  /\ Publish("HELLO_SOCKET")
  /\ processes' = processes + 1
  /\ UNCHANGED <<subs, syncReq, syncRep, procReq, procRep, finishedQ, resultQ,
                 cpc, subscribers, sinkVars, counted>>

(* Second loop, the same on instance_syncservice.                          *)
HelloSockets ==
  /\ cpc = "workers" /\ processes < Clients
  /\ Publish("HELLO_SOCKET")
  /\ UNCHANGED <<subs, syncReq, syncRep, procReq, procRep, finishedQ, resultQ, controllerVars>>

SyncProcess(w) ==
  /\ cpc = "workers" /\ processes < Clients
  /\ w \in procReq
  /\ procReq' = procReq \ {w}
  /\ procRep' = procRep \cup {w}
  /\ processes' = processes + 1
  /\ counted' = counted \cup {w}
  /\ UNCHANGED <<subs, inbox, syncReq, syncRep, finishedQ, resultQ,
                 cpc, subscribers, sinkVars>>

(* Mutant: the barrier opens one worker too early.                         *)
StartOneEarly ==
  /\ cpc = "workers" /\ ~(processes + 1 < Clients)
  /\ Publish("StartWebsockets")
  /\ cpc' = "collect"
  /\ UNCHANGED <<subs, syncReq, syncRep, procReq, procRep, finishedQ, resultQ,
                 subscribers, processes, sinkVars, counted>>

StartWebsockets ==
  /\ cpc = "workers" /\ ~(processes < Clients)
  /\ Publish("StartWebsockets")
  /\ cpc' = "collect"
  /\ UNCHANGED <<subs, syncReq, syncRep, procReq, procRep, finishedQ, resultQ,
                 subscribers, processes, sinkVars, counted>>

-----------------------------------------------------------------------------
(* Mutant: off by one.                                                     *)
CollectingOneLess == cpc = "collect" /\ clientsFinished + clientsDied + 1 < Clients

(* Third loop, guarded by the clients not reported yet.  A "Finished" has  *)
(* four frames of which the loop body reads three: the next pass reads the *)
(* empty last one, which is neither "Finished" nor "Result".               *)
Collecting == cpc = "collect" /\ clientsFinished + clientsDied < Clients

CollectDelimiter ==
  /\ Collecting /\ delimiter
  /\ delimiter' = FALSE
  /\ UNCHANGED <<netVars, cpc, subscribers, processes, clientsFinished, clientsDied,
                 resultsReceived, connectionsSucceeded, connectionsDied, counted>>

CollectFinished(l) ==
  /\ Collecting /\ ~delimiter
  /\ finishedQ[l] # <<>>
  /\ finishedQ' = [finishedQ EXCEPT ![l] = Tail(@)]
  /\ IF Head(finishedQ[l]) = "0"
     THEN clientsFinished' = clientsFinished + 1 /\ UNCHANGED clientsDied
     ELSE clientsDied' = clientsDied + 1 /\ UNCHANGED clientsFinished
  /\ delimiter' = TRUE
  /\ UNCHANGED <<subs, inbox, syncReq, syncRep, procReq, procRep, resultQ,
                 cpc, subscribers, processes, resultsReceived,
                 connectionsSucceeded, connectionsDied, counted>>

(* Mutant: an incomplete "success" is not counted as died.                 *)
CountSuccess(outcome) ==
  /\ connectionsSucceeded' = connectionsSucceeded + (IF outcome = "complete" THEN 1 ELSE 0)
  /\ UNCHANGED connectionsDied

CountConnection(outcome) ==
  IF outcome = "complete"
  THEN connectionsSucceeded' = connectionsSucceeded + 1 /\ UNCHANGED connectionsDied
  ELSE connectionsDied' = connectionsDied + 1 /\ UNCHANGED connectionsSucceeded

CollectResult(w) ==
  /\ Collecting /\ ~delimiter
  /\ resultQ[w] # <<>>
  /\ resultQ' = [resultQ EXCEPT ![w] = Tail(@)]
  /\ resultsReceived' = resultsReceived + 1
  /\ CountConnection(Head(resultQ[w]))
  /\ UNCHANGED <<subs, inbox, syncReq, syncRep, procReq, procRep, finishedQ,
                 cpc, subscribers, processes, clientsFinished, clientsDied,
                 delimiter, counted>>

(* The report is printed and END published; sleep(1) and the closing of    *)
(* the sockets let it reach the listeners.                                 *)
End ==
  /\ cpc = "collect" /\ ~Collecting
  /\ Publish("END")
  /\ cpc' = "ended"
  /\ UNCHANGED <<subs, syncReq, syncRep, procReq, procRep, finishedQ, resultQ,
                 subscribers, processes, sinkVars, counted>>

ControllerTimeout == HelloListeners \/ HelloSockets

ControllerStep ==
  \/ \E l \in Listeners : SyncListener(l) \/ CollectFinished(l)
  \/ \E w \in Workers : SyncProcess(w) \/ CollectResult(w)
  \/ StartProcesses \/ StartWebsockets
  \/ CollectDelimiter
  \/ End
=============================================================================
