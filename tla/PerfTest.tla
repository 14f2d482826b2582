------------------------------ MODULE PerfTest ------------------------------
(***************************************************************************)
(* The distributed test: one controller, the listeners and their worker    *)
(* processes, joined by the sockets of module Network.                     *)
(***************************************************************************)
EXTENDS Controller, Listener

vars == <<netVars, workerVars, listenerVars, controllerVars>>

Init == NetInit /\ WorkerInit /\ ListenerInit /\ ControllerInit

(* The controller has counted listener l (once), and l has not crashed.    *)
Synced(l) == l \in syncRep \/ lpc[l] \in {"ready", "reaping", "ended"}

ControllerActs == ControllerStep /\ UNCHANGED <<workerVars, listenerVars>>

ControllerTimesOut == ControllerTimeout /\ UNCHANGED <<workerVars, listenerVars>>

ListenerActs(l) == ListenerStep(l) /\ UNCHANGED controllerVars

WorkerActs(w) == WorkerStep(w) /\ UNCHANGED <<listenerVars, controllerVars>>

WorkerDies(w) == WorkerKilled(w) /\ UNCHANGED <<listenerVars, controllerVars>>

(* ZeroMQ connects and subscribes in the background of a running program.  *)
ListenerSubscribes(l) ==
  /\ lpc[l] \notin {"ended", "crashed"}
  /\ Subscribe(l)
  /\ UNCHANGED <<workerVars, listenerVars, controllerVars>>

WorkerSubscribes(w) ==
  /\ wpc[w] \in Running
  /\ Subscribe(w)
  /\ UNCHANGED <<workerVars, listenerVars, controllerVars>>

(* The controller has returned and so has every listener it counted.       *)
TestOver == cpc = "ended" /\ \A l \in Listeners : Synced(l) => lpc[l] = "ended"

Stop == TestOver /\ UNCHANGED vars

Next ==
  \/ ControllerActs \/ ControllerTimesOut
  \/ \E l \in Listeners : ListenerActs(l) \/ ListenerSubscribes(l)
  \/ \E w \in Workers : WorkerActs(w) \/ WorkerDies(w) \/ WorkerSubscribes(w)
  \/ Stop

Spec == Init /\ [][Next]_vars

(* Every program keeps running and ZeroMQ keeps connecting.  Nothing makes *)
(* a worker die.                                                           *)
FairSpec ==
  /\ Spec
  /\ WF_vars(ControllerActs) /\ WF_vars(ControllerTimesOut)
  /\ \A l \in Listeners : WF_vars(ListenerActs(l)) /\ WF_vars(ListenerSubscribes(l))
  /\ \A w \in Workers : WF_vars(WorkerActs(w)) /\ WF_vars(WorkerSubscribes(w))

-----------------------------------------------------------------------------
(* The test as TestRun describes it.                                       *)
PhaseOf == [listeners |-> "gather", workers |-> "launch",
            collect |-> "run", ended |-> "reported"]

LifeOf(w) ==
  CASE wpc[w] = "none"                      -> "none"
    [] wpc[w] \in {"hello", "req", "ready"} -> "launched"
    [] wpc[w] = "working"                   -> "running"
    [] OTHER -> IF wstatus[w] = "0" THEN "completed" ELSE "died"

Test == INSTANCE TestRun WITH
          Worker <- Workers,
          Wanted <- Clients,
          phase  <- PhaseOf[cpc],
          life   <- [w \in Workers |-> LifeOf(w)],
          waited <- {w \in Workers : wpc[w] = "reaped"},
          report <- IF cpc = "ended"
                    THEN [completed |-> clientsFinished, died |-> clientsDied]
                    ELSE [completed |-> 0, died |-> 0]

(* The protocol implements TestRun: whatever is lost, late or killed, no   *)
(* worker runs before all are launched, and what is printed is the number  *)
(* of workers that completed and died, all of them waited for.             *)
ImplementsTestRun == Test!Spec

(* Every variable of the four modules stays in its type.                   *)
TypeOK == NetTypeOK /\ WorkerTypeOK /\ ListenerTypeOK /\ ControllerTypeOK

(* The PUB socket drops what is published before a subscription arrives;   *)
(* the HELLO handshake exists so that no listener the controller counts    *)
(* misses a request.  Once StartProcesses is published, each has launched  *)
(* its workers or has the request unread; once END is published, each has  *)
(* returned or has it unread.                                              *)
NoMissedRequest ==
  \A l \in Listeners : Synced(l) =>
    /\ cpc # "listeners" =>
         Queued(l, "StartProcesses") \/ \A w \in ChildrenOf(l) : wpc[w] # "none"
    /\ cpc = "ended" => Queued(l, "END") \/ lpc[l] = "ended"

(* The same for the workers, where the controller only compares a counter  *)
(* of anonymous requests with machines * processes: when StartWebsockets   *)
(* is published every launched worker is past its HELLO, and each that     *)
(* has not begun to work has the request unread.                           *)
NoMissedStart ==
  cpc \in {"collect", "ended"} =>
    \A w \in Workers :
      /\ wpc[w] # "hello"
      /\ wpc[w] \in {"req", "ready"} => Queued(w, "StartWebsockets")

(* The controller ends the test on a count of "Finished" messages: by then *)
(* every launched worker has exited and has been waited for.               *)
NoOrphans == cpc = "ended" => \A w \in Workers : wpc[w] \in {"none", "reaped"}

(* The reaping loop counts in "unfinished" exactly the children that run   *)
(* or wait to be reaped: waitpid never fails with ECHILD, and the branch   *)
(* that would push an uninitialised status is never taken.                 *)
ChildToReap ==
  \A l \in Listeners :
    lpc[l] = "reaping" =>
      /\ unfinished[l] > 0
      /\ unfinished[l] = Cardinality({w \in ChildrenOf(l) : wpc[w] \in Running \cup {"exited"}})

(* The messages that wait in a family of queues: <<s, i>> is the i-th of   *)
(* queue s.                                                                *)
Entries(q) == UNION {{s} \X (1 .. Len(q[s])) : s \in DOMAIN q}

FinishedWaiting(status) == {e \in Entries(finishedQ) : finishedQ[e[1]][e[2]] = status}

ReapedWith(status) == {w \in Workers : wpc[w] = "reaped" /\ wstatus[w] = status}

SentBy(S) == UNION {{w} \X (1 .. sent[w]) : w \in S}

(* Each exit of a worker is reported once and counted once, under the      *)
(* right heading: what the controller has counted and what waits at its    *)
(* PULL socket are together the workers that were waited for.              *)
ReportedOnce ==
  /\ clientsFinished + Cardinality(FinishedWaiting("0")) = Cardinality(ReapedWith("0"))
  /\ clientsDied + Cardinality(FinishedWaiting("nonzero")) = Cardinality(ReapedWith("nonzero"))

(* No result is lost or duplicated on its way, except the unsent tail of a *)
(* worker that died; and each received one has exactly one verdict.        *)
ResultsConserved ==
  LET received == resultsReceived + Cardinality(Entries(resultQ))
  IN  /\ received <= Cardinality(SentBy(Workers))
      /\ received >= Cardinality(SentBy({w \in Workers : wstatus[w] = "0"}))
      /\ connectionsSucceeded + connectionsDied = resultsReceived

(* A worker dead before the controller has seen its request: the second    *)
(* loop of the controller then waits for ever (README, TODO: "Dealing      *)
(* better with failures").                                                 *)
EarlyDeath ==
  \E w \in Workers : wpc[w] \in {"exited", "reaped"} /\ w \notin procReq \cup counted

LaunchFailed == \E l \in Listeners : lpc[l] = "crashed"

(* A listener that dies half way through its launch leaves workers behind  *)
(* that answer HELLO_SOCKET as if nothing had happened, and a worker that  *)
(* dies before its request leaves its siblings.  They never make up the    *)
(* number the controller waits for: no client runs, and no report is       *)
(* printed, for a testbed that is incomplete.                              *)
NoPartialTest ==
  LaunchFailed \/ EarlyDeath =>
    /\ cpc = "workers"
    /\ \A w \in Workers : wpc[w] # "working" /\ resultQ[w] = <<>>

(* Unless a worker dies early or a launch fails, the test ends whatever is *)
(* killed later: the controller prints its report and the listeners it     *)
(* counted return.                                                         *)
TestEnds == <>(TestOver \/ EarlyDeath \/ LaunchFailed)

(* README: "the sink part of the controller waits for results and outputs  *)
(* aggregated statistics over all connections".  A result that a worker    *)
(* pushed is in the report.                                                *)
NoResultLeftBehind == cpc = "ended" => \A w \in Workers : resultQ[w] = <<>>

(* README: "Launch at least the configured number of listeners", "at the   *)
(* moment expect everything to shut down nicely".  Every listener returns. *)
EveryListenerEnds == <>(EarlyDeath \/ LaunchFailed \/ \A l \in Listeners : lpc[l] = "ended")
=============================================================================
