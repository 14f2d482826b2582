------------------------------ MODULE Listener ------------------------------
(***************************************************************************)
(* The listener (listener.cpp), one on each machine: wait for              *)
(* HELLO_LISTENER, announce itself, then serve requests: StartProcesses    *)
(* launches the workers and waits for all of them, pushing one "Finished"  *)
(* per exit; END ends the program.                                         *)
(***************************************************************************)
EXTENDS Worker

VARIABLES
  lpc,         \* lpc[l]: where main is
  unfinished   \* unfinished[l]: children the reaping loop still waits for

listenerVars == <<lpc, unfinished>>

ListenerStates ==
  {"hello",    \* in s_recv(subscriber), outer loop
   "req",      \* request sent, in s_recv(syncclient)
   "ready",    \* in s_recv(subscriber), inner loop
   "reaping",  \* in the waitpid loop
   "ended",    \* main has returned
   "crashed"}  \* bp::launch has thrown, and nothing in main catches it

ChildrenOf(l) == {w \in Workers : w[1] = l}

ListenerInit ==
  /\ lpc = [l \in Listeners |-> "hello"]
  /\ unfinished = [l \in Listeners |-> 0]

ListenerTypeOK ==
  /\ lpc \in [Listeners -> ListenerStates]
  /\ unfinished \in [Listeners -> 0 .. Processes]

-----------------------------------------------------------------------------
(* The outer loop: HELLO_LISTENER is answered with a request on REQ 5562,  *)
(* anything else, END included, is ignored.                                *)
ListenerHello(l) ==
  /\ lpc[l] = "hello" /\ inbox[l] # <<>>
  /\ Receive(l)
  /\ IF Head(inbox[l]) = "HELLO_LISTENER"
     THEN /\ syncReq' = syncReq \cup {l}
          /\ lpc' = [lpc EXCEPT ![l] = "req"]
     ELSE UNCHANGED <<syncReq, lpc>>
  /\ UNCHANGED <<subs, syncRep, procReq, procRep, finishedQ, resultQ, unfinished, workerVars>>

ListenerSynced(l) ==
  /\ lpc[l] = "req" /\ l \in syncRep
  /\ syncRep' = syncRep \ {l}
  /\ lpc' = [lpc EXCEPT ![l] = "ready"]
  /\ UNCHANGED <<subs, inbox, syncReq, procReq, procRep, finishedQ, resultQ, unfinished, workerVars>>

(* Mutant: one child too few is started.                                   *)
LaunchOneLess(l) ==
  /\ wpc' = [w \in Workers |-> IF w[1] = l /\ w[2] > 0 THEN "hello" ELSE wpc[w]]
  /\ unfinished' = [unfinished EXCEPT ![l] = Processes]

(* start_child for every child; the reaping loop begins after the last.    *)
Launch(l) ==
  /\ wpc' = [w \in Workers |-> IF w[1] = l THEN "hello" ELSE wpc[w]]
  /\ unfinished' = [unfinished EXCEPT ![l] = Processes]

(* bp::launch throws (fork fails) after some of the children were started. *)
(* The exception leaves main: the listener is gone, its children are not.  *)
LaunchFails(l) ==
  /\ \E n \in 0 .. Processes - 1 :
       wpc' = [w \in Workers |-> IF w[1] = l /\ w[2] < n THEN "hello" ELSE wpc[w]]
  /\ UNCHANGED unfinished

(* The inner loop: StartProcesses, END, anything else.                     *)
ListenerRequest(l) ==
  /\ lpc[l] = "ready" /\ inbox[l] # <<>>
  /\ Receive(l)
  /\ CASE Head(inbox[l]) = "END" ->
            /\ lpc' = [lpc EXCEPT ![l] = "ended"]
            /\ UNCHANGED <<wpc, unfinished>>
       [] Head(inbox[l]) = "StartProcesses" ->
            \/ Launch(l) /\ lpc' = [lpc EXCEPT ![l] = "reaping"]
            \/ LaunchFails(l) /\ lpc' = [lpc EXCEPT ![l] = "crashed"]
       [] OTHER -> UNCHANGED <<lpc, wpc, unfinished>>
  /\ UNCHANGED <<subs, syncReq, syncRep, procReq, procRep, finishedQ, resultQ, wstatus, sent>>

(* waitpid(0, &status, WNOHANG) as the outcomes the loop acts on: a zombie *)
(* and its status; with no child left -1 and an uninitialised status; no   *)
(* outcome while all children run (the loop sleeps and polls again).       *)
WaitPid(l) ==
  LET zombies == {w \in ChildrenOf(l) : wpc[w] = "exited"}
      running == {w \in ChildrenOf(l) : wpc[w] \in Running}
  IN  IF zombies \cup running = {}
      THEN {[pid |-> {}, status |-> s] : s \in Statuses}
      ELSE {[pid |-> {w}, status |-> wstatus[w]] : w \in zombies}

(* Mutant: the exit code is pushed, which is 0 for a killed child.         *)
PushExitCode(l, status) == finishedQ' = [finishedQ EXCEPT ![l] = Append(@, "0")]

(* "Finished", an empty name, the wait status, an empty frame.             *)
PushFinished(l, status) == finishedQ' = [finishedQ EXCEPT ![l] = Append(@, status)]

(* One pass of the reaping loop that gets an outcome: "Finished" is pushed *)
(* in both branches.                                                       *)
Reap(l) ==
  /\ lpc[l] = "reaping"
  /\ \E r \in WaitPid(l) :
       /\ wpc' = [w \in Workers |-> IF w \in r.pid THEN "reaped" ELSE wpc[w]]
       /\ PushFinished(l, r.status)
  /\ unfinished' = [unfinished EXCEPT ![l] = @ - 1]
  /\ lpc' = [lpc EXCEPT ![l] = IF unfinished[l] > 1 THEN @ ELSE "ready"]
  /\ UNCHANGED <<subs, inbox, syncReq, syncRep, procReq, procRep, resultQ, wstatus, sent>>

ListenerStep(l) ==
  ListenerHello(l) \/ ListenerSynced(l) \/ ListenerRequest(l) \/ Reap(l)
=============================================================================
