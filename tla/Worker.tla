------------------------------- MODULE Worker -------------------------------
(***************************************************************************)
(* The worker process (listener-websocket.cpp): wait for HELLO_SOCKET,     *)
(* announce itself, wait for StartWebsockets, run the websocket clients,   *)
(* push one "Result" per client, exit.  The websocket clients themselves   *)
(* are module TelemetryClient; here only their outcome matters.            *)
(***************************************************************************)
EXTENDS Network

VARIABLES
  wpc,         \* wpc[w]: where main is, and the state of the OS process
  wstatus,     \* wstatus[w]: its wait status once it has exited
  sent         \* sent[w]: results it has pushed

workerVars == <<wpc, wstatus, sent>>

WorkerStates ==
  {"none",     \* not launched yet
   "hello",    \* in s_recv(subscriber), outer loop
   "req",      \* request sent, in s_recv(syncclient)
   "ready",    \* in s_recv(subscriber), inner loop
   "working",  \* in doTheWork
   "exited",   \* terminated, not yet waited for (a zombie)
   "reaped"}   \* waited for by its listener

Running == {"hello", "req", "ready", "working"}

WorkerInit ==
  /\ wpc = [w \in Workers |-> "none"]
  /\ wstatus = [w \in Workers |-> "0"]
  /\ sent = [w \in Workers |-> 0]

WorkerTypeOK ==
  /\ wpc \in [Workers -> WorkerStates]
  /\ wstatus \in [Workers -> Statuses]
  /\ sent \in [Workers -> 0 .. Instances]

-----------------------------------------------------------------------------
(* The outer loop: HELLO_SOCKET is answered with a request on REQ 5563,    *)
(* anything else is ignored.                                               *)
WorkerHello(w) ==
  /\ wpc[w] = "hello" /\ inbox[w] # <<>>
  /\ Receive(w)
  /\ IF Head(inbox[w]) = "HELLO_SOCKET"
     THEN /\ procReq' = procReq \cup {w}
          /\ wpc' = [wpc EXCEPT ![w] = "req"]
     ELSE UNCHANGED <<procReq, wpc>>
  /\ UNCHANGED <<subs, syncReq, syncRep, procRep, finishedQ, resultQ, wstatus, sent>>

WorkerSynced(w) ==
  /\ wpc[w] = "req" /\ w \in procRep
  /\ procRep' = procRep \ {w}
  /\ wpc' = [wpc EXCEPT ![w] = "ready"]
  /\ UNCHANGED <<subs, inbox, syncReq, syncRep, procReq, finishedQ, resultQ, wstatus, sent>>

(* The inner loop: StartWebsockets (with its seven parameters and the      *)
(* empty delimiter) enters doTheWork, anything else is ignored.            *)
WorkerRequest(w) ==
  /\ wpc[w] = "ready" /\ inbox[w] # <<>>
  /\ Receive(w)
  /\ wpc' = [wpc EXCEPT ![w] = IF Head(inbox[w]) = "StartWebsockets"
                               THEN "working" ELSE @]
  /\ UNCHANGED <<subs, syncReq, syncRep, procReq, procRep, finishedQ, resultQ, wstatus, sent>>

(* doTheWork, last loop: all clients have been waited for; one "Result".   *)
SendResult(w) ==
  /\ wpc[w] = "working" /\ sent[w] < Instances
  /\ \E o \in Outcomes : resultQ' = [resultQ EXCEPT ![w] = Append(@, o)]
  /\ sent' = [sent EXCEPT ![w] = @ + 1]
  /\ UNCHANGED <<subs, inbox, syncReq, syncRep, procReq, procRep, finishedQ, wpc, wstatus>>

(* The process ends: its sockets are closed.                               *)
Exit(w, status) ==
  /\ wpc' = [wpc EXCEPT ![w] = "exited"]
  /\ wstatus' = [wstatus EXCEPT ![w] = status]
  /\ subs' = [subs EXCEPT ![w] = 0]
  /\ inbox' = [inbox EXCEPT ![w] = <<>>]
  /\ procRep' = procRep \ {w}
  /\ UNCHANGED <<syncReq, syncRep, finishedQ, sent>>

(* main returns 0, after doTheWork has pushed every result or has thrown   *)
(* an exception that main catches.  Destroying the context flushes PUSH.   *)
WorkerReturns(w) ==
  /\ wpc[w] = "working"
  /\ Exit(w, "0")
  /\ UNCHANGED <<procReq, resultQ>>

(* The process is killed (kill-clients.sh), or aborts because a client     *)
(* thread throws.  What its io thread had not written yet is lost: the     *)
(* tail of its results, and a request the controller has not seen.         *)
WorkerKilled(w) ==
  /\ wpc[w] \in Running
  /\ Exit(w, "nonzero")
  /\ procReq' \in {procReq, procReq \ {w}}
  /\ \E n \in 0 .. Len(resultQ[w]) :
       resultQ' = [resultQ EXCEPT ![w] = SubSeq(@, 1, n)]

WorkerStep(w) ==
  WorkerHello(w) \/ WorkerSynced(w) \/ WorkerRequest(w)
    \/ SendResult(w) \/ WorkerReturns(w)
=============================================================================
