----------------------------- MODULE DoTheWork -----------------------------
(***************************************************************************)
(* doTheWork (listener-websocket.cpp) in one worker process: four loops    *)
(* that create, run, wait for and report on the websocket clients, and the *)
(* catch clause of main around it.  The clients, which keep running while  *)
(* the loops advance, are those of ClientLife; a client that terminates or *)
(* crashes takes the process with it.                                      *)
(*                                                                         *)
(* thread_type is std::thread: destroying one that nobody has joined ends  *)
(* the process, also when an exception on its way to main destroys it.     *)
(***************************************************************************)
EXTENDS Naturals, Sequences

CONSTANTS
  Instances,   \* clients in the worker
  Total        \* messages per client

ASSUME WorkAssumption == Instances \in Nat \ {0} /\ Total \in Nat

Clients == 1 .. Instances

VARIABLES
  dpc,         \* the loop doTheWork is in, how it ended, how the process ended
  next,        \* the client the loop is at
  uriOk,       \* get_connection accepts the uri, the same for all clients
  life,        \* life[c], as in ClientLife; "none" before it is constructed
  result,      \* result[c], as in ClientLife
  sink         \* the "Result" messages pushed

vars == <<dpc, next, uriOk, life, result, sink>>

(* What a client can end with.                                             *)
Results == LET C == INSTANCE ClientLife IN C!Results

Init ==
  /\ dpc = "create" /\ next = 1
  /\ uriOk \in BOOLEAN
  /\ life = [c \in Clients |-> "none"]
  /\ result = [c \in Clients |-> {}]
  /\ sink = <<>>

(* Clients with a thread that has been started and not joined, ended or    *)
(* not.                                                                    *)
Joinable == {c \in Clients : life[c] \in {"asio", "running", "done"}}

Over == dpc \in {"exited", "dead"}

(* Mutant: i <= instances.                                                 *)
AdvancePast(loop, following) ==
  IF next <= Instances THEN next' = next + 1 /\ dpc' = loop
                       ELSE next' = 1 /\ dpc' = following

(* One more pass of the loop, or the first of the following one.           *)
Advance(loop, following) ==
  IF next < Instances THEN next' = next + 1 /\ dpc' = loop
                      ELSE next' = 1 /\ dpc' = following

(* Mutant: the threads are detached when their client is destroyed.        *)
ThrowsDetaching(joinable) == dpc' = "caught" /\ UNCHANGED next

(* An exception leaves doTheWork: its clients are destroyed, main catches  *)
(* it and returns 0, unless a destroyed client has a joinable thread.      *)
Throws(joinable) ==
  /\ dpc' = IF joinable = {} THEN "caught" ELSE "dead"
  /\ UNCHANGED next

-----------------------------------------------------------------------------
(* The constructor, which throws when init_asio gets no descriptors.       *)
Create ==
  /\ dpc = "create"
  /\ \/ /\ life' = [life EXCEPT ![next] = "created"]
        /\ Advance("create", "run")
     \/ Throws(Joinable) /\ UNCHANGED life
  /\ UNCHANGED <<uriOk, result, sink>>

(* run: without a connection it returns early; otherwise it starts the two *)
(* threads, and throws when either of them cannot be started.              *)
Run ==
  /\ dpc = "run"
  /\ \/ /\ life' = [life EXCEPT ![next] = IF uriOk THEN "running" ELSE "idle"]
        /\ Advance("run", "wait")
     \/ uriOk /\ Throws(Joinable) /\ UNCHANGED life
     \/ /\ uriOk /\ Throws(Joinable \cup {next})
        /\ life' = [life EXCEPT ![next] = "asio"]
  /\ UNCHANGED <<uriOk, result, sink>>

(* Mutant: the last client is not waited for.                              *)
WaitButLast ==
  /\ dpc = "wait"
  /\ \/ life[next] = "idle" /\ dpc' = "dead" /\ UNCHANGED <<next, life>>
     \/ /\ life[next] = "done" \/ next = Instances
        /\ life' = IF life[next] = "done" THEN [life EXCEPT ![next] = "joined"] ELSE life
        /\ Advance("wait", "report")
  /\ UNCHANGED <<uriOk, result, sink>>

(* wait: joins the threads of one client after the other, through a null   *)
(* pointer if there are none.                                              *)
Wait ==
  /\ dpc = "wait"
  /\ \/ life[next] = "idle" /\ dpc' = "dead" /\ UNCHANGED <<next, life>>
     \/ /\ life[next] = "done"
        /\ life' = [life EXCEPT ![next] = "joined"]
        /\ Advance("wait", "report")
  /\ UNCHANGED <<uriOk, result, sink>>

(* Mutant: the statistics of the first client, whichever the loop is at.   *)
ReportFirst ==
  /\ dpc = "report"
  /\ \/ /\ \E r \in result[1] : sink' = Append(sink, r)
        /\ Advance("report", "returned")
     \/ Throws(Joinable) /\ UNCHANGED sink
  /\ UNCHANGED <<uriOk, life, result>>

(* Mutant: after an exception the results are pushed again from the first. *)
ReportRetried ==
  /\ dpc = "report"
  /\ \/ /\ \E r \in result[next] : sink' = Append(sink, r)
        /\ Advance("report", "returned")
     \/ next' = 1 /\ UNCHANGED <<dpc, sink>>
  /\ UNCHANGED <<uriOk, life, result>>

(* get_stats and the three frames of a "Result".  A socket_t::send that    *)
(* fails throws, and a message cut short in this way is never delivered.   *)
Report ==
  /\ dpc = "report"
  /\ \/ /\ \E r \in result[next] : sink' = Append(sink, r)
        /\ Advance("report", "returned")
     \/ Throws(Joinable) /\ UNCHANGED sink
  /\ UNCHANGED <<uriOk, life, result>>

(* After doTheWork, or the catch clause, main returns 0.                   *)
MainReturns ==
  /\ dpc \in {"returned", "caught"}
  /\ dpc' = "exited"
  /\ UNCHANGED <<next, uriOk, life, result, sink>>

-----------------------------------------------------------------------------
(* The threads of client c.                                                *)

ThreadsEnd(c) ==
  /\ ~Over /\ life[c] = "running"
  /\ life' = [life EXCEPT ![c] = "done"]
  /\ \E r \in Results : result' = [result EXCEPT ![c] = {r}]
  /\ UNCHANGED <<dpc, next, uriOk, sink>>

(* Mutant: a client that cannot close does not get to its end either.      *)
TerminateAlone(c) ==
  /\ ~Over /\ life[c] = "running"
  /\ life' = [life EXCEPT ![c] = "terminated"]
  /\ UNCHANGED <<dpc, next, uriOk, result, sink>>

(* close() throws in the telemetry thread: the process is gone.            *)
Terminate(c) ==
  /\ ~Over /\ life[c] = "running"
  /\ life' = [life EXCEPT ![c] = "terminated"]
  /\ dpc' = "dead"
  /\ UNCHANGED <<next, uriOk, result, sink>>

-----------------------------------------------------------------------------
Main == Create \/ Run \/ Wait \/ Report \/ MainReturns

Threads(c) == ThreadsEnd(c) \/ Terminate(c)

Stop == Over /\ UNCHANGED vars

Next == Main \/ (\E c \in Clients : Threads(c)) \/ Stop

Spec == Init /\ [][Next]_vars

(* Every thread is scheduled.  That a client which runs comes to an end is *)
(* ClientEnds of TelemetryClient.                                          *)
FairSpec == Spec /\ WF_vars(Main) /\ \A c \in Clients : WF_vars(Threads(c))

-----------------------------------------------------------------------------
(* The worker process as module Worker has it: one worker, of which only   *)
(* the results and the end are seen.                                       *)
me == <<"listener", 0>>

Outcome(r) == IF r.type = "success" /\ r.count = Total THEN "complete" ELSE "incomplete"

Mine(value) == [w \in {me} |-> value]

Process == INSTANCE Worker WITH
  Listeners <- {"listener"}, Machines <- 1, Processes <- 1, MaxHello <- 1,
  subs <- Mine(0), inbox <- Mine(<<>>),
  syncReq <- {}, syncRep <- {}, procReq <- {}, procRep <- {}, finishedQ <- <<>>,
  resultQ <- Mine([k \in 1 .. Len(sink) |-> Outcome(sink[k])]),
  wpc     <- Mine(IF Over THEN "exited" ELSE "working"),
  wstatus <- Mine(IF dpc = "dead" THEN "nonzero" ELSE "0"),
  sent    <- Mine(Len(sink))

(* Module Worker, which the composed test is made of, allows for all that  *)
(* doTheWork does: whatever its clients do, a worker pushes one result at  *)
(* a time and no more than instances, and then returns or dies, once.      *)
ImplementsWorker ==
  [][\/ Process!SendResult(me) \/ Process!WorkerReturns(me)
     \/ Process!WorkerKilled(me)]_<<Process!workerVars, sink>>

TypeOK ==
  /\ dpc \in {"create", "run", "wait", "report", "returned", "caught",
              "exited", "dead"}
  /\ next \in Clients
  /\ uriOk \in BOOLEAN
  /\ life \in [Clients -> {"none", "created", "idle", "asio", "running", "done",
                           "joined", "terminated"}]
  /\ result \in [Clients -> SUBSET Results]
  /\ sink \in Seq(Results)

(* One client can take down the process with the results of all the others *)
(* - but only before the first of them is reported: from then on every     *)
(* thread has been joined.  So the controller never gets some results of a *)
(* worker that its own clients killed.                                     *)
DeathBeforeReport == dpc = "dead" => sink = <<>>

(* main swallows an exception and the worker exits with 0, "completed" to  *)
(* the controller.  No client is running or connected then: either none    *)
(* was ever started, or each has been waited for.                          *)
CaughtQuietly ==
  dpc = "caught" =>
    \/ sink = <<>> /\ \A c \in Clients : life[c] \in {"none", "created"}
    \/ \A c \in Clients : life[c] = "joined"

(* What is reported is final and in order: the first Len(sink) clients,    *)
(* each with the statistics its threads ended with; all of them if         *)
(* doTheWork returned.                                                     *)
ReportsInOrder ==
  /\ \A k \in 1 .. Len(sink) : result[k] = {sink[k]}
  /\ dpc = "returned" => Len(sink) = Instances

(* The worker comes to an end although it waits for its clients one by     *)
(* one: by returning, by an exception or by its death.                     *)
WorkEnds == <>Over
=============================================================================
