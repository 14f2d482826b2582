--------------------------- MODULE DoTheWorkProof ---------------------------
(***************************************************************************)
(* Proofs about DoTheWork, for every number of clients and of messages.    *)
(***************************************************************************)
EXTENDS DoTheWork, TLAPS

(* A client whose threads were started, as long as nobody has joined them. *)
Started(c) == life[c] \in {"running", "done"}

(* How far the four loops have come with the clients, and what has been    *)
(* reported; a client that was started is idle only if the uri is refused. *)
Progress ==
  /\ dpc = "create" =>
       /\ sink = <<>>
       /\ \A c \in Clients : life[c] \in {"none", "created"}
  /\ dpc = "run" =>
       /\ sink = <<>>
       /\ \A c \in Clients : IF c < next THEN Started(c) \/ (life[c] = "idle" /\ ~uriOk)
                                         ELSE life[c] \in {"none", "created"}
  /\ dpc = "wait" =>
       /\ sink = <<>>
       /\ \A c \in Clients : IF c < next THEN life[c] = "joined"
                                         ELSE Started(c) \/ life[c] = "idle"
  /\ dpc = "report" => Len(sink) = next - 1
  /\ dpc \in {"report", "returned"} => \A c \in Clients : life[c] = "joined"

(* The statistics of a client exist once its threads have ended.           *)
Settled ==
  \A c \in Clients : life[c] \in {"done", "joined"} => \E r \in Results : result[c] = {r}

Inv ==
  /\ TypeOK /\ Progress /\ Settled
  /\ DeathBeforeReport /\ CaughtQuietly /\ ReportsInOrder

-----------------------------------------------------------------------------
(* The constants, and what one more pass of a loop does to its index.      *)
LEMMA AdvanceIndex ==
  ASSUME NEW loop, NEW following, next \in Clients, Advance(loop, following)
  PROVE  /\ next' \in Clients
         /\ \/ next < Instances /\ next' = next + 1 /\ dpc' = loop
            \/ next = Instances /\ next' = 1 /\ dpc' = following
BY WorkAssumption DEF Advance, Clients

(* Nothing is promised before the first client exists.                     *)
LEMMA InitInv == Init => Inv
<1> SUFFICES ASSUME Init PROVE Inv
  OBVIOUS
<1>1. TypeOK
  BY WorkAssumption DEF Init, TypeOK, Clients
<1>2. Progress /\ Settled
  BY DEF Init, Progress, Settled
<1>3. DeathBeforeReport /\ CaughtQuietly /\ ReportsInOrder
  BY DEF Init, DeathBeforeReport, CaughtQuietly, ReportsInOrder
<1> QED BY <1>1, <1>2, <1>3 DEF Inv

LEMMA CreateInv == Inv /\ Create => Inv'
<1> SUFFICES ASSUME Inv, Create PROVE Inv'
  OBVIOUS
<1> USE DEF Inv
<1>0. /\ sink = <<>> /\ Joinable = {}
      /\ \A c \in Clients : life[c] \in {"none", "created"}
  BY DEF Create, Progress, Joinable
<1>1. CASE life' = [life EXCEPT ![next] = "created"] /\ Advance("create", "run")
  <2>1. TypeOK'
    BY <1>1, AdvanceIndex DEF Create, TypeOK
  <2>2. \A c \in Clients : life'[c] \in {"none", "created"}
    BY <1>0, <1>1 DEF TypeOK
  <2>3. Progress'
    BY <1>0, <1>1, <2>2, AdvanceIndex, WorkAssumption
    DEF Create, Progress, Clients, TypeOK
  <2> QED
    BY <1>0, <1>1, <2>1, <2>2, <2>3, AdvanceIndex
    DEF Create, TypeOK, Settled, DeathBeforeReport, CaughtQuietly, ReportsInOrder
<1>2. CASE Throws(Joinable) /\ UNCHANGED life
  BY <1>0, <1>2
  DEF Create, Throws, TypeOK, Progress, Settled, DeathBeforeReport,
      CaughtQuietly, ReportsInOrder
<1> QED BY <1>1, <1>2 DEF Create

(* An exception in run is caught only if no client has been started: with  *)
(* a uri that is accepted every client before this one has threads.        *)
LEMMA RunInv == Inv /\ Run => Inv'
<1> SUFFICES ASSUME Inv, Run PROVE Inv'
  OBVIOUS
<1> USE DEF Inv
<1>0. /\ dpc = "run" /\ sink = <<>> /\ next \in Clients
      /\ \A c \in Clients : IF c < next THEN Started(c) \/ (life[c] = "idle" /\ ~uriOk)
                                        ELSE life[c] \in {"none", "created"}
  BY DEF Run, Progress, TypeOK
<1>1. CASE /\ life' = [life EXCEPT ![next] = IF uriOk THEN "running" ELSE "idle"]
           /\ Advance("run", "wait")
  <2>1. TypeOK'
    BY <1>1, AdvanceIndex DEF Run, TypeOK
  <2>2. /\ life'[next] = IF uriOk THEN "running" ELSE "idle"
        /\ \A c \in Clients : c # next => life'[c] = life[c]
    BY <1>1, <1>0 DEF TypeOK
  <2>3. Progress'
    <3>1. CASE next < Instances /\ next' = next + 1 /\ dpc' = "run"
      BY <1>0, <2>2, <3>1 DEF Run, Progress, Started, Clients
    <3>2. CASE next = Instances /\ next' = 1 /\ dpc' = "wait"
      BY <1>0, <2>2, <3>2 DEF Run, Progress, Started, Clients
    <3> QED BY <1>0, <1>1, <3>1, <3>2, AdvanceIndex
  <2>4. Settled'
    BY <1>0, <2>2 DEF Run, Settled, Results
  <2> QED
    BY <1>0, <1>1, <2>1, <2>3, <2>4, AdvanceIndex
    DEF Run, DeathBeforeReport, CaughtQuietly, ReportsInOrder
<1>2. CASE uriOk /\ Throws(Joinable) /\ UNCHANGED life
  <2>1. Joinable = {} => \A c \in Clients : life[c] \in {"none", "created"}
    BY <1>0, <1>2 DEF Joinable, Started
  <2> QED
    BY <1>0, <1>2, <2>1
    DEF Run, Throws, TypeOK, Progress, Settled, DeathBeforeReport, CaughtQuietly,
        ReportsInOrder
<1>3. CASE /\ uriOk /\ Throws(Joinable \cup {next})
           /\ life' = [life EXCEPT ![next] = "asio"]
  <2>1. dpc' = "dead" /\ next' = next
    BY <1>3 DEF Throws
  <2>2. TypeOK' /\ Settled'
    BY <1>3, <2>1 DEF Run, TypeOK, Settled
  <2> QED
    BY <1>0, <2>1, <2>2
    DEF Run, Progress, DeathBeforeReport, CaughtQuietly, ReportsInOrder
<1> QED BY <1>1, <1>2, <1>3 DEF Run

LEMMA WaitInv == Inv /\ Wait => Inv'
<1> SUFFICES ASSUME Inv, Wait PROVE Inv'
  OBVIOUS
<1> USE DEF Inv
<1>0. /\ dpc = "wait" /\ sink = <<>> /\ next \in Clients
      /\ \A c \in Clients : IF c < next THEN life[c] = "joined"
                                        ELSE Started(c) \/ life[c] = "idle"
  BY DEF Wait, Progress, TypeOK
<1>1. CASE life[next] = "idle" /\ dpc' = "dead" /\ UNCHANGED <<next, life>>
  BY <1>0, <1>1
  DEF Wait, TypeOK, Progress, Settled, DeathBeforeReport, CaughtQuietly, ReportsInOrder
<1>2. CASE /\ life[next] = "done"
           /\ life' = [life EXCEPT ![next] = "joined"]
           /\ Advance("wait", "report")
  <2>1. TypeOK'
    BY <1>2, AdvanceIndex DEF Wait, TypeOK
  <2>2. life'[next] = "joined" /\ \A c \in Clients : c # next => life'[c] = life[c]
    BY <1>0, <1>2 DEF TypeOK
  <2>3. Progress'
    <3>1. CASE next < Instances /\ next' = next + 1 /\ dpc' = "wait"
      BY <1>0, <2>2, <3>1 DEF Wait, Progress, Started, Clients
    <3>2. CASE next = Instances /\ next' = 1 /\ dpc' = "report"
      BY <1>0, <2>2, <3>2 DEF Wait, Progress, Started, Clients
    <3> QED BY <1>0, <1>2, <3>1, <3>2, AdvanceIndex
  <2>4. Settled'
    BY <1>0, <1>2, <2>2 DEF Wait, Settled, Results
  <2> QED
    BY <1>0, <1>2, <2>1, <2>3, <2>4, AdvanceIndex
    DEF Wait, DeathBeforeReport, CaughtQuietly, ReportsInOrder
<1> QED BY <1>1, <1>2 DEF Wait

LEMMA ReportInv == Inv /\ Report => Inv'
<1> SUFFICES ASSUME Inv, Report PROVE Inv'
  OBVIOUS
<1> USE DEF Inv
<1>0. /\ dpc = "report" /\ next \in Clients /\ Len(sink) = next - 1
      /\ \A c \in Clients : life[c] = "joined"
  BY DEF Report, Progress, TypeOK
<1>1. ASSUME NEW r \in result[next], sink' = Append(sink, r), Advance("report", "returned")
      PROVE  Inv'
  <2>1. r \in Results /\ result[next] = {r}
    BY <1>0, <1>1 DEF Settled
  <2>2. TypeOK'
    BY <1>1, <2>1, AdvanceIndex DEF Report, TypeOK
  <2>3. /\ Len(sink') = next
        /\ \A k \in 1 .. Len(sink') : sink'[k] = IF k = next THEN r ELSE sink[k]
    BY <1>0, <1>1, <2>1 DEF TypeOK, Clients
  <2>4. Progress'
    BY <1>0, <1>1, <2>3, AdvanceIndex DEF Report, Progress, Clients
  <2>5. ReportsInOrder'
    BY <1>0, <1>1, <2>1, <2>3, AdvanceIndex DEF Report, ReportsInOrder, Clients
  <2> QED
    BY <1>0, <1>1, <2>2, <2>4, <2>5, AdvanceIndex
    DEF Report, Settled, DeathBeforeReport, CaughtQuietly
<1>2. CASE Throws(Joinable) /\ UNCHANGED sink
  <2>1. Joinable = {}
    BY <1>0 DEF Joinable
  <2> QED
    BY <1>0, <1>2, <2>1
    DEF Report, Throws, TypeOK, Progress, Settled, DeathBeforeReport, CaughtQuietly,
        ReportsInOrder
<1> QED BY <1>1, <1>2 DEF Report

LEMMA MainReturnsInv == Inv /\ MainReturns => Inv'
BY DEF Inv, MainReturns, TypeOK, Progress, Settled, DeathBeforeReport, CaughtQuietly,
       ReportsInOrder

(* A client still runs only while nothing has been reported.               *)
LEMMA RunningUnreported ==
  ASSUME Inv, NEW c \in Clients, ~Over, life[c] = "running"
  PROVE  dpc \in {"run", "wait"} /\ sink = <<>>
BY DEF Inv, TypeOK, Progress, CaughtQuietly, Over

LEMMA ThreadsEndInv == ASSUME Inv, NEW c \in Clients, ThreadsEnd(c) PROVE Inv'
<1> USE DEF Inv
<1>0. dpc \in {"run", "wait"} /\ sink = <<>> /\ life[c] = "running"
  BY RunningUnreported DEF ThreadsEnd
<1>1. PICK r \in Results : result' = [result EXCEPT ![c] = {r}]
  BY DEF ThreadsEnd
<1>2. life'[c] = "done" /\ \A d \in Clients : d # c => life'[d] = life[d]
  BY DEF ThreadsEnd, TypeOK
<1>3. TypeOK'
  BY <1>1 DEF ThreadsEnd, TypeOK
<1>4. Progress'
  BY <1>0, <1>2 DEF ThreadsEnd, Progress, Started
<1>5. Settled'
  BY <1>1, <1>2 DEF ThreadsEnd, Settled, TypeOK
<1> QED
  BY <1>0, <1>3, <1>4, <1>5 DEF ThreadsEnd, DeathBeforeReport, CaughtQuietly, ReportsInOrder

LEMMA TerminateInv == ASSUME Inv, NEW c \in Clients, Terminate(c) PROVE Inv'
<1> USE DEF Inv
<1>0. sink = <<>>
  BY RunningUnreported DEF Terminate
<1>1. TypeOK' /\ Settled'
  BY DEF Terminate, TypeOK, Settled
<1> QED
  BY <1>0, <1>1 DEF Terminate, Progress, DeathBeforeReport, CaughtQuietly, ReportsInOrder

(* Every step of the process and of its clients' threads keeps Inv.        *)
THEOREM Invariance == Spec => []Inv
<1>1. Inv /\ [Next]_vars => Inv'
  <2> SUFFICES ASSUME Inv, [Next]_vars PROVE Inv'
    OBVIOUS
  <2>1. CASE Main
    BY <2>1, CreateInv, RunInv, WaitInv, ReportInv, MainReturnsInv DEF Main
  <2>2. ASSUME NEW c \in Clients, Threads(c) PROVE Inv'
    BY <2>2, ThreadsEndInv, TerminateInv DEF Threads
  <2>3. CASE UNCHANGED vars
    BY <2>3
    DEF vars, Inv, TypeOK, Progress, Started, Settled, DeathBeforeReport, CaughtQuietly,
        ReportsInOrder
  <2> QED BY <2>1, <2>2, <2>3 DEF Next, Stop
<1> QED BY InitInv, <1>1, PTL DEF Spec

(* The variables of a worker process stay in their types.                  *)
THEOREM TypeCorrect == Spec => []TypeOK
BY Invariance, PTL DEF Inv

(* A worker that its own clients kill has reported nothing.                *)
THEOREM DeathSilent == Spec => []DeathBeforeReport
BY Invariance, PTL DEF Inv

(* When main swallows an exception no client is running.                   *)
THEOREM ExceptionQuiet == Spec => []CaughtQuietly
BY Invariance, PTL DEF Inv

(* The results pushed are the final ones, in the order of the clients, and *)
(* all of them if doTheWork returned.                                      *)
THEOREM Reporting == Spec => []ReportsInOrder
BY Invariance, PTL DEF Inv

-----------------------------------------------------------------------------
(* A step of the worker as module Worker has it.                           *)
WorkerStep ==
  Process!SendResult(me) \/ Process!WorkerReturns(me) \/ Process!WorkerKilled(me)

(* Steps of the loops and threads that leave the process running.          *)
LEMMA Invisible ==
  ASSUME ~Over, ~Over', sink' = sink
  PROVE  UNCHANGED <<Process!workerVars, sink>>
BY DEF Over, Process!workerVars, Mine

(* The death of the process, with nothing reported.                        *)
LEMMA Death ==
  ASSUME ~Over, dpc' = "dead", sink = <<>>, sink' = sink
  PROVE  Process!WorkerKilled(me)
<1> DEFINE q == [k \in 1 .. Len(sink) |-> Outcome(sink[k])]
<1>1. q = <<>> /\ q' = <<>>
  BY DEF Outcome
<1>2. Mine(q)' = [Mine(q) EXCEPT ![me] = SubSeq(@, 1, 0)] /\ 0 \in 0 .. Len(Mine(q)[me])
  <2> HIDE DEF q
  <2>1. SubSeq(<<>>, 1, 0) = <<>> /\ Len(<<>>) = 0
    OBVIOUS
  <2> QED
    BY <1>1, <2>1 DEF Mine
<1>3. Process!Exit(me, "nonzero")
  BY DEF Over, Mine, Process!Exit
<1>4. Mine(IF Over THEN "exited" ELSE "working")[me] \in Process!Running
  BY DEF Mine, Process!Running
<1> QED
  BY <1>2, <1>3, <1>4 DEF Process!WorkerKilled

LEMMA Return == ASSUME MainReturns PROVE Process!WorkerReturns(me)
BY DEF MainReturns, Over, Mine, Process!WorkerReturns, Process!Exit

(* A pass of the last loop that does not throw.                            *)
LEMMA Push ==
  ASSUME Inv, dpc = "report", ~Over', NEW r \in Results, sink' = Append(sink, r)
  PROVE  Process!SendResult(me)
<1> DEFINE q == [k \in 1 .. Len(sink) |-> Outcome(sink[k])]
<1>1. /\ sink \in Seq(Results) /\ Len(sink) \in Nat /\ Len(sink) < Instances
      /\ dpc' # "dead" /\ ~Over
  BY WorkAssumption DEF Inv, TypeOK, Progress, Clients, Over
<1>2. /\ Len(sink') = Len(sink) + 1
      /\ \A k \in 1 .. Len(sink) + 1 : sink'[k] = IF k = Len(sink) + 1 THEN r ELSE sink[k]
  BY <1>1
<1>3. Outcome(r) \in Process!Outcomes
  BY DEF Outcome, Process!Outcomes
<1>4. q' = Append(q, Outcome(r))
  <2>1. q' = [k \in 1 .. Len(sink) + 1 |-> Outcome(sink'[k])]
    BY <1>2
  <2>2. q \in Seq(Process!Outcomes) /\ Len(q) = Len(sink)
    BY <1>1 DEF Outcome, Process!Outcomes
  <2>3. Append(q, Outcome(r)) = [k \in 1 .. Len(sink) + 1 |->
                                   IF k = Len(sink) + 1 THEN Outcome(r) ELSE q[k]]
    BY <1>1, <1>3, <2>2
  <2> QED
    BY <1>1, <1>2, <2>1, <2>3
<1>5. Mine(q)' = [Mine(q) EXCEPT ![me] = Append(@, Outcome(r))]
  <2> HIDE DEF q
  <2> QED
    BY <1>4 DEF Mine
<1>6. Mine(Len(sink))' = [Mine(Len(sink)) EXCEPT ![me] = @ + 1]
  BY <1>1, <1>2 DEF Mine
<1>7. /\ Mine(IF Over THEN "exited" ELSE "working")[me] = "working"
      /\ Mine(Len(sink))[me] < Instances
  BY <1>1 DEF Mine
<1>8. UNCHANGED <<Mine(0), Mine(<<>>), Mine(IF Over THEN "exited" ELSE "working"),
                  Mine(IF dpc = "dead" THEN "nonzero" ELSE "0")>>
  BY <1>1 DEF Mine, Over
<1> QED
  BY <1>3, <1>5, <1>6, <1>7, <1>8 DEF Process!SendResult

(* Every step of doTheWork is one that Worker has, or is not seen outside. *)
LEMMA ProcessStep ==
  ASSUME Inv, Inv', [Next]_vars
  PROVE  WorkerStep \/ UNCHANGED <<Process!workerVars, sink>>
<1>0. dpc' = "dead" => sink' = <<>>
  BY DEF Inv, DeathBeforeReport
<1>1. CASE Create \/ Run \/ Wait
  <2>1. ~Over /\ sink' = sink
    BY <1>1 DEF Create, Run, Wait, Over
  <2>2. dpc' \in {"create", "run", "wait", "report", "caught", "dead"}
    BY <1>1 DEF Create, Run, Wait, Advance, Throws
  <2> QED
    BY <1>0, <2>1, <2>2, Invisible, Death DEF Over, WorkerStep
<1>2. CASE Report
  <2>0. dpc = "report" /\ ~Over
    BY <1>2 DEF Report, Over
  <2>1. ASSUME NEW r \in result[next], sink' = Append(sink, r), Advance("report", "returned")
        PROVE  WorkerStep
    <3>1. r \in Results
      BY <2>1 DEF Inv, TypeOK
    <3>2. ~Over'
      BY <2>1 DEF Advance, Over
    <3> QED
      BY <2>0, <2>1, <3>1, <3>2, Push DEF WorkerStep
  <2>2. CASE Throws(Joinable) /\ UNCHANGED sink
    BY <1>0, <2>0, <2>2, Invisible, Death DEF Throws, Over, WorkerStep
  <2> QED
    BY <1>2, <2>1, <2>2 DEF Report
<1>3. CASE MainReturns
  BY <1>3, Return DEF WorkerStep
<1>4. ASSUME NEW c \in Clients, ThreadsEnd(c) PROVE UNCHANGED <<Process!workerVars, sink>>
  BY <1>4, Invisible DEF ThreadsEnd, Over
<1>5. ASSUME NEW c \in Clients, Terminate(c) PROVE WorkerStep
  BY <1>0, <1>5, Death DEF Terminate, WorkerStep
<1>6. CASE UNCHANGED vars
  BY <1>6 DEF vars, Process!workerVars, Mine, Over
<1> QED
  BY <1>1, <1>2, <1>3, <1>4, <1>5, <1>6 DEF Next, Main, Threads, Stop

(* Module Worker allows for all that doTheWork and its clients do, for     *)
(* every number of clients and messages.                                   *)
THEOREM WorkerRefinement == Spec => ImplementsWorker
<1>1. Inv /\ Inv' /\ [Next]_vars => [WorkerStep]_<<Process!workerVars, sink>>
  BY ProcessStep
<1> QED
  BY <1>1, Invariance, PTL DEF Spec, ImplementsWorker, WorkerStep
=============================================================================
