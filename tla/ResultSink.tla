----------------------------- MODULE ResultSink -----------------------------
(***************************************************************************)
(* The sink of the controller (controller.cpp, the collecting loop), frame *)
(* by frame and with the numbers: what get_stats prints for a connection,  *)
(* what the loop reads back, and the report it computes.                   *)
(*                                                                         *)
(* Clients measure whole microseconds and hand them on as milliseconds, a  *)
(* shift of the decimal point that changes neither digits nor formulas: a  *)
(* number here is an integer of millionths of a microsecond (micro-units). *)
(* The rounding of double itself, in the sixteenth digit, is left out.     *)
(***************************************************************************)
EXTENDS Integers, Sequences, FiniteSets, FiniteSetsExt

CONSTANTS
  Expected,     \* machines * processes: the exits the loop waits for
  Messages,     \* conf.messages
  Latencies,    \* what a message may take, in microseconds
  Setup,        \* what setting up a connection takes, in microseconds
  Garbage,      \* what an uninitialised double may hold
  MaxResults    \* bound on the results that arrive

ASSUME SinkAssumption ==
  /\ Expected \in Nat \ {0} /\ Messages \in Nat /\ MaxResults \in Nat
  /\ Latencies \subseteq Nat /\ Setup \in Nat /\ Garbage \subseteq Int

VARIABLES
  rpc,          \* which s_recv the loop is at; "over" after the report
  frames,       \* the unread frames of the message under way
  stats,        \* the statistics that have been received
  clientsFinished, clientsDied,
  resultsReceived, connectionsSucceeded, connectionsDied,
  meansum, variancesum, totalcount, samples,
  setup_stats,  \* the values given to the setup accumulator
  exits, sent   \* history: exits and connections that have been announced

counters == <<clientsFinished, clientsDied>>
results == <<connectionsSucceeded, connectionsDied, meansum, variancesum,
             totalcount, samples, setup_stats>>
vars == <<rpc, frames, stats, counters, resultsReceived, results, exits, sent>>

-----------------------------------------------------------------------------
Micro == 1000000

(* A connection as its client ends (Results of ClientLife, with samples).  *)
(* One that never opened has no setup time: it prints an uninitialised one.*)
Connections ==
  [type : {"fail"}, samples : {<<>>}, setup : Garbage]
    \cup [type : {"success"}, samples : UNION {[1 .. n -> Latencies] : n \in 0 .. Messages},
          setup : {Setup}]

Total(s) == SumFunction(s)

Squares(s) == SumFunction([i \in DOMAIN s |-> s[i] * s[i]])

(* The variance of the population, times the square of its size.           *)
Spread(s) == Len(s) * Squares(s) - Total(s) * Total(s)

(* The place of the sixth significant digit of x micro-units.  There is    *)
(* none below a micro-unit, where streams go on.                           *)
SixthPlace[x \in Nat] == IF x < Micro THEN 1 ELSE 10 * SixthPlace[x \div 10]

(* operator<< of num/den: rounded to six significant digits.               *)
Print6(num, den) ==
  LET unit == SixthPlace[(num * Micro) \div den]
  IN  ((2 * num * Micro + unit * den) \div (2 * unit * den)) * unit

NaN == -1               \* what is printed as "nan", and does not parse

Largest == 2000000000   \* the largest double: min starts there, max at its opposite

(* get_stats: count, min, max, mean, variance (of the population), setup.  *)
(* The mean of no samples is 0/0.  Of a setup time that was never set any  *)
(* double may be printed.                                                  *)
get_stats(c) ==
  LET s == c.samples
      n == Len(s)
  IN  [type   |-> c.type,
       fields |-> <<n,
                    IF n = 0 THEN Largest ELSE Print6(Min(Range(s)), 1),
                    IF n = 0 THEN -Largest ELSE Print6(Max(Range(s)), 1),
                    IF n = 0 THEN NaN ELSE Print6(Total(s), n),
                    IF n = 0 THEN 0 ELSE Print6(Spread(s), n * n),
                    IF c.type = "fail" THEN c.setup ELSE Print6(c.setup, 1)>>]

(* ss >> for each of the six variables.  The first one that does not parse *)
(* is set to 0, and those after it are left as they are: uninitialised.    *)
Extract(fields) ==
  LET good(k) == \A j \in 1 .. k : fields[j] # NaN
  IN  {[k \in 1 .. 6 |-> IF good(k) THEN fields[k] ELSE IF good(k - 1) THEN 0 ELSE g]
         : g \in Garbage}

Text(t) == [text |-> t, type |-> "", fields |-> <<>>]

FinishedMessage(status) == <<Text("Finished"), Text(""), Text(status), Text("")>>

ResultMessage(c) ==
  <<Text("Result"),
    [text |-> "stats", type |-> get_stats(c).type, fields |-> get_stats(c).fields],
    Text("")>>

-----------------------------------------------------------------------------
Init ==
  /\ rpc = "status" /\ frames = <<>> /\ stats = Text("")
  /\ clientsFinished = 0 /\ clientsDied = 0
  /\ resultsReceived = 0 /\ connectionsSucceeded = 0 /\ connectionsDied = 0
  /\ meansum = 0 /\ variancesum = 0 /\ totalcount = 0 /\ samples = 0
  /\ setup_stats = <<>>
  /\ exits = 0 /\ sent = <<>>

(* The condition of the loop, at its top.                                  *)
Collecting == rpc # "status" \/ clientsFinished + clientsDied < Expected

(* A message reaches an s_recv that has no frame left.                     *)
ResultArrives ==
  /\ rpc # "over" /\ Collecting /\ frames = <<>> /\ Len(sent) < MaxResults
  /\ \E c \in Connections : frames' = ResultMessage(c) /\ sent' = Append(sent, c)
  /\ UNCHANGED <<rpc, stats, counters, resultsReceived, results, exits>>

FinishedArrives ==
  /\ rpc # "over" /\ Collecting /\ frames = <<>> /\ exits < Expected
  /\ \E s \in {"0", "nonzero"} : frames' = FinishedMessage(s)
  /\ exits' = exits + 1
  /\ UNCHANGED <<rpc, stats, counters, resultsReceived, results, sent>>

s_recv(at) == rpc = at /\ Collecting /\ frames # <<>> /\ frames' = Tail(frames)

(* std::string status.                                                     *)
RecvStatus ==
  /\ s_recv("status")
  /\ rpc' = CASE Head(frames).text = "Finished" -> "name"
              [] Head(frames).text = "Result"   -> "stats"
              [] OTHER                          -> "status"
  /\ UNCHANGED <<stats, counters, resultsReceived, results, exits, sent>>

RecvName ==
  /\ s_recv("name") /\ rpc' = "exit_status"
  /\ UNCHANGED <<stats, counters, resultsReceived, results, exits, sent>>

(* Mutant: the else is missing.                                            *)
RecvExitStatusBoth ==
  /\ s_recv("exit_status") /\ rpc' = "status"
  /\ clientsFinished' = clientsFinished + 1
  /\ clientsDied' = IF Head(frames).text = "0" THEN clientsDied ELSE clientsDied + 1
  /\ UNCHANGED <<stats, resultsReceived, results, exits, sent>>

RecvExitStatus ==
  /\ s_recv("exit_status") /\ rpc' = "status"
  /\ IF Head(frames).text = "0"
     THEN clientsFinished' = clientsFinished + 1 /\ UNCHANGED clientsDied
     ELSE clientsDied' = clientsDied + 1 /\ UNCHANGED clientsFinished
  /\ UNCHANGED <<stats, resultsReceived, results, exits, sent>>

RecvStats ==
  /\ s_recv("stats") /\ rpc' = "last"
  /\ stats' = Head(frames)
  /\ resultsReceived' = resultsReceived + 1
  /\ UNCHANGED <<counters, results, exits, sent>>

(* Mutant: every result counts the same.                                   *)
AccumulateUnweighted(count, mean, variance) ==
  IF count > 0
  THEN /\ meansum' = meansum + mean
       /\ totalcount' = totalcount + count
       /\ samples' = samples + 1
       /\ variancesum' = variancesum + (count - 1) * variance
  ELSE UNCHANGED <<meansum, totalcount, samples, variancesum>>

(* Mutant: the variances are added up without their weights.               *)
AccumulateVariance(count, mean, variance) ==
  IF count > 0
  THEN /\ meansum' = meansum + mean * count
       /\ totalcount' = totalcount + count
       /\ samples' = samples + 1
       /\ variancesum' = variancesum + variance
  ELSE UNCHANGED <<meansum, totalcount, samples, variancesum>>

(* if (count > 0).                                                         *)
Accumulate(count, mean, variance) ==
  IF count > 0
  THEN /\ meansum' = meansum + mean * count
       /\ totalcount' = totalcount + count
       /\ samples' = samples + 1
       /\ variancesum' = variancesum + (count - 1) * variance
  ELSE UNCHANGED <<meansum, totalcount, samples, variancesum>>

(* Mutant: the count is not compared.                                      *)
JudgeByType(type, count) ==
  IF type = "success"
  THEN connectionsSucceeded' = connectionsSucceeded + 1 /\ UNCHANGED connectionsDied
  ELSE connectionsDied' = connectionsDied + 1 /\ UNCHANGED connectionsSucceeded

(* The verdict on a connection.                                            *)
Judge(type, count) ==
  IF type = "success" /\ count = Messages
  THEN connectionsSucceeded' = connectionsSucceeded + 1 /\ UNCHANGED connectionsDied
  ELSE connectionsDied' = connectionsDied + 1 /\ UNCHANGED connectionsSucceeded

(* Mutant: setup is extracted before variance.                             *)
RecvLastSwapped ==
  /\ s_recv("last") /\ rpc' = "status"
  /\ \E v \in Extract(stats.fields) :
       /\ setup_stats' = Append(setup_stats, v[5])
       /\ Judge(stats.type, v[1])
       /\ Accumulate(v[1], v[4], v[6])
  /\ UNCHANGED <<stats, counters, resultsReceived, exits, sent>>

(* Mutant: four frames are read of a "Result" too.                         *)
RecvLastOfFour ==
  /\ s_recv("last") /\ rpc' = "name"
  /\ \E v \in Extract(stats.fields) :
       /\ setup_stats' = Append(setup_stats, v[6])
       /\ Judge(stats.type, v[1])
       /\ Accumulate(v[1], v[4], v[5])
  /\ UNCHANGED <<stats, counters, resultsReceived, exits, sent>>

(* The last frame, and then all that is done with the result.              *)
RecvLast ==
  /\ s_recv("last") /\ rpc' = "status"
  /\ \E v \in Extract(stats.fields) :
       /\ setup_stats' = Append(setup_stats, v[6])
       /\ Judge(stats.type, v[1])
       /\ Accumulate(v[1], v[4], v[5])
  /\ UNCHANGED <<stats, counters, resultsReceived, exits, sent>>

(* The report: meansum/totalcount and variancesum/(totalcount-samples).    *)
Report ==
  /\ rpc = "status" /\ ~Collecting
  /\ rpc' = "over"
  /\ UNCHANGED <<frames, stats, counters, resultsReceived, results, exits, sent>>

Stop == rpc = "over" /\ UNCHANGED vars

Next ==
  \/ ResultArrives \/ FinishedArrives
  \/ RecvStatus \/ RecvName \/ RecvExitStatus \/ RecvStats \/ RecvLast
  \/ Report \/ Stop

Spec == Init /\ [][Next]_vars

-----------------------------------------------------------------------------
(* The loop as module Controller has it: a message stays in the queue of   *)
(* its sender until the last s_recv for it, and is then taken as a whole.  *)
sender == <<"sender">>
worker == <<sender, 0>>

AtTop == rpc \in {"status", "over"} /\ frames # <<>>

finishedUnread ==
  IF rpc \in {"name", "exit_status"} \/ (AtTop /\ Head(frames).text = "Finished")
  THEN <<frames[Len(frames) - 1].text>> ELSE <<>>

Outcome(c) ==
  IF c.type = "success" /\ Len(c.samples) = Messages THEN "complete" ELSE "incomplete"

resultUnread ==
  IF rpc \in {"stats", "last"} \/ (AtTop /\ Head(frames).text = "Result")
  THEN <<Outcome(sent[Len(sent)])>> ELSE <<>>

Loop == INSTANCE Controller WITH
  Listeners <- {sender}, Machines <- Expected, Processes <- 1, Instances <- 1, MaxHello <- 1,
  subs <- [s \in {sender, worker} |-> 0], inbox <- [s \in {sender, worker} |-> <<>>],
  syncReq <- {}, syncRep <- {}, procReq <- {}, procRep <- {},
  finishedQ <- [l \in {sender} |-> finishedUnread],
  resultQ   <- [w \in {worker} |-> resultUnread],
  cpc       <- IF rpc = "over" THEN "ended" ELSE "collect",
  subscribers <- Expected, processes <- Expected, counted <- {},
  resultsReceived <- IF rpc = "last" THEN resultsReceived - 1 ELSE resultsReceived,
  delimiter <- AtTop /\ Head(frames).text = ""

Pushed ==
  /\ UNCHANGED Loop!controllerVars
  /\ \/ /\ \E s \in Loop!Statuses : finishedUnread' = Append(finishedUnread, s)
        /\ UNCHANGED resultUnread
     \/ /\ \E o \in Loop!Outcomes : resultUnread' = Append(resultUnread, o)
        /\ UNCHANGED finishedUnread

(* Controller, which the composed test is made of and which takes messages *)
(* whole, is what the loop does frame by frame: a message is counted once, *)
(* with the verdict its connection deserves, while exits are still awaited *)
(* - although numbers are read from text and a frame is always left over.  *)
ImplementsController ==
  [][\/ Loop!CollectDelimiter \/ Loop!CollectFinished(sender)
     \/ Loop!CollectResult(worker) \/ Loop!End
     \/ Pushed]_<<Loop!controllerVars, Loop!netVars>>

-----------------------------------------------------------------------------
(* The reference: what the connections handled so far really measured.     *)
Handled == connectionsSucceeded + connectionsDied

Measured == {k \in 1 .. Handled : sent[k].samples # <<>>}

(* The squared deviations of a connection's latencies from their own mean. *)
Deviations(s) == (Spread(s) * Micro) \div Len(s)

TypeOK ==
  /\ rpc \in {"status", "name", "exit_status", "stats", "last", "over"}
  /\ Len(frames) <= 4
  /\ clientsFinished + clientsDied \in 0 .. Expected
  /\ resultsReceived \in 0 .. Len(sent) /\ Handled \in 0 .. resultsReceived
  /\ samples \in 0 .. totalcount /\ totalcount \in 0 .. MaxResults * Messages
  /\ Len(setup_stats) = Handled

(* The loop reads every frame for what it is, although a "Finished" has    *)
(* four frames of which it reads three: it is never out of step with the   *)
(* messages, in whatever order they arrive.                                *)
FramesAligned ==
  frames # <<>> =>
    /\ rpc = "status" => Head(frames).text \in {"Finished", "Result", ""}
    /\ rpc = "exit_status" => Head(frames).text \in {"0", "nonzero"}
    /\ rpc = "stats" => Head(frames).text = "stats"

(* The reported mean is the mean of all latencies of all connections, up   *)
(* to what printing the single means to six digits has cost: five parts in *)
(* a million, and a micro-unit per latency.  With no latency it is 0/0.    *)
MeanIsMean ==
  LET all   == SumFunction([k \in Measured |-> Total(sent[k].samples)])
      slack == 5 * all + totalcount
  IN  /\ totalcount = SumFunction([k \in Measured |-> Len(sent[k].samples)])
      /\ meansum - all * Micro \in -slack .. slack

(* The reported variance weighs variances of populations as if they were   *)
(* those of samples: it lies between one half of the pooled variance and   *)
(* the whole of it, up to the same cost of printing.  It is 0/0 exactly if *)
(* no connection echoed twice.                                             *)
VarianceUnderstates ==
  LET pooled == SumFunction([k \in Measured |-> Deviations(sent[k].samples)])
      slack  == pooled \div (Micro \div 5) + 2 * totalcount
  IN  /\ variancesum <= pooled + slack
      /\ 2 * variancesum >= pooled - slack
      /\ totalcount - samples = 0 <=> \A k \in Measured : Len(sent[k].samples) = 1

(* Reading a result stops at the mean of no samples ("nan"), and the setup *)
(* time after it is added uninitialised.  Of every connection that echoed  *)
(* a message it is the time that connection measured, up to the printing.  *)
SetupsGenuine ==
  \A k \in Measured :
    LET setup == sent[k].setup
    IN  setup_stats[k] - setup * Micro \in -5 * setup .. 5 * setup
=============================================================================
