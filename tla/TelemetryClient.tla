-------------------------- MODULE TelemetryClient --------------------------
(***************************************************************************)
(* One websocket client of a worker (clients/base-client.hpp, as the       *)
(* telemetry_client of telemetry-client-tls.hpp inherits it): the main     *)
(* thread that runs and waits for it, its telemetry thread, its asio       *)
(* thread with the four handlers, and the connection to the echo server.   *)
(*                                                                         *)
(* The mutex m_lock makes every handler, and each of the two locked blocks *)
(* of telemetry_loop, one step.  The connection changes its state before   *)
(* the asio thread calls the handler that tells the client so.             *)
(*                                                                         *)
(* Messages are numbered by m_count; a point in time is the number of the  *)
(* message it belongs to.                                                  *)
(***************************************************************************)
EXTENDS Naturals, Sequences

CONSTANT Total   \* m_total_messages

ASSUME TotalAssumption == Total \in Nat

VARIABLES
  mpc,                \* the thread of doTheWork
  tpc,                \* the telemetry thread
  m_open, m_done, m_failed, m_message_pending,
  m_count,            \* messages attempted
  m_start,            \* the message whose sending m_start is the time of
  m_setupTime,        \* uninitialised until on_open
  m_stats,            \* the samples: which echo, measured from which start
  ec,                 \* the last send_message returned an error
  conn,               \* the connection's own state (websocketpp)
  event,              \* the handler the asio thread is about to run
  wire,               \* messages on their way to the server or back
  peerClosed,         \* history: the server has ended the connection
  errors              \* history: failed sends

clientVars == <<m_open, m_done, m_failed, m_message_pending, m_count,
                m_start, m_setupTime, m_stats, ec>>

connVars == <<conn, event, wire, peerClosed>>

vars == <<mpc, tpc, clientVars, connVars, errors>>

Init ==
  /\ mpc = "run" /\ tpc = "none"
  /\ m_open = FALSE /\ m_done = FALSE /\ m_failed = FALSE
  /\ m_message_pending = FALSE
  /\ m_count = 0 /\ m_start = 0 /\ m_setupTime = "uninitialised"
  /\ m_stats = <<>>
  /\ ec = FALSE
  /\ conn = "none" /\ event = "none" /\ wire = <<>>
  /\ peerClosed = FALSE /\ errors = 0

(* A thread that throws and a null shared_ptr both end the whole process.  *)
Alive == tpc # "terminated" /\ mpc # "crashed"

-----------------------------------------------------------------------------
(* The thread of doTheWork.                                                *)

(* run: get_connection rejects a malformed uri (a ws: uri for this TLS     *)
(* client, say) and run returns; otherwise the connection is started and   *)
(* so are the two threads.                                                 *)
Run ==
  /\ mpc = "run"
  /\ mpc' = "wait"
  /\ \/ UNCHANGED <<tpc, connVars>>
     \/ /\ conn' = "connecting" /\ tpc' = "loop"
        /\ UNCHANGED <<event, wire, peerClosed>>
  /\ UNCHANGED <<clientVars, errors>>

(* The asio thread ends when the connection has nothing left to do.        *)
AsioEnded == conn = "closed" /\ event = "none"

(* Mutant: only the asio thread is joined.                                 *)
WaitAsioOnly ==
  /\ Alive /\ mpc = "wait"
  /\ \/ conn = "none" /\ mpc' = "crashed"
     \/ AsioEnded /\ mpc' = "joined"
  /\ UNCHANGED <<tpc, clientVars, connVars, errors>>

(* wait: join both threads, through pointers that are null when run        *)
(* returned early.                                                         *)
Wait ==
  /\ Alive /\ mpc = "wait"
  /\ \/ conn = "none" /\ mpc' = "crashed"
     \/ AsioEnded /\ tpc = "done" /\ mpc' = "joined"
  /\ UNCHANGED <<tpc, clientVars, connVars, errors>>

(* get_stats, after wait.                                                  *)
get_stats ==
  [type  |-> IF ~m_failed THEN "success" ELSE IF m_open THEN "fail-opened" ELSE "fail",
   count |-> Len(m_stats),
   setup |-> m_setupTime]

-----------------------------------------------------------------------------
(* The asio thread: what happens to the connection (websocketpp and the    *)
(* server), then the handler.                                              *)
AsioIdle == Alive /\ event = "none"

Opens ==
  /\ AsioIdle /\ conn = "connecting"
  /\ conn' = "open" /\ event' = "open"
  /\ UNCHANGED <<mpc, tpc, clientVars, wire, peerClosed, errors>>

ConnectFails ==
  /\ AsioIdle /\ conn = "connecting"
  /\ conn' = "closed" /\ event' = "fail"
  /\ UNCHANGED <<mpc, tpc, clientVars, wire, peerClosed, errors>>

EchoArrives ==
  /\ AsioIdle /\ conn = "open" /\ wire # <<>>
  /\ event' = "message"
  /\ UNCHANGED <<mpc, tpc, clientVars, conn, wire, peerClosed, errors>>

(* The server sends a close frame, or just closes the TCP connection.      *)
PeerCloses ==
  /\ AsioIdle /\ conn = "open"
  /\ \/ conn' = "closing" /\ UNCHANGED event
     \/ conn' = "closed" /\ event' = "close"
  /\ peerClosed' = TRUE
  /\ UNCHANGED <<mpc, tpc, clientVars, wire, errors>>

(* The closing handshake is over, or has timed out.                        *)
Closes ==
  /\ AsioIdle /\ conn = "closing"
  /\ conn' = "closed" /\ event' = "close"
  /\ UNCHANGED <<mpc, tpc, clientVars, wire, peerClosed, errors>>

on_open ==
  /\ Alive /\ event = "open"
  /\ m_open' = TRUE /\ m_setupTime' = "measured"
  /\ event' = "none"
  /\ UNCHANGED <<mpc, tpc, m_done, m_failed, m_message_pending, m_count, m_start,
                 m_stats, ec, conn, wire, peerClosed, errors>>

(* Mutant: the close handler does not stop the telemetry.                  *)
on_close_silent ==
  /\ Alive /\ event = "close"
  /\ event' = "none"
  /\ UNCHANGED <<mpc, tpc, clientVars, conn, wire, peerClosed, errors>>

on_close ==
  /\ Alive /\ event = "close"
  /\ m_done' = TRUE
  /\ event' = "none"
  /\ UNCHANGED <<mpc, tpc, m_open, m_failed, m_message_pending, m_count, m_start,
                 m_setupTime, m_stats, ec, conn, wire, peerClosed, errors>>

(* Mutant: the failure is not remembered.                                  *)
on_fail_forgotten ==
  /\ Alive /\ event = "fail"
  /\ m_done' = TRUE
  /\ event' = "none"
  /\ UNCHANGED <<mpc, tpc, m_open, m_failed, m_message_pending, m_count, m_start,
                 m_setupTime, m_stats, ec, conn, wire, peerClosed, errors>>

on_fail ==
  /\ Alive /\ event = "fail"
  /\ m_failed' = TRUE /\ m_done' = TRUE
  /\ event' = "none"
  /\ UNCHANGED <<mpc, tpc, m_open, m_message_pending, m_count, m_start,
                 m_setupTime, m_stats, ec, conn, wire, peerClosed, errors>>

on_message ==
  /\ Alive /\ event = "message"
  /\ m_message_pending' = FALSE
  /\ m_stats' = Append(m_stats, [echo |-> Head(wire), start |-> m_start])
  /\ wire' = Tail(wire)
  /\ event' = "none"
  /\ UNCHANGED <<mpc, tpc, m_open, m_done, m_failed, m_count, m_start,
                 m_setupTime, ec, conn, peerClosed, errors>>

Asio ==
  \/ Opens \/ ConnectFails \/ EchoArrives \/ Closes
  \/ on_open \/ on_close \/ on_fail \/ on_message

-----------------------------------------------------------------------------
(* telemetry_loop.                                                         *)

(* Mutant: a message is sent before the last one came back.                *)
NotOpen == ~m_open

(* Mutant: a message is sent before the connection is open.                *)
MessagePending == m_message_pending

NotReady == ~m_open \/ m_message_pending

(* Mutant: the loop runs once too often.                                   *)
CheckInclusive ==
  /\ Alive /\ tpc = "loop"
  /\ tpc' = IF m_count > Total \/ m_done THEN "end" ELSE IF NotReady THEN "loop" ELSE "send"
  /\ UNCHANGED <<mpc, clientVars, connVars, errors>>

(* Mutant: a pass that finds the last message pending is counted too.      *)
CheckCounting ==
  /\ Alive /\ tpc = "loop"
  /\ IF m_count < Total /\ ~m_done
     THEN /\ tpc' = IF NotReady THEN "loop" ELSE "send"
          /\ m_count' = IF m_message_pending THEN m_count + 1 ELSE m_count
     ELSE tpc' = "end" /\ UNCHANGED m_count
  /\ UNCHANGED <<mpc, m_open, m_done, m_failed, m_message_pending, m_start,
                 m_setupTime, m_stats, ec, connVars, errors>>

(* The top of the loop, the sleep and the first locked block.  NotReady    *)
(* sleeps and comes back here.                                             *)
Check ==
  /\ Alive /\ tpc = "loop"
  /\ IF m_count < Total /\ ~m_done
     THEN tpc' = IF NotReady THEN "loop" ELSE "send"
     ELSE tpc' = "end"
  /\ UNCHANGED <<mpc, clientVars, connVars, errors>>

(* m_count++ and the second locked block.  The connection accepts data     *)
(* only while it is open.                                                  *)
Send ==
  /\ Alive /\ tpc = "send"
  /\ m_count' = m_count + 1
  /\ m_message_pending' = TRUE
  /\ m_start' = m_count'
  /\ ec' = (conn # "open")
  /\ IF conn = "open"
     THEN wire' = Append(wire, m_count') /\ UNCHANGED errors
     ELSE errors' = errors + 1 /\ UNCHANGED wire
  /\ tpc' = "sent"
  /\ UNCHANGED <<mpc, m_open, m_done, m_failed, m_setupTime, m_stats,
                 conn, event, peerClosed>>

(* if (ec): the flag is reset, without the lock; the break is commented    *)
(* out.                                                                    *)
AfterSend ==
  /\ Alive /\ tpc = "sent"
  /\ m_message_pending' = (m_message_pending /\ ~ec)
  /\ tpc' = "loop"
  /\ UNCHANGED <<mpc, m_open, m_done, m_failed, m_count, m_start, m_setupTime,
                 m_stats, ec, connVars, errors>>

(* After the loop: close, which throws unless the connection is open, or   *)
(* fail, which only prints.                                                *)
Finish ==
  /\ Alive /\ tpc = "end"
  /\ IF m_count = Total
     THEN IF conn = "open" THEN conn' = "closing" /\ tpc' = "done"
                           ELSE tpc' = "terminated" /\ UNCHANGED conn
     ELSE tpc' = "done" /\ UNCHANGED conn
  /\ UNCHANGED <<mpc, clientVars, event, wire, peerClosed, errors>>

Telemetry == Check \/ Send \/ AfterSend \/ Finish

-----------------------------------------------------------------------------
Stop == (mpc = "joined" \/ ~Alive) /\ UNCHANGED vars

Main == Run \/ Wait

Next == Main \/ Asio \/ PeerCloses \/ Telemetry \/ Stop

Spec == Init /\ [][Next]_vars

(* The threads are scheduled, and the server accepts or refuses, answers   *)
(* what it gets and completes the closing handshake (or the connection     *)
(* times out).  Nothing makes the server close first.                      *)
FairSpec == Spec /\ WF_vars(Main) /\ WF_vars(Asio) /\ WF_vars(Telemetry)

-----------------------------------------------------------------------------
(* The client as doTheWork sees it.                                        *)
LifeOf ==
  CASE mpc = "run"                             -> "created"
    [] mpc \in {"joined", "crashed"}           -> mpc
    [] mpc = "wait" /\ tpc = "terminated"      -> "terminated"
    [] mpc = "wait" /\ conn = "none"           -> "idle"
    [] mpc = "wait" /\ AsioEnded /\ tpc = "done" -> "done"
    [] OTHER                                   -> "running"

ResultOf == IF LifeOf \in {"done", "joined"} THEN {get_stats} ELSE {}

Life == INSTANCE ClientLife WITH life <- LifeOf, result <- ResultOf

(* The three threads, the handlers and the server together are the client  *)
(* that doTheWork counts on: once its threads have ended its statistics    *)
(* are fixed, and they are of one of the kinds the controller can get.     *)
ImplementsClientLife == Life!Spec

TypeOK ==
  /\ mpc \in {"run", "wait", "joined", "crashed"}
  /\ tpc \in {"none", "loop", "send", "sent", "end", "done", "terminated"}
  /\ m_open \in BOOLEAN /\ m_done \in BOOLEAN /\ m_failed \in BOOLEAN
  /\ m_message_pending \in BOOLEAN
  /\ m_count \in 0 .. Total /\ m_start \in 0 .. m_count
  /\ m_setupTime \in {"uninitialised", "measured"}
  /\ m_stats \in Seq([echo : 1 .. Total, start : 0 .. Total])
  /\ ec \in BOOLEAN
  /\ conn \in {"none", "connecting", "open", "closing", "closed"}
  /\ event \in {"none", "open", "message", "close", "fail"}
  /\ wire \in Seq(1 .. Total)
  /\ peerClosed \in BOOLEAN
  /\ errors \in 0 .. m_count

(* Every latency sample is the time from the sending of a message to the   *)
(* echo of that same message, although m_start is one variable that every  *)
(* send overwrites, a failed one included, and the echoes carry no number. *)
EchoPaired == \A i \in 1 .. Len(m_stats) : m_stats[i].echo = m_stats[i].start

(* close() throws on a connection that is not open, in a thread where      *)
(* nothing catches it, and the worker dies with the results of all its     *)
(* clients.  That takes a server that ended the connection first, or a     *)
(* test of no messages at all.                                             *)
TerminatesOnlyAfterPeer == tpc = "terminated" => peerClosed \/ Total = 0

(* A connection that was opened and that the server did not end is short   *)
(* of one echo at the most: the last, which the client does not wait for   *)
(* beyond the sleep before close.                                          *)
OnlyLastEchoLost ==
  mpc = "joined" /\ ~m_failed /\ ~peerClosed => Len(m_stats) + 1 >= Total

(* What get_stats sends to the controller: an uninitialised setup time     *)
(* only with "fail", and never "fail-opened".                              *)
StatsHonest ==
  mpc = "joined" =>
    /\ get_stats.type # "fail-opened"
    /\ get_stats.type = "fail" <=> get_stats.setup = "uninitialised"

(* With a server that answers, wait returns (or the process is gone): no   *)
(* order of handlers and sends leaves a thread waiting.                    *)
ClientEnds == <>(mpc = "joined" \/ ~Alive)

(* base-client.hpp: "in this simple example, we'll stop the telemetry      *)
(* loop" after a send error: no second send fails.                         *)
StopsAfterSendError == errors <= 1
=============================================================================
