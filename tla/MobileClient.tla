---------------------------- MODULE MobileClient ----------------------------
(***************************************************************************)
(* The mobile signaling client (clients/mobile-signaling-client.hpp), as   *)
(* plain-client.cpp runs it: the telemetry loop of base-client.hpp over    *)
(* two connections.  The primary one is opened first; its open handler     *)
(* starts the signaling one, and a message goes to the first of the two    *)
(* that takes it.  The endpoint is perpetual: its thread ends only after   *)
(* stop_perpetual.                                                         *)
(*                                                                         *)
(* The steps are those of TelemetryClient.  m_failed and m_setupTime are   *)
(* left out: they serve get_stats, which nobody calls on this client.      *)
(***************************************************************************)
EXTENDS Naturals, Sequences

CONSTANT Total   \* m_total_messages

ASSUME TotalAssumption == Total \in Nat

Links == {"primary", "signaling"}

VARIABLES
  mpc,                \* main of plain-client.cpp
  tpc,                \* the telemetry thread
  m_open, m_done, m_message_pending,
  m_count,            \* messages attempted
  m_start,            \* the message whose sending m_start is the time of
  m_stats,            \* the samples: which echo, measured from which start
  ec,                 \* the last send_message returned an error
  hdl,                \* the handles (m_hdl_primary, m_hdl_signaling) assigned
  perpetual,          \* between start_perpetual and stop_perpetual
  conn,               \* the state of each connection (websocketpp)
  event,              \* the handler the asio thread is about to run
  wire,               \* messages under way, with the link they were sent on
  closeSeen           \* history: links whose close handler has run

sendVars == <<m_message_pending, m_count, m_start, m_stats, ec, wire>>

connVars == <<hdl, perpetual, conn>>

vars == <<mpc, tpc, m_open, m_done, sendVars, connVars, event, closeSeen>>

Idle == [kind |-> "none", link |-> "primary"]

Init ==
  /\ mpc = "run" /\ tpc = "none"
  /\ m_open = FALSE /\ m_done = FALSE /\ m_message_pending = FALSE
  /\ m_count = 0 /\ m_start = 0 /\ m_stats = <<>> /\ ec = FALSE
  /\ hdl = {} /\ perpetual = TRUE
  /\ conn = [c \in Links |-> "none"]
  /\ event = Idle /\ wire = <<>>
  /\ closeSeen = {}

Alive == mpc # "crashed"

Connect(c) == hdl' = hdl \union {c} /\ conn' = [conn EXCEPT ![c] = "connecting"]

-----------------------------------------------------------------------------
(* main.                                                                   *)

(* Mutant: connect_primary leaves the handle to the open handler.          *)
RunWithoutHandle ==
  /\ mpc = "run"
  /\ mpc' = "wait" /\ tpc' = "loop"
  /\ conn' = [conn EXCEPT !["primary"] = "connecting"]
  /\ UNCHANGED <<m_open, m_done, sendVars, hdl, perpetual, event, closeSeen>>

(* run: connect_primary, then both threads, even when get_connection has   *)
(* failed and connect_primary returned early.                              *)
Run ==
  /\ mpc = "run"
  /\ mpc' = "wait" /\ tpc' = "loop"
  /\ Connect("primary") \/ UNCHANGED <<hdl, conn>>
  /\ UNCHANGED <<m_open, m_done, sendVars, perpetual, event, closeSeen>>

AsioEnded ==
  /\ ~perpetual /\ event = Idle
  /\ \A c \in Links : conn[c] \in {"none", "closed"}

Wait ==
  /\ mpc = "wait" /\ AsioEnded /\ tpc = "done"
  /\ mpc' = "joined"
  /\ UNCHANGED <<tpc, m_open, m_done, sendVars, connVars, event, closeSeen>>

-----------------------------------------------------------------------------
(* What happens to a connection: websocketpp, the server, the coordinator. *)
AsioIdle == Alive /\ event = Idle

Happens(kind, c) == event' = [kind |-> kind, link |-> c]

Opens(c) ==
  /\ AsioIdle /\ conn[c] = "connecting"
  /\ conn' = [conn EXCEPT ![c] = "open"] /\ Happens("open", c)
  /\ UNCHANGED <<mpc, tpc, m_open, m_done, sendVars, hdl, perpetual, closeSeen>>

ConnectFails(c) ==
  /\ AsioIdle /\ conn[c] = "connecting"
  /\ conn' = [conn EXCEPT ![c] = "closed"] /\ Happens("fail", c)
  /\ UNCHANGED <<mpc, tpc, m_open, m_done, sendVars, hdl, perpetual, closeSeen>>

(* The echo may come back by either link.                                  *)
EchoArrives(c) ==
  /\ AsioIdle /\ conn[c] = "open" /\ wire # <<>>
  /\ Happens("message", c)
  /\ UNCHANGED <<mpc, tpc, m_open, m_done, sendVars, connVars, closeSeen>>

(* The peer closes or drops the link; what was under way on it is lost, or *)
(* is answered by the other link.                                          *)
PeerCloses(c) ==
  /\ AsioIdle /\ conn[c] = "open"
  /\ \/ conn' = [conn EXCEPT ![c] = "closing"] /\ UNCHANGED event
     \/ conn' = [conn EXCEPT ![c] = "closed"] /\ Happens("close", c)
  /\ \/ UNCHANGED wire
     \/ wire # <<>> /\ Head(wire).link = c /\ wire' = Tail(wire)
  /\ UNCHANGED <<mpc, tpc, m_open, m_done, m_message_pending, m_count, m_start,
                 m_stats, ec, hdl, perpetual, closeSeen>>

Closes(c) ==
  /\ AsioIdle /\ conn[c] = "closing"
  /\ conn' = [conn EXCEPT ![c] = "closed"] /\ Happens("close", c)
  /\ UNCHANGED <<mpc, tpc, m_open, m_done, sendVars, hdl, perpetual, closeSeen>>

-----------------------------------------------------------------------------
(* The handlers.                                                           *)
Handles(kind, c) == Alive /\ event = [kind |-> kind, link |-> c]

(* base_client::on_open, for either link; the telemetry may start before   *)
(* on_open_primary goes on.                                                *)
on_open(c) ==
  /\ Handles("open", c)
  /\ m_open' = TRUE
  /\ hdl' = IF c = "primary" THEN hdl \union {c} ELSE hdl
  /\ event' = IF c = "primary" THEN [kind |-> "opened", link |-> c] ELSE Idle
  /\ UNCHANGED <<mpc, tpc, m_done, sendVars, perpetual, conn, closeSeen>>

(* The rest of on_open_primary: connect_signaling, which may return early. *)
connect_signaling ==
  /\ Handles("opened", "primary")
  /\ Connect("signaling") \/ UNCHANGED <<hdl, conn>>
  /\ event' = Idle
  /\ UNCHANGED <<mpc, tpc, m_open, m_done, sendVars, perpetual, closeSeen>>

(* on_close_primary and on_close_signaling only write to the log.          *)
on_close(c) ==
  /\ Handles("close", c)
  /\ closeSeen' = closeSeen \union {c}
  /\ event' = Idle
  /\ UNCHANGED <<mpc, tpc, m_open, m_done, sendVars, connVars>>

(* Mutant: a failed connection is only logged, like a closed one.          *)
on_fail_silent(c) ==
  /\ Handles("fail", c)
  /\ event' = Idle
  /\ UNCHANGED <<mpc, tpc, m_open, m_done, sendVars, connVars, closeSeen>>

(* on_fail stops the telemetry unless the primary connection is alive.     *)
(* The pointer is used before ec is tested: it is null when the handle was *)
(* never assigned, or when websocketpp has let go of a primary that closed.*)
on_fail(c) ==
  /\ Handles("fail", c)
  /\ event' = Idle
  /\ \/ /\ "primary" \in hdl
        /\ m_done' = (m_done \/ conn["primary"] \in {"closing", "closed"})
        /\ UNCHANGED mpc
     \/ /\ "primary" \notin hdl \/ (c # "primary" /\ conn["primary"] = "closed")
        /\ mpc' = "crashed" /\ UNCHANGED m_done
  /\ UNCHANGED <<tpc, m_open, sendVars, connVars, closeSeen>>

(* on_message_primary and on_message_signaling, through the handler the    *)
(* constructor sets to base_client::on_message.                            *)
on_message(c) ==
  /\ Handles("message", c)
  /\ m_message_pending' = FALSE
  /\ m_stats' = Append(m_stats, [echo |-> Head(wire).msg, start |-> m_start])
  /\ wire' = Tail(wire)
  /\ event' = Idle
  /\ UNCHANGED <<mpc, tpc, m_open, m_done, m_count, m_start, ec, connVars, closeSeen>>

Asio ==
  \/ \E c \in Links :
       \/ Opens(c) \/ ConnectFails(c) \/ EchoArrives(c) \/ Closes(c)
       \/ on_open(c) \/ on_close(c) \/ on_fail(c) \/ on_message(c)
  \/ connect_signaling

-----------------------------------------------------------------------------
(* telemetry_loop.                                                         *)

(* Mutant: the loop runs once too often.                                   *)
CheckInclusive ==
  /\ Alive /\ tpc = "loop"
  /\ IF m_count <= Total /\ ~m_done
     THEN tpc' = IF ~m_open \/ m_message_pending THEN "loop" ELSE "send"
     ELSE tpc' = "end"
  /\ UNCHANGED <<mpc, m_open, m_done, sendVars, connVars, event, closeSeen>>

(* The top of the loop, the sleep and the first locked block.              *)
Check ==
  /\ Alive /\ tpc = "loop"
  /\ IF m_count < Total /\ ~m_done
     THEN tpc' = IF ~m_open \/ m_message_pending THEN "loop" ELSE "send"
     ELSE tpc' = "end"
  /\ UNCHANGED <<mpc, m_open, m_done, sendVars, connVars, event, closeSeen>>

(* The links that take a message: websocketpp refuses one that is not open.*)
Accepting == {c \in hdl : conn[c] = "open"}

(* Mutant: send_message tries the second link whatever the first one said. *)
send_message_both(msg) ==
  LET on(c) == IF c \in Accepting THEN <<[msg |-> msg, link |-> c]>> ELSE <<>>
  IN  on("primary") \o on("signaling")

(* send_message: what it puts on the wire; nothing when both links refuse. *)
send_message(msg) ==
  IF "primary" \in Accepting THEN <<[msg |-> msg, link |-> "primary"]>>
  ELSE IF "signaling" \in Accepting THEN <<[msg |-> msg, link |-> "signaling"]>>
  ELSE <<>>

Send ==
  /\ Alive /\ tpc = "send"
  /\ m_count' = m_count + 1
  /\ m_message_pending' = TRUE
  /\ m_start' = m_count'
  /\ ec' = (send_message(m_count') = <<>>)
  /\ wire' = wire \o send_message(m_count')
  /\ tpc' = "sent"
  /\ UNCHANGED <<mpc, m_open, m_done, m_stats, connVars, event, closeSeen>>

AfterSend ==
  /\ Alive /\ tpc = "sent"
  /\ m_message_pending' = (m_message_pending /\ ~ec)
  /\ tpc' = "loop"
  /\ UNCHANGED <<mpc, m_open, m_done, m_count, m_start, m_stats, ec, wire,
                 connVars, event, closeSeen>>

(* After the loop: close, or fail, which calls close.  A link that is not  *)
(* open refuses, and the error is ignored.                                 *)
Finish ==
  /\ Alive /\ tpc = "end"
  /\ conn' = [c \in Links |-> IF c \in Accepting THEN "closing" ELSE conn[c]]
  /\ perpetual' = FALSE
  /\ tpc' = "done"
  /\ UNCHANGED <<mpc, m_open, m_done, sendVars, hdl, event, closeSeen>>

Telemetry == Check \/ Send \/ AfterSend \/ Finish

-----------------------------------------------------------------------------
Main == Run \/ Wait

Stop == (mpc = "joined" \/ ~Alive) /\ UNCHANGED vars

Next == Main \/ Asio \/ (\E c \in Links : PeerCloses(c)) \/ Telemetry \/ Stop

Spec == Init /\ [][Next]_vars

(* The threads are scheduled, attempts to connect come to an end, an open  *)
(* link delivers what is under way, and a closing handshake ends.          *)
FairSpec == Spec /\ WF_vars(Main) /\ WF_vars(Asio) /\ WF_vars(Telemetry)

-----------------------------------------------------------------------------
TypeOK ==
  /\ mpc \in {"run", "wait", "joined", "crashed"}
  /\ tpc \in {"none", "loop", "send", "sent", "end", "done"}
  /\ m_open \in BOOLEAN /\ m_done \in BOOLEAN /\ m_message_pending \in BOOLEAN
  /\ m_count \in 0 .. Total /\ m_start \in 0 .. m_count
  /\ m_stats \in Seq([echo : 1 .. Total, start : 0 .. Total])
  /\ ec \in BOOLEAN /\ perpetual \in BOOLEAN
  /\ hdl \subseteq Links /\ closeSeen \subseteq Links
  /\ conn \in [Links -> {"none", "connecting", "open", "closing", "closed"}]
  /\ event \in [kind : {"none", "open", "opened", "message", "close", "fail"}, link : Links]
  /\ wire \in Seq([msg : 1 .. Total, link : Links])

(* A latency is measured from the sending of the message whose echo ended  *)
(* it, although a message may go out by one link and come back by another, *)
(* and m_start is overwritten by each send.                                *)
EchoPaired == \A i \in 1 .. Len(m_stats) : m_stats[i].echo = m_stats[i].start

(* on_fail uses a null pointer only after the primary link was open and    *)
(* was closed again before the signaling link failed.                      *)
CrashOnlyAfterClose ==
  mpc = "crashed" => "primary" \in closeSeen /\ conn["signaling"] = "closed"

(* The ways in which wait never returns: no connection was ever started;   *)
(* a message is waited for that no link will bring back; or close met a    *)
(* link that was not yet open, and that opened afterwards.                 *)
Hung ==
  \/ conn["primary"] = "none"
  \/ m_message_pending /\ (wire = <<>> \/ \A c \in Links : conn[c] # "open")
  \/ tpc = "done" /\ \E c \in Links : conn[c] = "open"

(* The client comes to an end, by joining its threads or by the crash of   *)
(* on_fail, unless it is Hung for good.                                    *)
EndsOrHangs == <>(mpc \in {"joined", "crashed"}) \/ <>[]Hung

(* mobile-signaling-client.hpp, of on_close_primary and on_close_signaling:*)
(* "The close handler will signal that we should stop sending telemetry".  *)
CloseStopsTelemetry == (closeSeen = Links) ~> (tpc \in {"end", "done"})

(* mobile-signaling-client.hpp, of on_fail: "The fail handler will signal  *)
(* that we should stop sending telemetry": it does not end the process.    *)
FailHandlerReturns == mpc # "crashed"
=============================================================================
