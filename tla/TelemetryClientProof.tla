------------------------ MODULE TelemetryClientProof ------------------------
(***************************************************************************)
(* Proofs about TelemetryClient, for every number of messages.             *)
(*                                                                         *)
(* None of the properties is inductive.  Three groups of facts carry them: *)
(* how the handlers follow the connection (Lifecycle), that one message at *)
(* the most is under way and is the one m_start belongs to (InFlight), and *)
(* what a server that does not close first guarantees (ClosedByUs).        *)
(***************************************************************************)
EXTENDS TelemetryClient, SequenceTheorems, TLAPS

(* The flags the handlers set against the connection's own state.          *)
Lifecycle ==
  /\ mpc = "run" => conn = "none" /\ tpc = "none"
  /\ mpc = "joined" => tpc = "done" /\ conn = "closed" /\ event = "none"
  /\ conn = "none" <=> tpc = "none"
  /\ conn \in {"none", "connecting"} => ~m_open /\ ~m_failed /\ event = "none"
  /\ event = "open" => ~m_open /\ conn \in {"open", "closing"}
  /\ event = "fail" => ~m_open /\ conn = "closed"
  /\ event = "message" => m_open
  /\ event = "close" => m_open /\ conn = "closed"
  /\ conn \in {"open", "closing", "closed"} /\ event = "none" => m_open \/ m_failed
  /\ m_failed => ~m_open /\ conn = "closed"
  /\ m_done => conn = "closed" /\ (m_open \/ m_failed)
  /\ m_open <=> m_setupTime = "measured"

(* The telemetry thread sends only when nothing is under way.              *)
InFlight ==
  /\ wire = <<>> \/ (wire = <<m_start>> /\ m_start > 0 /\ m_message_pending)
  /\ tpc = "send" => ~m_message_pending /\ m_open /\ m_count < Total
  /\ tpc = "sent" /\ ec => wire = <<>>
  /\ event = "message" => wire # <<>>
  /\ m_count > 0 => m_open

(* As long as the server has not closed, only this client's own close can  *)
(* end an open connection, no send fails, and every message sent is on the *)
(* wire or echoed.                                                         *)
PeerStays == ~peerClosed /\ Total # 0

ClosedByUs ==
  /\ PeerStays /\ tpc \notin {"done", "terminated"} =>
       conn # "closing" /\ (m_open \/ event = "open" => conn = "open")
  /\ PeerStays => tpc # "terminated" /\ errors = 0
  /\ PeerStays /\ tpc \in {"end", "done"} => m_failed \/ m_count = Total
  /\ Len(m_stats) + Len(wire) + errors = m_count

Inv == TypeOK /\ Lifecycle /\ InFlight /\ EchoPaired /\ ClosedByUs

(* The sequences of length one that the wire holds.                        *)
LEMMA Singleton ==
  ASSUME NEW x
  PROVE  /\ Head(<<x>>) = x /\ Tail(<<x>>) = <<>> /\ Len(<<x>>) = 1
         /\ Append(<<>>, x) = <<x>> /\ <<x>> # <<>> /\ Len(<<>>) = 0
OBVIOUS

(* on_message takes the only message off the wire, and m_start is its.     *)
LEMMA EchoTaken ==
  ASSUME TypeOK, InFlight, on_message
  PROVE  /\ wire = <<m_start>> /\ Len(wire) = 1
         /\ m_start \in 1 .. Total
         /\ wire' = <<>> /\ Len(wire') = 0
         /\ m_stats' = Append(m_stats, [echo |-> m_start, start |-> m_start])
         /\ m_stats \in Seq([echo : 1 .. Total, start : 0 .. Total])
<1>1. wire = <<m_start>>
  BY DEF InFlight, on_message
<1>2. m_start \in 1 .. Total
  <2>1. m_start > 0
    BY DEF InFlight, on_message
  <2>2. m_start \in 0 .. m_count /\ m_count \in 0 .. Total
    BY DEF TypeOK
  <2> QED
    BY <2>1, <2>2, TotalAssumption
<1> QED
  BY <1>1, <1>2, Singleton DEF on_message, TypeOK

(* Every step keeps the types.                                             *)
LEMMA TypeStep ==
  ASSUME TypeOK, InFlight, [Next]_vars
  PROVE  TypeOK'
<1> USE TotalAssumption DEF TypeOK, InFlight
<1>1. CASE Run
  BY <1>1 DEF Run, clientVars, connVars
<1>2. CASE Wait
  BY <1>2 DEF Wait, AsioEnded, clientVars, connVars
<1>3. CASE Opens
  BY <1>3 DEF Opens, AsioIdle, clientVars, connVars
<1>4. CASE ConnectFails
  BY <1>4 DEF ConnectFails, AsioIdle, clientVars, connVars
<1>5. CASE EchoArrives
  BY <1>5 DEF EchoArrives, AsioIdle, clientVars, connVars
<1>6. CASE PeerCloses
  BY <1>6 DEF PeerCloses, AsioIdle, clientVars, connVars
<1>7. CASE Closes
  BY <1>7 DEF Closes, AsioIdle, clientVars, connVars
<1>8. CASE on_open
  BY <1>8 DEF on_open
<1>9. CASE on_close
  BY <1>9 DEF on_close
<1>10. CASE on_fail
  BY <1>10 DEF on_fail
<1>11. CASE on_message
  <2>1. m_stats' \in Seq([echo : 1 .. Total, start : 0 .. Total])
    <3> DEFINE S == [echo : 1 .. Total, start : 0 .. Total]
               e == [echo |-> m_start, start |-> m_start]
    <3>1. e \in S /\ m_stats \in Seq(S) /\ m_stats' = Append(m_stats, e)
      BY <1>11, EchoTaken
    <3> HIDE DEF S, e
    <3>2. m_stats' \in Seq(S)
      BY <3>1
    <3> QED
      BY <3>2 DEF S
  <2>2. wire' \in Seq(1 .. Total)
    BY <1>11, EchoTaken, EmptySeq
  <2>3. /\ m_message_pending' = FALSE /\ event' = "none"
        /\ UNCHANGED <<mpc, tpc, m_open, m_done, m_failed, m_count, m_start,
                       m_setupTime, ec, conn, peerClosed, errors>>
    BY <1>11 DEF on_message
  <2>4. /\ m_count' \in 0 .. Total /\ m_start' \in 0 .. m_count'
        /\ errors' \in 0 .. m_count'
    BY <2>3
  <2>5. /\ mpc' \in {"run", "wait", "joined", "crashed"}
        /\ tpc' \in {"none", "loop", "send", "sent", "end", "done", "terminated"}
        /\ m_setupTime' \in {"uninitialised", "measured"}
        /\ conn' \in {"none", "connecting", "open", "closing", "closed"}
        /\ event' \in {"none", "open", "message", "close", "fail"}
    BY <2>3
  <2>6. /\ m_open' \in BOOLEAN /\ m_done' \in BOOLEAN /\ m_failed' \in BOOLEAN
        /\ m_message_pending' \in BOOLEAN /\ ec' \in BOOLEAN /\ peerClosed' \in BOOLEAN
    BY <2>3
  <2> QED
    BY <2>1, <2>2, <2>4, <2>5, <2>6, Zenon
<1>12. CASE Check
  BY <1>12 DEF Check, NotReady, clientVars, connVars
<1>13. CASE Send
  BY <1>13 DEF Send, clientVars, connVars
<1>14. CASE AfterSend
  BY <1>14 DEF AfterSend, clientVars, connVars
<1>15. CASE Finish
  BY <1>15 DEF Finish, clientVars, connVars
<1>16. CASE Stop
  BY <1>16 DEF Stop, vars, clientVars, connVars
<1>17. CASE UNCHANGED vars
  BY <1>17 DEF vars, clientVars, connVars
<1> QED
  BY <1>1, <1>2, <1>3, <1>4, <1>5, <1>6, <1>7, <1>8, <1>9, <1>10, <1>11, <1>12, <1>13, <1>14, <1>15, <1>16, <1>17 DEF Next, Main, Asio, Telemetry

(* The handlers follow the connection.                                    *)
LEMMA LifecycleStep ==
  ASSUME TypeOK, Lifecycle, [Next]_vars
  PROVE  Lifecycle'
<1> USE TotalAssumption DEF TypeOK, Lifecycle, Alive
<1>1. CASE Run
  BY <1>1 DEF Run, clientVars, connVars
<1>2. CASE Wait
  BY <1>2 DEF Wait, AsioEnded, clientVars, connVars
<1>3. CASE Opens
  BY <1>3 DEF Opens, AsioIdle, clientVars, connVars
<1>4. CASE ConnectFails
  BY <1>4 DEF ConnectFails, AsioIdle, clientVars, connVars
<1>5. CASE EchoArrives
  BY <1>5 DEF EchoArrives, AsioIdle, clientVars, connVars
<1>6. CASE PeerCloses
  BY <1>6 DEF PeerCloses, AsioIdle, clientVars, connVars
<1>7. CASE Closes
  BY <1>7 DEF Closes, AsioIdle, clientVars, connVars
<1>8. CASE on_open
  BY <1>8 DEF on_open
<1>9. CASE on_close
  BY <1>9 DEF on_close
<1>10. CASE on_fail
  BY <1>10 DEF on_fail
<1>11. CASE on_message
  BY <1>11 DEF on_message
<1>12. CASE Check
  BY <1>12 DEF Check, NotReady, clientVars, connVars
<1>13. CASE Send
  BY <1>13 DEF Send, clientVars, connVars
<1>14. CASE AfterSend
  BY <1>14 DEF AfterSend, clientVars, connVars
<1>15. CASE Finish
  BY <1>15 DEF Finish, clientVars, connVars
<1>16. CASE Stop
  BY <1>16 DEF Stop, vars, clientVars, connVars
<1>17. CASE UNCHANGED vars
  BY <1>17 DEF vars, clientVars, connVars
<1> QED
  BY <1>1, <1>2, <1>3, <1>4, <1>5, <1>6, <1>7, <1>8, <1>9, <1>10, <1>11, <1>12, <1>13, <1>14, <1>15, <1>16, <1>17 DEF Next, Main, Asio, Telemetry

(* One message at the most is under way.                                   *)
LEMMA InFlightStep ==
  ASSUME TypeOK, Lifecycle, InFlight, [Next]_vars
  PROVE  InFlight'
<1> USE TotalAssumption DEF TypeOK, Lifecycle, InFlight
<1>1. CASE Run
  BY <1>1 DEF Run, clientVars, connVars
<1>2. CASE Wait
  BY <1>2 DEF Wait, AsioEnded, clientVars, connVars
<1>3. CASE Opens
  BY <1>3 DEF Opens, AsioIdle, clientVars, connVars
<1>4. CASE ConnectFails
  BY <1>4 DEF ConnectFails, AsioIdle, clientVars, connVars
<1>5. CASE EchoArrives
  BY <1>5 DEF EchoArrives, AsioIdle, clientVars, connVars
<1>6. CASE PeerCloses
  BY <1>6 DEF PeerCloses, AsioIdle, clientVars, connVars
<1>7. CASE Closes
  BY <1>7 DEF Closes, AsioIdle, clientVars, connVars
<1>8. CASE on_open
  BY <1>8 DEF on_open
<1>9. CASE on_close
  BY <1>9 DEF on_close
<1>10. CASE on_fail
  BY <1>10 DEF on_fail
<1>11. CASE on_message
  BY <1>11, EchoTaken DEF on_message
<1>12. CASE Check
  BY <1>12 DEF Check, NotReady, clientVars, connVars
<1>13. CASE Send
  <2>1. wire = <<>>
    BY <1>13 DEF Send
  <2>2. CASE conn = "open"
    <3>1. wire' = <<m_start'>> /\ ~ec'
      BY <1>13, <2>1, <2>2, Singleton DEF Send
    <3> QED
      BY <1>13, <3>1, Singleton DEF Send
  <2>3. CASE conn # "open"
    BY <1>13, <2>1, <2>3 DEF Send
  <2> QED
    BY <2>2, <2>3
<1>14. CASE AfterSend
  BY <1>14 DEF AfterSend, clientVars, connVars
<1>15. CASE Finish
  BY <1>15 DEF Finish, clientVars, connVars
<1>16. CASE Stop
  BY <1>16 DEF Stop, vars, clientVars, connVars
<1>17. CASE UNCHANGED vars
  BY <1>17 DEF vars, clientVars, connVars
<1> QED
  BY <1>1, <1>2, <1>3, <1>4, <1>5, <1>6, <1>7, <1>8, <1>9, <1>10, <1>11, <1>12, <1>13, <1>14, <1>15, <1>16, <1>17 DEF Next, Main, Asio, Telemetry

(* A sample is taken only of the message m_start belongs to.               *)
LEMMA EchoStep ==
  ASSUME TypeOK, InFlight, EchoPaired, [Next]_vars
  PROVE  EchoPaired'
<1> USE TotalAssumption DEF TypeOK, InFlight, EchoPaired
<1>1. CASE Run
  BY <1>1 DEF Run, clientVars, connVars
<1>2. CASE Wait
  BY <1>2 DEF Wait, AsioEnded, clientVars, connVars
<1>3. CASE Opens
  BY <1>3 DEF Opens, AsioIdle, clientVars, connVars
<1>4. CASE ConnectFails
  BY <1>4 DEF ConnectFails, AsioIdle, clientVars, connVars
<1>5. CASE EchoArrives
  BY <1>5 DEF EchoArrives, AsioIdle, clientVars, connVars
<1>6. CASE PeerCloses
  BY <1>6 DEF PeerCloses, AsioIdle, clientVars, connVars
<1>7. CASE Closes
  BY <1>7 DEF Closes, AsioIdle, clientVars, connVars
<1>8. CASE on_open
  BY <1>8 DEF on_open
<1>9. CASE on_close
  BY <1>9 DEF on_close
<1>10. CASE on_fail
  BY <1>10 DEF on_fail
<1>11. CASE on_message
  <2> DEFINE e == [echo |-> m_start, start |-> m_start]
  <2>1. m_stats' = Append(m_stats, e) /\ e.echo = e.start
    BY <1>11, EchoTaken
  <2>2. m_stats \in Seq([echo : 1 .. Total, start : 0 .. Total])
    BY <1>11, EchoTaken
  <2>3. Len(m_stats') = Len(m_stats) + 1 /\ m_stats'[Len(m_stats) + 1] = e
    BY <2>1, <2>2
  <2>4. \A i \in 1 .. Len(m_stats) : m_stats'[i] = m_stats[i]
    BY <2>1, <2>2
  <2>5. Len(m_stats) \in Nat
    BY <2>2
  <2> HIDE DEF e, TypeOK, InFlight
  <2> SUFFICES ASSUME NEW i \in 1 .. Len(m_stats')
               PROVE  m_stats'[i].echo = m_stats'[i].start
    BY DEF EchoPaired
  <2>6. CASE i = Len(m_stats) + 1
    BY <2>1, <2>3, <2>6
  <2>7. CASE i \in 1 .. Len(m_stats)
    BY <2>4, <2>7 DEF EchoPaired
  <2> QED
    BY <2>3, <2>5, <2>6, <2>7
<1>12. CASE Check
  BY <1>12 DEF Check, NotReady, clientVars, connVars
<1>13. CASE Send
  BY <1>13 DEF Send, clientVars, connVars
<1>14. CASE AfterSend
  BY <1>14 DEF AfterSend, clientVars, connVars
<1>15. CASE Finish
  BY <1>15 DEF Finish, clientVars, connVars
<1>16. CASE Stop
  BY <1>16 DEF Stop, vars, clientVars, connVars
<1>17. CASE UNCHANGED vars
  BY <1>17 DEF vars, clientVars, connVars
<1> QED
  BY <1>1, <1>2, <1>3, <1>4, <1>5, <1>6, <1>7, <1>8, <1>9, <1>10, <1>11, <1>12, <1>13, <1>14, <1>15, <1>16, <1>17 DEF Next, Main, Asio, Telemetry

(* Nothing fails while the server stays.                                   *)
LEMMA ClosedByUsStep ==
  ASSUME TypeOK, Lifecycle, InFlight, ClosedByUs, [Next]_vars
  PROVE  ClosedByUs'
<1> USE TotalAssumption DEF TypeOK, Lifecycle, InFlight, ClosedByUs, PeerStays, Alive
<1>1. CASE Run
  BY <1>1 DEF Run, clientVars, connVars
<1>2. CASE Wait
  BY <1>2 DEF Wait, AsioEnded, clientVars, connVars
<1>3. CASE Opens
  BY <1>3 DEF Opens, AsioIdle, clientVars, connVars
<1>4. CASE ConnectFails
  BY <1>4 DEF ConnectFails, AsioIdle, clientVars, connVars
<1>5. CASE EchoArrives
  BY <1>5 DEF EchoArrives, AsioIdle, clientVars, connVars
<1>6. CASE PeerCloses
  BY <1>6 DEF PeerCloses, AsioIdle, clientVars, connVars
<1>7. CASE Closes
  BY <1>7 DEF Closes, AsioIdle, clientVars, connVars
<1>8. CASE on_open
  BY <1>8 DEF on_open
<1>9. CASE on_close
  BY <1>9 DEF on_close
<1>10. CASE on_fail
  BY <1>10 DEF on_fail
<1>11. CASE on_message
  <2>1. Len(m_stats') = Len(m_stats) + 1 /\ Len(m_stats) \in Nat
    BY <1>11, EchoTaken
  <2>2. Len(wire) = 1 /\ Len(wire') = 0
    BY <1>11, EchoTaken
  <2>3. Len(m_stats') + Len(wire') + errors' = m_count'
    <3>1. errors \in Nat /\ errors' = errors /\ m_count' = m_count
      BY <1>11 DEF on_message
    <3>2. Len(m_stats) + Len(wire) + errors = m_count
      OBVIOUS
    <3> HIDE DEF TypeOK, Lifecycle, InFlight, ClosedByUs
    <3> QED
      BY <2>1, <2>2, <3>1, <3>2
  <2> QED
    BY <1>11, <2>3 DEF on_message
<1>12. CASE Check
  BY <1>12 DEF Check, NotReady, clientVars, connVars
<1>13. CASE Send
  BY <1>13 DEF Send, clientVars, connVars
<1>14. CASE AfterSend
  BY <1>14 DEF AfterSend, clientVars, connVars
<1>15. CASE Finish
  BY <1>15 DEF Finish, clientVars, connVars
<1>16. CASE Stop
  BY <1>16 DEF Stop, vars, clientVars, connVars
<1>17. CASE UNCHANGED vars
  BY <1>17 DEF vars, clientVars, connVars
<1> QED
  BY <1>1, <1>2, <1>3, <1>4, <1>5, <1>6, <1>7, <1>8, <1>9, <1>10, <1>11, <1>12, <1>13, <1>14, <1>15, <1>16, <1>17 DEF Next, Main, Asio, Telemetry

-----------------------------------------------------------------------------
(* Init and every step establish the five groups of facts together.        *)
THEOREM Invariance == Spec => []Inv
<1>1. Init => Inv
  <2> SUFFICES ASSUME Init PROVE Inv
    OBVIOUS
  <2>1. TypeOK
    <3>1. m_stats \in Seq([echo : 1 .. Total, start : 0 .. Total]) /\ wire \in Seq(1 .. Total)
      BY EmptySeq DEF Init
    <3>2. m_count \in 0 .. Total /\ m_start \in 0 .. m_count /\ errors \in 0 .. m_count
      BY TotalAssumption DEF Init
    <3> QED
      BY <3>1, <3>2, Zenon DEF Init, TypeOK
  <2>2. Lifecycle /\ InFlight
    BY DEF Init, Lifecycle, InFlight
  <2>3. Len(m_stats) = 0 /\ Len(wire) = 0
    BY DEF Init
  <2>4. EchoPaired
    BY <2>3 DEF EchoPaired
  <2>5. ClosedByUs
    BY <2>3 DEF Init, ClosedByUs
  <2> QED
    BY <2>1, <2>2, <2>4, <2>5 DEF Inv
<1>2. Inv /\ [Next]_vars => Inv'
  BY TypeStep, LifecycleStep, InFlightStep, EchoStep, ClosedByUsStep DEF Inv
<1> QED
  BY <1>1, <1>2, PTL DEF Spec

(* The types hold in every reachable state, for every number of messages.  *)
THEOREM TypeCorrect == Spec => []TypeOK
<1>1. Inv => TypeOK
  BY DEF Inv
<1> QED
  BY <1>1, Invariance, PTL

(* on_message never measures a latency against the start of another        *)
(* message, whatever the handlers and the sends interleave to.             *)
THEOREM EchoPairing == Spec => []EchoPaired
<1>1. Inv => EchoPaired
  BY DEF Inv
<1> QED
  BY <1>1, Invariance, PTL

(* The telemetry thread never throws from close() while the server stays.  *)
THEOREM TerminationCause == Spec => []TerminatesOnlyAfterPeer
<1>1. Inv => TerminatesOnlyAfterPeer
  BY DEF Inv, ClosedByUs, PeerStays, TerminatesOnlyAfterPeer
<1> QED
  BY <1>1, Invariance, PTL

(* get_stats reports a setup time that was never written only as "fail".   *)
THEOREM HonestStats == Spec => []StatsHonest
<1>1. Inv => StatsHonest
  <2> SUFFICES ASSUME Inv, mpc = "joined"
               PROVE  /\ get_stats.type # "fail-opened"
                      /\ get_stats.type = "fail" <=> get_stats.setup = "uninitialised"
    BY DEF StatsHonest
  <2>1. m_setupTime \in {"uninitialised", "measured"} /\ m_open \in BOOLEAN /\ m_failed \in BOOLEAN
    BY DEF Inv, TypeOK
  <2>2. (m_open \/ m_failed) /\ ~(m_open /\ m_failed) /\ (m_open <=> m_setupTime = "measured")
    BY DEF Inv, Lifecycle
  <2> QED
    BY <2>1, <2>2 DEF get_stats
<1> QED
  BY <1>1, Invariance, PTL

(* A client whose server stays loses the last echo at the most.            *)
THEOREM EchoLoss == Spec => []OnlyLastEchoLost
<1>1. Inv => OnlyLastEchoLost
  <2> SUFFICES ASSUME Inv, mpc = "joined", ~m_failed, ~peerClosed
               PROVE  Len(m_stats) + 1 >= Total
    BY DEF OnlyLastEchoLost
  <2>1. Len(m_stats) \in Nat
    BY LenProperties DEF Inv, TypeOK
  <2>2. CASE Total = 0
    BY <2>1, <2>2
  <2>3. CASE Total # 0
    <3>1. m_count = Total /\ errors = 0
      BY <2>3 DEF Inv, Lifecycle, ClosedByUs, PeerStays
    <3>2. Len(wire) \in {0, 1}
      <4>1. wire = <<>> \/ wire = <<m_start>>
        BY DEF Inv, InFlight
      <4> QED
        BY <4>1
    <3>3. Len(m_stats) + Len(wire) + errors = m_count
      BY DEF Inv, ClosedByUs
    <3> QED
      <4>1. Len(m_stats) + Len(wire) = Total
        BY <2>1, <3>1, <3>2, <3>3
      <4>2. \A a, b, t \in Nat : b \in {0, 1} /\ a + b = t => a + 1 >= t
        OBVIOUS
      <4>3. Len(wire) \in Nat
        BY <3>2
      <4> QED
        BY <2>1, <3>2, <4>1, <4>2, <4>3, TotalAssumption
  <2> QED
    BY <2>2, <2>3
<1> QED
  BY <1>1, Invariance, PTL

-----------------------------------------------------------------------------
(* The statistics of a client whose threads have both ended are among      *)
(* those that ClientLife allows.                                           *)
LEMMA StatsAllowed == Inv /\ AsioEnded => get_stats \in Life!Results
<1> SUFFICES ASSUME Inv, AsioEnded PROVE get_stats \in Life!Results
  OBVIOUS
<1>1. /\ m_open \in BOOLEAN /\ m_failed \in BOOLEAN
      /\ m_setupTime \in {"uninitialised", "measured"}
      /\ m_count \in 0 .. Total /\ errors \in 0 .. m_count
  BY DEF Inv, TypeOK
<1>2. m_failed <=> ~m_open
  BY <1>1 DEF Inv, Lifecycle, AsioEnded
<1>3. m_open <=> m_setupTime = "measured"
  BY DEF Inv, Lifecycle
<1>4. Len(m_stats) \in 0 .. m_count
  <2>1. Len(m_stats) \in Nat /\ Len(wire) \in Nat
    BY LenProperties DEF Inv, TypeOK
  <2>2. Len(m_stats) + Len(wire) + errors = m_count
    BY DEF Inv, ClosedByUs
  <2> QED
    BY <1>1, <2>1, <2>2, TotalAssumption
<1>5. CASE m_failed
  <2>1. m_count = 0
    BY <1>1, <1>2, <1>5, TotalAssumption DEF Inv, InFlight
  <2>2. get_stats = [type |-> "fail", count |-> 0, setup |-> "uninitialised"]
    BY <1>1, <1>2, <1>3, <1>4, <1>5, <2>1 DEF get_stats
  <2> QED
    BY <2>2 DEF Life!Results
<1>6. CASE ~m_failed
  <2>1. Len(m_stats) \in 0 .. Total
    BY <1>1, <1>4, TotalAssumption
  <2>2. get_stats = [type |-> "success", count |-> Len(m_stats), setup |-> "measured"]
    BY <1>1, <1>2, <1>3, <1>6 DEF get_stats
  <2> QED
    BY <2>1, <2>2 DEF Life!Results
<1> QED
  BY <1>5, <1>6

(* A running client has no statistics yet.                                 *)
LEMMA NoResultYet ==
  ASSUME LifeOf \notin {"done", "joined"}
  PROVE  ResultOf = {}
BY DEF ResultOf

(* A client that runs stays so, ends both threads or terminates.           *)
LEMMA RunningStep ==
  ASSUME Inv, Inv', LifeOf = "running", LifeOf' \in {"running", "done", "terminated"},
         LifeOf' = "done" => AsioEnded'
  PROVE  Life!Next \/ UNCHANGED <<LifeOf, ResultOf>>
<1>1. ResultOf = {}
  BY NoResultYet
<1>2. CASE LifeOf' = "done"
  <2>1. (get_stats \in Life!Results)'
    BY <1>2, StatsAllowed, PTL
  <2>2. ResultOf' = {get_stats'}
    BY <1>2 DEF ResultOf
  <2> QED
    BY <1>2, <2>1, <2>2 DEF Life!Next, Life!ThreadsEnd
<1>3. CASE LifeOf' # "done"
  <2>1. ResultOf' = {}
    BY <1>3 DEF ResultOf
  <2> QED
    BY <1>1, <1>3, <2>1 DEF Life!Next, Life!Terminate
<1> QED
  BY <1>2, <1>3

(* The steps of the two threads are steps of a running client.             *)
LEMMA ThreadStep ==
  ASSUME Inv, Inv', Alive, mpc' = mpc, conn # "none", conn' # "none",
         ~(AsioEnded /\ tpc = "done")
  PROVE  Life!Next \/ UNCHANGED <<LifeOf, ResultOf>>
<1>1. mpc = "wait"
  BY DEF Inv, TypeOK, Lifecycle, Alive, AsioEnded
<1>2. LifeOf = "running"
  BY <1>1 DEF LifeOf, Alive
<1>3. /\ LifeOf' \in {"running", "done", "terminated"}
      /\ LifeOf' = "done" => AsioEnded'
  BY <1>1 DEF LifeOf
<1> QED
  BY <1>2, <1>3, RunningStep

(* Every step of the client is one of ClientLife, or changes nothing that  *)
(* doTheWork can see.                                                      *)
LEMMA LifeStep ==
  ASSUME Inv, Inv', [Next]_vars
  PROVE  Life!Next \/ UNCHANGED <<LifeOf, ResultOf>>
<1>0. TypeOK /\ Lifecycle
  BY DEF Inv
<1>1. CASE Run
  <2>1. LifeOf = "created" /\ conn = "none" /\ tpc = "none"
    BY <1>0, <1>1 DEF Run, Lifecycle, LifeOf
  <2>2. LifeOf' \in {"running", "idle"}
    BY <1>1, <2>1 DEF Run, LifeOf, AsioEnded, connVars
  <2>3. ResultOf = {} /\ ResultOf' = {}
    BY <2>1, <2>2 DEF ResultOf
  <2> QED
    BY <2>1, <2>2, <2>3 DEF Life!Next, Life!Run
<1>2. CASE Wait
  <2>1. CASE conn = "none" /\ mpc' = "crashed"
    <3>1. LifeOf = "idle" /\ LifeOf' = "crashed"
      BY <1>2, <2>1 DEF Wait, Alive, LifeOf, AsioEnded
    <3> QED
      BY <3>1 DEF ResultOf, Life!Next, Life!Wait
  <2>2. CASE AsioEnded /\ tpc = "done" /\ mpc' = "joined"
    <3>1. LifeOf = "done" /\ LifeOf' = "joined"
      BY <1>2, <2>2 DEF Wait, Alive, LifeOf, AsioEnded
    <3>2. get_stats' = get_stats
      BY <1>2 DEF Wait, clientVars, get_stats
    <3> QED
      BY <3>1, <3>2 DEF ResultOf, Life!Next, Life!Wait
  <2> QED
    BY <1>2, <2>1, <2>2 DEF Wait
<1>3. CASE Opens \/ ConnectFails \/ EchoArrives \/ PeerCloses \/ Closes
  BY <1>3, ThreadStep
  DEF Opens, ConnectFails, EchoArrives, PeerCloses, Closes, AsioIdle, AsioEnded
<1>4. CASE on_open \/ on_close \/ on_fail \/ on_message
  <2>1. event # "none" /\ conn # "none" /\ Alive
    BY <1>0, <1>4 DEF on_open, on_close, on_fail, on_message, Lifecycle
  <2> QED
    BY <1>4, <2>1, ThreadStep DEF on_open, on_close, on_fail, on_message, AsioEnded
<1>5. CASE Telemetry
  <2>1. conn # "none" /\ tpc # "done" /\ Alive
    BY <1>0, <1>5 DEF Telemetry, Check, Send, AfterSend, Finish, Lifecycle
  <2>2. mpc' = mpc /\ conn' # "none"
    BY <1>5, <2>1 DEF Telemetry, Check, Send, AfterSend, Finish, connVars
  <2> QED
    BY <2>1, <2>2, ThreadStep
<1>6. CASE UNCHANGED vars
  BY <1>6 DEF vars, clientVars, connVars, LifeOf, ResultOf, AsioEnded, get_stats
<1> QED
  BY <1>1, <1>2, <1>3, <1>4, <1>5, <1>6 DEF Next, Main, Asio, Stop

(* The client of three threads, handlers and a server that may do anything *)
(* is, to doTheWork, a client of ClientLife: run, end with statistics that *)
(* are fixed, be joined - or take the process with it.                     *)
THEOREM ClientRefinement == Spec => ImplementsClientLife
<1>1. Init => Life!Init
  BY DEF Init, Life!Init, LifeOf, ResultOf
<1>2. Inv /\ Inv' /\ [Next]_vars => [Life!Next]_<<LifeOf, ResultOf>>
  BY LifeStep
<1> QED
  BY <1>1, <1>2, Invariance, PTL DEF Spec, ImplementsClientLife, Life!Spec
=============================================================================
