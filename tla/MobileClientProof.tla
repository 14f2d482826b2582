------------------------- MODULE MobileClientProof -------------------------
(***************************************************************************)
(* Proofs about MobileClient, for every number of messages.                *)
(*                                                                         *)
(* The cause of the crash in on_fail rests on the order in which the two   *)
(* links live (LinkInv): the signaling link is not started before the      *)
(* primary one was open, so a primary that is closed when the signaling    *)
(* link exists has had its close handler called, or is about to.  That a   *)
(* latency belongs to one message rests on InFlight: one message at the    *)
(* most is under way, on whichever link.                                   *)
(***************************************************************************)
EXTENDS MobileClient, SequenceTheorems, TLAPS

LinkTypes ==
  /\ conn \in [Links -> {"none", "connecting", "open", "closing", "closed"}]
  /\ event \in [kind : {"none", "open", "opened", "message", "close", "fail"}, link : Links]

(* The handle is there as soon as the connection is.                       *)
HandleAssigned == conn["primary"] # "none" => "primary" \in hdl

(* What the asio thread is about to report is what the link has become.    *)
EventFollowsLink ==
  /\ event.kind \in {"open", "opened"} => conn[event.link] \in {"open", "closing"}
  /\ event.kind \in {"open", "opened"} /\ event.link = "primary" => conn["signaling"] = "none"
  /\ event.kind = "opened" => event.link = "primary"
  /\ event.kind \in {"close", "fail"} => conn[event.link] = "closed"

(* The signaling link comes after the primary one.                         *)
LinkOrder ==
  /\ mpc = "run" => conn["primary"] = "none"
  /\ conn["primary"] \in {"none", "connecting"} => conn["signaling"] = "none"
  /\ conn["primary"] = "closed" /\ conn["signaling"] # "none" =>
       "primary" \in closeSeen \/ event = [kind |-> "close", link |-> "primary"]

LinkInv == LinkTypes /\ HandleAssigned /\ EventFollowsLink /\ LinkOrder /\ CrashOnlyAfterClose

(* Every step of every thread keeps the order of the links.                *)
LEMMA LinkStep ==
  ASSUME LinkInv, [Next]_vars
  PROVE  LinkInv'
<1> USE DEF LinkInv, LinkTypes, HandleAssigned, EventFollowsLink, LinkOrder,
            CrashOnlyAfterClose, Links, Idle, Alive, sendVars, connVars
<1>1. CASE Run
  BY <1>1 DEF Run, Connect
<1>2. CASE Wait
  BY <1>2 DEF Wait
<1>3. ASSUME NEW c \in Links, Opens(c)
      PROVE  LinkInv'
  BY <1>3 DEF Opens, AsioIdle, Happens
<1>4. ASSUME NEW c \in Links, ConnectFails(c)
      PROVE  LinkInv'
  BY <1>4 DEF ConnectFails, AsioIdle, Happens
<1>5. ASSUME NEW c \in Links, EchoArrives(c)
      PROVE  LinkInv'
  BY <1>5 DEF EchoArrives, AsioIdle, Happens
<1>6. ASSUME NEW c \in Links, PeerCloses(c)
      PROVE  LinkInv'
  BY <1>6 DEF PeerCloses, AsioIdle, Happens
<1>7. ASSUME NEW c \in Links, Closes(c)
      PROVE  LinkInv'
  BY <1>7 DEF Closes, AsioIdle, Happens
<1>8. ASSUME NEW c \in Links, on_open(c)
      PROVE  LinkInv'
  BY <1>8 DEF on_open, Handles
<1>9. CASE connect_signaling
  BY <1>9 DEF connect_signaling, Handles, Connect
<1>10. ASSUME NEW c \in Links, on_close(c)
      PROVE  LinkInv'
  BY <1>10 DEF on_close, Handles
<1>11. ASSUME NEW c \in Links, on_fail(c)
      PROVE  LinkInv'
  BY <1>11 DEF on_fail, Handles
<1>12. ASSUME NEW c \in Links, on_message(c)
      PROVE  LinkInv'
  BY <1>12 DEF on_message, Handles
<1>13. CASE Check
  BY <1>13 DEF Check
<1>14. CASE Send
  BY <1>14 DEF Send
<1>15. CASE AfterSend
  BY <1>15 DEF AfterSend
<1>16. CASE Finish
  BY <1>16 DEF Finish, Accepting
<1>17. CASE Stop
  BY <1>17 DEF Stop, vars
<1>18. CASE UNCHANGED vars
  BY <1>18 DEF vars
<1> HIDE DEF LinkInv, Links
<1> QED
  BY <1>1, <1>2, <1>3, <1>4, <1>5, <1>6, <1>7, <1>8, <1>9, <1>10, <1>11, <1>12, <1>13, <1>14, <1>15, <1>16, <1>17, <1>18
  DEF Next, Main, Asio, Telemetry

(* on_fail dereferences a null pointer only when the primary link has been *)
(* open and closed, and the signaling link fails after that.               *)
THEOREM CrashCause == Spec => []CrashOnlyAfterClose
<1>1. Init => LinkInv
  BY DEF Init, LinkInv, LinkTypes, HandleAssigned, EventFollowsLink, LinkOrder,
         CrashOnlyAfterClose, Links, Idle
<1>2. LinkInv /\ [Next]_vars => LinkInv'
  BY LinkStep
<1>3. LinkInv => CrashOnlyAfterClose
  BY DEF LinkInv
<1> QED
  BY <1>1, <1>2, <1>3, PTL DEF Spec

-----------------------------------------------------------------------------
(* The telemetry thread sends only when nothing is under way, whichever    *)
(* links the last message and its echo took.                               *)
Carries(msg) == \E c \in Links : wire = <<[msg |-> msg, link |-> c]>>

InFlight ==
  /\ wire = <<>> \/ (Carries(m_start) /\ m_message_pending)
  /\ tpc = "send" => ~m_message_pending /\ m_count < Total
  /\ tpc = "sent" /\ ec => wire = <<>>
  /\ event.kind = "message" => wire # <<>>

Samples == Seq([echo : 1 .. Total, start : 0 .. Total])

Messages == Seq([msg : 1 .. Total, link : Links])

(* The sequences of length one that the wire holds.                        *)
LEMMA Singleton ==
  ASSUME NEW x
  PROVE  /\ Head(<<x>>) = x /\ Tail(<<x>>) = <<>> /\ <<x>> # <<>>
         /\ <<>> \o <<x>> = <<x>> /\ <<>> \o <<>> = <<>>
OBVIOUS

(* A handler that takes an echo off the wire finds the message whose       *)
(* sending m_start is the time of, and leaves the wire empty.              *)
LEMMA EchoTaken ==
  ASSUME TypeOK, InFlight, NEW c \in Links, on_message(c)
  PROVE  /\ m_start \in 1 .. Total /\ wire' = <<>>
         /\ m_stats' = Append(m_stats, [echo |-> m_start, start |-> m_start])
<1>1. PICK d \in Links : wire = <<[msg |-> m_start, link |-> d]>>
  BY DEF InFlight, Carries, on_message, Handles
<1>2. wire \in Seq([msg : 1 .. Total, link : Links])
  BY DEF TypeOK
<1>3. m_start \in 1 .. Total
  <2>1. Len(wire) = 1 /\ wire[1] = [msg |-> m_start, link |-> d]
    BY <1>1
  <2>2. wire[1] \in [msg : 1 .. Total, link : Links]
    BY <1>2, <2>1, ElementOfSeq
  <2> QED
    BY <2>1, <2>2
<1>4. Head(wire).msg = m_start /\ Tail(wire) = <<>>
  BY <1>1, Singleton
<1> QED
  BY <1>3, <1>4 DEF on_message

(* send_message puts the message on the first link that takes it, or tells *)
(* of an error and puts it on none.                                        *)
LEMMA SentOnOneLink ==
  ASSUME NEW n
  PROVE  \/ send_message(n) = <<>>
         \/ \E c \in Links : send_message(n) = <<[msg |-> n, link |-> c]>>
  BY DEF send_message, Links

LEMMA SendSends ==
  ASSUME TypeOK, InFlight, Send
  PROVE  /\ m_count' = m_count + 1 /\ m_count' \in 1 .. Total /\ m_start' = m_count'
         /\ m_message_pending' = TRUE /\ tpc' = "sent" /\ UNCHANGED <<event, m_stats>>
         /\ \/ wire' = <<>> /\ ec' = TRUE
            \/ \E c \in Links : wire' = <<[msg |-> m_start', link |-> c]>> /\ ec' = FALSE
<1>1. /\ m_count' = m_count + 1 /\ m_start' = m_count' /\ m_message_pending' = TRUE
      /\ tpc' = "sent" /\ UNCHANGED <<event, m_stats>>
  BY DEF Send
<1>2. m_count' \in 1 .. Total
  BY <1>1, TotalAssumption DEF Send, TypeOK, InFlight
<1>3. wire = <<>>
  BY DEF Send, InFlight
<1>4. wire' = send_message(m_count') /\ ec' = (send_message(m_count') = <<>>)
  <2>1. \A s : s = <<>> \/ (\E x : s = <<x>>) => <<>> \o s = s
    BY Singleton
  <2>2. send_message(m_count') = <<>> \/ \E x : send_message(m_count') = <<x>>
    BY SentOnOneLink
  <2> QED
    BY <1>3, <2>1, <2>2 DEF Send
<1>5. CASE send_message(m_count') = <<>>
  BY <1>1, <1>2, <1>4, <1>5
<1>6. ASSUME NEW c \in Links, send_message(m_count') = <<[msg |-> m_count', link |-> c]>>
      PROVE  wire' = <<[msg |-> m_start', link |-> c]>> /\ ec' = FALSE
  BY <1>1, <1>4, <1>6, Singleton
<1> QED
  BY <1>1, <1>2, <1>5, <1>6, SentOnOneLink

(* A step that leaves the sending alone.                                   *)
LEMMA SendingKept ==
  ASSUME InFlight, UNCHANGED sendVars, tpc' \notin {"send", "sent"} \/ UNCHANGED tpc,
         event'.kind = "message" => wire # <<>>
  PROVE  InFlight'
  BY DEF InFlight, Carries, sendVars

LEMMA InFlightStep ==
  ASSUME TypeOK, InFlight, [Next]_vars
  PROVE  InFlight'
<1>1. CASE Run
  BY <1>1, SendingKept DEF Run, InFlight
<1>2. CASE Wait
  BY <1>2, SendingKept DEF Wait, InFlight
<1>3. ASSUME NEW c \in Links, Opens(c) \/ ConnectFails(c) \/ Closes(c) \/ EchoArrives(c)
      PROVE  InFlight'
  BY <1>3, SendingKept DEF Opens, ConnectFails, Closes, EchoArrives, Happens
<1>4. ASSUME NEW c \in Links, PeerCloses(c)
      PROVE  InFlight'
  <2>1. UNCHANGED <<tpc, m_message_pending, m_count, m_start, m_stats, ec>>
        /\ event'.kind # "message"
    BY <1>4 DEF PeerCloses, AsioIdle, Idle, Happens
  <2>2. CASE UNCHANGED wire
    BY <2>1, <2>2, SendingKept DEF sendVars
  <2>3. CASE wire # <<>> /\ wire' = Tail(wire)
    <3>1. PICK x : wire = <<x>>
      BY <2>3 DEF InFlight, Carries
    <3>2. wire' = <<>>
      BY <2>3, <3>1, Singleton
    <3> QED
      BY <2>1, <3>2 DEF InFlight
  <2> QED
    BY <1>4, <2>2, <2>3 DEF PeerCloses
<1>5. ASSUME NEW c \in Links, on_open(c) \/ on_close(c) \/ on_fail(c)
      PROVE  InFlight'
  BY <1>5, SendingKept DEF on_open, on_close, on_fail, Idle
<1>6. CASE connect_signaling
  BY <1>6, SendingKept DEF connect_signaling, Idle
<1>7. ASSUME NEW c \in Links, on_message(c)
      PROVE  InFlight'
  <2>1. wire' = <<>> /\ event'.kind # "message" /\ UNCHANGED <<tpc, m_count>>
        /\ m_message_pending' = FALSE
    BY <1>7, EchoTaken DEF on_message, Idle
  <2> QED
    BY <2>1 DEF InFlight
<1>8. CASE Check
  <2>1. UNCHANGED <<sendVars, event>> /\ tpc' \in {"loop", "send", "end"}
        /\ (tpc' = "send" => m_count < Total /\ ~m_message_pending)
    BY <1>8 DEF Check
  <2> QED
    BY <2>1 DEF InFlight, Carries, sendVars
<1>9. CASE Send
  <2>1. /\ m_message_pending' = TRUE /\ tpc' = "sent" /\ UNCHANGED event /\ wire = <<>>
        /\ \/ wire' = <<>> /\ ec' = TRUE
           \/ Carries(m_start)' /\ ec' = FALSE
    BY <1>9, SendSends DEF Carries, InFlight, Send
  <2> QED
    BY <2>1 DEF InFlight
<1>10. CASE AfterSend
  <2>1. UNCHANGED <<m_start, wire, event>> /\ tpc = "sent" /\ tpc' = "loop"
        /\ m_message_pending' = (m_message_pending /\ ~ec)
    BY <1>10 DEF AfterSend
  <2>2. wire = <<>> \/ (Carries(m_start)' /\ m_message_pending')
    <3>1. CASE ec
      BY <2>1, <3>1 DEF InFlight
    <3>2. CASE ~ec
      BY <2>1, <3>2 DEF InFlight, Carries
    <3> QED
      BY <3>1, <3>2
  <2> QED
    BY <2>1, <2>2 DEF InFlight
<1>11. CASE Finish
  BY <1>11, SendingKept DEF Finish, InFlight
<1>12. CASE UNCHANGED vars
  BY <1>12, SendingKept DEF vars, InFlight
<1> QED
  BY <1>1, <1>2, <1>3, <1>4, <1>5, <1>6, <1>7, <1>8, <1>9, <1>10, <1>11, <1>12
  DEF Next, Main, Asio, Telemetry, Stop

(* Every step keeps the types.                                             *)
LEMMA TypeStep ==
  ASSUME TypeOK, InFlight, [Next]_vars
  PROVE  TypeOK'
<1> DEFINE Sending ==
      /\ m_count \in 0 .. Total /\ m_start \in 0 .. m_count
      /\ m_stats \in Samples /\ wire \in Messages
      /\ m_message_pending \in BOOLEAN /\ ec \in BOOLEAN
    Control ==
      /\ mpc \in {"run", "wait", "joined", "crashed"}
      /\ tpc \in {"none", "loop", "send", "sent", "end", "done"}
      /\ m_open \in BOOLEAN /\ m_done \in BOOLEAN /\ perpetual \in BOOLEAN
      /\ hdl \subseteq Links /\ closeSeen \subseteq Links
      /\ conn \in [Links -> {"none", "connecting", "open", "closing", "closed"}]
      /\ event \in [kind : {"none", "open", "opened", "message", "close", "fail"}, link : Links]
<1>0. Sending /\ Control
  BY DEF TypeOK, Samples, Messages
<1>a. UNCHANGED sendVars => Sending'
  BY <1>0 DEF sendVars
<1>t. Sending' /\ Control' => TypeOK'
  BY DEF TypeOK, Samples, Messages
<1> HIDE DEF Sending
<1> USE DEF Links, Idle, connVars
<1>1. CASE Run
  BY <1>1, <1>0, <1>a, <1>t DEF Run, Connect
<1>2. CASE Wait
  BY <1>2, <1>0, <1>a, <1>t DEF Wait
<1>3. ASSUME NEW c \in Links, Opens(c) \/ ConnectFails(c) \/ Closes(c) \/ EchoArrives(c)
      PROVE  TypeOK'
  <2>1. CASE EchoArrives(c)
    BY <2>1, <1>0, <1>a, <1>t DEF EchoArrives, Happens
  <2>2. CASE Opens(c) \/ ConnectFails(c) \/ Closes(c)
    <3>1. UNCHANGED <<mpc, tpc, m_open, m_done, sendVars, hdl, perpetual, closeSeen>>
      BY <2>2 DEF Opens, ConnectFails, Closes
    <3>2. PICK state \in {"open", "closed"}, kind \in {"open", "fail", "close"} :
            conn' = [conn EXCEPT ![c] = state] /\ event' = [kind |-> kind, link |-> c]
      BY <2>2 DEF Opens, ConnectFails, Closes, Happens
    <3>3. /\ conn' \in [Links -> {"none", "connecting", "open", "closing", "closed"}]
          /\ event' \in [kind : {"none", "open", "opened", "message", "close", "fail"}, link : Links]
      BY <1>0, <3>2
    <3> QED
      BY <1>0, <3>1, <3>3, <1>a, <1>t
  <2> QED
    BY <1>3, <2>1, <2>2
<1>4. ASSUME NEW c \in Links, PeerCloses(c)
      PROVE  TypeOK'
  <2>1. Control'
    BY <1>4, <1>0 DEF PeerCloses, Happens
  <2>2. Sending'
    <3>1. \A S : \A s \in Seq(S) : s # <<>> => Tail(s) \in Seq(S)
      BY HeadTailProperties
    <3>2. \A s \in Messages : s # <<>> => Tail(s) \in Messages
      BY <3>1, Zenon DEF Messages
    <3>3. wire' \in Messages
      BY <1>4, <1>0, <3>2 DEF PeerCloses, Sending
    <3> QED
      BY <1>4, <1>0, <3>3 DEF PeerCloses, Sending
  <2> QED
    BY <2>1, <2>2, <1>t
<1>5. ASSUME NEW c \in Links, on_open(c) \/ on_close(c) \/ on_fail(c)
      PROVE  TypeOK'
  <2>1. CASE on_open(c)
    BY <2>1, <1>0, <1>a, <1>t DEF on_open
  <2>2. CASE on_close(c)
    BY <2>2, <1>0, <1>a, <1>t DEF on_close
  <2>3. CASE on_fail(c)
    BY <2>3, <1>0, <1>a, <1>t DEF on_fail
  <2> QED
    BY <1>5, <2>1, <2>2, <2>3
<1>6. CASE connect_signaling
  BY <1>6, <1>0, <1>a, <1>t DEF connect_signaling, Connect
<1>7. ASSUME NEW c \in Links, on_message(c)
      PROVE  TypeOK'
  <2>1. Control'
    BY <1>7, <1>0 DEF on_message
  <2>2. m_stats' \in Samples
    <3> DEFINE S == [echo : 1 .. Total, start : 0 .. Total]
               e == [echo |-> m_start, start |-> m_start]
    <3>1. e \in S /\ m_stats \in Seq(S) /\ m_stats' = Append(m_stats, e)
      BY <1>7, <1>0, EchoTaken DEF Sending, Samples
    <3> HIDE DEF S, e
    <3>2. m_stats' \in Seq(S)
      BY <3>1
    <3> QED
      BY <3>2 DEF S, Samples
  <2>3. Sending'
    BY <1>7, <1>0, <2>2, EchoTaken, EmptySeq DEF on_message, Sending, Messages
  <2> QED
    BY <2>1, <2>3, <1>t
<1>8. CASE Check
  BY <1>8, <1>0, <1>a, <1>t DEF Check
<1>9. CASE Send
  <2>1. Control'
    BY <1>9, <1>0 DEF Send
  <2>2. wire' \in Messages
    <3>1. m_start' \in 1 .. Total
      BY <1>9, SendSends
    <3>2. ASSUME NEW c \in Links, wire' = <<[msg |-> m_start', link |-> c]>>
          PROVE  wire' \in Messages
      <4>1. [msg |-> m_start', link |-> c] \in [msg : 1 .. Total, link : Links]
        BY <3>1
      <4> HIDE DEF Links
      <4> QED
        BY <3>2, <4>1 DEF Messages
    <3>3. <<>> \in Messages
      BY EmptySeq DEF Messages
    <3> QED
      BY <1>9, <3>2, <3>3, SendSends
  <2>3. /\ m_count' \in 0 .. Total /\ m_start' \in 0 .. m_count' /\ UNCHANGED m_stats
        /\ m_message_pending' \in BOOLEAN /\ ec' \in BOOLEAN
    <3>1. m_count' \in 1 .. Total /\ m_start' = m_count'
      BY <1>9, SendSends
    <3>2. m_count' \in 0 .. Total /\ m_start' \in 0 .. m_count'
      BY <3>1, TotalAssumption
    <3>3. UNCHANGED m_stats /\ m_message_pending' \in BOOLEAN /\ ec' \in BOOLEAN
      BY <1>9, Zenon DEF Send
    <3> QED
      BY <3>2, <3>3
  <2>4. Sending'
    BY <1>0, <2>2, <2>3 DEF Sending
  <2> QED
    BY <2>1, <2>4, <1>t
<1>10. CASE AfterSend
  <2>1. Control'
    BY <1>10, <1>0 DEF AfterSend
  <2>2. UNCHANGED <<m_count, m_start, m_stats, ec, wire>> /\ m_message_pending' \in BOOLEAN
    BY <1>10 DEF AfterSend
  <2>3. Sending'
    BY <1>0, <2>2 DEF Sending
  <2> QED
    BY <2>1, <2>3, <1>t
<1>11. CASE Finish
  BY <1>11, <1>0, <1>a, <1>t DEF Finish
<1>12. CASE UNCHANGED vars
  BY <1>12, <1>0, <1>a, <1>t DEF vars
<1> QED
  BY <1>1, <1>2, <1>3, <1>4, <1>5, <1>6, <1>7, <1>8, <1>9, <1>10, <1>11, <1>12
  DEF Next, Main, Asio, Telemetry, Stop

(* A sample pairs an echo with the sending of the same message.            *)
LEMMA EchoPairedStep ==
  ASSUME TypeOK, InFlight, EchoPaired, [Next]_vars
  PROVE  EchoPaired'
<1>1. ASSUME NEW c \in Links, on_message(c)
      PROVE  EchoPaired'
  <2>1. m_stats \in Seq([echo : 1 .. Total, start : 0 .. Total])
    BY DEF TypeOK
  <2>2. m_stats' = Append(m_stats, [echo |-> m_start, start |-> m_start])
    BY <1>1, EchoTaken
  <2>3. /\ Len(m_stats') = Len(m_stats) + 1 /\ Len(m_stats) \in Nat
        /\ \A i \in 1 .. Len(m_stats) : m_stats'[i] = m_stats[i]
        /\ m_stats'[Len(m_stats) + 1] = [echo |-> m_start, start |-> m_start]
    BY <2>1, <2>2
  <2> QED
    BY <2>3 DEF EchoPaired
<1>2. CASE UNCHANGED m_stats
  BY <1>2 DEF EchoPaired
<1>3. (\E c \in Links : on_message(c)) \/ UNCHANGED m_stats
  BY DEF Next, vars, Main, Asio, Telemetry, Stop, Run, Wait, Opens, ConnectFails, EchoArrives,
         Closes, PeerCloses, on_open, on_close, on_fail, connect_signaling, Check, Send,
         AfterSend, Finish, sendVars
<1> QED
  BY <1>1, <1>2, <1>3

LEMMA PairedInit ==
  Init => TypeOK /\ InFlight /\ EchoPaired
<1> SUFFICES ASSUME Init PROVE TypeOK /\ InFlight /\ EchoPaired
  OBVIOUS
<1>1. \A S : <<>> \in Seq(S) /\ Len(<<>>) = 0
  BY EmptySeq
<1>2. m_count \in 0 .. Total /\ m_start \in 0 .. m_count
  BY TotalAssumption DEF Init
<1>3. m_stats \in Seq([echo : 1 .. Total, start : 0 .. Total]) /\ wire \in Seq([msg : 1 .. Total, link : Links])
  BY <1>1, Zenon DEF Init
<1>4. TypeOK
  BY <1>2, <1>3 DEF Init, TypeOK, Idle, Links
<1>5. EchoPaired
  BY <1>1 DEF Init, EchoPaired
<1> QED
  BY <1>4, <1>5 DEF Init, InFlight, Idle

(* Every variable of the client keeps its type, and m_count its bound, for *)
(* every number of messages.                                               *)
THEOREM TypeCorrect == Spec => []TypeOK
<1>1. Init => TypeOK /\ InFlight
  BY PairedInit
<1>2. TypeOK /\ InFlight /\ [Next]_vars => TypeOK' /\ InFlight'
  BY TypeStep, InFlightStep
<1> QED
  BY <1>1, <1>2, PTL DEF Spec

(* Whichever links a message and its echo took, the latency recorded for   *)
(* it is measured from its own sending.                                    *)
THEOREM LatencyPaired == Spec => []EchoPaired
<1>1. Init => TypeOK /\ InFlight /\ EchoPaired
  BY PairedInit
<1>2. /\ TypeOK /\ InFlight /\ EchoPaired /\ [Next]_vars
      => TypeOK' /\ InFlight' /\ EchoPaired'
  BY TypeStep, InFlightStep, EchoPairedStep
<1> QED
  BY <1>1, <1>2, PTL DEF Spec
=============================================================================
