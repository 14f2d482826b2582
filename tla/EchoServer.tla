----------------------------- MODULE EchoServer -----------------------------
(***************************************************************************)
(* The TLS echo server (utils/ssl-server.cpp) and its test clients         *)
(* (utils/ssl-client.cpp), each a chain of asynchronous operations:        *)
(*                                                                         *)
(*   session  accept -> handshake -> (read_some -> write)*  until an error *)
(*   client   connect -> handshake -> write -> read -> end                 *)
(*                                                                         *)
(* The session that accepts client c is called c; it reads into data_ and  *)
(* writes from it, and deletes itself when an operation fails.  A client   *)
(* sends one request and reads as many bytes as it has sent.  Boost.Asio,  *)
(* OpenSSL and TCP are external: a connection delivers bytes in order, in  *)
(* pieces of any size, and may break at any time.                          *)
(***************************************************************************)
EXTENDS Naturals, Sequences

CONSTANTS
  Client,        \* the test clients somebody starts
  Request,       \* request_: the bytes each of them sends
  MaxLength      \* max_length: the size of data_

ASSUME EchoAssumption == Request \in Seq(Nat) /\ MaxLength \in Nat \ {0}

VARIABLES
  accepting,     \* an async_accept is pending
  spc,           \* spc[c]: the operation the session waits for
  data_,         \* data_[c]: what the session has read and not yet written
  cpc,           \* cpc[c]: the operation the client waits for
  written,       \* written[c]: how much of the request it has written
  reply_,        \* reply_[c]: what it has read
  link,          \* link[c]: the TCP connection
  toServer, toClient    \* bytes on their way

serverVars == <<accepting, spc, data_>>
clientVars == <<cpc, written, reply_>>
netVars == <<link, toServer, toClient>>
vars == <<serverVars, clientVars, netVars>>

Init ==
  /\ accepting = TRUE
  /\ spc = [c \in Client |-> "none"]
  /\ data_ = [c \in Client |-> <<>>]
  /\ cpc = [c \in Client |-> "connect"]
  /\ written = [c \in Client |-> 0]
  /\ reply_ = [c \in Client |-> <<>>]
  /\ link = [c \in Client |-> "none"]
  /\ toServer = [c \in Client |-> <<>>]
  /\ toClient = [c \in Client |-> <<>>]

Up(c) == link[c] = "up"

-----------------------------------------------------------------------------
(* The server.  One thread runs all handlers.                              *)

(* Mutant: an error ends the chain of accepts.                             *)
AcceptFailsOnce(c) ==
  /\ accepting /\ Up(c) /\ spc[c] = "none"
  /\ accepting' = FALSE
  /\ link' = [link EXCEPT ![c] = "down"]
  /\ UNCHANGED <<spc, data_, clientVars, toServer, toClient>>

(* handle_accept with an error: the new session is deleted and the next    *)
(* accept started.  The connection it was for stays in the backlog (no     *)
(* descriptor was free), or is gone (it was aborted).                      *)
AcceptFails(c) ==
  /\ accepting /\ Up(c) /\ spc[c] = "none"
  /\ accepting' = TRUE
  /\ UNCHANGED link \/ link' = [link EXCEPT ![c] = "down"]
  /\ UNCHANGED <<spc, data_, clientVars, toServer, toClient>>

(* handle_accept: session::start, and the next accept.                     *)
Accept(c) ==
  /\ accepting /\ link[c] # "none" /\ spc[c] = "none"
  /\ spc' = [spc EXCEPT ![c] = "handshake"]
  /\ accepting' = TRUE
  /\ UNCHANGED <<data_, clientVars, netVars>>

(* Mutant: handle_write does not delete the session.                       *)
SessionFailsButWrites(c) ==
  /\ spc[c] \in {"handshake", "read"} /\ link[c] = "down"
  /\ spc' = [spc EXCEPT ![c] = "deleted"]
  /\ UNCHANGED <<accepting, data_, clientVars, netVars>>

(* handle_handshake, handle_read, handle_write with an error: delete this. *)
(* What was received before the connection broke may still be read.        *)
SessionFails(c) ==
  /\ spc[c] \in {"handshake", "read", "write"} /\ link[c] = "down"
  /\ spc' = [spc EXCEPT ![c] = "deleted"]
  /\ UNCHANGED <<accepting, data_, clientVars, netVars>>

(* handle_handshake of the session, which starts to read.                  *)
Handshake(c) ==
  /\ Up(c) /\ spc[c] = "handshake" /\ cpc[c] = "handshake"
  /\ spc' = [spc EXCEPT ![c] = "read"]
  /\ UNCHANGED <<accepting, data_, clientVars, netVars>>

(* Mutant: the next read is started together with the write.               *)
ReadWhileWriting(c) ==
  /\ spc[c] \in {"read", "write"}
  /\ \E n \in 1 .. MaxLength :
       /\ n <= Len(toServer[c])
       /\ data_' = [data_ EXCEPT ![c] = SubSeq(toServer[c], 1, n)]
       /\ toServer' = [toServer EXCEPT ![c] = SubSeq(@, n + 1, Len(@))]
  /\ spc' = [spc EXCEPT ![c] = "write"]
  /\ UNCHANGED <<accepting, clientVars, link, toClient>>

(* Mutant: max_length is larger than the buffer.                           *)
ReadPastBuffer(c) ==
  /\ spc[c] = "read"
  /\ \E n \in 1 .. MaxLength + 1 :
       /\ n <= Len(toServer[c])
       /\ data_' = [data_ EXCEPT ![c] = SubSeq(toServer[c], 1, n)]
       /\ toServer' = [toServer EXCEPT ![c] = SubSeq(@, n + 1, Len(@))]
  /\ spc' = [spc EXCEPT ![c] = "write"]
  /\ UNCHANGED <<accepting, clientVars, link, toClient>>

(* async_read_some is done, with one byte or more and no more than fit;    *)
(* handle_read starts to write them.                                       *)
ReadSome(c) ==
  /\ spc[c] = "read"
  /\ \E n \in 1 .. MaxLength :
       /\ n <= Len(toServer[c])
       /\ data_' = [data_ EXCEPT ![c] = SubSeq(toServer[c], 1, n)]
       /\ toServer' = [toServer EXCEPT ![c] = SubSeq(@, n + 1, Len(@))]
  /\ spc' = [spc EXCEPT ![c] = "write"]
  /\ UNCHANGED <<accepting, clientVars, link, toClient>>

(* async_write makes progress; after the last byte handle_write reads on.  *)
WriteSome(c) ==
  /\ Up(c) /\ spc[c] = "write"
  /\ \E n \in 1 .. Len(data_[c]) :
       /\ toClient' = [toClient EXCEPT ![c] = @ \o SubSeq(data_[c], 1, n)]
       /\ data_' = [data_ EXCEPT ![c] = SubSeq(@, n + 1, Len(@))]
       /\ spc' = [spc EXCEPT ![c] = IF n = Len(data_[c]) THEN "read" ELSE @]
  /\ UNCHANGED <<accepting, clientVars, link, toServer>>

Session(c) ==
  Accept(c) \/ SessionFails(c) \/ Handshake(c) \/ ReadSome(c) \/ WriteSome(c)

-----------------------------------------------------------------------------
(* The client.  Its process ends with its last handler, which closes the   *)
(* socket without a TLS shutdown; if the connect was refused there is no   *)
(* connection to close, and none to accept.                                *)
Ends(c, how) ==
  /\ cpc' = [cpc EXCEPT ![c] = how]
  /\ link' = [link EXCEPT ![c] = IF @ = "none" THEN @ ELSE "down"]

Connects(c) ==
  /\ cpc[c] = "connect"
  /\ cpc' = [cpc EXCEPT ![c] = "handshake"]
  /\ link' = [link EXCEPT ![c] = "up"]
  /\ UNCHANGED <<serverVars, written, reply_, toServer, toClient>>

(* handle_handshake, after the server's part of it: sleep, then write.     *)
ClientHandshake(c) ==
  /\ Up(c) /\ cpc[c] = "handshake" /\ spc[c] = "read"
  /\ cpc' = [cpc EXCEPT ![c] = "write"]
  /\ UNCHANGED <<serverVars, written, reply_, netVars>>

(* handle_connect, handle_handshake, handle_write, handle_read with an     *)
(* error: a refused connection, a certificate that does not verify, a      *)
(* connection that broke.                                                  *)
ClientFails(c) ==
  /\ \/ cpc[c] = "connect"
     \/ cpc[c] = "handshake" /\ spc[c] = "handshake"
     \/ cpc[c] \in {"handshake", "write", "read"} /\ link[c] = "down"
  /\ Ends(c, "failed")
  /\ UNCHANGED <<serverVars, written, reply_, toServer, toClient>>

(* async_write makes progress; after the last byte handle_write reads.     *)
(* OpenSSL takes request_, a local variable of handle_handshake, when the  *)
(* write is started; it leaves in pieces of any size.                      *)
ClientWrites(c) ==
  /\ Up(c) /\ cpc[c] = "write"
  /\ \E n \in 1 .. Len(Request) - written[c] :
       /\ toServer' = [toServer EXCEPT ![c] =
                         @ \o SubSeq(Request, written[c] + 1, written[c] + n)]
       /\ written' = [written EXCEPT ![c] = @ + n]
       /\ cpc' = [cpc EXCEPT ![c] = IF written[c] + n = Len(Request) THEN "read" ELSE @]
  /\ UNCHANGED <<serverVars, reply_, link, toClient>>

(* Mutant: async_read_some, which is content with less.                    *)
ClientReadsSome(c) ==
  /\ cpc[c] = "read" /\ toClient[c] # <<>>
  /\ reply_' = [reply_ EXCEPT ![c] = @ \o toClient[c]]
  /\ toClient' = [toClient EXCEPT ![c] = <<>>]
  /\ Ends(c, "done")
  /\ UNCHANGED <<serverVars, written, toServer>>

(* async_read collects exactly as many bytes as were written, then         *)
(* handle_read prints the reply.                                           *)
ClientReads(c) ==
  /\ cpc[c] = "read" /\ toClient[c] # <<>>
  /\ reply_' = [reply_ EXCEPT ![c] = @ \o toClient[c]]
  /\ toClient' = [toClient EXCEPT ![c] = <<>>]
  /\ IF Len(reply_'[c]) = written[c] THEN Ends(c, "done") ELSE UNCHANGED <<cpc, link>>
  /\ UNCHANGED <<serverVars, written, toServer>>

ClientStep(c) ==
  \/ Connects(c) \/ ClientHandshake(c) \/ ClientFails(c)
  \/ ClientWrites(c) \/ ClientReads(c)

(* The connection breaks; some of what was under way is lost.              *)
Breaks(c) ==
  /\ Up(c)
  /\ link' = [link EXCEPT ![c] = "down"]
  /\ \E n \in 0 .. Len(toServer[c]), m \in 0 .. Len(toClient[c]) :
       /\ toServer' = [toServer EXCEPT ![c] = SubSeq(@, 1, n)]
       /\ toClient' = [toClient EXCEPT ![c] = SubSeq(@, 1, m)]
  /\ UNCHANGED <<serverVars, clientVars>>

-----------------------------------------------------------------------------
Ended(c) == cpc[c] \in {"done", "failed"}

Idle(c) == Ended(c) /\ spc[c] \in {"none", "deleted"}

(* The server never returns: it waits for the next client.                 *)
Waiting == (\A c \in Client : Idle(c)) /\ UNCHANGED vars

Next ==
  \/ \E c \in Client : Session(c) \/ AcceptFails(c) \/ ClientStep(c) \/ Breaks(c)
  \/ Waiting

Spec == Init /\ [][Next]_vars

(* The server and the clients keep running and a connection that stands    *)
(* delivers.  Nothing makes an accept fail or a connection break.          *)
FairSpec ==
  Spec /\ \A c \in Client : WF_vars(Session(c)) /\ WF_vars(ClientStep(c))

-----------------------------------------------------------------------------
States == {"none", "connect", "handshake", "read", "write", "done", "failed", "deleted"}

TypeOK ==
  /\ accepting \in BOOLEAN
  /\ spc \in [Client -> States] /\ cpc \in [Client -> States]
  /\ link \in [Client -> {"none", "up", "down"}]
  /\ \A c \in Client :
       /\ written[c] \in 0 .. Len(Request)
       /\ Len(data_[c]) <= MaxLength
       /\ Len(reply_[c]) <= written[c]

(* While a connection stands, what the client has read, what is under way  *)
(* back, what the session holds and what is under way to it are together,  *)
(* in this order, what the client has written: the one buffer of a session *)
(* is never overwritten before it is written out.                          *)
EchoStream ==
  \A c \in Client :
    Up(c) => reply_[c] \o toClient[c] \o data_[c] \o toServer[c]
               = SubSeq(Request, 1, written[c])

(* A client that gets to the end has its whole request back, whatever the  *)
(* sizes of the pieces it travelled in.                                    *)
WholeReply == \A c \in Client : cpc[c] = "done" => reply_[c] = Request

(* Every client ends, also when an accept before it failed.                *)
ClientsEnd == \A c \in Client : <>Ended(c)

(* A session is deleted after its client is gone: the server does not      *)
(* collect sessions, whatever they were doing.                             *)
SessionReclaimed == \A c \in Client : Ended(c) ~> (spc[c] \in {"none", "deleted"})
=============================================================================
