-------------------------- MODULE EchoServerProof --------------------------
(***************************************************************************)
(* Proofs about EchoServer, for every set of clients, every request and    *)
(* every size of the buffer.                                               *)
(*                                                                         *)
(* The stream is followed byte by byte: each of the four places a byte can *)
(* be in (read by the client, under way to it, held by the session, under  *)
(* way to the session) holds a run of the request, and the runs lie one    *)
(* after the other.  After the connection broke, only the first two do.    *)
(***************************************************************************)
EXTENDS EchoServer, SequenceTheorems, TLAPS

Bytes == Seq(Nat)

(* s is what the request has after its first "from" bytes.                 *)
Run(s, from) == \A k \in 1 .. Len(s) : s[k] = Request[from + k]

LEMMA RunEmpty ==
  ASSUME NEW from \in Nat
  PROVE  <<>> \in Bytes /\ Len(<<>>) = 0 /\ Run(<<>>, from)
  BY EmptySeq DEF Bytes, Run

(* Reading or writing a part of a buffer.                                  *)
LEMMA Pieces ==
  ASSUME NEW s \in Bytes, NEW n \in 0 .. Len(s)
  PROVE  /\ SubSeq(s, 1, n) \in Bytes /\ Len(SubSeq(s, 1, n)) = n
         /\ \A k \in 1 .. n : SubSeq(s, 1, n)[k] = s[k]
         /\ SubSeq(s, n + 1, Len(s)) \in Bytes
         /\ Len(SubSeq(s, n + 1, Len(s))) = Len(s) - n
         /\ \A k \in 1 .. Len(s) - n : SubSeq(s, n + 1, Len(s))[k] = s[n + k]
<1>1. Len(s) \in Nat
  BY DEF Bytes
<1>2. /\ SubSeq(s, 1, n) \in Bytes /\ Len(SubSeq(s, 1, n)) = n
      /\ \A k \in 1 .. n : SubSeq(s, 1, n)[k] = s[k]
  BY <1>1 DEF Bytes
<1>3. /\ SubSeq(s, n + 1, Len(s)) \in Bytes
      /\ Len(SubSeq(s, n + 1, Len(s))) = Len(s) - n
      /\ \A k \in 1 .. Len(s) - n : SubSeq(s, n + 1, Len(s))[k] = s[n + k]
  <2> DEFINE u == SubSeq(s, n + 1, Len(s))
  <2>1. \A i \in n + 1 .. Len(s) : s[i] \in Nat
    BY <1>1, ElementOfSeq DEF Bytes
  <2>2. /\ u \in Seq(Nat) /\ Len(u) = IF n + 1 <= Len(s) THEN Len(s) - (n + 1) + 1 ELSE 0
        /\ \A k \in 1 .. Len(s) - (n + 1) + 1 : u[k] = s[(n + 1) + k - 1]
    BY <1>1, <2>1, SubSeqProperties
  <2> HIDE DEF u
  <2>3. Len(u) = Len(s) - n /\ \A k \in 1 .. Len(s) - n : u[k] = s[n + k]
    BY <1>1, <2>2
  <2> QED
    BY <2>2, <2>3 DEF u, Bytes
<1> QED
  BY <1>2, <1>3

LEMMA RunSplit ==
  ASSUME NEW s \in Bytes, NEW from \in Nat, Run(s, from), NEW n \in 0 .. Len(s)
  PROVE  /\ Run(SubSeq(s, 1, n), from)
         /\ Run(SubSeq(s, n + 1, Len(s)), from + n)
<1>1. Len(s) \in Nat
  BY DEF Bytes
<1>2. /\ Len(SubSeq(s, 1, n)) = n /\ \A k \in 1 .. n : SubSeq(s, 1, n)[k] = s[k]
  BY Pieces
<1>3. /\ Len(SubSeq(s, n + 1, Len(s))) = Len(s) - n
      /\ \A k \in 1 .. Len(s) - n : SubSeq(s, n + 1, Len(s))[k] = s[n + k]
  BY Pieces
<1>4. Run(SubSeq(s, 1, n), from)
  BY <1>1, <1>2 DEF Run
<1>5. Run(SubSeq(s, n + 1, Len(s)), from + n)
  <2>1. ASSUME NEW k \in 1 .. Len(s) - n
        PROVE  s[n + k] = Request[(from + n) + k]
    <3>1. n + k \in 1 .. Len(s) /\ from + (n + k) = (from + n) + k
      BY <1>1
    <3> QED
      BY <3>1 DEF Run
  <2> QED
    BY <1>3, <2>1 DEF Run
<1> QED
  BY <1>4, <1>5

(* Appending the next part to a buffer.                                    *)
LEMMA RunJoin ==
  ASSUME NEW s \in Bytes, NEW t \in Bytes, NEW from \in Nat,
         Run(s, from), Run(t, from + Len(s))
  PROVE  s \o t \in Bytes /\ Len(s \o t) = Len(s) + Len(t) /\ Run(s \o t, from)
<1>1. Len(s) \in Nat /\ Len(t) \in Nat
  BY DEF Bytes
<1>2. /\ s \o t \in Bytes /\ Len(s \o t) = Len(s) + Len(t)
      /\ \A k \in 1 .. Len(s) + Len(t) :
           (s \o t)[k] = IF k <= Len(s) THEN s[k] ELSE t[k - Len(s)]
  BY DEF Bytes
<1>3. ASSUME NEW k \in 1 .. Len(s) + Len(t)
      PROVE  (s \o t)[k] = Request[from + k]
  <2>1. CASE k <= Len(s)
    BY <1>1, <1>2, <2>1 DEF Run
  <2>2. CASE ~(k <= Len(s))
    <3>1. k - Len(s) \in 1 .. Len(t) /\ (from + Len(s)) + (k - Len(s)) = from + k
      BY <1>1, <2>2
    <3> QED
      BY <1>2, <2>2, <3>1 DEF Run
  <2> QED
    BY <2>1, <2>2
<1> QED
  BY <1>2, <1>3 DEF Run

(* What the client writes next.                                            *)
LEMMA RunOfRequest ==
  ASSUME NEW w \in Nat, NEW n \in Nat, w + n <= Len(Request)
  PROVE  LET s == SubSeq(Request, w + 1, w + n)
         IN  s \in Bytes /\ Len(s) = n /\ Run(s, w)
<1>1. Request \in Seq(Nat) /\ Len(Request) \in Nat
  BY EchoAssumption
<1> DEFINE s == SubSeq(Request, w + 1, w + n)
<1>2. s \in Bytes /\ Len(s) = n /\ \A k \in 1 .. n : s[k] = Request[w + k]
  BY <1>1 DEF Bytes
<1> HIDE DEF s
<1>3. Run(s, w)
  BY <1>2 DEF Run
<1> QED
  BY <1>2, <1>3 DEF s

(* A run from the beginning is a prefix of the request.                    *)
LEMMA RunIsPrefix ==
  ASSUME NEW s \in Bytes, Run(s, 0), Len(s) <= Len(Request)
  PROVE  /\ s = SubSeq(Request, 1, Len(s))
         /\ Len(s) = Len(Request) => s = Request
<1>1. Request \in Seq(Nat) /\ Len(Request) \in Nat /\ Len(s) \in Nat
  BY EchoAssumption DEF Bytes
<1>2. \A k \in 1 .. Len(s) : s[k] = Request[k]
  BY <1>1 DEF Run
<1>3. /\ SubSeq(Request, 1, Len(s)) \in Seq(Nat) /\ Len(SubSeq(Request, 1, Len(s))) = Len(s)
      /\ \A k \in 1 .. Len(s) : SubSeq(Request, 1, Len(s))[k] = Request[k]
  BY <1>1
<1>4. s = SubSeq(Request, 1, Len(s))
  BY <1>2, <1>3, SeqEqual DEF Bytes
<1>5. ASSUME Len(s) = Len(Request) PROVE s = Request
  BY <1>1, <1>2, <1>5, SeqEqual DEF Bytes
<1> QED
  BY <1>4, <1>5

(* The four places, in order: read by the client (r), under way to it (o), *)
(* held by the session (d), under way to the session (i); w bytes of the   *)
(* request have been written.                                              *)
Returned(r, o, w) ==
  Run(r, 0) /\ Run(o, Len(r)) /\ Len(r) + Len(o) <= w

Pending(r, o, d, i, w) ==
  /\ Run(d, Len(r) + Len(o)) /\ Run(i, Len(r) + Len(o) + Len(d))
  /\ Len(r) + Len(o) + Len(d) + Len(i) = w

LEMMA Lengths ==
  ASSUME NEW s \in Bytes
  PROVE  Len(s) \in Nat
  BY DEF Bytes

LEMMA ReadMoves ==
  ASSUME NEW r \in Bytes, NEW o \in Bytes, NEW i \in Bytes, NEW w \in Nat,
         Pending(r, o, <<>>, i, w), NEW n \in 0 .. Len(i)
  PROVE  Pending(r, o, SubSeq(i, 1, n), SubSeq(i, n + 1, Len(i)), w)
<1>1. Len(r) \in Nat /\ Len(o) \in Nat /\ Len(i) \in Nat /\ n \in Nat /\ Len(<<>>) = 0
  BY Lengths, RunEmpty
<1> DEFINE back == Len(r) + Len(o)
<1>2. back \in Nat /\ back + 0 = back /\ back + 0 + Len(i) = back + Len(i)
  BY <1>1
<1>3. Run(i, back + 0) /\ back + 0 + Len(i) = w
  BY <1>1 DEF Pending
<1> HIDE DEF back
<1>4. Run(i, back) /\ back + Len(i) = w
  BY <1>2, <1>3
<1>5. /\ Run(SubSeq(i, 1, n), back) /\ Len(SubSeq(i, 1, n)) = n
      /\ Run(SubSeq(i, n + 1, Len(i)), back + n) /\ Len(SubSeq(i, n + 1, Len(i))) = Len(i) - n
  BY <1>2, <1>4, RunSplit, Pieces
<1>6. back + n + (Len(i) - n) = w
  BY <1>1, <1>2, <1>4
<1> QED
  BY <1>5, <1>6 DEF Pending, back

LEMMA WriteMoves ==
  ASSUME NEW r \in Bytes, NEW o \in Bytes, NEW d \in Bytes, NEW i \in Bytes, NEW w \in Nat,
         Returned(r, o, w), Pending(r, o, d, i, w), NEW n \in 0 .. Len(d)
  PROVE  /\ o \o SubSeq(d, 1, n) \in Bytes /\ SubSeq(d, n + 1, Len(d)) \in Bytes
         /\ Len(SubSeq(d, n + 1, Len(d))) = Len(d) - n
         /\ Returned(r, o \o SubSeq(d, 1, n), w)
         /\ Pending(r, o \o SubSeq(d, 1, n), SubSeq(d, n + 1, Len(d)), i, w)
<1> DEFINE p == SubSeq(d, 1, n)
           out == o \o p
           rest == SubSeq(d, n + 1, Len(d))
<1>1. Len(r) \in Nat /\ Len(o) \in Nat /\ Len(d) \in Nat /\ Len(i) \in Nat /\ n \in Nat
  BY Lengths
<1>2. /\ Run(r, 0) /\ Run(o, Len(r)) /\ Run(d, Len(r) + Len(o))
      /\ Run(i, Len(r) + Len(o) + Len(d)) /\ Len(r) + Len(o) + Len(d) + Len(i) = w
  BY DEF Returned, Pending
<1>3. /\ p \in Bytes /\ Len(p) = n /\ Run(p, Len(r) + Len(o))
      /\ rest \in Bytes /\ Len(rest) = Len(d) - n /\ Run(rest, Len(r) + Len(o) + n)
  BY <1>1, <1>2, Pieces, RunSplit
<1> HIDE DEF p, rest
<1>4. out \in Bytes /\ Len(out) = Len(o) + n /\ Run(out, Len(r))
  BY <1>1, <1>2, <1>3, RunJoin
<1> HIDE DEF out
<1>5. Len(r) + Len(out) = Len(r) + Len(o) + n
  BY <1>1, <1>4
<1>6. /\ Len(r) + Len(out) + Len(rest) = Len(r) + Len(o) + Len(d)
      /\ Len(r) + Len(out) + Len(rest) + Len(i) = w
      /\ Len(r) + Len(out) <= w
  <2>1. \A a, b, c, e, m \in Nat :
          m <= c => /\ a + (b + m) + (c - m) = a + b + c
                    /\ a + (b + m) <= a + b + c + e
    OBVIOUS
  <2>2. n <= Len(d) /\ Len(out) = Len(o) + n /\ Len(rest) = Len(d) - n
        /\ Len(r) + Len(o) + Len(d) + Len(i) = w
    BY <1>1, <1>2, <1>3, <1>4
  <2> QED
    BY ONLY <1>1, <2>1, <2>2
<1>7. Returned(r, out, w)
  BY <1>2, <1>4, <1>6 DEF Returned
<1>8. Pending(r, out, rest, i, w)
  BY <1>2, <1>3, <1>5, <1>6 DEF Pending
<1> QED
  BY <1>3, <1>4, <1>7, <1>8 DEF p, out, rest

LEMMA ClientWriteMoves ==
  ASSUME NEW r \in Bytes, NEW o \in Bytes, NEW d \in Bytes, NEW i \in Bytes, NEW w \in Nat,
         Pending(r, o, d, i, w), NEW n \in Nat, w + n <= Len(Request)
  PROVE  /\ i \o SubSeq(Request, w + 1, w + n) \in Bytes
         /\ Pending(r, o, d, i \o SubSeq(Request, w + 1, w + n), w + n)
<1> DEFINE p == SubSeq(Request, w + 1, w + n)
           in == i \o p
<1>1. Len(r) \in Nat /\ Len(o) \in Nat /\ Len(d) \in Nat /\ Len(i) \in Nat
  BY Lengths
<1>2. p \in Bytes /\ Len(p) = n /\ Run(p, w)
  BY RunOfRequest
<1> HIDE DEF p
<1>3. /\ Run(d, Len(r) + Len(o)) /\ Run(i, Len(r) + Len(o) + Len(d))
      /\ Len(r) + Len(o) + Len(d) + Len(i) = w
  BY DEF Pending
<1>4. Len(r) + Len(o) + Len(d) \in Nat
  BY <1>1
<1>5. in \in Bytes /\ Len(in) = Len(i) + n /\ Run(in, Len(r) + Len(o) + Len(d))
  BY <1>2, <1>3, <1>4, RunJoin
<1> HIDE DEF in
<1>6. Len(r) + Len(o) + Len(d) + Len(in) = w + n
  BY <1>1, <1>3, <1>5
<1> QED
  BY <1>3, <1>5, <1>6 DEF Pending, in, p

LEMMA ClientReadMoves ==
  ASSUME NEW r \in Bytes, NEW o \in Bytes, NEW d \in Bytes, NEW i \in Bytes, NEW w \in Nat,
         Returned(r, o, w)
  PROVE  /\ r \o o \in Bytes /\ Returned(r \o o, <<>>, w) /\ Len(r \o o) = Len(r) + Len(o)
         /\ Pending(r, o, d, i, w) => Pending(r \o o, <<>>, d, i, w)
<1> DEFINE all == r \o o
<1>1. Len(r) \in Nat /\ Len(o) \in Nat
  BY Lengths
<1>2. Run(r, 0) /\ Run(o, Len(r)) /\ Len(r) + Len(o) <= w /\ 0 + Len(r) = Len(r)
  BY <1>1 DEF Returned
<1>3. all \in Bytes /\ Len(all) = Len(r) + Len(o) /\ Run(all, 0)
  BY <1>2, RunJoin
<1> HIDE DEF all
<1>4. Len(<<>>) = 0 /\ Run(<<>>, Len(all)) /\ Len(all) + 0 = Len(r) + Len(o)
  BY <1>1, <1>3, RunEmpty
<1>5. Returned(all, <<>>, w)
  BY <1>2, <1>3, <1>4 DEF Returned
<1>6. ASSUME Pending(r, o, d, i, w) PROVE Pending(all, <<>>, d, i, w)
  BY <1>4, <1>6 DEF Pending
<1> QED
  BY <1>3, <1>5, <1>6 DEF all

LEMMA BreakMoves ==
  ASSUME NEW r \in Bytes, NEW o \in Bytes, NEW w \in Nat, Returned(r, o, w),
         NEW n \in 0 .. Len(o)
  PROVE  SubSeq(o, 1, n) \in Bytes /\ Returned(r, SubSeq(o, 1, n), w)
<1>1. Len(r) \in Nat /\ Len(o) \in Nat
  BY Lengths
<1>2. SubSeq(o, 1, n) \in Bytes /\ Len(SubSeq(o, 1, n)) = n /\ Run(SubSeq(o, 1, n), Len(r))
  BY <1>1, Pieces, RunSplit DEF Returned
<1>3. Len(r) + n <= w
  BY <1>1 DEF Returned
<1> QED
  BY <1>2, <1>3 DEF Returned

LEMMA RunExtend ==
  ASSUME NEW s \in Bytes, NEW t \in Bytes, Run(s, 0), Run(t, Len(s))
  PROVE  s \o t \in Bytes /\ Len(s \o t) = Len(s) + Len(t) /\ Run(s \o t, 0)
<1>1. 0 + Len(s) = Len(s)
  BY Lengths
<1> QED
  BY <1>1, RunJoin

(* The four places together are what was written.                          *)
LEMMA WholeStream ==
  ASSUME NEW r \in Bytes, NEW o \in Bytes, NEW d \in Bytes, NEW i \in Bytes, NEW w \in Nat,
         w <= Len(Request), Returned(r, o, w), Pending(r, o, d, i, w)
  PROVE  r \o o \o d \o i = SubSeq(Request, 1, w)
<1>1. Len(r) \in Nat /\ Len(o) \in Nat /\ Len(d) \in Nat /\ 0 + Len(r) = Len(r)
  BY Lengths
<1>2. /\ Run(r, 0) /\ Run(o, Len(r)) /\ Run(d, Len(r) + Len(o))
      /\ Run(i, Len(r) + Len(o) + Len(d)) /\ Len(r) + Len(o) + Len(d) + Len(i) = w
  BY DEF Returned, Pending
<1> DEFINE a == r \o o
           b == a \o d
           e == b \o i
<1>3. a \in Bytes /\ Len(a) = Len(r) + Len(o) /\ Run(a, 0)
  BY <1>2, RunExtend
<1> HIDE DEF a
<1>4. b \in Bytes /\ Len(b) = Len(r) + Len(o) + Len(d) /\ Run(b, 0)
  <2>1. Run(d, Len(a))
    BY <1>2, <1>3
  <2>2. b \in Bytes /\ Len(b) = Len(a) + Len(d) /\ Run(b, 0)
    BY <1>3, <2>1, RunExtend
  <2> QED
    BY <1>3, <2>2
<1> HIDE DEF b
<1>5. e \in Bytes /\ Len(e) = w /\ Run(e, 0)
  <2>1. Run(i, Len(b))
    BY <1>2, <1>4
  <2>2. e \in Bytes /\ Len(e) = Len(b) + Len(i) /\ Run(e, 0)
    BY <1>4, <2>1, RunExtend
  <2> QED
    BY <1>2, <1>4, <2>2
<1> HIDE DEF e
<1>6. e = SubSeq(Request, 1, w)
  BY <1>5, RunIsPrefix
<1> QED
  BY <1>6 DEF e, b, a

-----------------------------------------------------------------------------
Types ==
  /\ spc \in [Client -> States] /\ cpc \in [Client -> States]
  /\ link \in [Client -> {"none", "up", "down"}]
  /\ written \in [Client -> 0 .. Len(Request)]
  /\ data_ \in [Client -> Bytes] /\ reply_ \in [Client -> Bytes]
  /\ toServer \in [Client -> Bytes] /\ toClient \in [Client -> Bytes]

(* The chains of operations of both sides: nothing is under way before the *)
(* connection exists, the buffer is empty whenever a read is started, and  *)
(* a client reads only after it has written everything.                    *)
Chain(c) ==
  /\ cpc[c] = "connect" => link[c] = "none"
  /\ link[c] = "none" => /\ spc[c] = "none" /\ written[c] = 0 /\ reply_[c] = <<>>
                         /\ toServer[c] = <<>> /\ toClient[c] = <<>>
  /\ spc[c] \in {"none", "handshake", "read"} => data_[c] = <<>>
  /\ Len(data_[c]) <= MaxLength
  /\ cpc[c] \in {"read", "done"} => written[c] = Len(Request)
  /\ cpc[c] = "done" => Len(reply_[c]) = written[c]

(* What the client has and will read is a beginning of what it wrote; and  *)
(* while the connection stands, the rest is on its way.                    *)
Stream(c) ==
  /\ Chain(c) /\ Returned(reply_[c], toClient[c], written[c])
  /\ Up(c) => Pending(reply_[c], toClient[c], data_[c], toServer[c], written[c])

EchoInv == Types /\ \A c \in Client : Stream(c)

(* A step of one client and its session leaves the others alone.           *)
Same(c) ==
  /\ spc'[c] = spc[c] /\ data_'[c] = data_[c] /\ cpc'[c] = cpc[c]
  /\ written'[c] = written[c] /\ reply_'[c] = reply_[c] /\ link'[c] = link[c]
  /\ toServer'[c] = toServer[c] /\ toClient'[c] = toClient[c]

Steps(c) == Session(c) \/ AcceptFails(c) \/ ClientStep(c) \/ Breaks(c)

LEMMA StreamKept ==
  ASSUME NEW c, Stream(c), Same(c)
  PROVE  Stream(c)'
<1>1. Chain(c)'
  BY DEF Stream, Same, Chain
<1>2. Returned(reply_[c], toClient[c], written[c])'
  BY DEF Stream, Same, Returned, Run
<1>3. ASSUME Up(c)'
      PROVE  Pending(reply_[c], toClient[c], data_[c], toServer[c], written[c])'
  BY <1>3 DEF Stream, Same, Pending, Up, Run
<1> QED
  BY <1>1, <1>2, <1>3 DEF Stream

LEMMA OthersKept ==
  ASSUME Types, NEW c \in Client, Steps(c), NEW d \in Client, d # c
  PROVE  Same(d)
<1> USE DEF Types, Same, serverVars, clientVars, netVars
<1>1. CASE Accept(c) \/ SessionFails(c) \/ Handshake(c) \/ AcceptFails(c)
  BY <1>1 DEF Accept, SessionFails, Handshake, AcceptFails
<1>2. CASE ReadSome(c)
  BY <1>2 DEF ReadSome
<1>3. CASE WriteSome(c)
  BY <1>3 DEF WriteSome
<1>4. CASE Connects(c) \/ ClientHandshake(c) \/ ClientFails(c)
  BY <1>4 DEF Connects, ClientHandshake, ClientFails, Ends
<1>5. CASE ClientWrites(c)
  BY <1>5 DEF ClientWrites
<1>6. CASE ClientReads(c)
  BY <1>6 DEF ClientReads, Ends
<1>7. CASE Breaks(c)
  BY <1>7 DEF Breaks
<1> QED
  BY <1>1, <1>2, <1>3, <1>4, <1>5, <1>6, <1>7 DEF Steps, Session, ClientStep

(* The lengths of what is where.                                           *)
Sized(c) ==
  /\ data_[c] \in Bytes /\ reply_[c] \in Bytes
  /\ toServer[c] \in Bytes /\ toClient[c] \in Bytes
  /\ Len(data_[c]) \in Nat /\ Len(reply_[c]) \in Nat
  /\ Len(toServer[c]) \in Nat /\ Len(toClient[c]) \in Nat
  /\ written[c] \in Nat /\ written[c] <= Len(Request)
  /\ Len(Request) \in Nat /\ MaxLength \in Nat

LEMMA Sizes ==
  ASSUME Types, NEW c \in Client
  PROVE  Sized(c)
<1>1. Len(Request) \in Nat /\ MaxLength \in Nat
  BY EchoAssumption
<1> QED
  BY <1>1 DEF Types, Bytes, Sized

(* The handlers that move no bytes.                                        *)
LEMMA ControlSteps ==
  ASSUME Types, NEW c \in Client, Stream(c),
         Accept(c) \/ SessionFails(c) \/ Handshake(c) \/ AcceptFails(c)
           \/ Connects(c) \/ ClientHandshake(c) \/ ClientFails(c)
  PROVE  Types' /\ Stream(c)'
<1>0. UNCHANGED <<data_, written, reply_, toServer, toClient>>
  BY DEF Accept, SessionFails, Handshake, AcceptFails, Connects, ClientHandshake,
         ClientFails, serverVars, clientVars, netVars
<1>1. Types'
  BY <1>0 DEF Types, States, Accept, SessionFails, Handshake, AcceptFails, Connects,
              ClientHandshake, ClientFails, Ends, serverVars, clientVars, netVars
<1>2. Chain(c)'
  BY <1>0 DEF Stream, Chain, Types, Accept, SessionFails, Handshake, AcceptFails, Connects,
              ClientHandshake, ClientFails, Ends, serverVars, clientVars, netVars, Up
<1>3. Returned(reply_[c], toClient[c], written[c])'
  BY <1>0 DEF Stream, Returned, Run
<1>4. ASSUME Up(c)'
      PROVE  Pending(reply_[c], toClient[c], data_[c], toServer[c], written[c])'
  <2>1. CASE Connects(c)
    <3>1. /\ data_'[c] = <<>> /\ toServer'[c] = <<>> /\ toClient'[c] = <<>>
          /\ reply_'[c] = <<>> /\ written'[c] = 0
      BY <1>0, <2>1 DEF Connects, Stream, Chain
    <3>2. Pending(<<>>, <<>>, <<>>, <<>>, 0)
      BY RunEmpty DEF Pending
    <3> QED
      BY <3>1, <3>2
  <2>2. CASE ~Connects(c)
    <3>1. Up(c)
      BY <1>4, <2>2 DEF Up, Types, Accept, SessionFails, Handshake, AcceptFails, Connects,
                  ClientHandshake, ClientFails, Ends, serverVars, clientVars, netVars
    <3> QED
      BY <1>0, <3>1 DEF Stream, Pending, Run
  <2> QED
    BY <2>1, <2>2
<1> QED
  BY <1>1, <1>2, <1>3, <1>4 DEF Stream

(* async_read_some takes the first bytes off the connection into a buffer  *)
(* that holds nothing else.                                                *)
LEMMA ReadStep ==
  ASSUME Types, NEW c \in Client, Stream(c), ReadSome(c)
  PROVE  Types' /\ Stream(c)'
<1>0. /\ spc[c] = "read" /\ spc' = [spc EXCEPT ![c] = "write"] /\ data_[c] = <<>>
      /\ UNCHANGED <<cpc, written, reply_, link, toClient>>
  BY DEF ReadSome, clientVars, Stream, Chain
<1>s. /\ reply_[c] \in Bytes /\ toClient[c] \in Bytes /\ toServer[c] \in Bytes
      /\ written[c] \in Nat /\ Len(toServer[c]) \in Nat /\ MaxLength \in Nat
  BY Sizes DEF Sized
<1>1. PICK n \in 1 .. MaxLength :
        /\ n <= Len(toServer[c])
        /\ data_' = [data_ EXCEPT ![c] = SubSeq(toServer[c], 1, n)]
        /\ toServer' = [toServer EXCEPT ![c] = SubSeq(@, n + 1, Len(@))]
  BY DEF ReadSome
<1>2. n \in 0 .. Len(toServer[c]) /\ n <= MaxLength
  BY <1>s, <1>1
<1>3. /\ data_'[c] = SubSeq(toServer[c], 1, n)
      /\ toServer'[c] = SubSeq(toServer[c], n + 1, Len(toServer[c]))
  BY <1>1 DEF Types
<1>4. data_'[c] \in Bytes /\ Len(data_'[c]) <= MaxLength /\ toServer'[c] \in Bytes
  BY <1>s, <1>2, <1>3, Pieces
<1>5. Types'
  BY <1>0, <1>1, <1>3, <1>4 DEF Types, States
<1>6. Chain(c)'
  BY <1>0, <1>4 DEF Stream, Chain, Types
<1>7. Returned(reply_[c], toClient[c], written[c])'
  BY <1>0 DEF Stream
<1>8. ASSUME Up(c)
      PROVE  Pending(reply_[c], toClient[c], data_[c], toServer[c], written[c])'
  <2>1. Pending(reply_[c], toClient[c], <<>>, toServer[c], written[c])
    BY <1>0, <1>8 DEF Stream
  <2>2. Pending(reply_[c], toClient[c], data_'[c], toServer'[c], written[c])
    BY <1>s, <1>2, <1>3, <2>1, ReadMoves
  <2> QED
    BY <1>0, <2>2
<1> QED
  BY <1>0, <1>5, <1>6, <1>7, <1>8 DEF Stream, Up

(* async_write moves bytes from the buffer to the connection, in order,    *)
(* and the buffer is empty when handle_write starts the next read.         *)
LEMMA WriteStep ==
  ASSUME Types, NEW c \in Client, Stream(c), WriteSome(c)
  PROVE  Types' /\ Stream(c)'
<1>0. /\ spc[c] = "write" /\ Up(c) /\ UNCHANGED <<cpc, written, reply_, link, toServer>>
  BY DEF WriteSome, clientVars
<1>s. /\ reply_[c] \in Bytes /\ toClient[c] \in Bytes /\ toServer[c] \in Bytes /\ data_[c] \in Bytes
      /\ written[c] \in Nat /\ Len(data_[c]) \in Nat /\ MaxLength \in Nat
      /\ Len(data_[c]) <= MaxLength
  BY Sizes DEF Sized, Stream, Chain
<1>1. PICK n \in 1 .. Len(data_[c]) :
        /\ toClient' = [toClient EXCEPT ![c] = @ \o SubSeq(data_[c], 1, n)]
        /\ data_' = [data_ EXCEPT ![c] = SubSeq(@, n + 1, Len(@))]
        /\ spc' = [spc EXCEPT ![c] = IF n = Len(data_[c]) THEN "read" ELSE @]
  BY DEF WriteSome
<1>2. n \in 0 .. Len(data_[c]) /\ n \in Nat
  BY <1>s, <1>1
<1>3. /\ toClient'[c] = toClient[c] \o SubSeq(data_[c], 1, n)
      /\ data_'[c] = SubSeq(data_[c], n + 1, Len(data_[c]))
  BY <1>1 DEF Types
<1>4. /\ Returned(reply_[c], toClient[c], written[c])
      /\ Pending(reply_[c], toClient[c], data_[c], toServer[c], written[c])
  BY <1>0 DEF Stream
<1>5. /\ toClient'[c] \in Bytes /\ data_'[c] \in Bytes /\ Len(data_'[c]) = Len(data_[c]) - n
      /\ Returned(reply_[c], toClient'[c], written[c])
      /\ Pending(reply_[c], toClient'[c], data_'[c], toServer[c], written[c])
  <2> DEFINE r == reply_[c]
             o == toClient[c]
             d == data_[c]
             i == toServer[c]
             w == written[c]
  <2>1. /\ r \in Bytes /\ o \in Bytes /\ d \in Bytes /\ i \in Bytes /\ w \in Nat
        /\ n \in 0 .. Len(d) /\ Returned(r, o, w) /\ Pending(r, o, d, i, w)
    BY <1>s, <1>2, <1>4
  <2>2. toClient'[c] = o \o SubSeq(d, 1, n) /\ data_'[c] = SubSeq(d, n + 1, Len(d))
    BY <1>3
  <2> HIDE DEF r, o, d, i, w
  <2>3. /\ o \o SubSeq(d, 1, n) \in Bytes /\ SubSeq(d, n + 1, Len(d)) \in Bytes
        /\ Len(SubSeq(d, n + 1, Len(d))) = Len(d) - n
        /\ Returned(r, o \o SubSeq(d, 1, n), w)
        /\ Pending(r, o \o SubSeq(d, 1, n), SubSeq(d, n + 1, Len(d)), i, w)
    BY <2>1, WriteMoves
  <2>4. /\ toClient'[c] \in Bytes /\ data_'[c] \in Bytes /\ Len(data_'[c]) = Len(d) - n
        /\ Returned(r, toClient'[c], w) /\ Pending(r, toClient'[c], data_'[c], i, w)
    BY <2>2, <2>3
  <2> QED
    BY <2>4 DEF r, d, i, w
<1>6. Types'
  BY <1>0, <1>1, <1>5 DEF Types, States
<1>7. Chain(c)'
  <2>1. n = Len(data_[c]) => data_'[c] = <<>>
    <3>1. n = Len(data_[c]) => Len(data_'[c]) = 0
      BY <1>s, <1>5
    <3>2. data_'[c] \in Seq(Nat)
      BY <1>5 DEF Bytes
    <3> QED
      BY <3>1, <3>2, EmptySeq
  <2>2. (spc'[c] = "read" /\ n = Len(data_[c])) \/ spc'[c] = "write"
    BY <1>0, <1>1 DEF Types
  <2>3. Len(data_'[c]) <= MaxLength
    <3>1. \A a, b, m \in Nat : a <= m => a - b <= m
      OBVIOUS
    <3> QED
      BY <1>s, <1>2, <1>5, <3>1
  <2> QED
    BY <1>0, <2>1, <2>2, <2>3 DEF Stream, Chain, Up
<1> QED
  BY <1>0, <1>5, <1>6, <1>7 DEF Stream

LEMMA ClientWriteStep ==
  ASSUME Types, NEW c \in Client, Stream(c), ClientWrites(c)
  PROVE  Types' /\ Stream(c)'
<1>0. /\ cpc[c] = "write" /\ Up(c) /\ UNCHANGED <<spc, data_, reply_, link, toClient>>
  BY DEF ClientWrites, serverVars
<1>s. /\ reply_[c] \in Bytes /\ toClient[c] \in Bytes /\ toServer[c] \in Bytes /\ data_[c] \in Bytes
      /\ written[c] \in Nat /\ Len(Request) \in Nat
  BY Sizes DEF Sized
<1>1. PICK n \in 1 .. Len(Request) - written[c] :
        /\ toServer' = [toServer EXCEPT ![c] =
                          @ \o SubSeq(Request, written[c] + 1, written[c] + n)]
        /\ written' = [written EXCEPT ![c] = @ + n]
        /\ cpc' = [cpc EXCEPT ![c] = IF written[c] + n = Len(Request) THEN "read" ELSE @]
  BY DEF ClientWrites
<1>2. n \in Nat /\ written[c] + n <= Len(Request) /\ written[c] + n \in 0 .. Len(Request)
      /\ written[c] <= written[c] + n /\ n > 0
  BY <1>s, <1>1
<1>3. /\ toServer'[c] = toServer[c] \o SubSeq(Request, written[c] + 1, written[c] + n)
      /\ written'[c] = written[c] + n
      /\ cpc'[c] = IF written[c] + n = Len(Request) THEN "read" ELSE "write"
  BY <1>0, <1>1 DEF Types
<1>4. Pending(reply_[c], toClient[c], data_[c], toServer[c], written[c])
  BY <1>0 DEF Stream
<1>5. /\ toServer'[c] \in Bytes
      /\ Pending(reply_[c], toClient[c], data_[c], toServer'[c], written[c] + n)
  <2> DEFINE all == toServer[c] \o SubSeq(Request, written[c] + 1, written[c] + n)
  <2>1. all \in Bytes /\ Pending(reply_[c], toClient[c], data_[c], all, written[c] + n)
    BY <1>s, <1>2, <1>4, ClientWriteMoves
  <2> QED
    BY <1>3, <2>1
<1>6. Types'
  BY <1>0, <1>1, <1>2, <1>3, <1>5 DEF Types, States
<1>7. Chain(c)'
  BY <1>0, <1>3 DEF Stream, Chain, Up
<1>8. Returned(reply_[c], toClient[c], written[c] + n)
  <2>1. \A a, b, m \in Nat : a <= m => a <= m + b
    OBVIOUS
  <2>2. Len(reply_[c]) + Len(toClient[c]) \in Nat /\ Len(reply_[c]) + Len(toClient[c]) <= written[c]
    <3>1. \A a, b \in Nat : a + b \in Nat
      OBVIOUS
    <3> QED
      BY <1>s, <3>1, Lengths DEF Stream, Returned
  <2>3. Len(reply_[c]) + Len(toClient[c]) <= written[c] + n
    BY <1>s, <1>2, <2>1, <2>2
  <2> QED
    BY <2>3 DEF Stream, Returned
<1> QED
  BY <1>0, <1>3, <1>5, <1>6, <1>7, <1>8 DEF Stream

LEMMA ClientReadStep ==
  ASSUME Types, NEW c \in Client, Stream(c), ClientReads(c)
  PROVE  Types' /\ Stream(c)'
<1>0. /\ cpc[c] = "read" /\ UNCHANGED <<spc, data_, written, toServer>>
      /\ reply_' = [reply_ EXCEPT ![c] = @ \o toClient[c]]
      /\ toClient' = [toClient EXCEPT ![c] = <<>>]
      /\ \/ Len(reply_'[c]) = written[c] /\ Ends(c, "done")
         \/ UNCHANGED <<cpc, link>>
  BY DEF ClientReads, serverVars
<1>s. /\ reply_[c] \in Bytes /\ toClient[c] \in Bytes /\ toServer[c] \in Bytes /\ data_[c] \in Bytes
      /\ written[c] \in Nat
  BY Sizes DEF Sized
<1>1. reply_'[c] = reply_[c] \o toClient[c] /\ toClient'[c] = <<>>
  BY <1>0 DEF Types
<1>2. Returned(reply_[c], toClient[c], written[c])
  BY DEF Stream
<1>3. /\ reply_'[c] \in Bytes /\ Returned(reply_'[c], toClient'[c], written[c])
      /\ Pending(reply_[c], toClient[c], data_[c], toServer[c], written[c])
           => Pending(reply_'[c], toClient'[c], data_[c], toServer[c], written[c])
  BY <1>s, <1>1, <1>2, ClientReadMoves
<1>4. Types'
  <2>1. <<>> \in Bytes
    BY RunEmpty
  <2> QED
    BY <1>0, <1>1, <1>3, <2>1 DEF Types, States, Ends
<1>5. link[c] # "none"
  <2>1. link[c] = "none" => toClient[c] = <<>>
    BY DEF Stream, Chain
  <2> QED
    BY <2>1 DEF ClientReads
<1>6. Chain(c)'
  BY <1>0, <1>5 DEF Stream, Chain, Ends, Types
<1>7. Up(c)' => Up(c)
  BY <1>0 DEF Ends, Up, Types
<1> QED
  BY <1>0, <1>3, <1>4, <1>6, <1>7 DEF Stream

LEMMA BreakStep ==
  ASSUME Types, NEW c \in Client, Stream(c), Breaks(c)
  PROVE  Types' /\ Stream(c)'
<1>0. UNCHANGED <<spc, data_, cpc, written, reply_>> /\ link' = [link EXCEPT ![c] = "down"] /\ Up(c)
  BY DEF Breaks, serverVars, clientVars
<1>s. /\ reply_[c] \in Bytes /\ toClient[c] \in Bytes /\ toServer[c] \in Bytes
      /\ written[c] \in Nat
  BY Sizes DEF Sized
<1>1. PICK n \in 0 .. Len(toServer[c]), m \in 0 .. Len(toClient[c]) :
        /\ toServer' = [toServer EXCEPT ![c] = SubSeq(@, 1, n)]
        /\ toClient' = [toClient EXCEPT ![c] = SubSeq(@, 1, m)]
  BY DEF Breaks
<1>2. toServer'[c] = SubSeq(toServer[c], 1, n) /\ toClient'[c] = SubSeq(toClient[c], 1, m)
  BY <1>1 DEF Types
<1>3. Returned(reply_[c], toClient[c], written[c])
  BY DEF Stream
<1>4. toServer'[c] \in Bytes /\ toClient'[c] \in Bytes
      /\ Returned(reply_[c], toClient'[c], written[c])
  BY <1>s, <1>1, <1>2, <1>3, BreakMoves, Pieces
<1>5. Types'
  BY <1>0, <1>1, <1>4 DEF Types
<1>6. Chain(c)' /\ ~Up(c)'
  BY <1>0 DEF Stream, Chain, Up, Types
<1> QED
  BY <1>0, <1>4, <1>5, <1>6 DEF Stream

-----------------------------------------------------------------------------
LEMMA EchoStep ==
  ASSUME EchoInv, [Next]_vars
  PROVE  EchoInv'
<1>0. Types /\ \A c \in Client : Stream(c)
  BY DEF EchoInv
<1>1. ASSUME NEW c \in Client, Steps(c)
      PROVE  EchoInv'
  <2>1. Types' /\ Stream(c)'
    BY <1>0, <1>1, ControlSteps, ReadStep, WriteStep, ClientWriteStep, ClientReadStep, BreakStep
    DEF Steps, Session, ClientStep
  <2>2. \A d \in Client : d # c => Same(d)
    BY <1>0, <1>1, OthersKept
  <2>3. \A d \in Client : d # c => Stream(d)'
    BY <1>0, <2>2, StreamKept
  <2> QED
    BY <2>1, <2>3 DEF EchoInv
<1>2. CASE UNCHANGED vars
  <2>1. \A c \in Client : Same(c)
    BY <1>2 DEF vars, serverVars, clientVars, netVars, Same
  <2>2. \A c \in Client : Stream(c)'
    BY <1>0, <2>1, StreamKept
  <2>3. Types'
    BY <1>0, <1>2 DEF Types, vars, serverVars, clientVars, netVars
  <2> QED
    BY <2>2, <2>3 DEF EchoInv
<1> QED
  BY <1>1, <1>2 DEF Next, Waiting, Steps

(* The bytes of every connection are where the request has them.           *)
THEOREM StreamsCorrect == Spec => []EchoInv
<1>1. Init => EchoInv
  <2> SUFFICES ASSUME Init PROVE EchoInv
    OBVIOUS
  <2>1. <<>> \in Bytes /\ Len(<<>>) = 0 /\ Len(Request) \in Nat /\ MaxLength \in Nat
    BY EchoAssumption, RunEmpty
  <2>2. Types
    BY <2>1 DEF Init, Types, States
  <2>3. ASSUME NEW c \in Client PROVE Stream(c)
    <3>1. Returned(<<>>, <<>>, 0)
      BY RunEmpty DEF Returned
    <3> QED
      BY <2>1, <3>1 DEF Init, Stream, Chain, Up
  <2> QED
    BY <2>2, <2>3 DEF EchoInv
<1>2. EchoInv /\ [Next]_vars => EchoInv'
  BY EchoStep
<1> QED
  BY <1>1, <1>2, PTL DEF Spec

(* A session keeps within data_, whose size is max_length, and a client    *)
(* never reads more than it wrote.                                         *)
THEOREM TypeCorrect == Spec => []TypeOK
<1> DEFINE Flag == accepting \in BOOLEAN
<1>1. Init => Flag
  BY DEF Init
<1>2. Flag /\ [Next]_vars => Flag'
  BY DEF Next, vars, Session, AcceptFails, ClientStep, Breaks, Waiting, Accept, SessionFails,
         Handshake, ReadSome, WriteSome, Connects, ClientHandshake, ClientFails, ClientWrites,
         ClientReads, serverVars
<1>3. EchoInv /\ Flag => TypeOK
  <2> SUFFICES ASSUME EchoInv, Flag PROVE TypeOK
    OBVIOUS
  <2>1. ASSUME NEW c \in Client
        PROVE  /\ written[c] \in 0 .. Len(Request) /\ Len(data_[c]) <= MaxLength
               /\ Len(reply_[c]) <= written[c]
    <3>1. Types /\ Stream(c)
      BY DEF EchoInv
    <3>2. Len(reply_[c]) \in Nat /\ Len(toClient[c]) \in Nat /\ written[c] \in Nat
      BY <3>1, Sizes DEF Sized
    <3>3. \A a, b, w \in Nat : a + b <= w => a <= w
      OBVIOUS
    <3>4. Len(reply_[c]) <= written[c]
      BY <3>1, <3>2, <3>3 DEF Stream, Returned
    <3> QED
      BY <3>1, <3>4 DEF Types, Stream, Chain
  <2> QED
    BY <2>1 DEF EchoInv, Types, TypeOK
<1> HIDE DEF Flag
<1> QED
  BY <1>1, <1>2, <1>3, StreamsCorrect, PTL DEF Spec

(* While a connection stands, no byte is lost, repeated or out of place,   *)
(* whatever the sizes of the pieces and of the buffer.                     *)
THEOREM EchoesInOrder == Spec => []EchoStream
<1>1. EchoInv => EchoStream
  <2> SUFFICES ASSUME EchoInv, NEW c \in Client, Up(c)
               PROVE  reply_[c] \o toClient[c] \o data_[c] \o toServer[c]
                        = SubSeq(Request, 1, written[c])
    BY DEF EchoStream
  <2>1. Types /\ Stream(c)
    BY DEF EchoInv
  <2>2. /\ reply_[c] \in Bytes /\ toClient[c] \in Bytes /\ data_[c] \in Bytes
        /\ toServer[c] \in Bytes /\ written[c] \in Nat /\ written[c] <= Len(Request)
    BY <2>1, Sizes DEF Sized
  <2>3. /\ Returned(reply_[c], toClient[c], written[c])
        /\ Pending(reply_[c], toClient[c], data_[c], toServer[c], written[c])
    BY <2>1 DEF Stream
  <2> QED
    BY <2>2, <2>3, WholeStream
<1> QED
  BY <1>1, StreamsCorrect, PTL

(* A client that ends well has read back its whole request, also when the  *)
(* connection broke behind the last byte.                                  *)
THEOREM RepliesWhole == Spec => []WholeReply
<1>1. EchoInv => WholeReply
  <2> SUFFICES ASSUME EchoInv, NEW c \in Client, cpc[c] = "done"
               PROVE  reply_[c] = Request
    BY DEF WholeReply
  <2>1. Types /\ Stream(c)
    BY DEF EchoInv
  <2>2. reply_[c] \in Bytes /\ Len(Request) \in Nat
    BY <2>1, Sizes DEF Sized
  <2>3. Run(reply_[c], 0) /\ Len(reply_[c]) = Len(Request)
    BY <2>1 DEF Stream, Chain, Returned
  <2> QED
    BY <2>2, <2>3, RunIsPrefix
<1> QED
  BY <1>1, StreamsCorrect, PTL
=============================================================================
