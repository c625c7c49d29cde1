----------------------------- MODULE TcpProofs -----------------------------
(***************************************************************************)
(* Proofs about the byte streams of Stream and the programs of Tcp: the    *)
(* transport promised by Framed, counters that agree and replays that are  *)
(* answered like the recording.                                            *)
(***************************************************************************)
EXTENDS Tcp, FiniteSetTheorems, TLAPS

(***************************************************************************)
(* Types.                                                                  *)
(***************************************************************************)
ServedOps == {"HELLO", "NOOP", "CREATE_INSTANCE"}

ReplyMessage ==
  [kind : {"Response"}, op : {"WELCOME", "NOOP", "CREATE_INSTANCE"}, seq : Nat, value : Nat, len : {1, 2}]

Byte ==
  (0 .. 255) \cup Requests \cup ReplyMessage \cup {None}
    \cup UNION {{b[i] : i \in 1 .. Len(b)} : b \in Scribbles}

Frame == Seq(Byte)

\* A frame whose length send can write.
ShortFrame == {f \in Frame : Len(f) \div 16777216 < 256}

Counters == [frames_sent : Nat, bytes_sent : Nat, frames_recv : Nat, bytes_recv : Nat]

StreamTyped ==
  /\ sending \in [Ends -> Seq(ShortFrame)]
  /\ out \in [Ends -> Seq(Byte)]
  /\ pipe \in [Ends -> Seq(Byte)]
  /\ in \in [Ends -> Seq(Byte)]
  /\ shut \in [Ends -> BOOLEAN]
  /\ trace \in [Ends -> Seq(Frame)]
  /\ counts \in [Ends -> Counters]
  /\ sent \in [Ends -> Seq(ShortFrame)]
  /\ got \in [Ends -> Seq(Frame)]

\* One frame is sent at a time, and nothing is left to write outside send.
OneAtATime ==
  \A e \in Ends : Len(sending[e]) <= 1 /\ (sending[e] = << >> => out[e] = << >>)

Phases == {"new", "ready", "sending", "receiving", "done", "idle", "left", "crashed"}

TcpTyped ==
  /\ at \in [Clients -> Phases]
  /\ cursor \in Nat
  /\ backlog \in Seq(Clients)
  /\ serving \in Clients \cup {None}
  /\ serving # None => session \in [id : Nat, next_seq : Nat, instances : Nat]
  /\ next_id \in Nat

---------------------------------------------------------------------------
(***************************************************************************)
(* One direction of a connection.  All that was handed to send is a        *)
(* sequence of frames; pos[i] is where the i-th of them ends in the stream *)
(* of bytes.  What is under way is the part of the stream behind the last  *)
(* frame that was received.                                                *)
(***************************************************************************)
All(e) == sent[e] \o sending[e]

UnderWay(e) == in[Peer(e)] \o pipe[e] \o out[e]

Encoded(f) == W!LE(Len(f), 4) \o f

Positions(pos, fs) ==
  /\ pos \in [0 .. Len(fs) -> Nat]
  /\ pos[0] = 0
  /\ \A i \in 1 .. Len(fs) : pos[i] = pos[i - 1] + 4 + Len(fs[i])
  /\ \A i, j \in 0 .. Len(fs) : i < j => pos[i] + 4 <= pos[j]
  /\ \A i \in 0 .. Len(fs) : 4 * i <= pos[i]
  /\ \A i, j \in 0 .. Len(fs) : i <= j => pos[i] - 4 * i <= pos[j] - 4 * j

\* The bytes of the frames behind the first n of them.
Carries(bytes, pos, fs, n) ==
  /\ Len(bytes) = pos[Len(fs)] - pos[n]
  /\ \A i \in n + 1 .. Len(fs) : \A k \in 1 .. 4 + Len(fs[i]) :
       bytes[pos[i - 1] - pos[n] + k] = Encoded(fs[i])[k]

Saturated(n) == IF n > COUNT_MAX THEN COUNT_MAX ELSE n

Counted(e, pos) ==
  LET p == Peer(e)
      s == Len(sent[e])
      g == Len(got[p])
  IN  /\ counts[e].frames_sent = Saturated(s)
      /\ counts[e].bytes_sent = Saturated(pos[s] - 4 * s)
      /\ counts[p].frames_recv = Saturated(g)
      /\ counts[p].bytes_recv = Saturated(pos[g] - 4 * g)

\* What was received is what was sent, as far as it goes.
Prefix(e) ==
  /\ Len(got[Peer(e)]) <= Len(SentBy(e))
  /\ \A i \in 1 .. Len(got[Peer(e)]) : got[Peer(e)][i] = All(e)[i]

Delivery(e) ==
  /\ Prefix(e)
  /\ \E pos : /\ Positions(pos, All(e))
              /\ Counted(e, pos)
              /\ ~shut[Peer(e)] => Carries(UnderWay(e), pos, All(e), Len(got[Peer(e)]))

---------------------------------------------------------------------------
(***************************************************************************)
(* The server.                                                             *)
(***************************************************************************)
Client(c) == <<c, "client">>
Srv(c) == <<c, "server">>

Real == {Recorder, Replayer}

OpAt(fs, i) == fs[i][1].op

\* The instances created by the first n requests.
Created(fs, n) == Cardinality({j \in 1 .. n : OpAt(fs, j) = "CREATE_INSTANCE"})

\* r is the answer of a new session to the i-th of the requests fs.
Fits(r, fs, i) ==
  /\ r \in ReplyMessage
  /\ OpAt(fs, i) \in ServedOps
  /\ r.op = REPLY_OP[OpAt(fs, i)]
  /\ r.seq = i
  /\ r.len = REPLY_LEN[OpAt(fs, i)]
  /\ OpAt(fs, i) = "NOOP" => r.value = 0
  /\ OpAt(fs, i) = "CREATE_INSTANCE" => r.value = Created(fs, i - 1)

Accepted(f) == DecodesFrame(f) /\ f[1].op \in ServedOps /\ Len(f) <= MAX_FRAME

\* Every reply is the one to the request of its number.
Replies(c) ==
  /\ Len(All(Srv(c))) <= Len(got[Srv(c)])
  /\ \A i \in 1 .. Len(All(Srv(c))) :
       /\ Accepted(got[Srv(c)][i])
       /\ \E r \in ReplyMessage :
            Fits(r, got[Srv(c)], i) /\ All(Srv(c))[i] = Bytes(r)

InBacklog(c) == \E i \in 1 .. Len(backlog) : backlog[i] = c

\* Nothing has happened at the server before a connection is accepted, which
\* happens once.
Waiting(c) ==
  /\ at[c] = "new" => serving # c
  /\ at[c] = "new" \/ InBacklog(c)
       => got[Srv(c)] = << >> /\ All(Srv(c)) = << >> /\ ~shut[Srv(c)]
  /\ serving = c => ~shut[Srv(c)] /\ ~InBacklog(c)

InSession(c) ==
  serving = c =>
    LET n == Len(got[Srv(c)])
    IN  /\ Len(All(Srv(c))) = n
        /\ session.next_seq = n + 1
        /\ session.instances = Created(got[Srv(c)], n)

\* The server has left a client that is there: it refused the request it last
\* read, or the one it was about to read.
Refused(c) ==
  shut[Srv(c)] /\ ~shut[Client(c)] =>
    LET n == Len(sent[Srv(c)])
        g == Len(got[Srv(c)])
    IN  /\ sending[Srv(c)] = << >>
        /\ \/ g = n + 1 /\ ~Accepted(got[Srv(c)][g])
           \/ g = n /\ n < Len(All(Client(c))) /\ ~Accepted(All(Client(c))[n + 1])

\* All that concerns the server's conversation with one client.
Talk(c) == Replies(c) /\ Waiting(c) /\ InSession(c) /\ Refused(c)

\* A client is there until it drops its socket.
Present == \A c \in Clients : shut[Client(c)] <=> at[c] \in {"left", "crashed"}

\* A client is in the backlog once, and only after it has connected.
BacklogDistinct ==
  /\ \A i, j \in 1 .. Len(backlog) : backlog[i] = backlog[j] => i = j
  /\ \A i \in 1 .. Len(backlog) : at[backlog[i]] # "new"

---------------------------------------------------------------------------
(***************************************************************************)
(* The recording and its replay.                                           *)
(***************************************************************************)

\* The recorder's trace holds request and reply in turn.
Tape ==
  LET e == Client(Recorder)
      s == Len(sent[e])
      g == Len(got[e])
  IN  /\ s = g \/ s = g + 1
      /\ Len(Recorded) = s + g
      /\ \A i \in 1 .. s : Recorded[2 * i - 1] = sent[e][i]
      /\ \A i \in 1 .. g : Recorded[2 * i] = got[e][i]
      /\ \A i \in 1 .. Len(All(e)) : \E m \in Requests : All(e)[i] = Bytes(m)

\* Where the recorder is in a call. If it left without the reply to its last
\* request, the server does not accept that request.
Phase ==
  LET e == Client(Recorder)
      s == Len(sent[e])
      g == Len(got[e])
  IN  /\ at[Recorder] \notin {"done", "idle"}
      /\ at[Recorder] \in {"new", "ready", "sending"} => s = g
      /\ at[Recorder] = "receiving" => s = g + 1
      /\ at[Recorder] \in {"new", "ready", "receiving"} => sending[e] = << >>
      /\ at[Recorder] = "left" /\ s = g + 1 => ~Accepted(sent[e][s])

\* The replayer sends the requests of the recording, in their order.
Replaying ==
  LET e == Client(Replayer)
      n == Len(All(e))
  IN  /\ at[Replayer] # "new" => at[Recorder] = "left"
      /\ at[Replayer] = "new" => n = 0
      /\ n <= Len(sent[Client(Recorder)])
      /\ \A i \in 1 .. n : All(e)[i] = sent[Client(Recorder)][i]
      /\ cursor = IF n = 0 THEN 0 ELSE 2 * n - 1

IInv ==
  /\ StreamTyped
  /\ OneAtATime
  /\ TcpTyped
  /\ BacklogDistinct
  /\ Present
  /\ \A e \in Directions : Delivery(e)
  /\ \A c \in Real : Talk(c)
  /\ Tape
  /\ Phase
  /\ Replaying

---------------------------------------------------------------------------
(***************************************************************************)
(* Sequences.                                                              *)
(***************************************************************************)
LEMMA Concatenated ==
  ASSUME NEW S, NEW a \in Seq(S), NEW b \in Seq(S)
  PROVE  /\ a \o b \in Seq(S)
         /\ Len(a \o b) = Len(a) + Len(b)
         /\ \A i \in 1 .. Len(a) : (a \o b)[i] = a[i]
         /\ \A i \in 1 .. Len(b) : (a \o b)[Len(a) + i] = b[i]
  OBVIOUS

LEMMA Singleton ==
  ASSUME NEW S, NEW a \in Seq(S), Len(a) <= 1, a # << >>
  PROVE  Len(a) = 1 /\ Head(a) = a[1] /\ a[1] \in S
<1>1. Len(a) \in Nat /\ Len(a) # 0
  OBVIOUS
<1>2. Len(a) = 1
  BY <1>1
<1> QED
  BY <1>2

LEMMA Appended ==
  ASSUME NEW S, NEW a \in Seq(S), NEW x \in S
  PROVE  /\ Append(a, x) \in Seq(S)
         /\ Len(Append(a, x)) = Len(a) + 1
         /\ \A i \in 1 .. Len(a) : Append(a, x)[i] = a[i]
         /\ Append(a, x)[Len(a) + 1] = x
  OBVIOUS

LEMMA SameSeq ==
  ASSUME NEW S, NEW a \in Seq(S), NEW b \in Seq(S), Len(a) = Len(b),
         \A i \in 1 .. Len(a) : a[i] = b[i]
  PROVE  a = b
  OBVIOUS

LEMMA SameBytes ==
  \A a, b \in Seq(Byte) :
    Len(a) = Len(b) /\ (\A i \in 1 .. Len(a) : a[i] = b[i]) => a = b
  BY SameSeq

LEMMA HeadTail ==
  ASSUME NEW S, NEW a \in Seq(S), a # << >>
  PROVE  /\ Head(a) \in S /\ Head(a) = a[1]
         /\ Tail(a) \in Seq(S)
         /\ Len(Tail(a)) = Len(a) - 1 /\ Len(a) >= 1
         /\ \A i \in 1 .. Len(a) - 1 : Tail(a)[i] = a[i + 1]
  OBVIOUS

\* A byte that moves from one buffer to the next leaves the stream the same.
LEMMA Moved ==
  ASSUME NEW S, NEW a \in Seq(S), NEW b \in Seq(S), b # << >>
  PROVE  Append(a, Head(b)) \o Tail(b) = a \o b
<1> DEFINE c == Append(a, Head(b))
           d == Tail(b)
<1>1. /\ c \in Seq(S) /\ d \in Seq(S) /\ Len(c) = Len(a) + 1 /\ Len(d) = Len(b) - 1
      /\ Len(b) >= 1 /\ Len(a) \in Nat /\ Len(b) \in Nat
      /\ \A i \in 1 .. Len(a) : c[i] = a[i]
      /\ c[Len(a) + 1] = b[1]
      /\ \A i \in 1 .. Len(b) - 1 : d[i] = b[i + 1]
  BY HeadTail, Appended
<1>0. c \in Seq(S) /\ d \in Seq(S)
  BY <1>1
<1> HIDE DEF c, d
<1>2. /\ c \o d \in Seq(S) /\ Len(c \o d) = Len(c) + Len(d)
      /\ \A i \in 1 .. Len(c) : (c \o d)[i] = c[i]
      /\ \A i \in 1 .. Len(d) : (c \o d)[Len(c) + i] = d[i]
  BY <1>0
<1>3. /\ a \o b \in Seq(S) /\ Len(a \o b) = Len(a) + Len(b)
      /\ \A i \in 1 .. Len(a) : (a \o b)[i] = a[i]
      /\ \A i \in 1 .. Len(b) : (a \o b)[Len(a) + i] = b[i]
  BY Concatenated
<1>4. ASSUME NEW i \in 1 .. Len(a) + Len(b)
      PROVE  (c \o d)[i] = (a \o b)[i]
  <2>1. CASE i <= Len(a)
    BY <1>1, <1>2, <1>3, <2>1
  <2>2. CASE i = Len(a) + 1
    BY <1>1, <1>2, <1>3, <2>2
  <2>3. CASE i > Len(a) + 1
    <3> DEFINE j == i - Len(a) - 1
    <3>1. /\ j \in 1 .. Len(d) /\ i = Len(c) + j
          /\ j + 1 \in 1 .. Len(b) /\ i = Len(a) + (j + 1)
      BY <1>1, <2>3
    <3>2. d[j] = b[j + 1]
      BY <1>1, <3>1
    <3>3. (c \o d)[Len(c) + j] = d[j] /\ (a \o b)[Len(a) + (j + 1)] = b[j + 1]
      BY <1>2, <1>3, <3>1
    <3> QED
      BY <3>1, <3>2, <3>3
  <2> QED
    BY <1>1, <2>1, <2>2, <2>3
<1>5. c \o d = a \o b
  <2>1. /\ c \o d \in Seq(S) /\ a \o b \in Seq(S) /\ Len(c \o d) = Len(a \o b)
        /\ \A i \in 1 .. Len(c \o d) : (c \o d)[i] = (a \o b)[i]
    BY <1>1, <1>2, <1>3, <1>4
  <2> QED
    BY <2>1
<1> QED
  BY <1>5 DEF c, d

LEMMA Associative ==
  ASSUME NEW S, NEW a \in Seq(S), NEW b \in Seq(S), NEW c \in Seq(S)
  PROVE  (a \o b) \o c = a \o (b \o c)
  OBVIOUS

---------------------------------------------------------------------------
(***************************************************************************)
(* The length in front of a frame.                                         *)
(***************************************************************************)
LEMMA FourDigits ==
  ASSUME NEW n \in Nat, n \div 16777216 < 256
  PROVE  n = (n % 256) + 256 * (((n \div 256) % 256)
               + 256 * (((n \div 65536) % 256) + 256 * ((n \div 16777216) % 256)))
<1> DEFINE a == n \div 256
           b == n \div 65536
           c == n \div 16777216
<1>1. n = 256 * a + (n % 256) /\ a \in Nat /\ n % 256 \in Nat
  BY SMTT(30)
<1>2. a = 256 * b + (a % 256) /\ b \in Nat /\ a % 256 \in Nat
  <2>1. a \div 256 = b
    BY SMTT(30)
  <2>2. a = 256 * (a \div 256) + (a % 256)
    BY <1>1, SMTT(30)
  <2> QED
    BY <1>1, <2>1, <2>2, SMTT(30)
<1>3. b = 256 * c + (b % 256) /\ b % 256 \in Nat
  <2>1. b \div 256 = c
    BY SMTT(30)
  <2>2. b = 256 * (b \div 256) + (b % 256)
    BY <1>2, SMTT(30)
  <2> QED
    BY <1>2, <2>1, <2>2, SMTT(30)
<1>4. c \in Nat /\ c % 256 = c
  BY SMTT(30)
<1> HIDE DEF a, b, c
<1>5. n = (n % 256) + 256 * ((a % 256) + 256 * ((b % 256) + 256 * (c % 256)))
  BY <1>1, <1>2, <1>3, <1>4, SMTT(30)
<1> QED
  BY <1>5, SMTT(30) DEF a, b, c

LEMMA FromFour ==
  ASSUME NEW b, Len(b) = 4, \A i \in 1 .. 4 : b[i] \in Nat
  PROVE  W!FromLE(b) = b[1] + 256 * (b[2] + 256 * (b[3] + 256 * b[4]))
<1> DEFINE Is(g) == g = [i \in 1 .. Len(b) + 1 |->
                           IF i > Len(b) THEN 0 ELSE b[i] + 256 * g[i + 1]]
           w == [i \in 1 .. 5 |->
                   IF i = 5 THEN 0 ELSE IF i = 4 THEN b[4] ELSE IF i = 3 THEN b[3] + 256 * b[4]
                   ELSE IF i = 2 THEN b[2] + 256 * (b[3] + 256 * b[4])
                   ELSE b[1] + 256 * (b[2] + 256 * (b[3] + 256 * b[4]))]
<1>1. W!FromLE(b) = (CHOOSE g : Is(g))[1]
  BY DEF W!FromLE
<1>2. Is(w)
  <2>1. \A i \in 1 .. 5 : w[i] = IF i > 4 THEN 0 ELSE b[i] + 256 * w[i + 1]
    OBVIOUS
  <2>2. w = [i \in 1 .. 5 |-> w[i]]
    OBVIOUS
  <2> HIDE DEF w
  <2> QED
    BY <2>1, <2>2
<1> DEFINE g == CHOOSE h : Is(h)
<1>3. Is(g)
  BY <1>2
<1> HIDE DEF g
<1>4. /\ g[5] = 0 /\ g[4] = b[4] + 256 * g[5] /\ g[3] = b[3] + 256 * g[4]
      /\ g[2] = b[2] + 256 * g[3] /\ g[1] = b[1] + 256 * g[2]
  BY <1>3
<1> QED
  BY <1>1, <1>4 DEF g

\* The four bytes of a length give the length back.
LEMMA LengthRead ==
  ASSUME NEW n \in Nat, n \div 16777216 < 256,
         NEW b, Len(b) = 4, \A i \in 1 .. 4 : b[i] = W!LE(n, 4)[i]
  PROVE  W!FromLE(b) = n
<1>1. /\ W!LE(n, 4)[1] = n % 256 /\ W!LE(n, 4)[2] = (n \div 256) % 256
      /\ W!LE(n, 4)[3] = (n \div 65536) % 256 /\ W!LE(n, 4)[4] = (n \div 16777216) % 256
  <2>1. W!Place[1] = 1 /\ W!Place[2] = 256 /\ W!Place[3] = 65536 /\ W!Place[4] = 16777216
    BY DEF W!Place
  <2>2. n \div 1 = n
    OBVIOUS
  <2> QED
    BY <2>1, <2>2 DEF W!LE
<1>2. \A i \in 1 .. 4 : b[i] \in Nat
  BY <1>1
<1>3. b[1] = n % 256 /\ b[2] = (n \div 256) % 256
      /\ b[3] = (n \div 65536) % 256 /\ b[4] = (n \div 16777216) % 256
  BY <1>1
<1>4. W!FromLE(b) = b[1] + 256 * (b[2] + 256 * (b[3] + 256 * b[4]))
  BY <1>2, FromFour
<1> QED
  BY <1>3, <1>4, FourDigits

LEMMA FrameLength ==
  ASSUME NEW f \in ShortFrame, NEW b, Len(b) = 4, \A i \in 1 .. 4 : b[i] = W!LE(Len(f), 4)[i]
  PROVE  W!FromLE(b) = Len(f)
<1>1. Len(f) \in Nat /\ Len(f) \div 16777216 < 256
  BY SMTT(30) DEF ShortFrame, Frame
<1> QED
  BY <1>1, LengthRead, SMTT(30)

LEMMA EncodedFacts ==
  ASSUME NEW f \in ShortFrame
  PROVE  /\ Encoded(f) \in Seq(Byte)
         /\ Len(Encoded(f)) = 4 + Len(f)
         /\ \A k \in 1 .. 4 : Encoded(f)[k] = W!LE(Len(f), 4)[k]
         /\ \A k \in 1 .. Len(f) : Encoded(f)[4 + k] = f[k]
<1>1. f \in Seq(Byte) /\ Len(f) \in Nat
  BY DEF ShortFrame, Frame
<1>2. \A i \in 1 .. 4 : W!LE(Len(f), 4)[i] \in 0 .. 255
  <2>1. /\ W!Place[1] = 1 /\ W!Place[2] = 256 /\ W!Place[3] = 65536 /\ W!Place[4] = 16777216
    BY DEF W!Place
  <2>2. \A i \in 1 .. 4 : W!LE(Len(f), 4)[i] = (Len(f) \div W!Place[i]) % 256
    BY DEF W!LE
  <2>3. \A i \in 1 .. 4 : Len(f) \div W!Place[i] \in Nat
    BY <1>1, <2>1
  <2>4. QED
    <3>1. \A k \in Nat : k % 256 \in 0 .. 255
      OBVIOUS
    <3>2. \A i \in 1 .. 4 : (Len(f) \div W!Place[i]) % 256 \in 0 .. 255
      BY <2>3, <3>1
    <3> QED
      BY <2>2, <3>2
<1>3. W!LE(Len(f), 4) = [i \in 1 .. 4 |-> W!LE(Len(f), 4)[i]]
  BY DEF W!LE
<1> DEFINE w == W!LE(Len(f), 4)
<1>4. w \in Seq(Byte) /\ Len(w) = 4
  <2>1. \A i \in 1 .. 4 : w[i] \in Byte
    BY <1>2 DEF Byte
  <2> HIDE DEF w
  <2>2. w = [i \in 1 .. 4 |-> w[i]]
    BY <1>3 DEF w
  <2> QED
    BY <2>1, <2>2
<1> HIDE DEF w
<1>5. f \in Seq(Byte) /\ w \in Seq(Byte)
  BY <1>1, <1>4
<1>6. /\ w \o f \in Seq(Byte) /\ Len(w \o f) = Len(w) + Len(f)
      /\ \A i \in 1 .. Len(w) : (w \o f)[i] = w[i]
      /\ \A i \in 1 .. Len(f) : (w \o f)[Len(w) + i] = f[i]
  BY <1>5
<1> QED
  BY <1>4, <1>6 DEF w, Encoded

---------------------------------------------------------------------------
(***************************************************************************)
(* Streams of frames, as values.                                           *)
(***************************************************************************)
Longer(pos, fs, f) ==
  [i \in 0 .. Len(fs) + 1 |-> IF i <= Len(fs) THEN pos[i] ELSE pos[Len(fs)] + 4 + Len(f)]

LEMMA PositionsGrow ==
  ASSUME NEW fs \in Seq(ShortFrame), NEW f \in ShortFrame, NEW pos, Positions(pos, fs)
  PROVE  Positions(Longer(pos, fs, f), Append(fs, f))
<1> DEFINE q == Longer(pos, fs, f)
           gs == Append(fs, f)
<1>1. /\ gs \in Seq(ShortFrame) /\ Len(gs) = Len(fs) + 1 /\ Len(fs) \in Nat
      /\ \A i \in 1 .. Len(fs) : gs[i] = fs[i]
      /\ gs[Len(fs) + 1] = f
  OBVIOUS
<1>2. f \in Seq(Byte) /\ Len(f) \in Nat
  BY DEF ShortFrame, Frame
<1>3. \A i \in 0 .. Len(fs) : q[i] = pos[i] /\ q[i] \in Nat
  BY DEF Longer, Positions
<1>4. q[Len(fs) + 1] = pos[Len(fs)] + 4 + Len(f) /\ q[Len(fs) + 1] \in Nat
  <2>1. q[Len(fs) + 1] = pos[Len(fs)] + 4 + Len(f)
    BY <1>1 DEF Longer
  <2>2. pos[Len(fs)] \in Nat
    BY <1>1 DEF Positions
  <2> QED
    BY <1>2, <2>1, <2>2
<1>5. q \in [0 .. Len(gs) -> Nat] /\ q[0] = 0
  <2>1. q = [i \in 0 .. Len(gs) |-> q[i]]
    BY <1>1 DEF Longer
  <2>2. \A i \in 0 .. Len(gs) : q[i] \in Nat
    BY <1>1, <1>3, <1>4
  <2> HIDE DEF q, gs
  <2>3. q[0] = 0
    BY <1>1, <1>3 DEF Positions
  <2> QED
    BY <2>1, <2>2, <2>3
<1> HIDE DEF q, gs
<1>6. ASSUME NEW i \in 1 .. Len(gs)
      PROVE  q[i] = q[i - 1] + 4 + Len(gs[i])
  <2>1. CASE i <= Len(fs)
    <3>1. /\ i \in 1 .. Len(fs) /\ i \in 0 .. Len(fs) /\ i - 1 \in 0 .. Len(fs)
      BY <1>1, <2>1
    <3>2. q[i] = pos[i] /\ q[i - 1] = pos[i - 1] /\ gs[i] = fs[i]
      BY <1>1, <1>3, <3>1
    <3>3. pos[i] = pos[i - 1] + 4 + Len(fs[i])
      BY <3>1 DEF Positions
    <3> QED
      BY <3>2, <3>3
  <2>2. CASE i = Len(fs) + 1
    BY <1>1, <1>3, <1>4, <2>2 DEF Positions
  <2> QED
    BY <1>1, <2>1, <2>2
<1>7. ASSUME NEW i \in 0 .. Len(gs), NEW j \in 0 .. Len(gs), i < j
      PROVE  q[i] + 4 <= q[j]
  <2>1. CASE j <= Len(fs)
    <3>1. /\ i \in 0 .. Len(fs) /\ j \in 0 .. Len(fs) /\ q[i] = pos[i] /\ q[j] = pos[j]
      BY <1>1, <1>3, <1>7, <2>1
    <3>2. pos[i] + 4 <= pos[j]
      BY <1>7, <3>1 DEF Positions
    <3> QED
      BY <3>1, <3>2
  <2>2. CASE j = Len(fs) + 1
    <3>1. i \in 0 .. Len(fs) /\ q[i] = pos[i] /\ pos[i] \in Nat /\ pos[Len(fs)] \in Nat
      BY <1>1, <1>3, <1>7, <2>2
    <3>2. pos[i] <= pos[Len(fs)]
      <4>1. i < Len(fs) => pos[i] + 4 <= pos[Len(fs)]
        BY <1>1, <3>1 DEF Positions
      <4>2. i = Len(fs) \/ i < Len(fs)
        BY <1>1, <3>1
      <4> QED
        BY <3>1, <4>1, <4>2
    <3> QED
      BY <1>2, <1>4, <2>2, <3>1, <3>2
  <2> QED
    BY <1>1, <2>1, <2>2
<1>8. ASSUME NEW i \in 0 .. Len(gs)
      PROVE  4 * i <= q[i]
  <2>1. CASE i <= Len(fs)
    BY <1>1, <1>3, <2>1 DEF Positions
  <2>2. CASE i = Len(fs) + 1
    <3> DEFINE L == Len(fs)
               l == Len(f)
    <3>1. /\ L \in Nat /\ l \in Nat /\ pos[L] \in Nat /\ 4 * L <= pos[L]
          /\ q[i] = pos[L] + 4 + l /\ i = L + 1
      BY <1>1, <1>2, <1>4, <2>2 DEF Positions
    <3> HIDE DEF L, l
    <3> QED
      BY <3>1
  <2> QED
    BY <1>1, <2>1, <2>2
<1>9. ASSUME NEW i \in 0 .. Len(gs), NEW j \in 0 .. Len(gs), i <= j
      PROVE  q[i] - 4 * i <= q[j] - 4 * j
  <2>1. CASE j <= Len(fs)
    <3>1. /\ i \in 0 .. Len(fs) /\ j \in 0 .. Len(fs) /\ q[i] = pos[i] /\ q[j] = pos[j]
      BY <1>1, <1>3, <1>9, <2>1
    <3>2. pos[i] - 4 * i <= pos[j] - 4 * j
      BY <1>9, <3>1 DEF Positions
    <3> QED
      BY <3>1, <3>2
  <2>2. CASE i = j
    <3>1. q[i] \in Nat
      BY <1>5
    <3> QED
      BY <2>2, <3>1
  <2>3. CASE i <= Len(fs) /\ j = Len(fs) + 1
    <3> DEFINE L == Len(fs)
               l == Len(f)
    <3>1. L \in Nat /\ l \in Nat /\ i \in 0 .. L /\ L \in 0 .. L /\ j = L + 1 /\ i <= L
      BY <1>1, <1>2, <2>3
    <3>2. q[i] = pos[i] /\ q[i] \in Nat /\ pos[L] = q[L] /\ q[L] \in Nat
      BY <1>3, <3>1
    <3>3. q[j] = pos[L] + 4 + l
      BY <1>4, <3>1
    <3>4. pos[i] - 4 * i <= pos[L] - 4 * L
      BY <3>1 DEF Positions
    <3> DEFINE x == pos[i]
               y == pos[L]
    <3>5. x \in Nat /\ y \in Nat /\ x - 4 * i <= y - 4 * L /\ q[i] = x /\ q[j] = y + 4 + l
      BY <3>2, <3>3, <3>4
    <3> HIDE DEF L, l, x, y
    <3>6. x - 4 * i <= (y + 4 + l) - 4 * (L + 1)
      BY <3>1, <3>5
    <3> QED
      BY <3>1, <3>5, <3>6
  <2> QED
    BY <1>1, <1>9, <2>1, <2>2, <2>3
<1> QED
  BY <1>5, <1>6, <1>7, <1>8, <1>9 DEF Positions, q, gs

LEMMA Between ==
  ASSUME NEW fs \in Seq(ShortFrame), NEW pos, Positions(pos, fs),
         NEW i \in 1 .. Len(fs), NEW n \in 0 .. i - 1
  PROVE  pos[i] = pos[i - 1] + 4 + Len(fs[i]) /\ pos[i] <= pos[Len(fs)] /\ pos[n] <= pos[i - 1]
<1> DEFINE L == Len(fs)
<1>1. L \in Nat /\ i \in 1 .. L
  OBVIOUS
<1>2. pos[i] = pos[i - 1] + 4 + Len(fs[i])
  BY DEF Positions
<1>3. /\ \A j \in 0 .. L : pos[j] \in Nat
      /\ \A j, k \in 0 .. L : j < k => pos[j] + 4 <= pos[k]
  BY DEF Positions
<1> HIDE DEF L
<1>4. /\ i \in 0 .. L /\ L \in 0 .. L /\ n \in 0 .. L /\ i - 1 \in 0 .. L
      /\ (i = L \/ i < L) /\ (n = i - 1 \/ n < i - 1)
  BY <1>1
<1>5. pos[i] <= pos[L]
  BY <1>3, <1>4
<1>6. pos[n] <= pos[i - 1]
  BY <1>3, <1>4
<1> QED
  BY <1>2, <1>5, <1>6 DEF L

\* A frame that is written behind the others is carried behind them.
LEMMA CarriesGrows ==
  ASSUME NEW fs \in Seq(ShortFrame), NEW f \in ShortFrame, NEW pos, Positions(pos, fs),
         NEW n \in 0 .. Len(fs), NEW bytes \in Seq(Byte), Carries(bytes, pos, fs, n)
  PROVE  Carries(bytes \o Encoded(f), Longer(pos, fs, f), Append(fs, f), n)
<1> DEFINE q == Longer(pos, fs, f)
           gs == Append(fs, f)
           w == Encoded(f)
           b == bytes \o w
           L == Len(fs)
<1>1. /\ gs \in Seq(ShortFrame) /\ Len(gs) = L + 1 /\ L \in Nat
      /\ \A i \in 1 .. L : gs[i] = fs[i]
      /\ gs[L + 1] = f
  OBVIOUS
<1>2. f \in Seq(Byte) /\ Len(f) \in Nat
  BY DEF ShortFrame, Frame
<1>3. \A i \in 0 .. L : q[i] = pos[i] /\ pos[i] \in Nat
  <2>1. \A i \in 0 .. L : pos[i] \in Nat
    BY DEF Positions
  <2>2. \A i \in 0 .. L : q[i] = pos[i]
    BY <1>1 DEF Longer
  <2> QED
    BY <2>1, <2>2
<1>4. q[L + 1] = pos[L] + 4 + Len(f)
  BY <1>1, <1>2, <1>3 DEF Longer
<1>5. w \in Seq(Byte) /\ Len(w) = 4 + Len(f)
  BY EncodedFacts
<1> HIDE DEF q, gs, w
<1>6. /\ b \in Seq(Byte) /\ Len(b) = Len(bytes) + Len(w) /\ Len(bytes) \in Nat
      /\ \A i \in 1 .. Len(bytes) : b[i] = bytes[i]
      /\ \A i \in 1 .. Len(w) : b[Len(bytes) + i] = w[i]
  BY <1>5
<1> HIDE DEF b
<1>7. Len(bytes) = pos[L] - pos[n]
  BY DEF Carries
<1>8. Len(b) = q[Len(gs)] - q[n]
  <2> DEFINE lb == Len(b)
             lw == Len(w)
             lf == Len(f)
             ly == Len(bytes)
             x == pos[L]
             y == pos[n]
  <2>1. /\ lb = ly + lw /\ lw = 4 + lf /\ ly = x - y /\ lf \in Nat /\ x \in Nat /\ y \in Nat
        /\ q[Len(gs)] = x + 4 + lf /\ q[n] = y
    <3>1. L \in 0 .. L /\ n \in 0 .. L
      BY <1>1
    <3> QED
      BY <3>1, <1>1, <1>2, <1>3, <1>4, <1>5, <1>6, <1>7
  <2> HIDE DEF lb, lw, lf, ly, x, y
  <2>2. lb = (x + 4 + lf) - y
    BY <2>1
  <2> QED
    BY <2>1, <2>2 DEF lb
<1>9. ASSUME NEW i \in n + 1 .. Len(gs), NEW k \in 1 .. 4 + Len(gs[i])
      PROVE  b[q[i - 1] - q[n] + k] = Encoded(gs[i])[k]
  <2>1. CASE i <= L
    <3>1. /\ i \in n + 1 .. L /\ i \in 1 .. L /\ i - 1 \in 0 .. L /\ n \in 0 .. L
          /\ gs[i] = fs[i]
      BY <1>1, <2>1
    <3>2. fs[i] \in ShortFrame /\ Len(fs[i]) \in Nat
      BY <3>1 DEF ShortFrame, Frame
    <3>3. bytes[pos[i - 1] - pos[n] + k] = Encoded(fs[i])[k]
      BY <3>1 DEF Carries
    <3>4. pos[i] = pos[i - 1] + 4 + Len(fs[i]) /\ pos[i] <= pos[L] /\ pos[n] <= pos[i - 1]
      BY <3>1, <1>1, Between
    <3>5. pos[i - 1] - pos[n] + k \in 1 .. Len(bytes)
      <4>1. pos[i - 1] \in Nat /\ pos[n] \in Nat /\ pos[i] \in Nat /\ pos[L] \in Nat
        BY <1>1, <1>3, <3>1
      <4>2. k \in 1 .. 4 + Len(fs[i])
        BY <3>1
      <4> DEFINE l == Len(fs[i])
                 m == Len(bytes)
                 x == pos[i - 1]
                 y == pos[n]
                 z == pos[L]
                 u == pos[i]
      <4>3. /\ l \in Nat /\ m \in Nat /\ x \in Nat /\ y \in Nat /\ z \in Nat /\ u \in Nat
            /\ m = z - y /\ u = x + 4 + l /\ u <= z /\ y <= x /\ k \in 1 .. 4 + l
        BY <1>6, <1>7, <3>2, <3>4, <4>1, <4>2
      <4> HIDE DEF l, m, x, y, z, u
      <4>4. x - y + k \in 1 .. m
        BY <4>3
      <4> QED
        BY <4>4 DEF m, x, y
    <3>6. b[pos[i - 1] - pos[n] + k] = bytes[pos[i - 1] - pos[n] + k]
      BY <1>6, <3>5
    <3>7. q[i - 1] = pos[i - 1] /\ q[n] = pos[n]
      BY <1>3, <3>1
    <3> QED
      BY <3>1, <3>3, <3>6, <3>7
  <2>2. CASE i = L + 1
    <3>1. gs[i] = f /\ q[i - 1] = pos[L] /\ q[n] = pos[n] /\ k \in 1 .. Len(w)
      BY <1>1, <1>3, <1>5, <2>2
    <3>2. q[i - 1] - q[n] + k = Len(bytes) + k
      BY <1>7, <3>1
    <3>3. b[Len(bytes) + k] = w[k]
      BY <1>6, <3>1
    <3> QED
      BY <3>1, <3>2, <3>3 DEF w
  <2> QED
    BY <1>1, <2>1, <2>2
<1> QED
  BY <1>8, <1>9 DEF Carries, q, gs, b, w

\* The bytes under way begin with a length, if there are any.
LEMMA CarriesFirst ==
  ASSUME NEW fs \in Seq(ShortFrame), NEW pos, Positions(pos, fs),
         NEW n \in 0 .. Len(fs), NEW bytes \in Seq(Byte), Carries(bytes, pos, fs, n),
         bytes # << >>
  PROVE  /\ n < Len(fs)
         /\ Len(bytes) = 4 + Len(fs[n + 1]) + pos[Len(fs)] - pos[n + 1]
         /\ Len(bytes) >= 4 + Len(fs[n + 1])
         /\ \A k \in 1 .. 4 : bytes[k] = W!LE(Len(fs[n + 1]), 4)[k]
<1>1. Len(fs) \in Nat /\ Len(bytes) \in Nat /\ Len(bytes) > 0
  OBVIOUS
<1>2. \A i \in 0 .. Len(fs) : pos[i] \in Nat
  BY DEF Positions
<1>3. Len(bytes) = pos[Len(fs)] - pos[n]
  BY DEF Carries
<1>4. n < Len(fs)
  BY <1>1, <1>2, <1>3
<1>5. fs[n + 1] \in ShortFrame /\ Len(fs[n + 1]) \in Nat
  BY <1>1, <1>4 DEF ShortFrame, Frame
<1>6. pos[n + 1] = pos[n] + 4 + Len(fs[n + 1]) /\ pos[n + 1] <= pos[Len(fs)]
  <2>1. n + 1 \in 1 .. Len(fs) /\ (n + 1) - 1 = n /\ n + 1 \in 0 .. Len(fs) /\ Len(fs) \in 0 .. Len(fs)
    BY <1>1, <1>4
  <2>2. pos[n + 1] = pos[(n + 1) - 1] + 4 + Len(fs[n + 1])
    BY <2>1 DEF Positions
  <2>3. n + 1 < Len(fs) => pos[n + 1] + 4 <= pos[Len(fs)]
    BY <2>1 DEF Positions
  <2> QED
    BY <1>2, <2>1, <2>2, <2>3
<1>7. ASSUME NEW k \in 1 .. 4
      PROVE  bytes[k] = W!LE(Len(fs[n + 1]), 4)[k]
  <2>1. n + 1 \in n + 1 .. Len(fs) /\ k \in 1 .. 4 + Len(fs[n + 1]) /\ (n + 1) - 1 = n
    BY <1>1, <1>4, <1>5
  <2>2. bytes[pos[(n + 1) - 1] - pos[n] + k] = Encoded(fs[n + 1])[k]
    BY <2>1 DEF Carries
  <2>3. pos[(n + 1) - 1] - pos[n] + k = k
    BY <1>2, <2>1
  <2>4. Encoded(fs[n + 1])[k] = W!LE(Len(fs[n + 1]), 4)[k]
    BY <1>5, EncodedFacts
  <2> QED
    BY <2>2, <2>3, <2>4
<1>8. /\ Len(bytes) = 4 + Len(fs[n + 1]) + pos[Len(fs)] - pos[n + 1]
      /\ Len(bytes) >= 4 + Len(fs[n + 1])
  <2> DEFINE m == Len(bytes)
             l == Len(fs[n + 1])
             x == pos[n]
             y == pos[n + 1]
             z == pos[Len(fs)]
  <2>1. /\ l \in Nat /\ x \in Nat /\ y \in Nat /\ z \in Nat
        /\ m = z - x /\ y = x + 4 + l /\ y <= z
    <3>1. n \in 0 .. Len(fs) /\ n + 1 \in 0 .. Len(fs) /\ Len(fs) \in 0 .. Len(fs)
      BY <1>1, <1>4
    <3> QED
      BY <3>1, <1>2, <1>3, <1>5, <1>6
  <2> HIDE DEF l, m, x, y, z
  <2>2. m = 4 + l + z - y /\ m >= 4 + l
    BY <2>1
  <2> QED
    BY <2>2 DEF l, m, y, z
<1> QED
  BY <1>4, <1>7, <1>8

\* A frame that is cut off at the front leaves those behind it.
LEMMA CarriesOn ==
  ASSUME NEW fs \in Seq(ShortFrame), NEW pos, Positions(pos, fs),
         NEW n \in Nat, n < Len(fs), NEW a \in Seq(Byte), NEW b \in Seq(Byte),
         Carries(a \o b, pos, fs, n), Len(a) = 4 + Len(fs[n + 1])
  PROVE  /\ Carries(b, pos, fs, n + 1)
         /\ SubSeq(a, 5, Len(a)) = fs[n + 1]
<1> DEFINE f == fs[n + 1]
           c == a \o b
<1>1. /\ Len(fs) \in Nat /\ n + 1 \in 1 .. Len(fs) /\ n \in 0 .. Len(fs)
      /\ n + 1 \in 0 .. Len(fs) /\ (n + 1) - 1 = n
  OBVIOUS
<1>2. f \in ShortFrame /\ f \in Seq(Byte) /\ Len(f) \in Nat
  BY <1>1 DEF ShortFrame, Frame
<1>3. \A i \in 0 .. Len(fs) : pos[i] \in Nat
  BY DEF Positions
<1>4. pos[n + 1] = pos[n] + 4 + Len(f)
  BY <1>1 DEF Positions
<1>5. /\ c \in Seq(Byte) /\ Len(c) = Len(a) + Len(b) /\ Len(a) \in Nat /\ Len(b) \in Nat
      /\ \A i \in 1 .. Len(a) : c[i] = a[i]
      /\ \A i \in 1 .. Len(b) : c[Len(a) + i] = b[i]
  <2>1. Len(a) \in Nat /\ Len(b) \in Nat
    OBVIOUS
  <2>2. /\ a \o b \in Seq(Byte) /\ Len(a \o b) = Len(a) + Len(b)
        /\ \A i \in 1 .. Len(a) : (a \o b)[i] = a[i]
        /\ \A i \in 1 .. Len(b) : (a \o b)[Len(a) + i] = b[i]
    BY SMTT(60)
  <2> QED
    BY <2>1, <2>2
<1>6. Len(c) = pos[Len(fs)] - pos[n]
  BY DEF Carries
<1>7. \A i \in n + 1 .. Len(fs) : \A k \in 1 .. 4 + Len(fs[i]) :
        c[pos[i - 1] - pos[n] + k] = Encoded(fs[i])[k]
  BY DEF Carries
<1>8. Len(a) = 4 + Len(f)
  OBVIOUS
<1> HIDE DEF f, c
<1>9. Len(b) = pos[Len(fs)] - pos[n + 1]
  <2> DEFINE la == Len(a)
             lb == Len(b)
             l == Len(f)
             x == pos[n]
             y == pos[n + 1]
             z == pos[Len(fs)]
  <2>1. /\ l \in Nat /\ x \in Nat /\ y \in Nat /\ z \in Nat /\ la \in Nat /\ lb \in Nat
        /\ la + lb = z - x /\ y = x + 4 + l /\ la = 4 + l
    <3>1. Len(fs) \in 0 .. Len(fs)
      BY <1>1
    <3> QED
      BY <3>1, <1>1, <1>2, <1>3, <1>4, <1>5, <1>6, <1>8
  <2> HIDE DEF la, lb, l, x, y, z
  <2>2. lb = z - y
    BY <2>1
  <2> QED
    BY <2>2 DEF lb, y, z
<1>10. ASSUME NEW i \in n + 2 .. Len(fs), NEW k \in 1 .. 4 + Len(fs[i])
       PROVE  b[pos[i - 1] - pos[n + 1] + k] = Encoded(fs[i])[k]
  <2> DEFINE j == pos[i - 1] - pos[n + 1] + k
  <2>1. /\ i \in n + 1 .. Len(fs) /\ i \in 1 .. Len(fs) /\ i - 1 \in 0 .. Len(fs)
        /\ i \in 0 .. Len(fs) /\ Len(fs) \in 0 .. Len(fs) /\ k \in Nat
    BY <1>1
  <2>2. fs[i] \in ShortFrame /\ Len(fs[i]) \in Nat
    BY <2>1 DEF ShortFrame, Frame
  <2>3. pos[i] = pos[i - 1] + 4 + Len(fs[i]) /\ pos[i] <= pos[Len(fs)] /\ pos[n + 1] <= pos[i - 1]
    <3>1. n + 1 \in 0 .. i - 1
      BY <1>1
    <3> QED
      BY <2>1, <3>1, Between
  <2>6. /\ pos[n] \in Nat /\ pos[n + 1] \in Nat /\ pos[i - 1] \in Nat /\ pos[i] \in Nat
        /\ pos[Len(fs)] \in Nat
    BY <1>1, <1>3, <2>1
  <2>7. j \in 1 .. Len(b) /\ Len(a) + j = pos[i - 1] - pos[n] + k
    <3> DEFINE la == Len(a)
               lb == Len(b)
               l == Len(f)
               li == Len(fs[i])
               x == pos[n]
               y == pos[n + 1]
               z == pos[Len(fs)]
               u == pos[i - 1]
               v == pos[i]
    <3>1. /\ l \in Nat /\ x \in Nat /\ y \in Nat /\ z \in Nat /\ u \in Nat /\ v \in Nat
          /\ li \in Nat /\ lb = z - y /\ v = u + 4 + li /\ v <= z /\ y <= u
          /\ k \in 1 .. 4 + li /\ la = 4 + l /\ y = x + 4 + l
      BY <1>2, <1>4, <1>8, <1>9, <2>2, <2>3, <2>6
    <3> HIDE DEF la, lb, l, li, x, y, z, u, v
    <3>2. u - y + k \in 1 .. lb /\ la + (u - y + k) = u - x + k
      BY <3>1
    <3> QED
      BY <3>2 DEF la, lb, x, y, u
  <2>9. c[pos[i - 1] - pos[n] + k] = Encoded(fs[i])[k]
    BY <1>7, <2>1
  <2>10. c[Len(a) + j] = b[j]
    BY <1>5, <2>7
  <2> QED
    BY <2>7, <2>9, <2>10
<1>11. Carries(b, pos, fs, n + 1)
  <2>1. (n + 1) + 1 = n + 2
    OBVIOUS
  <2> QED
    BY <1>9, <1>10, <2>1 DEF Carries
<1>12. ASSUME NEW k \in 1 .. Len(f)
       PROVE  a[4 + k] = f[k]
  <2>1. n + 1 \in n + 1 .. Len(fs) /\ 4 + k \in 1 .. 4 + Len(f) /\ 4 + k \in 1 .. Len(a)
    BY <1>1, <1>2, <1>8
  <2>2. c[pos[(n + 1) - 1] - pos[n] + (4 + k)] = Encoded(f)[4 + k]
    BY <1>7, <2>1 DEF f
  <2>3. pos[(n + 1) - 1] - pos[n] + (4 + k) = 4 + k
    BY <1>1, <1>3
  <2>4. Encoded(f)[4 + k] = f[k]
    BY <1>2, EncodedFacts
  <2>5. c[4 + k] = a[4 + k]
    BY <1>5, <2>1
  <2> QED
    BY <2>2, <2>3, <2>4, <2>5
<1>13. SubSeq(a, 5, Len(a)) = f
  <2> DEFINE r == SubSeq(a, 5, Len(a))
  <2>1. /\ r \in Seq(Byte) /\ Len(r) = Len(a) - 4
        /\ \A k \in 1 .. Len(a) - 4 : r[k] = a[4 + k]
    BY <1>2, <1>5, <1>8
  <2> HIDE DEF r
  <2>2. r \in Seq(Byte) /\ f \in Seq(Byte) /\ Len(r) = Len(f) /\ \A k \in 1 .. Len(r) : r[k] = f[k]
    BY <1>2, <1>8, <1>12, <2>1
  <2>3. r = f
    BY <2>2, SameBytes
  <2> QED
    BY <2>3 DEF r
<1> QED
  BY <1>11, <1>13 DEF f

---------------------------------------------------------------------------
(***************************************************************************)
(* One direction of a connection, step by step.                            *)
(***************************************************************************)
LEMMA PeerFacts ==
  ASSUME NEW e \in Ends
  PROVE  Peer(e) \in Ends /\ Peer(e) # e /\ Peer(Peer(e)) = e /\ Peer(e)[1] = e[1]
  BY DEF Ends, Peer

LEMMA OneFrame ==
  ASSUME NEW S, NEW x \in S
  PROVE  <<x>> \in Seq(S) /\ Len(<<x>>) = 1 /\ <<x>>[1] = x /\ Head(<<x>>) = x /\ <<x>> # << >>
  OBVIOUS

LEMMA AppendOne ==
  ASSUME NEW S, NEW a \in Seq(S), NEW x \in S
  PROVE  a \o <<x>> = Append(a, x)
  OBVIOUS

LEMMA EmptySide ==
  ASSUME NEW S, NEW a \in Seq(S)
  PROVE  a \o << >> = a /\ << >> \o a = a
  OBVIOUS

LEMMA DirectionTyped ==
  ASSUME StreamTyped, NEW d \in Ends
  PROVE  /\ sent[d] \in Seq(ShortFrame) /\ sending[d] \in Seq(ShortFrame)
         /\ out[d] \in Seq(Byte) /\ pipe[d] \in Seq(Byte) /\ in[Peer(d)] \in Seq(Byte)
         /\ got[Peer(d)] \in Seq(Frame) /\ shut[Peer(d)] \in BOOLEAN
         /\ All(d) \in Seq(ShortFrame) /\ UnderWay(d) \in Seq(Byte)
         /\ counts[d] \in Counters /\ counts[Peer(d)] \in Counters
<1>1. /\ sent[d] \in Seq(ShortFrame) /\ sending[d] \in Seq(ShortFrame)
      /\ out[d] \in Seq(Byte) /\ pipe[d] \in Seq(Byte) /\ in[Peer(d)] \in Seq(Byte)
      /\ got[Peer(d)] \in Seq(Frame) /\ shut[Peer(d)] \in BOOLEAN
      /\ counts[d] \in Counters /\ counts[Peer(d)] \in Counters
  BY PeerFacts DEF StreamTyped
<1>2. All(d) \in Seq(ShortFrame)
  BY <1>1 DEF All
<1>3. UnderWay(d) \in Seq(Byte)
  BY <1>1 DEF UnderWay
<1> QED
  BY <1>1, <1>2, <1>3

Tally(d) ==
  <<counts[d].frames_sent, counts[d].bytes_sent,
    counts[Peer(d)].frames_recv, counts[Peer(d)].bytes_recv>>

\* What a direction has beside its send.
Rest(d) == <<sent[d], pipe[d], in[Peer(d)], got[Peer(d)], shut[Peer(d)], Tally(d)>>

LEMMA Untouched ==
  ASSUME NEW d \in Ends, Delivery(d),
         Rest(d)' = Rest(d), sending'[d] = sending[d], out'[d] = out[d]
  PROVE  Delivery(d)' /\ All(d)' = All(d)
<1>1. /\ All(d)' = All(d) /\ UnderWay(d)' = UnderWay(d) /\ SentBy(d)' = SentBy(d)
      /\ got'[Peer(d)] = got[Peer(d)] /\ shut'[Peer(d)] = shut[Peer(d)] /\ sent'[d] = sent[d]
  BY DEF Rest, All, UnderWay, SentBy
<1>2. \A pos : Counted(d, pos) => Counted(d, pos)'
  BY <1>1 DEF Counted, Rest, Tally
<1>3. Prefix(d)'
  BY <1>1 DEF Delivery, Prefix
<1>4. PICK pos : /\ Positions(pos, All(d))
                 /\ Counted(d, pos)
                 /\ ~shut[Peer(d)] => Carries(UnderWay(d), pos, All(d), Len(got[Peer(d)]))
  BY DEF Delivery
<1>5. /\ Positions(pos, All(d)') /\ Counted(d, pos)'
      /\ ~shut'[Peer(d)] => Carries(UnderWay(d)', pos, All(d)', Len(got'[Peer(d)]))
  BY <1>1, <1>2, <1>4
<1> QED
  BY <1>1, <1>3, <1>5 DEF Delivery

\* A new frame is handed to send.
LEMMA DirectionStarts ==
  ASSUME StreamTyped, OneAtATime, NEW d \in Ends, Delivery(d), NEW f \in ShortFrame,
         sending[d] = << >>, sending'[d] = <<f>>, out'[d] = Encoded(f), Rest(d)' = Rest(d)
  PROVE  Delivery(d)' /\ All(d)' = Append(All(d), f)
<1> DEFINE p == Peer(d)
           fs == All(d)
           g == Len(got[p])
<1>1. /\ sent'[d] = sent[d] /\ pipe'[d] = pipe[d] /\ in'[p] = in[p] /\ got'[p] = got[p]
      /\ shut'[p] = shut[p] /\ Tally(d)' = Tally(d)
  BY DEF Rest
<1>2. /\ sent[d] \in Seq(ShortFrame) /\ pipe[d] \in Seq(Byte) /\ in[p] \in Seq(Byte)
      /\ got[p] \in Seq(Frame) /\ fs \in Seq(ShortFrame) /\ UnderWay(d) \in Seq(Byte)
  BY DirectionTyped
<1>3. fs = sent[d]
  BY <1>2, EmptySide DEF All
<1>4. All(d)' = Append(fs, f)
  <2>1. All(d)' = sent[d] \o <<f>>
    BY <1>1 DEF All
  <2> QED
    BY <1>2, <1>3, <2>1, AppendOne
<1>5. out[d] = << >>
  BY DEF OneAtATime
<1>6. UnderWay(d) = in[p] \o pipe[d] /\ UnderWay(d)' = UnderWay(d) \o Encoded(f)
  <2>1. in[p] \o pipe[d] \in Seq(Byte)
    BY <1>2
  <2>2. UnderWay(d) = in[p] \o pipe[d]
    BY <1>5, <2>1, EmptySide DEF UnderWay
  <2>3. UnderWay(d)' = in[p] \o pipe[d] \o Encoded(f)
    BY <1>1 DEF UnderWay
  <2> QED
    BY <2>2, <2>3
<1>7. Encoded(f) # << >>
  BY EncodedFacts DEF ShortFrame, Frame
<1>8. SentBy(d) = fs /\ SentBy(d)' = fs
  BY <1>1, <1>3, <1>5, <1>7 DEF SentBy, All
<1>9. Len(Append(fs, f)) = Len(fs) + 1 /\ Len(fs) \in Nat /\ \A i \in 1 .. Len(fs) : Append(fs, f)[i] = fs[i]
  BY <1>2
<1>10. g \in Nat /\ g <= Len(fs) /\ \A i \in 1 .. g : got[p][i] = fs[i]
  BY <1>2, <1>8 DEF Delivery, Prefix
<1>11. Prefix(d)'
  <2>1. Len(got'[p]) <= Len(SentBy(d)')
    BY <1>1, <1>8, <1>10
  <2>2. \A i \in 1 .. Len(got'[p]) : got'[p][i] = All(d)'[i]
    BY <1>1, <1>4, <1>9, <1>10
  <2> QED
    BY <2>1, <2>2 DEF Prefix
<1>12. PICK pos : /\ Positions(pos, fs)
                  /\ Counted(d, pos)
                  /\ ~shut[p] => Carries(UnderWay(d), pos, fs, g)
  BY DEF Delivery
<1>q. PICK q : q = Longer(pos, fs, f)
  OBVIOUS
<1>13. Positions(q, Append(fs, f))
  BY <1>2, <1>12, <1>q, PositionsGrow
<1>14. ~shut[p] => Carries(UnderWay(d) \o Encoded(f), q, Append(fs, f), g)
  BY <1>2, <1>9, <1>10, <1>12, <1>q, CarriesGrows
<1>15. Counted(d, q)'
  <2>1. \A i \in 0 .. Len(fs) : q[i] = pos[i]
    BY <1>9, <1>q DEF Longer
  <2>2. q[Len(sent[d])] = pos[Len(sent[d])] /\ q[g] = pos[g]
    BY <1>3, <1>9, <1>10, <2>1
  <2> QED
    BY <1>1, <1>12, <2>2 DEF Counted, Tally
<1>16. /\ Positions(q, All(d)') /\ Counted(d, q)'
       /\ ~shut'[p] => Carries(UnderWay(d)', q, All(d)', Len(got'[p]))
  BY <1>1, <1>4, <1>6, <1>13, <1>14, <1>15
<1> QED
  BY <1>4, <1>11, <1>16 DEF Delivery

\* A byte is written or read, and moves on or into the void; an end is dropped.
LEMMA DirectionMoves ==
  ASSUME NEW d \in Ends, Delivery(d), All(d)' = All(d), Tally(d)' = Tally(d),
         sent'[d] = sent[d], got'[Peer(d)] = got[Peer(d)],
         Len(SentBy(d)) <= Len(SentBy(d)'), Len(SentBy(d)) \in Nat, Len(SentBy(d)') \in Nat,
         Len(got[Peer(d)]) \in Nat,
         ~shut'[Peer(d)] => ~shut[Peer(d)] /\ UnderWay(d)' = UnderWay(d)
  PROVE  Delivery(d)'
<1>1. Prefix(d)'
  BY DEF Delivery, Prefix
<1>2. PICK pos : /\ Positions(pos, All(d))
                 /\ Counted(d, pos)
                 /\ ~shut[Peer(d)] => Carries(UnderWay(d), pos, All(d), Len(got[Peer(d)]))
  BY DEF Delivery
<1>3. Counted(d, pos)'
  BY <1>2 DEF Counted, Tally
<1>4. /\ Positions(pos, All(d)') /\ Counted(d, pos)'
      /\ ~shut'[Peer(d)] => Carries(UnderWay(d)', pos, All(d)', Len(got'[Peer(d)]))
  BY <1>2, <1>3
<1> QED
  BY <1>1, <1>4 DEF Delivery

LEMMA SaturatingSum ==
  ASSUME NEW a \in Nat, NEW b \in Nat
  PROVE  SaturatingAdd(Saturated(a), b) = Saturated(a + b)
<1>1. COUNT_MAX \in Nat /\ Saturated(a) \in Nat
  BY StreamAssumption DEF Saturated
<1>2. CASE a > COUNT_MAX
  <2>1. Saturated(a) = COUNT_MAX /\ Saturated(a + b) = COUNT_MAX
    BY <1>1, <1>2 DEF Saturated
  <2> QED
    BY <1>1, <2>1 DEF SaturatingAdd
<1>3. CASE a <= COUNT_MAX
  <2>1. Saturated(a) = a
    BY <1>1, <1>3 DEF Saturated
  <2> QED
    BY <2>1 DEF SaturatingAdd, Saturated
<1> QED
  BY <1>1, <1>2, <1>3

LEMMA AtMostOne ==
  ASSUME NEW S, NEW a \in Seq(S), a # << >>, Len(a) <= 1
  PROVE  Head(a) \in S /\ a = <<Head(a)>>
<1>1. Len(a) \in Nat /\ Len(a) >= 1 /\ Head(a) = a[1] /\ Head(a) \in S
  BY HeadTail
<1> DEFINE n == Len(a)
<1>2. n \in Nat /\ n >= 1 /\ n <= 1
  BY <1>1
<1> HIDE DEF n
<1>3. n = 1
  BY <1>2
<1>4. Len(a) = 1
  BY <1>3 DEF n
<1> QED
  BY <1>1, <1>4

LEMMA SendingOne ==
  ASSUME StreamTyped, OneAtATime, NEW d \in Ends, sending[d] # << >>
  PROVE  /\ Head(sending[d]) \in ShortFrame
         /\ sending[d] = <<Head(sending[d])>>
         /\ All(d) = Append(sent[d], Head(sending[d]))
<1>1. sending[d] \in Seq(ShortFrame) /\ sent[d] \in Seq(ShortFrame) /\ Len(sending[d]) <= 1
  BY DirectionTyped DEF OneAtATime
<1> DEFINE f == Head(sending[d])
<1>2. f \in ShortFrame
  BY <1>1, AtMostOne
<1>3. sending[d] = <<f>>
  BY <1>1, AtMostOne
<1>4. sent[d] \o <<f>> = Append(sent[d], f)
  BY <1>1, <1>2, AppendOne
<1> QED
  BY <1>2, <1>3, <1>4 DEF All

\* send returns.
LEMMA DirectionSends ==
  ASSUME StreamTyped, OneAtATime, NEW d \in Ends, Delivery(d),
         sending[d] # << >>, out[d] = << >>,
         sending'[d] = << >>, out'[d] = out[d], pipe'[d] = pipe[d],
         in'[Peer(d)] = in[Peer(d)], got'[Peer(d)] = got[Peer(d)],
         shut'[Peer(d)] = shut[Peer(d)],
         sent'[d] = Append(sent[d], Head(sending[d])),
         counts'[d].frames_sent = SaturatingAdd(counts[d].frames_sent, 1),
         counts'[d].bytes_sent = SaturatingAdd(counts[d].bytes_sent, Len(Head(sending[d]))),
         counts'[Peer(d)].frames_recv = counts[Peer(d)].frames_recv,
         counts'[Peer(d)].bytes_recv = counts[Peer(d)].bytes_recv
  PROVE  Delivery(d)' /\ All(d)' = All(d)
<1> DEFINE p == Peer(d)
           f == Head(sending[d])
           s == Len(sent[d])
           g == Len(got[p])
<1>1. /\ sent[d] \in Seq(ShortFrame) /\ sending[d] \in Seq(ShortFrame)
      /\ All(d) \in Seq(ShortFrame) /\ s \in Nat /\ got[p] \in Seq(Frame)
  BY DirectionTyped
<1>2. f \in ShortFrame /\ All(d) = Append(sent[d], f) /\ Len(f) \in Nat
  BY SendingOne DEF ShortFrame, Frame
<1>3. All(d)' = All(d) /\ sent'[d] = All(d)
  <2>1. sent'[d] = All(d)
    BY <1>2
  <2> QED
    BY <1>1, <2>1, EmptySide DEF All
<1>4. UnderWay(d)' = UnderWay(d)
  BY DEF UnderWay
<1>5. SentBy(d) = All(d) /\ SentBy(d)' = All(d)
  <2>1. SentBy(d) = All(d)
    BY DEF SentBy, All
  <2>2. SentBy(d)' = All(d)'
    BY DEF SentBy, All
  <2> QED
    BY <1>3, <2>1, <2>2
<1>6. Prefix(d)'
  BY <1>3, <1>5 DEF Delivery, Prefix
<1>7. PICK pos : /\ Positions(pos, All(d))
                 /\ Counted(d, pos)
                 /\ ~shut[p] => Carries(UnderWay(d), pos, All(d), g)
  BY DEF Delivery
<1>8. /\ Len(All(d)) = s + 1 /\ All(d)[s + 1] = f
  BY <1>1, <1>2
<1>9. Counted(d, pos)'
  <2>1. /\ s + 1 \in 1 .. Len(All(d)) /\ s \in 0 .. Len(All(d)) /\ s + 1 \in 0 .. Len(All(d))
        /\ (s + 1) - 1 = s
    BY <1>1, <1>8
  <2>2. pos[s + 1] = pos[s] + 4 + Len(f) /\ pos[s] \in Nat
    BY <1>7, <1>8, <2>1 DEF Positions
  <2>3. 4 * s <= pos[s]
    BY <1>7, <2>1 DEF Positions
  <2> DEFINE l == Len(f)
             x == pos[s]
             y == pos[s + 1]
             m == s
  <2>4. /\ l \in Nat /\ x \in Nat /\ m \in Nat /\ y = x + 4 + l /\ 4 * m <= x
    BY <1>1, <1>2, <2>2, <2>3
  <2>5. /\ counts[d].frames_sent = Saturated(m) /\ counts[d].bytes_sent = Saturated(x - 4 * m)
        /\ counts[p].frames_recv = Saturated(g) /\ counts[p].bytes_recv = Saturated(pos[g] - 4 * g)
    BY <1>7 DEF Counted
  <2>6. /\ counts'[d].frames_sent = SaturatingAdd(Saturated(m), 1)
        /\ counts'[d].bytes_sent = SaturatingAdd(Saturated(x - 4 * m), l)
    BY <2>5
  <2>7. Len(sent'[d]) = m + 1
    BY <1>3, <1>8
  <2> HIDE DEF l, x, y, m
  <2>8. x - 4 * m \in Nat /\ (x - 4 * m) + l = y - 4 * (m + 1)
    BY <2>4
  <2>9. SaturatingAdd(Saturated(m), 1) = Saturated(m + 1)
    BY <2>4, SaturatingSum
  <2>10. SaturatingAdd(Saturated(x - 4 * m), l) = Saturated((x - 4 * m) + l)
    BY <2>4, <2>8, SaturatingSum
  <2>11. /\ counts'[d].frames_sent = Saturated(m + 1)
         /\ counts'[d].bytes_sent = Saturated(y - 4 * (m + 1))
    BY <2>6, <2>8, <2>9, <2>10
  <2>12. y = pos[m + 1]
    BY DEF y, m
  <2> QED
    BY <2>5, <2>7, <2>11, <2>12 DEF Counted
<1>10. /\ Positions(pos, All(d)') /\ Counted(d, pos)'
       /\ ~shut'[p] => Carries(UnderWay(d)', pos, All(d)', Len(got'[p]))
  BY <1>3, <1>4, <1>7, <1>9
<1> QED
  BY <1>3, <1>6, <1>10 DEF Delivery

LEMMA PrefixFacts ==
  ASSUME StreamTyped, OneAtATime, NEW d \in Ends, Delivery(d)
  PROVE  /\ Len(got[Peer(d)]) \in Nat /\ Len(All(d)) \in Nat /\ Len(sent[d]) \in Nat
         /\ Len(got[Peer(d)]) <= Len(SentBy(d))
         /\ Len(SentBy(d)) <= Len(All(d)) /\ Len(sent[d]) <= Len(SentBy(d))
         /\ Len(SentBy(d)) \in Nat
         /\ Len(All(d)) <= Len(sent[d]) + 1
         /\ \A i \in 1 .. Len(sent[d]) : All(d)[i] = sent[d][i]
         /\ sending[d] = << >> => All(d) = sent[d] /\ SentBy(d) = sent[d]
         /\ out[d] = << >> => SentBy(d) = All(d)
         /\ \A i \in 1 .. Len(got[Peer(d)]) : got[Peer(d)][i] = All(d)[i]
<1>1. /\ sent[d] \in Seq(ShortFrame) /\ sending[d] \in Seq(ShortFrame)
      /\ All(d) \in Seq(ShortFrame) /\ got[Peer(d)] \in Seq(Frame)
  BY DirectionTyped
<1>2. Len(sending[d]) \in Nat /\ Len(sending[d]) <= 1 /\ (sending[d] = << >> => out[d] = << >>)
  BY <1>1 DEF OneAtATime
<1>3. Len(All(d)) = Len(sent[d]) + Len(sending[d]) /\ Len(sent[d]) \in Nat
      /\ \A i \in 1 .. Len(sent[d]) : All(d)[i] = sent[d][i]
  <2> DEFINE a == sent[d]
             b == sending[d]
  <2>1. a \in Seq(ShortFrame) /\ b \in Seq(ShortFrame) /\ All(d) = a \o b
    BY <1>1 DEF All
  <2> HIDE DEF a, b
  <2>2. Len(a \o b) = Len(a) + Len(b) /\ Len(a) \in Nat /\ \A i \in 1 .. Len(a) : (a \o b)[i] = a[i]
    BY <2>1
  <2> QED
    BY <2>1, <2>2 DEF a, b
<1>4. SentBy(d) = IF out[d] = << >> THEN All(d) ELSE sent[d]
  BY DEF SentBy, All
<1>5. sending[d] = << >> => All(d) = sent[d]
  BY <1>1, EmptySide DEF All
<1>6. Len(SentBy(d)) = Len(All(d)) \/ Len(SentBy(d)) = Len(sent[d])
  BY <1>4
<1>7. /\ Len(got[Peer(d)]) <= Len(SentBy(d))
      /\ \A i \in 1 .. Len(got[Peer(d)]) : got[Peer(d)][i] = All(d)[i]
  BY DEF Delivery, Prefix
<1>8. /\ Len(got[Peer(d)]) \in Nat /\ Len(All(d)) \in Nat
      /\ Len(SentBy(d)) <= Len(All(d)) /\ Len(sent[d]) <= Len(SentBy(d))
      /\ Len(SentBy(d)) \in Nat
      /\ Len(All(d)) <= Len(sent[d]) + 1
  <2> DEFINE a == Len(All(d))
             n == Len(sending[d])
             m == Len(sent[d])
             b == Len(SentBy(d))
  <2>1. n \in Nat /\ n <= 1 /\ m \in Nat /\ a = m + n /\ (b = a \/ b = m)
    BY <1>2, <1>3, <1>6
  <2> HIDE DEF a, n, m, b
  <2>2. a \in Nat /\ b \in Nat /\ b <= a /\ m <= b /\ a <= m + 1
    BY <2>1
  <2>3. Len(got[Peer(d)]) \in Nat
    BY <1>1
  <2> QED
    BY <2>2, <2>3 DEF a, m, b
<1>9. /\ sending[d] = << >> => SentBy(d) = sent[d]
      /\ out[d] = << >> => SentBy(d) = All(d)
  BY <1>2, <1>4, <1>5
<1> QED
  BY <1>3, <1>5, <1>7, <1>8, <1>9

LEMMA UnderWayFacts ==
  ASSUME NEW d, in[Peer(d)] \in Seq(Byte), pipe[d] \in Seq(Byte), out[d] \in Seq(Byte)
  PROVE  /\ pipe[d] \o out[d] \in Seq(Byte)
         /\ UnderWay(d) = in[Peer(d)] \o (pipe[d] \o out[d])
<1> DEFINE a == in[Peer(d)]
           b == pipe[d]
           c == out[d]
<1>1. a \in Seq(Byte) /\ b \in Seq(Byte) /\ c \in Seq(Byte) /\ UnderWay(d) = (a \o b) \o c
  BY DEF UnderWay
<1> HIDE DEF a, b, c
<1>2. b \o c \in Seq(Byte)
  BY <1>1
<1>3. (a \o b) \o c = a \o (b \o c)
  BY <1>1
<1> QED
  BY <1>1, <1>2, <1>3 DEF a, b, c

\* The length recv has read is the length of the next frame.
LEMMA HeaderRead ==
  ASSUME StreamTyped, OneAtATime, NEW d \in Ends, Delivery(d),
         ~shut[Peer(d)], HasHeader(Peer(d))
  PROVE  LET g == Len(got[Peer(d)])
         IN  g < Len(All(d)) /\ Declared(Peer(d)) = Len(All(d)[g + 1])
<1> DEFINE p == Peer(d)
           g == Len(got[p])
           u == UnderWay(d)
           r == pipe[d] \o out[d]
<1>1. /\ All(d) \in Seq(ShortFrame) /\ u \in Seq(Byte) /\ in[p] \in Seq(Byte)
      /\ pipe[d] \in Seq(Byte) /\ out[d] \in Seq(Byte)
  BY DirectionTyped
<1>2. g \in Nat /\ Len(All(d)) \in Nat /\ g <= Len(All(d))
  BY PrefixFacts
<1>3. PICK pos : Positions(pos, All(d)) /\ Carries(u, pos, All(d), g)
  BY DEF Delivery
<1>4. r \in Seq(Byte) /\ u = in[p] \o r
  BY <1>1, UnderWayFacts
<1>5. Len(in[p]) >= 4 /\ Len(in[p]) \in Nat
  BY <1>1 DEF HasHeader
<1> DEFINE x == in[p]
<1>6. x \in Seq(Byte) /\ Len(x) >= 4 /\ Len(x) \in Nat /\ u = x \o r
  BY <1>1, <1>4, <1>5
<1> HIDE DEF x, r, u, g, p
<1>7. Len(u) >= 4 /\ \A k \in 1 .. 4 : u[k] = x[k]
  BY <1>4, <1>6
<1>8. u # << >>
  BY <1>7
<1>9. /\ g < Len(All(d))
      /\ \A k \in 1 .. 4 : u[k] = W!LE(Len(All(d)[g + 1]), 4)[k]
  <2>1. g \in 0 .. Len(All(d))
    BY <1>2
  <2> QED
    BY <1>1, <1>3, <1>8, <2>1, CarriesFirst
<1>10. All(d)[g + 1] \in ShortFrame
  BY <1>1, <1>2, <1>9
<1> DEFINE h == SubSeq(x, 1, 4)
<1>12. Len(h) = 4 /\ \A k \in 1 .. 4 : h[k] = x[k]
  BY <1>6
<1> HIDE DEF h
<1>13. \A k \in 1 .. 4 : h[k] = W!LE(Len(All(d)[g + 1]), 4)[k]
  BY <1>7, <1>9, <1>12
<1>14. W!FromLE(h) = Len(All(d)[g + 1])
  BY <1>10, <1>12, <1>13, FrameLength
<1> QED
  BY <1>9, <1>14 DEF Declared, h, x, g, p

\* The frame recv returns is the next one.
LEMMA WholeRead ==
  ASSUME StreamTyped, OneAtATime, NEW d \in Ends, Delivery(d),
         ~shut[Peer(d)], Whole(Peer(d))
  PROVE  LET g == Len(got[Peer(d)])
         IN  /\ g < Len(SentBy(d))
             /\ Received(Peer(d)) = All(d)[g + 1]
             /\ Len(All(d)[g + 1]) <= MAX_FRAME
             /\ \A pos : /\ Positions(pos, All(d))
                         /\ Carries(UnderWay(d), pos, All(d), g)
                         => Carries(pipe[d] \o out[d], pos, All(d), g + 1)
<1> DEFINE p == Peer(d)
           g == Len(got[p])
           r == pipe[d] \o out[d]
           x == in[p]
           f == All(d)[g + 1]
<1>1. /\ All(d) \in Seq(ShortFrame) /\ UnderWay(d) \in Seq(Byte) /\ x \in Seq(Byte)
      /\ pipe[d] \in Seq(Byte) /\ out[d] \in Seq(Byte) /\ sending[d] \in Seq(ShortFrame)
  BY DirectionTyped
<1>2. g \in Nat /\ Len(All(d)) \in Nat
  BY PrefixFacts
<1>3. g < Len(All(d)) /\ Declared(p) = Len(f)
  BY HeaderRead DEF Whole
<1>4. Len(x) = 4 + Len(f) /\ Len(f) <= MAX_FRAME
  BY <1>3 DEF Whole
<1>5. r \in Seq(Byte) /\ UnderWay(d) = x \o r
  BY <1>1, UnderWayFacts
<1>6. ASSUME NEW pos, Positions(pos, All(d)), Carries(UnderWay(d), pos, All(d), g)
      PROVE  Carries(r, pos, All(d), g + 1) /\ SubSeq(x, 5, Len(x)) = f
  <2> HIDE DEF x, r, g
  <2>1. Carries(x \o r, pos, All(d), g)
    BY <1>5, <1>6
  <2> QED
    BY <1>1, <1>2, <1>3, <1>4, <1>5, <1>6, <2>1, CarriesOn
<1>7. PICK pos : Positions(pos, All(d)) /\ Carries(UnderWay(d), pos, All(d), g)
  BY DEF Delivery
<1>8. Received(p) = f
  BY <1>6, <1>7 DEF Received
<1>9. g < Len(SentBy(d))
  <2>1. CASE out[d] = << >>
    BY <1>3, <2>1, PrefixFacts
  <2>2. CASE out[d] # << >>
    <3>1. g + 1 # Len(All(d))
      <4>1. SUFFICES ASSUME g + 1 = Len(All(d))
                     PROVE  FALSE
        OBVIOUS
      <4>2. Len(r) = pos[Len(All(d))] - pos[g + 1]
        BY <1>6, <1>7 DEF Carries
      <4>3. pos[g + 1] \in Nat
        BY <1>2, <1>7, <4>1 DEF Positions
      <4>4. Len(r) = 0
        BY <4>1, <4>2, <4>3
      <4>5. Len(r) = Len(pipe[d]) + Len(out[d])
        BY <1>1
      <4> DEFINE lr == Len(r)
                 lp == Len(pipe[d])
                 lo == Len(out[d])
      <4>6. Len(pipe[d]) \in Nat /\ Len(out[d]) \in Nat /\ Len(out[d]) > 0
        BY <1>1, <2>2
      <4>7. lr = 0 /\ lr = lp + lo /\ lp \in Nat /\ lo \in Nat /\ lo > 0
        BY <4>4, <4>5, <4>6
      <4> HIDE DEF lr, lp, lo
      <4> QED
        BY <4>7
    <3> QED
      BY <1>2, <1>3, <3>1, PrefixFacts
  <2> QED
    BY <2>1, <2>2
<1> QED
  BY <1>4, <1>6, <1>8, <1>9

\* recv returns, and perhaps the end that received is dropped.
LEMMA DirectionReceives ==
  ASSUME StreamTyped, OneAtATime, NEW d \in Ends, Delivery(d),
         ~shut[Peer(d)], Whole(Peer(d)),
         sending'[d] = sending[d], out'[d] = out[d], sent'[d] = sent[d],
         in'[Peer(d)] = << >>, ~shut'[Peer(d)] => pipe'[d] = pipe[d],
         got'[Peer(d)] = Append(got[Peer(d)], Received(Peer(d))),
         counts'[d].frames_sent = counts[d].frames_sent,
         counts'[d].bytes_sent = counts[d].bytes_sent,
         counts'[Peer(d)].frames_recv = SaturatingAdd(counts[Peer(d)].frames_recv, 1),
         counts'[Peer(d)].bytes_recv =
           SaturatingAdd(counts[Peer(d)].bytes_recv, Len(Received(Peer(d))))
  PROVE  Delivery(d)' /\ All(d)' = All(d)
<1> DEFINE p == Peer(d)
           g == Len(got[p])
           r == pipe[d] \o out[d]
           f == All(d)[g + 1]
<1>1. /\ All(d) \in Seq(ShortFrame) /\ pipe[d] \in Seq(Byte) /\ out[d] \in Seq(Byte)
      /\ got[p] \in Seq(Frame)
  BY DirectionTyped
<1>2. /\ g \in Nat /\ Len(All(d)) \in Nat /\ Len(SentBy(d)) <= Len(All(d))
      /\ Len(SentBy(d)) \in Nat /\ \A i \in 1 .. g : got[p][i] = All(d)[i]
  BY PrefixFacts
<1>3. /\ g < Len(SentBy(d))
      /\ Received(p) = f
      /\ \A pos : Positions(pos, All(d)) /\ Carries(UnderWay(d), pos, All(d), g)
                  => Carries(r, pos, All(d), g + 1)
  BY WholeRead
<1>4. All(d)' = All(d) /\ SentBy(d)' = SentBy(d) /\ got'[p] = Append(got[p], f)
  BY <1>3 DEF All, SentBy
<1>5. f \in ShortFrame /\ f \in Frame /\ Len(f) \in Nat
  <2>1. f \in ShortFrame
    BY <1>1, <1>2, <1>3
  <2> QED
    BY <2>1 DEF ShortFrame, Frame
<1>6. /\ Len(got'[p]) = g + 1 /\ got'[p][g + 1] = f
      /\ \A i \in 1 .. g : got'[p][i] = got[p][i]
  BY <1>1, <1>4, <1>5
<1>7. Prefix(d)'
  <2>1. \A i \in 1 .. Len(got'[p]) : got'[p][i] = All(d)[i]
    <3>1. SUFFICES ASSUME NEW i \in 1 .. g + 1
                   PROVE  got'[p][i] = All(d)[i]
      BY <1>6
    <3>2. i \in 1 .. g \/ i = g + 1
      BY <1>2
    <3> QED
      BY <1>2, <1>6, <3>2
  <2> QED
    BY <1>2, <1>3, <1>4, <1>6, <2>1 DEF Prefix
<1>8. ~shut'[p] => UnderWay(d)' = r
  <2>1. ~shut'[p] => UnderWay(d)' = << >> \o pipe[d] \o out[d]
    BY DEF UnderWay
  <2> QED
    BY <1>1, <2>1, EmptySide
<1>9. PICK pos : /\ Positions(pos, All(d))
                 /\ Counted(d, pos)
                 /\ Carries(UnderWay(d), pos, All(d), g)
  BY DEF Delivery
<1>10. Counted(d, pos)'
  <2>1. /\ g + 1 \in 1 .. Len(All(d)) /\ g \in 0 .. Len(All(d)) /\ g + 1 \in 0 .. Len(All(d))
        /\ (g + 1) - 1 = g
    BY <1>2, <1>3
  <2>2. pos[g + 1] = pos[g] + 4 + Len(f) /\ pos[g] \in Nat /\ 4 * g <= pos[g]
    BY <1>9, <2>1 DEF Positions
  <2> DEFINE l == Len(f)
             x == pos[g]
             y == pos[g + 1]
             m == g
  <2>4. /\ l \in Nat /\ x \in Nat /\ m \in Nat /\ y = x + 4 + l /\ 4 * m <= x
    BY <1>2, <1>5, <2>2
  <2>5. /\ counts[p].frames_recv = Saturated(m) /\ counts[p].bytes_recv = Saturated(x - 4 * m)
        /\ counts'[d].frames_sent = Saturated(Len(sent'[d]))
        /\ counts'[d].bytes_sent = Saturated(pos[Len(sent'[d])] - 4 * Len(sent'[d]))
    BY <1>9 DEF Counted
  <2>6. /\ counts'[p].frames_recv = SaturatingAdd(Saturated(m), 1)
        /\ counts'[p].bytes_recv = SaturatingAdd(Saturated(x - 4 * m), l)
    BY <1>3, <2>5
  <2>7. Len(got'[p]) = m + 1
    BY <1>6
  <2> HIDE DEF l, x, y, m
  <2>8. x - 4 * m \in Nat /\ (x - 4 * m) + l = y - 4 * (m + 1)
    BY <2>4
  <2>9. SaturatingAdd(Saturated(m), 1) = Saturated(m + 1)
    BY <2>4, SaturatingSum
  <2>10. SaturatingAdd(Saturated(x - 4 * m), l) = Saturated((x - 4 * m) + l)
    BY <2>4, <2>8, SaturatingSum
  <2>11. /\ counts'[p].frames_recv = Saturated(m + 1)
         /\ counts'[p].bytes_recv = Saturated(y - 4 * (m + 1))
    BY <2>6, <2>8, <2>9, <2>10
  <2>12. y = pos[m + 1]
    BY DEF y, m
  <2> QED
    BY <2>5, <2>7, <2>11, <2>12 DEF Counted
<1>11. /\ Positions(pos, All(d)') /\ Counted(d, pos)'
       /\ ~shut'[p] => Carries(UnderWay(d)', pos, All(d)', Len(got'[p]))
  BY <1>3, <1>4, <1>6, <1>8, <1>9, <1>10
<1> QED
  BY <1>4, <1>7, <1>11 DEF Delivery

---------------------------------------------------------------------------
(***************************************************************************)
(* The types of what the operations of a stream change.                    *)
(***************************************************************************)
LEMMA StartSendTyped ==
  ASSUME StreamTyped, OneAtATime, NEW e \in Ends, NEW f \in ShortFrame, StartSend(e, f)
  PROVE  /\ sending' \in [Ends -> Seq(ShortFrame)] /\ out' \in [Ends -> Seq(Byte)]
         /\ OneAtATime'
         /\ sending[e] = << >> /\ sending'[e] = <<f>> /\ out'[e] = Encoded(f)
         /\ \A d \in Ends : d # e => sending'[d] = sending[d] /\ out'[d] = out[d]
<1>1. sending \in [Ends -> Seq(ShortFrame)] /\ out \in [Ends -> Seq(Byte)]
  BY DEF StreamTyped
<1>2. Encoded(f) \in Seq(Byte) /\ <<f>> \in Seq(ShortFrame) /\ Len(<<f>>) = 1 /\ <<f>> # << >>
  BY EncodedFacts, OneFrame
<1>3. /\ sending[e] = << >> /\ sending' = [sending EXCEPT ![e] = <<f>>]
      /\ out' = [out EXCEPT ![e] = Encoded(f)]
  BY DEF StartSend, Encoded
<1>4. /\ sending' \in [Ends -> Seq(ShortFrame)] /\ out' \in [Ends -> Seq(Byte)]
      /\ sending'[e] = <<f>> /\ out'[e] = Encoded(f)
      /\ \A d \in Ends : d # e => sending'[d] = sending[d] /\ out'[d] = out[d]
  BY <1>1, <1>2, <1>3
<1>5. ASSUME NEW d \in Ends
      PROVE  Len(sending'[d]) <= 1 /\ (sending'[d] = << >> => out'[d] = << >>)
  <2>1. CASE d = e
    <3>1. sending'[d] = <<f>>
      BY <1>4, <2>1
    <3>2. Len(sending'[d]) = 1 /\ sending'[d] # << >>
      BY <1>2, <3>1
    <3> QED
      BY <3>2
  <2>2. CASE d # e
    <3>1. sending'[d] = sending[d] /\ out'[d] = out[d]
      BY <1>4, <2>2
    <3> QED
      BY <3>1 DEF OneAtATime
  <2> QED
    BY <2>1, <2>2
<1> QED
  BY <1>3, <1>4, <1>5 DEF OneAtATime

LEMMA SaturatingNat ==
  ASSUME NEW a \in Nat, NEW b \in Nat
  PROVE  SaturatingAdd(a, b) \in Nat
  BY StreamAssumption DEF SaturatingAdd

LEMMA SendOkTyped ==
  ASSUME StreamTyped, OneAtATime, NEW e \in Ends, SendOk(e), UNCHANGED out
  PROVE  /\ sending' \in [Ends -> Seq(ShortFrame)] /\ trace' \in [Ends -> Seq(Frame)]
         /\ counts' \in [Ends -> Counters] /\ sent' \in [Ends -> Seq(ShortFrame)]
         /\ OneAtATime'
         /\ sending[e] # << >> /\ out[e] = << >> /\ sending'[e] = << >>
         /\ sent'[e] = Append(sent[e], Head(sending[e]))
         /\ trace'[e] = Append(trace[e], Head(sending[e]))
         /\ counts'[e].frames_sent = SaturatingAdd(counts[e].frames_sent, 1)
         /\ counts'[e].bytes_sent = SaturatingAdd(counts[e].bytes_sent, Len(Head(sending[e])))
         /\ counts'[e].frames_recv = counts[e].frames_recv
         /\ counts'[e].bytes_recv = counts[e].bytes_recv
         /\ \A d \in Ends : d # e => /\ sending'[d] = sending[d] /\ sent'[d] = sent[d]
                                     /\ trace'[d] = trace[d] /\ counts'[d] = counts[d]
<1> DEFINE f == Head(sending[e])
<1>1. /\ sending \in [Ends -> Seq(ShortFrame)] /\ trace \in [Ends -> Seq(Frame)]
      /\ counts \in [Ends -> Counters] /\ sent \in [Ends -> Seq(ShortFrame)]
  BY DEF StreamTyped
<1>2. sending[e] # << >> /\ out[e] = << >> /\ out' = out
  BY DEF SendOk
<1>3. f \in ShortFrame /\ f \in Frame /\ Len(f) \in Nat
  <2>1. f \in ShortFrame
    BY <1>2, SendingOne
  <2> QED
    BY <2>1 DEF ShortFrame, Frame
<1>4. /\ counts[e] \in Counters
      /\ SaturatingAdd(counts[e].frames_sent, 1) \in Nat
      /\ SaturatingAdd(counts[e].bytes_sent, Len(f)) \in Nat
  BY <1>1, <1>3, SaturatingNat DEF Counters
<1>5. /\ sending' = [sending EXCEPT ![e] = << >>] /\ trace' = [trace EXCEPT ![e] = Append(@, f)]
      /\ sent' = [sent EXCEPT ![e] = Append(@, f)]
      /\ counts' = [counts EXCEPT ![e].frames_sent = SaturatingAdd(@, 1),
                                  ![e].bytes_sent = SaturatingAdd(@, Len(f))]
  BY DEF SendOk
<1> HIDE DEF f
<1>6. /\ counts' \in [Ends -> Counters]
      /\ counts'[e].frames_sent = SaturatingAdd(counts[e].frames_sent, 1)
      /\ counts'[e].bytes_sent = SaturatingAdd(counts[e].bytes_sent, Len(f))
      /\ counts'[e].frames_recv = counts[e].frames_recv
      /\ counts'[e].bytes_recv = counts[e].bytes_recv
      /\ \A d \in Ends : d # e => counts'[d] = counts[d]
  <2>1. counts' = [counts EXCEPT ![e] =
                     [counts[e] EXCEPT !.frames_sent = SaturatingAdd(counts[e].frames_sent, 1),
                                       !.bytes_sent = SaturatingAdd(counts[e].bytes_sent, Len(f))]]
    BY <1>1, <1>5 DEF Counters
  <2> DEFINE x == SaturatingAdd(counts[e].frames_sent, 1)
             y == SaturatingAdd(counts[e].bytes_sent, Len(f))
             r == [counts[e] EXCEPT !.frames_sent = x, !.bytes_sent = y]
  <2>2. x \in Nat /\ y \in Nat
    BY <1>4
  <2> HIDE DEF x, y
  <2>3. /\ r \in Counters /\ r.frames_sent = x /\ r.bytes_sent = y
        /\ r.frames_recv = counts[e].frames_recv /\ r.bytes_recv = counts[e].bytes_recv
    BY <1>4, <2>2 DEF Counters
  <2> HIDE DEF r
  <2>4. counts' = [counts EXCEPT ![e] = r]
    BY <2>1 DEF r, x, y
  <2> QED
    BY <1>1, <2>3, <2>4 DEF x, y
<1>7. /\ sending' \in [Ends -> Seq(ShortFrame)] /\ sending'[e] = << >>
      /\ \A d \in Ends : d # e => sending'[d] = sending[d]
  BY <1>1, <1>5
<1>8. /\ trace' \in [Ends -> Seq(Frame)] /\ trace'[e] = Append(trace[e], f)
      /\ \A d \in Ends : d # e => trace'[d] = trace[d]
  BY <1>1, <1>3, <1>5
<1>9. /\ sent' \in [Ends -> Seq(ShortFrame)] /\ sent'[e] = Append(sent[e], f)
      /\ \A d \in Ends : d # e => sent'[d] = sent[d]
  BY <1>1, <1>3, <1>5
<1>10. OneAtATime'
  BY <1>2, <1>7 DEF OneAtATime
<1> QED
  BY <1>2, <1>6, <1>7, <1>8, <1>9, <1>10 DEF f

LEMMA RecvOkTyped ==
  ASSUME StreamTyped, NEW e \in Ends, RecvOk(e)
  PROVE  /\ in' \in [Ends -> Seq(Byte)] /\ trace' \in [Ends -> Seq(Frame)]
         /\ counts' \in [Ends -> Counters] /\ got' \in [Ends -> Seq(Frame)] /\ sent' = sent
         /\ Received(e) \in Frame /\ Whole(e) /\ in'[e] = << >>
         /\ got'[e] = Append(got[e], Received(e))
         /\ trace'[e] = Append(trace[e], Received(e))
         /\ counts'[e].frames_recv = SaturatingAdd(counts[e].frames_recv, 1)
         /\ counts'[e].bytes_recv = SaturatingAdd(counts[e].bytes_recv, Len(Received(e)))
         /\ counts'[e].frames_sent = counts[e].frames_sent
         /\ counts'[e].bytes_sent = counts[e].bytes_sent
         /\ \A d \in Ends : d # e => /\ in'[d] = in[d] /\ got'[d] = got[d]
                                     /\ trace'[d] = trace[d] /\ counts'[d] = counts[d]
<1> DEFINE f == Received(e)
<1>1. /\ in \in [Ends -> Seq(Byte)] /\ trace \in [Ends -> Seq(Frame)]
      /\ counts \in [Ends -> Counters] /\ got \in [Ends -> Seq(Frame)]
  BY DEF StreamTyped
<1>2. Whole(e) /\ sent' = sent
  BY DEF RecvOk
<1>3. f \in Frame /\ Len(f) \in Nat
  <2>1. in[e] \in Seq(Byte) /\ Len(in[e]) \in Nat /\ Len(in[e]) >= 4
    BY <1>1, <1>2 DEF Whole, HasHeader
  <2> DEFINE x == in[e]
  <2>2. x \in Seq(Byte) /\ Len(x) \in Nat /\ f = SubSeq(x, 5, Len(x))
    BY <2>1 DEF Received
  <2> HIDE DEF x
  <2>3. SubSeq(x, 5, Len(x)) \in Seq(Byte)
    BY <2>2
  <2>4. f \in Seq(Byte)
    BY <2>2, <2>3
  <2> HIDE DEF f
  <2> QED
    BY <2>4 DEF Frame
<1>4. /\ counts[e] \in Counters
      /\ SaturatingAdd(counts[e].frames_recv, 1) \in Nat
      /\ SaturatingAdd(counts[e].bytes_recv, Len(f)) \in Nat
  BY <1>1, <1>3, SaturatingNat DEF Counters
<1>5. /\ in' = [in EXCEPT ![e] = << >>] /\ trace' = [trace EXCEPT ![e] = Append(@, f)]
      /\ got' = [got EXCEPT ![e] = Append(@, f)]
      /\ counts' = [counts EXCEPT ![e].frames_recv = SaturatingAdd(@, 1),
                                  ![e].bytes_recv = SaturatingAdd(@, Len(f))]
  BY DEF RecvOk
<1> HIDE DEF f
<1>6. /\ counts' \in [Ends -> Counters]
      /\ counts'[e].frames_recv = SaturatingAdd(counts[e].frames_recv, 1)
      /\ counts'[e].bytes_recv = SaturatingAdd(counts[e].bytes_recv, Len(f))
      /\ counts'[e].frames_sent = counts[e].frames_sent
      /\ counts'[e].bytes_sent = counts[e].bytes_sent
      /\ \A d \in Ends : d # e => counts'[d] = counts[d]
  <2>1. counts' = [counts EXCEPT ![e] =
                     [counts[e] EXCEPT !.frames_recv = SaturatingAdd(counts[e].frames_recv, 1),
                                       !.bytes_recv = SaturatingAdd(counts[e].bytes_recv, Len(f))]]
    BY <1>1, <1>5 DEF Counters
  <2> DEFINE x == SaturatingAdd(counts[e].frames_recv, 1)
             y == SaturatingAdd(counts[e].bytes_recv, Len(f))
             r == [counts[e] EXCEPT !.frames_recv = x, !.bytes_recv = y]
  <2>2. x \in Nat /\ y \in Nat
    BY <1>4
  <2> HIDE DEF x, y
  <2>3. /\ r \in Counters /\ r.frames_recv = x /\ r.bytes_recv = y
        /\ r.frames_sent = counts[e].frames_sent /\ r.bytes_sent = counts[e].bytes_sent
    BY <1>4, <2>2 DEF Counters
  <2> HIDE DEF r
  <2>4. counts' = [counts EXCEPT ![e] = r]
    BY <2>1 DEF r, x, y
  <2> QED
    BY <1>1, <2>3, <2>4 DEF x, y
<1>7. /\ in' \in [Ends -> Seq(Byte)] /\ in'[e] = << >>
      /\ \A d \in Ends : d # e => in'[d] = in[d]
  BY <1>1, <1>5
<1>8. /\ trace' \in [Ends -> Seq(Frame)] /\ trace'[e] = Append(trace[e], f)
      /\ \A d \in Ends : d # e => trace'[d] = trace[d]
  BY <1>1, <1>3, <1>5
<1>9. /\ got' \in [Ends -> Seq(Frame)] /\ got'[e] = Append(got[e], f)
      /\ \A d \in Ends : d # e => got'[d] = got[d]
  BY <1>1, <1>3, <1>5
<1> QED
  BY <1>2, <1>3, <1>6, <1>7, <1>8, <1>9 DEF f

LEMMA DropTyped ==
  ASSUME StreamTyped, NEW e \in Ends, Drop(e)
  PROVE  /\ shut' \in [Ends -> BOOLEAN] /\ in' \in [Ends -> Seq(Byte)]
         /\ pipe' \in [Ends -> Seq(Byte)]
         /\ shut'[e] /\ in'[e] = << >>
         /\ ~shut[Peer(e)] => pipe' = pipe
         /\ \A d \in Ends : d # e => /\ shut'[d] = shut[d] /\ in'[d] = in[d]
                                     /\ d # Peer(e) => pipe'[d] = pipe[d]
<1>1. /\ shut \in [Ends -> BOOLEAN] /\ in \in [Ends -> Seq(Byte)] /\ pipe \in [Ends -> Seq(Byte)]
      /\ Peer(e) \in Ends /\ Peer(e) # e
  BY PeerFacts DEF StreamTyped
<1>2. /\ shut' = [shut EXCEPT ![e] = TRUE] /\ in' = [in EXCEPT ![e] = << >>]
      /\ \/ shut[Peer(e)] /\ pipe' = [pipe EXCEPT ![e] = << >>, ![Peer(e)] = << >>]
         \/ pipe' = pipe
      /\ ~shut[Peer(e)] => pipe' = pipe
  BY DEF Drop
<1>3. /\ shut' \in [Ends -> BOOLEAN] /\ shut'[e]
      /\ \A d \in Ends : d # e => shut'[d] = shut[d]
  BY <1>1, <1>2
<1>4. << >> \in Seq(Byte)
  OBVIOUS
<1>5. /\ in' \in [Ends -> Seq(Byte)] /\ in'[e] = << >>
      /\ \A d \in Ends : d # e => in'[d] = in[d]
  BY <1>1, <1>2, <1>4
<1>6. /\ pipe' \in [Ends -> Seq(Byte)]
      /\ \A d \in Ends : d # e /\ d # Peer(e) => pipe'[d] = pipe[d]
  BY <1>1, <1>2, <1>4
<1> QED
  BY <1>2, <1>3, <1>5, <1>6

\* A byte of a send goes into the buffer, or into the void.
LEMMA WriteTyped ==
  ASSUME StreamTyped, OneAtATime, NEW e \in Ends, Write(e)
  PROVE  /\ StreamTyped' /\ OneAtATime'
         /\ UNCHANGED <<sending, in, shut, bookVars>>
         /\ out[e] # << >>
         /\ ~shut[Peer(e)] => UnderWay(e)' = UnderWay(e)
         /\ \A d \in Ends : d # e => out'[d] = out[d] /\ pipe'[d] = pipe[d]
<1>1. /\ UNCHANGED <<sending, in, shut, bookVars>> /\ out[e] # << >>
      /\ out' = [out EXCEPT ![e] = Tail(@)]
      /\ \/ pipe' = [pipe EXCEPT ![e] = Append(@, Head(out[e]))]
         \/ shut[Peer(e)] /\ pipe' = pipe
  BY DEF Write
<1>2. out \in [Ends -> Seq(Byte)] /\ pipe \in [Ends -> Seq(Byte)] /\ in[Peer(e)] \in Seq(Byte)
  BY PeerFacts DEF StreamTyped
<1>3. Head(out[e]) \in Byte /\ Tail(out[e]) \in Seq(Byte) /\ Append(pipe[e], Head(out[e])) \in Seq(Byte)
  <2>1. out[e] \in Seq(Byte) /\ pipe[e] \in Seq(Byte)
    BY <1>2
  <2>2. Head(out[e]) \in Byte /\ Tail(out[e]) \in Seq(Byte)
    BY <1>1, <2>1, HeadTail
  <2> QED
    BY <2>1, <2>2
<1>4. out' \in [Ends -> Seq(Byte)] /\ pipe' \in [Ends -> Seq(Byte)]
      /\ \A d \in Ends : d # e => out'[d] = out[d] /\ pipe'[d] = pipe[d]
  BY <1>1, <1>2, <1>3
<1>5. StreamTyped'
  BY <1>1, <1>4 DEF StreamTyped, bookVars
<1>6. sending[e] # << >>
  BY <1>1 DEF OneAtATime
<1>7. OneAtATime'
  BY <1>1, <1>4, <1>6 DEF OneAtATime
<1>8. ASSUME ~shut[Peer(e)]
      PROVE  UnderWay(e)' = UnderWay(e)
  <2> DEFINE a == in[Peer(e)]
             b == pipe[e]
             c == out[e]
  <2>1. /\ a \in Seq(Byte) /\ b \in Seq(Byte) /\ c \in Seq(Byte) /\ c # << >>
        /\ in'[Peer(e)] = a /\ pipe'[e] = Append(b, Head(c)) /\ out'[e] = Tail(c)
    BY <1>1, <1>2, <1>8
  <2>2. UnderWay(e) = (a \o b) \o c /\ UnderWay(e)' = (a \o Append(b, Head(c))) \o Tail(c)
    BY <2>1 DEF UnderWay
  <2> DEFINE x == Append(b, Head(c))
             y == Tail(c)
  <2>3. x \in Seq(Byte) /\ y \in Seq(Byte)
    BY <1>3
  <2>4. x \o y = b \o c
    BY <2>1, Moved
  <2> HIDE DEF a, b, c, x, y
  <2>5. (a \o x) \o y = a \o (x \o y)
    BY <2>1, <2>3
  <2>6. (a \o b) \o c = a \o (b \o c)
    BY <2>1
  <2> QED
    BY <2>2, <2>4, <2>5, <2>6 DEF x, y
<1> QED
  BY <1>1, <1>4, <1>5, <1>7, <1>8

\* A byte goes from the buffer into a frame.
LEMMA ReadTyped ==
  ASSUME StreamTyped, OneAtATime, NEW e \in Ends, Read(e)
  PROVE  /\ StreamTyped' /\ OneAtATime'
         /\ UNCHANGED <<sending, out, shut, bookVars>>
         /\ UnderWay(Peer(e))' = UnderWay(Peer(e))
         /\ \A d \in Ends : d # Peer(e) => pipe'[d] = pipe[d] /\ in'[Peer(d)] = in[Peer(d)]
<1> DEFINE d == Peer(e)
<1>1. /\ UNCHANGED <<sending, out, shut, bookVars>> /\ pipe[d] # << >>
      /\ in' = [in EXCEPT ![e] = Append(@, Head(pipe[d]))]
      /\ pipe' = [pipe EXCEPT ![d] = Tail(@)]
  BY DEF Read
<1>2. /\ out \in [Ends -> Seq(Byte)] /\ pipe \in [Ends -> Seq(Byte)] /\ in \in [Ends -> Seq(Byte)]
      /\ d \in Ends /\ Peer(d) = e
  BY PeerFacts DEF StreamTyped
<1> HIDE DEF d
<1>3. Head(pipe[d]) \in Byte /\ Tail(pipe[d]) \in Seq(Byte) /\ Append(in[e], Head(pipe[d])) \in Seq(Byte)
  <2>1. pipe[d] \in Seq(Byte) /\ in[e] \in Seq(Byte)
    BY <1>2
  <2>2. Head(pipe[d]) \in Byte /\ Tail(pipe[d]) \in Seq(Byte)
    BY <1>1, <2>1, HeadTail
  <2> QED
    BY <2>1, <2>2
<1>4. /\ in' \in [Ends -> Seq(Byte)] /\ pipe' \in [Ends -> Seq(Byte)]
      /\ \A x \in Ends : x # d => pipe'[x] = pipe[x]
      /\ \A x \in Ends : x # e => in'[x] = in[x]
  BY <1>1, <1>2, <1>3
<1>5. StreamTyped'
  BY <1>1, <1>4 DEF StreamTyped, bookVars
<1>6. OneAtATime'
  BY <1>1 DEF OneAtATime
<1>7. UnderWay(d)' = UnderWay(d)
  <2> DEFINE a == in[e]
             b == pipe[d]
             c == out[d]
             a1 == Append(a, Head(b))
             b1 == Tail(b)
  <2>1. /\ a \in Seq(Byte) /\ b \in Seq(Byte) /\ c \in Seq(Byte) /\ b # << >>
        /\ in'[e] = a1 /\ pipe'[d] = b1 /\ out'[d] = c
    BY <1>1, <1>2
  <2>2. UnderWay(d) = (a \o b) \o c /\ UnderWay(d)' = (a1 \o b1) \o c
    BY <1>2, <2>1 DEF UnderWay
  <2>3. a1 \o b1 = a \o b
    BY <2>1, Moved
  <2> HIDE DEF a, b, c, a1, b1
  <2> QED
    BY <2>2, <2>3
<1>8. \A x \in Ends : x # d => in'[Peer(x)] = in[Peer(x)]
  <2>1. \A x \in Ends : x # d => Peer(x) \in Ends /\ Peer(x) # e
    BY PeerFacts DEF d
  <2> QED
    BY <1>4, <2>1
<1> QED
  BY <1>1, <1>4, <1>5, <1>6, <1>7, <1>8 DEF d

---------------------------------------------------------------------------
(***************************************************************************)
(* Every direction, when an operation is applied to one end.               *)
(***************************************************************************)
LEMMA OtherEnds ==
  ASSUME NEW e \in Ends, NEW d \in Ends
  PROVE  /\ d # e => Peer(d) # Peer(e)
         /\ d # Peer(e) => Peer(d) # e
         /\ Peer(d) \in Ends /\ Peer(e) \in Ends /\ Peer(e) # e /\ Peer(Peer(e)) = e
  BY DEF Ends, Peer

LEMMA StreamsIdle ==
  ASSUME UNCHANGED streamVars, NEW d \in Ends, Delivery(d)
  PROVE  Delivery(d)' /\ All(d)' = All(d)
<1>1. Rest(d)' = Rest(d) /\ sending'[d] = sending[d] /\ out'[d] = out[d]
  BY DEF streamVars, bookVars, Rest, Tally
<1> QED
  BY <1>1, Untouched

LEMMA WriteDelivers ==
  ASSUME StreamTyped, OneAtATime, NEW e \in Ends, Write(e), NEW d \in Ends, Delivery(d)
  PROVE  Delivery(d)' /\ All(d)' = All(d)
<1>1. /\ UNCHANGED <<sending, in, shut, bookVars>> /\ out[e] # << >>
      /\ ~shut[Peer(e)] => UnderWay(e)' = UnderWay(e)
      /\ \A x \in Ends : x # e => out'[x] = out[x] /\ pipe'[x] = pipe[x]
  BY WriteTyped
<1>2. CASE d # e
  <2>1. Rest(d)' = Rest(d) /\ sending'[d] = sending[d] /\ out'[d] = out[d]
    BY <1>1, <1>2 DEF bookVars, Rest, Tally
  <2> QED
    BY <2>1, Untouched
<1>3. CASE d = e
  <2>1. /\ All(d)' = All(d) /\ Tally(d)' = Tally(d) /\ sent'[d] = sent[d]
        /\ got'[Peer(d)] = got[Peer(d)] /\ shut'[Peer(d)] = shut[Peer(d)]
    BY <1>1 DEF bookVars, All, Tally
  <2>2. SentBy(d) = sent[d] /\ (SentBy(d)' = sent[d] \/ SentBy(d)' = All(d))
    BY <1>1, <1>3 DEF bookVars, SentBy, All
  <2>3. /\ Len(got[Peer(d)]) \in Nat /\ Len(All(d)) \in Nat /\ Len(sent[d]) \in Nat
        /\ Len(sent[d]) <= Len(SentBy(d)) /\ Len(SentBy(d)) <= Len(All(d))
    BY PrefixFacts
  <2>4. /\ Len(SentBy(d)) <= Len(SentBy(d)') /\ Len(SentBy(d)) \in Nat /\ Len(SentBy(d)') \in Nat
    BY <2>2, <2>3
  <2> QED
    BY <1>1, <1>3, <2>1, <2>3, <2>4, DirectionMoves
<1> QED
  BY <1>2, <1>3

LEMMA ReadDelivers ==
  ASSUME StreamTyped, OneAtATime, NEW e \in Ends, Read(e), NEW d \in Ends, Delivery(d)
  PROVE  Delivery(d)' /\ All(d)' = All(d)
<1>1. /\ UNCHANGED <<sending, out, shut, bookVars>>
      /\ UnderWay(Peer(e))' = UnderWay(Peer(e))
      /\ \A x \in Ends : x # Peer(e) => pipe'[x] = pipe[x] /\ in'[Peer(x)] = in[Peer(x)]
  BY ReadTyped
<1>2. CASE d # Peer(e)
  <2>1. Rest(d)' = Rest(d) /\ sending'[d] = sending[d] /\ out'[d] = out[d]
    BY <1>1, <1>2 DEF bookVars, Rest, Tally
  <2> QED
    BY <2>1, Untouched
<1>3. CASE d = Peer(e)
  <2>1. /\ All(d)' = All(d) /\ Tally(d)' = Tally(d) /\ sent'[d] = sent[d]
        /\ got'[Peer(d)] = got[Peer(d)] /\ shut'[Peer(d)] = shut[Peer(d)]
        /\ SentBy(d)' = SentBy(d)
    BY <1>1 DEF bookVars, All, Tally, SentBy
  <2>2. Len(got[Peer(d)]) \in Nat /\ Len(SentBy(d)) \in Nat
    BY PrefixFacts
  <2>3. Len(SentBy(d)) <= Len(SentBy(d)') /\ Len(SentBy(d)') \in Nat
    BY <2>1, <2>2
  <2> QED
    BY <1>1, <1>3, <2>1, <2>2, <2>3, DirectionMoves
<1> QED
  BY <1>2, <1>3

LEMMA StartSendDelivers ==
  ASSUME StreamTyped, OneAtATime, NEW e \in Ends, NEW f \in ShortFrame, StartSend(e, f),
         UNCHANGED <<pipe, in, shut, bookVars>>, NEW d \in Ends, Delivery(d)
  PROVE  Delivery(d)' /\ All(d)' = IF d = e THEN Append(All(d), f) ELSE All(d)
<1>1. /\ sending[e] = << >> /\ sending'[e] = <<f>> /\ out'[e] = Encoded(f)
      /\ \A x \in Ends : x # e => sending'[x] = sending[x] /\ out'[x] = out[x]
  BY StartSendTyped
<1>2. Rest(d)' = Rest(d)
  BY DEF Rest, Tally, bookVars
<1>3. CASE d = e
  BY <1>1, <1>2, <1>3, DirectionStarts
<1>4. CASE d # e
  BY <1>1, <1>2, <1>4, Untouched
<1> QED
  BY <1>3, <1>4

LEMMA SendOkDelivers ==
  ASSUME StreamTyped, OneAtATime, NEW e \in Ends, SendOk(e),
         UNCHANGED <<out, pipe, in, shut>>, NEW d \in Ends, Delivery(d)
  PROVE  Delivery(d)' /\ All(d)' = All(d)
<1>1. /\ sending[e] # << >> /\ out[e] = << >> /\ sending'[e] = << >>
      /\ sent'[e] = Append(sent[e], Head(sending[e]))
      /\ counts'[e].frames_sent = SaturatingAdd(counts[e].frames_sent, 1)
      /\ counts'[e].bytes_sent = SaturatingAdd(counts[e].bytes_sent, Len(Head(sending[e])))
      /\ counts'[e].frames_recv = counts[e].frames_recv
      /\ counts'[e].bytes_recv = counts[e].bytes_recv
      /\ \A x \in Ends : x # e => /\ sending'[x] = sending[x] /\ sent'[x] = sent[x]
                                  /\ trace'[x] = trace[x] /\ counts'[x] = counts[x]
  BY SendOkTyped
<1>2. got' = got
  BY DEF SendOk
<1>3. CASE d = e
  <2>1. counts'[Peer(d)] = counts[Peer(d)]
    BY <1>1, <1>3, OtherEnds
  <2> QED
    BY <1>1, <1>2, <1>3, <2>1, DirectionSends
<1>4. CASE d # e
  <2>1. /\ counts'[Peer(d)].frames_recv = counts[Peer(d)].frames_recv
        /\ counts'[Peer(d)].bytes_recv = counts[Peer(d)].bytes_recv
    BY <1>1, OtherEnds
  <2>2. Rest(d)' = Rest(d) /\ sending'[d] = sending[d] /\ out'[d] = out[d]
    BY <1>1, <1>2, <1>4, <2>1 DEF Rest, Tally
  <2> QED
    BY <2>2, Untouched
<1> QED
  BY <1>3, <1>4

\* recv returns; a new send begins, or the end is dropped, or neither.
LEMMA RecvOkDelivers ==
  ASSUME StreamTyped, OneAtATime, NEW e \in Ends, RecvOk(e), ~shut[e],
         NEW d \in Ends, d # e, Delivery(d),
         sending'[d] = sending[d], out'[d] = out[d],
         \/ shut'[Peer(d)] = shut[Peer(d)] /\ pipe'[d] = pipe[d]
         \/ shut'[e] /\ d = Peer(e)
  PROVE  Delivery(d)' /\ All(d)' = All(d)
<1>1. /\ sent' = sent /\ Whole(e) /\ in'[e] = << >>
      /\ got'[e] = Append(got[e], Received(e))
      /\ counts'[e].frames_recv = SaturatingAdd(counts[e].frames_recv, 1)
      /\ counts'[e].bytes_recv = SaturatingAdd(counts[e].bytes_recv, Len(Received(e)))
      /\ \A x \in Ends : x # e => in'[x] = in[x] /\ got'[x] = got[x] /\ counts'[x] = counts[x]
  BY RecvOkTyped
<1>2. CASE d = Peer(e)
  <2>1. Peer(d) = e /\ counts'[d] = counts[d]
    BY <1>1, <1>2, OtherEnds
  <2>2. ~shut'[Peer(d)] => pipe'[d] = pipe[d]
    BY <2>1
  <2> QED
    BY <1>1, <2>1, <2>2, DirectionReceives
<1>3. CASE d # Peer(e)
  <2>1. Peer(d) \in Ends /\ Peer(d) # e
    BY <1>3, OtherEnds
  <2>2. Rest(d)' = Rest(d)
    BY <1>1, <1>3, <2>1 DEF Rest, Tally
  <2> QED
    BY <2>2, Untouched
<1> QED
  BY <1>2, <1>3

\* What recv changes at its end leaves the other direction alone.
LEMMA RecvOkRest ==
  ASSUME StreamTyped, NEW e \in Ends, RecvOk(e)
  PROVE  /\ in'[Peer(e)] = in[Peer(e)] /\ got'[Peer(e)] = got[Peer(e)] /\ sent'[e] = sent[e]
         /\ Tally(e)' = Tally(e)
<1>1. /\ sent' = sent
      /\ counts'[e].frames_sent = counts[e].frames_sent
      /\ counts'[e].bytes_sent = counts[e].bytes_sent
      /\ \A x \in Ends : x # e => in'[x] = in[x] /\ got'[x] = got[x] /\ counts'[x] = counts[x]
  BY RecvOkTyped
<1>2. Peer(e) \in Ends /\ Peer(e) # e
  BY OtherEnds
<1> QED
  BY <1>1, <1>2 DEF Tally

LEMMA DropDelivers ==
  ASSUME StreamTyped, OneAtATime, NEW e \in Ends, Drop(e), NEW d \in Ends, Delivery(d),
         sending'[d] = sending[d], out'[d] = out[d], sent'[d] = sent[d],
         got'[Peer(d)] = got[Peer(d)], Tally(d)' = Tally(d)
  PROVE  Delivery(d)' /\ All(d)' = All(d)
<1>1. /\ shut'[e]
      /\ ~shut[Peer(e)] => pipe' = pipe
      /\ \A x \in Ends : x # e => /\ shut'[x] = shut[x] /\ in'[x] = in[x]
                                  /\ x # Peer(e) => pipe'[x] = pipe[x]
  BY DropTyped
<1>2. All(d)' = All(d) /\ SentBy(d)' = SentBy(d)
  BY DEF All, SentBy
<1>3. Len(got[Peer(d)]) \in Nat /\ Len(SentBy(d)) \in Nat
  BY PrefixFacts
<1>4. Len(SentBy(d)) <= Len(SentBy(d)') /\ Len(SentBy(d)') \in Nat
  BY <1>2, <1>3
<1>5. ASSUME ~shut'[Peer(d)]
      PROVE  ~shut[Peer(d)] /\ UnderWay(d)' = UnderWay(d)
  <2>1. Peer(d) # e /\ d # Peer(e) /\ Peer(d) \in Ends
    BY <1>1, <1>5, OtherEnds
  <2>2. shut'[Peer(d)] = shut[Peer(d)] /\ in'[Peer(d)] = in[Peer(d)]
    BY <1>1, <2>1
  <2>3. pipe'[d] = pipe[d]
    BY <1>1, <1>5, <2>1, <2>2
  <2> QED
    BY <1>5, <2>2, <2>3 DEF UnderWay
<1> QED
  BY <1>2, <1>3, <1>4, <1>5, DirectionMoves

---------------------------------------------------------------------------
(***************************************************************************)
(* The parts of the invariant that a step leaves alone.                    *)
(***************************************************************************)
LEMMA Names ==
  /\ Recorder \in Real /\ Replayer \in Real /\ Real \subseteq Clients
  /\ Recorder \in Clients /\ Replayer \in Clients /\ Stranger \in Clients
  /\ Stranger \notin Real /\ Recorder # Replayer /\ None \notin Clients
  BY ClientsAssumption DEF Real

LEMMA EndNames ==
  /\ \A c \in Clients : /\ Client(c) \in Ends /\ Srv(c) \in Ends /\ Client(c)[1] = c /\ Srv(c)[1] = c
                        /\ Peer(Client(c)) = Srv(c) /\ Peer(Srv(c)) = Client(c)
                        /\ Client(c) \in ClientEnd /\ Srv(c) \in ServerEnd
  /\ \A b, c \in Clients : /\ Client(b) # Srv(c)
                           /\ b # c => Client(b) # Client(c) /\ Srv(b) # Srv(c)
  /\ \A e \in ClientEnd : e[1] \in Clients /\ e = Client(e[1])
  /\ \A e \in ServerEnd : e[1] \in Clients /\ e = Srv(e[1])
  BY DEF Client, Srv, Ends, Peer, ClientEnd, ServerEnd

LEMMA DirectionNames ==
  /\ \A d \in Directions : d \in Ends /\ \E c \in Real : d = Client(c) \/ d = Srv(c)
  /\ \A c \in Real : Client(c) \in Directions /\ Srv(c) \in Directions
<1>1. Real \subseteq Clients
  BY Names
<1> QED
  BY <1>1 DEF Directions, Real, Client, Srv, Ends

\* A client goes on sending, if anything; the server does not answer it.
LEMMA TalkKept ==
  ASSUME NEW c \in Clients, Talk(c),
         got'[Srv(c)] = got[Srv(c)], All(Srv(c))' = All(Srv(c)),
         shut'[Srv(c)] = shut[Srv(c)],
         \/ ~shut[Srv(c)]
         \/ sent'[Srv(c)] = sent[Srv(c)] /\ sending'[Srv(c)] = sending[Srv(c)],
         \/ shut'[Client(c)]
         \/ /\ ~shut[Client(c)]
            /\ Len(All(Client(c))) \in Nat /\ Len(All(Client(c))') \in Nat
            /\ Len(sent[Srv(c)]) \in Nat
            /\ Len(All(Client(c))) <= Len(All(Client(c))')
            /\ \A i \in 1 .. Len(All(Client(c))) : All(Client(c))'[i] = All(Client(c))[i],
         at'[c] = "new" \/ InBacklog(c)' => at[c] = "new" \/ InBacklog(c),
         at'[c] = "new" => at[c] = "new",
         serving' = c => serving = c /\ session' = session
  PROVE  Talk(c)'
<1>1. Replies(c)'
  BY DEF Talk, Replies
<1>2. Waiting(c)'
  BY DEF Talk, Waiting, InBacklog
<1>3. InSession(c)'
  BY DEF Talk, InSession
<1>4. Refused(c)'
  <2>1. SUFFICES ASSUME shut'[Srv(c)], ~shut'[Client(c)]
                 PROVE  Refused(c)'
    BY DEF Refused
  <2>2. /\ sent'[Srv(c)] = sent[Srv(c)] /\ sending'[Srv(c)] = sending[Srv(c)]
        /\ shut[Srv(c)] /\ ~shut[Client(c)]
    BY <2>1
  <2> DEFINE n == Len(sent[Srv(c)])
             g == Len(got[Srv(c)])
  <2>3. /\ sending[Srv(c)] = << >>
        /\ \/ g = n + 1 /\ ~Accepted(got[Srv(c)][g])
           \/ g = n /\ n < Len(All(Client(c))) /\ ~Accepted(All(Client(c))[n + 1])
    BY <2>2 DEF Talk, Refused
  <2>4. CASE g = n + 1 /\ ~Accepted(got[Srv(c)][g])
    BY <2>2, <2>3, <2>4 DEF Refused
  <2>5. CASE g = n /\ n < Len(All(Client(c))) /\ ~Accepted(All(Client(c))[n + 1])
    <3>1. n + 1 \in 1 .. Len(All(Client(c))) /\ n < Len(All(Client(c))')
      BY <2>1, <2>5
    <3>2. All(Client(c))'[n + 1] = All(Client(c))[n + 1]
      BY <2>1, <3>1
    <3> QED
      BY <2>2, <2>3, <2>5, <3>1, <3>2 DEF Refused
  <2> QED
    BY <2>3, <2>4, <2>5
<1> QED
  BY <1>1, <1>2, <1>3, <1>4 DEF Talk

LEMMA RecordingKept ==
  ASSUME Tape, Phase,
         sent'[Client(Recorder)] = sent[Client(Recorder)],
         got'[Client(Recorder)] = got[Client(Recorder)],
         sending'[Client(Recorder)] = sending[Client(Recorder)],
         trace'[Client(Recorder)] = trace[Client(Recorder)],
         \/ at'[Recorder] = at[Recorder]
         \/ at[Recorder] = "new" /\ at'[Recorder] = "ready"
         \/ at'[Recorder] = "crashed"
         \/ /\ at'[Recorder] = "left"
            /\ Len(sent[Client(Recorder)]) = Len(got[Client(Recorder)]) + 1
                 => ~Accepted(sent[Client(Recorder)][Len(sent[Client(Recorder)])])
  PROVE  Tape' /\ Phase'
<1>1. Recorded' = Recorded /\ All(Client(Recorder))' = All(Client(Recorder))
  <2>1. Recorded' = Recorded
    BY DEF Recorded, Client
  <2> QED
    BY <2>1 DEF All
<1>2. Tape'
  BY <1>1 DEF Tape
<1>3. Phase'
  <2>1. CASE at'[Recorder] = at[Recorder]
    BY <2>1 DEF Phase
  <2>2. CASE at[Recorder] = "new" /\ at'[Recorder] = "ready"
    BY <2>2 DEF Phase
  <2>3. CASE at'[Recorder] = "crashed"
    BY <2>3 DEF Phase
  <2>4. CASE at'[Recorder] = "left" /\ (Len(sent[Client(Recorder)]) = Len(got[Client(Recorder)]) + 1
                 => ~Accepted(sent[Client(Recorder)][Len(sent[Client(Recorder)])]))
    BY <2>4 DEF Phase
  <2> QED
    BY <2>1, <2>2, <2>3, <2>4
<1> QED
  BY <1>2, <1>3

LEMMA ReplayingKept ==
  ASSUME Replaying, All(Client(Replayer)) \in Seq(ShortFrame),
         All(Client(Replayer))' = All(Client(Replayer)), cursor' = cursor,
         at'[Replayer] = "new" => at[Replayer] = "new",
         at'[Replayer] # "new" => at'[Recorder] = "left",
         Len(sent'[Client(Recorder)]) \in Nat,
         at[Replayer] = "new" \/ sent'[Client(Recorder)] = sent[Client(Recorder)]
  PROVE  Replaying'
<1> DEFINE n == Len(All(Client(Replayer)))
           s == sent[Client(Recorder)]
<1>1. n \in Nat
  OBVIOUS
<1>2. /\ n <= Len(s) /\ (\A i \in 1 .. n : All(Client(Replayer))[i] = s[i])
      /\ (at[Replayer] = "new" => n = 0) /\ cursor = IF n = 0 THEN 0 ELSE 2 * n - 1
  BY DEF Replaying
<1>3. n <= Len(s') /\ \A i \in 1 .. n : All(Client(Replayer))[i] = s'[i]
  <2>1. CASE s' = s
    BY <1>2, <2>1
  <2>2. CASE at[Replayer] = "new"
    <3>1. n = 0
      BY <1>2, <2>2
    <3>2. Len(s') \in Nat /\ n <= Len(s') /\ 1 .. n = {}
      BY <3>1
    <3> QED
      BY <3>2
  <2> QED
    BY <2>1, <2>2
<1> QED
  BY <1>2, <1>3 DEF Replaying

LEMMA BacklogKept ==
  ASSUME BacklogDistinct, backlog' = backlog, backlog \in Seq(Clients),
         \A c \in Clients : at'[c] = "new" => at[c] = "new"
  PROVE  BacklogDistinct' /\ \A c \in Clients : InBacklog(c)' = InBacklog(c)
<1>1. \A i \in 1 .. Len(backlog) : backlog[i] \in Clients
  OBVIOUS
<1> QED
  BY <1>1 DEF BacklogDistinct, InBacklog

---------------------------------------------------------------------------
(***************************************************************************)
(* The initial states, and the steps that touch no stream.                 *)
(***************************************************************************)
LEMMA Fields ==
  ASSUME IInv
  PROVE  /\ StreamTyped /\ OneAtATime /\ TcpTyped /\ BacklogDistinct /\ Present
         /\ Tape /\ Phase /\ Replaying
         /\ \A d \in Directions : Delivery(d)
         /\ \A c \in Real : Talk(c) /\ Delivery(Client(c)) /\ Delivery(Srv(c))
  BY DirectionNames DEF IInv

LEMMA InitIInv == Init => IInv
<1> SUFFICES ASSUME Init
             PROVE  IInv
  OBVIOUS
<1> USE DEF Init, InitStream
<1>1. StreamTyped
  BY DEF StreamTyped, Counters
<1>2. OneAtATime
  BY DEF OneAtATime
<1>3. TcpTyped
  BY DEF TcpTyped, Phases
<1>4. BacklogDistinct /\ Present
  BY EndNames DEF BacklogDistinct, Present
<1>5. ASSUME NEW d \in Ends
      PROVE  /\ sent[d] = << >> /\ sending[d] = << >> /\ out[d] = << >> /\ pipe[d] = << >>
             /\ in[d] = << >> /\ got[d] = << >> /\ trace[d] = << >> /\ ~shut[d]
             /\ counts[d].frames_sent = 0 /\ counts[d].bytes_sent = 0
             /\ counts[d].frames_recv = 0 /\ counts[d].bytes_recv = 0
             /\ All(d) = << >> /\ UnderWay(d) = << >> /\ SentBy(d) = << >>
  <2>1. Peer(d) \in Ends
    BY PeerFacts
  <2>2. /\ sent[d] = << >> /\ sending[d] = << >> /\ out[d] = << >> /\ pipe[d] = << >>
        /\ in[d] = << >> /\ got[d] = << >> /\ trace[d] = << >> /\ ~shut[d]
        /\ in[Peer(d)] = << >>
    BY <2>1
  <2>3. /\ counts[d].frames_sent = 0 /\ counts[d].bytes_sent = 0
        /\ counts[d].frames_recv = 0 /\ counts[d].bytes_recv = 0
    OBVIOUS
  <2>4. << >> \o << >> = << >>
    OBVIOUS
  <2> QED
    BY <2>2, <2>3, <2>4 DEF All, UnderWay, SentBy
<1> HIDE DEF Init, InitStream
<1>6. ASSUME NEW d \in Ends
      PROVE  Delivery(d)
  <2>1. Peer(d) \in Ends
    BY PeerFacts
  <2>2. /\ All(d) = << >> /\ UnderWay(d) = << >> /\ SentBy(d) = << >> /\ sent[d] = << >>
        /\ got[Peer(d)] = << >> /\ counts[d].frames_sent = 0 /\ counts[d].bytes_sent = 0
        /\ counts[Peer(d)].frames_recv = 0 /\ counts[Peer(d)].bytes_recv = 0
    BY <1>5, <2>1
  <2>3. PICK pos : pos = [i \in {0} |-> 0]
    OBVIOUS
  <2>4. Len(<< >>) = 0 /\ 0 .. 0 = {0} /\ 1 .. 0 = {} /\ 0 + 1 .. 0 = {}
    OBVIOUS
  <2>5. pos \in [0 .. 0 -> Nat] /\ pos[0] = 0
    BY <2>3
  <2>6. Positions(pos, All(d))
    BY <2>2, <2>4, <2>5 DEF Positions
  <2>7. Saturated(0) = 0
    BY StreamAssumption DEF Saturated
  <2>8. pos[0] - 4 * 0 = 0
    BY <2>5
  <2>9. Counted(d, pos)
    BY <2>2, <2>4, <2>7, <2>8 DEF Counted
  <2>10. Carries(UnderWay(d), pos, All(d), Len(got[Peer(d)]))
    BY <2>2, <2>4, <2>5 DEF Carries
  <2>11. Prefix(d)
    BY <2>2, <2>4 DEF Prefix
  <2> QED
    BY <2>6, <2>9, <2>10, <2>11 DEF Delivery
<1>7. ASSUME NEW c \in Real
      PROVE  Talk(c)
  <2>1. c \in Clients /\ Srv(c) \in Ends /\ Client(c) \in Ends
    BY Names, EndNames
  <2>2. All(Srv(c)) = << >> /\ got[Srv(c)] = << >> /\ ~shut[Srv(c)]
    BY <1>5, <2>1
  <2>3. serving # c
    BY <2>1, Names DEF Init
  <2>4. Replies(c) /\ Waiting(c) /\ InSession(c) /\ Refused(c)
    BY <2>2, <2>3 DEF Replies, Waiting, InSession, Refused
  <2> QED
    BY <2>4 DEF Talk
<1>8. Tape /\ Phase
  <2>1. Client(Recorder) \in Ends
    BY Names, EndNames
  <2>2. /\ sent[Client(Recorder)] = << >> /\ got[Client(Recorder)] = << >>
        /\ All(Client(Recorder)) = << >> /\ sending[Client(Recorder)] = << >>
        /\ trace[Client(Recorder)] = << >>
    BY <1>5, <2>1
  <2>3. Recorded = << >>
    BY <2>2 DEF Recorded, Client
  <2>4. at[Recorder] = "new"
    BY Names DEF Init
  <2>5. Tape
    BY <2>2, <2>3 DEF Tape
  <2>6. Phase
    BY <2>2, <2>4 DEF Phase
  <2> QED
    BY <2>5, <2>6
<1>9. Replaying
  <2>1. Client(Recorder) \in Ends /\ Client(Replayer) \in Ends
    BY Names, EndNames
  <2>2. sent[Client(Recorder)] = << >> /\ All(Client(Replayer)) = << >>
    BY <1>5, <2>1
  <2>3. at[Replayer] = "new" /\ cursor = 0
    BY Names DEF Init
  <2> QED
    BY <2>2, <2>3 DEF Replaying
<1> QED
  BY <1>1, <1>2, <1>3, <1>4, <1>6, <1>7, <1>8, <1>9, DirectionNames DEF IInv

\* The streams are as they were, and so is all that hangs on them alone.
LEMMA IdleKeeps ==
  ASSUME IInv, UNCHANGED streamVars
  PROVE  /\ StreamTyped' /\ OneAtATime'
         /\ \A d \in Directions : Delivery(d)' /\ All(d)' = All(d)
<1>1. StreamTyped' /\ OneAtATime'
  BY Fields DEF streamVars, bookVars, StreamTyped, OneAtATime
<1>2. ASSUME NEW d \in Directions
      PROVE  Delivery(d)' /\ All(d)' = All(d)
  BY Fields, StreamsIdle, DirectionNames
<1> QED
  BY <1>1, <1>2

\* The same for a conversation.
LEMMA IdleTalk ==
  ASSUME IInv, UNCHANGED streamVars, NEW c \in Real,
         at'[c] = "new" \/ InBacklog(c)' => at[c] = "new" \/ InBacklog(c),
         at'[c] = "new" => at[c] = "new",
         serving' = c => serving = c /\ session' = session
  PROVE  Talk(c)'
<1>1. c \in Clients /\ Srv(c) \in Ends /\ Client(c) \in Ends /\ Srv(c) \in Directions
      /\ Client(c) \in Directions
  BY Names, EndNames, DirectionNames
<1>2. /\ All(Srv(c))' = All(Srv(c)) /\ All(Client(c))' = All(Client(c))
      /\ got' = got /\ shut' = shut /\ sent' = sent /\ sending' = sending
  BY <1>1, IdleKeeps DEF streamVars, bookVars
<1>3. Len(All(Client(c))) \in Nat /\ Len(sent[Srv(c)]) \in Nat /\ Talk(c)
  <2>1. StreamTyped /\ OneAtATime /\ Delivery(Client(c)) /\ Delivery(Srv(c)) /\ Talk(c)
    BY Fields
  <2> QED
    BY <1>1, <2>1, PrefixFacts
<1> QED
  BY <1>1, <1>2, <1>3, TalkKept

\* Where clients may go without a word.
Goes ==
  /\ \A c \in Clients : at'[c] = "new" => at[c] = "new"
  /\ \A c \in Clients : at'[c] \in {"left", "crashed"} <=> at[c] \in {"left", "crashed"}
  /\ \/ at'[Recorder] = at[Recorder]
     \/ at[Recorder] = "new" /\ at'[Recorder] = "ready"
  /\ at'[Replayer] # "new" => at'[Recorder] = "left"

\* What a step that touches no stream leaves of the clients.
LEMMA IdleClients ==
  ASSUME IInv, UNCHANGED streamVars, UNCHANGED cursor, Goes
  PROVE  /\ StreamTyped' /\ OneAtATime' /\ (\A d \in Directions : Delivery(d)')
         /\ Present' /\ Tape' /\ Phase' /\ Replaying'
<1>1. /\ StreamTyped' /\ OneAtATime'
      /\ \A d \in Directions : Delivery(d)' /\ All(d)' = All(d)
  BY IdleKeeps
<1>2. Present /\ Tape /\ Phase /\ Replaying
  BY Fields
<1>3. /\ shut' = shut /\ sent' = sent /\ got' = got /\ sending' = sending /\ trace' = trace
  BY DEF streamVars, bookVars
<1>4. Present'
  BY <1>2, <1>3 DEF Present, Goes
<1>5. Tape' /\ Phase'
  BY <1>2, <1>3, RecordingKept DEF Goes
<1>6. Replaying'
  <2>1. Client(Replayer) \in Directions /\ Client(Replayer) \in Ends /\ Client(Recorder) \in Ends
        /\ Replayer \in Clients
    BY Names, EndNames, DirectionNames
  <2>2. sent[Client(Recorder)] \in Seq(ShortFrame) /\ All(Client(Replayer)) \in Seq(ShortFrame)
    BY <2>1, Fields, DirectionTyped
  <2>3. Len(sent'[Client(Recorder)]) \in Nat /\ sent'[Client(Recorder)] = sent[Client(Recorder)]
    BY <1>3, <2>2
  <2> QED
    BY <1>1, <1>2, <2>1, <2>2, <2>3, ReplayingKept DEF Goes
<1> QED
  BY <1>1, <1>4, <1>5, <1>6

LEMMA CreatedNone ==
  ASSUME NEW fs
  PROVE  Created(fs, 0) = 0
<1>1. {j \in 1 .. 0 : OpAt(fs, j) = "CREATE_INSTANCE"} = {}
  OBVIOUS
<1> QED
  BY <1>1, FS_EmptySet DEF Created

LEMMA CreatedFinite ==
  ASSUME NEW fs, NEW n \in Nat
  PROVE  /\ IsFiniteSet({j \in 1 .. n : OpAt(fs, j) = "CREATE_INSTANCE"})
         /\ Created(fs, n) \in Nat
<1> DEFINE S == {j \in 1 .. n : OpAt(fs, j) = "CREATE_INSTANCE"}
<1>1. IsFiniteSet(1 .. n)
  BY FS_Interval
<1>2. S \subseteq 1 .. n
  OBVIOUS
<1>3. IsFiniteSet(S)
  BY <1>1, <1>2, FS_Subset
<1> QED
  BY <1>3, FS_CardinalityType DEF Created

LEMMA CreatedNext ==
  ASSUME NEW fs, NEW n \in Nat
  PROVE  Created(fs, n + 1) =
           IF OpAt(fs, n + 1) = "CREATE_INSTANCE" THEN Created(fs, n) + 1 ELSE Created(fs, n)
<1> DEFINE S(m) == {j \in 1 .. m : OpAt(fs, j) = "CREATE_INSTANCE"}
<1>1. IsFiniteSet(S(n)) /\ n + 1 \notin S(n)
  BY CreatedFinite
<1>2. CASE OpAt(fs, n + 1) = "CREATE_INSTANCE"
  <2>1. S(n + 1) = S(n) \cup {n + 1}
    <3>1. 1 .. n + 1 = (1 .. n) \cup {n + 1}
      OBVIOUS
    <3> QED
      BY <1>2, <3>1
  <2>2. Cardinality(S(n) \cup {n + 1}) = Cardinality(S(n)) + 1
    <3> HIDE DEF S
    <3> QED
      BY <1>1, FS_AddElement
  <2> QED
    BY <1>2, <2>1, <2>2 DEF Created
<1>3. CASE OpAt(fs, n + 1) # "CREATE_INSTANCE"
  <2>1. S(n + 1) = S(n)
    <3>1. 1 .. n + 1 = (1 .. n) \cup {n + 1}
      OBVIOUS
    <3> QED
      BY <1>3, <3>1
  <2> QED
    BY <1>3, <2>1 DEF Created
<1> QED
  BY <1>2, <1>3

\* Only the first n requests matter.
LEMMA CreatedSame ==
  ASSUME NEW fs, NEW gs, NEW n \in Nat, \A i \in 1 .. n : OpAt(fs, i) = OpAt(gs, i)
  PROVE  Created(fs, n) = Created(gs, n)
<1>1. {j \in 1 .. n : OpAt(fs, j) = "CREATE_INSTANCE"}
        = {j \in 1 .. n : OpAt(gs, j) = "CREATE_INSTANCE"}
  OBVIOUS
<1> QED
  BY <1>1 DEF Created

LEMMA BacklogTail ==
  ASSUME BacklogDistinct, backlog \in Seq(Clients), backlog # << >>,
         backlog' = Tail(backlog), at' = at, NEW h, h = Head(backlog)
  PROVE  /\ backlog' \in Seq(Clients) /\ BacklogDistinct'
         /\ h \in Clients /\ at[h] # "new" /\ InBacklog(h) /\ ~InBacklog(h)'
         /\ \A c \in Clients : InBacklog(c)' => InBacklog(c)
<1> DEFINE b == backlog
           t == Tail(backlog)
<1>1. /\ Head(b) \in Clients /\ Head(b) = b[1] /\ t \in Seq(Clients)
      /\ Len(t) = Len(b) - 1 /\ Len(b) >= 1 /\ Len(b) \in Nat
      /\ \A i \in 1 .. Len(b) - 1 : t[i] = b[i + 1]
  BY HeadTail
<1> HIDE DEF t
<1>2. backlog' = t
  BY DEF t
<1>3. ASSUME NEW i \in 1 .. Len(t)
      PROVE  i + 1 \in 1 .. Len(b) /\ t[i] = b[i + 1] /\ b[i + 1] # b[1] /\ at[b[i + 1]] # "new"
  <2>1. i + 1 \in 1 .. Len(b) /\ 1 \in 1 .. Len(b) /\ i + 1 # 1 /\ t[i] = b[i + 1]
    BY <1>1
  <2> QED
    BY <2>1 DEF BacklogDistinct
<1>4. BacklogDistinct'
  <2>1. ASSUME NEW i \in 1 .. Len(t), NEW j \in 1 .. Len(t), t[i] = t[j]
        PROVE  i = j
    <3>1. i + 1 \in 1 .. Len(b) /\ j + 1 \in 1 .. Len(b) /\ b[i + 1] = b[j + 1]
      BY <1>3, <2>1
    <3>2. i + 1 = j + 1
      BY <3>1 DEF BacklogDistinct
    <3> QED
      BY <3>2
  <2>2. \A i \in 1 .. Len(t) : at[t[i]] # "new"
    BY <1>3
  <2> QED
    BY <1>2, <2>1, <2>2 DEF BacklogDistinct
<1>5. h = b[1] /\ 1 \in 1 .. Len(b)
  BY <1>1
<1>6. InBacklog(h) /\ at[h] # "new"
  BY <1>5 DEF InBacklog, BacklogDistinct
<1>7. ~InBacklog(h)'
  BY <1>2, <1>3, <1>5 DEF InBacklog
<1>8. \A c \in Clients : InBacklog(c)' => InBacklog(c)
  BY <1>2, <1>3 DEF InBacklog
<1> QED
  BY <1>1, <1>2, <1>4, <1>6, <1>7, <1>8

LEMMA AcceptKeeps ==
  ASSUME IInv, Accept
  PROVE  IInv'
<1>1. /\ UNCHANGED streamVars /\ at' = at /\ cursor' = cursor /\ backlog # << >>
      /\ serving' = Head(backlog) /\ backlog' = Tail(backlog)
      /\ session' = [id |-> next_id, next_seq |-> 1, instances |-> 0] /\ next_id' = next_id + 1
  BY DEF Accept, clientVars
<1>2. /\ StreamTyped' /\ OneAtATime'
      /\ \A d \in Directions : Delivery(d)' /\ All(d)' = All(d)
  BY <1>1, IdleKeeps
<1>3. TcpTyped /\ BacklogDistinct /\ Replaying
  BY Fields
<1>h. PICK h : h = Head(backlog)
  OBVIOUS
<1>4. /\ backlog' \in Seq(Clients) /\ BacklogDistinct'
      /\ h \in Clients /\ at[h] # "new" /\ InBacklog(h) /\ ~InBacklog(h)'
      /\ \A c \in Clients : InBacklog(c)' => InBacklog(c)
  BY <1>1, <1>3, <1>h, BacklogTail DEF TcpTyped
<1>5. TcpTyped'
  <2>1. session' \in [id : Nat, next_seq : Nat, instances : Nat] /\ next_id' \in Nat
    BY <1>1, <1>3 DEF TcpTyped
  <2> QED
    BY <1>1, <1>3, <1>4, <1>h, <2>1 DEF TcpTyped
<1>6. ASSUME NEW c \in Real
      PROVE  Talk(c)'
  <2>1. c \in Clients /\ Srv(c) \in Directions
    BY Names, DirectionNames
  <2>2. CASE c # h
    BY <1>1, <1>4, <1>6, <1>h, <2>1, <2>2, IdleTalk
  <2>3. CASE c = h
    <3>1. Replies(c) /\ Waiting(c)
      BY <1>6, Fields DEF Talk
    <3>2. InBacklog(c) /\ at[c] # "new" /\ ~InBacklog(c)'
      BY <1>4, <2>3
    <3>3. got[Srv(c)] = << >> /\ All(Srv(c)) = << >> /\ ~shut[Srv(c)]
      BY <3>1, <3>2 DEF Waiting
    <3>4. got' = got /\ All(Srv(c))' = All(Srv(c)) /\ shut' = shut
      BY <1>1, <1>2, <2>1 DEF streamVars, bookVars
    <3>5. Replies(c)'
      BY <3>1, <3>4 DEF Replies
    <3>6. Waiting(c)'
      BY <1>1, <3>2, <3>3, <3>4 DEF Waiting
    <3>7. InSession(c)'
      <4>1. Created(<< >>, 0) = 0
        BY CreatedNone
      <4>2. session'.next_seq = 1 /\ session'.instances = 0 /\ Len(<< >>) = 0
        BY <1>1
      <4> QED
        BY <3>3, <3>4, <4>1, <4>2 DEF InSession
    <3>8. Refused(c)'
      BY <3>3, <3>4 DEF Refused
    <3> QED
      BY <3>5, <3>6, <3>7, <3>8 DEF Talk
  <2> QED
    BY <2>2, <2>3
<1>7. Present' /\ Tape' /\ Phase' /\ Replaying'
  <2>1. at[Replayer] # "new" => at[Recorder] = "left"
    BY <1>3 DEF Replaying
  <2>2. Goes
    BY <1>1, <2>1 DEF Goes
  <2> QED
    BY <1>1, <2>2, IdleClients
<1> QED
  BY <1>2, <1>4, <1>5, <1>6, <1>7 DEF IInv

LEMMA AcceptFailsKeeps ==
  ASSUME IInv, AcceptFails
  PROVE  IInv'
<1>1. /\ UNCHANGED streamVars /\ at' = at /\ cursor' = cursor /\ backlog # << >>
      /\ backlog' = Tail(backlog) /\ UNCHANGED <<serving, session, next_id>>
  BY DEF AcceptFails, clientVars
<1>2. TcpTyped /\ BacklogDistinct /\ Replaying
  BY Fields
<1>3. /\ backlog' \in Seq(Clients) /\ BacklogDistinct'
      /\ \A c \in Clients : InBacklog(c)' => InBacklog(c)
  BY <1>1, <1>2, BacklogTail DEF TcpTyped
<1>4. TcpTyped'
  BY <1>1, <1>2, <1>3 DEF TcpTyped
<1>5. ASSUME NEW c \in Real
      PROVE  Talk(c)'
  <2>1. c \in Clients
    BY Names
  <2> QED
    BY <1>1, <1>3, <2>1, IdleTalk
<1>6. /\ StreamTyped' /\ OneAtATime' /\ (\A d \in Directions : Delivery(d)')
      /\ Present' /\ Tape' /\ Phase' /\ Replaying'
  <2>1. at[Replayer] # "new" => at[Recorder] = "left"
    BY <1>2 DEF Replaying
  <2>2. Goes
    BY <1>1, <2>1 DEF Goes
  <2> QED
    BY <1>1, <2>2, IdleClients
<1> QED
  BY <1>3, <1>4, <1>5, <1>6 DEF IInv

LEMMA BacklogAppend ==
  ASSUME BacklogDistinct, backlog \in Seq(Clients), NEW b \in Clients, at[b] = "new",
         at \in [Clients -> Phases], NEW ph, ph # "new",
         backlog' = Append(backlog, b), at' = [at EXCEPT ![b] = ph]
  PROVE  /\ backlog' \in Seq(Clients) /\ BacklogDistinct'
         /\ \A c \in Clients : InBacklog(c)' => InBacklog(c) \/ c = b
<1> DEFINE t == Append(backlog, b)
<1>1. /\ t \in Seq(Clients) /\ Len(t) = Len(backlog) + 1 /\ Len(backlog) \in Nat
      /\ (\A i \in 1 .. Len(backlog) : t[i] = backlog[i]) /\ t[Len(backlog) + 1] = b
  OBVIOUS
<1> HIDE DEF t
<1>2. backlog' = t
  BY DEF t
<1>3. ASSUME NEW i \in 1 .. Len(t)
      PROVE  \/ i \in 1 .. Len(backlog) /\ t[i] = backlog[i] /\ t[i] # b /\ at[t[i]] # "new"
                /\ t[i] \in Clients
             \/ i = Len(backlog) + 1 /\ t[i] = b
  <2>1. CASE i \in 1 .. Len(backlog)
    <3>1. t[i] = backlog[i] /\ at[backlog[i]] # "new" /\ backlog[i] \in Clients
      BY <1>1, <2>1 DEF BacklogDistinct
    <3> QED
      BY <2>1, <3>1
  <2>2. CASE i = Len(backlog) + 1
    BY <1>1, <2>2
  <2> QED
    BY <1>1, <2>1, <2>2
<1>4. ASSUME NEW i \in 1 .. Len(t), NEW j \in 1 .. Len(t), t[i] = t[j]
      PROVE  i = j
  BY <1>3, <1>4 DEF BacklogDistinct
<1>5. ASSUME NEW i \in 1 .. Len(t)
      PROVE  at'[t[i]] # "new"
  BY <1>3
<1>6. BacklogDistinct'
  BY <1>2, <1>4, <1>5 DEF BacklogDistinct
<1>7. \A c \in Clients : InBacklog(c)' => InBacklog(c) \/ c = b
  BY <1>2, <1>3 DEF InBacklog
<1> QED
  BY <1>1, <1>2, <1>6, <1>7

LEMMA ConnectKeeps ==
  ASSUME IInv, NEW b \in Clients, Connect(Client(b))
  PROVE  IInv'
<1>1. /\ b \in Real /\ at[b] = "new" /\ (b = Replayer => at[Recorder] = "left")
      /\ backlog' = Append(backlog, b) /\ at' = [at EXCEPT ![b] = "ready"]
      /\ UNCHANGED streamVars /\ UNCHANGED <<cursor, serving, session, next_id>>
  <2>1. Client(b)[1] = b
    BY EndNames
  <2> QED
    BY <2>1, ClientsAssumption DEF Connect, Go, Real
<1>2. TcpTyped /\ BacklogDistinct /\ Replaying /\ Phase
  BY Fields
<1>3. at \in [Clients -> Phases]
  BY <1>2 DEF TcpTyped
<1>4. /\ backlog' \in Seq(Clients) /\ BacklogDistinct'
      /\ \A c \in Clients : InBacklog(c)' => InBacklog(c) \/ c = b
  BY <1>1, <1>2, <1>3, BacklogAppend DEF TcpTyped
<1>5. TcpTyped'
  <2>1. at' \in [Clients -> Phases]
    BY <1>1, <1>3 DEF Phases
  <2> QED
    BY <1>1, <1>2, <1>4, <2>1 DEF TcpTyped
<1>6. ASSUME NEW c \in Real
      PROVE  Talk(c)'
  <2>1. c \in Clients
    BY Names
  <2>2. /\ at'[c] = "new" => at[c] = "new"
        /\ at'[c] = "new" \/ InBacklog(c)' => at[c] = "new" \/ InBacklog(c)
    BY <1>1, <1>3, <1>4, <2>1
  <2> QED
    BY <1>1, <2>1, <2>2, IdleTalk
<1>7. /\ StreamTyped' /\ OneAtATime' /\ (\A d \in Directions : Delivery(d)')
      /\ Present' /\ Tape' /\ Phase' /\ Replaying'
  <2>1. at[Replayer] # "new" => at[Recorder] = "left"
    BY <1>2 DEF Replaying
  <2>2. at'[b] = "ready" /\ \A c \in Clients : c # b => at'[c] = at[c]
    BY <1>1, <1>3
  <2>3. /\ \A c \in Clients : at'[c] = "new" => at[c] = "new"
        /\ \A c \in Clients : at'[c] \in {"left", "crashed"} <=> at[c] \in {"left", "crashed"}
    BY <1>1, <2>2
  <2>4. /\ \/ at'[Recorder] = at[Recorder]
           \/ at[Recorder] = "new" /\ at'[Recorder] = "ready"
        /\ at'[Replayer] # "new" => at'[Recorder] = "left"
    <3>1. CASE b = Recorder
      <4>1. at[Recorder] = "new" /\ at'[Recorder] = "ready" /\ at'[Replayer] = at[Replayer]
        BY <1>1, <2>2, <3>1, Names
      <4>2. at[Replayer] = "new"
        BY <2>1, <4>1
      <4> QED
        BY <4>1, <4>2
    <3>2. CASE b = Replayer
      <4>1. at'[Recorder] = at[Recorder] /\ at[Recorder] = "left"
        BY <1>1, <2>2, <3>2, Names
      <4> QED
        BY <4>1
    <3> QED
      BY <1>1, <3>1, <3>2 DEF Real
  <2> QED
    BY <1>1, <2>3, <2>4, IdleClients DEF Goes
<1> QED
  BY <1>4, <1>5, <1>6, <1>7 DEF IInv

LEMMA ReplayReturnsKeeps ==
  ASSUME IInv, NEW b \in Clients, ReplayReturns(Client(b))
  PROVE  IInv'
<1>1. PICK ph \in {"done", "receiving"} :
        /\ b = Replayer /\ at[Replayer] = "ready" /\ at' = [at EXCEPT ![b] = ph]
        /\ UNCHANGED streamVars /\ UNCHANGED <<cursor, backlog, serving, session, next_id>>
  <2>1. Client(b)[1] = b
    BY EndNames
  <2> QED
    BY <2>1 DEF ReplayReturns, Go, serverVars
<1>2. TcpTyped /\ BacklogDistinct /\ Replaying
  BY Fields
<1>3. at \in [Clients -> Phases] /\ backlog \in Seq(Clients)
  BY <1>2 DEF TcpTyped
<1>4. at'[b] = ph /\ \A c \in Clients : c # b => at'[c] = at[c]
  BY <1>1, <1>3
<1>5. /\ \A c \in Clients : at'[c] = "new" => at[c] = "new"
      /\ \A c \in Clients : at'[c] \in {"left", "crashed"} <=> at[c] \in {"left", "crashed"}
  BY <1>1, <1>4
<1>6. BacklogDistinct' /\ \A c \in Clients : InBacklog(c)' = InBacklog(c)
  BY <1>1, <1>2, <1>3, <1>5, BacklogKept
<1>7. TcpTyped'
  <2>1. at' \in [Clients -> Phases]
    BY <1>1, <1>3 DEF Phases
  <2> QED
    BY <1>1, <1>2, <2>1 DEF TcpTyped
<1>8. ASSUME NEW c \in Real
      PROVE  Talk(c)'
  <2>1. c \in Clients
    BY Names
  <2> QED
    BY <1>1, <1>5, <1>6, <2>1, IdleTalk
<1>9. /\ StreamTyped' /\ OneAtATime' /\ (\A d \in Directions : Delivery(d)')
      /\ Present' /\ Tape' /\ Phase' /\ Replaying'
  <2>1. at[Replayer] # "new" => at[Recorder] = "left"
    BY <1>2 DEF Replaying
  <2>2. at'[Recorder] = at[Recorder] /\ at[Replayer] # "new"
    BY <1>1, <1>4, Names
  <2> QED
    BY <1>1, <1>5, <2>1, <2>2, IdleClients DEF Goes
<1> QED
  BY <1>6, <1>7, <1>8, <1>9 DEF IInv

---------------------------------------------------------------------------
(***************************************************************************)
(* Bytes move.                                                             *)
(***************************************************************************)
LEMMA MoveKeeps ==
  ASSUME IInv, StreamTyped', OneAtATime',
         \A d \in Directions : Delivery(d)' /\ All(d)' = All(d),
         UNCHANGED <<sending, shut, bookVars, clientVars, serverVars>>
  PROVE  IInv'
<1>1. /\ sent' = sent /\ got' = got /\ sending' = sending /\ trace' = trace /\ shut' = shut
      /\ at' = at /\ cursor' = cursor /\ backlog' = backlog /\ serving' = serving
      /\ session' = session /\ next_id' = next_id
  BY DEF bookVars, clientVars, serverVars
<1>2. /\ StreamTyped /\ OneAtATime /\ TcpTyped /\ BacklogDistinct /\ Present
      /\ Tape /\ Phase /\ Replaying
      /\ \A c \in Real : Talk(c) /\ Delivery(Client(c)) /\ Delivery(Srv(c))
  BY Fields
<1>3. TcpTyped' /\ Present'
  BY <1>1, <1>2 DEF TcpTyped, Present
<1>4. BacklogDistinct' /\ \A c \in Clients : InBacklog(c)' = InBacklog(c)
  BY <1>1, <1>2, BacklogKept DEF TcpTyped
<1>5. ASSUME NEW c \in Real
      PROVE  Talk(c)'
  <2>1. c \in Clients /\ Srv(c) \in Ends /\ Client(c) \in Ends /\ Srv(c) \in Directions
        /\ Client(c) \in Directions
    BY Names, EndNames, DirectionNames
  <2>2. All(Srv(c))' = All(Srv(c)) /\ All(Client(c))' = All(Client(c))
    BY <2>1
  <2>3. Len(All(Client(c))) \in Nat /\ Len(sent[Srv(c)]) \in Nat /\ Talk(c)
    BY <1>2, <2>1, PrefixFacts
  <2> QED
    BY <1>1, <1>4, <2>1, <2>2, <2>3, TalkKept
<1>6. Tape' /\ Phase'
  BY <1>1, <1>2, RecordingKept
<1>7. Replaying'
  <2>1. Client(Replayer) \in Directions /\ Client(Replayer) \in Ends /\ Client(Recorder) \in Ends
    BY Names, EndNames, DirectionNames
  <2>2. sent[Client(Recorder)] \in Seq(ShortFrame) /\ All(Client(Replayer)) \in Seq(ShortFrame)
        /\ All(Client(Replayer))' = All(Client(Replayer))
    BY <1>2, <2>1, DirectionTyped
  <2>3. Len(sent'[Client(Recorder)]) \in Nat /\ sent'[Client(Recorder)] = sent[Client(Recorder)]
    BY <1>1, <2>2
  <2>4. at[Replayer] # "new" => at[Recorder] = "left"
    BY <1>2 DEF Replaying
  <2> QED
    BY <1>1, <1>2, <2>2, <2>3, <2>4, ReplayingKept
<1> QED
  BY <1>3, <1>4, <1>5, <1>6, <1>7 DEF IInv

LEMMA WriteKeeps ==
  ASSUME IInv, NEW e \in Ends, Write(e), UNCHANGED <<clientVars, serverVars>>
  PROVE  IInv'
<1>1. StreamTyped /\ OneAtATime /\ \A d \in Directions : Delivery(d)
  BY Fields
<1>2. StreamTyped' /\ OneAtATime' /\ UNCHANGED <<sending, shut, bookVars>>
  BY <1>1, WriteTyped
<1>3. \A d \in Directions : Delivery(d)' /\ All(d)' = All(d)
  BY <1>1, WriteDelivers, DirectionNames
<1> QED
  BY <1>2, <1>3, MoveKeeps

LEMMA ReadKeeps ==
  ASSUME IInv, NEW e \in Ends, Read(e), UNCHANGED <<clientVars, serverVars>>
  PROVE  IInv'
<1>1. StreamTyped /\ OneAtATime /\ \A d \in Directions : Delivery(d)
  BY Fields
<1>2. StreamTyped' /\ OneAtATime' /\ UNCHANGED <<sending, shut, bookVars>>
  BY <1>1, ReadTyped
<1>3. \A d \in Directions : Delivery(d)' /\ All(d)' = All(d)
  BY <1>1, ReadDelivers, DirectionNames
<1> QED
  BY <1>2, <1>3, MoveKeeps

---------------------------------------------------------------------------
(***************************************************************************)
(* send returns.                                                           *)
(***************************************************************************)

\* A conversation in which nothing is new to the server.
LEMMA TalkStays ==
  ASSUME IInv, NEW c \in Real,
         got'[Srv(c)] = got[Srv(c)], shut'[Srv(c)] = shut[Srv(c)],
         All(Srv(c))' = All(Srv(c)), All(Client(c))' = All(Client(c)),
         shut'[Client(c)] = shut[Client(c)] \/ shut'[Client(c)],
         \/ ~shut[Srv(c)]
         \/ sent'[Srv(c)] = sent[Srv(c)] /\ sending'[Srv(c)] = sending[Srv(c)],
         UNCHANGED <<backlog, session>>, serving' = c => serving = c,
         at'[c] = "new" => at[c] = "new"
  PROVE  Talk(c)'
<1>1. c \in Clients /\ Srv(c) \in Ends /\ Client(c) \in Ends
  BY Names, EndNames
<1>2. Talk(c) /\ StreamTyped /\ OneAtATime /\ Delivery(Client(c)) /\ Delivery(Srv(c))
  BY Fields
<1>3. Len(All(Client(c))) \in Nat /\ Len(sent[Srv(c)]) \in Nat
  BY <1>1, <1>2, PrefixFacts
<1>4. InBacklog(c)' = InBacklog(c)
  BY DEF InBacklog
<1>5. \/ shut'[Client(c)]
      \/ /\ ~shut[Client(c)]
         /\ Len(All(Client(c))) <= Len(All(Client(c))')
         /\ Len(All(Client(c))') \in Nat
         /\ \A i \in 1 .. Len(All(Client(c))) : All(Client(c))'[i] = All(Client(c))[i]
  <2>1. shut[Client(c)] \in BOOLEAN
    BY <1>1, <1>2 DEF StreamTyped
  <2> QED
    BY <1>3, <2>1
<1> QED
  BY <1>1, <1>2, <1>3, <1>4, <1>5, TalkKept

LEMMA SendOkStreams ==
  ASSUME IInv, NEW e \in Ends, SendOk(e), UNCHANGED <<out, pipe, in, shut>>
  PROVE  /\ StreamTyped' /\ OneAtATime' /\ got' = got
         /\ \A d \in Directions : Delivery(d)' /\ All(d)' = All(d)
         /\ \A d \in Ends : d # e => /\ sending'[d] = sending[d] /\ sent'[d] = sent[d]
                                     /\ trace'[d] = trace[d]
<1>1. StreamTyped /\ OneAtATime /\ \A d \in Directions : Delivery(d)
  BY Fields
<1>2. /\ sending' \in [Ends -> Seq(ShortFrame)] /\ trace' \in [Ends -> Seq(Frame)]
      /\ counts' \in [Ends -> Counters] /\ sent' \in [Ends -> Seq(ShortFrame)]
      /\ OneAtATime'
      /\ \A d \in Ends : d # e => /\ sending'[d] = sending[d] /\ sent'[d] = sent[d]
                                  /\ trace'[d] = trace[d]
  BY <1>1, SendOkTyped
<1>3. got' = got
  BY DEF SendOk
<1>4. StreamTyped'
  BY <1>1, <1>2, <1>3 DEF StreamTyped
<1>5. \A d \in Directions : Delivery(d)' /\ All(d)' = All(d)
  BY <1>1, SendOkDelivers, DirectionNames
<1> QED
  BY <1>2, <1>3, <1>4, <1>5

LEMMA ReplySentKeeps ==
  ASSUME IInv, NEW b \in Clients, ReplySent(Srv(b))
  PROVE  IInv'
<1>1. /\ Srv(b) \in Ends /\ serving = b /\ SendOk(Srv(b)) /\ UNCHANGED <<out, pipe, in, shut>>
      /\ at' = at /\ cursor' = cursor /\ backlog' = backlog /\ serving' = serving
      /\ session' = session /\ next_id' = next_id
  BY EndNames DEF ReplySent, clientVars, serverVars
<1>2. /\ StreamTyped /\ OneAtATime /\ TcpTyped /\ BacklogDistinct /\ Present
      /\ Tape /\ Phase /\ Replaying
      /\ \A c \in Real : Talk(c)
  BY Fields
<1>3. /\ StreamTyped' /\ OneAtATime' /\ got' = got
      /\ \A d \in Directions : Delivery(d)' /\ All(d)' = All(d)
      /\ \A d \in Ends : d # Srv(b) => /\ sending'[d] = sending[d] /\ sent'[d] = sent[d]
                                       /\ trace'[d] = trace[d]
  BY <1>1, SendOkStreams
<1>4. TcpTyped' /\ Present'
  BY <1>1, <1>2 DEF TcpTyped, Present
<1>5. BacklogDistinct'
  BY <1>1, <1>2, BacklogKept DEF TcpTyped
<1>6. ASSUME NEW c \in Real
      PROVE  Talk(c)'
  <2>1. c \in Clients /\ Srv(c) \in Ends /\ Srv(c) \in Directions /\ Client(c) \in Directions
        /\ (b # c => Srv(c) # Srv(b))
    BY Names, EndNames, DirectionNames
  <2>2. \/ ~shut[Srv(c)]
        \/ sent'[Srv(c)] = sent[Srv(c)] /\ sending'[Srv(c)] = sending[Srv(c)]
    <3>1. CASE b = c
      BY <1>1, <1>2, <3>1 DEF Talk, Waiting
    <3>2. CASE b # c
      BY <1>3, <2>1, <3>2
    <3> QED
      BY <3>1, <3>2
  <2> QED
    BY <1>1, <1>3, <2>1, <2>2, TalkStays
<1>7. /\ sent'[Client(Recorder)] = sent[Client(Recorder)] /\ Client(Recorder) \in Ends
      /\ sending'[Client(Recorder)] = sending[Client(Recorder)]
      /\ trace'[Client(Recorder)] = trace[Client(Recorder)]
  <2>1. Client(Recorder) \in Ends /\ Client(Recorder) # Srv(b)
    BY Names, EndNames
  <2> QED
    BY <1>3, <2>1
<1>8. Tape' /\ Phase'
  BY <1>1, <1>2, <1>3, <1>7, RecordingKept
<1>9. Replaying'
  <2>1. Client(Replayer) \in Directions /\ Client(Replayer) \in Ends
    BY Names, EndNames, DirectionNames
  <2>2. sent[Client(Recorder)] \in Seq(ShortFrame) /\ All(Client(Replayer)) \in Seq(ShortFrame)
        /\ All(Client(Replayer))' = All(Client(Replayer))
    BY <1>2, <1>3, <1>7, <2>1, DirectionTyped
  <2>3. Len(sent'[Client(Recorder)]) \in Nat
    BY <1>7, <2>2
  <2>4. at[Replayer] # "new" => at[Recorder] = "left"
    BY <1>2 DEF Replaying
  <2> QED
    BY <1>1, <1>2, <1>7, <2>2, <2>3, <2>4, ReplayingKept
<1> QED
  BY <1>3, <1>4, <1>5, <1>6, <1>8, <1>9 DEF IInv

LEMMA ReplayingStays ==
  ASSUME IInv, StreamTyped', All(Client(Replayer))' = All(Client(Replayer)), cursor' = cursor,
         at'[Replayer] = "new" => at[Replayer] = "new",
         at'[Replayer] # "new" => at'[Recorder] = "left",
         at[Replayer] = "new" \/ sent'[Client(Recorder)] = sent[Client(Recorder)]
  PROVE  Replaying'
<1>1. Client(Replayer) \in Ends /\ Client(Recorder) \in Ends
  BY Names, EndNames
<1>2. All(Client(Replayer)) \in Seq(ShortFrame) /\ Replaying
  BY <1>1, Fields, DirectionTyped
<1>3. Len(sent'[Client(Recorder)]) \in Nat
  <2>1. sent'[Client(Recorder)] \in Seq(ShortFrame)
    BY <1>1 DEF StreamTyped
  <2> QED
    BY <2>1
<1> QED
  BY <1>2, <1>3, ReplayingKept

\* A client that is not new goes somewhere.
LEMMA Went ==
  ASSUME IInv, NEW b \in Clients, NEW ph \in Phases, ph # "new", at' = [at EXCEPT ![b] = ph],
         UNCHANGED <<backlog, cursor, next_id>>
  PROVE  /\ at' \in [Clients -> Phases] /\ cursor' \in Nat /\ backlog' \in Seq(Clients)
         /\ next_id' \in Nat
         /\ at'[b] = ph /\ (\A c \in Clients : c # b => at'[c] = at[c])
         /\ \A c \in Clients : at'[c] = "new" => at[c] = "new"
         /\ BacklogDistinct'
<1>1. /\ at \in [Clients -> Phases] /\ cursor \in Nat /\ backlog \in Seq(Clients) /\ next_id \in Nat
      /\ BacklogDistinct
  BY Fields DEF TcpTyped
<1>2. at' \in [Clients -> Phases] /\ at'[b] = ph /\ \A c \in Clients : c # b => at'[c] = at[c]
  BY <1>1
<1>3. \A c \in Clients : at'[c] = "new" => at[c] = "new"
  BY <1>2
<1>4. BacklogDistinct'
  BY <1>1, <1>3, BacklogKept
<1> QED
  BY <1>1, <1>2, <1>3, <1>4

\* Where the recorder is in its call, the recording has a request without a
\* reply or has none.
LEMMA TapeGrows ==
  ASSUME IInv, at[Recorder] = "sending", SendOk(Client(Recorder)), UNCHANGED out,
         at'[Recorder] = "receiving", All(Client(Recorder))' = All(Client(Recorder))
  PROVE  Tape' /\ Phase'
<1> DEFINE e == Client(Recorder)
           f == Head(sending[e])
           r == trace[e]
           u == sent[e]
           v == got[e]
<1>1. /\ e \in Ends /\ StreamTyped /\ OneAtATime /\ Tape /\ Phase
  BY Fields, Names, EndNames
<1>2. /\ sending'[e] = << >> /\ sent'[e] = Append(u, f) /\ trace'[e] = Append(r, f) /\ got' = got
      /\ sending[e] # << >>
  BY <1>1, SendOkTyped DEF SendOk
<1>3. /\ f \in ShortFrame /\ f \in Frame /\ u \in Seq(ShortFrame) /\ r \in Seq(Frame)
      /\ v \in Seq(Frame)
  BY <1>1, <1>2, SendingOne DEF StreamTyped, ShortFrame
<1>4. /\ Len(u) = Len(v) /\ Len(r) = Len(u) + Len(v)
      /\ \A i \in 1 .. Len(u) : r[2 * i - 1] = u[i]
      /\ \A i \in 1 .. Len(v) : r[2 * i] = v[i]
      /\ \A i \in 1 .. Len(All(e)) : \E m \in Requests : All(e)[i] = Bytes(m)
  BY <1>1 DEF Tape, Phase, Recorded, Client
<1>5. /\ Recorded' = Append(r, f) /\ sent'[e] = Append(u, f) /\ got'[e] = v
      /\ sending'[e] = << >> /\ All(e)' = All(e)
  BY <1>2 DEF Recorded, Client
<1>6. /\ Len(Append(r, f)) = Len(r) + 1 /\ Len(Append(u, f)) = Len(u) + 1
      /\ Len(u) \in Nat /\ Len(r) \in Nat /\ Len(v) \in Nat
      /\ \A i \in 1 .. Len(r) : Append(r, f)[i] = r[i]
      /\ \A i \in 1 .. Len(u) : Append(u, f)[i] = u[i]
      /\ Append(r, f)[Len(r) + 1] = f /\ Append(u, f)[Len(u) + 1] = f
  BY <1>3, Appended
<1> DEFINE r1 == Append(r, f)
           u1 == Append(u, f)
<1> HIDE DEF e, f, r, u, v, r1, u1
<1>7. \A i \in 1 .. Len(u1) : r1[2 * i - 1] = u1[i]
  <2> TAKE i \in 1 .. Len(u1)
  <2>1. CASE i \in 1 .. Len(u)
    <3>1. 2 * i - 1 \in 1 .. Len(r)
      BY <1>4, <1>6, <2>1
    <3> QED
      BY <1>4, <1>6, <2>1, <3>1 DEF r1, u1
  <2>2. CASE i = Len(u) + 1
    <3>1. 2 * i - 1 = Len(r) + 1
      BY <1>4, <1>6, <2>2
    <3> QED
      BY <1>6, <2>2, <3>1 DEF r1, u1
  <2> QED
    BY <1>6, <2>1, <2>2 DEF u1
<1>8. \A i \in 1 .. Len(v) : r1[2 * i] = v[i]
  <2> TAKE i \in 1 .. Len(v)
  <2>1. 2 * i \in 1 .. Len(r)
    BY <1>4, <1>6
  <2> QED
    BY <1>4, <1>6, <2>1 DEF r1
<1>9. Len(u1) = Len(v) + 1 /\ Len(r1) = Len(u1) + Len(v)
  BY <1>4, <1>6 DEF u1, r1
<1>10. Tape'
  BY <1>4, <1>5, <1>7, <1>8, <1>9 DEF Tape, e, u1, r1
<1>11. Phase'
  BY <1>5, <1>9 DEF Phase, e, u1
<1> QED
  BY <1>10, <1>11

LEMMA ClientSentKeeps ==
  ASSUME IInv, NEW b \in Clients, ClientSent(Client(b))
  PROVE  IInv'
<1>1. PICK ph \in {"receiving", "ready"} :
        /\ at[b] = "sending" /\ SendOk(Client(b)) /\ UNCHANGED <<out, pipe, in, shut>>
        /\ at' = [at EXCEPT ![b] = ph] /\ (b = Recorder => ph = "receiving")
        /\ cursor' = cursor /\ backlog' = backlog /\ serving' = serving
        /\ session' = session /\ next_id' = next_id
  <2>1. Client(b)[1] = b
    BY EndNames
  <2> QED
    BY <2>1 DEF ClientSent, Go, serverVars
<1>2. /\ StreamTyped /\ TcpTyped /\ Present /\ Tape /\ Phase /\ Replaying
  BY Fields
<1>3. /\ StreamTyped' /\ OneAtATime' /\ got' = got
      /\ \A d \in Directions : Delivery(d)' /\ All(d)' = All(d)
      /\ \A d \in Ends : d # Client(b) => /\ sending'[d] = sending[d] /\ sent'[d] = sent[d]
                                          /\ trace'[d] = trace[d]
  BY <1>1, EndNames, SendOkStreams
<1>4. /\ at' \in [Clients -> Phases] /\ cursor' \in Nat /\ backlog' \in Seq(Clients)
      /\ next_id' \in Nat
      /\ at'[b] = ph /\ (\A c \in Clients : c # b => at'[c] = at[c])
      /\ \A c \in Clients : at'[c] = "new" => at[c] = "new"
      /\ BacklogDistinct'
  <2>1. ph \in Phases /\ ph # "new"
    BY DEF Phases
  <2> QED
    BY <1>1, <2>1, Went
<1>5. TcpTyped'
  BY <1>1, <1>2, <1>4 DEF TcpTyped
<1>6. Present'
  <2>1. \A c \in Clients : at'[c] \in {"left", "crashed"} <=> at[c] \in {"left", "crashed"}
    BY <1>1, <1>4
  <2> QED
    BY <1>1, <1>2, <2>1 DEF Present
<1>7. ASSUME NEW c \in Real
      PROVE  Talk(c)'
  <2>1. c \in Clients /\ Srv(c) \in Ends /\ Srv(c) \in Directions /\ Client(c) \in Directions
        /\ Srv(c) # Client(b)
    BY Names, EndNames, DirectionNames
  <2>2. sent'[Srv(c)] = sent[Srv(c)] /\ sending'[Srv(c)] = sending[Srv(c)]
    BY <1>3, <2>1
  <2> QED
    BY <1>1, <1>3, <1>4, <2>1, <2>2, TalkStays
<1>8. Tape' /\ Phase'
  <2>1. CASE b = Recorder
    <3>1. Client(Recorder) \in Directions
      BY Names, DirectionNames
    <3> QED
      BY <1>1, <1>3, <1>4, <2>1, <3>1, TapeGrows
  <2>2. CASE b # Recorder
    <3>1. Recorder \in Clients /\ Client(Recorder) \in Ends /\ Client(Recorder) # Client(b)
      BY <2>2, Names, EndNames
    <3> QED
      BY <1>2, <1>3, <1>4, <2>2, <3>1, RecordingKept
  <2> QED
    BY <2>1, <2>2
<1>9. Replaying'
  <2>1. Client(Replayer) \in Directions /\ Replayer \in Clients /\ Recorder \in Clients
        /\ Recorder # Replayer /\ Client(Recorder) \in Ends
        /\ (b # Recorder => Client(Recorder) # Client(b))
    BY Names, EndNames, DirectionNames
  <2>2. at[Replayer] # "new" => at[Recorder] = "left"
    BY <1>2 DEF Replaying
  <2>3. CASE b = Recorder
    <3>1. at[Replayer] = "new" /\ at'[Replayer] = "new"
      BY <1>1, <1>4, <2>1, <2>2, <2>3
    <3> QED
      BY <1>1, <1>3, <2>1, <3>1, ReplayingStays
  <2>4. CASE b # Recorder
    <3>1. sent'[Client(Recorder)] = sent[Client(Recorder)] /\ at'[Recorder] = at[Recorder]
      BY <1>3, <1>4, <2>1, <2>4
    <3>2. at'[Replayer] = "new" => at[Replayer] = "new"
      BY <1>4, <2>1
    <3>3. at'[Replayer] # "new" => at[Replayer] # "new"
      BY <1>1, <1>4, <2>1
    <3> QED
      BY <1>1, <1>3, <2>1, <2>2, <3>1, <3>2, <3>3, ReplayingStays
  <2> QED
    BY <2>3, <2>4
<1> QED
  BY <1>3, <1>4, <1>5, <1>6, <1>7, <1>8, <1>9 DEF IInv

---------------------------------------------------------------------------
(***************************************************************************)
(* A client calls send.                                                    *)
(***************************************************************************)
LEMMA BytesFacts ==
  ASSUME NEW m, m.len \in Nat \ {0}
  PROVE  Len(Bytes(m)) = m.len /\ Bytes(m) # << >> /\ Bytes(m)[1] = m
<1> DEFINE n == m.len
<1>1. n \in Nat /\ n >= 1 /\ Bytes(m) = [i \in 1 .. n |-> IF i = 1 THEN m ELSE None]
  BY DEF Bytes
<1> HIDE DEF n
<1>2. Len(Bytes(m)) = n /\ Bytes(m)[1] = m
  BY <1>1
<1>3. Bytes(m) # << >>
  BY <1>1, <1>2
<1> QED
  BY <1>2, <1>3 DEF n

LEMMA BytesShort ==
  ASSUME NEW m \in Byte, m.len \in Nat \ {0}, m.len \div 16777216 < 256
  PROVE  Bytes(m) \in ShortFrame
<1> DEFINE n == m.len
<1>1. n \in Nat /\ None \in Byte
  BY DEF Byte
<1>2. Bytes(m) = [i \in 1 .. n |-> IF i = 1 THEN m ELSE None]
  BY DEF Bytes
<1>3. Bytes(m) \in Seq(Byte) /\ Len(Bytes(m)) = n
  <2> HIDE DEF n
  <2>1. [i \in 1 .. n |-> IF i = 1 THEN m ELSE None] \in [1 .. n -> Byte]
    BY <1>1
  <2> QED
    BY <1>1, <1>2, <2>1
<1> QED
  BY <1>3, SMTT(30) DEF ShortFrame, Frame

LEMMA RequestBytes ==
  ASSUME NEW m \in Requests
  PROVE  /\ Bytes(m) \in ShortFrame /\ Len(Bytes(m)) = m.len /\ Bytes(m) # << >>
         /\ Bytes(m)[1] = m /\ is_request(Bytes(m)) /\ DecodesFrame(Bytes(m))
<1>1. /\ m.kind = "Request" /\ m.len \in Nat \ {0} /\ m.len \div 16777216 < 256 /\ m # None
      /\ m \in Byte
  BY RequestsAssumption DEF Byte
<1>2. Len(Bytes(m)) = m.len /\ Bytes(m) # << >> /\ Bytes(m)[1] = m
  BY <1>1, BytesFacts
<1>3. Bytes(m) \in ShortFrame
  BY <1>1, BytesShort
<1>4. DecodesFrame(Bytes(m))
  BY <1>1, <1>2 DEF DecodesFrame
<1> QED
  BY <1>1, <1>2, <1>3, <1>4 DEF is_request

LEMMA ReplyBytes ==
  ASSUME NEW r \in ReplyMessage
  PROVE  /\ Bytes(r) \in ShortFrame /\ Bytes(r) # << >> /\ Bytes(r)[1] = r
         /\ ~is_request(Bytes(r))
<1>1. r.len \in {1, 2} /\ r.kind = "Response" /\ r \in Byte
  BY DEF ReplyMessage, Byte
<1>2. r.len \in Nat \ {0} /\ r.len \div 16777216 < 256
  <2>1. 1 \div 16777216 < 256 /\ 2 \div 16777216 < 256
    BY SMTT(30)
  <2> QED
    BY <1>1, <2>1, SMTT(30)
<1>3. Bytes(r) # << >> /\ Bytes(r)[1] = r
  BY <1>2, BytesFacts
<1>4. Bytes(r) \in ShortFrame
  BY <1>1, <1>2, BytesShort
<1> QED
  BY <1>1, <1>3, <1>4 DEF is_request

LEMMA StartStreams ==
  ASSUME IInv, NEW e \in Ends, NEW f \in ShortFrame, StartSend(e, f),
         UNCHANGED <<pipe, in, shut, bookVars>>
  PROVE  /\ StreamTyped' /\ OneAtATime' /\ got' = got /\ sent' = sent /\ trace' = trace
         /\ shut' = shut
         /\ \A d \in Directions : Delivery(d)'
         /\ \A d \in Directions : d # e => All(d)' = All(d)
         /\ \A d \in Directions : d = e => All(d)' = Append(All(d), f)
         /\ \A d \in Ends : d # e => sending'[d] = sending[d]
         /\ sending[e] = << >>
<1>1. StreamTyped /\ OneAtATime /\ \A d \in Directions : Delivery(d)
  BY Fields
<1>2. /\ sending' \in [Ends -> Seq(ShortFrame)] /\ out' \in [Ends -> Seq(Byte)] /\ OneAtATime'
      /\ \A d \in Ends : d # e => sending'[d] = sending[d]
      /\ sending[e] = << >>
  BY <1>1, StartSendTyped
<1>3. got' = got /\ sent' = sent /\ trace' = trace /\ counts' = counts
  BY DEF bookVars
<1>4. StreamTyped'
  BY <1>1, <1>2, <1>3 DEF StreamTyped
<1>5. ASSUME NEW d \in Directions
      PROVE  /\ Delivery(d)' /\ (d # e => All(d)' = All(d))
             /\ d = e => All(d)' = Append(All(d), f)
  <2>1. d \in Ends /\ Delivery(d)
    BY <1>1, DirectionNames
  <2>2. Delivery(d)' /\ All(d)' = IF d = e THEN Append(All(d), f) ELSE All(d)
    BY <1>1, <2>1, StartSendDelivers
  <2> QED
    BY <2>2
<1> QED
  BY <1>2, <1>3, <1>4, <1>5

\* A conversation in which the client sends another request.
LEMMA TalkHears ==
  ASSUME IInv, NEW b \in Real, NEW f \in ShortFrame, NEW c \in Real,
         got' = got, sent' = sent, shut' = shut, sending'[Srv(c)] = sending[Srv(c)],
         All(Srv(c))' = All(Srv(c)),
         b # c => All(Client(c))' = All(Client(c)),
         b = c => All(Client(c))' = Append(All(Client(c)), f),
         UNCHANGED <<backlog, serving, session>>,
         at'[c] = "new" => at[c] = "new"
  PROVE  Talk(c)'
<1>1. c \in Clients /\ Srv(c) \in Ends /\ Client(c) \in Ends
  BY Names, EndNames
<1>2. Talk(c) /\ StreamTyped /\ OneAtATime /\ Delivery(Client(c)) /\ Delivery(Srv(c))
  BY Fields
<1>3. Len(All(Client(c))) \in Nat /\ Len(sent[Srv(c)]) \in Nat
  BY <1>1, <1>2, PrefixFacts
<1>4. InBacklog(c)' = InBacklog(c)
  BY DEF InBacklog
<1>5. All(Client(c)) \in Seq(ShortFrame)
  BY <1>1, <1>2, DirectionTyped
<1>6. /\ Len(All(Client(c))') \in Nat
      /\ Len(All(Client(c))) <= Len(All(Client(c))')
      /\ \A i \in 1 .. Len(All(Client(c))) : All(Client(c))'[i] = All(Client(c))[i]
  <2>1. CASE b # c
    BY <1>3, <2>1
  <2>2. CASE b = c
    <3> DEFINE a == All(Client(c))
    <3>1. a \in Seq(ShortFrame)
      BY <1>5
    <3> HIDE DEF a
    <3>2. /\ Len(Append(a, f)) \in Nat /\ Len(a) <= Len(Append(a, f))
          /\ \A i \in 1 .. Len(a) : Append(a, f)[i] = a[i]
      BY <3>1
    <3> QED
      BY <2>2, <3>2 DEF a
  <2> QED
    BY <2>1, <2>2
<1>7. shut[Client(c)] \in BOOLEAN
  BY <1>1, <1>2 DEF StreamTyped
<1> QED
  BY <1>1, <1>2, <1>3, <1>4, <1>6, <1>7, TalkKept

LEMMA SendsKeeps ==
  ASSUME IInv, NEW b \in Real, NEW f \in ShortFrame, at[b] = "ready", Sends(Client(b), f),
         cursor' \in Nat
  PROVE  /\ StreamTyped' /\ OneAtATime' /\ TcpTyped' /\ BacklogDistinct' /\ Present'
         /\ \A d \in Directions : Delivery(d)'
         /\ \A c \in Real : Talk(c)'
         /\ All(Client(b))' = Append(All(Client(b)), f)
         /\ \A c \in Real : c # b => All(Client(c))' = All(Client(c))
         /\ \A c \in Real : c # b => sending'[Client(c)] = sending[Client(c)]
         /\ sending[Client(b)] = << >>
         /\ at'[b] = "sending" /\ (\A c \in Clients : c # b => at'[c] = at[c])
         /\ sent' = sent /\ got' = got /\ trace' = trace
<1>1. /\ b \in Clients /\ Client(b) \in Ends /\ Client(b)[1] = b
  BY Names, EndNames
<1>2. /\ StartSend(Client(b), f) /\ UNCHANGED <<pipe, in, shut, bookVars>>
      /\ at' = [at EXCEPT ![b] = "sending"]
      /\ backlog' = backlog /\ serving' = serving /\ session' = session /\ next_id' = next_id
  BY <1>1 DEF Sends, Go, serverVars
<1>3. /\ StreamTyped' /\ OneAtATime' /\ got' = got /\ sent' = sent /\ trace' = trace
      /\ shut' = shut
      /\ \A d \in Directions : Delivery(d)'
      /\ \A d \in Directions : d # Client(b) => All(d)' = All(d)
      /\ \A d \in Directions : d = Client(b) => All(d)' = Append(All(d), f)
      /\ \A d \in Ends : d # Client(b) => sending'[d] = sending[d]
      /\ sending[Client(b)] = << >>
  BY <1>1, <1>2, StartStreams
<1>4. /\ at \in [Clients -> Phases] /\ backlog \in Seq(Clients) /\ TcpTyped /\ BacklogDistinct
      /\ Present
  BY Fields DEF TcpTyped
<1>5. /\ at' \in [Clients -> Phases] /\ at'[b] = "sending"
      /\ \A c \in Clients : c # b => at'[c] = at[c]
  BY <1>1, <1>2, <1>4 DEF Phases
<1>6. \A c \in Clients : at'[c] = "new" => at[c] = "new"
  BY <1>5
<1>7. BacklogDistinct'
  BY <1>2, <1>4, <1>6, BacklogKept
<1>8. TcpTyped'
  BY <1>2, <1>4, <1>5 DEF TcpTyped
<1>9. Present'
  <2>1. \A c \in Clients : at'[c] \in {"left", "crashed"} <=> at[c] \in {"left", "crashed"}
    BY <1>5
  <2> QED
    BY <1>3, <1>4, <2>1 DEF Present
<1>10. /\ All(Client(b))' = Append(All(Client(b)), f)
       /\ \A c \in Real : c # b => All(Client(c))' = All(Client(c))
       /\ \A c \in Real : c # b => sending'[Client(c)] = sending[Client(c)]
  <2>1. /\ \A c \in Real : c \in Clients /\ Client(c) \in Directions /\ Client(c) \in Ends
        /\ \A c \in Real : c # b => Client(c) # Client(b)
    BY <1>1, Names, EndNames, DirectionNames
  <2> QED
    BY <1>3, <2>1
<1>11. ASSUME NEW c \in Real
       PROVE  Talk(c)'
  <2>1. /\ c \in Clients /\ Srv(c) \in Directions /\ Srv(c) \in Ends /\ Srv(c) # Client(b)
    BY <1>1, Names, EndNames, DirectionNames
  <2>2. All(Srv(c))' = All(Srv(c)) /\ sending'[Srv(c)] = sending[Srv(c)]
    BY <1>3, <2>1
  <2>3. b = c => All(Client(c))' = Append(All(Client(c)), f)
    BY <1>10
  <2> QED
    BY <1>2, <1>3, <1>6, <1>10, <2>1, <2>2, <2>3, TalkHears
<1> QED
  BY <1>3, <1>5, <1>7, <1>8, <1>9, <1>10, <1>11

LEMMA CallKeeps ==
  ASSUME IInv, NEW b \in Clients, Call(Client(b))
  PROVE  IInv'
<1> DEFINE e == Client(Recorder)
<1>1. b = Recorder /\ at[Recorder] = "ready" /\ cursor' = cursor
  BY EndNames DEF Call
<1>2. PICK m \in Requests : Sends(e, Bytes(m))
  BY <1>1 DEF Call
<1>3. Bytes(m) \in ShortFrame /\ cursor' \in Nat /\ Recorder \in Real /\ Replayer \in Real
      /\ Recorder # Replayer /\ Replayer \in Clients
  BY <1>1, RequestBytes, Fields, Names DEF TcpTyped
<1>4. /\ StreamTyped' /\ OneAtATime' /\ TcpTyped' /\ BacklogDistinct' /\ Present'
      /\ \A d \in Directions : Delivery(d)'
      /\ \A c \in Real : Talk(c)'
      /\ All(e)' = Append(All(e), Bytes(m))
      /\ \A c \in Real : c # Recorder => All(Client(c))' = All(Client(c))
      /\ at'[Recorder] = "sending" /\ (\A c \in Clients : c # Recorder => at'[c] = at[c])
      /\ sent' = sent /\ got' = got /\ trace' = trace
  BY <1>1, <1>2, <1>3, SendsKeeps
<1>5. /\ e \in Ends /\ StreamTyped /\ Tape /\ Phase /\ Replaying
  BY Fields, Names, EndNames
<1>6. \A i \in 1 .. Len(All(e)') : \E x \in Requests : All(e)'[i] = Bytes(x)
  <2> DEFINE a == All(e)
             g == Bytes(m)
  <2>1. a \in Seq(ShortFrame) /\ g \in ShortFrame
    BY <1>3, <1>5, DirectionTyped
  <2>2. \A i \in 1 .. Len(a) : \E x \in Requests : a[i] = Bytes(x)
    BY <1>5 DEF Tape
  <2>3. \E x \in Requests : g = Bytes(x)
    OBVIOUS
  <2>4. All(e)' = Append(a, g)
    BY <1>4
  <2> HIDE DEF a, g
  <2>5. ASSUME NEW i \in 1 .. Len(Append(a, g))
        PROVE  \E x \in Requests : Append(a, g)[i] = Bytes(x)
    <3>1. CASE i = Len(a) + 1
      <4>1. Append(a, g)[i] = g
        BY <2>1, <3>1
      <4> QED
        BY <2>3, <4>1
    <3>2. CASE i \in 1 .. Len(a)
      <4>1. Append(a, g)[i] = a[i]
        BY <2>1, <3>2
      <4> QED
        BY <2>2, <3>2, <4>1
    <3> QED
      BY <2>1, <3>1, <3>2
  <2> QED
    BY <2>4, <2>5
<1>7. Tape'
  <2>1. Recorded' = Recorded
    BY <1>4 DEF Recorded
  <2> QED
    BY <1>4, <1>5, <1>6, <2>1 DEF Tape
<1>8. Phase'
  <2>1. Len(sent[e]) = Len(got[e])
    BY <1>1, <1>5 DEF Phase
  <2> QED
    BY <1>4, <2>1 DEF Phase
<1>9. Replaying'
  <2>1. at[Replayer] = "new"
    BY <1>1, <1>5 DEF Replaying
  <2>2. at'[Replayer] = "new" /\ All(Client(Replayer))' = All(Client(Replayer))
    BY <1>3, <1>4, <2>1
  <2> QED
    BY <1>1, <1>4, <2>1, <2>2, ReplayingStays
<1> QED
  BY <1>4, <1>7, <1>8, <1>9 DEF IInv

\* The requests of the recording are its frames of odd number.
LEMMA RecordedKinds ==
  ASSUME IInv
  PROVE  LET s == Len(sent[Client(Recorder)])
             g == Len(got[Client(Recorder)])
         IN  /\ s \in Nat /\ g \in Nat /\ (s = g \/ s = g + 1) /\ DOMAIN Recorded = 1 .. s + g
             /\ \A j \in 1 .. s : /\ is_request(Recorded[2 * j - 1])
                                  /\ Recorded[2 * j - 1] = sent[Client(Recorder)][j]
             /\ \A j \in 1 .. g : ~is_request(Recorded[2 * j])
<1> DEFINE e == Client(Recorder)
           s == Len(sent[e])
           g == Len(got[e])
<1>1. /\ e \in Ends /\ StreamTyped /\ OneAtATime /\ Tape /\ Delivery(e) /\ Delivery(Srv(Recorder))
      /\ Replies(Recorder) /\ Srv(Recorder) \in Ends /\ Peer(Srv(Recorder)) = e
  BY Fields, Names, EndNames DEF Talk
<1>2. s \in Nat /\ g \in Nat /\ sent[e] \in Seq(ShortFrame) /\ got[e] \in Seq(Frame)
      /\ Recorded \in Seq(Frame)
  BY <1>1 DEF StreamTyped, Recorded, Client
<1>3. /\ s = g \/ s = g + 1
      /\ Len(Recorded) = s + g
      /\ \A i \in 1 .. s : Recorded[2 * i - 1] = sent[e][i]
      /\ \A i \in 1 .. g : Recorded[2 * i] = got[e][i]
      /\ \A i \in 1 .. Len(All(e)) : \E m \in Requests : All(e)[i] = Bytes(m)
  BY <1>1 DEF Tape
<1>4. DOMAIN Recorded = 1 .. s + g
  BY <1>2, <1>3
<1>5. ASSUME NEW j \in 1 .. s
      PROVE  is_request(Recorded[2 * j - 1])
  <2>1. Len(All(e)) \in Nat /\ s <= Len(All(e)) /\ All(e)[j] = sent[e][j]
    BY <1>1, PrefixFacts
  <2>2. j \in 1 .. Len(All(e))
    BY <1>2, <2>1
  <2>3. PICK m \in Requests : All(e)[j] = Bytes(m)
    BY <1>3, <2>2
  <2> QED
    BY <1>3, <2>1, <2>3, RequestBytes
<1>6. ASSUME NEW j \in 1 .. g
      PROVE  ~is_request(Recorded[2 * j])
  <2> DEFINE a == All(Srv(Recorder))
  <2>1. Len(a) \in Nat /\ g <= Len(a) /\ a[j] = got[e][j]
    <3>1. /\ Len(a) \in Nat /\ Len(SentBy(Srv(Recorder))) \in Nat
          /\ g <= Len(SentBy(Srv(Recorder))) /\ Len(SentBy(Srv(Recorder))) <= Len(a)
          /\ a[j] = got[e][j]
      BY <1>1, PrefixFacts
    <3> QED
      BY <1>2, <3>1
  <2>2. j \in 1 .. Len(a)
    BY <1>2, <2>1
  <2>3. PICK r \in ReplyMessage : a[j] = Bytes(r)
    BY <1>1, <2>2 DEF Replies
  <2> QED
    BY <1>3, <2>1, <2>3, ReplyBytes
<1> QED
  BY <1>2, <1>3, <1>4, <1>5, <1>6

\* Replay's loop comes to the request after the ones it has sent.
LEMMA NextInOrder ==
  ASSUME IInv, NEW i \in DOMAIN Recorded, NextRequest(i)
  PROVE  LET n == Len(All(Client(Replayer)))
         IN  /\ n \in Nat /\ n + 1 <= Len(sent[Client(Recorder)])
             /\ i = 2 * (n + 1) - 1 /\ Recorded[i] = sent[Client(Recorder)][n + 1]
<1> DEFINE s == Len(sent[Client(Recorder)])
           g == Len(got[Client(Recorder)])
           n == Len(All(Client(Replayer)))
           j == (i + 1) \div 2
<1>1. /\ s \in Nat /\ g \in Nat /\ (s = g \/ s = g + 1) /\ DOMAIN Recorded = 1 .. s + g
      /\ \A k \in 1 .. s : /\ is_request(Recorded[2 * k - 1])
                           /\ Recorded[2 * k - 1] = sent[Client(Recorder)][k]
      /\ \A k \in 1 .. g : ~is_request(Recorded[2 * k])
  BY RecordedKinds
<1>2. n \in Nat /\ n <= s /\ cursor = IF n = 0 THEN 0 ELSE 2 * n - 1
  <2>1. Client(Replayer) \in Ends /\ StreamTyped /\ Replaying
    BY Fields, Names, EndNames
  <2>2. All(Client(Replayer)) \in Seq(ShortFrame)
    BY <2>1, DirectionTyped
  <2> QED
    BY <2>1, <2>2 DEF Replaying
<1>3. /\ i > cursor /\ is_request(Recorded[i])
      /\ \A k \in cursor + 1 .. i - 1 : ~is_request(Recorded[k])
  BY DEF NextRequest
<1> HIDE DEF s, g, n
<1>4. i \in 1 .. s + g /\ (i = 2 * j \/ i = 2 * j - 1) /\ j \in Nat
  <2>1. i \in 1 .. s + g
    BY <1>1
  <2>2. i \in Nat
    BY <1>1, <2>1
  <2> QED
    BY <2>1, <2>2
<1> HIDE DEF j
<1>5. i = 2 * j - 1 /\ j \in 1 .. s
  <2>1. CASE i = 2 * j
    <3>1. j \in 1 .. g
      BY <1>1, <1>4, <2>1
    <3> QED
      BY <1>1, <1>3, <2>1, <3>1
  <2>2. CASE i = 2 * j - 1
    BY <1>1, <1>4, <2>2
  <2> QED
    BY <1>4, <2>1, <2>2
<1>6. j > n
  BY <1>2, <1>3, <1>4, <1>5
<1>7. j = n + 1
  <2> SUFFICES ASSUME j > n + 1
               PROVE  FALSE
    BY <1>2, <1>4, <1>6
  <2>1. n + 1 \in 1 .. s /\ 2 * (n + 1) - 1 \in cursor + 1 .. i - 1
    BY <1>1, <1>2, <1>4, <1>5
  <2>2. is_request(Recorded[2 * (n + 1) - 1])
    BY <1>1, <2>1
  <2> QED
    BY <1>3, <2>1, <2>2
<1>8. n + 1 <= s /\ i = 2 * (n + 1) - 1 /\ Recorded[i] = sent[Client(Recorder)][n + 1]
  BY <1>1, <1>2, <1>5, <1>7
<1> QED
  BY <1>2, <1>8 DEF n, s

LEMMA ReplayKeeps ==
  ASSUME IInv, NEW b \in Clients, Replay(Client(b))
  PROVE  IInv'
<1> DEFINE e == Client(Replayer)
           a == All(e)
           n == Len(a)
           u == sent[Client(Recorder)]
<1>1. b = Replayer /\ at[Replayer] = "ready"
  BY EndNames DEF Replay
<1>2. PICK i \in DOMAIN Recorded : NextRequest(i) /\ Sends(e, Recorded[i]) /\ cursor' = i
  BY <1>1 DEF Replay
<1>3. n \in Nat /\ n + 1 <= Len(u) /\ i = 2 * (n + 1) - 1 /\ Recorded[i] = u[n + 1]
  BY <1>2, NextInOrder
<1>4. /\ Client(Recorder) \in Ends /\ e \in Ends /\ Recorder \in Real /\ Replayer \in Real
      /\ Recorder # Replayer /\ Recorder \in Clients /\ StreamTyped /\ Tape /\ Phase /\ Replaying
  BY Fields, Names, EndNames
<1>5. u \in Seq(ShortFrame) /\ a \in Seq(ShortFrame) /\ Len(u) \in Nat
  BY <1>4, DirectionTyped
<1> DEFINE f == u[n + 1]
<1>6. f \in ShortFrame /\ cursor' \in Nat
  <2> HIDE DEF n, u
  <2> QED
    BY <1>2, <1>3, <1>5
<1>7. /\ StreamTyped' /\ OneAtATime' /\ TcpTyped' /\ BacklogDistinct' /\ Present'
      /\ \A d \in Directions : Delivery(d)'
      /\ \A c \in Real : Talk(c)'
      /\ All(e)' = Append(a, f)
      /\ \A c \in Real : c # Replayer => sending'[Client(c)] = sending[Client(c)]
      /\ at'[Replayer] = "sending" /\ (\A c \in Clients : c # Replayer => at'[c] = at[c])
      /\ sent' = sent /\ got' = got /\ trace' = trace
  BY <1>1, <1>2, <1>3, <1>4, <1>6, SendsKeeps
<1>8. Tape' /\ Phase'
  BY <1>4, <1>7, RecordingKept
<1>9. Replaying'
  <2>1. /\ at[Recorder] = "left" /\ \A k \in 1 .. n : a[k] = u[k]
    BY <1>1, <1>4 DEF Replaying
  <2> DEFINE a1 == Append(a, f)
  <2>2. /\ Len(a1) = n + 1 /\ a1[n + 1] = f /\ \A k \in 1 .. n : a1[k] = a[k]
    BY <1>5, <1>6, Appended
  <2>3. All(e)' = a1 /\ sent'[Client(Recorder)] = u /\ at'[Recorder] = "left" /\ cursor' = 2 * (n + 1) - 1
        /\ at'[Replayer] = "sending"
    BY <1>2, <1>3, <1>4, <1>7, <2>1
  <2> HIDE DEF a1, n
  <2>4. \A k \in 1 .. n + 1 : a1[k] = u[k]
    <3> TAKE k \in 1 .. n + 1
    <3>1. CASE k = n + 1
      BY <2>2, <3>1
    <3>2. CASE k \in 1 .. n
      BY <2>1, <2>2, <3>2
    <3> QED
      BY <1>3, <3>1, <3>2
  <2>5. cursor' = IF Len(a1) = 0 THEN 0 ELSE 2 * Len(a1) - 1
    BY <1>3, <2>2, <2>3
  <2> QED
    BY <1>3, <2>2, <2>3, <2>4, <2>5 DEF Replaying
<1> QED
  BY <1>7, <1>8, <1>9 DEF IInv

---------------------------------------------------------------------------
(***************************************************************************)
(* A client receives.                                                      *)
(***************************************************************************)
LEMMA RecvOkStreams ==
  ASSUME IInv, NEW e \in Ends, RecvOk(e), ~shut[e], UNCHANGED <<sending, out, pipe, shut>>
  PROVE  /\ StreamTyped' /\ OneAtATime' /\ sent' = sent
         /\ \A d \in Directions : Delivery(d)' /\ All(d)' = All(d)
         /\ Received(e) \in Frame
         /\ got'[e] = Append(got[e], Received(e)) /\ trace'[e] = Append(trace[e], Received(e))
         /\ \A d \in Ends : d # e => got'[d] = got[d] /\ trace'[d] = trace[d]
<1>1. StreamTyped /\ OneAtATime /\ \A d \in Directions : Delivery(d)
  BY Fields
<1>2. /\ in' \in [Ends -> Seq(Byte)] /\ trace' \in [Ends -> Seq(Frame)]
      /\ counts' \in [Ends -> Counters] /\ got' \in [Ends -> Seq(Frame)] /\ sent' = sent
      /\ Received(e) \in Frame
      /\ got'[e] = Append(got[e], Received(e)) /\ trace'[e] = Append(trace[e], Received(e))
      /\ \A d \in Ends : d # e => got'[d] = got[d] /\ trace'[d] = trace[d]
  BY <1>1, RecvOkTyped
<1>3. StreamTyped' /\ OneAtATime'
  BY <1>1, <1>2 DEF StreamTyped, OneAtATime
<1>4. ASSUME NEW d \in Directions
      PROVE  Delivery(d)' /\ All(d)' = All(d)
  <2>1. d \in Ends /\ Delivery(d)
    BY <1>1, DirectionNames
  <2>2. CASE d # e
    BY <1>1, <2>1, <2>2, RecvOkDelivers
  <2>3. CASE d = e
    <3>1. /\ in'[Peer(d)] = in[Peer(d)] /\ got'[Peer(d)] = got[Peer(d)] /\ sent'[d] = sent[d]
          /\ Tally(d)' = Tally(d)
      BY <1>1, <2>3, RecvOkRest
    <3>2. Rest(d)' = Rest(d)
      BY <3>1 DEF Rest
    <3> QED
      BY <2>1, <3>2, Untouched
  <2> QED
    BY <2>2, <2>3
<1> QED
  BY <1>2, <1>3, <1>4

LEMMA TapeAnswered ==
  ASSUME IInv, at[Recorder] = "receiving", RecvOk(Client(Recorder)), UNCHANGED sending,
         at'[Recorder] = "ready", All(Client(Recorder))' = All(Client(Recorder))
  PROVE  Tape' /\ Phase'
<1> DEFINE e == Client(Recorder)
           f == Received(e)
           r == trace[e]
           u == sent[e]
           v == got[e]
<1>1. /\ e \in Ends /\ StreamTyped /\ Tape /\ Phase
  BY Fields, Names, EndNames
<1>2. /\ got'[e] = Append(v, f) /\ trace'[e] = Append(r, f) /\ sent' = sent /\ f \in Frame
  BY <1>1, RecvOkTyped
<1>3. u \in Seq(ShortFrame) /\ r \in Seq(Frame) /\ v \in Seq(Frame)
  BY <1>1 DEF StreamTyped
<1>4. /\ Len(u) = Len(v) + 1 /\ Len(r) = Len(u) + Len(v) /\ sending[e] = << >>
      /\ \A i \in 1 .. Len(u) : r[2 * i - 1] = u[i]
      /\ \A i \in 1 .. Len(v) : r[2 * i] = v[i]
      /\ \A i \in 1 .. Len(All(e)) : \E m \in Requests : All(e)[i] = Bytes(m)
  BY <1>1 DEF Tape, Phase, Recorded, Client
<1>5. /\ Recorded' = Append(r, f) /\ got'[e] = Append(v, f) /\ sent'[e] = u
      /\ sending'[e] = << >> /\ All(e)' = All(e)
  BY <1>2, <1>4 DEF Recorded, Client
<1>6. /\ Len(Append(r, f)) = Len(r) + 1 /\ Len(Append(v, f)) = Len(v) + 1
      /\ Len(u) \in Nat /\ Len(r) \in Nat /\ Len(v) \in Nat
      /\ \A i \in 1 .. Len(r) : Append(r, f)[i] = r[i]
      /\ \A i \in 1 .. Len(v) : Append(v, f)[i] = v[i]
      /\ Append(r, f)[Len(r) + 1] = f /\ Append(v, f)[Len(v) + 1] = f
  BY <1>2, <1>3, Appended
<1> DEFINE r1 == Append(r, f)
           v1 == Append(v, f)
<1> HIDE DEF e, f, r, u, v, r1, v1
<1>7. \A i \in 1 .. Len(v1) : r1[2 * i] = v1[i]
  <2> TAKE i \in 1 .. Len(v1)
  <2>1. CASE i \in 1 .. Len(v)
    <3>1. 2 * i \in 1 .. Len(r)
      BY <1>4, <1>6, <2>1
    <3> QED
      BY <1>4, <1>6, <2>1, <3>1 DEF r1, v1
  <2>2. CASE i = Len(v) + 1
    <3>1. 2 * i = Len(r) + 1
      BY <1>4, <1>6, <2>2
    <3> QED
      BY <1>6, <2>2, <3>1 DEF r1, v1
  <2> QED
    BY <1>6, <2>1, <2>2 DEF v1
<1>8. \A i \in 1 .. Len(u) : r1[2 * i - 1] = u[i]
  <2> TAKE i \in 1 .. Len(u)
  <2>1. 2 * i - 1 \in 1 .. Len(r)
    BY <1>4, <1>6
  <2> QED
    BY <1>4, <1>6, <2>1 DEF r1
<1>9. Len(u) = Len(v1) /\ Len(r1) = Len(u) + Len(v1)
  BY <1>4, <1>6 DEF v1, r1
<1>10. Tape'
  BY <1>4, <1>5, <1>7, <1>8, <1>9 DEF Tape, e, v1, r1
<1>11. Phase'
  BY <1>5, <1>9 DEF Phase, e, v1
<1> QED
  BY <1>10, <1>11

LEMMA ClientReceivedKeeps ==
  ASSUME IInv, NEW b \in Clients, ClientReceived(Client(b))
  PROVE  IInv'
<1>1. PICK ph \in {"receiving", "ready", "done"} :
        /\ at[b] = "receiving" /\ RecvOk(Client(b)) /\ UNCHANGED <<sending, out, pipe, shut>>
        /\ at' = [at EXCEPT ![b] = ph] /\ (b = Recorder => ph = "ready")
        /\ cursor' = cursor /\ backlog' = backlog /\ serving' = serving
        /\ session' = session /\ next_id' = next_id
  <2>1. Client(b)[1] = b
    BY EndNames
  <2> QED
    BY <2>1 DEF ClientReceived, Go, serverVars
<1>2. /\ StreamTyped /\ TcpTyped /\ Present /\ Tape /\ Phase /\ Replaying
  BY Fields
<1>3. /\ StreamTyped' /\ OneAtATime' /\ sent' = sent
      /\ \A d \in Directions : Delivery(d)' /\ All(d)' = All(d)
      /\ \A d \in Ends : d # Client(b) => got'[d] = got[d] /\ trace'[d] = trace[d]
  <2>1. Client(b) \in Ends /\ ~shut[Client(b)]
    BY <1>1, <1>2, EndNames DEF Present
  <2> QED
    BY <1>1, <2>1, RecvOkStreams
<1>4. /\ at' \in [Clients -> Phases] /\ cursor' \in Nat /\ backlog' \in Seq(Clients)
      /\ next_id' \in Nat
      /\ at'[b] = ph /\ (\A c \in Clients : c # b => at'[c] = at[c])
      /\ \A c \in Clients : at'[c] = "new" => at[c] = "new"
      /\ BacklogDistinct'
  <2>1. ph \in Phases /\ ph # "new"
    BY DEF Phases
  <2> QED
    BY <1>1, <2>1, Went
<1>5. TcpTyped'
  BY <1>1, <1>2, <1>4 DEF TcpTyped
<1>6. Present'
  <2>1. \A c \in Clients : at'[c] \in {"left", "crashed"} <=> at[c] \in {"left", "crashed"}
    BY <1>1, <1>4
  <2> QED
    BY <1>1, <1>2, <2>1 DEF Present
<1>7. ASSUME NEW c \in Real
      PROVE  Talk(c)'
  <2>1. c \in Clients /\ Srv(c) \in Ends /\ Srv(c) \in Directions /\ Client(c) \in Directions
        /\ Srv(c) # Client(b)
    BY Names, EndNames, DirectionNames
  <2>2. got'[Srv(c)] = got[Srv(c)]
    BY <1>3, <2>1
  <2> QED
    BY <1>1, <1>3, <1>4, <2>1, <2>2, TalkStays
<1>8. Tape' /\ Phase'
  <2>1. CASE b = Recorder
    <3>1. Client(Recorder) \in Directions
      BY Names, DirectionNames
    <3> QED
      BY <1>1, <1>3, <1>4, <2>1, <3>1, TapeAnswered
  <2>2. CASE b # Recorder
    <3>1. Recorder \in Clients /\ Client(Recorder) \in Ends /\ Client(Recorder) # Client(b)
      BY <2>2, Names, EndNames
    <3> QED
      BY <1>1, <1>2, <1>3, <1>4, <2>2, <3>1, RecordingKept
  <2> QED
    BY <2>1, <2>2
<1>9. Replaying'
  <2>1. Client(Replayer) \in Directions /\ Replayer \in Clients /\ Recorder \in Clients
        /\ Recorder # Replayer
    BY Names, DirectionNames
  <2>2. at[Replayer] # "new" => at[Recorder] = "left"
    BY <1>2 DEF Replaying
  <2>3. at'[Replayer] # "new" => at'[Recorder] = "left"
    <3>1. CASE b = Recorder
      <4>1. at[Replayer] = "new" /\ at'[Replayer] = "new"
        BY <1>1, <1>4, <2>1, <2>2, <3>1
      <4> QED
        BY <4>1
    <3>2. CASE b # Recorder
      <4>1. at'[Recorder] = at[Recorder] /\ (at'[Replayer] # "new" => at[Replayer] # "new")
        BY <1>1, <1>4, <2>1, <3>2
      <4> QED
        BY <2>2, <4>1
    <3> QED
      BY <3>1, <3>2
  <2>4. at'[Replayer] = "new" => at[Replayer] = "new"
    BY <1>4, <2>1
  <2> QED
    BY <1>1, <1>3, <2>1, <2>3, <2>4, ReplayingStays
<1> QED
  BY <1>3, <1>4, <1>5, <1>6, <1>7, <1>8, <1>9 DEF IInv

---------------------------------------------------------------------------
(***************************************************************************)
(* A client drops its socket.                                              *)
(***************************************************************************)
LEMMA DropStreams ==
  ASSUME IInv, NEW e \in Ends, Drop(e), UNCHANGED <<sending, out, bookVars>>
  PROVE  /\ StreamTyped' /\ OneAtATime'
         /\ sent' = sent /\ got' = got /\ trace' = trace
         /\ \A d \in Directions : Delivery(d)' /\ All(d)' = All(d)
         /\ shut'[e] /\ \A d \in Ends : d # e => shut'[d] = shut[d]
<1>1. StreamTyped /\ OneAtATime /\ \A d \in Directions : Delivery(d)
  BY Fields
<1>2. /\ shut' \in [Ends -> BOOLEAN] /\ in' \in [Ends -> Seq(Byte)] /\ pipe' \in [Ends -> Seq(Byte)]
      /\ shut'[e] /\ \A d \in Ends : d # e => shut'[d] = shut[d]
  BY <1>1, DropTyped
<1>3. sent' = sent /\ got' = got /\ trace' = trace /\ counts' = counts
  BY DEF bookVars
<1>4. StreamTyped' /\ OneAtATime'
  BY <1>1, <1>2, <1>3 DEF StreamTyped, OneAtATime
<1>5. ASSUME NEW d \in Directions
      PROVE  Delivery(d)' /\ All(d)' = All(d)
  <2>1. d \in Ends /\ Delivery(d) /\ Tally(d)' = Tally(d)
    BY <1>1, <1>3, DirectionNames DEF Tally
  <2> QED
    BY <1>1, <1>3, <2>1, DropDelivers
<1> QED
  BY <1>2, <1>3, <1>4, <1>5

LEMMA ClientDrops ==
  ASSUME IInv, NEW b \in Clients, NEW ph \in {"left", "crashed"},
         Drop(Client(b)), UNCHANGED <<sending, out, bookVars, cursor, serverVars>>,
         at' = [at EXCEPT ![b] = ph], at[b] \notin {"new", "left", "crashed"},
         b = Recorder /\ ph = "left" /\ Len(sent[Client(Recorder)]) = Len(got[Client(Recorder)]) + 1
           => ~Accepted(sent[Client(Recorder)][Len(sent[Client(Recorder)])])
  PROVE  IInv'
<1>1. /\ Client(b) \in Ends /\ backlog' = backlog /\ serving' = serving /\ session' = session
      /\ next_id' = next_id /\ sending' = sending /\ cursor' = cursor
  BY EndNames DEF serverVars
<1>2. /\ StreamTyped /\ TcpTyped /\ Present /\ Tape /\ Phase /\ Replaying
  BY Fields
<1>3. /\ StreamTyped' /\ OneAtATime'
      /\ sent' = sent /\ got' = got /\ trace' = trace
      /\ \A d \in Directions : Delivery(d)' /\ All(d)' = All(d)
      /\ shut'[Client(b)] /\ \A d \in Ends : d # Client(b) => shut'[d] = shut[d]
  BY <1>1, DropStreams
<1>4. /\ at' \in [Clients -> Phases] /\ cursor' \in Nat /\ backlog' \in Seq(Clients)
      /\ next_id' \in Nat
      /\ at'[b] = ph /\ (\A c \in Clients : c # b => at'[c] = at[c])
      /\ \A c \in Clients : at'[c] = "new" => at[c] = "new"
      /\ BacklogDistinct'
  <2>1. ph \in Phases /\ ph # "new"
    BY DEF Phases
  <2> QED
    BY <1>1, <2>1, Went
<1>5. TcpTyped'
  BY <1>1, <1>2, <1>4 DEF TcpTyped
<1>6. Present'
  <2> SUFFICES ASSUME NEW c \in Clients
               PROVE  shut'[Client(c)] <=> at'[c] \in {"left", "crashed"}
    BY DEF Present
  <2>1. CASE c = b
    BY <1>3, <1>4, <2>1
  <2>2. CASE c # b
    <3>1. Client(c) \in Ends /\ Client(c) # Client(b)
      BY <2>2, EndNames
    <3> QED
      BY <1>2, <1>3, <1>4, <2>2, <3>1 DEF Present
  <2> QED
    BY <2>1, <2>2
<1>7. ASSUME NEW c \in Real
      PROVE  Talk(c)'
  <2>1. c \in Clients /\ Srv(c) \in Ends /\ Srv(c) \in Directions /\ Client(c) \in Directions
        /\ Srv(c) # Client(b) /\ Client(c) \in Ends
    BY Names, EndNames, DirectionNames
  <2>2. shut'[Srv(c)] = shut[Srv(c)] /\ (shut'[Client(c)] = shut[Client(c)] \/ shut'[Client(c)])
    <3>1. CASE Client(c) = Client(b)
      BY <1>3, <2>1, <3>1
    <3>2. CASE Client(c) # Client(b)
      BY <1>3, <2>1, <3>2
    <3> QED
      BY <3>1, <3>2
  <2> QED
    BY <1>1, <1>3, <1>4, <2>1, <2>2, TalkStays
<1>8. Tape' /\ Phase'
  <2>1. \/ at'[Recorder] = at[Recorder]
        \/ at'[Recorder] = "crashed"
        \/ /\ at'[Recorder] = "left"
           /\ Len(sent[Client(Recorder)]) = Len(got[Client(Recorder)]) + 1
                => ~Accepted(sent[Client(Recorder)][Len(sent[Client(Recorder)])])
    BY <1>4, Names
  <2> QED
    BY <1>1, <1>2, <1>3, <2>1, RecordingKept
<1>9. Replaying'
  <2>1. Client(Replayer) \in Directions /\ Replayer \in Clients /\ Recorder \in Clients
        /\ Recorder # Replayer
    BY Names, DirectionNames
  <2>2. at[Replayer] # "new" => at[Recorder] = "left"
    BY <1>2 DEF Replaying
  <2>3. at'[Replayer] # "new" => at'[Recorder] = "left"
    <3>1. CASE b = Recorder
      <4>1. at[Replayer] = "new" /\ at'[Replayer] = "new"
        BY <1>4, <2>1, <2>2, <3>1
      <4> QED
        BY <4>1
    <3>2. CASE b # Recorder
      <4>1. at'[Recorder] = at[Recorder] /\ (at'[Replayer] # "new" => at[Replayer] # "new")
        BY <1>4, <2>1, <3>2
      <4> QED
        BY <2>2, <4>1
    <3> QED
      BY <3>1, <3>2
  <2>4. at'[Replayer] = "new" => at[Replayer] = "new"
    BY <1>4, <2>1
  <2> QED
    BY <1>1, <1>3, <2>1, <2>3, <2>4, ReplayingStays
<1> QED
  BY <1>3, <1>4, <1>5, <1>6, <1>7, <1>8, <1>9 DEF IInv

\* The recorder finds that the server has left before the reply came: the
\* server does not accept the request.
LEMMA LeftUnanswered ==
  ASSUME IInv, at[Recorder] = "receiving", shut[Srv(Recorder)]
  PROVE  ~Accepted(sent[Client(Recorder)][Len(sent[Client(Recorder)])])
<1> DEFINE c == Recorder
           s == Len(sent[Client(c)])
           g == Len(got[Client(c)])
           n == Len(sent[Srv(c)])
           h == Len(got[Srv(c)])
<1>1. /\ StreamTyped /\ OneAtATime /\ Present /\ Phase /\ Refused(c)
      /\ Delivery(Client(c)) /\ Delivery(Srv(c))
      /\ Client(c) \in Ends /\ Srv(c) \in Ends /\ c \in Clients
      /\ Peer(Client(c)) = Srv(c) /\ Peer(Srv(c)) = Client(c)
  BY Fields, Names, EndNames DEF Talk
<1>2. ~shut[Client(c)] /\ s = g + 1 /\ sending[Client(c)] = << >>
  BY <1>1 DEF Present, Phase
<1>3. /\ sending[Srv(c)] = << >>
      /\ \/ h = n + 1 /\ ~Accepted(got[Srv(c)][h])
         \/ h = n /\ n < Len(All(Client(c))) /\ ~Accepted(All(Client(c))[n + 1])
  BY <1>1, <1>2 DEF Refused
<1>4. /\ s \in Nat /\ h \in Nat /\ h <= s /\ All(Client(c)) = sent[Client(c)]
      /\ \A i \in 1 .. h : got[Srv(c)][i] = sent[Client(c)][i]
  BY <1>1, <1>2, PrefixFacts
<1>5. n \in Nat /\ g \in Nat /\ g <= n
  BY <1>1, <1>3, PrefixFacts
<1> HIDE DEF s, g, n, h
<1>6. CASE h = n + 1 /\ ~Accepted(got[Srv(c)][h])
  <2>1. h = s /\ h \in 1 .. h
    BY <1>2, <1>4, <1>5, <1>6
  <2> QED
    BY <1>4, <1>6, <2>1 DEF s
<1>7. CASE h = n /\ n < Len(All(Client(c))) /\ ~Accepted(All(Client(c))[n + 1])
  <2>1. n < s
    BY <1>4, <1>7 DEF s
  <2>2. n + 1 = s
    BY <1>2, <1>4, <1>5, <2>1
  <2> QED
    BY <1>4, <1>7, <2>2 DEF s
<1> QED
  BY <1>3, <1>6, <1>7

\* No reply is refused by recv for its length.
LEMMA RepliesShort ==
  ASSUME IInv, NEW c \in Real, ~shut[Client(c)]
  PROVE  ~TooLong(Client(c))
<1> SUFFICES ASSUME TooLong(Client(c))
             PROVE  FALSE
  OBVIOUS
<1> DEFINE d == Srv(c)
           g == Len(got[Client(c)])
<1>1. /\ StreamTyped /\ OneAtATime /\ Delivery(d) /\ d \in Ends /\ Peer(d) = Client(c) /\ Replies(c)
  BY Fields, Names, EndNames DEF Talk
<1>2. HasHeader(Client(c)) /\ Declared(Client(c)) > MAX_FRAME
  BY DEF TooLong
<1>3. g < Len(All(d)) /\ Declared(Client(c)) = Len(All(d)[g + 1]) /\ g \in Nat /\ Len(All(d)) \in Nat
  BY <1>1, <1>2, HeaderRead, PrefixFacts
<1> HIDE DEF g
<1>4. g + 1 \in 1 .. Len(All(d))
  BY <1>3
<1>5. PICK r \in ReplyMessage : Fits(r, got[Srv(c)], g + 1) /\ All(d)[g + 1] = Bytes(r)
  BY <1>1, <1>4 DEF Replies
<1>6. r.len \in Nat /\ r.len <= MAX_FRAME
  <2>1. DOMAIN REPLY_LEN = ServedOps
    BY DEF REPLY_LEN, ServedOps
  <2>2. OpAt(got[Srv(c)], g + 1) \in ServedOps /\ r.len = REPLY_LEN[OpAt(got[Srv(c)], g + 1)]
    BY <1>5 DEF Fits
  <2>3. r.len \in {1, 2}
    BY DEF ReplyMessage
  <2> QED
    BY <2>1, <2>2, <2>3, RepliesAssumption
<1>7. Len(Bytes(r)) = r.len
  BY <1>6 DEF Bytes
<1> QED
  BY <1>2, <1>3, <1>5, <1>6, <1>7, StreamAssumption

LEMMA LeaveKeeps ==
  ASSUME IInv, NEW b \in Clients, Leave(Client(b))
  PROVE  IInv'
<1>1. /\ Drop(Client(b)) /\ UNCHANGED <<sending, out, bookVars, cursor, serverVars>>
      /\ at' = [at EXCEPT ![b] = "left"]
      /\ at[b] \in {"done", "ready", "receiving", "sending"}
      /\ b = Recorder /\ at[b] = "receiving" => shut[Srv(b)]
  <2>1. Client(b)[1] = b /\ Peer(Client(b)) = Srv(b)
    BY EndNames
  <2>2. b = Recorder /\ at[b] = "receiving" => ~TooLong(Client(b))
    <3>1. Present /\ Recorder \in Real
      BY Fields, Names
    <3> QED
      BY <3>1, RepliesShort DEF Present
  <2> QED
    BY <2>1, <2>2 DEF Leave, Go, Eof, Reset
<1>2. b = Recorder /\ Len(sent[Client(Recorder)]) = Len(got[Client(Recorder)]) + 1
        => ~Accepted(sent[Client(Recorder)][Len(sent[Client(Recorder)])])
  <2> SUFFICES ASSUME b = Recorder,
                      Len(sent[Client(Recorder)]) = Len(got[Client(Recorder)]) + 1
               PROVE  ~Accepted(sent[Client(Recorder)][Len(sent[Client(Recorder)])])
    OBVIOUS
  <2>1. Len(sent[Client(Recorder)]) \in Nat /\ Len(got[Client(Recorder)]) \in Nat /\ Phase
    <3>1. sent[Client(Recorder)] \in Seq(ShortFrame) /\ got[Client(Recorder)] \in Seq(Frame) /\ Phase
      BY Fields, Names, EndNames DEF StreamTyped
    <3> QED
      BY <3>1
  <2>2. at[Recorder] = "receiving"
    <3>1. Len(sent[Client(Recorder)]) # Len(got[Client(Recorder)])
      BY <2>1
    <3> QED
      BY <1>1, <2>1, <3>1 DEF Phase
  <2> QED
    BY <1>1, <2>2, LeftUnanswered
<1> QED
  BY <1>1, <1>2, ClientDrops

LEMMA CrashKeeps ==
  ASSUME IInv, NEW b \in Clients, Crash(Client(b))
  PROVE  IInv'
<1>1. /\ Drop(Client(b)) /\ UNCHANGED <<sending, out, bookVars, cursor, serverVars>>
      /\ at' = [at EXCEPT ![b] = "crashed"]
      /\ at[b] \notin {"new", "left", "crashed"}
  BY EndNames DEF Crash, Go
<1> QED
  BY <1>1, ClientDrops

---------------------------------------------------------------------------
(***************************************************************************)
(* The server reads, answers and leaves.                                   *)
(***************************************************************************)

\* What a step of the server for one client leaves alone.
LEMMA ServerKeeps ==
  ASSUME IInv, NEW b \in Clients, StreamTyped', OneAtATime', TcpTyped',
         serving = b, serving' \in {b, None},
         UNCHANGED <<sent, at, cursor, backlog>>,
         \A d \in Ends : d # Srv(b) => /\ got'[d] = got[d] /\ trace'[d] = trace[d]
                                       /\ sending'[d] = sending[d] /\ shut'[d] = shut[d],
         \A d \in Directions : Delivery(d)',
         \A d \in Directions : d # Srv(b) => All(d)' = All(d),
         b \in Real => Talk(b)'
  PROVE  IInv'
<1>1. /\ StreamTyped /\ OneAtATime /\ TcpTyped /\ BacklogDistinct /\ Present
      /\ Tape /\ Phase /\ Replaying
  BY Fields
<1>2. \A c \in Clients : Client(c) \in Ends /\ Client(c) # Srv(b)
  BY EndNames
<1>3. Present'
  BY <1>1, <1>2 DEF Present
<1>4. BacklogDistinct' /\ \A c \in Clients : InBacklog(c)' = InBacklog(c)
  BY <1>1, BacklogKept DEF TcpTyped
<1>5. ASSUME NEW c \in Real
      PROVE  Talk(c)'
  <2>1. CASE c = b
    BY <2>1
  <2>2. CASE c # b
    <3>1. c \in Clients /\ Srv(c) \in Ends /\ Client(c) \in Ends /\ Srv(c) \in Directions
          /\ Client(c) \in Directions /\ Srv(c) # Srv(b) /\ Client(c) # Srv(b) /\ c # None
      BY <2>2, Names, EndNames, DirectionNames
    <3>2. All(Srv(c))' = All(Srv(c)) /\ All(Client(c))' = All(Client(c))
      BY <3>1
    <3>3. Len(All(Client(c))) \in Nat /\ Len(sent[Srv(c)]) \in Nat /\ Talk(c)
      BY <1>1, <3>1, Fields, PrefixFacts
    <3>4. /\ got'[Srv(c)] = got[Srv(c)] /\ shut'[Srv(c)] = shut[Srv(c)]
          /\ sending'[Srv(c)] = sending[Srv(c)] /\ shut'[Client(c)] = shut[Client(c)]
          /\ shut[Client(c)] \in BOOLEAN
      BY <1>1, <3>1 DEF StreamTyped
    <3>5. serving' # c
      BY <2>2, <3>1
    <3> QED
      BY <1>4, <3>1, <3>2, <3>3, <3>4, <3>5, TalkKept
  <2> QED
    BY <2>1, <2>2
<1>6. Tape' /\ Phase'
  <2>1. Client(Recorder) \in Ends /\ Client(Recorder) # Srv(b)
    BY <1>2, Names
  <2> QED
    BY <1>1, <2>1, RecordingKept
<1>7. Replaying'
  <2>1. Client(Replayer) \in Directions /\ Client(Replayer) # Srv(b)
    BY Names, DirectionNames, EndNames
  <2>2. at[Replayer] # "new" => at[Recorder] = "left"
    BY <1>1 DEF Replaying
  <2> QED
    BY <2>1, <2>2, ReplayingStays
<1> QED
  BY <1>3, <1>4, <1>5, <1>6, <1>7 DEF IInv

\* The server hangs up on a client that is gone, or whose next request it does
\* not accept.
LEMMA HangUpTalk ==
  ASSUME IInv, NEW b \in Real, serving = b, serving' = None, UNCHANGED <<sent, sending, at, backlog>>,
         got'[Srv(b)] = got[Srv(b)], shut'[Srv(b)],
         All(Client(b))' = All(Client(b)), All(Srv(b))' = All(Srv(b)),
         shut'[Client(b)] = shut[Client(b)],
         \/ shut[Client(b)]
         \/ /\ sending[Srv(b)] = << >>
            /\ Len(got[Srv(b)]) < Len(All(Client(b)))
            /\ ~Accepted(All(Client(b))[Len(got[Srv(b)]) + 1])
  PROVE  Talk(b)'
<1>1. /\ b \in Clients /\ b # None /\ Talk(b) /\ StreamTyped /\ OneAtATime /\ Srv(b) \in Ends
      /\ Delivery(Srv(b))
  BY Fields, Names, EndNames
<1>2. Replies(b)'
  BY <1>1 DEF Talk, Replies
<1>3. Waiting(b)'
  <2>1. at[b] # "new" /\ ~InBacklog(b)
    BY <1>1 DEF Talk, Waiting
  <2>2. ~InBacklog(b)'
    BY <2>1 DEF InBacklog
  <2> QED
    BY <1>1, <2>1, <2>2 DEF Waiting
<1>4. InSession(b)'
  BY <1>1 DEF InSession
<1>5. Refused(b)'
  <2>1. CASE shut[Client(b)]
    BY <2>1 DEF Refused
  <2>2. CASE /\ sending[Srv(b)] = << >>
             /\ Len(got[Srv(b)]) < Len(All(Client(b)))
             /\ ~Accepted(All(Client(b))[Len(got[Srv(b)]) + 1])
    <3>1. Len(All(Srv(b))) = Len(got[Srv(b)])
      BY <1>1 DEF Talk, InSession
    <3>2. All(Srv(b)) = sent[Srv(b)]
      BY <1>1, <2>2, PrefixFacts
    <3> QED
      BY <2>2, <3>1, <3>2 DEF Refused
  <2> QED
    BY <2>1, <2>2
<1> QED
  BY <1>2, <1>3, <1>4, <1>5 DEF Talk

LEMMA ClosingKeeps ==
  ASSUME IInv, NEW b \in Clients, serving = b,
         Drop(Srv(b)), serving' = None,
         UNCHANGED <<sending, out, bookVars, clientVars, backlog, session, next_id>>,
         \/ shut[Client(b)]
         \/ sending[Srv(b)] = << >> /\ TooLong(Srv(b))
  PROVE  IInv'
<1>1. /\ Srv(b) \in Ends /\ Client(b) \in Ends /\ Srv(b) # Client(b) /\ Peer(Client(b)) = Srv(b)
      /\ at' = at /\ cursor' = cursor
  BY EndNames DEF clientVars
<1>2. /\ StreamTyped' /\ OneAtATime'
      /\ sent' = sent /\ got' = got /\ trace' = trace
      /\ \A d \in Directions : Delivery(d)' /\ All(d)' = All(d)
      /\ shut'[Srv(b)] /\ \A d \in Ends : d # Srv(b) => shut'[d] = shut[d]
  BY <1>1, DropStreams
<1>3. TcpTyped'
  BY <1>1, Fields DEF TcpTyped
<1>4. ASSUME b \in Real
      PROVE  Talk(b)'
  <2>1. /\ StreamTyped /\ OneAtATime /\ Talk(b) /\ Delivery(Client(b)) /\ Srv(b) \in Directions
        /\ Client(b) \in Directions
    BY <1>4, Fields, DirectionNames
  <2>2. \/ shut[Client(b)]
        \/ /\ sending[Srv(b)] = << >>
           /\ Len(got[Srv(b)]) < Len(All(Client(b)))
           /\ ~Accepted(All(Client(b))[Len(got[Srv(b)]) + 1])
    <3>1. CASE sending[Srv(b)] = << >> /\ TooLong(Srv(b))
      <4>1. HasHeader(Srv(b)) /\ Declared(Srv(b)) > MAX_FRAME
        BY <3>1 DEF TooLong
      <4>2. ~shut[Srv(b)]
        BY <2>1 DEF Talk, Waiting
      <4> DEFINE h == Len(got[Srv(b)])
                 f == All(Client(b))[h + 1]
                 k == Len(f)
      <4>3. h < Len(All(Client(b))) /\ Declared(Srv(b)) = Len(f)
        BY <1>1, <2>1, <4>1, <4>2, HeaderRead
      <4>4. k \in Nat
        <5>1. All(Client(b)) \in Seq(ShortFrame) /\ h \in Nat
          BY <1>1, <2>1, DirectionTyped
        <5> DEFINE a == All(Client(b))
        <5>2. a \in Seq(ShortFrame) /\ h < Len(a)
          BY <4>3, <5>1
        <5> HIDE DEF a, h
        <5>3. a[h + 1] \in ShortFrame
          BY <5>1, <5>2
        <5>4. a[h + 1] \in Seq(Byte)
          BY <5>3 DEF ShortFrame, Frame
        <5> QED
          BY <5>4 DEF a
      <4>5. k > MAX_FRAME
        BY <4>1, <4>3
      <4>6. ~Accepted(f)
        <5> HIDE DEF k
        <5>1. ~(k <= MAX_FRAME)
          BY <4>4, <4>5, StreamAssumption
        <5> QED
          BY <5>1 DEF Accepted, k
      <4> QED
        BY <3>1, <4>3, <4>6
    <3> QED
      BY <3>1
  <2> QED
    BY <1>1, <1>2, <1>4, <2>1, <2>2, HangUpTalk
<1> QED
  BY <1>1, <1>2, <1>3, <1>4, ServerKeeps

LEMMA ServeClosesKeeps ==
  ASSUME IInv, NEW b \in Clients, ServeCloses(Srv(b))
  PROVE  IInv'
<1>1. Srv(b)[1] = b /\ Peer(Srv(b)) = Client(b)
  BY EndNames
<1> QED
  BY <1>1, ClosingKeeps DEF ServeCloses, HangUp, Eof

LEMMA ServeFailsKeeps ==
  ASSUME IInv, NEW b \in Clients, ServeFails(Srv(b))
  PROVE  IInv'
<1>1. Srv(b)[1] = b /\ Peer(Srv(b)) = Client(b)
  BY EndNames
<1> QED
  BY <1>1, ClosingKeeps DEF ServeFails, HangUp, Reset, SendFails

\* One more request changes none of the answers.
LEMMA FitsLonger ==
  ASSUME NEW fs \in Seq(Frame), NEW f \in Frame, NEW i \in 1 .. Len(fs), NEW r, Fits(r, fs, i)
  PROVE  Fits(r, Append(fs, f), i) /\ Append(fs, f)[i] = fs[i]
<1> DEFINE gs == Append(fs, f)
<1>1. Len(fs) \in Nat /\ \A j \in 1 .. Len(fs) : gs[j] = fs[j]
  BY Appended
<1> HIDE DEF gs
<1>2. i \in 1 .. Len(fs) /\ i - 1 \in Nat /\ \A j \in 1 .. i - 1 : j \in 1 .. Len(fs)
  BY <1>1
<1>3. OpAt(gs, i) = OpAt(fs, i) /\ \A j \in 1 .. i - 1 : OpAt(gs, j) = OpAt(fs, j)
  BY <1>1, <1>2 DEF OpAt
<1>4. Created(gs, i - 1) = Created(fs, i - 1)
  BY <1>2, <1>3, CreatedSame
<1>5. Fits(r, gs, i)
  BY <1>3, <1>4 DEF Fits
<1> QED
  BY <1>1, <1>5 DEF gs

\* Streams of other clients than the one that is served.
LEMMA ElsewhereUntouched ==
  ASSUME StreamTyped, NEW e \in Ends, RecvOk(e), NEW d \in Ends, d # e, d # Peer(e), Delivery(d),
         sending'[d] = sending[d], out'[d] = out[d], pipe'[d] = pipe[d],
         shut'[Peer(d)] = shut[Peer(d)]
  PROVE  Delivery(d)' /\ All(d)' = All(d)
<1>1. Peer(d) \in Ends /\ Peer(d) # e
  BY OtherEnds
<1>2. /\ sent' = sent
      /\ \A x \in Ends : x # e => in'[x] = in[x] /\ got'[x] = got[x] /\ counts'[x] = counts[x]
  BY RecvOkTyped
<1>3. Rest(d)' = Rest(d)
  BY <1>1, <1>2 DEF Rest, Tally
<1> QED
  BY <1>3, Untouched

LEMMA ServeRefusesKeeps ==
  ASSUME IInv, NEW b \in Clients, ServeRefuses(Srv(b))
  PROVE  IInv'
<1> DEFINE e == Srv(b)
           f == Received(e)
<1>1. /\ e \in Ends /\ Client(b) \in Ends /\ e # Client(b) /\ Peer(Client(b)) = e
      /\ Peer(e) = Client(b) /\ e[1] = b /\ b # None
  BY EndNames, Names
<1>2. /\ serving = b /\ sending[e] = << >> /\ RecvOk(e) /\ ~Served(f)
      /\ Drop(e) /\ serving' = None /\ sending' = sending /\ out' = out
      /\ at' = at /\ cursor' = cursor /\ backlog' = backlog /\ session' = session
      /\ next_id' = next_id
  BY <1>1 DEF ServeRefuses, HangUp, clientVars
<1>3. /\ StreamTyped /\ OneAtATime /\ \A d \in Directions : Delivery(d)
  BY Fields
<1>4. /\ in' \in [Ends -> Seq(Byte)] /\ trace' \in [Ends -> Seq(Frame)]
      /\ counts' \in [Ends -> Counters] /\ got' \in [Ends -> Seq(Frame)] /\ sent' = sent
      /\ f \in Frame /\ Whole(e) /\ got'[e] = Append(got[e], f)
      /\ \A d \in Ends : d # e => got'[d] = got[d] /\ trace'[d] = trace[d]
  BY <1>1, <1>2, <1>3, RecvOkTyped
<1>5. /\ shut' \in [Ends -> BOOLEAN] /\ pipe' \in [Ends -> Seq(Byte)] /\ shut'[e]
      /\ \A d \in Ends : d # e => /\ shut'[d] = shut[d]
                                  /\ d # Peer(e) => pipe'[d] = pipe[d]
  BY <1>1, <1>2, <1>3, DropTyped
<1>6. StreamTyped' /\ OneAtATime'
  BY <1>2, <1>3, <1>4, <1>5 DEF StreamTyped, OneAtATime
<1>7. TcpTyped'
  BY <1>2, Fields DEF TcpTyped
<1>8. ASSUME b \in Real
      PROVE  Talk(b) /\ ~shut[e]
  BY <1>2, <1>8, Fields DEF Talk, Waiting
<1>9. ASSUME NEW d \in Directions
      PROVE  Delivery(d)' /\ All(d)' = All(d)
  <2>1. d \in Ends /\ Delivery(d)
    BY <1>3, DirectionNames
  <2>2. CASE d # e /\ d # Peer(e)
    <3>1. Peer(d) \in Ends /\ Peer(d) # e
      BY <1>1, <2>1, <2>2, OtherEnds
    <3>2. pipe'[d] = pipe[d] /\ shut'[Peer(d)] = shut[Peer(d)]
      BY <1>5, <2>1, <2>2, <3>1
    <3> QED
      BY <1>1, <1>2, <1>3, <2>1, <2>2, <3>2, ElsewhereUntouched
  <2>3. CASE d = e
    <3>1. got'[Peer(d)] = got[Peer(d)] /\ sent'[d] = sent[d] /\ Tally(d)' = Tally(d)
      BY <1>1, <1>2, <1>3, <2>3, RecvOkRest
    <3> QED
      BY <1>1, <1>2, <1>3, <2>1, <2>3, <3>1, DropDelivers
  <2>4. CASE d = Peer(e)
    <3>1. d = Client(b) /\ b \in Real
      <4>1. d = Client(b)
        BY <1>1, <2>4
      <4>2. PICK c \in Real : d = Client(c) \/ d = Srv(c)
        BY DirectionNames
      <4>3. c \in Clients /\ Client(b) # Srv(c) /\ (b # c => Client(b) # Client(c))
        BY Names, EndNames
      <4> QED
        BY <4>1, <4>2, <4>3
    <3>2. ~shut[e]
      BY <1>8, <3>1
    <3> QED
      BY <1>1, <1>2, <1>3, <1>5, <2>1, <2>4, <3>1, <3>2, RecvOkDelivers
  <2> QED
    BY <2>2, <2>3, <2>4
<1>10. ASSUME b \in Real
       PROVE  Talk(b)'
  <2> DEFINE fs == got[e]
             as == All(e)
             n == Len(fs)
             gs == Append(fs, f)
  <2>1. Talk(b) /\ e \in Directions
    BY <1>8, <1>10, DirectionNames
  <2>2. /\ n \in Nat /\ Len(as) = n /\ as = sent[e] /\ fs \in Seq(Frame)
        /\ \A i \in 1 .. Len(as) : /\ Accepted(fs[i])
                                   /\ \E r \in ReplyMessage : Fits(r, fs, i) /\ as[i] = Bytes(r)
    <3>1. fs \in Seq(Frame)
      BY <1>1, <1>3 DEF StreamTyped
    <3>2. as = sent[e]
      BY <1>1, <1>2, <1>3, <2>1, PrefixFacts
    <3>3. Len(as) = n
      BY <1>2, <2>1 DEF Talk, InSession
    <3> QED
      BY <2>1, <3>1, <3>2, <3>3 DEF Talk, Replies
  <2>3. got'[e] = gs /\ All(e)' = as /\ sent'[e] = as /\ sending'[e] = << >>
    BY <1>2, <1>4, <1>9, <2>1, <2>2
  <2>4. /\ Len(gs) = n + 1 /\ gs[n + 1] = f /\ f \in Frame
    BY <1>4, <2>2, Appended
  <2>5. Replies(b)'
    <3>1. Len(as) <= Len(gs)
      BY <2>2, <2>4
    <3>2. ASSUME NEW i \in 1 .. Len(as)
          PROVE  /\ Accepted(gs[i])
                 /\ \E r \in ReplyMessage : Fits(r, gs, i) /\ as[i] = Bytes(r)
      <4>1. PICK r \in ReplyMessage : Fits(r, fs, i) /\ as[i] = Bytes(r)
        BY <2>2
      <4>2. Fits(r, gs, i) /\ gs[i] = fs[i]
        BY <2>2, <2>4, <4>1, FitsLonger
      <4> QED
        BY <2>2, <4>1, <4>2
    <3> QED
      BY <2>3, <3>1, <3>2 DEF Replies
  <2>6. Waiting(b)'
    <3>1. at[b] # "new" /\ ~InBacklog(b)
      BY <1>2, <2>1 DEF Talk, Waiting
    <3>2. ~InBacklog(b)'
      BY <1>2, <3>1 DEF InBacklog
    <3> QED
      BY <1>1, <1>2, <3>1, <3>2 DEF Waiting
  <2>7. InSession(b)'
    BY <1>1, <1>2 DEF InSession
  <2>8. Refused(b)'
    <3>1. ~Accepted(f)
      BY <1>2 DEF Accepted, Served, Answers, ServedOps
    <3>2. Len(got'[e]) = Len(sent'[e]) + 1 /\ ~Accepted(got'[e][Len(got'[e])])
      BY <2>2, <2>3, <2>4, <3>1
    <3> QED
      BY <2>3, <3>2 DEF Refused
  <2> QED
    BY <2>5, <2>6, <2>7, <2>8 DEF Talk
<1> QED
  BY <1>1, <1>2, <1>4, <1>5, <1>6, <1>7, <1>9, <1>10, ServerKeeps

\* What the session makes of a message it serves.
LEMMA ReplyFacts ==
  ASSUME NEW m, m.op \in ServedOps, session \in [id : Nat, next_seq : Nat, instances : Nat]
  PROVE  /\ Reply(m) \in ReplyMessage
         /\ Reply(m).op = REPLY_OP[m.op] /\ Reply(m).seq = session.next_seq
         /\ Reply(m).len = REPLY_LEN[m.op]
         /\ m.op = "NOOP" => Reply(m).value = 0
         /\ m.op = "CREATE_INSTANCE" => Reply(m).value = session.instances
<1>1. m.op = "HELLO" \/ m.op = "NOOP" \/ m.op = "CREATE_INSTANCE"
  BY DEF ServedOps
<1>2. session.id \in Nat /\ session.next_seq \in Nat /\ session.instances \in Nat
  OBVIOUS
<1>3. /\ Answers["HELLO"] = session.id /\ Answers["NOOP"] = 0
      /\ Answers["CREATE_INSTANCE"] = session.instances
  BY DEF Answers
<1>4. REPLY_LEN[m.op] \in {1, 2} /\ Answers[m.op] \in Nat
  BY <1>1, <1>2, <1>3 DEF REPLY_LEN
<1>5. Reply(m) \in ReplyMessage
  <2>1. REPLY_OP[m.op] \in {"WELCOME", "NOOP", "CREATE_INSTANCE"}
    BY <1>1 DEF REPLY_OP
  <2> QED
    BY <1>2, <1>4, <2>1 DEF Reply, ReplyMessage
<1> QED
  BY <1>3, <1>5 DEF Reply

\* A new session's answer to one more request.
LEMMA FitsNext ==
  ASSUME NEW fs \in Seq(Frame), NEW f \in Frame, NEW r \in ReplyMessage,
         f[1].op \in ServedOps,
         r.op = REPLY_OP[f[1].op], r.seq = Len(fs) + 1, r.len = REPLY_LEN[f[1].op],
         f[1].op = "NOOP" => r.value = 0,
         f[1].op = "CREATE_INSTANCE" => r.value = Created(fs, Len(fs))
  PROVE  /\ Fits(r, Append(fs, f), Len(fs) + 1)
         /\ Created(Append(fs, f), Len(fs) + 1) =
              IF f[1].op = "CREATE_INSTANCE" THEN Created(fs, Len(fs)) + 1
              ELSE Created(fs, Len(fs))
<1> DEFINE gs == Append(fs, f)
           n == Len(fs)
<1>1. n \in Nat /\ gs[n + 1] = f /\ \A j \in 1 .. n : gs[j] = fs[j]
  BY Appended
<1> HIDE DEF gs
<1>2. OpAt(gs, n + 1) = f[1].op /\ \A j \in 1 .. n : OpAt(gs, j) = OpAt(fs, j)
  BY <1>1 DEF OpAt
<1>3. Created(gs, n) = Created(fs, n)
  BY <1>1, <1>2, CreatedSame
<1>4. Created(gs, n + 1) =
        IF OpAt(gs, n + 1) = "CREATE_INSTANCE" THEN Created(gs, n) + 1 ELSE Created(gs, n)
  BY <1>1, CreatedNext
<1>5. (n + 1) - 1 = n
  BY <1>1
<1>6. Fits(r, gs, n + 1)
  BY <1>2, <1>3, <1>5 DEF Fits
<1> QED
  BY <1>2, <1>3, <1>4, <1>6 DEF gs

LEMMA ServeFrameTalk ==
  ASSUME IInv, NEW b \in Real, serving = b, serving' = serving, NEW f \in Frame, Served(f),
         Len(f) <= MAX_FRAME, UNCHANGED <<shut, at, backlog>>,
         got'[Srv(b)] = Append(got[Srv(b)], f),
         All(Srv(b))' = Append(All(Srv(b)), Bytes(Reply(f[1]))),
         session' = [session EXCEPT !.next_seq = @ + 1,
                       !.instances = IF f[1].op = "CREATE_INSTANCE" THEN @ + 1 ELSE @]
  PROVE  Talk(b)'
<1> DEFINE e == Srv(b)
           fs == got[e]
           as == All(e)
           n == Len(fs)
           m == f[1]
           r == Reply(m)
           gs == Append(fs, f)
           bs == Append(as, Bytes(r))
<1>1. /\ b \in Clients /\ e \in Ends /\ StreamTyped /\ Talk(b) /\ TcpTyped /\ b # None
  BY Fields, Names, EndNames
<1>2. session \in [id : Nat, next_seq : Nat, instances : Nat]
  BY <1>1 DEF TcpTyped
<1>3. /\ fs \in Seq(Frame) /\ as \in Seq(ShortFrame) /\ n \in Nat
  BY <1>1, DirectionTyped DEF StreamTyped
<1>4. Len(as) = n /\ session.next_seq = n + 1 /\ session.instances = Created(fs, n)
  BY <1>1 DEF Talk, InSession
<1>5. m.op \in ServedOps /\ Accepted(f)
  BY DEF Served, Answers, ServedOps, Accepted
<1>6. /\ r \in ReplyMessage /\ r.op = REPLY_OP[m.op] /\ r.seq = session.next_seq
      /\ r.len = REPLY_LEN[m.op] /\ (m.op = "NOOP" => r.value = 0)
      /\ m.op = "CREATE_INSTANCE" => r.value = session.instances
  BY <1>2, <1>5, ReplyFacts
<1> HIDE DEF r
<1>7. Bytes(r) \in ShortFrame
  BY <1>6, ReplyBytes
<1>8. /\ Fits(r, gs, n + 1)
      /\ Created(gs, n + 1) =
           IF m.op = "CREATE_INSTANCE" THEN Created(fs, n) + 1 ELSE Created(fs, n)
  BY <1>3, <1>4, <1>5, <1>6, FitsNext
<1>9. /\ Len(gs) = n + 1 /\ gs[n + 1] = f
      /\ Len(bs) = n + 1 /\ bs[n + 1] = Bytes(r) /\ \A i \in 1 .. n : bs[i] = as[i]
  <2>1. Len(gs) = n + 1 /\ gs[n + 1] = f
    BY <1>3, Appended
  <2>2. Len(bs) = n + 1 /\ bs[n + 1] = Bytes(r) /\ \A i \in 1 .. n : bs[i] = as[i]
    BY <1>3, <1>4, <1>7, Appended
  <2> QED
    BY <2>1, <2>2
<1>10. got'[e] = gs /\ All(e)' = bs
  BY DEF r
<1>11. Replies(b)'
  <2>1. ASSUME NEW i \in 1 .. n + 1
        PROVE  /\ Accepted(gs[i])
               /\ \E x \in ReplyMessage : Fits(x, gs, i) /\ bs[i] = Bytes(x)
    <3>1. CASE i = n + 1
      BY <1>5, <1>6, <1>8, <1>9, <3>1
    <3>2. CASE i \in 1 .. n
      <4>1. Accepted(fs[i]) /\ \E x \in ReplyMessage : Fits(x, fs, i) /\ as[i] = Bytes(x)
        BY <1>1, <1>4, <3>2 DEF Talk, Replies
      <4>2. PICK x \in ReplyMessage : Fits(x, fs, i) /\ as[i] = Bytes(x)
        BY <4>1
      <4>3. Fits(x, gs, i) /\ gs[i] = fs[i]
        BY <1>3, <3>2, <4>2, FitsLonger
      <4> QED
        BY <1>9, <3>2, <4>1, <4>2, <4>3
    <3>3. i = n + 1 \/ i \in 1 .. n
      <4> HIDE DEF n
      <4> QED
        BY <1>3
    <3> QED
      BY <3>1, <3>2, <3>3
  <2>2. Len(bs) <= Len(gs)
    BY <1>3, <1>9
  <2> HIDE DEF gs, bs, n
  <2>3. \A i \in 1 .. Len(bs) : /\ Accepted(gs[i])
                                /\ \E x \in ReplyMessage : Fits(x, gs, i) /\ bs[i] = Bytes(x)
    BY <1>9, <2>1
  <2> QED
    BY <1>10, <2>2, <2>3 DEF Replies
<1>12. Waiting(b)'
  <2>1. at[b] # "new" /\ ~InBacklog(b) /\ ~shut[e]
    BY <1>1 DEF Talk, Waiting
  <2>2. ~InBacklog(b)'
    BY <2>1 DEF InBacklog
  <2> QED
    BY <2>1, <2>2 DEF Waiting
<1>13. InSession(b)'
  <2>1. /\ session'.next_seq = (n + 1) + 1
        /\ session'.instances = IF m.op = "CREATE_INSTANCE" THEN Created(fs, n) + 1
                                ELSE Created(fs, n)
    <3> HIDE DEF n, fs, m
    <3>1. /\ session'.next_seq = session.next_seq + 1
          /\ session'.instances = IF m.op = "CREATE_INSTANCE" THEN session.instances + 1
                                  ELSE session.instances
      BY <1>2 DEF m
    <3> QED
      BY <1>4, <3>1
  <2>2. session'.instances = Created(gs, n + 1)
    BY <1>8, <2>1
  <2> HIDE DEF gs, bs, n
  <2> QED
    BY <1>9, <1>10, <2>1, <2>2 DEF InSession
<1>14. Refused(b)'
  BY <1>1 DEF Refused, Talk, Waiting
<1> QED
  BY <1>11, <1>12, <1>13, <1>14 DEF Talk

LEMMA ServeFrameKeeps ==
  ASSUME IInv, NEW b \in Clients, ServeFrame(Srv(b))
  PROVE  IInv'
<1> DEFINE e == Srv(b)
           f == Received(e)
           x == Bytes(Reply(f[1]))
<1>1. /\ e \in Ends /\ Client(b) \in Ends /\ e # Client(b) /\ Peer(Client(b)) = e
      /\ Peer(e) = Client(b) /\ e[1] = b /\ b # None
  BY EndNames, Names
<1>2. /\ serving = b /\ RecvOk(e) /\ Served(f) /\ StartSend(e, x)
      /\ session' = [session EXCEPT !.next_seq = @ + 1,
                       !.instances = IF f[1].op = "CREATE_INSTANCE" THEN @ + 1 ELSE @]
      /\ pipe' = pipe /\ shut' = shut
      /\ at' = at /\ cursor' = cursor /\ backlog' = backlog /\ serving' = serving
      /\ next_id' = next_id
  BY <1>1 DEF ServeFrame, clientVars
<1>3. /\ StreamTyped /\ OneAtATime /\ TcpTyped /\ \A d \in Directions : Delivery(d)
  BY Fields
<1>4. session \in [id : Nat, next_seq : Nat, instances : Nat]
  BY <1>1, <1>2, <1>3 DEF TcpTyped
<1>5. x \in ShortFrame
  <2>1. f[1].op \in ServedOps
    BY <1>2 DEF Served, Answers, ServedOps
  <2> QED
    BY <1>4, <2>1, ReplyFacts, ReplyBytes
<1> HIDE DEF x
<1>6. /\ in' \in [Ends -> Seq(Byte)] /\ trace' \in [Ends -> Seq(Frame)]
      /\ counts' \in [Ends -> Counters] /\ got' \in [Ends -> Seq(Frame)] /\ sent' = sent
      /\ f \in Frame /\ Whole(e) /\ got'[e] = Append(got[e], f)
      /\ \A d \in Ends : d # e => got'[d] = got[d] /\ trace'[d] = trace[d]
  BY <1>1, <1>2, <1>3, RecvOkTyped
<1>7. /\ sending' \in [Ends -> Seq(ShortFrame)] /\ out' \in [Ends -> Seq(Byte)]
      /\ OneAtATime'
      /\ sending[e] = << >> /\ sending'[e] = <<x>> /\ out'[e] = Encoded(x)
      /\ \A d \in Ends : d # e => sending'[d] = sending[d] /\ out'[d] = out[d]
  BY <1>1, <1>2, <1>3, <1>5, StartSendTyped
<1>8. StreamTyped'
  BY <1>2, <1>3, <1>6, <1>7 DEF StreamTyped
<1>9. TcpTyped'
  <2>1. PICK k \in {session.instances + 1, session.instances} :
          session' = [session EXCEPT !.next_seq = session.next_seq + 1, !.instances = k]
    BY <1>2
  <2>2. session' \in [id : Nat, next_seq : Nat, instances : Nat]
    <3>1. session.next_seq + 1 \in Nat /\ k \in Nat
      BY <1>4, <2>1
    <3>2. [session EXCEPT !.next_seq = session.next_seq + 1, !.instances = k]
            \in [id : Nat, next_seq : Nat, instances : Nat]
      BY <1>4, <3>1
    <3> QED
      BY <2>1, <3>2
  <2> QED
    BY <1>2, <1>3, <2>2 DEF TcpTyped
<1>10. ASSUME b \in Real
       PROVE  ~shut[e]
  BY <1>2, <1>10, Fields DEF Talk, Waiting
<1>11. ASSUME NEW d \in Directions
       PROVE  /\ Delivery(d)' /\ (d # e => All(d)' = All(d))
              /\ d = e => All(d)' = Append(All(d), x)
  <2>1. d \in Ends /\ Delivery(d)
    BY <1>3, DirectionNames
  <2>2. CASE d # e /\ d # Peer(e)
    BY <1>1, <1>2, <1>3, <1>7, <2>1, <2>2, ElsewhereUntouched
  <2>3. CASE d = e
    <3>1. /\ in'[Peer(d)] = in[Peer(d)] /\ got'[Peer(d)] = got[Peer(d)] /\ sent'[d] = sent[d]
          /\ Tally(d)' = Tally(d)
      BY <1>1, <1>2, <1>3, <2>3, RecvOkRest
    <3>2. Rest(d)' = Rest(d)
      BY <1>2, <3>1 DEF Rest
    <3> QED
      BY <1>3, <1>5, <1>7, <2>1, <2>3, <3>2, DirectionStarts
  <2>4. CASE d = Peer(e)
    <3>1. d = Client(b) /\ b \in Real
      <4>1. d = Client(b)
        BY <1>1, <2>4
      <4>2. PICK c \in Real : d = Client(c) \/ d = Srv(c)
        BY DirectionNames
      <4>3. c \in Clients /\ Client(b) # Srv(c) /\ (b # c => Client(b) # Client(c))
        BY Names, EndNames
      <4> QED
        BY <4>1, <4>2, <4>3
    <3>2. ~shut[e] /\ d # e
      BY <1>1, <1>10, <3>1
    <3>3. sending'[d] = sending[d] /\ out'[d] = out[d]
      BY <1>7, <2>1, <3>2
    <3> QED
      BY <1>1, <1>2, <1>3, <2>1, <3>2, <3>3, RecvOkDelivers
  <2> QED
    BY <2>2, <2>3, <2>4
<1>12. ASSUME b \in Real
       PROVE  Talk(b)'
  <2>1. e \in Directions /\ Client(b) \in Directions
    BY <1>12, DirectionNames
  <2>2. Len(f) <= MAX_FRAME
    BY <1>1, <1>3, <1>6, <1>10, <1>12, <2>1, WholeRead
  <2>3. All(e)' = Append(All(e), Bytes(Reply(f[1])))
    BY <1>11, <2>1 DEF x
  <2> QED
    BY <1>2, <1>6, <1>12, <2>2, <2>3, ServeFrameTalk
<1> QED
  BY <1>1, <1>2, <1>6, <1>7, <1>8, <1>9, <1>11, <1>12, ServerKeeps

---------------------------------------------------------------------------
(***************************************************************************)
(* The stranger.                                                           *)
(***************************************************************************)
LEMMA ScribbleKeeps ==
  ASSUME IInv, NEW b \in Clients, Scribble(Client(b))
  PROVE  IInv'
<1> DEFINE e == Client(Stranger)
<1>1. /\ b = Stranger /\ at[Stranger] = "new" /\ backlog' = Append(backlog, Stranger)
      /\ (\E x \in Scribbles : pipe' = [pipe EXCEPT ![e] = x])
      /\ at' = [at EXCEPT ![Stranger] = "idle"]
      /\ sending' = sending /\ out' = out /\ in' = in /\ shut' = shut
      /\ sent' = sent /\ got' = got /\ trace' = trace /\ counts' = counts
      /\ UNCHANGED <<cursor, serving, session, next_id>>
  <2>1. Client(b)[1] = b
    BY EndNames
  <2> QED
    BY <2>1 DEF Scribble, Go, bookVars
<1>2. PICK x \in Scribbles : pipe' = [pipe EXCEPT ![e] = x]
  BY <1>1
<1>3. x \in Seq(Byte)
  <2> DEFINE n == Len(x)
  <2>1. n \in Nat /\ x = [i \in 1 .. n |-> x[i]]
    BY ScribblesAssumption
  <2>2. ASSUME NEW i \in 1 .. n
        PROVE  x[i] \in Byte
    <3> DEFINE S == {x[j] : j \in 1 .. Len(x)}
    <3>1. x[i] \in S
      OBVIOUS
    <3>2. S \in {{b1[j] : j \in 1 .. Len(b1)} : b1 \in Scribbles}
      OBVIOUS
    <3> HIDE DEF S
    <3> QED
      BY <3>1, <3>2 DEF Byte
  <2> HIDE DEF n
  <2>3. x \in [1 .. n -> Byte]
    BY <2>1, <2>2
  <2> QED
    BY <2>1, <2>3
<1>4. /\ StreamTyped /\ OneAtATime /\ TcpTyped /\ BacklogDistinct /\ Present /\ Tape /\ Phase
      /\ Replaying /\ \A d \in Directions : Delivery(d)
  BY Fields
<1>5. StreamTyped' /\ OneAtATime'
  <2>1. pipe' \in [Ends -> Seq(Byte)]
    BY <1>2, <1>3, <1>4 DEF StreamTyped
  <2> QED
    BY <1>1, <1>4, <2>1 DEF StreamTyped, OneAtATime
<1>6. ASSUME NEW d \in Directions
      PROVE  Delivery(d)' /\ All(d)' = All(d)
  <2>1. d \in Ends /\ d # e
    <3>1. PICK c \in Real : d = Client(c) \/ d = Srv(c)
      BY DirectionNames
    <3>2. c \in Clients /\ c # Stranger /\ Stranger \in Clients
      BY Names
    <3> QED
      BY <3>1, <3>2, EndNames
  <2>2. pipe'[d] = pipe[d]
    BY <1>2, <1>4, <2>1 DEF StreamTyped
  <2>3. Rest(d)' = Rest(d)
    BY <1>1, <2>2 DEF Rest, Tally
  <2> QED
    BY <1>1, <1>4, <2>1, <2>3, Untouched
<1>7. /\ at \in [Clients -> Phases] /\ backlog \in Seq(Clients) /\ Stranger \in Clients
  BY <1>4, Names DEF TcpTyped
<1>8. /\ backlog' \in Seq(Clients) /\ BacklogDistinct'
      /\ \A c \in Clients : InBacklog(c)' => InBacklog(c) \/ c = Stranger
  BY <1>1, <1>4, <1>7, BacklogAppend
<1>9. /\ at' \in [Clients -> Phases] /\ at'[Stranger] = "idle"
      /\ \A c \in Clients : c # Stranger => at'[c] = at[c]
  BY <1>1, <1>7 DEF Phases
<1>10. TcpTyped'
  BY <1>1, <1>4, <1>8, <1>9 DEF TcpTyped
<1>11. Present'
  <2>1. \A c \in Clients : at'[c] \in {"left", "crashed"} <=> at[c] \in {"left", "crashed"}
    BY <1>1, <1>9
  <2> QED
    BY <1>1, <1>4, <2>1 DEF Present
<1>12. ASSUME NEW c \in Real
       PROVE  Talk(c)'
  <2>1. c \in Clients /\ Srv(c) \in Ends /\ Client(c) \in Ends /\ Srv(c) \in Directions
        /\ Client(c) \in Directions /\ c # Stranger
    BY Names, EndNames, DirectionNames
  <2>2. All(Srv(c))' = All(Srv(c)) /\ All(Client(c))' = All(Client(c))
    BY <1>6, <2>1
  <2>3. Len(All(Client(c))) \in Nat /\ Len(sent[Srv(c)]) \in Nat /\ Talk(c)
    BY <1>4, <2>1, Fields, PrefixFacts
  <2>4. shut[Client(c)] \in BOOLEAN
    BY <1>4, <2>1 DEF StreamTyped
  <2>5. at'[c] = at[c] /\ (InBacklog(c)' => InBacklog(c))
    BY <1>8, <1>9, <2>1
  <2> QED
    BY <1>1, <2>1, <2>2, <2>3, <2>4, <2>5, TalkKept
<1>13. at'[Recorder] = at[Recorder] /\ at'[Replayer] = at[Replayer]
       /\ Client(Replayer) \in Directions
  BY <1>9, Names, DirectionNames
<1>14. Tape' /\ Phase'
  BY <1>1, <1>4, <1>13, RecordingKept
<1>15. Replaying'
  <2>1. at[Replayer] # "new" => at[Recorder] = "left"
    BY <1>4 DEF Replaying
  <2> QED
    BY <1>1, <1>5, <1>6, <1>13, <2>1, ReplayingStays
<1> QED
  BY <1>5, <1>6, <1>8, <1>10, <1>11, <1>12, <1>14, <1>15 DEF IInv

---------------------------------------------------------------------------
(***************************************************************************)
(* Every step.                                                             *)
(***************************************************************************)
LEMMA ServerStepKeeps ==
  ASSUME IInv, Server
  PROVE  IInv'
<1>1. CASE Accept
  BY <1>1, AcceptKeeps
<1>2. CASE AcceptFails
  BY <1>2, AcceptFailsKeeps
<1>3. ASSUME NEW e \in ServerEnd,
             \/ ServerReads(e) \/ ServeFrame(e) \/ ServerWrites(e) \/ ReplySent(e)
             \/ ServeRefuses(e) \/ ServeCloses(e) \/ ServeFails(e)
      PROVE  IInv'
  <2>1. PICK b \in Clients : e = Srv(b)
    BY EndNames
  <2>2. e \in Ends
    BY DEF ServerEnd
  <2>3. CASE ServerReads(e)
    BY <2>2, <2>3, ReadKeeps DEF ServerReads
  <2>4. CASE ServeFrame(e)
    BY <2>1, <2>4, ServeFrameKeeps
  <2>5. CASE ServerWrites(e)
    BY <2>2, <2>5, WriteKeeps DEF ServerWrites
  <2>6. CASE ReplySent(e)
    BY <2>1, <2>6, ReplySentKeeps
  <2>7. CASE ServeRefuses(e)
    BY <2>1, <2>7, ServeRefusesKeeps
  <2>8. CASE ServeCloses(e)
    BY <2>1, <2>8, ServeClosesKeeps
  <2>9. CASE ServeFails(e)
    BY <2>1, <2>9, ServeFailsKeeps
  <2> QED
    BY <1>3, <2>3, <2>4, <2>5, <2>6, <2>7, <2>8, <2>9
<1> QED
  BY <1>1, <1>2, <1>3 DEF Server

LEMMA ClientStepKeeps ==
  ASSUME IInv, NEW e \in ClientEnd, Connect(e) \/ ClientStep(e) \/ Scribble(e) \/ Crash(e)
  PROVE  IInv'
<1>1. PICK b \in Clients : e = Client(b)
  BY EndNames
<1>2. e \in Ends
  BY DEF ClientEnd
<1>3. CASE Connect(e)
  BY <1>1, <1>3, ConnectKeeps
<1>4. CASE Scribble(e)
  BY <1>1, <1>4, ScribbleKeeps
<1>5. CASE Crash(e)
  BY <1>1, <1>5, CrashKeeps
<1>6. CASE ClientStep(e)
  <2>1. CASE Call(e)
    BY <1>1, <2>1, CallKeeps
  <2>2. CASE Replay(e)
    BY <1>1, <2>2, ReplayKeeps
  <2>3. CASE ReplayReturns(e)
    BY <1>1, <2>3, ReplayReturnsKeeps
  <2>4. CASE ClientWrites(e)
    BY <1>2, <2>4, WriteKeeps DEF ClientWrites
  <2>5. CASE ClientSent(e)
    BY <1>1, <2>5, ClientSentKeeps
  <2>6. CASE ClientReads(e)
    BY <1>2, <2>6, ReadKeeps DEF ClientReads
  <2>7. CASE ClientReceived(e)
    BY <1>1, <2>7, ClientReceivedKeeps
  <2>8. CASE Leave(e)
    BY <1>1, <2>8, LeaveKeeps
  <2> QED
    BY <1>6, <2>1, <2>2, <2>3, <2>4, <2>5, <2>6, <2>7, <2>8 DEF ClientStep
<1> QED
  BY <1>3, <1>4, <1>5, <1>6

LEMMA StepKeeps == IInv /\ [Next]_vars => IInv'
<1> SUFFICES ASSUME IInv, [Next]_vars
             PROVE  IInv'
  OBVIOUS
<1>1. CASE UNCHANGED vars
  <2>1. /\ StreamTyped' /\ OneAtATime' /\ \A d \in Directions : Delivery(d)' /\ All(d)' = All(d)
    BY <1>1, IdleKeeps DEF vars
  <2> QED
    BY <1>1, <2>1, MoveKeeps DEF vars, streamVars
<1>2. CASE Server
  BY <1>2, ServerStepKeeps
<1>3. CASE \E e \in ClientEnd : Connect(e) \/ ClientStep(e) \/ Scribble(e) \/ Crash(e)
  BY <1>3, ClientStepKeeps
<1> QED
  BY <1>1, <1>2, <1>3 DEF Next

\* What the streams hold, what the server has answered and where the clients
\* are fit together at all times.
THEOREM Invariance == Spec => []IInv
<1>1. Init => IInv
  BY InitIInv
<1>2. IInv /\ [Next]_vars => IInv'
  BY StepKeeps
<1> QED
  BY <1>1, <1>2, PTL DEF Spec

---------------------------------------------------------------------------
(***************************************************************************)
(* Counters.                                                               *)
(***************************************************************************)

\* With nothing under way, all that was sent is received.
LEMMA DirectionQuiet ==
  ASSUME StreamTyped, OneAtATime, NEW d \in Ends, Delivery(d),
         pipe[d] = << >>, in[Peer(d)] = << >>, sending[d] = << >>, ~shut[Peer(d)]
  PROVE  /\ counts[Peer(d)].frames_recv = counts[d].frames_sent
         /\ counts[Peer(d)].bytes_recv = counts[d].bytes_sent
<1> DEFINE s == Len(sent[d])
           g == Len(got[Peer(d)])
<1>1. out[d] = << >> /\ All(d) = sent[d] /\ s \in Nat /\ g \in Nat /\ g <= s
  BY PrefixFacts DEF OneAtATime
<1>2. Len(UnderWay(d)) = 0
  BY <1>1 DEF UnderWay
<1>3. PICK pos : /\ Positions(pos, sent[d]) /\ Counted(d, pos)
                 /\ Carries(UnderWay(d), pos, sent[d], g)
  BY <1>1 DEF Delivery
<1>4. pos \in [0 .. s -> Nat] /\ (\A i, j \in 0 .. s : i < j => pos[i] + 4 <= pos[j])
  BY <1>3 DEF Positions
<1>5. 0 = pos[s] - pos[g]
  BY <1>2, <1>3 DEF Carries
<1>6. /\ counts[d].frames_sent = Saturated(s)
      /\ counts[d].bytes_sent = Saturated(pos[s] - 4 * s)
      /\ counts[Peer(d)].frames_recv = Saturated(g)
      /\ counts[Peer(d)].bytes_recv = Saturated(pos[g] - 4 * g)
  BY <1>3 DEF Counted
<1> HIDE DEF s, g
<1>7. s = g
  <2>1. s \in 0 .. s /\ g \in 0 .. s
    BY <1>1
  <2>2. pos[s] \in Nat /\ pos[g] \in Nat
    BY <1>4, <2>1
  <2>3. g < s => pos[g] + 4 <= pos[s]
    BY <1>4, <2>1
  <2>4. pos[s] = pos[g]
    BY <1>5, <2>2
  <2> QED
    BY <1>1, <2>2, <2>3, <2>4
<1> QED
  BY <1>6, <1>7

\* What was received is not more than what was sent, whatever has failed.
LEMMA DirectionAhead ==
  ASSUME StreamTyped, OneAtATime, NEW d \in Ends, Delivery(d)
  PROVE  /\ counts[Peer(d)].frames_recv <=
              SaturatingAdd(counts[d].frames_sent, Len(Written(d)))
         /\ counts[Peer(d)].bytes_recv <=
              SaturatingAdd(counts[d].bytes_sent,
                            IF Written(d) = << >> THEN 0 ELSE Len(Head(Written(d))))
<1> DEFINE s == Len(sent[d])
           g == Len(got[Peer(d)])
           w == Written(d)
           fs == All(d)
           n == s + Len(w)
           l == IF w = << >> THEN 0 ELSE Len(Head(w))
<1>1. /\ sent[d] \in Seq(ShortFrame) /\ sending[d] \in Seq(ShortFrame) /\ fs \in Seq(ShortFrame)
  BY DirectionTyped
<1>2. /\ s \in Nat /\ g \in Nat /\ Len(fs) \in Nat /\ g <= Len(SentBy(d)) /\ s <= Len(fs)
      /\ sending[d] = << >> => SentBy(d) = sent[d]
      /\ out[d] = << >> => SentBy(d) = fs
  BY PrefixFacts
<1>3. \/ w = << >> /\ SentBy(d) = sent[d]
      \/ w = sending[d] /\ Len(sending[d]) = 1 /\ SentBy(d) = fs
  <2>1. Len(sending[d]) <= 1
    BY DEF OneAtATime
  <2>2. sending[d] # << >> => Len(sending[d]) = 1
    BY <1>1, <2>1, Singleton
  <2>3. out[d] # << >> => SentBy(d) = sent[d]
    BY DEF SentBy
  <2> QED
    BY <1>2, <2>2, <2>3 DEF Written
<1>4. PICK pos : Positions(pos, fs) /\ Counted(d, pos)
  BY DEF Delivery
<1>5. /\ counts[d].frames_sent = Saturated(s)
      /\ counts[d].bytes_sent = Saturated(pos[s] - 4 * s)
      /\ counts[Peer(d)].frames_recv = Saturated(g)
      /\ counts[Peer(d)].bytes_recv = Saturated(pos[g] - 4 * g)
  BY <1>4 DEF Counted
<1>6. ASSUME NEW a \in Nat, NEW b \in Nat, NEW c \in Nat, c <= a + b
      PROVE  Saturated(c) <= SaturatingAdd(Saturated(a), b)
  BY <1>6, StreamAssumption DEF Saturated, SaturatingAdd
<1>7. CASE w = << >> /\ SentBy(d) = sent[d]
  <2>1. g <= s /\ Len(w) = 0 /\ l = 0
    BY <1>2, <1>7
  <2>2. /\ pos[g] \in Nat /\ pos[s] \in Nat /\ 4 * g <= pos[g] /\ 4 * s <= pos[s]
        /\ pos[g] - 4 * g <= pos[s] - 4 * s
    <3> HIDE DEF s, g, fs
    <3>1. g \in 0 .. Len(fs) /\ s \in 0 .. Len(fs)
      BY <1>2, <2>1
    <3> QED
      BY <1>4, <2>1, <3>1 DEF Positions
  <2> HIDE DEF s, g, w, l
  <2>3. Saturated(g) <= SaturatingAdd(Saturated(s), 0)
    BY <1>2, <1>6, <2>1
  <2>4. pos[g] - 4 * g \in Nat /\ pos[s] - 4 * s \in Nat
    BY <1>2, <2>2
  <2>5. Saturated(pos[g] - 4 * g) <= SaturatingAdd(Saturated(pos[s] - 4 * s), 0)
    BY <1>6, <2>2, <2>4
  <2> QED
    BY <1>5, <2>1, <2>3, <2>5 DEF s, g, w, l
<1>8. CASE w = sending[d] /\ Len(sending[d]) = 1 /\ SentBy(d) = fs
  <2>1. /\ Len(w) = 1 /\ w # << >> /\ Head(w) = fs[s + 1] /\ Len(fs) = s + 1
        /\ Head(w) \in ShortFrame
    <3>1. fs = sent[d] \o sending[d]
      BY DEF All
    <3>2. Len(fs) = s + 1 /\ fs[s + 1] = sending[d][1]
      <4>1. 1 \in 1 .. Len(sending[d])
        BY <1>8
      <4>2. /\ Len(sent[d] \o sending[d]) = s + Len(sending[d])
            /\ (sent[d] \o sending[d])[s + 1] = sending[d][1]
        <5>1. sent[d] \in Seq(ShortFrame) /\ sending[d] \in Seq(ShortFrame)
          BY <1>1
        <5> DEFINE a == sent[d]
                   b == sending[d]
        <5>2. a \in Seq(ShortFrame) /\ b \in Seq(ShortFrame) /\ 1 \in 1 .. Len(b)
          BY <4>1, <5>1
        <5> HIDE DEF a, b
        <5>3. Len(a \o b) = Len(a) + Len(b) /\ (a \o b)[Len(a) + 1] = b[1]
          BY <5>2
        <5> QED
          BY <5>3 DEF a, b
      <4> QED
        BY <1>8, <3>1, <4>2
    <3>3. sending[d] # << >> /\ Head(sending[d]) = sending[d][1] /\ sending[d][1] \in ShortFrame
      <4>1. sending[d] # << >>
        BY <1>8
      <4>2. Len(sending[d]) <= 1
        BY <1>8
      <4> QED
        BY <1>1, <4>1, <4>2, Singleton
    <3> QED
      BY <1>8, <3>2, <3>3
  <2>2. l = Len(fs[s + 1]) /\ l \in Nat
    BY <2>1 DEF ShortFrame, Frame
  <2> HIDE DEF s, g, w, l, fs
  <2>3. g <= s + 1 /\ g \in 0 .. Len(fs) /\ s \in 0 .. Len(fs) /\ s + 1 \in 0 .. Len(fs)
        /\ s + 1 \in 1 .. Len(fs) /\ (s + 1) - 1 = s
    BY <1>2, <1>8, <2>1
  <2>4. /\ pos[g] \in Nat /\ pos[s] \in Nat /\ pos[s + 1] \in Nat
        /\ 4 * g <= pos[g] /\ 4 * s <= pos[s]
    BY <1>4, <2>3 DEF Positions
  <2>5. pos[s + 1] = pos[s] + 4 + l
    BY <1>4, <2>2, <2>3 DEF Positions
  <2>6. pos[g] - 4 * g <= pos[s + 1] - 4 * (s + 1)
    BY <1>4, <2>3 DEF Positions
  <2>7. Saturated(g) <= SaturatingAdd(Saturated(s), 1)
    BY <1>2, <1>6, <2>3
  <2>8. /\ pos[g] - 4 * g \in Nat /\ pos[s] - 4 * s \in Nat
        /\ pos[g] - 4 * g <= (pos[s] - 4 * s) + l
    <3> DEFINE x == pos[g]
               y == pos[s]
    <3>1. /\ x \in Nat /\ y \in Nat /\ 4 * g <= x /\ 4 * s <= y /\ g \in Nat /\ s \in Nat
          /\ l \in Nat /\ x - 4 * g <= (y + 4 + l) - 4 * (s + 1)
      BY <1>2, <2>2, <2>4, <2>5, <2>6
    <3> HIDE DEF x, y
    <3>2. x - 4 * g \in Nat /\ y - 4 * s \in Nat /\ x - 4 * g <= (y - 4 * s) + l
      BY <3>1
    <3> QED
      BY <3>2 DEF x, y
  <2>9. Saturated(pos[g] - 4 * g) <= SaturatingAdd(Saturated(pos[s] - 4 * s), l)
    BY <1>6, <2>2, <2>8
  <2> QED
    BY <1>5, <2>1, <2>7, <2>9 DEF s, g, w, l
<1> QED
  BY <1>3, <1>7, <1>8

\* CountingTransport at the two ends of a connection: whenever nothing is under
\* way, both have counted the same frames and bytes, also where the counters
\* saturate; and an end never counts what its peer has not sent to the last byte,
\* on connections that broke too.
THEOREM CountsCorrect == Spec => []CountsAgree
<1>1. IInv => CountsAgree
  <2> SUFFICES ASSUME IInv, NEW e \in Directions
               PROVE  /\ serving = e[1] /\ Quiet(e)
                           => /\ counts[Peer(e)].frames_recv = counts[e].frames_sent
                              /\ counts[Peer(e)].bytes_recv = counts[e].bytes_sent
                      /\ counts[Peer(e)].frames_recv <=
                           SaturatingAdd(counts[e].frames_sent, Len(Written(e)))
                      /\ counts[Peer(e)].bytes_recv <=
                           SaturatingAdd(counts[e].bytes_sent,
                                         IF Written(e) = << >> THEN 0 ELSE Len(Head(Written(e))))
    BY DEF CountsAgree
  <2>1. StreamTyped /\ OneAtATime /\ e \in Ends /\ Delivery(e)
    BY Fields, DirectionNames
  <2>2. Quiet(e) => /\ counts[Peer(e)].frames_recv = counts[e].frames_sent
                    /\ counts[Peer(e)].bytes_recv = counts[e].bytes_sent
    BY <2>1, DirectionQuiet DEF Quiet
  <2> QED
    BY <2>1, <2>2, DirectionAhead
<1> QED
  BY <1>1, Invariance, PTL

---------------------------------------------------------------------------
(***************************************************************************)
(* The replay.                                                             *)
(***************************************************************************)

\* How far the frames of a conversation have come: replies received, replies,
\* requests read, requests.
LEMMA TalkLengths ==
  ASSUME IInv, NEW c \in Real
  PROVE  /\ Len(got[Client(c)]) \in Nat /\ Len(All(Client(c))) \in Nat
         /\ Len(got[Srv(c)]) \in Nat /\ Len(All(Srv(c))) \in Nat
         /\ Len(got[Client(c)]) <= Len(All(Srv(c)))
         /\ Len(All(Srv(c))) <= Len(got[Srv(c)])
         /\ Len(got[Srv(c)]) <= Len(All(Client(c)))
         /\ \A i \in 1 .. Len(got[Client(c)]) : got[Client(c)][i] = All(Srv(c))[i]
         /\ \A i \in 1 .. Len(got[Srv(c)]) : got[Srv(c)][i] = All(Client(c))[i]
<1>1. /\ StreamTyped /\ OneAtATime /\ Delivery(Client(c)) /\ Delivery(Srv(c)) /\ Replies(c)
      /\ Client(c) \in Ends /\ Srv(c) \in Ends
      /\ Peer(Client(c)) = Srv(c) /\ Peer(Srv(c)) = Client(c)
  BY Fields, Names, EndNames DEF Talk
<1> DEFINE g == Len(got[Client(c)])
           a == Len(All(Client(c)))
           h == Len(got[Srv(c)])
           n == Len(All(Srv(c)))
           u == Len(SentBy(Client(c)))
           v == Len(SentBy(Srv(c)))
<1>2. /\ h \in Nat /\ a \in Nat /\ h <= u /\ u <= a /\ u \in Nat
      /\ \A i \in 1 .. h : got[Srv(c)][i] = All(Client(c))[i]
  BY <1>1, PrefixFacts
<1>3. /\ g \in Nat /\ n \in Nat /\ g <= v /\ v <= n /\ v \in Nat
      /\ \A i \in 1 .. g : got[Client(c)][i] = All(Srv(c))[i]
  BY <1>1, PrefixFacts
<1>4. n <= h
  BY <1>1 DEF Replies
<1> HIDE DEF g, a, h, n, u, v
<1>5. g <= n /\ h <= a
  BY <1>2, <1>3
<1> QED
  BY <1>2, <1>3, <1>4, <1>5 DEF g, a, h, n

\* The reply a client has received is the answer to its request of that number.
LEMMA Answered ==
  ASSUME IInv, NEW c \in Real, NEW i \in 1 .. Len(got[Client(c)])
  PROVE  /\ i \in 1 .. Len(All(Client(c))) /\ Accepted(All(Client(c))[i])
         /\ \E r \in ReplyMessage :
              Fits(r, All(Client(c)), i) /\ got[Client(c)][i] = Bytes(r)
<1> DEFINE fs == got[Srv(c)]
           gs == All(Client(c))
           as == All(Srv(c))
<1>1. /\ Len(got[Client(c)]) \in Nat /\ Len(gs) \in Nat /\ Len(fs) \in Nat /\ Len(as) \in Nat
      /\ Len(got[Client(c)]) <= Len(as) /\ Len(as) <= Len(fs) /\ Len(fs) <= Len(gs)
      /\ \A j \in 1 .. Len(got[Client(c)]) : got[Client(c)][j] = as[j]
      /\ \A j \in 1 .. Len(fs) : fs[j] = gs[j]
  BY TalkLengths
<1>2. i \in 1 .. Len(as) /\ i \in 1 .. Len(fs) /\ i \in 1 .. Len(gs) /\ i - 1 \in Nat
      /\ \A j \in 1 .. i - 1 : j \in 1 .. Len(fs)
  <2> DEFINE k == Len(got[Client(c)])
             l == Len(as)
             m == Len(fs)
             n == Len(gs)
  <2>1. k \in Nat /\ l \in Nat /\ m \in Nat /\ n \in Nat /\ k <= l /\ l <= m /\ m <= n /\ i \in 1 .. k
    BY <1>1
  <2> HIDE DEF k, l, m, n
  <2>2. i \in 1 .. l /\ i \in 1 .. m /\ i \in 1 .. n /\ i - 1 \in Nat
        /\ \A j \in 1 .. i - 1 : j \in 1 .. m
    BY <2>1
  <2> QED
    BY <2>2 DEF l, m, n
<1>3. Replies(c)
  BY Fields DEF Talk
<1>4. Accepted(fs[i]) /\ \E r \in ReplyMessage : Fits(r, fs, i) /\ as[i] = Bytes(r)
  BY <1>2, <1>3 DEF Replies
<1>5. PICK r \in ReplyMessage : Fits(r, fs, i) /\ as[i] = Bytes(r)
  BY <1>4
<1>6. OpAt(gs, i) = OpAt(fs, i) /\ \A j \in 1 .. i - 1 : OpAt(gs, j) = OpAt(fs, j)
  BY <1>1, <1>2 DEF OpAt
<1>7. Created(gs, i - 1) = Created(fs, i - 1)
  BY <1>2, <1>6, CreatedSame
<1>8. Fits(r, gs, i)
  BY <1>5, <1>6, <1>7 DEF Fits
<1>9. Accepted(gs[i]) /\ got[Client(c)][i] = Bytes(r)
  BY <1>1, <1>2, <1>4, <1>5
<1> QED
  BY <1>2, <1>8, <1>9

\* Two answers to the same request differ in the id of the session at most.
LEMMA FitsAgree ==
  ASSUME NEW fs, NEW gs, NEW i \in Nat \ {0}, \A j \in 1 .. i : fs[j] = gs[j],
         NEW r \in ReplyMessage, NEW q \in ReplyMessage, Fits(r, fs, i), Fits(q, gs, i)
  PROVE  Anonymous(Bytes(r)) = Anonymous(Bytes(q))
<1>1. i \in 1 .. i /\ i - 1 \in Nat /\ \A j \in 1 .. i - 1 : j \in 1 .. i
  OBVIOUS
<1>2. OpAt(fs, i) = OpAt(gs, i) /\ \A j \in 1 .. i - 1 : OpAt(fs, j) = OpAt(gs, j)
  BY <1>1 DEF OpAt
<1>3. Created(fs, i - 1) = Created(gs, i - 1)
  BY <1>1, <1>2, CreatedSame
<1>4. /\ r.kind = q.kind /\ r.op = q.op /\ r.seq = q.seq /\ r.len = q.len
      /\ r.op # "WELCOME" => r.value = q.value
  BY <1>2, <1>3 DEF Fits, ReplyMessage, ServedOps, REPLY_OP
<1>5. Bytes(r)[1] = r /\ Bytes(q)[1] = q
  BY ReplyBytes
<1>6. CASE r.op = "WELCOME"
  <2>1. [r EXCEPT !.value = 0] = [q EXCEPT !.value = 0]
    BY <1>4 DEF ReplyMessage
  <2> QED
    BY <1>4, <1>5, <1>6, <2>1 DEF Anonymous
<1>7. CASE r.op # "WELCOME"
  <2>1. r = q
    BY <1>4, <1>7 DEF ReplyMessage
  <2> QED
    BY <2>1
<1> QED
  BY <1>6, <1>7

\* A replay in a new session gets the replies of the recording, number by
\* number, and never more of them: whatever else the server was asked in
\* between, and wherever the recording breaks off.
THEOREM ReplayCorrect == Spec => []ReplayReproduces
<1>1. IInv => ReplayReproduces
  <2> SUFFICES ASSUME IInv
               PROVE  ReplayReproduces
    OBVIOUS
  <2> DEFINE want == got[Client(Recorder)]
             have == got[Client(Replayer)]
             h == Len(have)
             g == Len(want)
             s == Len(sent[Client(Recorder)])
             a == All(Client(Replayer))
             u == All(Client(Recorder))
             n == Len(a)
  <2>1. /\ Tape /\ Phase /\ Replaying /\ Recorder \in Real /\ Replayer \in Real
        /\ StreamTyped /\ OneAtATime /\ Delivery(Client(Recorder)) /\ Client(Recorder) \in Ends
    BY Fields, Names, EndNames
  <2>2. h \in Nat /\ g \in Nat /\ n \in Nat /\ Len(u) \in Nat
    BY <2>1, TalkLengths
  <2>3. s \in Nat /\ s <= Len(u) /\ \A j \in 1 .. s : u[j] = sent[Client(Recorder)][j]
    <3>1. /\ Len(SentBy(Client(Recorder))) \in Nat /\ s \in Nat
          /\ s <= Len(SentBy(Client(Recorder))) /\ Len(SentBy(Client(Recorder))) <= Len(u)
          /\ \A j \in 1 .. s : u[j] = sent[Client(Recorder)][j]
      BY <2>1, PrefixFacts
    <3> QED
      BY <2>2, <3>1
  <2>4. /\ n <= s /\ \A j \in 1 .. n : a[j] = sent[Client(Recorder)][j]
        /\ n # 0 => at[Recorder] = "left"
    BY <2>1 DEF Replaying
  <2>5. s = g \/ s = g + 1
    BY <2>1 DEF Tape
  <2>6. at[Recorder] = "left" /\ s = g + 1 => ~Accepted(sent[Client(Recorder)][s])
    BY <2>1 DEF Phase
  <2>7. \A i \in 1 .. h : i \in 1 .. n /\ Accepted(a[i])
    BY <2>1, Answered
  <2> HIDE DEF h, g, s, n
  <2>8. h <= g
    <3> SUFFICES ASSUME h > g
                 PROVE  FALSE
      BY <2>2
    <3>1. h \in 1 .. h
      BY <2>2
    <3>2. h <= n
      BY <2>7, <3>1
    <3>3. s = g + 1 /\ h = s /\ n # 0
      BY <2>2, <2>3, <2>4, <2>5, <3>1, <3>2
    <3>4. a[h] = sent[Client(Recorder)][h]
      BY <2>4, <2>7, <3>1
    <3> QED
      BY <2>4, <2>6, <2>7, <3>1, <3>3, <3>4
  <2>9. ASSUME NEW i \in 1 .. h
        PROVE  Anonymous(have[i]) = Anonymous(want[i])
    <3>1. i \in 1 .. g /\ i \in Nat \ {0} /\ i \in 1 .. n
      BY <2>2, <2>7, <2>8
    <3>2. PICK r \in ReplyMessage : Fits(r, a, i) /\ have[i] = Bytes(r)
      BY <2>1, Answered DEF h
    <3>3. PICK q \in ReplyMessage : Fits(q, u, i) /\ want[i] = Bytes(q)
      BY <2>1, <3>1, Answered DEF g
    <3>4. \A j \in 1 .. i : a[j] = u[j]
      <4> TAKE j \in 1 .. i
      <4>1. j \in 1 .. n /\ j \in 1 .. s
        BY <2>2, <2>3, <2>4, <3>1
      <4> QED
        BY <2>3, <2>4, <4>1
    <3>5. Anonymous(Bytes(r)) = Anonymous(Bytes(q))
      <4> HIDE DEF a, u
      <4> QED
        BY <3>1, <3>2, <3>3, <3>4, FitsAgree
    <3> QED
      BY <3>2, <3>3, <3>5
  <2> QED
    BY <2>8, <2>9 DEF ReplayReproduces, h, g, Client
<1> QED
  BY <1>1, Invariance, PTL

---------------------------------------------------------------------------
(***************************************************************************)
(* The promise of a transport: a frame is handed over with the last byte   *)
(* that send writes, and delivered when recv returns it.                   *)
(***************************************************************************)
Stays(d) == SentBy(d)' = SentBy(d) /\ got'[Peer(d)] = got[Peer(d)]

LEMMA AllStay ==
  ASSUME \A d \in Directions : Stays(d)
  PROVE  UNCHANGED <<HandedOver, Delivered>>
  BY DEF Stays, HandedOver, Delivered

LEMMA IsSend ==
  ASSUME NEW e \in Directions, NEW f, SentBy(e) \in Seq(ShortFrame), f \in ShortFrame,
         SentBy(e)' = Append(SentBy(e), f), got'[Peer(e)] = got[Peer(e)],
         \A d \in Directions : d # e => Stays(d)
  PROVE  F!Send(e)
<1> DEFINE a == SentBy(e)
           a1 == SentBy(e)'
<1>1. Delivered' = Delivered
  BY DEF Stays, Delivered
<1>2. HandedOver[e] = a /\ HandedOver'[e] = a1
  BY DEF HandedOver
<1>3. a \in Seq(ShortFrame) /\ a1 = Append(a, f)
  OBVIOUS
<1> HIDE DEF a, a1
<1>4. Len(a1) = Len(a) + 1 /\ a1[Len(a) + 1] = f
  BY <1>3, Appended
<1>5. \A d \in Directions : d # e => SentBy(d)' = SentBy(d)
  BY DEF Stays
<1>6. HandedOver' = [HandedOver EXCEPT ![e] = Append(@, f)]
  BY <1>3, <1>5 DEF HandedOver, a, a1
<1> QED
  BY <1>1, <1>2, <1>4, <1>6 DEF F!Send

LEMMA IsDelivery ==
  ASSUME NEW e \in Directions, Len(got[Peer(e)]) < Len(SentBy(e)),
         got'[Peer(e)] = Append(got[Peer(e)], SentBy(e)[Len(got[Peer(e)]) + 1]),
         SentBy(e)' = SentBy(e), \A d \in Directions : d # e => Stays(d)
  PROVE  F!Deliver(e)
<1>1. HandedOver' = HandedOver
  BY DEF Stays, HandedOver
<1>2. HandedOver[e] = SentBy(e) /\ Delivered[e] = got[Peer(e)]
  BY DEF HandedOver, Delivered
<1>3. \A d \in Directions : d # e => got'[Peer(d)] = got[Peer(d)]
  BY DEF Stays
<1>4. Delivered' = [Delivered EXCEPT ![e] = Append(@, SentBy(e)[Len(got[Peer(e)]) + 1])]
  BY <1>3 DEF Delivered
<1> QED
  BY <1>1, <1>2, <1>4 DEF F!Deliver

LEMMA KeptStays ==
  ASSUME UNCHANGED <<sending, out, sent, got>>, NEW d \in Directions
  PROVE  Stays(d)
  BY DEF Stays, SentBy

LEMMA WriteRefines ==
  ASSUME IInv, NEW e \in Ends, Write(e)
  PROVE  (\E d \in Directions : F!Send(d)) \/ UNCHANGED <<HandedOver, Delivered>>
<1>1. StreamTyped /\ OneAtATime
  BY Fields
<1>2. /\ sending' = sending /\ sent' = sent /\ got' = got /\ out[e] # << >>
      /\ \A d \in Ends : d # e => out'[d] = out[d]
  BY <1>1, WriteTyped DEF bookVars
<1>3. ASSUME NEW d \in Directions, d # e
      PROVE  Stays(d)
  <2>1. out'[d] = out[d]
    BY <1>2, <1>3, DirectionNames
  <2> QED
    BY <1>2, <2>1 DEF Stays, SentBy
<1>4. CASE e \notin Directions
  BY <1>3, <1>4, AllStay
<1>5. CASE e \in Directions /\ out'[e] # << >>
  <2>1. Stays(e)
    BY <1>2, <1>5 DEF Stays, SentBy
  <2> QED
    BY <1>3, <2>1, AllStay
<1>6. CASE e \in Directions /\ out'[e] = << >>
  <2>1. sending[e] # << >>
    BY <1>1, <1>2 DEF OneAtATime
  <2>2. Head(sending[e]) \in ShortFrame /\ All(e) = Append(sent[e], Head(sending[e]))
    BY <1>1, <2>1, SendingOne
  <2>3. SentBy(e) = sent[e] /\ SentBy(e)' = Append(sent[e], Head(sending[e]))
    BY <1>2, <1>6, <2>2 DEF SentBy, All
  <2>4. sent[e] \in Seq(ShortFrame)
    BY <1>1 DEF StreamTyped
  <2>5. F!Send(e)
    BY <1>2, <1>3, <1>6, <2>2, <2>3, <2>4, IsSend
  <2> QED
    BY <1>6, <2>5
<1> QED
  BY <1>4, <1>5, <1>6

LEMMA StartStays ==
  ASSUME IInv, NEW e \in Ends, NEW f \in ShortFrame, StartSend(e, f), NEW d \in Ends, sent' = sent
  PROVE  SentBy(d)' = SentBy(d)
<1>1. StreamTyped /\ OneAtATime
  BY Fields
<1>2. /\ sending[e] = << >> /\ sending'[e] = <<f>> /\ out'[e] = Encoded(f)
      /\ \A x \in Ends : x # e => sending'[x] = sending[x] /\ out'[x] = out[x]
  BY <1>1, StartSendTyped
<1>3. CASE d # e
  BY <1>2, <1>3 DEF SentBy
<1>4. CASE d = e
  <2>1. out[d] = << >> /\ sent[d] \in Seq(ShortFrame)
    BY <1>1, <1>2, <1>4 DEF OneAtATime, StreamTyped
  <2>2. Encoded(f) # << >>
    <3>1. Len(Encoded(f)) = 4 + Len(f) /\ Len(f) \in Nat
      BY EncodedFacts DEF ShortFrame, Frame
    <3> QED
      BY <3>1
  <2>3. sent[d] \o << >> = sent[d]
    BY <2>1, EmptySide
  <2> QED
    BY <1>2, <1>4, <2>1, <2>2, <2>3 DEF SentBy
<1> QED
  BY <1>3, <1>4

LEMMA SendOkStays ==
  ASSUME IInv, NEW e \in Ends, SendOk(e), UNCHANGED out, NEW d \in Ends
  PROVE  SentBy(d)' = SentBy(d)
<1>1. StreamTyped /\ OneAtATime
  BY Fields
<1>2. /\ sending[e] # << >> /\ out[e] = << >> /\ sending'[e] = << >>
      /\ sent'[e] = Append(sent[e], Head(sending[e])) /\ sent' \in [Ends -> Seq(ShortFrame)]
      /\ \A x \in Ends : x # e => sending'[x] = sending[x] /\ sent'[x] = sent[x]
  BY <1>1, SendOkTyped
<1>3. CASE d # e
  BY <1>2, <1>3 DEF SentBy
<1>4. CASE d = e
  <2>1. sent[e] \o sending[e] = Append(sent[e], Head(sending[e]))
    BY <1>1, <1>2, SendingOne DEF All
  <2>2. sent'[e] \o << >> = sent'[e]
    BY <1>2, EmptySide
  <2> QED
    BY <1>2, <1>4, <2>1, <2>2 DEF SentBy
<1> QED
  BY <1>3, <1>4

\* recv returns at an end, and nothing is handed over.
LEMMA RecvRefines ==
  ASSUME IInv, NEW e \in Ends, RecvOk(e), Peer(e) \in Directions => ~shut[e],
         \A d \in Directions : SentBy(d)' = SentBy(d)
  PROVE  (\E d \in Directions : F!Deliver(d)) \/ UNCHANGED <<HandedOver, Delivered>>
<1> DEFINE p == Peer(e)
<1>1. StreamTyped /\ OneAtATime /\ p \in Ends /\ Peer(p) = e
  BY Fields, PeerFacts
<1>2. /\ Whole(e) /\ got'[e] = Append(got[e], Received(e))
      /\ \A d \in Ends : d # e => got'[d] = got[d]
  BY <1>1, RecvOkTyped
<1>3. ASSUME NEW d \in Directions, d # p
      PROVE  Stays(d)
  <2>1. d \in Ends /\ Peer(d) \in Ends /\ Peer(d) # e
    BY <1>3, DirectionNames, OtherEnds
  <2> QED
    BY <1>2, <2>1 DEF Stays
<1>4. CASE p \notin Directions
  BY <1>3, <1>4, AllStay
<1>5. CASE p \in Directions
  <2> DEFINE g == Len(got[e])
  <2>1. Delivery(p) /\ ~shut[e]
    BY <1>5, Fields
  <2>2. g < Len(SentBy(p)) /\ Received(e) = All(p)[g + 1]
    BY <1>1, <1>2, <2>1, WholeRead
  <2>3. /\ g \in Nat /\ Len(SentBy(p)) \in Nat /\ (SentBy(p) = All(p) \/ SentBy(p) = sent[p])
        /\ \A i \in 1 .. Len(sent[p]) : All(p)[i] = sent[p][i]
    <3>1. SentBy(p) = All(p) \/ SentBy(p) = sent[p]
      BY DEF SentBy, All
    <3> QED
      BY <1>1, <2>1, <3>1, PrefixFacts
  <2>4. All(p)[g + 1] = SentBy(p)[g + 1]
    <3> DEFINE k == Len(SentBy(p))
    <3>1. g \in Nat /\ k \in Nat /\ g < k
      BY <2>2, <2>3
    <3> HIDE DEF g, k
    <3>2. g + 1 \in 1 .. k
      BY <3>1
    <3>3. CASE SentBy(p) = sent[p]
      BY <2>3, <3>2, <3>3 DEF k
    <3> QED
      BY <2>3, <3>3
  <2>5. got'[Peer(p)] = Append(got[Peer(p)], SentBy(p)[Len(got[Peer(p)]) + 1])
        /\ Len(got[Peer(p)]) < Len(SentBy(p))
    BY <1>1, <1>2, <2>2, <2>4
  <2> HIDE DEF g, p
  <2>6. F!Deliver(p)
    BY <1>3, <1>5, <2>5, IsDelivery
  <2> QED
    BY <1>5, <2>6
<1> QED
  BY <1>4, <1>5

\* The server reads from a client that it serves.
LEMMA ServedIsOpen ==
  ASSUME IInv, NEW b \in Clients, serving = b
  PROVE  Peer(Srv(b)) \in Directions => ~shut[Srv(b)]
<1> SUFFICES ASSUME Client(b) \in Directions
             PROVE  ~shut[Srv(b)]
  BY EndNames
<1>1. PICK c \in Real : Client(b) = Client(c) \/ Client(b) = Srv(c)
  BY DirectionNames
<1>2. b = c
  BY <1>1, Names, EndNames
<1> QED
  BY <1>2, Fields DEF Talk, Waiting

LEMMA ServerRefines ==
  ASSUME IInv, Server
  PROVE  F!Next \/ UNCHANGED <<HandedOver, Delivered>>
<1>0. ASSUME UNCHANGED <<sending, out, sent, got>>
      PROVE  UNCHANGED <<HandedOver, Delivered>>
  BY <1>0, KeptStays, AllStay
<1>1. CASE Accept \/ AcceptFails
  BY <1>0, <1>1 DEF Accept, AcceptFails, streamVars, bookVars
<1>2. ASSUME NEW b \in Clients, NEW e \in Ends, e = Srv(b), ServeFrame(e)
      PROVE  F!Next \/ UNCHANGED <<HandedOver, Delivered>>
  <2>1. /\ serving = b /\ RecvOk(e) /\ Served(Received(e))
        /\ StartSend(e, Bytes(Reply(Received(e)[1])))
    BY <1>2, EndNames DEF ServeFrame
  <2>2. Bytes(Reply(Received(e)[1])) \in ShortFrame
    <3>1. session \in [id : Nat, next_seq : Nat, instances : Nat]
      BY <2>1, Fields, Names DEF TcpTyped
    <3>2. Received(e)[1].op \in ServedOps
      BY <2>1 DEF Served, Answers, ServedOps
    <3> QED
      BY <3>1, <3>2, ReplyFacts, ReplyBytes
  <2>3. sent' = sent
    BY <2>1 DEF RecvOk
  <2>4. \A d \in Directions : SentBy(d)' = SentBy(d)
    BY <2>1, <2>2, <2>3, StartStays, DirectionNames
  <2>5. Peer(e) \in Directions => ~shut[e]
    BY <1>2, <2>1, ServedIsOpen
  <2> QED
    BY <2>1, <2>4, <2>5, RecvRefines DEF F!Next
<1>3. ASSUME NEW b \in Clients, NEW e \in Ends, e = Srv(b), ServeRefuses(e)
      PROVE  F!Next \/ UNCHANGED <<HandedOver, Delivered>>
  <2>1. serving = b /\ RecvOk(e) /\ sending' = sending /\ out' = out
    BY <1>3, EndNames DEF ServeRefuses, HangUp
  <2>2. sent' = sent
    BY <2>1 DEF RecvOk
  <2>3. \A d \in Directions : SentBy(d)' = SentBy(d)
    BY <2>1, <2>2 DEF SentBy
  <2>4. Peer(e) \in Directions => ~shut[e]
    BY <1>3, <2>1, ServedIsOpen
  <2> QED
    BY <2>1, <2>3, <2>4, RecvRefines DEF F!Next
<1>4. ASSUME NEW e \in Ends, ServerWrites(e)
      PROVE  F!Next \/ UNCHANGED <<HandedOver, Delivered>>
  BY <1>4, WriteRefines DEF ServerWrites, F!Next
<1>5. ASSUME NEW e \in Ends, ReplySent(e)
      PROVE  UNCHANGED <<HandedOver, Delivered>>
  <2>1. SendOk(e) /\ out' = out /\ got' = got
    BY <1>5 DEF ReplySent, SendOk
  <2>2. \A d \in Directions : Stays(d)
    BY <2>1, SendOkStays, DirectionNames DEF Stays
  <2> QED
    BY <2>2, AllStay
<1>6. ASSUME NEW e \in Ends, ServerReads(e) \/ ServeCloses(e) \/ ServeFails(e)
      PROVE  UNCHANGED <<HandedOver, Delivered>>
  BY <1>0, <1>6 DEF ServerReads, Read, ServeCloses, ServeFails, HangUp, bookVars
<1>7. ASSUME NEW e \in ServerEnd,
             \/ ServerReads(e) \/ ServeFrame(e) \/ ServerWrites(e) \/ ReplySent(e)
             \/ ServeRefuses(e) \/ ServeCloses(e) \/ ServeFails(e)
      PROVE  F!Next \/ UNCHANGED <<HandedOver, Delivered>>
  <2>1. e \in Ends /\ \E b \in Clients : e = Srv(b)
    BY EndNames DEF ServerEnd
  <2> QED
    BY <1>2, <1>3, <1>4, <1>5, <1>6, <1>7, <2>1
<1> QED
  BY <1>1, <1>7 DEF Server

LEMMA ClientRefines ==
  ASSUME IInv, NEW e \in ClientEnd, Connect(e) \/ ClientStep(e) \/ Scribble(e) \/ Crash(e)
  PROVE  F!Next \/ UNCHANGED <<HandedOver, Delivered>>
<1>0. ASSUME UNCHANGED <<sending, out, sent, got>>
      PROVE  UNCHANGED <<HandedOver, Delivered>>
  BY <1>0, KeptStays, AllStay
<1>1. e \in Ends /\ e[1] \in Clients /\ e = Client(e[1])
  BY EndNames DEF ClientEnd
<1>2. CASE Connect(e) \/ ReplayReturns(e)
  BY <1>0, <1>2 DEF Connect, ReplayReturns, streamVars, bookVars
<1>3. CASE Scribble(e) \/ Crash(e) \/ Leave(e) \/ ClientReads(e)
  BY <1>0, <1>3 DEF Scribble, Crash, Leave, ClientReads, Read, bookVars
<1>4. ASSUME NEW f \in ShortFrame, Sends(e, f)
      PROVE  UNCHANGED <<HandedOver, Delivered>>
  <2>1. StartSend(e, f) /\ sent' = sent /\ got' = got
    BY <1>4 DEF Sends, bookVars
  <2>2. \A d \in Directions : Stays(d)
    BY <1>1, <2>1, StartStays, DirectionNames DEF Stays
  <2> QED
    BY <2>2, AllStay
<1>5. CASE Call(e)
  <2>1. PICK m \in Requests : Sends(e, Bytes(m))
    BY <1>5 DEF Call
  <2> QED
    BY <1>4, <2>1, RequestBytes
<1>6. CASE Replay(e)
  <2>1. PICK i \in DOMAIN Recorded : NextRequest(i) /\ Sends(e, Recorded[i])
    BY <1>6 DEF Replay
  <2> DEFINE n == Len(All(Client(Replayer)))
             u == sent[Client(Recorder)]
  <2>2. n \in Nat /\ n + 1 <= Len(u) /\ Recorded[i] = u[n + 1]
    BY <2>1, NextInOrder
  <2>3. u \in Seq(ShortFrame)
    BY Fields, Names, EndNames DEF StreamTyped
  <2> HIDE DEF n, u
  <2>4. u[n + 1] \in ShortFrame
    BY <2>2, <2>3
  <2> QED
    BY <1>4, <2>1, <2>2, <2>4
<1>7. CASE ClientWrites(e)
  BY <1>1, <1>7, WriteRefines DEF ClientWrites, F!Next
<1>8. CASE ClientSent(e)
  <2>1. SendOk(e) /\ out' = out /\ got' = got
    BY <1>8 DEF ClientSent, SendOk
  <2>2. \A d \in Directions : Stays(d)
    BY <1>1, <2>1, SendOkStays, DirectionNames DEF Stays
  <2> QED
    BY <2>2, AllStay
<1>9. CASE ClientReceived(e)
  <2>1. at[e[1]] = "receiving" /\ RecvOk(e) /\ sending' = sending /\ out' = out
    BY <1>9 DEF ClientReceived
  <2>2. sent' = sent
    BY <2>1 DEF RecvOk
  <2>3. \A d \in Directions : SentBy(d)' = SentBy(d)
    BY <2>1, <2>2 DEF SentBy
  <2>4. ~shut[e]
    BY <1>1, <2>1, Fields DEF Present
  <2> QED
    BY <1>1, <2>1, <2>3, <2>4, RecvRefines DEF F!Next
<1> QED
  BY <1>2, <1>3, <1>5, <1>6, <1>7, <1>8, <1>9 DEF ClientStep

LEMMA InitRefines == Init => F!Init
<1> SUFFICES ASSUME Init
             PROVE  F!Init
  OBVIOUS
<1>1. \A d \in Directions : SentBy(d) = << >> /\ got[Peer(d)] = << >>
  <2> TAKE d \in Directions
  <2>1. d \in Ends /\ Peer(d) \in Ends
    BY DirectionNames, PeerFacts
  <2>2. sent[d] = << >> /\ sending[d] = << >> /\ got[Peer(d)] = << >>
    BY <2>1 DEF Init, InitStream
  <2> QED
    BY <2>2 DEF SentBy
<1> QED
  BY <1>1 DEF F!Init, HandedOver, Delivered

\* StreamTransport over connections that buffer, cut and lose bytes keeps the
\* promise of a transport in both directions: recv returns whole frames, each
\* once, in the order of the sends, and nothing that was not sent.
THEOREM TcpImplementsFramed == Spec => ImplementsFramed
<1>1. Init => F!Init
  BY InitRefines
<1>2. IInv /\ [Next]_vars => [F!Next]_<<HandedOver, Delivered>>
  <2> SUFFICES ASSUME IInv, [Next]_vars
               PROVE  F!Next \/ UNCHANGED <<HandedOver, Delivered>>
    OBVIOUS
  <2>1. CASE UNCHANGED vars
    BY <2>1, KeptStays, AllStay DEF vars, streamVars, bookVars
  <2>2. CASE Next
    BY <2>2, ServerRefines, ClientRefines DEF Next
  <2> QED
    BY <2>1, <2>2
<1> QED
  BY <1>1, <1>2, Invariance, PTL DEF Spec, ImplementsFramed, F!Spec
============================================================================
