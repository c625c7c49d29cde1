--------------------------- MODULE RemotingProofs ---------------------------
(***************************************************************************)
(* The safety properties of a session, for every frame a peer may send,    *)
(* every number of frames, every default limit and every range of request  *)
(* ids: what Remoting's peer and server can rely on although neither       *)
(* compares the id of an answer with that of a request.                    *)
(***************************************************************************)
EXTENDS Remoting, SequenceTheorems, TLAPS

Answer ==
  [op : {"WELCOME", "NOOP", "CALL"}, req_id : Nat, seq : Nat, len : Nat,
   cap : Nat \cup {None}]

\* The frames the server has received.
Taken == Len(sent) - Len(up)

\* The limit announced by the latest WELCOME of a sequence of answers.
Latest(a) ==
  LET welcomes == {m \in 1 .. Len(a) : a[m].op = "WELCOME"}
      latest   == CHOOSE m \in welcomes : \A k \in welcomes : k <= m
  IN  IF welcomes = {} THEN DEFAULT_MAX_FRAME_BODY ELSE a[latest].cap

HasLatest(a) ==
  LET welcomes == {m \in 1 .. Len(a) : a[m].op = "WELCOME"}
  IN  welcomes = {} \/ \E m \in welcomes : \A k \in welcomes : k <= m

(***************************************************************************)
(* The inductive invariant.                                                *)
(***************************************************************************)
Typed ==
  /\ TypeOK
  /\ session \in [max_frame_body : 0 .. DEFAULT_MAX_FRAME_BODY,
                  handshook : BOOLEAN, next_seq : Nat]
  /\ handled \in Nat
  /\ registry \in [core : Nat, api : Nat]
  /\ up \in Seq(Frame) /\ sent \in Seq(Frame)
  /\ got \in Seq(Answer) /\ down \in Seq(Answer)
  /\ peerOpen \in BOOLEAN
  /\ next_req_id \in Nat
  /\ pc \in {"handle", "send", "record"} => frame \in Frame
  /\ pc = "send" => reply \in Answer

\* What is still in the channel is the end of what was sent.
Pipe ==
  /\ Len(up) <= Len(sent)
  /\ \A i \in 1 .. Len(up) : up[i] = sent[Taken + i]

\* How far the loop has come, counted in frames: received, handled, answered.
Progress ==
  /\ pc = "recv" => Taken = handled /\ Len(Answers) = handled
  /\ pc = "handle" => Taken = handled + 1 /\ Len(Answers) = handled
  /\ pc = "send" => Taken = handled /\ Len(Answers) + 1 = handled
  /\ pc = "record" => Taken = handled /\ Len(Answers) = handled
  /\ Len(Answers) <= handled /\ handled <= Taken
  /\ pc \in {"handle", "send", "record"} => frame = sent[Taken]

\* Each answer, on the wire or about to be, fits the request of its number.
Fits(r, f, n) == r.req_id = f.req_id /\ r.seq = n /\ r.op = Expected(f.op)

Matched ==
  /\ \A n \in 1 .. Len(Answers) : Fits(Answers[n], sent[n], n)
  /\ pc = "send" => Fits(reply, frame, handled)

\* The session's limit is the announced one, or the one about to be.
Limit ==
  /\ HasLatest(Answers)
  /\ pc \in {"recv", "handle", "record"} => session.max_frame_body = Latest(Answers)
  /\ pc = "send" => session.max_frame_body =
                      (IF reply.op = "WELCOME" THEN reply.cap ELSE Latest(Answers))

Recorded == registry.core + registry.api

Books ==
  /\ pc \in {"recv", "handle", "send"} => Recorded = Len(Answers)
  /\ pc = "record" => Recorded + 1 = Len(Answers)
  /\ pc = "done" /\ peerOpen => Recorded = Len(Answers)

\* A client has at most one request under way, and a server that has gone
\* leaves it no answer.
OneCall ==
  /\ peer \in {"client", "any"}
  /\ Waiting => /\ peer = "client"
                /\ peerOpen
                /\ sent # << >>
                /\ sent[Len(sent)].op = calling
  /\ peer = "client" /\ ServerOpen =>
       Len(sent) = Len(got) + (IF Waiting THEN 1 ELSE 0)
  /\ peer = "client" /\ ~ServerOpen => down = << >>
  /\ NeverUnexpected

IInv ==
  /\ Typed
  /\ Pipe
  /\ Progress
  /\ Matched
  /\ Limit
  /\ Books
  /\ OneCall

---------------------------------------------------------------------------
(***************************************************************************)
(* Sequences.                                                              *)
(***************************************************************************)

\* Moving the first element of a channel to what was read of it changes
\* nothing of the whole.
LEMMA TakeKeepsWhole ==
  ASSUME NEW S, NEW g \in Seq(S), NEW d \in Seq(S), d # << >>
  PROVE  /\ Append(g, Head(d)) \in Seq(S)
         /\ Tail(d) \in Seq(S)
         /\ Append(g, Head(d)) \o Tail(d) = g \o d
<1>1. /\ Head(d) \in S /\ Tail(d) \in Seq(S) /\ Len(Tail(d)) = Len(d) - 1
      /\ \A i \in 1 .. Len(Tail(d)) : Tail(d)[i] = d[i + 1]
      /\ Head(d) = d[1]
      /\ Len(d) \in Nat \ {0} /\ Len(g) \in Nat
  BY HeadTailProperties, EmptySeq, LenProperties
<1> DEFINE h == Append(g, Head(d))
<1>2. /\ h \in Seq(S) /\ Len(h) = Len(g) + 1
      /\ \A i \in 1 .. Len(g) : h[i] = g[i]
      /\ h[Len(g) + 1] = d[1]
  BY <1>1, AppendProperties
<1> HIDE DEF h
<1>3. /\ h \o Tail(d) \in Seq(S) /\ g \o d \in Seq(S)
      /\ Len(h \o Tail(d)) = Len(h) + Len(Tail(d))
      /\ Len(g \o d) = Len(g) + Len(d)
      /\ \A i \in 1 .. Len(h) + Len(Tail(d)) :
           (h \o Tail(d))[i] = IF i <= Len(h) THEN h[i] ELSE Tail(d)[i - Len(h)]
      /\ \A i \in 1 .. Len(g) + Len(d) :
           (g \o d)[i] = IF i <= Len(g) THEN g[i] ELSE d[i - Len(g)]
  BY <1>1, <1>2, ConcatProperties
<1>4. ASSUME NEW i \in 1 .. Len(g) + Len(d)
      PROVE  (h \o Tail(d))[i] = (g \o d)[i]
  <2>1. i \in 1 .. Len(h) + Len(Tail(d))
    BY <1>1, <1>2
  <2>2. CASE i <= Len(g)
    BY <1>1, <1>2, <1>3, <2>1, <2>2
  <2>3. CASE i = Len(g) + 1
    BY <1>1, <1>2, <1>3, <2>1, <2>3
  <2>4. CASE i > Len(g) + 1
    <3>1. i - Len(h) \in 1 .. Len(Tail(d)) /\ (i - Len(h)) + 1 = i - Len(g)
      BY <1>1, <1>2, <2>4
    <3>2. Tail(d)[i - Len(h)] = d[i - Len(g)]
      BY <1>1, <3>1
    <3> QED
      BY <1>1, <1>2, <1>3, <2>1, <2>4, <3>2
  <2>5. i <= Len(g) \/ i = Len(g) + 1 \/ i > Len(g) + 1
    BY <1>1
  <2> QED
    BY <2>2, <2>3, <2>4, <2>5
<1>5. Len(h \o Tail(d)) = Len(g \o d) /\ Len(g \o d) = Len(g) + Len(d)
  BY <1>1, <1>2, <1>3
<1>6. h \o Tail(d) = g \o d
  BY <1>3, <1>4, <1>5, SeqEqual
<1> QED
  BY <1>1, <1>2, <1>6 DEF h

\* Sending an element on a channel appends it to the whole.
LEMMA SendExtendsWhole ==
  ASSUME NEW S, NEW g \in Seq(S), NEW d \in Seq(S), NEW r \in S
  PROVE  g \o Append(d, r) = Append(g \o d, r)
<1> DEFINE e == Append(d, r)
<1>1. /\ Len(d) \in Nat /\ Len(g) \in Nat
      /\ e \in Seq(S) /\ Len(e) = Len(d) + 1
      /\ \A i \in 1 .. Len(d) : e[i] = d[i]
      /\ e[Len(d) + 1] = r
  BY AppendProperties, LenProperties
<1> HIDE DEF e
<1>2. /\ g \o d \in Seq(S) /\ Len(g \o d) = Len(g) + Len(d)
      /\ \A i \in 1 .. Len(g) + Len(d) :
           (g \o d)[i] = IF i <= Len(g) THEN g[i] ELSE d[i - Len(g)]
  BY ConcatProperties
<1>3. /\ g \o e \in Seq(S)
      /\ Len(g \o e) = Len(g) + Len(e)
      /\ \A i \in 1 .. Len(g) + Len(e) :
           (g \o e)[i] = IF i <= Len(g) THEN g[i] ELSE e[i - Len(g)]
  BY <1>1, ConcatProperties
<1>4. /\ Append(g \o d, r) \in Seq(S)
      /\ Len(Append(g \o d, r)) = Len(g) + Len(d) + 1
      /\ \A i \in 1 .. Len(g) + Len(d) : Append(g \o d, r)[i] = (g \o d)[i]
      /\ Append(g \o d, r)[Len(g) + Len(d) + 1] = r
  BY <1>2, AppendProperties
<1>5. ASSUME NEW i \in 1 .. Len(g) + (Len(d) + 1)
      PROVE  (g \o e)[i] = Append(g \o d, r)[i]
  <2>1. CASE i <= Len(g) + Len(d)
    BY <1>1, <1>2, <1>3, <1>4, <2>1
  <2>2. CASE i = Len(g) + Len(d) + 1
    BY <1>1, <1>3, <1>4, <2>2
  <2>3. i <= Len(g) + Len(d) \/ i = Len(g) + Len(d) + 1
    BY <1>1
  <2> QED
    BY <2>1, <2>2, <2>3
<1> QED
  BY <1>1, <1>3, <1>4, <1>5, SeqEqual DEF e

\* A WELCOME that is appended is the latest; any other answer leaves the
\* announced limit as it was.
LEMMA LatestOfAppend ==
  ASSUME NEW a \in Seq(Answer), NEW r \in Answer, HasLatest(a)
  PROVE  /\ HasLatest(Append(a, r))
         /\ Latest(Append(a, r)) = IF r.op = "WELCOME" THEN r.cap ELSE Latest(a)
<1> DEFINE b == Append(a, r)
           W(s) == {m \in 1 .. Len(s) : s[m].op = "WELCOME"}
           L(s) == CHOOSE m \in W(s) : \A k \in W(s) : k <= m
<1>1. /\ Len(a) \in Nat /\ Len(b) = Len(a) + 1
      /\ \A i \in 1 .. Len(a) : b[i] = a[i]
      /\ b[Len(a) + 1] = r
  BY AppendProperties, LenProperties
<1> HIDE DEF b
<1>2. CASE r.op = "WELCOME"
  <2>1. /\ Len(a) + 1 \in W(b)
        /\ \A k \in W(b) : k <= Len(a) + 1
        /\ \A k \in W(b) : k \in Int
    BY <1>1, <1>2
  <2>2. HasLatest(b)
    BY <2>1 DEF HasLatest
  <2>3. L(b) \in W(b) /\ \A k \in W(b) : k <= L(b)
    BY <2>1
  <2>4. L(b) = Len(a) + 1
    BY <1>1, <2>1, <2>3
  <2>5. Latest(b) = b[L(b)].cap
    BY <2>1 DEF Latest
  <2> QED
    BY <1>1, <1>2, <2>2, <2>4, <2>5 DEF b
<1>3. CASE r.op # "WELCOME"
  <2>1. W(b) = W(a)
    BY <1>1, <1>3
  <2>2. HasLatest(b)
    BY <2>1 DEF HasLatest
  <2>3. CASE W(a) = {}
    BY <1>3, <2>1, <2>2, <2>3 DEF Latest, b
  <2>4. CASE W(a) # {}
    <3>1. L(a) \in W(a)
      BY <2>4 DEF HasLatest
    <3>2. b[L(a)] = a[L(a)]
      BY <1>1, <3>1
    <3>3. Latest(a) = a[L(a)].cap
      BY <2>4 DEF Latest
    <3>4. Latest(b) = b[L(b)].cap
      BY <2>1, <2>4 DEF Latest
    <3>5. L(b) = L(a)
      BY <2>1
    <3> QED
      BY <1>3, <2>2, <3>2, <3>3, <3>4, <3>5 DEF b
  <2> QED
    BY <2>3, <2>4
<1> QED
  BY <1>2, <1>3

---------------------------------------------------------------------------
(***************************************************************************)
(* The steps of the server.                                                *)
(***************************************************************************)
LEMMA AnswersFacts ==
  ASSUME Typed
  PROVE  /\ Answers \in Seq(Answer)
         /\ Len(Answers) = Len(got) + Len(down)
         /\ Len(got) \in Nat /\ Len(down) \in Nat
         /\ Len(sent) \in Nat /\ Len(up) \in Nat
         /\ \A n \in 1 .. Len(got) + Len(down) :
              Answers[n] = IF n <= Len(got) THEN got[n] ELSE down[n - Len(got)]
<1>1. /\ got \in Seq(Answer) /\ down \in Seq(Answer)
      /\ sent \in Seq(Frame) /\ up \in Seq(Frame)
  BY DEF Typed
<1> QED
  BY <1>1, ConcatProperties, LenProperties DEF Answers

LEMMA InitEstablishes ==
  Init => IInv
<1> SUFFICES ASSUME Init PROVE IInv
  OBVIOUS
<1>1. /\ up = << >> /\ down = << >> /\ sent = << >> /\ got = << >>
      /\ peerOpen = TRUE /\ pc = "recv" /\ session = NewSession /\ handled = 0
      /\ registry = [core |-> 0, api |-> 0] /\ result = None /\ outcome = None
      /\ next_req_id = 1 /\ calling = "new" /\ peer \in {"client", "any"}
  BY DEF Init, InitServer
<1>2. /\ Answers = << >> /\ Len(<< >>) = 0
      /\ << >> \in Seq(Answer) /\ << >> \in Seq(Frame)
  BY <1>1, EmptySeq, ConcatEmptySeq DEF Answers
<1>3. Typed
  BY <1>1, <1>2, CapAssumption DEF Typed, TypeOK, NewSession
<1>4. Pipe /\ Progress /\ Matched
  BY <1>1, <1>2 DEF Pipe, Progress, Matched, Taken
<1>5. Limit
  BY <1>1, <1>2 DEF Limit, HasLatest, Latest, NewSession
<1>6. Books
  BY <1>1, <1>2 DEF Books, Recorded
<1>7. OneCall
  BY <1>1, <1>2, NoneAssumption DEF OneCall, Waiting, NeverUnexpected
<1> QED
  BY <1>3, <1>4, <1>5, <1>6, <1>7 DEF IInv

\* Receiving a frame, or the end of the stream.
LEMMA RecvPreserves ==
  ASSUME IInv, Recv, UNCHANGED <<clientVars, sent, got>>
  PROVE  IInv'
<1>0. /\ pc = "recv" /\ Typed /\ Pipe /\ Progress /\ Matched /\ Limit /\ Books /\ OneCall
      /\ UNCHANGED <<down, peerOpen, reply, session, registry, handled>>
      /\ UNCHANGED <<peer, calling, next_req_id, outcome, sent, got>>
      /\ Answers' = Answers
  BY DEF IInv, Recv, Answers, clientVars
<1>1. CASE /\ up # << >> /\ frame' = Head(up) /\ up' = Tail(up)
           /\ pc' = "handle" /\ result' = result
  <2>1. /\ Head(up) \in Frame /\ Tail(up) \in Seq(Frame)
        /\ Len(Tail(up)) = Len(up) - 1 /\ Len(up) \in Nat \ {0} /\ Len(sent) \in Nat
        /\ \A i \in 1 .. Len(up) - 1 : Tail(up)[i] = up[i + 1]
        /\ Head(up) = up[1]
    BY <1>0, <1>1, HeadTailProperties, EmptySeq, LenProperties DEF Typed
  <2>2. Typed'
    BY <1>0, <1>1, <2>1 DEF Typed, TypeOK
  <2>3. Taken' = Taken + 1 /\ Taken \in Int
    BY <1>0, <1>1, <2>1 DEF Taken
  <2>4. Pipe'
    <3>1. ASSUME NEW i \in 1 .. Len(up')
          PROVE  up'[i] = sent'[Taken' + i]
      <4>1. i \in 1 .. Len(up) - 1 /\ i + 1 \in 1 .. Len(up)
        BY <1>1, <2>1, <3>1
      <4>2. up'[i] = sent[Taken + (i + 1)]
        BY <1>0, <1>1, <2>1, <4>1 DEF Pipe
      <4>3. Taken + (i + 1) = Taken' + i
        BY <2>1, <2>3, <4>1
      <4> QED
        BY <1>0, <4>2, <4>3
    <3>2. Len(up') <= Len(sent')
      BY <1>0, <1>1, <2>1 DEF Pipe
    <3> QED
      BY <3>1, <3>2 DEF Pipe
  <2>5. Progress'
    <3>1. up[1] = sent[Taken + 1]
      BY <1>0, <2>1 DEF Pipe
    <3> QED
      BY <1>0, <1>1, <2>1, <2>3, <3>1, AnswersFacts DEF Progress, Typed
  <2>6. Matched' /\ Limit' /\ Books'
    BY <1>0, <1>1 DEF Matched, Limit, Books, Recorded
  <2>7. OneCall'
    BY <1>0, <1>1 DEF OneCall, Waiting, ServerOpen, NeverUnexpected
  <2> QED
    BY <2>2, <2>4, <2>5, <2>6, <2>7 DEF IInv
<1>2. CASE /\ up = << >> /\ ~peerOpen /\ pc' = "done" /\ result' = "Ok"
           /\ UNCHANGED <<frame, up>>
  <2>1. Typed'
    BY <1>0, <1>2, NoneAssumption DEF Typed, TypeOK
  <2>2. Taken' = Taken
    BY <1>0, <1>2 DEF Taken
  <2>3. Pipe' /\ Progress' /\ Matched' /\ Limit' /\ Books'
    BY <1>0, <1>2, <2>2 DEF Pipe, Progress, Matched, Limit, Books, Recorded
  <2>4. peer = "client" => down = << >>
    <3>1. peer = "client" => ~Waiting /\ Len(sent) = Len(got)
      BY <1>0, <1>2, AnswersFacts DEF OneCall, ServerOpen
    <3>2. Len(got) + Len(down) = Len(sent)
      BY <1>0, <1>2, AnswersFacts, EmptySeq DEF Progress, Taken
    <3>3. Len(down) = 0 => down = << >>
      BY <1>0, EmptySeq DEF Typed
    <3> QED
      BY <1>0, <3>1, <3>2, <3>3, AnswersFacts
  <2>5. OneCall'
    BY <1>0, <1>2, <2>4 DEF OneCall, Waiting, ServerOpen, NeverUnexpected
  <2> QED
    BY <2>1, <2>3, <2>5 DEF IInv
<1> QED
  BY <1>1, <1>2 DEF Recv

\* A frame the session accepts, whatever its opcode: the reply fits it, and
\* its limit is the session's new one if it announces any.
LEMMA HandleReplies ==
  ASSUME IInv, HandleOk
  PROVE  /\ reply' \in Answer
         /\ Fits(reply', frame, handled + 1)
         /\ session' \in [max_frame_body : 0 .. DEFAULT_MAX_FRAME_BODY,
                          handshook : BOOLEAN, next_seq : Nat]
         /\ session'.next_seq = handled + 2
         /\ session'.max_frame_body =
              (IF reply'.op = "WELCOME" THEN reply'.cap ELSE session.max_frame_body)
<1>1. /\ frame \in Frame /\ frame.req_id \in Nat
      /\ session \in [max_frame_body : 0 .. DEFAULT_MAX_FRAME_BODY,
                      handshook : BOOLEAN, next_seq : Nat]
      /\ session.next_seq = handled + 1 /\ handled \in Nat
      /\ DEFAULT_MAX_FRAME_BODY \in Nat
  BY CapAssumption DEF IInv, HandleOk, Typed, TypeOK, Frame
<1>2. CASE HandleHello
  <2>1. Negotiated(frame) \in 0 .. DEFAULT_MAX_FRAME_BODY
    BY <1>1, <1>2 DEF Negotiated, HandleHello, Frame
  <2>2. /\ session' = [max_frame_body |-> Negotiated(frame), handshook |-> TRUE,
                       next_seq |-> session.next_seq + 1]
        /\ reply' = [op |-> "WELCOME", req_id |-> frame.req_id, seq |-> session.next_seq,
                     len |-> 20, cap |-> Negotiated(frame)]
        /\ frame.op = "HELLO"
    BY <1>2 DEF HandleHello, Reply, WELCOME_LEN
  <2> HIDE DEF Negotiated
  <2> QED
    BY <1>1, <2>1, <2>2 DEF Answer, Fits, Expected
<1>3. ASSUME NEW op \in {"NOOP", "CALL"}, NEW len \in Nat, frame.op = op,
             reply' = Reply(op, frame, len, None),
             session' = [session EXCEPT !.next_seq = @ + 1]
      PROVE  /\ reply' \in Answer
             /\ Fits(reply', frame, handled + 1)
             /\ session' \in [max_frame_body : 0 .. DEFAULT_MAX_FRAME_BODY,
                              handshook : BOOLEAN, next_seq : Nat]
             /\ session'.next_seq = handled + 2
             /\ reply'.op # "WELCOME"
             /\ session'.max_frame_body = session.max_frame_body
  <2>1. reply' = [op |-> op, req_id |-> frame.req_id, seq |-> session.next_seq,
                  len |-> len, cap |-> None]
    BY <1>3 DEF Reply
  <2> QED
    BY <1>1, <1>3, <2>1 DEF Answer, Fits, Expected
<1>4. CASE HandleNoop
  BY <1>3, <1>4 DEF HandleNoop
<1>5. CASE HandleCall
  <2>1. PICK len \in CALL_LENS : reply' = Reply("CALL", frame, len, None)
    BY <1>5 DEF HandleCall
  <2>2. len \in Nat
    BY DEF CALL_LENS
  <2> QED
    BY <1>3, <1>5, <2>1, <2>2 DEF HandleCall
<1> QED
  BY <1>2, <1>4, <1>5 DEF HandleOk

LEMMA HandleOkPreserves ==
  ASSUME IInv, HandleOk, UNCHANGED <<clientVars, sent, got>>
  PROVE  IInv'
<1>0. /\ pc = "handle" /\ pc' = "send" /\ handled' = handled + 1
      /\ Typed /\ Pipe /\ Progress /\ Matched /\ Limit /\ Books /\ OneCall
      /\ UNCHANGED <<up, down, peerOpen, frame, result, registry>>
      /\ UNCHANGED <<peer, calling, next_req_id, outcome, sent, got>>
      /\ Answers' = Answers /\ Taken' = Taken
      /\ handled \in Nat
  BY DEF IInv, HandleOk, Answers, clientVars, Taken, Typed
<1>1. Typed'
  <2>1. /\ session'.max_frame_body \in 0 .. DEFAULT_MAX_FRAME_BODY
        /\ session'.next_seq = handled' + 1
    BY <1>0, HandleReplies
  <2> QED
    BY <1>0, <2>1, HandleReplies DEF Typed, TypeOK
<1>2. Pipe' /\ Progress'
  BY <1>0, AnswersFacts DEF Pipe, Progress
<1>3. Matched'
  BY <1>0, HandleReplies DEF Matched
<1>4. Limit'
  BY <1>0, HandleReplies DEF Limit
<1>5. Books'
  BY <1>0 DEF Books, Recorded
<1>6. OneCall'
  BY <1>0 DEF OneCall, Waiting, ServerOpen, NeverUnexpected
<1> QED
  BY <1>1, <1>2, <1>3, <1>4, <1>5, <1>6 DEF IInv

LEMMA HandleFailsPreserves ==
  ASSUME IInv, HandleFails, UNCHANGED <<clientVars, sent, got>>
  PROVE  IInv'
<1>0. /\ pc = "handle" /\ pc' = "done" /\ result' = "Ok"
      /\ Typed /\ Pipe /\ Progress /\ Matched /\ Limit /\ Books /\ OneCall
      /\ UNCHANGED <<up, down, peerOpen, frame, reply, session, registry, handled>>
      /\ UNCHANGED <<peer, calling, next_req_id, outcome, sent, got>>
      /\ Answers' = Answers /\ Taken' = Taken
  BY DEF IInv, HandleFails, Answers, clientVars, Taken
<1>1. Typed'
  BY <1>0, NoneAssumption DEF Typed, TypeOK
<1>2. Pipe' /\ Progress' /\ Matched' /\ Limit' /\ Books'
  BY <1>0 DEF Pipe, Progress, Matched, Limit, Books, Recorded
\* A client whose request is being handled waits for nothing else.
<1>3. peer = "client" => down = << >>
  <2>1. peer = "client" => Len(sent) <= Len(got) + 1
    BY <1>0, AnswersFacts DEF OneCall, ServerOpen
  <2>2. Len(got) + Len(down) + 1 <= Len(sent)
    BY <1>0, AnswersFacts DEF Progress, Taken, Typed
  <2>3. Len(down) = 0 => down = << >>
    BY <1>0, EmptySeq DEF Typed
  <2> QED
    BY <1>0, <2>1, <2>2, <2>3, AnswersFacts
<1>4. OneCall'
  BY <1>0, <1>3 DEF OneCall, Waiting, ServerOpen, NeverUnexpected
<1> QED
  BY <1>1, <1>2, <1>4 DEF IInv

\* A reply goes out, or finds that the peer has gone away.
LEMMA SendPreserves ==
  ASSUME IInv, Send, UNCHANGED <<clientVars, sent, got>>
  PROVE  IInv'
<1>0. /\ pc = "send"
      /\ Typed /\ Pipe /\ Progress /\ Matched /\ Limit /\ Books /\ OneCall
      /\ UNCHANGED <<up, peerOpen, frame, reply, session, registry, handled>>
      /\ UNCHANGED <<peer, calling, next_req_id, outcome, sent, got>>
      /\ Taken' = Taken
      /\ reply \in Answer /\ handled \in Nat
  BY DEF IInv, Send, clientVars, Taken, Typed
<1>1. CASE peerOpen /\ down' = Append(down, reply) /\ pc' = "record" /\ result' = result
  <2>1. /\ Answers' = Append(Answers, reply)
        /\ down' \in Seq(Answer)
    BY <1>0, <1>1, SendExtendsWhole, AppendProperties DEF Typed, Answers
  <2>2. /\ Len(Answers') = Len(Answers) + 1
        /\ \A n \in 1 .. Len(Answers) : Answers'[n] = Answers[n]
        /\ Answers'[Len(Answers) + 1] = reply
        /\ Len(Answers) \in Nat
        /\ Answers \in Seq(Answer)
    BY <1>0, <2>1, AnswersFacts, AppendProperties
  <2>3. Typed'
    BY <1>0, <1>1, <2>1 DEF Typed, TypeOK
  <2>4. Pipe' /\ Progress'
    BY <1>0, <1>1, <2>2 DEF Pipe, Progress
  <2>5. Matched'
    <3>1. Len(Answers) + 1 = handled /\ frame = sent[handled]
      BY <1>0 DEF Progress
    <3> QED
      BY <1>0, <1>1, <2>2, <3>1 DEF Matched
  <2>6. Limit'
    BY <1>0, <1>1, <2>1, <2>2, LatestOfAppend DEF Limit
  <2>7. Books'
    BY <1>0, <1>1, <2>2 DEF Books, Recorded
  <2>8. OneCall'
    BY <1>0, <1>1 DEF OneCall, Waiting, ServerOpen, NeverUnexpected
  <2> QED
    BY <2>3, <2>4, <2>5, <2>6, <2>7, <2>8 DEF IInv
<1>2. CASE ~peerOpen /\ pc' = "done" /\ result' = "Err" /\ down' = down
  <2>1. Answers' = Answers
    BY <1>0, <1>2 DEF Answers
  <2>2. Typed'
    BY <1>0, <1>2, NoneAssumption DEF Typed, TypeOK
  <2>3. Pipe' /\ Progress' /\ Matched' /\ Limit' /\ Books'
    BY <1>0, <1>2, <2>1 DEF Pipe, Progress, Matched, Limit, Books, Recorded
  \* It is never a client that has gone away: one is waiting for the reply.
  <2>4. peer # "client"
    <3>1. peer = "client" => Len(sent) = Len(got)
      BY <1>0, <1>2, AnswersFacts DEF OneCall, ServerOpen
    <3>2. Len(got) + Len(down) + 1 <= Len(sent)
      BY <1>0, AnswersFacts DEF Progress, Taken, Typed
    <3> QED
      BY <1>0, <3>1, <3>2, AnswersFacts
  <2>5. OneCall'
    BY <1>0, <1>2, <2>4 DEF OneCall, Waiting, ServerOpen, NeverUnexpected
  <2> QED
    BY <2>2, <2>3, <2>5 DEF IInv
<1> QED
  BY <1>1, <1>2 DEF Send

LEMMA RecordPreserves ==
  ASSUME IInv, Record, UNCHANGED <<clientVars, sent, got>>
  PROVE  IInv'
<1>0. /\ pc = "record" /\ pc' = "recv"
      /\ Typed /\ Pipe /\ Progress /\ Matched /\ Limit /\ Books /\ OneCall
      /\ UNCHANGED <<up, down, peerOpen, frame, reply, session, result, handled>>
      /\ UNCHANGED <<peer, calling, next_req_id, outcome, sent, got>>
      /\ Answers' = Answers /\ Taken' = Taken
  BY DEF IInv, Record, Answers, clientVars, Taken
<1>1. registry' \in [core : Nat, api : Nat] /\ Recorded' = Recorded + 1
  <2>1. registry \in [core : Nat, api : Nat] /\ api_name(frame.op) \in {"core", "api"}
    BY <1>0 DEF Typed, api_name
  <2>2. registry' = [registry EXCEPT ![api_name(frame.op)] = @ + 1]
    BY DEF Record
  <2>3. CASE api_name(frame.op) = "core"
    BY <2>1, <2>2, <2>3 DEF Recorded
  <2>4. CASE api_name(frame.op) = "api"
    BY <2>1, <2>2, <2>4 DEF Recorded
  <2> QED
    BY <2>1, <2>3, <2>4
<1>2. Typed'
  BY <1>0, <1>1 DEF Typed, TypeOK
<1>3. Pipe' /\ Progress' /\ Matched' /\ Limit'
  BY <1>0 DEF Pipe, Progress, Matched, Limit
<1>4. Books'
  BY <1>0, <1>1 DEF Books
<1>5. OneCall'
  BY <1>0 DEF OneCall, Waiting, ServerOpen, NeverUnexpected
<1> QED
  BY <1>2, <1>3, <1>4, <1>5 DEF IInv

---------------------------------------------------------------------------
(***************************************************************************)
(* The steps of the peers.                                                 *)
(***************************************************************************)

\* All of the invariant but the client's own part.
Wire == Typed /\ Pipe /\ Progress /\ Matched /\ Limit /\ Books

\* A frame that is sent joins the end of the channel and of the history.
LEMMA PutPreserves ==
  ASSUME IInv, NEW f \in Frame, Put(f), next_req_id' \in Nat,
         UNCHANGED <<down, peerOpen, got, serverVars>>
  PROVE  /\ Wire'
         /\ Len(sent') = Len(sent) + 1
         /\ sent' # << >>
         /\ sent'[Len(sent')] = f
<1>0. /\ Typed /\ Pipe /\ Progress /\ Matched /\ Limit /\ Books
      /\ UNCHANGED <<down, peerOpen, got>>
      /\ UNCHANGED <<pc, frame, reply, session, result, registry, handled>>
      /\ Answers' = Answers
      /\ up' = Append(up, f) /\ sent' = Append(sent, f)
      /\ up \in Seq(Frame) /\ sent \in Seq(Frame) /\ handled \in Nat
  BY DEF IInv, Put, Answers, serverVars, Typed
<1>1. /\ Len(sent) \in Nat /\ Len(up) \in Nat
      /\ up' \in Seq(Frame) /\ Len(up') = Len(up) + 1
      /\ \A i \in 1 .. Len(up) : up'[i] = up[i]
      /\ up'[Len(up) + 1] = f
      /\ sent' \in Seq(Frame) /\ Len(sent') = Len(sent) + 1
      /\ \A i \in 1 .. Len(sent) : sent'[i] = sent[i]
      /\ sent'[Len(sent) + 1] = f
      /\ sent' # << >>
  BY <1>0, AppendProperties, LenProperties
<1>2. Taken' = Taken /\ Taken \in 0 .. Len(sent)
  BY <1>0, <1>1 DEF Taken, Pipe
<1>3. Typed'
  BY <1>0, <1>1 DEF Typed, TypeOK
<1>4. Pipe'
  <2>1. ASSUME NEW i \in 1 .. Len(up')
        PROVE  up'[i] = sent'[Taken' + i]
    <3>1. CASE i <= Len(up)
      <4>1. i \in 1 .. Len(up) /\ Taken + i \in 1 .. Len(sent)
        BY <1>1, <1>2, <2>1, <3>1 DEF Taken
      <4>2. up[i] = sent[Taken + i]
        BY <1>0, <4>1 DEF Pipe
      <4> QED
        BY <1>1, <1>2, <4>1, <4>2
    <3>2. CASE i = Len(up) + 1
      <4>1. Taken' + i = Len(sent) + 1
        BY <1>1, <1>2, <3>2 DEF Taken
      <4> QED
        BY <1>1, <3>2, <4>1
    <3>3. i <= Len(up) \/ i = Len(up) + 1
      BY <1>1
    <3> QED
      BY <3>1, <3>2, <3>3
  <2>2. Len(up') <= Len(sent')
    BY <1>0, <1>1 DEF Pipe
  <2> QED
    BY <2>1, <2>2 DEF Pipe
<1>5. Progress'
  <2>1. pc \in {"handle", "send", "record"} => Taken \in 1 .. Len(sent)
    <3>1. Len(Answers) \in Nat /\ Recorded \in Nat
      BY <1>0, AnswersFacts DEF Recorded, Typed
    <3>2. pc = "record" => Len(Answers) >= 1
      BY <1>0, <3>1 DEF Books
    <3> QED
      BY <1>0, <1>2, <3>1, <3>2 DEF Progress
  <2>2. pc \in {"handle", "send", "record"} => sent'[Taken] = sent[Taken]
    BY <1>1, <2>1
  <2> QED
    BY <1>0, <1>2, <2>2 DEF Progress
<1>6. Matched'
  <2>1. ASSUME NEW n \in 1 .. Len(Answers) PROVE sent'[n] = sent[n]
    <3>1. Len(Answers) \in Nat /\ Len(Answers) <= Len(sent)
      BY <1>0, <1>1, <1>2, AnswersFacts DEF Progress
    <3> QED
      BY <1>1, <3>1
  <2> QED
    BY <1>0, <2>1 DEF Matched
<1>7. Limit' /\ Books'
  BY <1>0 DEF Limit, Books, Recorded
<1> QED
  BY <1>1, <1>3, <1>4, <1>5, <1>6, <1>7 DEF Wire

\* Taking an answer moves it from the channel to the history.
LEMMA TakePreserves ==
  ASSUME IInv, Take, UNCHANGED <<up, peerOpen, sent, next_req_id, serverVars>>
  PROVE  Wire' /\ Len(got') = Len(got) + 1 /\ Len(down') = Len(down) - 1
<1>0. /\ Typed /\ Pipe /\ Progress /\ Matched /\ Limit /\ Books
      /\ UNCHANGED <<up, peerOpen, sent, next_req_id>>
      /\ UNCHANGED <<pc, frame, reply, session, result, registry, handled>>
      /\ down # << >> /\ down' = Tail(down) /\ got' = Append(got, Head(down))
      /\ got \in Seq(Answer) /\ down \in Seq(Answer)
  BY DEF IInv, Take, serverVars, Typed
<1>1. /\ Answers' = Answers /\ got' \in Seq(Answer) /\ down' \in Seq(Answer)
  BY <1>0, TakeKeepsWhole DEF Answers
<1>2. Len(got') = Len(got) + 1 /\ Len(down') = Len(down) - 1
  BY <1>0, HeadTailProperties, AppendProperties
<1>3. Taken' = Taken
  BY <1>0 DEF Taken
<1>4. Typed'
  BY <1>0, <1>1 DEF Typed, TypeOK
<1>5. Pipe' /\ Progress' /\ Matched' /\ Limit' /\ Books'
  BY <1>0, <1>1, <1>3 DEF Pipe, Progress, Matched, Limit, Books, Recorded
<1> QED
  BY <1>2, <1>4, <1>5 DEF Wire

\* A step that touches neither channel nor the server, and reopens nothing.
LEMMA QuietPreserves ==
  ASSUME IInv, UNCHANGED <<up, down, sent, got, serverVars>>, next_req_id' \in Nat,
         peerOpen' \in BOOLEAN, peerOpen' => peerOpen
  PROVE  Wire'
<1>0. /\ Typed /\ Pipe /\ Progress /\ Matched /\ Limit /\ Books
      /\ UNCHANGED <<up, down, sent, got>>
      /\ UNCHANGED <<pc, frame, reply, session, result, registry, handled>>
      /\ Answers' = Answers /\ Taken' = Taken
  BY DEF IInv, serverVars, Answers, Taken
<1>1. Typed'
  BY <1>0 DEF Typed, TypeOK
<1>2. Pipe' /\ Progress' /\ Matched' /\ Limit' /\ Books'
  BY <1>0 DEF Pipe, Progress, Matched, Limit, Books, Recorded
<1> QED
  BY <1>1, <1>2 DEF Wire

---------------------------------------------------------------------------
\* The first half of a call: a request on the wire, or a call that failed.
LEMMA RequestPreserves ==
  ASSUME IInv, NEW op \in {"HELLO", "NOOP", "CALL"}, NEW len \in Nat,
         NEW cap \in Nat \cup {None}, op = "HELLO" => cap \in Nat,
         ~Waiting, Request(op, len, cap)
  PROVE  IInv'
<1>0. /\ peer = "client" /\ peerOpen /\ OneCall
      /\ next_req_id \in Nat /\ next_req_id' \in Nat
      /\ UNCHANGED <<down, peer, got, serverVars>>
      /\ Len(got) \in Nat
      /\ ServerOpen' = ServerOpen
  BY ReqIdAssumption, AnswersFacts
  DEF IInv, Typed, Request, SatNext, ServerOpen, serverVars
<1>1. CASE /\ Put(ClientFrame(op, len, cap)) /\ calling' = op
           /\ UNCHANGED <<outcome, peerOpen>>
  <2>1. /\ ClientFrame(op, len, cap) \in Frame
        /\ ClientFrame(op, len, cap).op = op
    BY <1>0 DEF ClientFrame, Frame
  <2>2. Wire' /\ Len(sent') = Len(sent) + 1 /\ sent' # << >> /\ sent'[Len(sent')].op = op
    BY <1>0, <1>1, <2>1, PutPreserves
  <2>3. Waiting' /\ Len(sent) = Len(got) /\ ServerOpen
    BY <1>0, <1>1 DEF Waiting, Put, OneCall
  <2>4. OneCall'
    BY <1>0, <1>1, <2>2, <2>3 DEF OneCall, NeverUnexpected
  <2> QED
    BY <2>2, <2>4 DEF Wire, IInv
<1>2. CASE /\ ~ServerOpen /\ outcome' = "Transport"
           /\ calling' = IF op = "HELLO" THEN "dropped" ELSE "idle"
           /\ peerOpen' = (op # "HELLO")
           /\ UNCHANGED <<up, sent>>
  <2>1. Wire'
    BY <1>0, <1>2, QuietPreserves
  <2>2. ~Waiting'
    BY <1>2 DEF Waiting
  <2>3. OneCall'
    BY <1>0, <1>2, <2>2 DEF OneCall, NeverUnexpected
  <2> QED
    BY <2>1, <2>3 DEF Wire, IInv
<1> QED
  BY <1>1, <1>2 DEF Request

\* The answer a waiting client finds is the one to its request.
LEMMA AwaitedIsExpected ==
  ASSUME IInv, Waiting, down # << >>
  PROVE  /\ Head(down).op = Expected(calling)
         /\ Len(down) = 1
         /\ ServerOpen
<1>1. /\ Typed /\ Progress /\ Matched /\ OneCall
      /\ peer = "client" /\ ServerOpen
      /\ Len(sent) = Len(got) + 1
      /\ sent[Len(sent)].op = calling
  BY DEF IInv, OneCall
<1>2. Len(down) \in Nat \ {0} /\ Head(down) = down[1]
  BY <1>1, EmptySeq DEF Typed
<1>3. Len(got) + Len(down) <= Len(sent)
  BY <1>1, AnswersFacts DEF Progress, Taken, Typed
<1>4. Len(down) = 1 /\ Len(Answers) = Len(sent)
  <2>1. Len(Answers) = Len(got) + Len(down) /\ Len(got) \in Nat
    BY <1>1, AnswersFacts
  <2>2. Len(got) + Len(down) <= Len(got) + 1
    BY <1>1, <1>3
  <2>3. \A g \in Nat : \A d \in Nat \ {0} : g + d <= g + 1 => d = 1
    OBVIOUS
  <2>4. Len(down) = 1
    BY <1>2, <2>1, <2>2, <2>3
  <2> QED
    BY <1>1, <2>1, <2>4
<1>5. Answers[Len(sent)] = down[1]
  BY <1>1, <1>2, <1>4, AnswersFacts
<1>6. Answers[Len(sent)].op = Expected(sent[Len(sent)].op)
  BY <1>1, <1>4, AnswersFacts DEF Matched, Fits
<1> QED
  BY <1>1, <1>2, <1>4, <1>5, <1>6

LEMMA AwaitPreserves ==
  ASSUME IInv, Await
  PROVE  IInv'
<1>0. /\ Waiting /\ peer = "client" /\ peerOpen /\ OneCall /\ Typed
      /\ next_req_id \in Nat
  BY DEF IInv, Await, OneCall, Typed
<1>1. CASE Take /\ Finish(calling, IF Head(down).op = Expected(calling)
                                   THEN "Ok" ELSE "UnexpectedReply")
  <2>1. /\ Head(down).op = Expected(calling) /\ Len(down) = 1 /\ ServerOpen
    BY <1>0, <1>1, AwaitedIsExpected DEF Take
  <2>2. /\ outcome' = "Ok" /\ calling' = "idle" /\ peerOpen' = TRUE
        /\ UNCHANGED <<up, peer, next_req_id, sent, serverVars>>
        /\ Take
    BY <1>1, <2>1 DEF Finish
  <2>3. Wire' /\ Len(got') = Len(got) + 1 /\ Len(down') = Len(down) - 1
    BY <1>0, <2>2, TakePreserves
  <2>4. ~Waiting' /\ ServerOpen' /\ Len(sent') = Len(got')
    BY <1>0, <2>1, <2>2, <2>3 DEF Waiting, ServerOpen, serverVars, OneCall
  <2>5. Len(got') \in Nat
    BY <1>0, <2>3, AnswersFacts
  <2>6. OneCall'
    BY <1>0, <2>2, <2>4, <2>5 DEF OneCall, NeverUnexpected
  <2> QED
    BY <2>3, <2>6 DEF Wire, IInv
<1>2. CASE /\ down = << >> /\ ~ServerOpen /\ Finish(calling, "Transport")
           /\ UNCHANGED <<down, got>>
  <2>1. /\ outcome' = "Transport" /\ calling' \in {"dropped", "idle"}
        /\ peerOpen' \in BOOLEAN
        /\ UNCHANGED <<up, peer, next_req_id, sent, serverVars, down, got>>
    BY <1>2 DEF Finish
  <2>2. Wire'
    BY <1>0, <2>1, QuietPreserves
  <2>3. ~Waiting' /\ ~ServerOpen'
    BY <1>2, <2>1 DEF Waiting, ServerOpen, serverVars
  <2>4. OneCall'
    BY <1>0, <1>2, <2>1, <2>3 DEF OneCall, NeverUnexpected
  <2> QED
    BY <2>2, <2>4 DEF Wire, IInv
<1> QED
  BY <1>1, <1>2 DEF Await

\* The owner drops an idle client.
LEMMA ClientDropPreserves ==
  ASSUME IInv, ClientDrop
  PROVE  IInv'
<1>1. /\ OneCall /\ Typed
      /\ calling = "idle" /\ calling' = "dropped" /\ peerOpen' = FALSE
      /\ UNCHANGED <<up, down, sent, got, serverVars>>
      /\ UNCHANGED <<peer, next_req_id, outcome>>
      /\ next_req_id \in Nat
  BY DEF IInv, ClientDrop, Typed
<1>2. Wire'
  BY <1>1, QuietPreserves
<1>3. ~Waiting /\ ~Waiting' /\ ServerOpen' = ServerOpen
  BY <1>1 DEF Waiting, ServerOpen, serverVars
<1>4. OneCall'
  BY <1>1, <1>3 DEF OneCall, NeverUnexpected
<1> QED
  BY <1>2, <1>4 DEF Wire, IInv

\* What an arbitrary peer does never concerns a client.
LEMMA PeerPreserves ==
  ASSUME IInv, (\E f \in PeerFrame : PeerSend(f)) \/ PeerRecv \/ PeerClose
  PROVE  IInv'
<1>1. /\ OneCall /\ Typed /\ peer = "any" /\ peerOpen
      /\ UNCHANGED <<peer, calling, next_req_id, outcome, serverVars>>
      /\ next_req_id \in Nat
  BY DEF IInv, PeerSend, PeerRecv, PeerClose, clientVars, Typed
<1>2. OneCall'
  BY <1>1 DEF OneCall, Waiting, NeverUnexpected
<1>3. ASSUME NEW f \in PeerFrame, PeerSend(f) PROVE Wire'
  <2>1. f \in Frame
    BY PeerFrameAssumption
  <2>2. Put(f) /\ UNCHANGED <<down, peerOpen, got, serverVars>>
    BY <1>3 DEF PeerSend
  <2> QED
    BY <1>1, <2>1, <2>2, PutPreserves
<1>4. ASSUME PeerRecv PROVE Wire'
  <2>1. Take /\ UNCHANGED <<up, peerOpen, sent, next_req_id, serverVars>>
    BY <1>1, <1>4 DEF PeerRecv
  <2> QED
    BY <2>1, TakePreserves
<1>5. ASSUME PeerClose PROVE Wire'
  BY <1>1, <1>5, QuietPreserves DEF PeerClose
<1> QED
  BY <1>2, <1>3, <1>4, <1>5 DEF Wire, IInv

LEMMA NextPreserves ==
  IInv /\ [Next]_vars => IInv'
<1> SUFFICES ASSUME IInv, [Next]_vars PROVE IInv'
  OBVIOUS
<1>1. CASE ServerStep /\ UNCHANGED <<clientVars, sent, got>>
  BY <1>1, RecvPreserves, HandleOkPreserves, HandleFailsPreserves, SendPreserves,
     RecordPreserves DEF ServerStep
<1>2. CASE Connect
  <2>1. ~Waiting /\ HELLO_LEN \in Nat
    BY <1>2 DEF Connect, Waiting, HELLO_LEN
  <2> QED
    BY <1>2, <2>1, RequestPreserves, CapAssumption DEF Connect
<1>3. CASE ClientNoop
  BY <1>3, RequestPreserves DEF ClientNoop, Waiting
<1>4. CASE ClientCall
  BY <1>4, RequestPreserves DEF ClientCall, Waiting
<1>5. CASE Await
  BY <1>5, AwaitPreserves
<1>6. CASE ClientDrop
  BY <1>6, ClientDropPreserves
<1>7. CASE (\E f \in PeerFrame : PeerSend(f)) \/ PeerRecv \/ PeerClose
  BY <1>7, PeerPreserves
<1>8. CASE UNCHANGED vars
  <2>1. /\ UNCHANGED <<up, down, peerOpen, pc, frame, reply, session, result, registry, handled>>
        /\ UNCHANGED <<peer, calling, next_req_id, outcome, sent, got>>
        /\ Answers' = Answers /\ Taken' = Taken
    BY <1>8 DEF vars, serverVars, clientVars, Answers, Taken
  <2>2. Typed'
    BY <2>1 DEF IInv, Typed, TypeOK
  <2>3. Pipe' /\ Progress' /\ Matched' /\ Limit' /\ Books'
    BY <2>1 DEF IInv, Pipe, Progress, Matched, Limit, Books, Recorded
  <2>4. OneCall'
    BY <2>1 DEF IInv, OneCall, Waiting, ServerOpen, NeverUnexpected
  <2> QED
    BY <2>2, <2>3, <2>4 DEF IInv
<1> QED
  BY <1>1, <1>2, <1>3, <1>4, <1>5, <1>6, <1>7, <1>8 DEF Next

---------------------------------------------------------------------------
\* The inductive invariant holds throughout, for a client and for a peer
\* that sends whatever it likes and leaves when it likes.
THEOREM Invariance == Spec => []IInv
  BY InitEstablishes, NextPreserves, PTL DEF Spec

\* The session never grants more than its default limit and numbers its
\* replies by the frames it has handled; serve has a result when it returns.
THEOREM TypeCorrect == Spec => []TypeOK
<1>1. IInv => TypeOK
  BY DEF IInv, Typed
<1> QED
  BY <1>1, Invariance, PTL

\* The n-th reply answers the n-th request and is stamped n, however the
\* peer pipelines its requests and whenever it goes away.
THEOREM AnswersCorrect == Spec => []AnswersInOrder
<1>1. ASSUME IInv PROVE AnswersInOrder
  <2>1. Len(Answers) <= Len(sent)
    BY <1>1, AnswersFacts DEF IInv, Progress, Taken, Typed
  <2> QED
    BY <1>1, <2>1 DEF IInv, Matched, Fits, AnswersInOrder
<1> QED
  BY <1>1, Invariance, PTL

\* No answer is left over between two calls of a client, so that Client may
\* skip comparing request ids.
THEOREM LeftoversCorrect == Spec => []NoLeftovers
<1>1. ASSUME IInv, peer = "client", ~Waiting
      PROVE  down = << >> /\ (ServerOpen => Len(got) = Len(sent))
  <2>1. CASE ~ServerOpen
    BY <1>1, <2>1 DEF IInv, OneCall
  <2>2. CASE ServerOpen
    <3>1. Len(sent) = Len(got) /\ Len(got) \in Nat /\ Len(down) \in Nat
      BY <1>1, <2>2, AnswersFacts DEF IInv, OneCall
    <3>2. Len(got) + Len(down) <= Len(sent)
      BY <1>1, AnswersFacts DEF IInv, Progress, Taken, Typed
    <3>3. Len(down) = 0
      BY <3>1, <3>2
    <3> QED
      BY <1>1, <3>1, <3>3, EmptySeq DEF IInv, Typed
  <2> QED
    BY <2>1, <2>2
<1>2. IInv => NoLeftovers
  BY <1>1 DEF NoLeftovers
<1> QED
  BY <1>2, Invariance, PTL

\* A client never finds an answer of another opcode than it waits for.
THEOREM UnexpectedNever == Spec => []NeverUnexpected
<1>1. IInv => NeverUnexpected
  BY DEF IInv, OneCall
<1> QED
  BY <1>1, Invariance, PTL

\* The limit in force is the one the latest WELCOME announced.
THEOREM LimitCorrect == Spec => []AnnouncedLimitInForce
<1>1. Announced(Len(Answers)) = Latest(Answers)
  BY DEF Announced, Latest
<1>2. IInv => AnnouncedLimitInForce
  BY <1>1 DEF IInv, Limit, AnnouncedLimitInForce
<1> QED
  BY <1>2, Invariance, PTL

\* As long as the peer is there the registry counts exactly the replies it
\* was sent, at most the last of them late.
THEOREM RecordedCorrect == Spec => []RecordedIsSent
<1>1. ASSUME IInv PROVE RecordedIsSent
  <2>1. /\ Len(Answers) \in Nat /\ Recorded \in Nat
        /\ pc \in {"recv", "handle", "send", "record", "done"}
    BY <1>1, AnswersFacts DEF IInv, Typed, TypeOK, Recorded
  <2>2. Recorded = registry.core + registry.api
    BY DEF Recorded
  <2> QED
    BY <1>1, <2>1, <2>2 DEF IInv, Books, RecordedIsSent
<1> QED
  BY <1>1, Invariance, PTL

\* A peer that negotiated a limit below the size of a HELLO is held to it
\* for the rest of the session.
THEOREM LimitNoWayBack == Spec => NoWayBack
<1>1. ASSUME IInv, [Next]_vars, session.max_frame_body < HELLO_LEN
      PROVE  session'.max_frame_body = session.max_frame_body
  <2>1. CASE HandleOk
    <3>1. /\ frame \in Frame /\ frame.len \in Nat
          /\ session.max_frame_body \in Nat
          /\ session \in [max_frame_body : 0 .. DEFAULT_MAX_FRAME_BODY,
                          handshook : BOOLEAN, next_seq : Nat]
      BY <1>1, <2>1, CapAssumption DEF IInv, Typed, HandleOk, Frame
    <3>2. frame.len <= session.max_frame_body /\ ~(frame.len >= HELLO_LEN)
      BY <1>1, <2>1, <3>1 DEF HandleOk, WellFramed, HELLO_LEN
    <3>3. ~HandleHello
      BY <3>2 DEF HandleHello
    <3> QED
      BY <2>1, <3>1, <3>3 DEF HandleOk, HandleNoop, HandleCall
  <2>2. CASE ~HandleOk
    <3>1. session' = session
      BY <1>1, <2>2
      DEF Next, vars, serverVars, ServerStep, Recv, HandleFails, Send, Record, Connect,
          ClientNoop, ClientCall, Request, Await, Finish, ClientDrop, PeerSend, PeerRecv,
          PeerClose
    <3> QED
      BY <3>1
  <2> QED
    BY <2>1, <2>2
<1>2. IInv /\ [Next]_vars
        => [session.max_frame_body < HELLO_LEN =>
              session'.max_frame_body = session.max_frame_body]_vars
  BY <1>1
<1> QED
  BY <1>2, Invariance, PTL DEF Spec, NoWayBack
===========================================================================
