-------------------------------- MODULE Tcp --------------------------------
(***************************************************************************)
(* The server binary: serve_tcp accepts connections and serves each to its *)
(* end, with a session of its own, before it accepts the next.  Three      *)
(* clients come to it:                                                     *)
(*   Recorder  calls as it likes, and records what passes its transport;   *)
(*   Replayer  replays what was recorded, then drains the replies;         *)
(*   Stranger  writes bytes of its own, reads nothing, and may stay.       *)
(*                                                                         *)
(* A frame is a sequence of bytes, of which the first stands for all that  *)
(* decode_frame finds in it.  Handles are slots of the instance table.     *)
(***************************************************************************)
EXTENDS Stream, FiniteSetsExt, SequencesExt

CONSTANTS
  Recorder, Replayer, Stranger,
  Requests,   \* the messages the recorder may send
  Scribbles,  \* the bytes the stranger may write
  CALLS_MAX,  \* bounds the calls of the recorder
  None

ASSUME ClientsAssumption ==
  /\ Clients = {Recorder, Replayer, Stranger}
  /\ Recorder # Replayer /\ Recorder # Stranger /\ Replayer # Stranger
  /\ None \notin Clients

\* Requests have a header, and a length that send can write in four bytes.
ASSUME RequestsAssumption ==
  \A m \in Requests :
    /\ m.kind = "Request"
    /\ m.len \in Nat \ {0} /\ m.len \div 16777216 < 256
    /\ m # None

ASSUME ScribblesAssumption ==
  \A b \in Scribbles : Len(b) \in Nat /\ b = [i \in 1 .. Len(b) |-> b[i]]

VARIABLES
  at,       \* where a client is
  cursor,   \* the frames of the recording that replay's loop is past
  backlog,  \* connections not accepted yet
  serving,  \* the connection in serve; None in accept
  session,  \* its Session
  next_id   \* the id of the next session

clientVars == <<at, cursor>>
serverVars == <<backlog, serving, session, next_id>>
vars == <<streamVars, clientVars, serverVars>>

\* A message as a frame.
Bytes(m) == [i \in 1 .. m.len |-> IF i = 1 THEN m ELSE None]

\* decode_frame on the frames of this model: there is a header in front.
DecodesFrame(frame) == frame # << >> /\ frame[1] # None /\ frame = Bytes(frame[1])

Init ==
  /\ InitStream
  /\ at = [c \in Clients |-> "new"]
  /\ cursor = 0
  /\ backlog = << >>
  /\ serving = None
  /\ session = None
  /\ next_id = 1

---------------------------------------------------------------------------
(***************************************************************************)
(* The server.                                                             *)
(***************************************************************************)

\* A mutant: one session serves all connections.
AcceptOldSession ==
  /\ serving = None
  /\ backlog # << >>
  /\ serving' = Head(backlog)
  /\ backlog' = Tail(backlog)
  /\ session' = IF session = None THEN [id |-> next_id, next_seq |-> 1, instances |-> 0]
                ELSE session
  /\ next_id' = next_id + 1
  /\ UNCHANGED <<streamVars, clientVars>>

Accept ==
  /\ serving = None
  /\ backlog # << >>
  /\ serving' = Head(backlog)
  /\ backlog' = Tail(backlog)
  /\ session' = [id |-> next_id, next_seq |-> 1, instances |-> 0]
  /\ next_id' = next_id + 1
  /\ UNCHANGED <<streamVars, clientVars>>

\* A connection that was given up before it was accepted: logged and skipped.
AcceptFails ==
  /\ serving = None
  /\ backlog # << >>
  /\ shut[<<Head(backlog), "client">>]
  /\ backlog' = Tail(backlog)
  /\ UNCHANGED <<streamVars, clientVars, serving, session, next_id>>

\* Session::handle: the value it answers with, for the opcodes it serves.
Answers ==
  [HELLO |-> session.id, NOOP |-> 0, CREATE_INSTANCE |-> session.instances]

REPLY_OP ==
  [HELLO |-> "WELCOME", NOOP |-> "NOOP", CREATE_INSTANCE |-> "CREATE_INSTANCE"]

REPLY_LEN == [HELLO |-> 1, NOOP |-> 1, CREATE_INSTANCE |-> 2]

\* No reply is longer than what recv accepts.
ASSUME RepliesAssumption == \A op \in DOMAIN REPLY_LEN : REPLY_LEN[op] <= MAX_FRAME

Served(frame) == DecodesFrame(frame) /\ frame[1].op \in DOMAIN Answers

Reply(m) ==
  [kind |-> "Response", op |-> REPLY_OP[m.op], seq |-> session.next_seq,
   value |-> Answers[m.op], len |-> REPLY_LEN[m.op]]

\* serve: a frame is received and answered.
ServeFrame(e) ==
  /\ serving = e[1]
  /\ sending[e] = << >>
  /\ RecvOk(e)
  /\ Served(Received(e))
  /\ LET m == Received(e)[1]
     IN  /\ StartSend(e, Bytes(Reply(m)))
         /\ session' = [session EXCEPT !.next_seq = @ + 1,
                          !.instances = IF m.op = "CREATE_INSTANCE" THEN @ + 1 ELSE @]
  /\ UNCHANGED <<pipe, shut, clientVars, backlog, serving, next_id>>

ReplySent(e) ==
  /\ serving = e[1]
  /\ SendOk(e)
  /\ UNCHANGED <<out, pipe, in, shut, clientVars, serverVars>>

\* A mutant: serve_tcp returns the error of a connection.
HangUpReturns(e, result) ==
  /\ Drop(e)
  /\ serving' = IF result = "Ok" THEN None ELSE "returned"
  /\ UNCHANGED <<sending, out, clientVars, backlog, session, next_id>>

\* serve returns, its result is at most logged, and the connection dropped.
HangUp(e, result) ==
  /\ Drop(e)
  /\ serving' = None
  /\ UNCHANGED <<sending, out, clientVars, backlog, session, next_id>>

\* The frame does not decode, or the session refuses it: there is no answer.
ServeRefuses(e) ==
  /\ serving = e[1]
  /\ sending[e] = << >>
  /\ RecvOk(e)
  /\ ~Served(Received(e))
  /\ HangUp(e, "Ok")

\* The peer closed, or what passes for it: the stream may end inside a frame.
ServeCloses(e) ==
  /\ serving = e[1]
  /\ sending[e] = << >>
  /\ Eof(e)
  /\ HangUp(e, "Ok")
  /\ UNCHANGED bookVars

ServeFails(e) ==
  /\ serving = e[1]
  /\ \/ sending[e] = << >> /\ (TooLong(e) \/ Reset(e))
     \/ SendFails(e)
  /\ HangUp(e, "Err")
  /\ UNCHANGED bookVars

ServerReads(e) ==
  /\ serving = e[1]
  /\ sending[e] = << >>
  /\ Read(e)
  /\ UNCHANGED <<clientVars, serverVars>>

ServerWrites(e) ==
  /\ serving = e[1]
  /\ Write(e)
  /\ UNCHANGED <<clientVars, serverVars>>

ServerEnd == {e \in Ends : e[2] = "server"}

Server ==
  \/ Accept
  \/ AcceptFails
  \/ \E e \in ServerEnd :
       \/ ServerReads(e)
       \/ ServeFrame(e)
       \/ ServerWrites(e)
       \/ ReplySent(e)
       \/ ServeRefuses(e)
       \/ ServeCloses(e)
       \/ ServeFails(e)

---------------------------------------------------------------------------
(***************************************************************************)
(* The clients.                                                            *)
(***************************************************************************)
is_request(frame) == DecodesFrame(frame) /\ frame[1].kind = "Request"

Recorded == trace[<<Recorder, "client">>]

\* A mutant: every frame of the trace is sent again.
NextRequestAny(i) == i \in DOMAIN Recorded /\ i = cursor + 1

\* replay's loop comes to frame i of the trace next: it skips what is not a
\* request.
NextRequest(i) ==
  /\ i \in DOMAIN Recorded
  /\ i > cursor
  /\ is_request(Recorded[i])
  /\ \A j \in cursor + 1 .. i - 1 : ~is_request(Recorded[j])

Go(e, phase) == at' = [at EXCEPT ![e[1]] = phase]

Connect(e) ==
  /\ e[1] # Stranger
  /\ at[e[1]] = "new"
  /\ e[1] = Replayer => at[Recorder] = "left"
  /\ backlog' = Append(backlog, e[1])
  /\ Go(e, "ready")
  /\ UNCHANGED <<streamVars, cursor, serving, session, next_id>>

Sends(e, frame) ==
  /\ StartSend(e, frame)
  /\ Go(e, "sending")
  /\ UNCHANGED <<pipe, in, shut, bookVars, serverVars>>

Call(e) ==
  /\ e[1] = Recorder
  /\ at[Recorder] = "ready"
  /\ Len(sent[e]) < CALLS_MAX
  /\ \E m \in Requests : Sends(e, Bytes(m))
  /\ UNCHANGED cursor

\* The next iteration of replay's loop.
Replay(e) ==
  /\ e[1] = Replayer
  /\ at[Replayer] = "ready"
  /\ \E i \in DOMAIN Recorded :
       /\ NextRequest(i)
       /\ Sends(e, Recorded[i])
       /\ cursor' = i

\* replay has returned: its caller drains the replies.
ReplayReturns(e) ==
  /\ e[1] = Replayer
  /\ at[Replayer] = "ready"
  /\ \A i \in DOMAIN Recorded : ~NextRequest(i)
  /\ Go(e, IF sent[e] = << >> THEN "done" ELSE "receiving")
  /\ UNCHANGED <<streamVars, cursor, serverVars>>

ClientWrites(e) ==
  /\ at[e[1]] = "sending"
  /\ Write(e)
  /\ UNCHANGED <<clientVars, serverVars>>

\* send returns: a call awaits its reply, replay goes on.
ClientSent(e) ==
  /\ at[e[1]] = "sending"
  /\ SendOk(e)
  /\ Go(e, IF e[1] = Recorder THEN "receiving" ELSE "ready")
  /\ UNCHANGED <<out, pipe, in, shut, cursor, serverVars>>

ClientReads(e) ==
  /\ at[e[1]] = "receiving"
  /\ Read(e)
  /\ UNCHANGED <<clientVars, serverVars>>

\* A reply is received; the replayer waits for as many as it sent requests.
ClientReceived(e) ==
  /\ at[e[1]] = "receiving"
  /\ RecvOk(e)
  /\ Go(e, IF e[1] = Recorder THEN "ready"
           ELSE IF Len(got[e]) + 1 < Len(sent[e]) THEN "receiving"
           ELSE "done")
  /\ UNCHANGED <<sending, out, pipe, shut, cursor, serverVars>>

\* The stranger connects, writes and reads nothing.
Scribble(e) ==
  /\ e[1] = Stranger
  /\ at[Stranger] = "new"
  /\ backlog' = Append(backlog, Stranger)
  /\ \E b \in Scribbles : pipe' = [pipe EXCEPT ![e] = b]
  /\ Go(e, "idle")
  /\ UNCHANGED <<sending, out, in, shut, bookVars, cursor, serving, session, next_id>>

\* The client drops its transport: it has finished, or an operation failed.
Leave(e) ==
  /\ \/ at[e[1]] = "done"
     \/ at[e[1]] = "ready" /\ e[1] = Recorder
     \/ at[e[1]] = "receiving" /\ (Eof(e) \/ Reset(e) \/ TooLong(e))
     \/ at[e[1]] = "sending" /\ SendFails(e)
  /\ Drop(e)
  /\ Go(e, "left")
  /\ UNCHANGED <<sending, out, bookVars, cursor, serverVars>>

\* The client's process is killed. (A replay that is killed shows nothing a
\* call that is killed does not.)
Crash(e) ==
  /\ e[1] # Replayer
  /\ at[e[1]] \notin {"new", "left", "crashed"}
  /\ Drop(e)
  /\ Go(e, "crashed")
  /\ UNCHANGED <<sending, out, bookVars, cursor, serverVars>>

ClientStep(e) ==
  \/ Call(e)
  \/ Replay(e)
  \/ ReplayReturns(e)
  \/ ClientWrites(e)
  \/ ClientSent(e)
  \/ ClientReads(e)
  \/ ClientReceived(e)
  \/ Leave(e)

ClientEnd == {e \in Ends : e[2] = "client"}

Next ==
  \/ Server
  \/ \E e \in ClientEnd : Connect(e) \/ ClientStep(e) \/ Scribble(e) \/ Crash(e)

\* The server runs, and so do clients of this crate. What else connects may
\* stop at any point and keep its socket.
Spec ==
  /\ Init
  /\ [][Next]_vars
  /\ WF_vars(Server)
  /\ \A c \in {Recorder, Replayer} : WF_vars(ClientStep(<<c, "client">>))

---------------------------------------------------------------------------
\* The frames an end has written to the last byte.
SentBy(e) ==
  IF out[e] = << >> THEN sent[e] \o sending[e] ELSE sent[e]

Directions == {Recorder, Replayer} \X {"client", "server"}

HandedOver == [e \in Directions |-> SentBy(e)]

Delivered == [e \in Directions |-> got[Peer(e)]]

F == INSTANCE Framed WITH sent <- HandedOver, got <- Delivered

\* Over a stream that breaks anywhere, fills up and is read in pieces,
\* StreamTransport keeps the promise of a transport, both ways: recv returns
\* whole frames only, each once and in order, never one the peer has not sent.
ImplementsFramed == F!Spec

\* Nothing is under way on a connection that has not failed.
Quiet(e) ==
  \A x \in {e, Peer(e)} :
    pipe[x] = << >> /\ in[x] = << >> /\ sending[x] = << >> /\ ~shut[x]

\* The frames of a send that has written its last byte and not returned.
Written(e) == IF out[e] = << >> THEN sending[e] ELSE << >>

\* When nothing is under way, the counters at the two ends of a connection
\* agree in frames and in bytes. At all times, also when a send or a recv has
\* failed half way, an end has counted no more than its peer has sent to the
\* last byte: a frame that was cut is counted by neither.
CountsAgree ==
  \A e \in Directions :
    LET mine   == counts[e]
        theirs == counts[Peer(e)]
    IN  /\ serving = e[1] /\ Quiet(e)
             => theirs.frames_recv = mine.frames_sent /\ theirs.bytes_recv = mine.bytes_sent
        /\ theirs.frames_recv <= SaturatingAdd(mine.frames_sent, Len(Written(e)))
        /\ theirs.bytes_recv <=
             SaturatingAdd(mine.bytes_sent,
                           IF Written(e) = << >> THEN 0 ELSE Len(Head(Written(e))))

\* A reply without what tells one session from another.
Anonymous(frame) ==
  IF frame[1].op = "WELCOME" THEN [frame[1] EXCEPT !.value = 0] ELSE frame[1]

\* A replay against another session, whoever was served in between, is
\* answered as the recorded calls were: the same handles and numbers, in the
\* same order. Only the session's id differs.
ReplayReproduces ==
  LET want == got[<<Recorder, "client">>]
      have == got[<<Replayer, "client">>]
  IN  /\ Len(have) <= Len(want)
      /\ \A i \in 1 .. Len(have) : Anonymous(have[i]) = Anonymous(want[i])

\* The replies that were recorded before the last request fit into the
\* connection.
RepliesFit ==
  LET replies == got[<<Recorder, "client">>]
      calls == Len(sent[<<Recorder, "client">>])
      before == SubSeq(replies, 1, Min({Len(replies), calls - 1}))
      bytes(sum, frame) == sum + 4 + Len(frame)
  IN  Recorded # << >> => FoldLeft(bytes, 0, before) <= CAPACITY

\* replay reads nothing while it sends, and yet it returns and the replies are
\* drained if the connection can hold those that come before the last request is
\* sent (if it cannot, both ends may block in send for ever), unless the stranger
\* keeps the server for itself.
ReplayEnds ==
  <>[](serving # Stranger)
    => (at[Replayer] = "ready" /\ RepliesFit ~> at[Replayer] = "left")

\* If no connection is kept for ever, everyone who connects is accepted, also
\* after connections that broke, were refused or wrote nonsense.
EveryoneServed == []<>(serving \notin Clients) => []<>(backlog = << >>)
=============================================================================
