------------------------------ MODULE Remoting ------------------------------
(***************************************************************************)
(* A server thread and the peer at the other end of its transport.  The    *)
(* peer is either the crate's own Client, which sends a request and blocks *)
(* for its answer, or an arbitrary program that sends any frames it likes  *)
(* without waiting and may go away at any moment.                          *)
(***************************************************************************)
EXTENDS Serve

CONSTANTS
  PeerFrame,   \* the frames an arbitrary peer may send
  MaxFrames,   \* bound: frames sent in one session
  REQ_ID_MAX   \* u32::MAX, where the client's request ids saturate

ASSUME PeerFrameAssumption == PeerFrame \subseteq Frame
ASSUME ReqIdAssumption == REQ_ID_MAX \in Nat \ {0}

VARIABLES
  peer,        \* "client" or "any"
  calling,     \* the client's state: the opcode it waits for, or where it is
  next_req_id, \* the client's counter
  outcome,     \* what the client's last call returned
  sent, got    \* history: frames put on the wire, replies taken from it

clientVars == <<peer, calling, next_req_id, outcome>>
vars == <<up, down, peerOpen, serverVars, clientVars, sent, got>>

Init ==
  /\ InitServer
  /\ peer \in {"client", "any"}
  /\ calling = "new"
  /\ next_req_id = 1
  /\ outcome = None
  /\ sent = << >>
  /\ got = << >>

\* Transport::send at the peer's end: it fails when the server has returned.
Put(f) ==
  /\ ServerOpen
  /\ up' = Append(up, f)
  /\ sent' = Append(sent, f)

Take ==
  /\ down # << >>
  /\ down' = Tail(down)
  /\ got' = Append(got, Head(down))

---------------------------------------------------------------------------
(***************************************************************************)
(* The Client.                                                             *)
(***************************************************************************)

ClientFrame(op, len, cap) ==
  [op |-> op, req_id |-> next_req_id, decodes |-> TRUE, exact |-> TRUE,
   len |-> len, major |-> TRUE, cap |-> cap]

\* The opcode a call expects in its answer.
Expected(op) == IF op = "HELLO" THEN "WELCOME" ELSE op

SatNext(n) == IF n < REQ_ID_MAX THEN n + 1 ELSE REQ_ID_MAX

\* The first half of a call: allocate the ids, send the request. A request
\* that cannot be sent fails the call; connect drops its transport with it.
Request(op, len, cap) ==
  /\ peer = "client"
  /\ peerOpen
  /\ Len(sent) < MaxFrames
  /\ next_req_id' = SatNext(next_req_id)
  /\ \/ /\ Put(ClientFrame(op, len, cap))
        /\ calling' = op
        /\ UNCHANGED <<outcome, peerOpen>>
     \/ /\ ~ServerOpen
        /\ outcome' = "Transport"
        /\ calling' = IF op = "HELLO" THEN "dropped" ELSE "idle"
        /\ peerOpen' = (op # "HELLO")
        /\ UNCHANGED <<up, sent>>
  /\ UNCHANGED <<down, peer, got, serverVars>>

Connect == calling = "new" /\ Request("HELLO", HELLO_LEN, DEFAULT_MAX_FRAME_BODY)

\* A mutant: the call returns without waiting for its answer.
ClientNoopNoWait ==
  /\ calling = "idle"
  /\ peerOpen
  /\ Len(sent) < MaxFrames
  /\ Put(ClientFrame("NOOP", 0, None))
  /\ next_req_id' = SatNext(next_req_id)
  /\ UNCHANGED <<down, peerOpen, peer, calling, outcome, got, serverVars>>

ClientNoop == calling = "idle" /\ Request("NOOP", 0, None)

\* Any typed call (the server answers it with the body the call expects).
ClientCall == calling = "idle" /\ Request("CALL", 8, None)

\* The second half: block for the answer and look at its opcode (its req_id
\* is not looked at). Only connect drops the transport when it fails.
Finish(op, o) ==
  /\ outcome' = o
  /\ calling' = IF op = "HELLO" /\ o # "Ok" THEN "dropped" ELSE "idle"
  /\ peerOpen' = ~(op = "HELLO" /\ o # "Ok")
  /\ UNCHANGED <<up, peer, next_req_id, sent, serverVars>>

Waiting == calling \in {"HELLO", "NOOP", "CALL"}

Await ==
  /\ Waiting
  /\ \/ /\ Take
        /\ Finish(calling,
             IF Head(down).op = Expected(calling) THEN "Ok" ELSE "UnexpectedReply")
     \/ /\ down = << >>
        /\ ~ServerOpen
        /\ Finish(calling, "Transport")
        /\ UNCHANGED <<down, got>>

\* The owner drops an idle client and its end of the transport with it.
ClientDrop ==
  /\ calling = "idle"
  /\ calling' = "dropped"
  /\ peerOpen' = FALSE
  /\ UNCHANGED <<up, down, peer, next_req_id, outcome, sent, got, serverVars>>

---------------------------------------------------------------------------
(***************************************************************************)
(* An arbitrary peer.                                                      *)
(***************************************************************************)

PeerSend(f) ==
  /\ peer = "any"
  /\ peerOpen
  /\ Len(sent) < MaxFrames
  /\ Put(f)
  /\ UNCHANGED <<down, peerOpen, clientVars, got, serverVars>>

PeerRecv ==
  /\ peer = "any"
  /\ peerOpen
  /\ Take
  /\ UNCHANGED <<up, peerOpen, clientVars, sent, serverVars>>

PeerClose ==
  /\ peer = "any"
  /\ peerOpen
  /\ peerOpen' = FALSE
  /\ UNCHANGED <<up, down, clientVars, sent, got, serverVars>>

---------------------------------------------------------------------------
Next ==
  \/ ServerStep /\ UNCHANGED <<clientVars, sent, got>>
  \/ Connect
  \/ ClientNoop
  \/ ClientCall
  \/ Await
  \/ ClientDrop
  \/ \E f \in PeerFrame : PeerSend(f)
  \/ PeerRecv
  \/ PeerClose

\* The server's thread is scheduled and its loop has no step of its own that
\* waits for anything but a frame; a client blocked in recv wakes up when its
\* channel has something for it. Nobody has to make another call.
Fairness ==
  /\ WF_vars(ServerStep /\ UNCHANGED <<clientVars, sent, got>>)
  /\ WF_vars(Await)

Spec == Init /\ [][Next]_vars /\ Fairness

---------------------------------------------------------------------------
\* What the peer has been answered, in the order of the answers.
Answers == got \o down

\* A session never grants more than the default limit and numbers its
\* replies from 1; the loop is where its data says it is.
TypeOK ==
  /\ session.max_frame_body \in 0 .. DEFAULT_MAX_FRAME_BODY
  /\ session.next_seq = handled + 1
  /\ pc \in {"recv", "handle", "send", "record", "done"}
  /\ (result # None) = (pc = "done")

\* The n-th reply answers the n-th request, and is stamped n: a peer that
\* pipelines requests, and a client that never compares the req_id of an
\* answer with that of its request, can both rely on the order alone.
AnswersInOrder ==
  /\ Len(Answers) <= Len(sent)
  /\ \A n \in 1 .. Len(Answers) :
       /\ Answers[n].req_id = sent[n].req_id
       /\ Answers[n].seq = n

\* Between two calls of a client nothing is left over that its next call
\* could take for its own answer, whatever happened to the calls before.
NoLeftovers ==
  peer = "client" /\ ~Waiting => down = << >> /\ (ServerOpen => Len(got) = Len(sent))

\* The client never meets an answer of another opcode than it waits for.
NeverUnexpected == outcome # "UnexpectedReply"

\* The limit that the latest WELCOME among the first n answers announced.
Announced(n) ==
  LET welcomes == {m \in 1 .. n : Answers[m].op = "WELCOME"}
      latest   == CHOOSE m \in welcomes : \A k \in welcomes : k <= m
  IN  IF welcomes = {} THEN DEFAULT_MAX_FRAME_BODY ELSE Answers[latest].cap

\* The limit the session holds frames to is the one its latest WELCOME told
\* the peer, also after the peer has negotiated a second time.
AnnouncedLimitInForce ==
  peerOpen /\ pc \in {"recv", "handle"}
    => session.max_frame_body = Announced(Len(Answers))

\* A peer that asks for a limit below the size of a HELLO has no way back:
\* the limit applies to the HELLO that would raise it.
NoWayBack ==
  [][session.max_frame_body < HELLO_LEN =>
       session'.max_frame_body = session.max_frame_body]_vars

\* The registry counts the replies that went out, at most one of them late:
\* a peer that reads it right after its reply may miss just that call.
RecordedIsSent ==
  peerOpen => registry.core + registry.api
                = Len(Answers) - (IF pc = "record" THEN 1 ELSE 0)

\* A call returns, with an answer or an error: no frame makes the server
\* fall silent without closing the transport.
CallReturns == Waiting ~> ~Waiting

\* The server's thread can be joined once its peer has gone away.
ServeEnds == ~peerOpen ~> pc = "done"

---------------------------------------------------------------------------
\* What the comment on Hello and PROTOCOL.md say of max_frame_body: it is
\* the largest body the client is willing to receive, and no longer one is
\* sent to it as a control frame.
RepliesWithinLimit ==
  \A n \in 1 .. Len(Answers) : Answers[n].len <= Announced(n - 1)

\* What the comment on serve_with_metrics says: for every frame the session
\* handles successfully one call is recorded.
RecordsEveryHandled == pc = "done" => registry.core + registry.api = handled

\* What the comment on the module serve.rs says: a peer that closes ends the
\* loop without error.
CloseIsNoError == result # "Err"
===========================================================================
