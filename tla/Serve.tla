------------------------------- MODULE Serve -------------------------------
(***************************************************************************)
(* One server thread: the loop serve_with_metrics drives a Session over    *)
(* its end of a transport (serve is the same loop without the registry).   *)
(* The transport is the pair of channels that loopback() creates, on which *)
(*   - recv blocks until there is a frame, or fails once the other end is  *)
(*     dropped and every frame it sent has been read, and                  *)
(*   - send fails as soon as the other end is dropped.                     *)
(*                                                                         *)
(* A frame is a record of what the session looks at: its opcode, whether   *)
(* its header decodes, its req_id, the length of its body and whether the  *)
(* header declares that length, and for HELLO the major version and the    *)
(* body limit it asks for.                                                 *)
(***************************************************************************)
EXTENDS Integers, Sequences

CONSTANTS
  DEFAULT_MAX_FRAME_BODY,  \* 1 MiB in the code
  None                     \* nothing yet: no frame, no reply, no result

\* Encoded sizes of the two handshake bodies.
HELLO_LEN == 12
WELCOME_LEN == 20

ASSUME CapAssumption ==
  DEFAULT_MAX_FRAME_BODY \in Nat /\ DEFAULT_MAX_FRAME_BODY >= WELCOME_LEN
\* Nothing is told from every result and every outcome.
ASSUME NoneAssumption == None \notin {"Ok", "Err", "Transport", "UnexpectedReply"}

\* Every frame a transport can deliver. HELLO carries a limit, a u32.
Frame ==
  {f \in [op : {"HELLO", "NOOP", "CALL", "UNKNOWN"}, req_id : Nat,
          decodes : BOOLEAN, exact : BOOLEAN, len : Nat, major : BOOLEAN,
          cap : Nat \cup {None}] :
     f.op = "HELLO" => f.cap \in Nat}

VARIABLES
  up,        \* frames sent to the server and not received yet
  down,      \* replies sent by the server and not received yet
  peerOpen,  \* the peer still holds its end of the transport
  pc,        \* where the server's loop is; "done" once it has returned
  frame,     \* the frame being served
  reply,     \* the answer to it
  session,   \* the Session: max_frame_body, handshook and next_seq
  result,    \* what the loop has returned: Ok or Err
  registry,  \* calls recorded per API name
  handled    \* history: frames Session::handle answered with Ok

serverVars == <<pc, frame, reply, session, result, registry, handled>>

NewSession ==
  [max_frame_body |-> DEFAULT_MAX_FRAME_BODY, handshook |-> FALSE, next_seq |-> 1]

InitServer ==
  /\ up = << >>
  /\ down = << >>
  /\ peerOpen = TRUE
  /\ pc = "recv"
  /\ frame = None
  /\ reply = None
  /\ session = NewSession
  /\ result = None
  /\ registry = [core |-> 0, api |-> 0]
  /\ handled = 0

\* The endpoint is dropped when the thread that owns it returns.
ServerOpen == pc # "done"

---------------------------------------------------------------------------
\* A mutant: the limit the client asks for is granted as it is.
NegotiatedUncapped(hello) == hello.cap

\* Session::handle on HELLO: the smaller of the client's limit and ours.
Negotiated(hello) ==
  IF hello.cap < DEFAULT_MAX_FRAME_BODY THEN hello.cap ELSE DEFAULT_MAX_FRAME_BODY

\* A mutant: HELLO is exempt from the limit, so that it can be renegotiated.
WellFramedHelloExempt(f) ==
  /\ f.decodes
  /\ f.len <= session.max_frame_body \/ f.op = "HELLO"
  /\ f.exact

\* Session::handle: the checks on every frame, before its opcode is looked at.
WellFramed(f) ==
  /\ f.decodes
  /\ f.len <= session.max_frame_body
  /\ f.exact

\* A mutant: the reply carries its own number as the id of the request.
ReplyOwnId(op, f, len, cap) ==
  [op |-> op, req_id |-> session.next_seq, seq |-> session.next_seq,
   len |-> len, cap |-> cap]

\* Session::reply.
Reply(op, f, len, cap) ==
  [op |-> op, req_id |-> f.req_id, seq |-> session.next_seq, len |-> len, cap |-> cap]

\* A mutant: HELLO is answered under its own opcode.
HandleHelloEcho ==
  /\ frame.op = "HELLO"
  /\ frame.len >= HELLO_LEN
  /\ frame.major
  /\ session' = [max_frame_body |-> Negotiated(frame), handshook |-> TRUE,
                 next_seq |-> session.next_seq + 1]
  /\ reply' = Reply("HELLO", frame, WELCOME_LEN, Negotiated(frame))

\* A mutant: the limit is announced and not applied.
HandleHelloKeepsLimit ==
  /\ frame.op = "HELLO"
  /\ frame.len >= HELLO_LEN
  /\ frame.major
  /\ session' = [session EXCEPT !.handshook = TRUE, !.next_seq = @ + 1]
  /\ reply' = Reply("WELCOME", frame, WELCOME_LEN, Negotiated(frame))

\* Session::handle on each opcode, when it answers with Ok.
HandleHello ==
  /\ frame.op = "HELLO"
  /\ frame.len >= HELLO_LEN
  /\ frame.major
  /\ session' = [max_frame_body |-> Negotiated(frame), handshook |-> TRUE,
                 next_seq |-> session.next_seq + 1]
  /\ reply' = Reply("WELCOME", frame, WELCOME_LEN, Negotiated(frame))

HandleNoop ==
  /\ frame.op = "NOOP"
  /\ session' = [session EXCEPT !.next_seq = @ + 1]
  /\ reply' = Reply("NOOP", frame, 0, None)

\* The bodies backends answer with: nothing, a u32, a handle, a list of one.
CALL_LENS == {0, 4, 8, 12}

\* An opcode of a registered backend, which answers or refuses (HandleFails).
HandleCall ==
  /\ frame.op = "CALL"
  /\ session' = [session EXCEPT !.next_seq = @ + 1]
  /\ \E len \in CALL_LENS : reply' = Reply("CALL", frame, len, None)

---------------------------------------------------------------------------
\* A mutant: the end of the stream is not told from an empty one.
RecvIgnoresEof ==
  /\ pc = "recv"
  /\ up # << >>
  /\ frame' = Head(up)
  /\ up' = Tail(up)
  /\ pc' = "handle"
  /\ UNCHANGED <<down, peerOpen, reply, session, result, registry, handled>>

Recv ==
  /\ pc = "recv"
  /\ \/ /\ up # << >>
        /\ frame' = Head(up)
        /\ up' = Tail(up)
        /\ pc' = "handle"
        /\ UNCHANGED result
     \/ /\ up = << >>
        /\ ~peerOpen
        /\ pc' = "done"
        /\ result' = "Ok"
        /\ UNCHANGED <<frame, up>>
  /\ UNCHANGED <<down, peerOpen, reply, session, registry, handled>>

HandleOk ==
  /\ pc = "handle"
  /\ WellFramed(frame)
  /\ HandleHello \/ HandleNoop \/ HandleCall
  /\ handled' = handled + 1
  /\ pc' = "send"
  /\ UNCHANGED <<up, down, peerOpen, frame, result, registry>>

\* A mutant: a protocol error is skipped instead of ending the session.
HandleFailsSkips ==
  /\ pc = "handle"
  /\ \/ ~WellFramed(frame)
     \/ frame.op = "HELLO" /\ (frame.len < HELLO_LEN \/ ~frame.major)
     \/ frame.op \in {"CALL", "UNKNOWN"}
  /\ pc' = "recv"
  /\ UNCHANGED <<up, down, peerOpen, frame, reply, session, result, registry, handled>>

\* Session::handle answers with Err: the frame is malformed, nobody serves
\* its opcode or the backend refuses. The loop returns Ok without a reply.
HandleFails ==
  /\ pc = "handle"
  /\ \/ ~WellFramed(frame)
     \/ frame.op = "HELLO" /\ (frame.len < HELLO_LEN \/ ~frame.major)
     \/ frame.op \in {"CALL", "UNKNOWN"}
  /\ pc' = "done"
  /\ result' = "Ok"
  /\ UNCHANGED <<up, down, peerOpen, frame, reply, session, registry, handled>>

\* The `?` on send makes a peer that has gone away an error of the loop.
Send ==
  /\ pc = "send"
  /\ \/ /\ peerOpen
        /\ down' = Append(down, reply)
        /\ pc' = "record"
        /\ UNCHANGED result
     \/ /\ ~peerOpen
        /\ pc' = "done"
        /\ result' = "Err"
        /\ UNCHANGED down
  /\ UNCHANGED <<up, peerOpen, frame, reply, session, registry, handled>>

api_name(op) == IF op \in {"HELLO", "NOOP"} THEN "core" ELSE "api"

\* A mutant: the core opcodes are not counted.
RecordApiOnly ==
  /\ pc = "record"
  /\ registry' = [registry EXCEPT !.api = IF frame.op = "CALL" THEN @ + 1 ELSE @]
  /\ pc' = "recv"
  /\ UNCHANGED <<up, down, peerOpen, frame, reply, session, result, handled>>

Record ==
  /\ pc = "record"
  /\ registry' = [registry EXCEPT ![api_name(frame.op)] = @ + 1]
  /\ pc' = "recv"
  /\ UNCHANGED <<up, down, peerOpen, frame, reply, session, result, handled>>

ServerStep == Recv \/ HandleOk \/ HandleFails \/ Send \/ Record
===========================================================================
