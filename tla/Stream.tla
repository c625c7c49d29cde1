------------------------------- MODULE Stream -------------------------------
(***************************************************************************)
(* StreamTransport at both ends of some TCP connections.  A message        *)
(* becomes four bytes of length and its own bytes; the kernel buffers what *)
(* was written and not read yet, so a send blocks while the buffer is full *)
(* and the peer may read a message in pieces, or only the first part of    *)
(* it.  Every end is wrapped in a CountingTransport and in a               *)
(* RecordingTransport, which pass everything on as it is.                  *)
(*                                                                         *)
(* A connection bears the name of its client.  The sockets are external:   *)
(* a socket that is closed is at end-of-file for its peer once what was    *)
(* written is read, or fails there with ConnectionReset if it was closed   *)
(* with bytes unread; what is written to it is lost, until a write fails.  *)
(***************************************************************************)
EXTENDS Integers, Sequences

CONSTANTS
  Clients,
  CAPACITY,   \* bytes a socket buffers in each direction
  MAX_FRAME,  \* the longest frame recv accepts, 64 MiB in the code
  COUNT_MAX   \* where the counters saturate, u64::MAX in the code

ASSUME StreamAssumption ==
  CAPACITY \in Nat \ {0} /\ MAX_FRAME \in Nat /\ COUNT_MAX \in Nat

W == INSTANCE Wire

Ends == Clients \X {"client", "server"}

Peer(e) == <<e[1], IF e[2] = "client" THEN "server" ELSE "client">>

VARIABLES
  sending,  \* the frame in send, if there is one
  out,      \* what that send has still to write
  pipe,     \* written by an end, not read by its peer yet
  in,       \* what the recv in progress has read
  shut,     \* the end has dropped its socket
  trace,    \* RecordingTransport: the frames sent and received
  counts,   \* CountingTransport: frames and bytes, sent and received
  sent,     \* history: the frames send returned Ok for
  got       \* history: the frames recv returned

bookVars == <<trace, counts, sent, got>>
streamVars == <<sending, out, pipe, in, shut, bookVars>>

InitStream ==
  /\ sending = [e \in Ends |-> << >>]
  /\ out = [e \in Ends |-> << >>]
  /\ pipe = [e \in Ends |-> << >>]
  /\ in = [e \in Ends |-> << >>]
  /\ shut = [e \in Ends |-> FALSE]
  /\ trace = [e \in Ends |-> << >>]
  /\ counts = [e \in Ends |->
                 [frames_sent |-> 0, bytes_sent |-> 0, frames_recv |-> 0, bytes_recv |-> 0]]
  /\ sent = [e \in Ends |-> << >>]
  /\ got = [e \in Ends |-> << >>]

SaturatingAdd(a, b) == IF a + b > COUNT_MAX THEN COUNT_MAX ELSE a + b

---------------------------------------------------------------------------
(***************************************************************************)
(* send.                                                                   *)
(***************************************************************************)
StartSend(e, frame) ==
  /\ sending[e] = << >>
  /\ sending' = [sending EXCEPT ![e] = <<frame>>]
  /\ out' = [out EXCEPT ![e] = W!LE(Len(frame), 4) \o frame]

\* write_all, byte by byte: into the buffer if there is room, into the void
\* once the peer is gone.
Write(e) ==
  /\ out[e] # << >>
  /\ ~shut[e]
  /\ out' = [out EXCEPT ![e] = Tail(@)]
  /\ \/ /\ ~shut[Peer(e)]
        /\ Len(pipe[e]) < CAPACITY
        /\ pipe' = [pipe EXCEPT ![e] = Append(@, Head(out[e]))]
     \/ /\ shut[Peer(e)]
        /\ UNCHANGED pipe
  /\ UNCHANGED <<sending, in, shut, bookVars>>

\* send returns Ok, through both wrappers.
SendOk(e) ==
  /\ sending[e] # << >>
  /\ out[e] = << >>
  /\ sending' = [sending EXCEPT ![e] = << >>]
  /\ trace' = [trace EXCEPT ![e] = Append(@, Head(sending[e]))]
  /\ counts' = [counts EXCEPT ![e].frames_sent = SaturatingAdd(@, 1),
                              ![e].bytes_sent = SaturatingAdd(@, Len(Head(sending[e])))]
  /\ sent' = [sent EXCEPT ![e] = Append(@, Head(sending[e]))]
  /\ UNCHANGED got

\* A write fails; the wrappers take no note.
SendFails(e) == out[e] # << >> /\ shut[Peer(e)]

---------------------------------------------------------------------------
(***************************************************************************)
(* recv.                                                                   *)
(***************************************************************************)
HasHeader(e) == Len(in[e]) >= 4

Declared(e) == W!FromLE(SubSeq(in[e], 1, 4))

\* A mutant: recv takes what one read returns for the whole frame.
WholeAtOnce(e) ==
  /\ HasHeader(e)
  /\ Declared(e) <= MAX_FRAME
  /\ Declared(e) > 0 => Len(in[e]) > 4

Whole(e) ==
  /\ HasHeader(e)
  /\ Declared(e) <= MAX_FRAME
  /\ Len(in[e]) = 4 + Declared(e)

\* InvalidData, before anything is allocated.
TooLong(e) == HasHeader(e) /\ Declared(e) > MAX_FRAME

\* read_exact, byte by byte.
Read(e) ==
  /\ ~Whole(e)
  /\ ~TooLong(e)
  /\ pipe[Peer(e)] # << >>
  /\ in' = [in EXCEPT ![e] = Append(@, Head(pipe[Peer(e)]))]
  /\ pipe' = [pipe EXCEPT ![Peer(e)] = Tail(@)]
  /\ UNCHANGED <<sending, out, shut, bookVars>>

Received(e) == SubSeq(in[e], 5, Len(in[e]))

\* A mutant: the length prefix is counted as well.
RecvOkCountsPrefix(e) ==
  /\ Whole(e)
  /\ in' = [in EXCEPT ![e] = << >>]
  /\ trace' = [trace EXCEPT ![e] = Append(@, Received(e))]
  /\ counts' = [counts EXCEPT ![e].frames_recv = SaturatingAdd(@, 1),
                              ![e].bytes_recv = SaturatingAdd(@, Len(in[e]))]
  /\ got' = [got EXCEPT ![e] = Append(@, Received(e))]
  /\ UNCHANGED sent

\* recv returns Ok, through both wrappers.
RecvOk(e) ==
  /\ Whole(e)
  /\ in' = [in EXCEPT ![e] = << >>]
  /\ trace' = [trace EXCEPT ![e] = Append(@, Received(e))]
  /\ counts' = [counts EXCEPT ![e].frames_recv = SaturatingAdd(@, 1),
                              ![e].bytes_recv = SaturatingAdd(@, Len(Received(e)))]
  /\ got' = [got EXCEPT ![e] = Append(@, Received(e))]
  /\ UNCHANGED sent

\* UnexpectedEof: at the boundary of a frame or in the middle of one.
Eof(e) == ~Whole(e) /\ ~TooLong(e) /\ pipe[Peer(e)] = << >> /\ shut[Peer(e)]

\* ConnectionReset.
Reset(e) == ~Whole(e) /\ ~TooLong(e) /\ shut[Peer(e)] /\ pipe[e] # << >>

\* The socket is dropped, whatever it was doing. With the second end the
\* connection is gone, and all it held.
Drop(e) ==
  /\ shut' = [shut EXCEPT ![e] = TRUE]
  /\ in' = [in EXCEPT ![e] = << >>]
  /\ pipe' = IF shut[Peer(e)] THEN [pipe EXCEPT ![e] = << >>, ![Peer(e)] = << >>] ELSE pipe
=============================================================================
