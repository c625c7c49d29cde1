----------------------------- MODULE MCRemoting -----------------------------
(***************************************************************************)
(* The instance of Remoting that TLC checks.                               *)
(***************************************************************************)
EXTENDS Remoting

Plain(op, len) ==
  [op |-> op, req_id |-> 7, decodes |-> TRUE, exact |-> TRUE, len |-> len,
   major |-> TRUE, cap |-> None]

Hello(id, cap) ==
  [Plain("HELLO", HELLO_LEN) EXCEPT !.cap = cap, !.req_id = id]

\* A HELLO for each relation of the limit to the sizes that matter (below a
\* HELLO, below a WELCOME, in between, above the default), requests within
\* and above these limits, and each way a frame can be refused.
SomeFrames ==
  {Hello(7, 4), Hello(8, 16), Hello(8, 32), Plain("NOOP", 0),
   Plain("CALL", 0), Plain("CALL", 14), Plain("UNKNOWN", 0),
   [Plain("NOOP", 0) EXCEPT !.decodes = FALSE],
   [Plain("CALL", 0) EXCEPT !.exact = FALSE],
   [Hello(8, 16) EXCEPT !.major = FALSE],
   [Hello(8, 16) EXCEPT !.len = 4]}
===========================================================================
