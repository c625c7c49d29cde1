------------------------------- MODULE MCTcp -------------------------------
(***************************************************************************)
(* The instance of Tcp that TLC checks.                                    *)
(***************************************************************************)
EXTENDS Tcp

CONSTANTS recorder, replayer, stranger

Request(op, len) == [kind |-> "Request", op |-> op, len |-> len]

\* The last of them is not served.
SomeRequests ==
  {Request("HELLO", 2), Request("CREATE_INSTANCE", 1), Request("DESTROY_INSTANCE", 1)}

\* A frame that is too long; an empty one; half a header; a request and the
\* beginning of another.
SomeScribbles ==
  {<<3, 0, 0, 0>>, <<0, 0, 0, 0>>, <<1, 0>>,
   <<1, 0, 0, 0, Request("CREATE_INSTANCE", 1), 1>>}
=============================================================================
