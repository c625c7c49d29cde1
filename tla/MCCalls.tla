------------------------------ MODULE MCCalls ------------------------------
(***************************************************************************)
(* The instance of Calls that TLC checks.                                  *)
(***************************************************************************)
EXTENDS Calls

\* Arguments that differ from one another, some of them in several bytes.
SomeScalars ==
  [app_api_version |-> 4202496, queue_family_index |-> 1, queue_index |-> 2,
   size |-> 65541, usage |-> 3, offset |-> 256, vertex_count |-> 6,
   instance_count |-> 4, device_ordinal |-> 9, codec |-> 7, width |-> 1920,
   height |-> 1080, bitstream_len |-> 70000, frame_len |-> 300, len |-> 4096,
   grid_x |-> 10, grid_y |-> 11, grid_z |-> 12,
   block_x |-> 13, block_y |-> 14, block_z |-> 15]

\* Every byte of this handle is another: 5, then 1 2 3, then 7 8 6 4.
FarHandle == [kind |-> 5, generation |-> 66051, slot |-> 117966340]

\* One slot in the table of every family.
OneSlot == [f \in STRING |-> 1]
===========================================================================
