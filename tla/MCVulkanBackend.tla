-------------------------- MODULE MCVulkanBackend --------------------------
(***************************************************************************)
(* The instance of VulkanBackend that TLC checks.                          *)
(***************************************************************************)
EXTENDS VulkanBackend

\* Slots per family.
VulkanSlots ==
  [Instance |-> 1, PhysicalDevice |-> 1, Device |-> 1, Queue |-> 1,
   Memory |-> 2, Buffer |-> 1, CommandPool |-> 1, CommandBuffer |-> 1]
===========================================================================
