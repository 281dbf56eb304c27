------------------------------- MODULE MCQueues -------------------------------
(* Instances of Queues for TLC *)
EXTENDS Queues

(* An element whose memorySize() survives a move *)
Kept(size) == size

(* The last two are refused by hlib and utils, the first by zfish. *)
MCConfigs == {[core |-> 1, max |-> 2, maxTask |-> 9, timeout |-> 1],
              [core |-> 1, max |-> 1, maxTask |-> 1, timeout |-> 1],
              [core |-> 2, max |-> 2, maxTask |-> 2, timeout |-> 0]}
=============================================================================
