-------------------------- MODULE MCDeviceRegistry --------------------------
(* Model-checking instance of DeviceRegistry. *)
EXTENDS DeviceRegistry, TLC

CONSTANTS d1

\* One device may have been there before.
MCBefore == {d1}

Symmetry == Permutations(ActorIds) \cup Permutations(Secrets) \cup Permutations(Tasks)
              \cup Permutations(Devices \ Before)
=============================================================================
