-------------------------- MODULE MCDeviceHardware --------------------------
(* DeviceHardware for TLC.  Names and descriptors are only compared.       *)
EXTENDS DeviceHardware, TLC

Symmetry == Permutations(Name) \cup Permutations(Fd)
=============================================================================
