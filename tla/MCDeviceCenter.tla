--------------------------- MODULE MCDeviceCenter ---------------------------
(* The instance of DeviceCenter for TLC *)
EXTENDS DeviceCenter, TLC

\* Requests, tokens, codes, nonces, and the devices that nobody calls on are interchangeable
Symmetry == Permutations(Requests) \cup Permutations(Tokens) \cup Permutations(Codes)
              \cup Permutations(Nonces) \cup Permutations(Devices \ Managed)
=============================================================================
