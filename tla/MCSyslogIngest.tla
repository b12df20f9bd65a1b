--------------------------- MODULE MCSyslogIngest ---------------------------
(* Small instances of SyslogIngest: hosts and handlers are interchangeable.   *)
EXTENDS SyslogIngest, TLC

AdmissionSymmetry == Permutations(Handlers) \cup Permutations(Hosts)
=============================================================================
