---------------------------- MODULE MCLogStream ----------------------------
EXTENDS LogStream, TLC

(* Open pages are interchangeable, and so are routers: no action names one.   *)
StreamSymmetry == Permutations(Servers) \cup Permutations(Pages)
=============================================================================
