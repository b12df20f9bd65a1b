------------------------------- MODULE Browser -------------------------------
(* What a browser follows, checked in one run: the realtime stream of a router,  *)
(* and its own session, with the limit on signing in.  The two share no state of *)
(* the models, so that only one of them moves at a time.                        *)
EXTENDS LogStream, SignIn

VARIABLE part

browserVars == <<part, vars, signInVars>>

BrowserInit == Init /\ SignInInit /\ part \in {"stream", "session"}

BrowserNext ==
    /\ \/ part = "stream" /\ Next /\ UNCHANGED signInVars
       \/ part = "session" /\ SignInNext /\ UNCHANGED vars
    /\ UNCHANGED part

BrowserSpec == BrowserInit /\ [][BrowserNext]_browserVars /\ Fairness /\ SignInFairness
=============================================================================
