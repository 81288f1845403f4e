----------------------------- MODULE MCEventLoop -----------------------------
(***************************************************************************)
(* Instances of EventLoop: who hands which function to which loop.          *)
(***************************************************************************)
EXTENDS EventLoop, TLC

CONSTANTS l1, l2, t1, f1, f2, f3, f4, f5

\* f1 runs on l1 and posts f2 to l2; f3 runs on l2 and posts f4 to l1.
CrossTarget == f1 :> l1 @@ f2 :> l2 @@ f3 :> l2 @@ f4 :> l1 @@ f5 :> l1
CrossCaller == f1 :> t1 @@ f2 :> f1 @@ f3 :> t1 @@ f4 :> f3 @@ f5 :> f1
=============================================================================
