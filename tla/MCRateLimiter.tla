---------------------------- MODULE MCRateLimiter ----------------------------
(***************************************************************************)
(* Three calls of a caller, builds or plain calls of the RPC proxy, over   *)
(* two windows; or two of the proxy's calls, with every combination of the *)
(* method announced and the method in the body.  Methods and builds are    *)
(* charged to different buckets.                                           *)
(***************************************************************************)
EXTENDS RateLimiter, TLC

Symmetry == Permutations(Call)

NamesMethod(r) ==
  \/ calls[r].method \in Method
  \/ calls[r].due # <<>> /\ Len(Head(calls[r].due)) = 2
  \/ \E d \in debits : d.call = r /\ d.key[1] \in Method

MethodsApart ==
  (\E r \in Call : NamesMethod(r)) =>
    /\ \A r \in Call : calls[r].method # "build"
    /\ \E r \in Call : calls[r].is = "new"
=============================================================================
