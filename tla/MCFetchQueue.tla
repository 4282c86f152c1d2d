---------------------------- MODULE MCFetchQueue ----------------------------
EXTENDS FetchQueue, TLC

CONSTANTS a1, a2, b1, c1, d1, p, A, B, C, D, r1, r2

(* A forkJoin, and three calls with one request ID, of which one is no     *)
(* data query and makes a loginPing when it is not authorised.             *)
MCIds == {a1, a2, b1, c1, d1, p}
MCData == {a1, a2, b1, c1}
MCCalls == A :> <<a1, a2>> @@ B :> <<b1>> @@ C :> <<c1>> @@ D :> <<d1>>
MCRid == a1 :> r2 @@ b1 :> r1 @@ c1 :> r1 @@ d1 :> r1 @@ [i \in {a2, p} |-> NoId]
MCPing == d1 :> p @@ [i \in MCIds \ {d1} |-> NoId]

(* SharersAreSingle, which the theorems about the slots suppose, holds of  *)
(* these calls whatever is underway.                                       *)
ASSUME SingleSharers ==
    \A i, j \in Ids :
        i /= j /\ RequestId[i] = RequestId[j] /\ RequestId[i] /= NoId => Siblings(i) = <<i>>
=============================================================================
