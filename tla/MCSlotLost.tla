----------------------------- MODULE MCSlotLost -----------------------------
(* An instance of FetchQueue for TLC in which the start of one request may *)
(* cancel a forkJoin whose last request the worker is about to emit.       *)
EXTENDS FetchQueue, TLC

CONSTANTS m0, m1, f, e1, e2, e3, z, cm, cf, ce, cz, r1, r2

(* Two forkJoins and two single calls; m0 and f share a request ID, and so *)
(* do two calls of one forkJoin.                                           *)
MCIds == {m0, m1, f, e1, e2, e3, z}
MCCalls == cm :> <<m0, m1>> @@ cf :> <<f>> @@ ce :> <<e1, e2, e3>> @@ cz :> <<z>>
MCRid == [i \in MCIds |-> IF i \in {m0, f} THEN r1
                          ELSE IF i \in {e1, e2} THEN r2 ELSE NoId]
MCPing == [i \in MCIds |-> NoId]
=============================================================================
