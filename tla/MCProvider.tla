------------------------------ MODULE MCProvider ------------------------------
(* Small instances of the whole provider. *)
EXTENDS Provider, TLC

AllCreates == Types \X Id \X Name
AllDeletes == Types \X Id

HandlerSymmetry == Permutations(Handler)

\* What tells states apart for the safety properties: not the answers, the
\* events received and the gauges, nor the request that an idle goroutine has
\* answered, all of which are written and never read.
Observed ==
    <<storeVars, kweb, late, pc, [h \in Handler |-> IF pc[h] = "idle" THEN None ELSE rq[h]],
      saved, createMu, stranded, sent, monitorVars, crashes>>
=============================================================================
