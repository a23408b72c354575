------------------------------ MODULE MCFleet -------------------------------
(* Two credentials: rechecks of both kinds beside traffic, and the console  *)
(* (MCFleet.cfg, where the scheduler is asked about nobody); the scheduler  *)
(* with candidates of another provider beside them, traffic and a sweep     *)
(* (MCScheduler.cfg).                                                       *)
EXTENDS Console, TLC

CONSTANTS a, b, o1

Answer(status, body) == [status |-> status, body |-> body]
MCAnswers ==
  {Answer(200, {}), Answer(429, {"text"}), Answer(0, {}), Answer(500, {"denied"})}
MCActionOn   == (401 :> "ban") @@ (402 :> "disable") @@ (403 :> "disable") @@ (429 :> "ban")
MCNobody     == << >>
MCCandidates == <<a, o1, b>>
MCPriority   == (a :> 1) @@ (b :> 2) @@ (o1 :> 1)
MCPageSizes  == -1..3
MCListings   == {{a}, {a, b}}
MCSelections == {{a, b}}
=============================================================================
