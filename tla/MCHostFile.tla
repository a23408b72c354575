----------------------------- MODULE MCHostFile -----------------------------
(* The console's thread may be asked anything, a background one disables    *)
(* and refreshes.                                                           *)
EXTENDS HostFile, TLC

CONSTANTS console, background

Flip(op, wants) == [op : {op}, want : wants]
MCTasks ==
  (console :> Flip("disabled", {"off"}) \cup Flip("using", {"on"})
                \cup Flip("delete", {"none"}))
  @@ (background :> Flip("disabled", {"on"}) \cup Flip("reauth", {"none"}))
MCKinds == (console :> {"request", "bulk"}) @@ (background :> {"background"})
=============================================================================
