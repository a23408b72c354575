------------------------------- MODULE Durable -------------------------------
(***************************************************************************)
(* What the state file of internal/persist promises, without saying how:   *)
(* memory holds the newest ledger and the newest settings, the disk holds  *)
(* some they have been before, the disk never goes back, and a restart or  *)
(* a reload resumes from the disk.  While saves and reloads cross, memory  *)
(* and disk are apart and nothing is promised, until a save that runs      *)
(* alone joins them again.  A content is the pair of the versions of its   *)
(* two parts.                                                              *)
(***************************************************************************)
EXTENDS Naturals

VARIABLES mem, disk,
          apart   \* saves or reloads were under way together

Parts  == {"ledger", "settings"}
Images == [Parts -> Nat]
First  == [p \in Parts |-> 0]

Init == mem = First /\ disk = First /\ apart = FALSE

\* A part gets a version that neither memory nor the disk has.
Change ==
  /\ \E p \in Parts : /\ mem' = [mem EXCEPT ![p] = mem'[p]]
                      /\ mem'[p] > mem[p] /\ mem'[p] > disk[p]
  /\ UNCHANGED <<disk, apart>>

Save ==
  /\ ~apart
  /\ \A p \in Parts : disk'[p] \in disk[p]..mem[p]
  /\ disk' \in Images
  /\ UNCHANGED <<mem, apart>>

Reload ==
  /\ ~apart
  /\ \E p \in Parts : mem' = [mem EXCEPT ![p] = disk[p]]
  /\ UNCHANGED <<disk, apart>>

Restart == mem' = disk /\ apart' \in {apart, FALSE} /\ UNCHANGED disk

Cross == apart' = TRUE /\ UNCHANGED <<mem, disk>>

Disturb == apart /\ apart' /\ mem' \in Images /\ disk' \in Images

Join ==
  /\ apart /\ apart' = FALSE
  /\ \A p \in Parts : disk'[p] \in 0..mem[p]
  /\ disk' \in Images
  /\ UNCHANGED mem

Next == Change \/ Save \/ Reload \/ Restart \/ Cross \/ Disturb \/ Join

Spec == Init /\ [][Next]_<<mem, disk, apart>>
=============================================================================
