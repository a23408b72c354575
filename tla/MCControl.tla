------------------------------ MODULE MCControl ------------------------------
(* One thread makes every call, one after the other; beside it another one *)
(* may shut down.  The console turns the probes off and sends choices that *)
(* are none, a backup brings a value that cannot be read, and the host     *)
(* another interval, an install field and a text that the console leaves   *)
(* blank.                                                                  *)
EXTENDS Control

CONSTANTS s1, s2

FieldsDef == {"probe_enabled", "probe_interval_seconds", "disable_via",
              "delete_fallback", "scheduler_delegate", "probe_base_url"}
WordsDef  == UNION {Choices[f] : f \in {"disable_via", "delete_fallback", "scheduler_delegate"}}
               \cup {"at random", "", "relay"}
PatchesDef ==
  s1 :> {[probe_enabled |-> No, probe_interval_seconds |-> 0, probe_base_url |-> "",
          delete_fallback |-> "delete", scheduler_delegate |-> "at random"]} @@
  s2 :> {}
ImportsDef ==
  s1 :> {[disable_via |-> "management_api", probe_interval_seconds |-> Unreadable]} @@
  s2 :> {}
YamlsDef ==
  s1 :> {[disable_via |-> "management_api", probe_interval_seconds |-> 900,
          probe_base_url |-> "relay"]} @@
  s2 :> {}
=============================================================================
