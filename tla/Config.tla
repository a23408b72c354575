-------------------------------- MODULE Config --------------------------------
(***************************************************************************)
(* The plugin's configuration (internal/config): what Normalize, ParseYAML *)
(* and MergePatch make of values the host or the ops console sends.  A     *)
(* configuration is a function from field names to values; Normalize       *)
(* treats every field on its own, so any set Fields of them can stand for  *)
(* the whole.  Operators only: Control gives them a state.                 *)
(***************************************************************************)
EXTENDS Integers, Functions, TLC

CONSTANTS Fields,      \* the fields this instance follows
          Words,       \* the strings it may find in them
          Unreadable,  \* a value of a type that yaml cannot decode into the field
          Yes, No      \* words in a patch that turn a switch on ("1", "true", "yes",
                       \* "on"), and any other word

(* Kinds of fields, by what Normalize does with them.                      *)
Counts ==     \* zero and negative numbers read as the default
  {"ban_401_seconds", "ban_402_seconds", "ban_403_seconds", "ban_429_fallback_seconds",
   "probe_interval_seconds", "probe_timeout_seconds", "probe_concurrency", "probe_qps",
   "fail_streak_403", "fail_streak_window_seconds", "audit_max_events",
   "management_timeout_seconds", "management_auth_failure_cooldown_seconds"}
SparePool == {"probe_disabled_concurrency", "probe_disabled_qps"}   \* zero is "none"
Pauses    == {"action_cooldown_seconds"}                            \* zero is allowed
Switches  ==
  {"probe_enabled", "probe_include_disabled", "probe_only_disabled", "auto_execute"}
Texts     == {"probe_path", "management_url", "management_key_env"} \* blank is the default

\* The types PluginConfig gives them; the paces, which are floats, are whole here.
ValuesOf(f) ==
  CASE f \in Counts \cup SparePool \cup Pauses -> Int
    [] f \in Switches -> BOOLEAN
    [] OTHER -> Words

Actions == {"ban", "disable", "delete"}
Choices ==
  [action_on_401 |-> Actions, action_on_402 |-> Actions, action_on_403 |-> Actions,
   action_on_429 |-> Actions, probe_action |-> Actions, delete_fallback |-> Actions,
   probe_on_success   |-> {"none", "unban", "reenable", "unban_and_reenable"},
   auto_using_api     |-> {"off", "on_403", "on_fail"},
   probe_mode         |-> {"models", "responses_mini"},
   scheduler_delegate |-> {"round-robin", "fill-first"},
   disable_via        |-> {"host_auth", "management_api"}]

\* Words that stand for a choice, and the one choice a field may not keep.
Off    == {"false", "0", "no", "disabled"}
On403  == {"true", "1", "yes", "403", "on"}
OnFail == {"all", "fail", "any"}
Synonyms ==
  [auto_using_api  |-> [w \in Off \cup On403 \cup OnFail |->
                          CASE w \in Off -> "off" [] w \in On403 -> "on_403"
                            [] w \in OnFail -> "on_fail"],
   probe_mode      |-> [w \in {"responses"} |-> "responses_mini"],
   delete_fallback |-> [w \in {"delete"} |-> "disable"]]

Default ==
  [ban_401_seconds |-> 86400, ban_402_seconds |-> 604800, ban_403_seconds |-> 86400,
   ban_429_fallback_seconds |-> 1800,
   action_on_401 |-> "ban", action_on_402 |-> "ban", action_on_403 |-> "ban",
   action_on_429 |-> "ban",
   probe_enabled |-> TRUE, probe_interval_seconds |-> 600, probe_timeout_seconds |-> 20,
   probe_concurrency |-> 3, probe_qps |-> 2,
   probe_disabled_concurrency |-> 8, probe_disabled_qps |-> 4,
   probe_mode |-> "responses_mini", probe_base_url |-> "", probe_path |-> "/models",
   probe_action |-> "ban", probe_on_success |-> "unban",
   probe_include_disabled |-> FALSE, probe_only_disabled |-> FALSE,
   auto_execute |-> TRUE, action_cooldown_seconds |-> 60,
   fail_streak_403 |-> 1, fail_streak_window_seconds |-> 1800,
   auto_using_api |-> "off", delete_fallback |-> "disable",
   scheduler_delegate |-> "round-robin", audit_max_events |-> 200,
   disable_via |-> "host_auth", management_url |-> "http://127.0.0.1:8317",
   management_key |-> "", management_key_env |-> "CPA_MANAGEMENT_KEY",
   management_timeout_seconds |-> 10, management_auth_failure_cooldown_seconds |-> 600,
   state_file |-> "xai-autoban-state.json"]

InstallKeys ==
  {"disable_via", "management_url", "management_key", "management_key_env",
   "management_timeout_seconds", "management_auth_failure_cooldown_seconds", "state_file"}
OpsKeys == DOMAIN Default \ InstallKeys

ASSUME FieldsAssumption == Fields \subseteq DOMAIN Default

ASSUME WordsAssumption ==
  /\ Unreadable \notin {Yes, No}
  /\ \A f \in Fields :
       /\ \A w \in {Yes, No, Unreadable} : w \notin ValuesOf(f)
       /\ Default[f] \in ValuesOf(f)
       /\ f \in DOMAIN Choices => Choices[f] \subseteq Words

-----------------------------------------------------------------------------
\* Slip: a word is taken for the choice it spells before it is looked up.
ChoiceAsSpelt(f, word) ==
  IF word \in Choices[f] THEN word
  ELSE IF f \in DOMAIN Synonyms /\ word \in DOMAIN Synonyms[f] THEN Synonyms[f][word]
  ELSE Default[f]

ChoiceOf(f, word) ==
  IF f \in DOMAIN Synonyms /\ word \in DOMAIN Synonyms[f] THEN Synonyms[f][word]
  ELSE IF word \in Choices[f] THEN word
  ELSE Default[f]

Normal(f, v) ==
  CASE f \in Counts         -> IF v <= 0 THEN Default[f] ELSE v
    [] f \in SparePool      -> IF v < 0 THEN 0 ELSE v
    [] f \in Pauses         -> IF v < 0 THEN Default[f] ELSE v
    [] f \in Texts          -> IF v = "" THEN Default[f] ELSE v
    [] f \in DOMAIN Choices -> ChoiceOf(f, v)
    [] OTHER                -> v

Normalize(cfg) == [f \in Fields |-> Normal(f, cfg[f])]

DefaultConfig == [f \in Fields |-> Default[f]]

Over(cfg, patch) ==
  [f \in Fields |-> IF f \in DOMAIN patch THEN patch[f] ELSE cfg[f]]

(* ParseYAML: one value of the wrong type, and the whole text counts as    *)
(* absent.                                                                 *)
ParseYAML(raw) ==
  IF Unreadable \in Range(raw) THEN DefaultConfig
  ELSE Normalize(Over(DefaultConfig, raw))

(* CoerceOpsPatch: words for switches are read here, any unknown one as    *)
(* off; words for numbers are numbers by now, or Unreadable.               *)
Coerced(v) == CASE v = Yes -> TRUE [] v = No -> FALSE [] OTHER -> v

CoerceOpsPatch(patch) == [f \in DOMAIN patch |-> Coerced(patch[f])]

(* What may be sent for a field: a value of its type, or none of it; and   *)
(* in a patch a word for a switch.                                         *)
Sent(raw)    == \A f \in Fields \cap DOMAIN raw : raw[f] \in ValuesOf(f) \cup {Unreadable}
Worded(patch) ==
  \A f \in Fields \cap DOMAIN patch :
    \/ patch[f] \in ValuesOf(f) \cup {Unreadable}
    \/ f \in Switches /\ patch[f] \in {Yes, No}

MergePatch(base, patch) == ParseYAML(Over(base, CoerceOpsPatch(patch)))

OpsSettingsView(cfg) == Restrict(cfg, Fields \cap OpsKeys)

InstallPart(cfg) == Restrict(cfg, Fields \cap InstallKeys)
=============================================================================
