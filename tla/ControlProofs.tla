---------------------------- MODULE ControlProofs ----------------------------
(***************************************************************************)
(* Theorems about the scheduled probe loop and the configuration it        *)
(* follows, for any number of threads that register, save, import and shut *)
(* down at once, any settings they bring and any number of loop goroutines. *)
(*                                                                         *)
(* First the loop alone (LoopInv): no type of a setting matters to it.     *)
(* Then the settings (ConfigInv): Normalize leaves every field in range    *)
(* and is its own fixed point.  Then the loop's pace (PaceInv): a loop at  *)
(* the wrong interval is about to be stopped.  Then the calls (CallsInv):  *)
(* where a call that no other overlaps stands, from what it brings to the  *)
(* parts that have it and what is left to do.  Last the file (FiledInv):   *)
(* once it holds what the console asked for, nothing under way brings the  *)
(* settings anything else.                                                 *)
(***************************************************************************)
EXTENDS Control, TLAPS, SequenceTheorems

(* The record of every loop goroutine, told apart from the settings: no    *)
(* type of a configuration matters to the loop.                            *)
Slots ==
  /\ loop = [l \in Loops |-> [stage |-> loop[l].stage, stop |-> loop[l].stop,
                              every |-> loop[l].every]]
  /\ \A l \in Loops : loop[l].stop \in BOOLEAN /\ loop[l].stage \in {"free", "wait", "run"}
  /\ stopCh \in Loops \cup {NoLoop}
  /\ running \in BOOLEAN

(* A goroutine that stopCh does not name has been told to stop, or is none. *)
LoopInv == Slots /\ AtMostOneLiveLoop

(* The invariant of the loop holds at the start ...                        *)
LEMMA InitLoop == Init => LoopInv
<1> SUFFICES ASSUME Init PROVE LoopInv
  OBVIOUS
<1>1. running = FALSE /\ stopCh = NoLoop /\ loop = [l \in Loops |-> FreeSlot]
  BY DEF Init
<1>2. \A l \in Loops : loop[l] = [stage |-> "free", stop |-> FALSE, every |-> 0]
  BY <1>1 DEF FreeSlot
<1>3. Slots
  BY <1>1, <1>2 DEF Slots, FreeSlot
<1>4. AtMostOneLiveLoop
  BY <1>1, <1>2, ControlAssumption DEF AtMostOneLiveLoop, Live, Alive
<1> QED
  BY <1>3, <1>4 DEF LoopInv

(* ... and Start, ...                                                      *)
LEMMA StartLoop ==
  ASSUME LoopInv, NEW s \in Callers, Start(s)
  PROVE  LoopInv'
<1>1. CASE UNCHANGED <<flags, loop>>
  BY <1>1 DEF flags, LoopInv, Slots, AtMostOneLiveLoop, Live, Alive
<1>2. CASE MayStart /\ ~UNCHANGED <<flags, loop>>
  <2> PICK l \in Loops :
        /\ ~Alive(l) /\ stopCh' = l /\ running' = TRUE
        /\ loop' = [loop EXCEPT ![l] = [stage |-> "wait", stop |-> FALSE,
                                        every |-> Interval(probeCfg)]]
    BY <1>2 DEF Start
  <2> DEFINE new == [stage |-> "wait", stop |-> FALSE, every |-> Interval(probeCfg)]
  <2>1. loop' = [loop EXCEPT ![l] = new]
    OBVIOUS
  <2>2. /\ new.stage = "wait" /\ new.stop = FALSE
        /\ new = [stage |-> new.stage, stop |-> new.stop, every |-> new.every]
    OBVIOUS
  <2> HIDE DEF new
  <2>3. \A k \in Loops : ~Live(k)
    BY <1>2, ControlAssumption DEF MayStart, LoopInv, AtMostOneLiveLoop
  <2>4. \A k \in Loops : loop'[k] = IF k = l THEN new ELSE loop[k]
    BY <2>1 DEF LoopInv, Slots
  <2>5. Slots'
    BY <2>1, <2>2, <2>4 DEF LoopInv, Slots
  <2>6. AtMostOneLiveLoop'
    BY <2>2, <2>3, <2>4, ControlAssumption DEF AtMostOneLiveLoop, Live, Alive
  <2> QED
    BY <2>5, <2>6 DEF LoopInv
<1> QED
  BY <1>1, <1>2 DEF Start

(* ... Stop ...                                                            *)
LEMMA StopLoop ==
  ASSUME LoopInv, NEW s \in Callers, Stop(s)
  PROVE  LoopInv'
<1>1. CASE UNCHANGED <<flags, loop>>
  BY <1>1 DEF flags, LoopInv, Slots, AtMostOneLiveLoop, Live, Alive
<1>2. CASE running /\ ~UNCHANGED <<flags, loop>>
  <2>1. stopCh \in Loops
    BY <1>2 DEF LoopInv, Slots, AtMostOneLiveLoop
  <2>2. /\ loop' = [loop EXCEPT ![stopCh] = [loop[stopCh] EXCEPT !.stop = TRUE]]
        /\ running' = FALSE /\ stopCh' = NoLoop
    BY <1>2 DEF Stop
  <2>3. \A k \in Loops :
          loop'[k] = IF k = stopCh THEN [loop[stopCh] EXCEPT !.stop = TRUE] ELSE loop[k]
    BY <2>1, <2>2 DEF LoopInv, Slots
  <2>4. Slots'
    BY <2>1, <2>2, <2>3 DEF LoopInv, Slots
  <2>5. AtMostOneLiveLoop'
    BY <2>1, <2>2, <2>3, ControlAssumption DEF LoopInv, Slots, AtMostOneLiveLoop, Live, Alive
  <2> QED
    BY <2>4, <2>5 DEF LoopInv
<1> QED
  BY <1>1, <1>2 DEF Stop

(* ... and the goroutines themselves keep it.                              *)
LEMMA GoroutineLoop ==
  ASSUME LoopInv, NEW l \in Loops, LoopStep(l)
  PROVE  LoopInv'
<1> USE DEF others, flags
<1>1. CASE Fire(l)
  BY <1>1 DEF Fire, LoopInv, Slots, AtMostOneLiveLoop, Live, Alive
<1>2. CASE RunEnds(l)
  BY <1>2 DEF RunEnds, LoopInv, Slots, AtMostOneLiveLoop, Live, Alive
<1>3. CASE Leave(l)
  BY <1>3 DEF Leave, LoopInv, Slots, AtMostOneLiveLoop, Live, Alive, FreeSlot
<1> QED
  BY <1>1, <1>2, <1>3 DEF LoopStep

(* Every step keeps the invariant of the loop.                             *)
LEMMA StepLoop == LoopInv /\ [Next]_vars => LoopInv'
<1> SUFFICES ASSUME LoopInv, [Next]_vars PROVE LoopInv'
  OBVIOUS
<1>1. CASE UNCHANGED <<flags, loop>>
  BY <1>1 DEF flags, LoopInv, Slots, AtMostOneLiveLoop, Live, Alive
<1>2. CASE \E l \in Loops : LoopStep(l)
  BY <1>2, GoroutineLoop
<1>3. CASE \E s \in Callers : Start(s)
  BY <1>3, StartLoop
<1>4. CASE \E s \in Callers : Stop(s)
  BY <1>4, StopLoop
<1>5. ASSUME NEW s \in Callers, Step(s), ~Start(s), ~Stop(s)
      PROVE  UNCHANGED <<flags, loop>>
  BY <1>5 DEF Step, Merge, MergeImport, ReadBack, SetSettings, SaveNow, Load, Overlay, StartIfEnabled,
              StoreApp, StoreEngine, UpdateConfig
<1>6. ASSUME NEW s \in Callers, \/ \E patch \in Patches[s] : Save(s, patch)
                                \/ \E patch \in Imports[s] : Import(s, patch)
                                \/ \E raw \in Yamls[s] : handleRegister(s, raw)
                                \/ Shutdown(s)
      PROVE  UNCHANGED <<flags, loop>>
  BY <1>6 DEF Save, Import, handleRegister, Shutdown, Begin
<1>7. CASE TimerSave \/ UNCHANGED vars
  BY <1>1, <1>7 DEF TimerSave, vars
<1> QED
  BY <1>1, <1>2, <1>3, <1>4, <1>5, <1>6, <1>7 DEF Next

(* However many saves, registrations, imports and shutdowns interleave, no *)
(* two loops go on probing, and running and stopCh speak of the one that   *)
(* does.                                                                   *)
THEOREM OneLoop == Spec => []AtMostOneLiveLoop
<1>1. Spec => []LoopInv
  BY InitLoop, StepLoop, PTL DEF Spec
<1>2. LoopInv => AtMostOneLiveLoop
  BY DEF LoopInv
<1> QED
  BY <1>1, <1>2, PTL

-----------------------------------------------------------------------------
(* The configuration: what Normalize leaves is in range and is left alone  *)
(* by another Normalize.                                                   *)

(* The kinds of field share none, and a choice or a synonym is a field.    *)
LEMMA Sorts ==
  /\ DOMAIN Choices \subseteq DOMAIN Default /\ DOMAIN Synonyms \subseteq DOMAIN Choices
  /\ Counts \cap (SparePool \cup Pauses \cup Switches \cup Texts \cup DOMAIN Choices) = {}
  /\ SparePool \cap (Pauses \cup Switches \cup Texts \cup DOMAIN Choices) = {}
  /\ Pauses \cap (Switches \cup Texts \cup DOMAIN Choices) = {}
  /\ Switches \cap (Texts \cup DOMAIN Choices) = {}
  /\ Texts \cap DOMAIN Choices = {}
BY DEF Choices, Synonyms, Default, Counts, SparePool, Pauses, Switches, Texts

(* The defaults are in range, and complete where a text is asked for.      *)
LEMMA DefaultsFit ==
  /\ \A f \in Counts : Default[f] \in Int /\ Default[f] > 0
  /\ \A f \in SparePool \cup Pauses : Default[f] \in Int /\ Default[f] >= 0
  /\ \A f \in Texts : Default[f] # ""
<1>1. /\ Default.ban_401_seconds = 86400 /\ Default.ban_402_seconds = 604800
      /\ Default.ban_403_seconds = 86400 /\ Default.ban_429_fallback_seconds = 1800
      /\ Default.probe_interval_seconds = 600 /\ Default.probe_timeout_seconds = 20
      /\ Default.probe_concurrency = 3 /\ Default.probe_qps = 2
      /\ Default.fail_streak_403 = 1 /\ Default.fail_streak_window_seconds = 1800
      /\ Default.audit_max_events = 200 /\ Default.management_timeout_seconds = 10
      /\ Default.management_auth_failure_cooldown_seconds = 600
  BY DEF Default
<1>2. /\ Default.probe_disabled_concurrency = 8 /\ Default.probe_disabled_qps = 4
      /\ Default.action_cooldown_seconds = 60
      /\ Default.probe_enabled = TRUE /\ Default.probe_include_disabled = FALSE
      /\ Default.probe_only_disabled = FALSE /\ Default.auto_execute = TRUE
      /\ Default.probe_path = "/models" /\ Default.management_url = "http://127.0.0.1:8317"
      /\ Default.management_key_env = "CPA_MANAGEMENT_KEY"
  BY DEF Default
<1>3. \A f \in Counts : Default[f] \in Int /\ Default[f] > 0
  BY <1>1 DEF Counts
<1>4. \A f \in SparePool \cup Pauses : Default[f] \in Int /\ Default[f] >= 0
  BY <1>2 DEF SparePool, Pauses
<1>5. \A f \in Texts : Default[f] # ""
  BY <1>2 DEF Texts
<1> QED
  BY <1>3, <1>4, <1>5

(* The defaults choose what there is to choose.                            *)
LEMMA DefaultChoices == \A f \in DOMAIN Choices : Default[f] \in Choices[f]
<1>1. /\ Default.action_on_401 = "ban" /\ Default.action_on_402 = "ban"
      /\ Default.action_on_403 = "ban" /\ Default.action_on_429 = "ban"
      /\ Default.probe_action = "ban" /\ Default.delete_fallback = "disable"
      /\ Default.probe_on_success = "unban" /\ Default.auto_using_api = "off"
      /\ Default.probe_mode = "responses_mini"
      /\ Default.scheduler_delegate = "round-robin" /\ Default.disable_via = "host_auth"
  BY DEF Default
<1> QED
  BY <1>1 DEF Choices, Actions

(* A synonym stands for a choice that is no synonym.                       *)
LEMMA SynonymsFit ==
  \A f \in DOMAIN Synonyms :
    /\ \A w \in DOMAIN Synonyms[f] : Synonyms[f][w] \in Choices[f] \ DOMAIN Synonyms[f]
    /\ Default[f] \notin DOMAIN Synonyms[f]
<1>1. DOMAIN Synonyms = {"auto_using_api", "probe_mode", "delete_fallback"}
  BY DEF Synonyms
<1>2. /\ \A w \in DOMAIN Synonyms["auto_using_api"] :
           Synonyms["auto_using_api"][w] \in {"off", "on_403", "on_fail"}
      /\ DOMAIN Synonyms["auto_using_api"] = Off \cup On403 \cup OnFail
  BY DEF Synonyms
<1>3. /\ Synonyms["probe_mode"] = [w \in {"responses"} |-> "responses_mini"]
      /\ Synonyms["delete_fallback"] = [w \in {"delete"} |-> "disable"]
  BY DEF Synonyms
<1>4. {"off", "on_403", "on_fail"} \cap (Off \cup On403 \cup OnFail) = {}
  BY DEF Off, On403, OnFail
<1>5. /\ Choices["auto_using_api"] = {"off", "on_403", "on_fail"}
      /\ "responses_mini" \in Choices["probe_mode"] /\ "disable" \in Choices["delete_fallback"]
      /\ Default["auto_using_api"] = "off" /\ Default["probe_mode"] = "responses_mini"
      /\ Default["delete_fallback"] = "disable"
  BY DEF Choices, Actions, Default
<1> QED
  BY <1>1, <1>2, <1>3, <1>4, <1>5

(* A choice is one of its field; choosing again changes nothing.           *)
LEMMA ChosenFits ==
  ASSUME NEW f \in DOMAIN Choices, NEW w
  PROVE  /\ ChoiceOf(f, w) \in Choices[f]
         /\ ChoiceOf(f, ChoiceOf(f, w)) = ChoiceOf(f, w)
         /\ f \in DOMAIN Synonyms => ChoiceOf(f, w) \notin DOMAIN Synonyms[f]
BY DefaultChoices, SynonymsFit DEF ChoiceOf

(* What ConfigInRange says of one field. *)
InRange(f, v) ==
  /\ f \in Counts => v > 0
  /\ f \in SparePool \cup Pauses => v >= 0
  /\ f \in DOMAIN Choices => v \in Choices[f]
  /\ f = "delete_fallback" => v # "delete"

(* Normalize leaves every field in range, and what it left as it is.       *)
LEMMA NormalFits ==
  ASSUME NEW f \in Fields, NEW v \in ValuesOf(f)
  PROVE  /\ Normal(f, v) \in ValuesOf(f) /\ InRange(f, Normal(f, v))
         /\ Normal(f, Normal(f, v)) = Normal(f, v)
<1>1. CASE f \in Counts
  <2>1. v \in Int /\ ValuesOf(f) = Int
    BY <1>1, Sorts DEF ValuesOf
  <2>2. \A w : Normal(f, w) = IF w <= 0 THEN Default[f] ELSE w
    BY <1>1, Sorts DEF Normal
  <2>3. f \notin SparePool \cup Pauses /\ f \notin DOMAIN Choices /\ f # "delete_fallback"
    BY <1>1, Sorts DEF Counts
  <2>4. Normal(f, v) \in Int /\ Normal(f, v) > 0
    <3>1. Default[f] \in Int /\ Default[f] > 0
      BY <1>1, DefaultsFit
    <3>2. Normal(f, v) = IF v <= 0 THEN Default[f] ELSE v
      BY <2>2
    <3> QED
      BY <2>1, <3>1, <3>2
  <2>5. Normal(f, Normal(f, v)) = Normal(f, v)
    BY <2>2, <2>4
  <2> QED
    BY <1>1, <2>1, <2>3, <2>4, <2>5 DEF InRange
<1>2. CASE f \in SparePool
  <2>1. v \in Int /\ ValuesOf(f) = Int
    BY <1>2, Sorts DEF ValuesOf
  <2>2. \A w : Normal(f, w) = IF w < 0 THEN 0 ELSE w
    BY <1>2, Sorts DEF Normal
  <2>3. f \notin Counts /\ f \notin DOMAIN Choices /\ f # "delete_fallback"
    BY <1>2, Sorts DEF SparePool
  <2>4. Normal(f, v) \in Int /\ Normal(f, v) >= 0
    <3>1. Default[f] \in Int /\ Default[f] >= 0
      BY <1>2, DefaultsFit
    <3>2. Normal(f, v) = IF v < 0 THEN 0 ELSE v
      BY <2>2
    <3> QED
      BY <2>1, <3>1, <3>2
  <2>5. Normal(f, Normal(f, v)) = Normal(f, v)
    BY <2>2, <2>4
  <2> QED
    BY <1>2, <2>1, <2>3, <2>4, <2>5 DEF InRange
<1>3. CASE f \in Pauses
  <2>1. v \in Int /\ ValuesOf(f) = Int
    BY <1>3, Sorts DEF ValuesOf
  <2>2. \A w : Normal(f, w) = IF w < 0 THEN Default[f] ELSE w
    BY <1>3, Sorts DEF Normal
  <2>3. f \notin Counts /\ f \notin DOMAIN Choices /\ f # "delete_fallback"
    BY <1>3, Sorts DEF Pauses
  <2>4. Normal(f, v) \in Int /\ Normal(f, v) >= 0
    <3>1. Default[f] \in Int /\ Default[f] >= 0
      BY <1>3, DefaultsFit
    <3>2. Normal(f, v) = IF v < 0 THEN Default[f] ELSE v
      BY <2>2
    <3> QED
      BY <2>1, <3>1, <3>2
  <2>5. Normal(f, Normal(f, v)) = Normal(f, v)
    BY <2>2, <2>4
  <2> QED
    BY <1>3, <2>1, <2>3, <2>4, <2>5 DEF InRange
<1>4. CASE f \in Texts
  <2>1. \A w : Normal(f, w) = IF w = "" THEN Default[f] ELSE w
    BY <1>4, Sorts DEF Normal
  <2>2. f \notin Counts \cup SparePool \cup Pauses /\ f \notin DOMAIN Choices /\ f # "delete_fallback"
    BY <1>4, Sorts DEF Texts
  <2> QED
    BY <1>4, <2>1, <2>2, DefaultsFit, WordsAssumption DEF InRange
<1>5. CASE f \in DOMAIN Choices
  <2>1. \A w : Normal(f, w) = ChoiceOf(f, w)
    BY <1>5, Sorts DEF Normal
  <2>2. f \notin Counts \cup SparePool \cup Pauses \cup Switches
    BY <1>5, Sorts
  <2>3. ValuesOf(f) = Words /\ Choices[f] \subseteq Words
    BY <1>5, <2>2, WordsAssumption DEF ValuesOf
  <2>4. f = "delete_fallback" => f \in DOMAIN Synonyms /\ DOMAIN Synonyms[f] = {"delete"}
    BY DEF Synonyms
  <2> QED
    BY <1>5, <2>1, <2>2, <2>3, <2>4, ChosenFits DEF InRange
<1>6. CASE f \notin Counts \cup SparePool \cup Pauses \cup Texts \cup DOMAIN Choices
  <2>1. \A w : Normal(f, w) = w
    BY <1>6 DEF Normal
  <2>2. "delete_fallback" \in DOMAIN Choices
    BY DEF Choices
  <2> QED
    BY <1>6, <2>1, <2>2 DEF InRange
<1> QED
  BY <1>1, <1>2, <1>3, <1>4, <1>5, <1>6

-----------------------------------------------------------------------------
(* A configuration as the parts keep it: of the right types, in range, and *)
(* left alone by Normalize.                                                *)
Values == Int \cup BOOLEAN \cup Words
Kept(f, v) == v \in ValuesOf(f) /\ InRange(f, v) /\ Normal(f, v) = v
Configs  == {cfg \in [Fields -> Values] : \A f \in Fields : Kept(f, cfg[f])}
Settings == {view \in UNION {[D -> Values] : D \in SUBSET (Fields \cap OpsKeys)} :
               \A f \in DOMAIN view : Kept(f, view[f])}

(* A normalised configuration is one of Configs.                           *)
LEMMA NormalizeKeeps ==
  ASSUME NEW raw, \A f \in Fields : raw[f] \in ValuesOf(f)
  PROVE  Normalize(raw) \in Configs
<1>1. \A f \in Fields : Normal(f, raw[f]) \in Values /\ Kept(f, Normal(f, raw[f]))
  BY NormalFits DEF Kept, Values, ValuesOf
<1> QED
  BY <1>1 DEF Normalize, Configs

(* So is the default, ...                                                  *)
LEMMA DefaultIsKept == DefaultConfig \in Configs
<1>1. ASSUME NEW f \in Fields PROVE Default[f] \in Values /\ Kept(f, Default[f])
  <2>1. Default[f] \in ValuesOf(f) /\ Default[f] \in Values
    BY WordsAssumption DEF Values, ValuesOf
  <2>2. CASE f \in DOMAIN Choices
    <3>1. Normal(f, Default[f]) = ChoiceOf(f, Default[f])
      BY <2>2, Sorts DEF Normal
    <3>2. ChoiceOf(f, Default[f]) = Default[f]
      BY <2>2, DefaultChoices, SynonymsFit DEF ChoiceOf
    <3> QED
      BY <2>1, <3>1, <3>2, NormalFits DEF Kept
  <2>3. CASE f \notin DOMAIN Choices
    <3>1. Normal(f, Default[f]) = Default[f]
      <4>1. CASE f \in Counts
        BY <4>1, Sorts, DefaultsFit DEF Normal
      <4>2. CASE f \in SparePool
        <5>1. Default[f] \in Int /\ Default[f] >= 0
          BY <4>2, DefaultsFit
        <5>2. Normal(f, Default[f]) = IF Default[f] < 0 THEN 0 ELSE Default[f]
          BY <4>2, Sorts DEF Normal
        <5> QED
          BY <5>1, <5>2
      <4>3. CASE f \in Pauses
        BY <4>3, Sorts, DefaultsFit DEF Normal
      <4>4. CASE f \in Texts
        BY <4>4, Sorts, DefaultsFit DEF Normal
      <4>5. CASE f \notin Counts \cup SparePool \cup Pauses \cup Texts
        BY <2>3, <4>5 DEF Normal
      <4> QED
        BY <4>1, <4>2, <4>3, <4>4, <4>5
    <3> QED
      BY <2>1, <3>1, NormalFits DEF Kept
  <2> QED
    BY <2>2, <2>3
<1> QED
  BY <1>1 DEF DefaultConfig, Configs

(* ... what ParseYAML reads, ...                                           *)
LEMMA ParsedIsKept ==
  ASSUME NEW raw, Sent(raw)
  PROVE  ParseYAML(raw) \in Configs
<1>1. CASE Unreadable \in Range(raw)
  BY <1>1, DefaultIsKept DEF ParseYAML
<1>2. CASE Unreadable \notin Range(raw)
  <2>1. \A f \in Fields : Over(DefaultConfig, raw)[f] \in ValuesOf(f)
    BY <1>2, WordsAssumption DEF Sent, Range, Over, DefaultConfig
  <2> QED
    BY <1>2, <2>1, NormalizeKeeps DEF ParseYAML
<1> QED
  BY <1>1, <1>2

(* ... and what MergePatch makes of one.                                   *)
LEMMA MergedIsKept ==
  ASSUME NEW base \in Configs, NEW patch, Worded(patch)
  PROVE  MergePatch(base, patch) \in Configs
<1> DEFINE raw == Over(base, CoerceOpsPatch(patch))
<1>1. \A f \in Fields : base[f] \in ValuesOf(f)
  BY DEF Configs, Kept
<1>2. \A f \in Fields \cap DOMAIN patch : Coerced(patch[f]) \in ValuesOf(f) \cup {Unreadable}
  <2> TAKE f \in Fields \cap DOMAIN patch
  <2>1. CASE patch[f] \in ValuesOf(f) \cup {Unreadable}
    BY <2>1, WordsAssumption DEF Coerced
  <2>2. CASE f \in Switches /\ patch[f] \in {Yes, No}
    <3>1. ValuesOf(f) = BOOLEAN
      BY <2>2, Sorts DEF ValuesOf
    <3>2. Coerced(patch[f]) \in BOOLEAN
      BY <2>2 DEF Coerced
    <3> QED
      BY <3>1, <3>2
  <2> QED
    BY <2>1, <2>2 DEF Worded
<1>3. Sent(raw)
  BY <1>1, <1>2 DEF Sent, Over, CoerceOpsPatch
<1> QED
  BY <1>3, ParsedIsKept DEF MergePatch
-----------------------------------------------------------------------------
(* What a call has still to do, by kinds.                                  *)
Given == UNION {Patches[s] \cup Imports[s] : s \in Callers}
Asks  == Given \cup Settings
Work ==
  ({"app", "engine", "probe"} \X Configs) \cup ({"merge", "import"} \X Asks)
    \cup ({"settings"} \X Settings)
    \cup {<<"read_back">>, <<"save">>, <<"load">>, <<"overlay">>, <<"start_if_enabled">>,
          <<"start">>, <<"stop">>}

ConfigInv ==
  /\ appCfg \in Configs /\ engineCfg \in Configs /\ probeCfg \in Configs
  /\ settings \in Settings /\ (saved = NoFile \/ saved \in Settings)
  /\ todo \in [Callers -> Seq(Work)]

(* The patches that are asked for speak of the words of the instance.      *)
LEMMA AsksAreWorded == \A patch \in Asks : Worded(patch)
<1>1. ASSUME NEW view \in Settings PROVE Worded(view)
  BY DEF Settings, Kept, Worded
<1>2. ASSUME NEW s \in Callers, NEW patch \in Patches[s] \cup Imports[s] PROVE Worded(patch)
  BY <1>2, InputsAssumption
<1>3. ASSUME NEW patch \in Given PROVE Worded(patch)
  <2>1. \E s \in Callers : patch \in Patches[s] \cup Imports[s]
    BY DEF Given
  <2> QED
    BY <1>2, <2>1
<1> QED
  BY <1>1, <1>3 DEF Asks

(* What each call asks for is among them.                                  *)
LEMMA AsksInclude ==
  ASSUME NEW s \in Callers, NEW patch \in Patches[s] \cup Imports[s]
  PROVE  patch \in Asks
BY DEF Asks, Given

(* The elements a call is made of.                                         *)
LEMMA IsWork ==
  /\ \A cfg \in Configs : /\ <<"app", cfg>> \in Work /\ <<"engine", cfg>> \in Work
                          /\ <<"probe", cfg>> \in Work
  /\ \A patch \in Asks : <<"merge", patch>> \in Work /\ <<"import", patch>> \in Work
  /\ \A view \in Settings : <<"settings", view>> \in Work
  /\ <<"read_back">> \in Work /\ <<"save">> \in Work /\ <<"load">> \in Work
  /\ <<"overlay">> \in Work /\ <<"start_if_enabled">> \in Work
  /\ <<"start">> \in Work /\ <<"stop">> \in Work
BY DEF Work

(* What the console sees of a configuration can be its settings.           *)
LEMMA ViewIsSettings ==
  ASSUME NEW cfg \in Configs
  PROVE  OpsSettingsView(cfg) \in Settings
<1> DEFINE view == OpsSettingsView(cfg)
<1>1. view = [f \in Fields \cap OpsKeys |-> cfg[f]]
  BY DEF OpsSettingsView, Restrict, Configs
<1>2. view \in [Fields \cap OpsKeys -> Values] /\ \A f \in DOMAIN view : Kept(f, view[f])
  BY <1>1 DEF Configs
<1> QED
  BY <1>2 DEF Settings

(* What is known of settings, ...                                          *)
LEMMA SettingsAre ==
  ASSUME NEW view \in Settings
  PROVE  /\ DOMAIN view \subseteq Fields \cap OpsKeys
         /\ view = [f \in DOMAIN view |-> view[f]]
         /\ \A f \in DOMAIN view : Kept(f, view[f]) /\ view[f] \in Values
BY DEF Settings

(* ... and of the part of them that a save writes.                         *)
LEMMA CompactIs ==
  ASSUME NEW view \in Settings
  PROVE  /\ Compact(view) \in Settings /\ Compact(Compact(view)) = Compact(view)
         /\ \A f \in DOMAIN Compact(view) : f \in DOMAIN view /\ Compact(view)[f] = view[f]
<1> DEFINE full == DOMAIN view \ Blank(view)
           short == Compact(view)
<1>1. full \subseteq DOMAIN view /\ full \subseteq Fields \cap OpsKeys
  BY SettingsAre
<1>2. short = [f \in full |-> view[f]]
  BY DEF Compact, Restrict
<1>3. short \in [full -> Values] /\ \A f \in DOMAIN short : Kept(f, short[f])
  BY <1>1, <1>2, SettingsAre
<1>4. short \in Settings
  BY <1>1, <1>3 DEF Settings
<1>5. Blank(short) = {}
  BY <1>2 DEF Blank
<1>6. Compact(short) = [f \in full |-> short[f]]
  BY <1>2, <1>5 DEF Compact, Restrict
<1>7. Compact(short) = short
  BY <1>2, <1>6
<1> QED
  BY <1>1, <1>2, <1>4, <1>7

(* What there is to read of an element.                                    *)
LEMMA Reads ==
  ASSUME NEW w \in Work
  PROVE  /\ w[1] \in {"app", "engine", "probe"} => w[2] \in Configs
         /\ w[1] \in {"merge", "import"} => w[2] \in Asks
         /\ w[1] = "settings" => w[2] \in Settings
<1>1. CASE w \in {"app", "engine", "probe"} \X Configs
  BY <1>1
<1>2. CASE w \in {"merge", "import"} \X Asks
  BY <1>2
<1>3. CASE w \in {"settings"} \X Settings
  BY <1>3
<1>4. CASE w \in {<<"read_back">>, <<"save">>, <<"load">>, <<"overlay">>, <<"start_if_enabled">>,
                  <<"start">>, <<"stop">>}
  BY <1>4
<1> QED
  BY <1>1, <1>2, <1>3, <1>4 DEF Work

(* Sequences of one, two and three elements.                               *)
LEMMA ShortSequences ==
  ASSUME NEW S, NEW a \in S, NEW b \in S
  PROVE  <<a>> \in Seq(S) /\ <<a, b>> \in Seq(S) /\ \A c \in S : <<a, b, c>> \in Seq(S)
OBVIOUS

(* Work put before work is work, and is run from its head.                 *)
LEMMA Joined ==
  ASSUME NEW S, NEW a \in S, NEW b \in S
  PROVE  <<a>> \o <<b>> = <<a, b>>
<1> DEFINE left == <<a>>  right == <<b>>  both == <<a, b>>
<1>1. /\ left \in Seq(S) /\ right \in Seq(S) /\ both \in Seq(S)
      /\ Len(left) = 1 /\ Len(right) = 1 /\ Len(both) = 2
      /\ left[1] = a /\ right[1] = b /\ both[1] = a /\ both[2] = b
  OBVIOUS
<1> HIDE DEF left, right, both
<1>2. /\ left \o right \in Seq(S) /\ Len(left \o right) = 2
      /\ (left \o right)[1] = a /\ (left \o right)[2] = b
  BY <1>1, ConcatProperties
<1>3. left \o right = both
  BY <1>1, <1>2, SeqEqual
<1> QED
  BY <1>3 DEF left, right, both

(* One element put before two.                                             *)
LEMMA JoinedThree ==
  ASSUME NEW S, NEW a \in S, NEW b \in S, NEW c \in S
  PROVE  <<a>> \o <<b, c>> = <<a, b, c>>
<1> DEFINE left == <<a>>  right == <<b, c>>  all == <<a, b, c>>
<1>1. /\ left \in Seq(S) /\ right \in Seq(S) /\ all \in Seq(S)
      /\ Len(left) = 1 /\ Len(right) = 2 /\ Len(all) = 3
      /\ left[1] = a /\ right[1] = b /\ right[2] = c /\ all[1] = a /\ all[2] = b /\ all[3] = c
  OBVIOUS
<1> HIDE DEF left, right, all
<1>2. /\ left \o right \in Seq(S) /\ Len(left \o right) = 3
      /\ (left \o right)[1] = a /\ (left \o right)[2] = b /\ (left \o right)[3] = c
  <2>1. /\ left \o right \in Seq(S) /\ Len(left \o right) = Len(left) + Len(right)
        /\ \A i \in 1..(Len(left) + Len(right)) :
             (left \o right)[i] = IF i <= Len(left) THEN left[i] ELSE right[i - Len(left)]
    BY <1>1, ConcatProperties
  <2>2. 1 \in 1..(1 + 2) /\ 2 \in 1..(1 + 2) /\ 3 \in 1..(1 + 2) /\ 2 - 1 = 1 /\ 3 - 1 = 2
    OBVIOUS
  <2>3. (left \o right)[1] = left[1]
    BY <1>1, <2>1, <2>2
  <2>4. (left \o right)[2] = right[1] /\ (left \o right)[3] = right[2]
    BY <1>1, <2>1, <2>2
  <2> QED
    BY <1>1, <2>1, <2>3, <2>4
<1>3. left \o right = all
  BY <1>1, <1>2, SeqEqual
<1> QED
  BY <1>3 DEF left, right, all

(* SetConfig is work of three elements.                                    *)
LEMMA SetConfigIsWork ==
  ASSUME NEW cfg \in Configs
  PROVE  SetConfig(cfg) \in Seq(Work)
<1>1. <<"app", cfg>> \in Work /\ <<"engine", cfg>> \in Work /\ <<"probe", cfg>> \in Work
  BY IsWork
<1> QED
  BY <1>1 DEF SetConfig

(* What a call has left after a step is work.                              *)
LEMMA Continued ==
  ASSUME ConfigInv, NEW s \in Callers, todo[s] # << >>,
         NEW more \in Seq(Work), Continue(s, more)
  PROVE  todo' \in [Callers -> Seq(Work)]
<1>1. Tail(todo[s]) \in Seq(Work)
  BY DEF ConfigInv
<1>2. more \o Tail(todo[s]) \in Seq(Work)
  BY <1>1, ConcatProperties
<1> QED
  BY <1>2 DEF Continue, ConfigInv

(* A call begins with work.                                                *)
LEMMA BegunWork ==
  ASSUME ConfigInv, NEW s \in Callers, NEW work \in Seq(Work), NEW install, Begin(s, work, install)
  PROVE  ConfigInv'
BY DEF Begin, ConfigInv, configs

(* The configurations are kept from the start ...                          *)
LEMMA InitConfig == Init => ConfigInv
<1> SUFFICES ASSUME Init PROVE ConfigInv
  OBVIOUS
<1>1. settings \in [{} -> Values] /\ DOMAIN settings = {}
  BY DEF Init
<1>2. settings \in Settings
  BY <1>1 DEF Settings
<1> QED
  BY <1>2, DefaultIsKept DEF Init, ConfigInv

(* ... by a call that begins, ...                                          *)
LEMMA CallConfig ==
  ASSUME ConfigInv, NEW s \in Callers,
         \/ \E patch \in Patches[s] : Save(s, patch)
         \/ \E patch \in Imports[s] : Import(s, patch)
         \/ \E raw \in Yamls[s] : handleRegister(s, raw)
         \/ Shutdown(s)
  PROVE  ConfigInv'
<1>1. ASSUME NEW patch \in Patches[s], Save(s, patch) PROVE ConfigInv'
  <2> DEFINE work == << <<"merge", patch>>, <<"read_back">> >>
  <2>1. <<"merge", patch>> \in Work /\ <<"read_back">> \in Work
    BY AsksInclude, IsWork
  <2>2. work \in Seq(Work)
    BY <2>1, ShortSequences
  <2>3. Begin(s, work, hostInstall)
    BY <1>1 DEF Save
  <2> QED
    BY <2>2, <2>3, BegunWork
<1>2. ASSUME NEW patch \in Imports[s], Import(s, patch) PROVE ConfigInv'
  <2> DEFINE work == << <<"import", patch>> >>
  <2>1. <<"import", patch>> \in Work
    BY AsksInclude, IsWork
  <2>2. work \in Seq(Work)
    BY <2>1
  <2>3. Begin(s, work, Unset)
    BY <1>2 DEF Import
  <2> QED
    BY <2>2, <2>3, BegunWork
<1>3. ASSUME NEW raw \in Yamls[s], handleRegister(s, raw) PROVE ConfigInv'
  <2> DEFINE cfg  == ParseYAML(raw)
             rest == << <<"load">>, <<"overlay">>, <<"start_if_enabled">> >>
             work == SetConfig(cfg) \o rest
  <2>1. cfg \in Configs
    BY InputsAssumption, ParsedIsKept
  <2>2. <<"load">> \in Work /\ <<"overlay">> \in Work /\ <<"start_if_enabled">> \in Work
    BY IsWork
  <2>3. rest \in Seq(Work)
    BY <2>2, ShortSequences
  <2>6. SetConfig(cfg) \in Seq(Work)
    BY <2>1, SetConfigIsWork
  <2>4. work \in Seq(Work)
    BY <2>3, <2>6, ConcatProperties
  <2>5. Begin(s, work, InstallPart(cfg))
    BY <1>3 DEF handleRegister
  <2> QED
    BY <2>4, <2>5, BegunWork
<1>4. ASSUME Shutdown(s) PROVE ConfigInv'
  <2> DEFINE work == << <<"stop">>, <<"save">> >>
  <2>1. <<"stop">> \in Work /\ <<"save">> \in Work
    BY IsWork
  <2>2. work \in Seq(Work)
    BY <2>1, ShortSequences
  <2>3. Begin(s, work, hostInstall)
    BY <1>4 DEF Shutdown
  <2> QED
    BY <2>2, <2>3, BegunWork
<1> QED
  BY <1>1, <1>2, <1>3, <1>4
(* Every step of a call takes one element away and puts work in its place. *)
LEMMA Continues ==
  ASSUME ConfigInv, NEW s \in Callers, Step(s)
  PROVE  todo[s] # << >> /\ \E more \in Seq(Work) : Continue(s, more)
<1>1. todo[s] # << >>
  BY DEF Step, Merge, MergeImport, ReadBack, SetSettings, SaveNow, Load, Overlay, StartIfEnabled, StoreApp,
         StoreEngine, UpdateConfig, Start, Stop, At
<1>2. Head(todo[s]) \in Work /\ << >> \in Seq(Work)
  BY <1>1 DEF ConfigInv
<1>3. CASE Merge(s)
  <2>1. MergePatch(appCfg, Arg(s)) \in Configs
    BY <1>2, <1>3, Reads, AsksAreWorded, MergedIsKept DEF Merge, At, Arg, ConfigInv
  <2> QED
    BY <1>1, <1>3, <2>1, SetConfigIsWork DEF Merge
<1>4. CASE MergeImport(s)
  <2> DEFINE cfg  == MergePatch(appCfg, Arg(s))
             view == OpsSettingsView(cfg)
             rest == << <<"settings", view>> >>
  <2>1. cfg \in Configs
    BY <1>2, <1>4, Reads, AsksAreWorded, MergedIsKept DEF MergeImport, At, Arg, ConfigInv
  <2>2. <<"settings", view>> \in Work
    BY <2>1, ViewIsSettings, IsWork
  <2>3. rest \in Seq(Work) /\ SetConfig(cfg) \in Seq(Work)
    BY <2>1, <2>2, SetConfigIsWork, ShortSequences
  <2>4. SetConfig(cfg) \o rest \in Seq(Work)
    BY <2>3, ConcatProperties
  <2> QED
    BY <1>1, <1>4, <2>4 DEF MergeImport
<1>5. CASE ReadBack(s)
  <2> DEFINE view == OpsSettingsView(appCfg)
             rest == << <<"settings", view>>, <<"save">> >>
  <2>1. <<"settings", view>> \in Work /\ <<"save">> \in Work
    BY ViewIsSettings, IsWork DEF ConfigInv
  <2>2. rest \in Seq(Work)
    BY <2>1, ShortSequences
  <2> QED
    BY <1>1, <1>5, <2>2 DEF ReadBack
<1>6. CASE SetSettings(s) \/ SaveNow(s) \/ StoreApp(s) \/ StoreEngine(s) \/ Start(s) \/ Stop(s)
  BY <1>1, <1>2, <1>6 DEF SetSettings, SaveNow, StoreApp, StoreEngine, Start, Stop
<1>load. CASE Load(s)
  <2> DEFINE more == IF saved = NoFile THEN << >> ELSE << <<"settings", saved>> >>
  <2>1. saved # NoFile => <<"settings", saved>> \in Work
    BY IsWork DEF ConfigInv
  <2>2. more \in Seq(Work)
    BY <1>2, <2>1, ShortSequences
  <2> QED
    BY <1>1, <1>load, <2>2 DEF Load
<1>7. CASE Overlay(s)
  <2> DEFINE more == IF DOMAIN settings = {} THEN << >> ELSE << <<"merge", settings>> >>
  <2>1. DOMAIN settings # {} => <<"merge", settings>> \in Work
    BY IsWork DEF ConfigInv, Asks
  <2>2. more \in Seq(Work)
    BY <1>2, <2>1, ShortSequences
  <2> QED
    BY <1>1, <1>7, <2>2 DEF Overlay
<1>8. CASE StartIfEnabled(s)
  <2> DEFINE more == IF appCfg.probe_enabled THEN << <<"start">> >> ELSE << >>
  <2>1. more \in Seq(Work)
    BY <1>2, IsWork, ShortSequences
  <2> QED
    BY <1>1, <1>8, <2>1 DEF StartIfEnabled
<1>9. CASE UpdateConfig(s)
  <2>1. << <<"start">> >> \in Seq(Work) /\ << <<"stop">> >> \in Seq(Work)
        /\ << <<"stop">>, <<"start">> >> \in Seq(Work)
    BY IsWork, ShortSequences
  <2>2. Decision(Arg(s)) \in {<< >>, << <<"start">> >>, << <<"stop">> >>,
                              << <<"stop">>, <<"start">> >>}
    BY DEF Decision
  <2>3. Decision(Arg(s)) \in Seq(Work)
    BY <1>2, <2>1, <2>2
  <2> QED
    BY <1>1, <1>9, <2>3 DEF UpdateConfig
<1> QED
  BY <1>3, <1>4, <1>5, <1>6, <1>load, <1>7, <1>8, <1>9 DEF Step

(* ... and so by a step of a call ...                                      *)
LEMMA StepConfig ==
  ASSUME ConfigInv, NEW s \in Callers, Step(s)
  PROVE  ConfigInv'
<1> USE DEF configs, history, flags
<1>1. todo' \in [Callers -> Seq(Work)]
  BY Continues, Continued
<1>2. Head(todo[s]) \in Work
  BY Continues DEF ConfigInv
<1>3. CASE SetSettings(s)
  <2>1. Arg(s) \in Settings
    BY <1>2, <1>3, Reads DEF SetSettings, At, Arg
  <2> QED
    BY <1>1, <1>3, <2>1 DEF SetSettings, ConfigInv
<1>4. CASE StoreApp(s) \/ StoreEngine(s) \/ UpdateConfig(s)
  <2>1. Arg(s) \in Configs
    BY <1>2, <1>4, Reads DEF StoreApp, StoreEngine, UpdateConfig, At, Arg
  <2> QED
    BY <1>1, <1>4, <2>1 DEF StoreApp, StoreEngine, UpdateConfig, ConfigInv
<1>5. CASE ~SetSettings(s) /\ ~StoreApp(s) /\ ~StoreEngine(s) /\ ~UpdateConfig(s)
  <2>1. UNCHANGED <<configs, settings>>
    BY <1>5 DEF Step, Merge, MergeImport, ReadBack, SaveNow, Load, Overlay, StartIfEnabled,
                Start, Stop
  <2>2. saved' = saved \/ saved' = Compact(settings)
    BY <1>5 DEF Step, Merge, MergeImport, ReadBack, SaveNow, Store, Load, Overlay,
                StartIfEnabled, Start, Stop
  <2> QED
    BY <1>1, <2>1, <2>2, CompactIs DEF ConfigInv
<1> QED
  BY <1>3, <1>4, <1>5

(* ... and by every step.                                                  *)
LEMMA NextConfig == ConfigInv /\ [Next]_vars => ConfigInv'
<1>1. ASSUME ConfigInv, UNCHANGED <<configs, settings, saved, todo>> PROVE ConfigInv'
  BY <1>1 DEF ConfigInv, configs
<1>timer. ASSUME ConfigInv, TimerSave PROVE ConfigInv'
  BY <1>timer, CompactIs DEF TimerSave, Store, ConfigInv, configs
<1>2. ASSUME ConfigInv, NEW l \in Loops, LoopStep(l) PROVE ConfigInv'
  BY <1>1, <1>2 DEF LoopStep, Fire, RunEnds, Leave, others
<1>3. ASSUME UNCHANGED vars PROVE UNCHANGED <<configs, settings, saved, todo>>
  BY <1>3 DEF vars
<1> QED
  BY <1>1, <1>timer, <1>2, <1>3, CallConfig, StepConfig DEF Next

(* Whatever the host, the console and backups send, in whatever order and  *)
(* however their calls interleave, no part holds a value out of range.     *)
THEOREM RangeHolds == Spec => []ConfigInRange
<1>1. ConfigInv => ConfigInRange
  BY DEF ConfigInv, Configs, Kept, InRange, ConfigInRange
<1> QED
  BY <1>1, InitConfig, NextConfig, PTL DEF Spec
-----------------------------------------------------------------------------
(* A loop that runs at another interval than the probe service's is about  *)
(* to be stopped: some call still has that to do.                          *)
LEMMA Front ==
  ASSUME NEW S, NEW a \in S, NEW rest \in Seq(S)
  PROVE  /\ << >> \o rest = rest
         /\ <<a>> \o rest # << >> /\ Head(<<a>> \o rest) = a /\ Tail(<<a>> \o rest) = rest
OBVIOUS

(* The same of two elements ...                                            *)
LEMMA FrontTwo ==
  ASSUME NEW S, NEW a \in S, NEW b \in S, NEW rest \in Seq(S)
  PROVE  /\ <<a, b>> \o rest # << >> /\ Head(<<a, b>> \o rest) = a
         /\ Tail(<<a, b>> \o rest) = <<b>> \o rest
OBVIOUS

(* ... and of three.                                                       *)
LEMMA FrontThree ==
  ASSUME NEW S, NEW a \in S, NEW b \in S, NEW c \in S, NEW rest \in Seq(S)
  PROVE  /\ <<a, b, c>> \o rest # << >> /\ Head(<<a, b, c>> \o rest) = a
         /\ Tail(<<a, b, c>> \o rest) = <<b, c>> \o rest
OBVIOUS

(* Short sequences that end.                                               *)
LEMMA Shorts ==
  ASSUME NEW S, NEW a \in S, NEW b \in S
  PROVE  /\ <<a>> # << >> /\ Head(<<a>>) = a /\ Tail(<<a>>) = << >>
         /\ <<a, b>> # << >> /\ Head(<<a, b>>) = a /\ Tail(<<a, b>>) = <<b>>
OBVIOUS

Waiting(todos, w) == \E i \in 1..Len(todos) : todos[i] = w
StopWaits == \E s \in Callers : Waiting(todo[s], <<"stop">>)

Paced   == running => loop[stopCh].every = Interval(probeCfg)
PaceInv == Paced \/ StopWaits

(* An element behind the head goes on waiting when the head is done.       *)
LEMMA WaitsOn ==
  ASSUME NEW S, NEW t \in Seq(S), NEW more \in Seq(S), NEW w,
         t # << >>, Head(t) # w, Waiting(t, w)
  PROVE  Waiting(more \o Tail(t), w)
<1>1. PICK i \in 1..Len(t) : t[i] = w
  BY DEF Waiting
<1>2. i # 1
  BY <1>1
<1>3. Tail(t) \in Seq(S) /\ Len(Tail(t)) = Len(t) - 1 /\ Tail(t)[i - 1] = w
  BY <1>1, <1>2
<1>4. Len(more) \in Nat /\ Len(t) \in Nat
  OBVIOUS
<1>5. (more \o Tail(t))[Len(more) + (i - 1)] = w
  BY <1>2, <1>3, <1>4, ConcatProperties
<1>6. Len(more) + (i - 1) \in 1..Len(more \o Tail(t))
  BY <1>2, <1>3, <1>4, ConcatProperties
<1> QED
  BY <1>5, <1>6 DEF Waiting

(* A stop that waits goes on waiting unless it is what is done.            *)
LEMMA StopWaitsOn ==
  ASSUME ConfigInv, NEW s \in Callers, todo[s] # << >>, Head(todo[s]) # <<"stop">>,
         NEW more \in Seq(Work), Continue(s, more), StopWaits
  PROVE  StopWaits'
<1>1. PICK k \in Callers : Waiting(todo[k], <<"stop">>)
  BY DEF StopWaits
<1>2. /\ k # s => todo'[k] = todo[k]
      /\ todo'[s] = more \o Tail(todo[s]) /\ todo[s] \in Seq(Work)
  BY DEF Continue, ConfigInv
<1>3. CASE k # s
  BY <1>1, <1>2, <1>3 DEF StopWaits
<1>4. CASE k = s
  BY <1>1, <1>2, <1>4, WaitsOn DEF StopWaits
<1> QED
  BY <1>3, <1>4

(* What is read of a configuration that is kept.                           *)
LEMMA ConfigReads ==
  ASSUME NEW cfg \in Configs
  PROVE  /\ cfg.probe_interval_seconds \in Int /\ cfg.probe_interval_seconds > 0
         /\ cfg.probe_enabled \in BOOLEAN /\ Interval(cfg) \in Nat
<1>1. /\ "probe_interval_seconds" \in Counts \cap Fields /\ "probe_enabled" \in Switches \cap Fields
  BY ControlAssumption DEF Counts, Switches
<1>2. cfg.probe_interval_seconds \in Int /\ cfg.probe_interval_seconds > 0
  BY <1>1, Sorts DEF Configs, Kept, InRange, ValuesOf
<1>3. cfg.probe_enabled \in BOOLEAN
  BY <1>1, Sorts DEF Configs, Kept, ValuesOf
<1> QED
  BY <1>2, <1>3 DEF Interval, AtLeast
(* No loop goroutine changes the interval of the loop in charge.           *)
LEMMA LoopsKeepPace ==
  ASSUME LoopInv, NEW l \in Loops, LoopStep(l)
  PROVE  UNCHANGED <<configs, settings, flags, todo, history>> /\ (Paced => Paced')
<1>1. /\ UNCHANGED <<configs, settings, flags, todo, history>>
      /\ running' = running /\ stopCh' = stopCh /\ probeCfg' = probeCfg
  BY DEF LoopStep, Fire, RunEnds, Leave, others, flags, configs
<1>2. ASSUME running PROVE loop'[stopCh].every = loop[stopCh].every
  <2>1. stopCh \in Loops /\ ~loop[stopCh].stop
    BY <1>2 DEF LoopInv, Slots, AtMostOneLiveLoop, Live
  <2>2. CASE Fire(l)
    BY <2>1, <2>2 DEF Fire, LoopInv, Slots
  <2>3. CASE RunEnds(l)
    BY <2>1, <2>3 DEF RunEnds, LoopInv, Slots
  <2>4. CASE Leave(l)
    BY <2>1, <2>4 DEF Leave, LoopInv, Slots
  <2> QED
    BY <2>2, <2>3, <2>4 DEF LoopStep
<1> QED
  BY <1>1, <1>2 DEF Paced, Interval, AtLeast

(* Start and Stop leave a loop at the right interval, or none; UpdateConfig *)
(* sees to it that a loop at another one is stopped.                       *)
LEMMA StartsAtPace ==
  ASSUME LoopInv, NEW s \in Callers, Start(s)
  PROVE  (MayStart => Paced') /\ (~MayStart => UNCHANGED <<flags, loop>>) /\ probeCfg' = probeCfg
<1>1. probeCfg' = probeCfg /\ (~MayStart => UNCHANGED <<flags, loop>>)
  BY DEF Start, configs
<1>2. ASSUME MayStart PROVE Paced'
  <2>1. PICK l \in Loops :
        /\ stopCh' = l
        /\ loop' = [loop EXCEPT ![l] = [stage |-> "wait", stop |-> FALSE,
                                        every |-> Interval(probeCfg)]]
    BY <1>2 DEF Start
  <2>2. loop'[l].every = Interval(probeCfg)
    BY <2>1 DEF LoopInv, Slots
  <2> QED
    BY <1>1, <2>1, <2>2 DEF Paced
<1> QED
  BY <1>1, <1>2

(* Only UpdateConfig sets the pace of the probes apart from the loop's.    *)
LEMMA Unpaced ==
  ASSUME ConfigInv, Paced, NEW cfg \in Configs, running,
         Interval(cfg) # Interval(probeCfg)
  PROVE  Decision(cfg) \in {<< <<"stop">> >>, << <<"stop">>, <<"start">> >>}
<1>1. cfg.probe_interval_seconds # probeCfg.probe_interval_seconds
  BY DEF Interval
<1>2. cfg.probe_interval_seconds > 0 /\ cfg.probe_enabled \in BOOLEAN
  BY ConfigReads
<1> QED
  BY <1>1, <1>2 DEF Decision

(* A step of a call keeps PaceInv ...                                      *)
LEMMA StepPace ==
  ASSUME LoopInv, ConfigInv, PaceInv, NEW s \in Callers, Step(s)
  PROVE  PaceInv'
<1>1. PICK more \in Seq(Work) : Continue(s, more)
  BY Continues
<1>2. todo[s] # << >>
  BY Continues
<1>3. CASE Stop(s)
  BY <1>3 DEF Stop, PaceInv, Paced, configs, flags
<1>4. CASE ~Stop(s)
  <2>1. Head(todo[s]) # <<"stop">>
    BY <1>4 DEF Step, Merge, MergeImport, ReadBack, SetSettings, SaveNow, Load, Overlay, StartIfEnabled,
                StoreApp, StoreEngine, UpdateConfig, Start, At
  <2>2. StopWaits => StopWaits'
    BY <1>1, <1>2, <2>1, StopWaitsOn
  <2>3. CASE Start(s)
    BY <2>2, <2>3, StartsAtPace DEF PaceInv, Paced, flags
  <2>4. CASE UpdateConfig(s)
    <3>1. Arg(s) \in Configs /\ Head(todo[s])[1] = "probe"
      BY <1>2, <2>4, Reads DEF UpdateConfig, At, Arg, ConfigInv
    <3>2. /\ probeCfg' = Arg(s) /\ running' = running /\ stopCh' = stopCh /\ loop' = loop
          /\ Continue(s, Decision(Arg(s)))
      BY <2>4 DEF UpdateConfig, flags
    <3>3. CASE Paced /\ running /\ Interval(Arg(s)) # Interval(probeCfg)
      <4>1. Decision(Arg(s)) \in {<< <<"stop">> >>, << <<"stop">>, <<"start">> >>}
        BY <3>1, <3>3, Unpaced
      <4>2. Waiting(todo'[s], <<"stop">>)
        <5>1. todo'[s] = Decision(Arg(s)) \o Tail(todo[s]) /\ Tail(todo[s]) \in Seq(Work)
          BY <1>2, <3>2 DEF Continue, ConfigInv
        <5> DEFINE rest == Tail(todo[s])
        <5>2. <<"stop">> \in Work /\ <<"start">> \in Work
          BY IsWork
        <5>3. /\ << <<"stop">> >> \o rest # << >>
              /\ Head(<< <<"stop">> >> \o rest) = <<"stop">>
              /\ << <<"stop">>, <<"start">> >> \o rest # << >>
              /\ Head(<< <<"stop">>, <<"start">> >> \o rest) = <<"stop">>
          BY <5>1, <5>2, Front, FrontTwo
        <5>4. todo'[s] # << >> /\ Head(todo'[s]) = <<"stop">>
          BY <4>1, <5>1, <5>3
        <5>5. todo'[s] \in Seq(Work)
          BY StepConfig DEF ConfigInv
        <5> QED
          BY <5>4, <5>5 DEF Waiting
      <4> QED
        BY <4>2 DEF PaceInv, StopWaits
    <3>4. CASE Paced /\ (running => Interval(Arg(s)) = Interval(probeCfg))
      BY <3>2, <3>4 DEF PaceInv, Paced, Interval
    <3> QED
      BY <2>2, <3>3, <3>4 DEF PaceInv, Paced
  <2>5. CASE ~Start(s) /\ ~UpdateConfig(s)
    <3>1. probeCfg' = probeCfg /\ running' = running /\ stopCh' = stopCh /\ loop' = loop
      BY <1>4, <2>5 DEF Step, Merge, MergeImport, ReadBack, SetSettings, SaveNow, Load, Overlay,
                        StartIfEnabled, StoreApp, StoreEngine, configs, flags
    <3> QED
      BY <2>2, <3>1 DEF PaceInv, Paced, Interval
  <2> QED
    BY <2>3, <2>4, <2>5
<1> QED
  BY <1>3, <1>4

(* ... as does a call that begins ...                                      *)
LEMMA BeginPace ==
  ASSUME ConfigInv, PaceInv, NEW s \in Callers, NEW work, NEW install, Begin(s, work, install)
  PROVE  PaceInv'
<1>1. probeCfg' = probeCfg /\ running' = running /\ stopCh' = stopCh /\ loop' = loop
  BY DEF Begin, configs, flags
<1>2. StopWaits => StopWaits'
  BY DEF Begin, ConfigInv, StopWaits, Waiting
<1> QED
  BY <1>1, <1>2 DEF PaceInv, Paced, Interval

(* ... and every step.                                                     *)
LEMMA NextPace == LoopInv /\ ConfigInv /\ PaceInv /\ [Next]_vars => PaceInv'
<1> SUFFICES ASSUME LoopInv, ConfigInv, PaceInv, [Next]_vars PROVE PaceInv'
  OBVIOUS
<1>1. ASSUME NEW s \in Callers, \/ \E patch \in Patches[s] : Save(s, patch)
                                \/ \E patch \in Imports[s] : Import(s, patch)
                                \/ \E raw \in Yamls[s] : handleRegister(s, raw)
                                \/ Shutdown(s)
      PROVE  PaceInv'
  BY <1>1, BeginPace DEF Save, Import, handleRegister, Shutdown
<1>2. ASSUME NEW l \in Loops, LoopStep(l) PROVE PaceInv'
  BY <1>2, LoopsKeepPace DEF PaceInv, StopWaits
<1>3. CASE TimerSave \/ UNCHANGED vars
  BY <1>3 DEF TimerSave, vars, PaceInv, Paced, StopWaits, Waiting, Interval, configs, flags
<1> QED
  BY <1>1, <1>2, <1>3, StepPace DEF Next
-----------------------------------------------------------------------------
(* What a patch leaves of a configuration.                                 *)
LEMMA Readable ==
  ASSUME NEW base \in Configs, NEW patch, Worded(patch), Unreadable \notin Range(patch)
  PROVE  MergePatch(base, patch) =
           [f \in Fields |-> Normal(f, IF f \in DOMAIN patch THEN Coerced(patch[f]) ELSE base[f])]
<1> DEFINE raw == Over(base, CoerceOpsPatch(patch))
<1>1. \A f \in Fields : raw[f] = IF f \in DOMAIN patch THEN Coerced(patch[f]) ELSE base[f]
  BY DEF Over, CoerceOpsPatch
<1>2. ASSUME NEW f \in Fields PROVE raw[f] # Unreadable
  <2>1. CASE f \notin DOMAIN patch
    BY <1>1, <2>1, WordsAssumption DEF Configs, Kept
  <2>2. CASE f \in DOMAIN patch /\ patch[f] \in ValuesOf(f)
    BY <1>1, <2>2, WordsAssumption DEF Coerced
  <2>3. CASE f \in DOMAIN patch /\ f \in Switches /\ patch[f] \in {Yes, No}
    <3>1. ValuesOf(f) = BOOLEAN
      BY <2>3, Sorts DEF ValuesOf
    <3>2. Coerced(patch[f]) \in BOOLEAN
      BY <2>3 DEF Coerced
    <3> QED
      BY <1>1, <2>3, <3>1, <3>2, WordsAssumption
  <2> QED
    BY <2>1, <2>2, <2>3 DEF Worded, Range
<1>3. DOMAIN raw = Fields /\ Unreadable \notin Range(raw)
  BY <1>2 DEF Over, Range
<1> HIDE DEF raw
<1>4. \A f \in Fields : Over(DefaultConfig, raw)[f] = raw[f]
  BY <1>3 DEF Over
<1>5. ParseYAML(raw) = [f \in Fields |-> Normal(f, raw[f])]
  BY <1>3, <1>4 DEF ParseYAML, Normalize
<1> QED
  BY <1>1, <1>5 DEF MergePatch, raw

(* The host installs nothing that the console may set.                     *)
LEMMA KeysApart == InstallKeys \cap OpsKeys = {}
BY DEF OpsKeys

(* What the console sends leaves the install fields as they are.           *)
LEMMA PatchLeavesInstall ==
  ASSUME NEW base \in Configs, NEW patch, Worded(patch), Unreadable \notin Range(patch),
         DOMAIN patch \subseteq OpsKeys
  PROVE  InstallPart(MergePatch(base, patch)) = InstallPart(base)
<1>1. \A f \in Fields \cap InstallKeys : MergePatch(base, patch)[f] = base[f]
  BY Readable, KeysApart DEF Configs, Kept
<1> QED
  BY <1>1 DEF InstallPart, Restrict

(* The settings the console saved come back as they were.                  *)
LEMMA SettingsComeBack ==
  ASSUME NEW base \in Configs, NEW view \in Settings
  PROVE  /\ \A f \in DOMAIN view : MergePatch(base, view)[f] = view[f]
         /\ InstallPart(MergePatch(base, view)) = InstallPart(base)
<1>1. DOMAIN view \subseteq Fields \cap OpsKeys
  BY SettingsAre
<1>2. \A f \in DOMAIN view :
        view[f] \in ValuesOf(f) /\ Normal(f, view[f]) = view[f] /\ Coerced(view[f]) = view[f]
  <2> TAKE f \in DOMAIN view
  <2>1. Kept(f, view[f]) /\ f \in Fields
    BY <1>1, SettingsAre
  <2>2. view[f] \in ValuesOf(f) /\ Normal(f, view[f]) = view[f]
    BY <2>1 DEF Kept
  <2>3. view[f] # Yes /\ view[f] # No
    BY <2>1, <2>2, WordsAssumption
  <2>4. Coerced(view[f]) = view[f]
    BY <2>3 DEF Coerced
  <2> QED
    BY <2>2, <2>4
<1>3. Worded(view) /\ Unreadable \notin Range(view)
  BY <1>1, <1>2, WordsAssumption DEF Worded, Range
<1>4. \A f \in DOMAIN view : MergePatch(base, view)[f] = view[f]
  BY <1>1, <1>2, <1>3, Readable
<1> QED
  BY <1>1, <1>3, <1>4, PatchLeavesInstall

-----------------------------------------------------------------------------
(* A call that no other overlaps.  First it has a patch to merge ...       *)
InstallFits(cfg)  == hostInstall # Unset => InstallPart(cfg) = hostInstall
SettingsFit(cfg)  == \A f \in DOMAIN settings : cfg[f] = settings[f]

Sending(q) ==
  /\ Paced /\ InstallFits(appCfg)
  /\ \/ \E patch \in Asks : /\ q = << <<"merge", patch>>, <<"read_back">> >>
                            /\ DOMAIN patch \subseteq OpsKeys
     \/ \E patch \in Asks : q = << <<"import", patch>> >> /\ hostInstall = Unset
     \/ /\ q = << <<"merge", settings>>, <<"start_if_enabled">> >>
        /\ DOMAIN settings # {}

(* ... then it brings a configuration to the parts, one by one, and sets   *)
(* the loop right, ...                                                     *)
Agree(cfg)   == appCfg = cfg /\ engineCfg = cfg /\ probeCfg = cfg
InForce(cfg) == Agree(cfg) /\ Paced /\ (running <=> cfg.probe_enabled)

Spreading(q, cfg, rest) ==
  \/ q = SetConfig(cfg) \o rest /\ Paced
  \/ q = << <<"engine", cfg>>, <<"probe", cfg>> >> \o rest /\ Paced /\ appCfg = cfg
  \/ q = << <<"probe", cfg>> >> \o rest /\ Paced /\ appCfg = cfg /\ engineCfg = cfg
  \/ q = << <<"stop">> >> \o rest /\ Agree(cfg) /\ ~cfg.probe_enabled
  \/ q = << <<"stop">>, <<"start">> >> \o rest /\ Agree(cfg) /\ cfg.probe_enabled
  \/ q = << <<"start">> >> \o rest /\ Agree(cfg) /\ cfg.probe_enabled /\ Paced
  \/ q = rest /\ InForce(cfg)

(* ... and last it sees to the settings and the file, or to the start.     *)
RestOf(cfg, rest) ==
  \/ rest = << <<"read_back">> >>
  \/ rest = << <<"settings", OpsSettingsView(cfg)>>, <<"save">> >>
  \/ rest = << <<"settings", OpsSettingsView(cfg)>> >>
  \/ rest = << <<"save">> >> /\ SettingsFit(cfg)
  \/ rest = << <<"load">>, <<"overlay">>, <<"start_if_enabled">> >>
  \/ \E view \in Settings :
       rest = << <<"settings", view>>, <<"overlay">>, <<"start_if_enabled">> >>
  \/ rest = << <<"overlay">>, <<"start_if_enabled">> >>
  \/ rest = << <<"start_if_enabled">> >> /\ SettingsFit(cfg)
  \/ rest = << >> /\ SettingsFit(cfg)

Bringing(q, cfg, rest) == RestOf(cfg, rest) /\ InstallFits(cfg) /\ Spreading(q, cfg, rest)

OnItsWay(q) == Sending(q) \/ \E cfg \in Configs, rest \in Seq(Work) : Bringing(q, cfg, rest)

Alone(s) == \A t \in Callers : t # s => todo[t] = << >>

CallsInv ==
  /\ settled \in BOOLEAN
  /\ settled => \E s \in Callers : Alone(s) /\ OnItsWay(todo[s])
  /\ (~settled /\ hostInstall # Unset) =>
       /\ InstallFits(appCfg)
       /\ \E s \in Callers :
            Alone(s) /\ todo[s] \in {<< >>, << <<"save">> >>, << <<"stop">>, <<"save">> >>}

At1(s) == Head(todo[s])[1]

(* The element at the head says which step it is.                          *)
LEMMA StepIs ==
  ASSUME NEW s \in Callers, Step(s)
  PROVE  /\ todo[s] # << >>
         /\ At1(s) = "merge" => Merge(s)
         /\ At1(s) = "import" => MergeImport(s)
         /\ At1(s) = "read_back" => ReadBack(s)
         /\ At1(s) = "settings" => SetSettings(s)
         /\ At1(s) = "save" => SaveNow(s)
         /\ At1(s) = "load" => Load(s)
         /\ At1(s) = "overlay" => Overlay(s)
         /\ At1(s) = "start_if_enabled" => StartIfEnabled(s)
         /\ At1(s) = "app" => StoreApp(s)
         /\ At1(s) = "engine" => StoreEngine(s)
         /\ At1(s) = "probe" => UpdateConfig(s)
         /\ At1(s) = "start" => Start(s)
         /\ At1(s) = "stop" => Stop(s)
BY DEF Step, Merge, MergeImport, ReadBack, SetSettings, SaveNow, Load, Overlay, StartIfEnabled, StoreApp,
       StoreEngine, UpdateConfig, Start, Stop, At, At1

(* A step of a call that brings a configuration to the parts.              *)
LEMMA BringOn ==
  ASSUME LoopInv, ConfigInv, NEW s \in Callers, Step(s),
         NEW cfg \in Configs, NEW rest \in Seq(Work),
         RestOf(cfg, rest), InstallFits(cfg), Spreading(todo[s], cfg, rest), todo[s] # rest
  PROVE  OnItsWay(todo[s])'
<1> DEFINE app == <<"app", cfg>>  engine == <<"engine", cfg>>  probe == <<"probe", cfg>>
           stop == <<"stop">>  start == <<"start">>
<1>1. /\ app \in Work /\ engine \in Work /\ probe \in Work /\ stop \in Work /\ start \in Work
  BY IsWork
<1>16. /\ app[1] = "app" /\ engine[1] = "engine" /\ probe[1] = "probe"
       /\ stop[1] = "stop" /\ start[1] = "start"
       /\ app[2] = cfg /\ engine[2] = cfg /\ probe[2] = cfg
  OBVIOUS
<1>2. SetConfig(cfg) = <<app, engine, probe>>
  BY DEF SetConfig
<1> HIDE DEF app, engine, probe, stop, start
<1>3. \A more : Continue(s, more) => todo'[s] = more \o Tail(todo[s])
  BY DEF Continue, ConfigInv
<1>13. /\ Head(<<app, engine, probe>> \o rest) = app
       /\ Tail(<<app, engine, probe>> \o rest) = <<engine, probe>> \o rest
  BY <1>1, FrontThree
<1>15. /\ Head(<<engine, probe>> \o rest) = engine
       /\ Tail(<<engine, probe>> \o rest) = <<probe>> \o rest
       /\ Head(<<probe>> \o rest) = probe /\ Tail(<<probe>> \o rest) = rest
  BY <1>1, Front, FrontTwo
<1>14. /\ Head(<<stop>> \o rest) = stop /\ Tail(<<stop>> \o rest) = rest
       /\ Head(<<stop, start>> \o rest) = stop
       /\ Tail(<<stop, start>> \o rest) = <<start>> \o rest
       /\ Head(<<start>> \o rest) = start /\ Tail(<<start>> \o rest) = rest
       /\ << >> \o rest = rest
  BY <1>1, Front, FrontTwo
<1>4. cfg.probe_enabled \in BOOLEAN /\ cfg.probe_interval_seconds > 0
  BY ConfigReads
<1>5. ASSUME UNCHANGED <<settings, hostInstall>>, Spreading(todo[s], cfg, rest)'
      PROVE  OnItsWay(todo[s])'
  BY <1>5 DEF OnItsWay, Bringing, RestOf, InstallFits, SettingsFit
<1>6. CASE todo[s] = SetConfig(cfg) \o rest /\ Paced
  <2>1. Head(todo[s]) = app /\ Tail(todo[s]) = <<engine, probe>> \o rest
    BY <1>2, <1>6, <1>13
  <2>2. StoreApp(s) /\ Arg(s) = cfg
    BY <1>16, <2>1, StepIs DEF At1, Arg
  <2>3. todo'[s] = << >> \o (<<engine, probe>> \o rest)
    BY <1>3, <2>1, <2>2 DEF StoreApp
  <2>4. <<engine, probe>> \o rest \in Seq(Work)
    BY <1>1, ShortSequences, ConcatProperties
  <2>5. todo'[s] = <<engine, probe>> \o rest
    BY <1>1, <2>3, <2>4, Front
  <2>6. appCfg' = cfg /\ UNCHANGED <<engineCfg, probeCfg, settings, flags, loop, history>>
    BY <2>2 DEF StoreApp
  <2> QED
    BY <1>5, <1>6, <2>5, <2>6 DEF Spreading, Paced, Interval, flags, history, engine, probe
<1>7. CASE todo[s] = <<engine, probe>> \o rest /\ Paced /\ appCfg = cfg
  <2>1. Head(todo[s]) = engine /\ Tail(todo[s]) = <<probe>> \o rest
    BY <1>7, <1>15
  <2>2. StoreEngine(s) /\ Arg(s) = cfg
    BY <1>16, <2>1, StepIs DEF At1, Arg
  <2>3. todo'[s] = << >> \o (<<probe>> \o rest)
    BY <1>3, <2>1, <2>2 DEF StoreEngine
  <2>4. <<probe>> \o rest \in Seq(Work)
    BY <1>1, ShortSequences, ConcatProperties
  <2>5. todo'[s] = <<probe>> \o rest
    BY <1>1, <2>3, <2>4, Front
  <2>6. engineCfg' = cfg /\ UNCHANGED <<appCfg, probeCfg, settings, flags, loop, history>>
    BY <2>2 DEF StoreEngine
  <2> QED
    BY <1>5, <1>7, <2>5, <2>6 DEF Spreading, Paced, Interval, flags, history, probe
<1>8. CASE todo[s] = <<probe>> \o rest /\ Paced /\ appCfg = cfg /\ engineCfg = cfg
  <2>1. Head(todo[s]) = probe /\ Tail(todo[s]) = rest
    BY <1>8, <1>15
  <2>2. UpdateConfig(s) /\ Arg(s) = cfg
    BY <1>16, <2>1, StepIs DEF At1, Arg
  <2>3. todo'[s] = Decision(cfg) \o rest
    BY <1>3, <2>1, <2>2 DEF UpdateConfig
  <2>4. probeCfg' = cfg /\ UNCHANGED <<appCfg, engineCfg, settings, flags, loop, history>>
    BY <2>2 DEF UpdateConfig
  <2>5. running \in BOOLEAN
    BY DEF LoopInv, Slots
  <2>6. CASE cfg.probe_enabled /\ ~running
    <3>1. Decision(cfg) = <<start>>
      BY <2>6 DEF Decision, start
    <3> QED
      BY <1>5, <1>8, <2>3, <2>4, <2>6, <3>1 DEF Spreading, Agree, Paced, flags, history, start
  <2>7. CASE ~cfg.probe_enabled /\ running
    <3>1. Decision(cfg) = <<stop>>
      BY <2>7 DEF Decision, stop
    <3> QED
      BY <1>5, <1>8, <2>3, <2>4, <2>7, <3>1 DEF Spreading, Agree, flags, history, stop
  <2>8. CASE /\ cfg.probe_enabled /\ running
             /\ cfg.probe_interval_seconds # probeCfg.probe_interval_seconds
    <3>1. Decision(cfg) = <<stop, start>>
      BY <1>4, <2>8 DEF Decision, stop, start
    <3> QED
      BY <1>5, <1>8, <2>3, <2>4, <2>8, <3>1 DEF Spreading, Agree, flags, history, stop, start
  <2>9. CASE \/ ~cfg.probe_enabled /\ ~running
             \/ /\ cfg.probe_enabled /\ running
                /\ cfg.probe_interval_seconds = probeCfg.probe_interval_seconds
    <3>1. Decision(cfg) = << >>
      BY <2>9 DEF Decision
    <3>2. todo'[s] = rest
      BY <1>14, <2>3, <3>1
    <3>3. InForce(cfg)'
      BY <1>4, <1>8, <2>4, <2>5, <2>9 DEF InForce, Agree, Paced, Interval, flags
    <3> QED
      BY <1>5, <2>4, <3>2, <3>3 DEF Spreading, history
  <2> QED
    BY <1>4, <2>5, <2>6, <2>7, <2>8, <2>9
<1>9. ASSUME Stop(s) PROVE running' = FALSE /\ UNCHANGED <<configs, settings, history>>
  BY <1>9 DEF Stop, flags, LoopInv, Slots
<1>10. CASE todo[s] = <<stop>> \o rest /\ Agree(cfg) /\ ~cfg.probe_enabled
  <2>1. Head(todo[s]) = stop /\ Tail(todo[s]) = rest
    BY <1>10, <1>14
  <2>2. Stop(s)
    BY <1>16, <2>1, StepIs DEF At1
  <2>3. todo'[s] = rest
    BY <1>3, <1>14, <2>1, <2>2 DEF Stop
  <2>4. InForce(cfg)'
    BY <1>4, <1>9, <1>10, <2>2 DEF InForce, Agree, Paced, configs
  <2> QED
    BY <1>5, <1>9, <2>2, <2>3, <2>4 DEF Spreading, history
<1>11. CASE todo[s] = <<stop, start>> \o rest /\ Agree(cfg) /\ cfg.probe_enabled
  <2>1. Head(todo[s]) = stop /\ Tail(todo[s]) = <<start>> \o rest
    BY <1>11, <1>14
  <2>2. Stop(s)
    BY <1>16, <2>1, StepIs DEF At1
  <2>3. todo'[s] = << >> \o (<<start>> \o rest)
    BY <1>3, <2>1, <2>2 DEF Stop
  <2>4. <<start>> \o rest \in Seq(Work)
    BY <1>1, ShortSequences, ConcatProperties
  <2>5. todo'[s] = <<start>> \o rest
    BY <1>1, <2>3, <2>4, Front
  <2> QED
    BY <1>5, <1>9, <1>11, <2>2, <2>5 DEF Spreading, Agree, Paced, configs, history, start
<1>12. CASE todo[s] = <<start>> \o rest /\ Agree(cfg) /\ cfg.probe_enabled /\ Paced
  <2>1. Head(todo[s]) = start /\ Tail(todo[s]) = rest
    BY <1>12, <1>14
  <2>2. Start(s)
    BY <1>16, <2>1, StepIs DEF At1
  <2>3. todo'[s] = rest
    BY <1>3, <1>14, <2>1, <2>2 DEF Start
  <2>4. UNCHANGED <<configs, settings, history>>
    BY <2>2 DEF Start
  <2>5. running' = TRUE
    BY <1>12, <2>2 DEF Start, MayStart, Agree, flags, LoopInv, Slots
  <2>6. Paced'
    BY <1>12, <2>2, <2>4, StartsAtPace DEF Paced, flags, configs, Interval
  <2>7. InForce(cfg)'
    BY <1>12, <2>4, <2>5, <2>6 DEF InForce, Agree, configs
  <2> QED
    BY <1>5, <2>3, <2>4, <2>7 DEF Spreading, history
<1> QED
  BY <1>6, <1>7, <1>8, <1>10, <1>11, <1>12
  DEF Spreading, engine, probe, stop, start
(* A step of a call whose configuration is in force: it saves the settings, *)
(* lays them over, or starts the loop.                                     *)
LEMMA RestOn ==
  ASSUME LoopInv, ConfigInv, NEW s \in Callers, Step(s), NEW cfg \in Configs,
         RestOf(cfg, todo[s]), InstallFits(cfg), InForce(cfg)
  PROVE  OnItsWay(todo[s])'
<1>1. appCfg = cfg /\ engineCfg = cfg /\ probeCfg = cfg
  BY DEF InForce, Agree
<1>2. \A more : Continue(s, more) => todo'[s] = more \o Tail(todo[s])
  BY DEF Continue, ConfigInv
<1>3. ASSUME UNCHANGED <<configs, flags, loop>> PROVE InForce(cfg)'
  BY <1>3 DEF InForce, Agree, Paced, Interval, configs, flags
<1>4. ASSUME UNCHANGED <<configs, flags, loop, hostInstall>>, RestOf(cfg, todo[s])',
             todo'[s] \in Seq(Work)
      PROVE  OnItsWay(todo[s])'
  BY <1>3, <1>4 DEF OnItsWay, Bringing, Spreading, InstallFits
<1>5. todo'[s] \in Seq(Work)
  BY StepConfig DEF ConfigInv
<1>6. CASE todo[s] = << <<"read_back">> >>
  <2>1. At1(s) = "read_back" /\ Tail(todo[s]) = << >>
    BY <1>6 DEF At1
  <2>2. ReadBack(s)
    BY <2>1, StepIs
  <2> DEFINE view == OpsSettingsView(cfg)
             rest == << <<"settings", view>>, <<"save">> >>
  <2>3. <<"settings", view>> \in Work /\ <<"save">> \in Work
    BY ViewIsSettings, IsWork
  <2>4. rest \in Seq(Work)
    BY <2>3, ShortSequences
  <2>5. todo'[s] = rest
    <3>1. todo'[s] = rest \o << >>
      BY <1>1, <1>2, <2>1, <2>2 DEF ReadBack
    <3> HIDE DEF rest
    <3> QED
      BY <2>4, <3>1, ConcatEmptySeq
  <2> QED
    BY <1>4, <1>5, <2>2, <2>5 DEF ReadBack, RestOf, history
<1>7. ASSUME NEW view \in Settings, NEW rest \in Seq(Work), SetSettings(s),
             Arg(s) = view, Tail(todo[s]) = rest, RestOf(cfg, rest)'
      PROVE  OnItsWay(todo[s])'
  <2>1. todo'[s] = << >> \o rest
    BY <1>2, <1>7 DEF SetSettings
  <2>2. todo'[s] = rest
    BY <2>1, ConcatEmptySeq
  <2> QED
    BY <1>4, <1>5, <1>7, <2>2 DEF SetSettings, history
<1>11. ASSUME SetSettings(s), Arg(s) = OpsSettingsView(cfg) PROVE SettingsFit(cfg)'
  <2>1. settings' = Restrict(cfg, Fields \cap OpsKeys)
    BY <1>11 DEF SetSettings, OpsSettingsView
  <2> QED
    BY <2>1 DEF SettingsFit, Restrict
<1>12. CASE todo[s] = << <<"settings", OpsSettingsView(cfg)>>, <<"save">> >>
  <2>1. /\ At1(s) = "settings" /\ Arg(s) = OpsSettingsView(cfg)
        /\ Tail(todo[s]) = << <<"save">> >>
    BY <1>12 DEF At1, Arg
  <2>2. SetSettings(s) /\ << <<"save">> >> \in Seq(Work)
    BY <2>1, StepIs, IsWork, ShortSequences
  <2>3. RestOf(cfg, << <<"save">> >>)'
    BY <1>11, <2>1, <2>2 DEF RestOf
  <2> QED
    BY <1>7, <2>1, <2>2, <2>3, ViewIsSettings
<1>13. CASE todo[s] = << <<"settings", OpsSettingsView(cfg)>> >>
  <2>1. At1(s) = "settings" /\ Arg(s) = OpsSettingsView(cfg) /\ Tail(todo[s]) = << >>
    BY <1>13 DEF At1, Arg
  <2>2. SetSettings(s) /\ << >> \in Seq(Work)
    BY <2>1, StepIs
  <2>3. RestOf(cfg, << >>)'
    BY <1>11, <2>1, <2>2 DEF RestOf
  <2> QED
    BY <1>7, <2>1, <2>2, <2>3, ViewIsSettings
<1>14. CASE todo[s] = << <<"save">> >> /\ SettingsFit(cfg)
  <2>1. At1(s) = "save" /\ Tail(todo[s]) = << >>
    BY <1>14 DEF At1
  <2>2. SaveNow(s)
    BY <2>1, StepIs
  <2>3. todo'[s] = << >> /\ UNCHANGED <<configs, settings, flags, loop, hostInstall>>
    BY <1>2, <2>1, <2>2 DEF SaveNow
  <2>4. RestOf(cfg, << >>)'
    BY <1>14, <2>3 DEF RestOf, SettingsFit
  <2> QED
    BY <1>4, <1>5, <2>3, <2>4
<1>15. CASE todo[s] = << <<"load">>, <<"overlay">>, <<"start_if_enabled">> >>
  <2> DEFINE lay == <<"overlay">>
             start == <<"start_if_enabled">>
             got == <<"settings", saved>>
  <2>1. lay \in Work /\ start \in Work /\ Tail(todo[s]) = <<lay, start>> /\ At1(s) = "load"
    BY <1>15, IsWork DEF At1
  <2>2. Load(s)
    BY <2>1, StepIs
  <2>3. UNCHANGED <<configs, flags, loop, hostInstall>>
    BY <2>2 DEF Load, history
  <2>4. CASE saved = NoFile
    <3>1. todo'[s] = << >> \o <<lay, start>>
      BY <1>2, <2>1, <2>2, <2>4 DEF Load
    <3>2. todo'[s] = <<lay, start>>
      BY <2>1, <3>1, ShortSequences, ConcatEmptySeq
    <3> QED
      BY <1>4, <1>5, <2>3, <3>2 DEF RestOf
  <2>5. CASE saved # NoFile
    <3>1. todo'[s] = <<got>> \o <<lay, start>>
      BY <1>2, <2>1, <2>2, <2>5 DEF Load
    <3>2. got \in Work /\ saved \in Settings
      BY <2>5, IsWork DEF ConfigInv
    <3>3. todo'[s] = <<got, lay, start>>
      <4> HIDE DEF got, lay, start
      <4> QED
        BY <2>1, <3>1, <3>2, JoinedThree
    <3> QED
      BY <1>4, <1>5, <2>3, <3>2, <3>3 DEF RestOf
  <2> QED
    BY <2>4, <2>5
<1>16. ASSUME NEW view \in Settings,
              todo[s] = << <<"settings", view>>, <<"overlay">>, <<"start_if_enabled">> >>
       PROVE  OnItsWay(todo[s])'
  <2> DEFINE rest == << <<"overlay">>, <<"start_if_enabled">> >>
  <2>1. At1(s) = "settings" /\ Arg(s) = view /\ Tail(todo[s]) = rest
    BY <1>16 DEF At1, Arg
  <2>2. SetSettings(s) /\ rest \in Seq(Work)
    BY <2>1, StepIs, IsWork, ShortSequences
  <2>3. RestOf(cfg, rest)'
    BY DEF RestOf
  <2> QED
    BY <1>7, <2>1, <2>2, <2>3
<1>8. CASE todo[s] = << <<"overlay">>, <<"start_if_enabled">> >>
  <2> DEFINE start == <<"start_if_enabled">>
             merge == <<"merge", settings>>
  <2>1. At1(s) = "overlay"
    BY <1>8 DEF At1
  <2>2. Overlay(s)
    BY <2>1, StepIs
  <2>3. Tail(todo[s]) = <<start>> /\ start \in Work
    BY <1>8, IsWork
  <2>4. UNCHANGED <<configs, settings, flags, loop, history>>
    BY <2>2 DEF Overlay
  <2>5. CASE DOMAIN settings = {}
    <3>1. todo'[s] = << >> \o <<start>>
      BY <1>2, <2>2, <2>3, <2>5 DEF Overlay
    <3>2. todo'[s] = <<start>>
      BY <2>3, <3>1, ShortSequences, ConcatEmptySeq
    <3> QED
      BY <1>4, <1>5, <2>4, <2>5, <3>2 DEF RestOf, SettingsFit, history
  <2>6. CASE DOMAIN settings # {}
    <3>1. todo'[s] = <<merge>> \o <<start>>
      BY <1>2, <2>2, <2>3, <2>6 DEF Overlay
    <3>2. merge \in Work
      BY <2>6, IsWork DEF ConfigInv, Asks
    <3>3. todo'[s] = <<merge, start>>
      <4> HIDE DEF merge, start
      <4> QED
        BY <2>3, <3>1, <3>2, Joined
    <3>4. Paced' /\ InstallFits(appCfg)'
      BY <1>1, <1>3, <2>4 DEF InForce, InstallFits, configs, history
    <3> QED
      BY <2>4, <2>6, <3>3, <3>4 DEF OnItsWay, Sending
  <2> QED
    BY <2>5, <2>6
<1>9. CASE todo[s] = << <<"start_if_enabled">> >> /\ SettingsFit(cfg)
  <2>1. At1(s) = "start_if_enabled" /\ Tail(todo[s]) = << >>
    BY <1>9 DEF At1
  <2>2. StartIfEnabled(s)
    BY <2>1, StepIs
  <2>3. UNCHANGED <<configs, settings, flags, loop, history>>
    BY <2>2 DEF StartIfEnabled
  <2>4. RestOf(cfg, << >>)' /\ InstallFits(cfg)' /\ InForce(cfg)'
    BY <1>3, <1>9, <2>3 DEF RestOf, SettingsFit, InstallFits, history
  <2>5. CASE cfg.probe_enabled
    <3>1. todo'[s] = << <<"start">> >> \o << >>
      BY <1>1, <1>2, <2>1, <2>2, <2>5 DEF StartIfEnabled
    <3>2. Spreading(todo[s], cfg, << >>)'
      BY <2>4, <2>5, <3>1 DEF Spreading, InForce
    <3>3. << >> \in Seq(Work)
      OBVIOUS
    <3> QED
      BY <2>4, <3>2, <3>3 DEF OnItsWay, Bringing
  <2>6. CASE ~cfg.probe_enabled
    <3>1. todo'[s] = << >>
      BY <1>1, <1>2, <2>1, <2>2, <2>6 DEF StartIfEnabled
    <3> QED
      BY <1>4, <1>5, <2>3, <2>4, <3>1 DEF history
  <2> QED
    BY <2>5, <2>6
<1>10. CASE todo[s] = << >>
  BY <1>10, StepIs
<1> QED
  BY <1>6, <1>8, <1>9, <1>10, <1>12, <1>13, <1>14, <1>15, <1>16 DEF RestOf

(* A step of a call that has a patch to merge.                             *)
LEMMA SendOn ==
  ASSUME LoopInv, ConfigInv, NEW s \in Callers, Step(s), Sending(todo[s])
  PROVE  OnItsWay(todo[s])'
<1>1. \A more : Continue(s, more) => todo'[s] = more \o Tail(todo[s])
  BY DEF Continue, ConfigInv
<1>2. Paced /\ InstallFits(appCfg) /\ appCfg \in Configs
  BY DEF Sending, ConfigInv
<1>3. ASSUME NEW cfg \in Configs, NEW rest \in Seq(Work),
             todo'[s] = SetConfig(cfg) \o rest,
             UNCHANGED <<configs, settings, flags, loop>>, RestOf(cfg, rest)', InstallFits(cfg)'
      PROVE  OnItsWay(todo[s])'
  <2>1. Paced'
    BY <1>2, <1>3 DEF Paced, Interval, configs, flags
  <2> QED
    BY <1>3, <2>1 DEF OnItsWay, Bringing, Spreading
<1>4. ASSUME NEW patch \in Asks, todo[s] = << <<"merge", patch>>, <<"read_back">> >>,
             DOMAIN patch \subseteq OpsKeys
      PROVE  OnItsWay(todo[s])'
  <2> DEFINE back == <<"read_back">>
             merge == <<"merge", patch>>
  <2>1. merge \in Work /\ back \in Work /\ merge[1] = "merge" /\ merge[2] = patch
    BY IsWork
  <2>2. Worded(patch) /\ MergePatch(appCfg, patch) \in Configs
    BY <1>2, AsksAreWorded, MergedIsKept
  <2>10. PICK cfg \in Configs : cfg = MergePatch(appCfg, patch)
    BY <2>2
  <2>3. Head(todo[s]) = merge /\ Tail(todo[s]) = <<back>>
    BY <1>4, <2>1
  <2>4. Merge(s) /\ Arg(s) = patch
    BY <2>1, <2>3, StepIs DEF At1, Arg
  <2>5. todo'[s] = SetConfig(cfg) \o <<back>>
    BY <1>1, <2>3, <2>4, <2>10 DEF Merge
  <2>6. <<back>> \in Seq(Work)
    BY <2>1, ShortSequences
  <2>7. RestOf(cfg, <<back>>)'
    BY DEF RestOf
  <2>8. InstallFits(cfg)'
    BY <1>2, <1>4, <2>2, <2>4, <2>10, PatchLeavesInstall DEF Merge, InstallFits
  <2>9. UNCHANGED <<configs, settings, flags, loop>>
    BY <2>4 DEF Merge
  <2> QED
    BY <1>3, <2>2, <2>5, <2>6, <2>7, <2>8, <2>9
<1>5. ASSUME NEW patch \in Asks, todo[s] = << <<"import", patch>> >>, hostInstall = Unset
      PROVE  OnItsWay(todo[s])'
  <2>1. MergePatch(appCfg, patch) \in Configs
    BY <1>2, <1>5, AsksAreWorded, MergedIsKept
  <2>8. PICK cfg \in Configs : cfg = MergePatch(appCfg, patch)
    BY <2>1
  <2> DEFINE view == OpsSettingsView(cfg)
             rest == << <<"settings", view>> >>
  <2>2. At1(s) = "import" /\ Arg(s) = patch /\ Tail(todo[s]) = << >>
    BY <1>5 DEF At1, Arg
  <2>3. MergeImport(s)
    BY <2>2, StepIs
  <2>4. <<"settings", view>> \in Work
    BY ViewIsSettings, IsWork
  <2>5. rest \in Seq(Work) /\ SetConfig(cfg) \o rest \in Seq(Work)
    BY <2>4, SetConfigIsWork, ShortSequences, ConcatProperties
  <2>6. todo'[s] = SetConfig(cfg) \o rest
    <3>1. todo'[s] = (SetConfig(cfg) \o rest) \o << >>
      BY <1>1, <2>2, <2>3, <2>8 DEF MergeImport
    <3> HIDE DEF rest
    <3> QED
      BY <2>5, <3>1, ConcatEmptySeq
  <2>7. RestOf(cfg, rest)' /\ InstallFits(cfg)'
    BY <1>5, <2>3 DEF RestOf, InstallFits, MergeImport, history, OpsSettingsView
  <2> QED
    BY <1>3, <2>3, <2>5, <2>6, <2>7 DEF MergeImport
<1>6. ASSUME todo[s] = << <<"merge", settings>>, <<"start_if_enabled">> >>, DOMAIN settings # {}
      PROVE  OnItsWay(todo[s])'
  <2> DEFINE start == <<"start_if_enabled">>
             merge == <<"merge", settings>>
  <2>1. settings \in Settings /\ settings \in Asks
    BY <1>6 DEF ConfigInv, Asks
  <2>2. merge \in Work /\ start \in Work /\ merge[1] = "merge" /\ merge[2] = settings
    BY <2>1, IsWork
  <2>3. PICK cfg \in Configs : cfg = MergePatch(appCfg, settings)
    BY <1>2, <2>1, AsksAreWorded, MergedIsKept
  <2>4. Head(todo[s]) = merge /\ Tail(todo[s]) = <<start>>
    BY <1>6, <2>2
  <2>5. Merge(s) /\ Arg(s) = settings
    BY <2>2, <2>4, StepIs DEF At1, Arg
  <2>6. todo'[s] = SetConfig(cfg) \o <<start>>
    BY <1>1, <2>3, <2>4, <2>5 DEF Merge
  <2>7. <<start>> \in Seq(Work)
    BY <2>2, ShortSequences
  <2>8. SettingsFit(cfg) /\ InstallPart(cfg) = InstallPart(appCfg)
    BY <1>2, <2>1, <2>3, SettingsComeBack DEF SettingsFit
  <2>9. UNCHANGED <<configs, settings, flags, loop>>
    BY <2>5 DEF Merge
  <2>10. RestOf(cfg, <<start>>)' /\ InstallFits(cfg)'
    BY <1>2, <2>5, <2>8, <2>9 DEF RestOf, SettingsFit, InstallFits, Merge
  <2> QED
    BY <1>3, <2>3, <2>6, <2>7, <2>9, <2>10
<1> QED
  BY <1>4, <1>5, <1>6 DEF Sending

(* Every step of a call keeps CallsInv.                                    *)
LEMMA StepCalls ==
  ASSUME LoopInv, ConfigInv, CallsInv, NEW s \in Callers, Step(s)
  PROVE  CallsInv'
<1>1. todo[s] # << >> /\ \E more \in Seq(Work) : Continue(s, more)
  BY Continues
<1>2. \A k \in Callers : k # s => todo'[k] = todo[k]
  BY <1>1 DEF Continue, ConfigInv
<1>3. settled' = settled /\ (hostInstall' = hostInstall \/ hostInstall' = Unset)
  BY DEF Step, Merge, MergeImport, ReadBack, SetSettings, SaveNow, Load, Overlay, StartIfEnabled, StoreApp,
         StoreEngine, UpdateConfig, Start, Stop, history
<1>4. CASE settled
  <2>1. Alone(s) /\ OnItsWay(todo[s])
    BY <1>1, <1>4 DEF CallsInv, Alone
  <2>2. OnItsWay(todo[s])'
    <3>1. CASE Sending(todo[s])
      BY <3>1, SendOn
    <3>2. CASE ~Sending(todo[s])
      <4>1. PICK cfg \in Configs, rest \in Seq(Work) : Bringing(todo[s], cfg, rest)
        BY <2>1, <3>2 DEF OnItsWay
      <4>2. CASE todo[s] # rest
        BY <4>1, <4>2, BringOn DEF Bringing
      <4>3. CASE todo[s] = rest
        <5>1. \/ Spreading(todo[s], cfg, rest) /\ InForce(cfg)
              \/ \E front \in Seq(Work) \ {<< >>} : rest = front \o rest
          BY <4>1, <4>3, IsWork, SetConfigIsWork, ShortSequences DEF Bringing, Spreading, SetConfig
        <5>2. \A front \in Seq(Work) : rest = front \o rest => front = << >>
          BY ConcatProperties, LenProperties, EmptySeq
        <5> QED
          BY <4>1, <4>3, <5>1, <5>2, RestOn DEF Bringing
      <4> QED
        BY <4>2, <4>3
    <3> QED
      BY <3>1, <3>2
  <2>3. Alone(s)'
    BY <1>2, <2>1 DEF Alone
  <2> QED
    BY <1>3, <1>4, <2>2, <2>3 DEF CallsInv
<1>5. CASE ~settled /\ hostInstall # Unset
  <2>1. /\ Alone(s) /\ InstallFits(appCfg)
        /\ todo[s] = << <<"save">> >> \/ todo[s] = << <<"stop">>, <<"save">> >>
    BY <1>1, <1>5 DEF CallsInv, Alone
  <2>3. /\ todo'[s] \in {<< >>, << <<"save">> >>, << <<"stop">>, <<"save">> >>}
        /\ appCfg' = appCfg /\ hostInstall' = hostInstall
    <3> DEFINE save == <<"save">>
    <3>1. CASE todo[s] = <<save>>
      <4>1. SaveNow(s) /\ Tail(todo[s]) = << >>
        BY <3>1, StepIs DEF At1
      <4> QED
        BY <4>1 DEF SaveNow, Continue, ConfigInv, configs
    <3>2. CASE todo[s] = << <<"stop">>, save >>
      <4>1. Stop(s) /\ Tail(todo[s]) = <<save>> /\ <<save>> \in Seq(Work)
        BY <3>2, StepIs, IsWork DEF At1
      <4>2. todo'[s] = << >> \o <<save>>
        BY <4>1 DEF Stop, Continue, ConfigInv
      <4>3. todo'[s] = <<save>>
        BY <4>1, <4>2, ConcatEmptySeq
      <4> QED
        BY <4>1, <4>3 DEF Stop, configs, history
    <3> QED
      BY <2>1, <3>1, <3>2
  <2>4. Alone(s)' /\ InstallFits(appCfg)'
    BY <1>2, <2>1, <2>3 DEF Alone, InstallFits
  <2> QED
    BY <1>3, <1>5, <2>3, <2>4 DEF CallsInv
<1>6. CASE ~settled /\ hostInstall = Unset
  BY <1>3, <1>6 DEF CallsInv
<1> QED
  BY <1>4, <1>5, <1>6

(* A call that has nothing left to do has brought its configuration.       *)
LEMMA Empties ==
  ASSUME NEW cfg \in Configs, NEW rest \in Seq(Work), Spreading(<< >>, cfg, rest)
  PROVE  rest = << >> /\ InForce(cfg)
<1>1. /\ SetConfig(cfg) \o rest # << >>
      /\ << <<"engine", cfg>>, <<"probe", cfg>> >> \o rest # << >>
      /\ << <<"probe", cfg>> >> \o rest # << >>
  <2> DEFINE app == <<"app", cfg>>  engine == <<"engine", cfg>>  probe == <<"probe", cfg>>
  <2>1. app \in Work /\ engine \in Work /\ probe \in Work
    BY IsWork
  <2> HIDE DEF app, engine, probe
  <2>2. /\ <<app, engine, probe>> \o rest # << >> /\ <<engine, probe>> \o rest # << >>
        /\ <<probe>> \o rest # << >>
    BY <2>1, FrontThree, FrontTwo, Front
  <2> QED
    BY <2>2 DEF SetConfig, app, engine, probe
<1>2. /\ << <<"stop">> >> \o rest # << >> /\ << <<"start">> >> \o rest # << >>
      /\ << <<"stop">>, <<"start">> >> \o rest # << >>
  <2> DEFINE stop == <<"stop">>  start == <<"start">>
  <2>1. stop \in Work /\ start \in Work
    BY IsWork
  <2> HIDE DEF stop, start
  <2>2. <<stop>> \o rest # << >> /\ <<start>> \o rest # << >> /\ <<stop, start>> \o rest # << >>
    BY <2>1, FrontTwo, Front
  <2> QED
    BY <2>2 DEF stop, start
<1> QED
  BY <1>1, <1>2 DEF Spreading

(* When nobody has anything left to do, the latest call has brought its own.*)
LEMMA NothingToDo ==
  ASSUME ConfigInv, CallsInv, Idle, settled
  PROVE  \E cfg \in Configs, rest \in Seq(Work) : Bringing(<< >>, cfg, rest)
<1>1. PICK s \in Callers : OnItsWay(todo[s]) /\ todo[s] = << >>
  BY DEF CallsInv, Idle
<1>2. ~Sending(todo[s])
  BY <1>1 DEF Sending
<1> QED
  BY <1>1, <1>2 DEF OnItsWay

(* Where no call is under way, the loop runs at the interval it should,    *)
(* and the install fields are those of the latest registration.            *)
LEMMA AtRest ==
  ASSUME ConfigInv, PaceInv, CallsInv, Idle
  PROVE  Paced /\ InstallFits(appCfg)
<1>1. Paced
  BY DEF PaceInv, StopWaits, Waiting, Idle
<1>2. CASE settled
  <2>3. PICK cfg \in Configs, rest \in Seq(Work) : Bringing(<< >>, cfg, rest)
    BY <1>2, NothingToDo
  <2>4. appCfg = cfg
    BY <2>3, Empties DEF Bringing, InForce, Agree
  <2> QED
    BY <1>1, <2>3, <2>4 DEF Bringing
<1>3. CASE ~settled
  BY <1>1, <1>3 DEF CallsInv, InstallFits
<1> QED
  BY <1>2, <1>3 DEF CallsInv
(* A call that begins: alone, if no other is under way.                    *)
LEMMA BeginCalls ==
  ASSUME ConfigInv, PaceInv, CallsInv, NEW s \in Callers, NEW work, NEW install,
         Begin(s, work, install),
         Idle => \/ work # << <<"stop">>, <<"save">> >> /\ OnItsWay(todo[s])'
                 \/ work = << <<"stop">>, <<"save">> >> /\ install = hostInstall
  PROVE  CallsInv'
<1>1. settled' = (Idle /\ work # << <<"stop">>, <<"save">> >>) /\ (~Idle => hostInstall' = Unset)
  BY DEF Begin
<1>2. CASE ~Idle
  BY <1>1, <1>2 DEF CallsInv
<1>3. CASE Idle
  <2>1. Paced /\ InstallFits(appCfg)
    BY <1>3, AtRest
  <2>2. todo'[s] = work /\ appCfg' = appCfg /\ hostInstall' = install
    BY <1>3 DEF Begin, ConfigInv, configs
  <2>3. Alone(s)'
    BY <1>3 DEF Begin, Idle, Alone, ConfigInv
  <2>4. CASE work # << <<"stop">>, <<"save">> >> /\ OnItsWay(todo[s])'
    BY <1>1, <1>3, <2>3, <2>4 DEF CallsInv
  <2>5. CASE work = << <<"stop">>, <<"save">> >> /\ install = hostInstall
    <3>1. InstallFits(appCfg)'
      BY <2>1, <2>2, <2>5 DEF InstallFits
    <3> QED
      BY <1>1, <1>3, <2>2, <2>3, <2>5, <3>1 DEF CallsInv
  <2> QED
    BY <1>3, <2>4, <2>5
<1> QED
  BY <1>2, <1>3

(* Every call that begins keeps CallsInv.                                  *)
LEMMA CallCalls ==
  ASSUME ConfigInv, PaceInv, CallsInv, NEW s \in Callers,
         \/ \E patch \in Patches[s] : Save(s, patch)
         \/ \E patch \in Imports[s] : Import(s, patch)
         \/ \E raw \in Yamls[s] : handleRegister(s, raw)
         \/ Shutdown(s)
  PROVE  CallsInv'
<1>1. ASSUME NEW work, NEW install, Begin(s, work, install), Idle
      PROVE  /\ todo'[s] = work /\ hostInstall' = install /\ Paced'
             /\ InstallFits(appCfg) /\ appCfg' = appCfg
             /\ UNCHANGED <<configs, settings, flags, loop>>
  <2>1. Paced /\ InstallFits(appCfg)
    BY <1>1, AtRest
  <2> QED
    BY <1>1, <2>1 DEF Begin, ConfigInv, Paced, Interval, configs, flags
<1>2. ASSUME NEW patch \in Patches[s], Save(s, patch) PROVE CallsInv'
  <2> DEFINE work == << <<"merge", patch>>, <<"read_back">> >>
  <2>1. Begin(s, work, hostInstall)
    BY <1>2 DEF Save
  <2>2. work # << <<"stop">>, <<"save">> >>
    OBVIOUS
  <2>3. patch \in Asks /\ DOMAIN patch \subseteq OpsKeys
    BY AsksInclude, InputsAssumption
  <2>4. ASSUME Idle PROVE Sending(todo[s])'
    <3>1. todo'[s] = work /\ Paced' /\ InstallFits(appCfg)'
      BY <1>1, <2>1, <2>4 DEF InstallFits
    <3> QED
      BY <2>3, <3>1 DEF Sending
  <2> HIDE DEF work
  <2> QED
    BY <2>1, <2>2, <2>4, BeginCalls DEF OnItsWay
<1>3. ASSUME NEW patch \in Imports[s], Import(s, patch) PROVE CallsInv'
  <2> DEFINE work == << <<"import", patch>> >>
  <2>1. Begin(s, work, Unset)
    BY <1>3 DEF Import
  <2>2. work # << <<"stop">>, <<"save">> >>
    OBVIOUS
  <2>3. patch \in Asks
    BY AsksInclude
  <2>4. ASSUME Idle PROVE Sending(todo[s])'
    <3>1. todo'[s] = work /\ Paced' /\ hostInstall' = Unset /\ InstallFits(appCfg)'
      BY <1>1, <2>1, <2>4 DEF InstallFits
    <3> QED
      BY <2>3, <3>1 DEF Sending
  <2> HIDE DEF work
  <2> QED
    BY <2>1, <2>2, <2>4, BeginCalls DEF OnItsWay
<1>4. ASSUME NEW raw \in Yamls[s], handleRegister(s, raw) PROVE CallsInv'
  <2> DEFINE cfg  == ParseYAML(raw)
             rest == << <<"load">>, <<"overlay">>, <<"start_if_enabled">> >>
             work == SetConfig(cfg) \o rest
  <2>1. cfg \in Configs
    BY InputsAssumption, ParsedIsKept
  <2>2. Begin(s, work, InstallPart(cfg))
    BY <1>4 DEF handleRegister
  <2>3. rest \in Seq(Work) /\ SetConfig(cfg) \in Seq(Work) /\ Len(SetConfig(cfg)) = 3
    BY <2>1, IsWork, ShortSequences, SetConfigIsWork DEF SetConfig
  <2>4. work # << <<"stop">>, <<"save">> >>
    <3>1. Len(work) = Len(SetConfig(cfg)) + Len(rest)
      BY <2>3, ConcatProperties
    <3> HIDE DEF rest, work
    <3>2. Len(work) # 2
      BY <2>3, <3>1
    <3> QED
      BY <3>2
  <2>5. ASSUME Idle PROVE OnItsWay(todo[s])'
    <3>1. /\ todo'[s] = SetConfig(cfg) \o rest /\ Paced'
          /\ hostInstall' = InstallPart(cfg)
      BY <1>1, <2>2, <2>5
    <3>2. RestOf(cfg, rest)' /\ InstallFits(cfg)'
      BY <3>1 DEF RestOf, InstallFits
    <3> QED
      BY <2>1, <2>3, <3>1, <3>2 DEF OnItsWay, Bringing, Spreading
  <2> HIDE DEF work
  <2> QED
    BY <2>2, <2>4, <2>5, BeginCalls
<1>5. ASSUME Shutdown(s) PROVE CallsInv'
  <2> DEFINE work == << <<"stop">>, <<"save">> >>
  <2>1. Begin(s, work, hostInstall)
    BY <1>5 DEF Shutdown
  <2> QED
    BY <2>1, BeginCalls
<1> QED
  BY <1>2, <1>3, <1>4, <1>5

-----------------------------------------------------------------------------
(* What the file got once the latest save or import was through is what    *)
(* any later load and save find: nothing under way brings other settings.  *)
Harmless(view) == {w \in Work : /\ w[1] \notin {"import", "read_back"}
                                /\ w[1] = "settings" => Compact(w[2]) = view}

FiledInv ==
  filed # Unset => /\ saved = filed /\ Compact(settings) = filed
                   /\ todo \in [Callers -> Seq(Harmless(filed))]

(* Most of what a call does has nothing to do with the settings it keeps.  *)
LEMMA HarmlessIs ==
  ASSUME NEW view
  PROVE  /\ \A cfg \in Configs : SetConfig(cfg) \in Seq(Harmless(view))
         /\ \A patch \in Asks : <<"merge", patch>> \in Harmless(view)
         /\ \A set \in Settings : Compact(set) = view => <<"settings", set>> \in Harmless(view)
         /\ <<"save">> \in Harmless(view) /\ <<"load">> \in Harmless(view)
         /\ <<"overlay">> \in Harmless(view) /\ <<"start_if_enabled">> \in Harmless(view)
         /\ <<"start">> \in Harmless(view) /\ <<"stop">> \in Harmless(view)
<1>1. ASSUME NEW cfg \in Configs PROVE SetConfig(cfg) \in Seq(Harmless(view))
  <2>1. /\ <<"app", cfg>> \in Harmless(view) /\ <<"engine", cfg>> \in Harmless(view)
        /\ <<"probe", cfg>> \in Harmless(view)
    BY IsWork DEF Harmless
  <2> QED
    BY <2>1 DEF SetConfig
<1> QED
  BY <1>1, IsWork DEF Harmless

(* A save that finds nobody under way sets filed to what it wrote.         *)
LEMMA StoreFiles ==
  ASSUME Store, settings' = settings, Idle', ConfigInv'
  PROVE  FiledInv'
<1>1. saved' = filed' /\ Compact(settings)' = filed'
  BY DEF Store, Compact, Blank
<1>2. todo' = [s \in Callers |-> << >>]
  BY DEF Idle, ConfigInv
<1>3. todo' \in [Callers -> Seq(Harmless(filed'))]
  BY <1>2
<1> QED
  BY <1>1, <1>3 DEF FiledInv

(* A step puts no other settings in the way of those in the file ...       *)
LEMMA StepHarmless ==
  ASSUME ConfigInv, FiledInv, filed # Unset, NEW s \in Callers, Step(s)
  PROVE  /\ \E more \in Seq(Harmless(filed)) : Continue(s, more)
         /\ Compact(settings') = filed /\ (saved' = filed)
<1>1. todo[s] # << >> /\ todo[s] \in Seq(Harmless(filed))
  BY Continues DEF FiledInv
<1>2. Head(todo[s]) \in Harmless(filed) /\ << >> \in Seq(Harmless(filed))
  BY <1>1
<1>3. /\ Head(todo[s])[1] \notin {"import", "read_back"} /\ Head(todo[s]) \in Work
      /\ Head(todo[s])[1] = "settings" => Compact(Arg(s)) = filed
  BY <1>2 DEF Harmless, Arg
<1>4. saved = filed /\ Compact(settings) = filed /\ settings \in Settings
  BY DEF FiledInv, ConfigInv
<1>5. CASE Merge(s)
  <2>1. MergePatch(appCfg, Arg(s)) \in Configs
    BY <1>3, <1>5, Reads, AsksAreWorded, MergedIsKept DEF Merge, At, Arg, ConfigInv
  <2> QED
    BY <1>4, <1>5, <2>1, HarmlessIs DEF Merge
<1>6. CASE MergeImport(s) \/ ReadBack(s)
  BY <1>3, <1>6 DEF MergeImport, ReadBack, At
<1>7. CASE SetSettings(s)
  BY <1>2, <1>3, <1>4, <1>7 DEF SetSettings, At
<1>8. CASE SaveNow(s)
  BY <1>2, <1>4, <1>8 DEF SaveNow, Store
<1>9. CASE StoreApp(s) \/ StoreEngine(s) \/ Start(s) \/ Stop(s)
  BY <1>2, <1>4, <1>9 DEF StoreApp, StoreEngine, Start, Stop
<1>10. CASE Load(s)
  <2> DEFINE more == IF saved = NoFile THEN << >> ELSE << <<"settings", saved>> >>
  <2>1. saved # NoFile => <<"settings", saved>> \in Harmless(filed)
    BY <1>4, CompactIs, HarmlessIs
  <2>2. more \in Seq(Harmless(filed))
    BY <1>2, <2>1, ShortSequences
  <2> QED
    BY <1>4, <1>10, <2>2 DEF Load
<1>11. CASE Overlay(s)
  <2> DEFINE more == IF DOMAIN settings = {} THEN << >> ELSE << <<"merge", settings>> >>
  <2>1. <<"merge", settings>> \in Harmless(filed)
    BY <1>4, HarmlessIs DEF Asks
  <2>2. more \in Seq(Harmless(filed))
    BY <1>2, <2>1, ShortSequences
  <2> QED
    BY <1>4, <1>11, <2>2 DEF Overlay
<1>12. CASE StartIfEnabled(s)
  <2> DEFINE more == IF appCfg.probe_enabled THEN << <<"start">> >> ELSE << >>
  <2>1. more \in Seq(Harmless(filed))
    BY <1>2, HarmlessIs, ShortSequences
  <2> QED
    BY <1>4, <1>12, <2>1 DEF StartIfEnabled
<1>13. CASE UpdateConfig(s)
  <2>1. << <<"start">> >> \in Seq(Harmless(filed)) /\ << <<"stop">> >> \in Seq(Harmless(filed))
        /\ << <<"stop">>, <<"start">> >> \in Seq(Harmless(filed))
    BY HarmlessIs, ShortSequences
  <2>2. Decision(Arg(s)) \in {<< >>, << <<"start">> >>, << <<"stop">> >>,
                              << <<"stop">>, <<"start">> >>}
    BY DEF Decision
  <2>3. Decision(Arg(s)) \in Seq(Harmless(filed))
    BY <1>2, <2>1, <2>2
  <2> QED
    BY <1>4, <1>13, <2>3 DEF UpdateConfig
<1> QED
  BY <1>5, <1>6, <1>7, <1>8, <1>9, <1>10, <1>11, <1>12, <1>13 DEF Step

(* ... so FiledInv is kept by a step of a call, ...                        *)
LEMMA StepFiled ==
  ASSUME ConfigInv, FiledInv, NEW s \in Callers, Step(s), ConfigInv'
  PROVE  FiledInv'
<1>1. CASE SaveNow(s) /\ Store /\ Idle'
  BY <1>1, StoreFiles DEF SaveNow
<1>2. CASE ~(SaveNow(s) /\ Store /\ Idle')
  <2>1. filed' = filed
    BY <1>2 DEF Step, Merge, MergeImport, ReadBack, SetSettings, SaveNow, Store, Load, Overlay,
                StartIfEnabled, StoreApp, StoreEngine, UpdateConfig, Start, Stop, history
  <2>2. ASSUME filed # Unset PROVE FiledInv'
    <3>1. PICK more \in Seq(Harmless(filed)) : Continue(s, more)
      BY <2>2, StepHarmless
    <3>2. todo \in [Callers -> Seq(Harmless(filed))] /\ todo[s] # << >>
      BY <2>2, Continues DEF FiledInv
    <3>3. Tail(todo[s]) \in Seq(Harmless(filed))
      BY <3>2
    <3>4. more \o Tail(todo[s]) \in Seq(Harmless(filed))
      BY <3>3, ConcatProperties
    <3>5. todo' \in [Callers -> Seq(Harmless(filed))]
      BY <3>1, <3>2, <3>4 DEF Continue
    <3>6. saved' = filed /\ Compact(settings') = filed
      BY <2>2, StepHarmless
    <3> QED
      BY <2>1, <3>5, <3>6 DEF FiledInv, Compact, Blank
  <2> QED
    BY <2>1, <2>2 DEF FiledInv
<1> QED
  BY <1>1, <1>2

(* ... by a call that begins, ...                                          *)
LEMMA CallFiled ==
  ASSUME ConfigInv, FiledInv, NEW s \in Callers,
         \/ \E patch \in Patches[s] : Save(s, patch)
         \/ \E patch \in Imports[s] : Import(s, patch)
         \/ \E raw \in Yamls[s] : handleRegister(s, raw)
         \/ Shutdown(s)
  PROVE  FiledInv'
<1>1. ASSUME NEW work, NEW install, Begin(s, work, install), filed' = filed,
             filed # Unset => work \in Seq(Harmless(filed))
      PROVE  FiledInv'
  <2>1. /\ UNCHANGED <<settings, saved>> /\ todo' = [todo EXCEPT ![s] = work]
    BY <1>1 DEF Begin
  <2> QED
    BY <1>1, <2>1 DEF FiledInv, Compact, Blank
<1>2. CASE \/ \E patch \in Patches[s] : Save(s, patch)
           \/ \E patch \in Imports[s] : Import(s, patch)
  BY <1>2 DEF Save, Import, FiledInv
<1>3. ASSUME NEW raw \in Yamls[s], handleRegister(s, raw) PROVE FiledInv'
  <2> DEFINE cfg  == ParseYAML(raw)
             rest == << <<"load">>, <<"overlay">>, <<"start_if_enabled">> >>
             work == SetConfig(cfg) \o rest
  <2>1. cfg \in Configs
    BY InputsAssumption, ParsedIsKept
  <2>2. rest \in Seq(Harmless(filed)) /\ SetConfig(cfg) \in Seq(Harmless(filed))
    BY <2>1, HarmlessIs, ShortSequences
  <2>3. work \in Seq(Harmless(filed))
    BY <2>2, ConcatProperties
  <2>4. Begin(s, work, InstallPart(cfg)) /\ filed' = filed
    BY <1>3 DEF handleRegister
  <2> QED
    BY <1>1, <2>3, <2>4
<1>4. ASSUME Shutdown(s) PROVE FiledInv'
  <2>1. << <<"stop">>, <<"save">> >> \in Seq(Harmless(filed))
    BY HarmlessIs, ShortSequences
  <2> QED
    BY <1>1, <1>4, <2>1 DEF Shutdown
<1> QED
  BY <1>2, <1>3, <1>4

(* ... and by every step.                                                  *)
LEMMA NextFiled == ConfigInv /\ FiledInv /\ [Next]_vars => FiledInv'
<1> SUFFICES ASSUME ConfigInv, FiledInv, [Next]_vars PROVE FiledInv'
  OBVIOUS
<1>1. ConfigInv'
  BY NextConfig
<1>2. CASE UNCHANGED <<settings, saved, todo, filed>>
  BY <1>2 DEF FiledInv, Compact, Blank
<1>3. CASE TimerSave /\ Idle'
  BY <1>1, <1>3, StoreFiles DEF TimerSave
<1>4. CASE TimerSave /\ ~Idle'
  BY <1>4 DEF TimerSave, Store, FiledInv, Compact, Blank
<1>5. CASE UNCHANGED vars
  BY <1>2, <1>5 DEF vars, history
<1>6. CASE \E l \in Loops : LoopStep(l)
  BY <1>2, <1>6 DEF LoopStep, Fire, RunEnds, Leave, others, history
<1> QED
  BY <1>1, <1>3, <1>4, <1>5, <1>6, CallFiled, StepFiled DEF Next

-----------------------------------------------------------------------------
(* Types.                                                                  *)
Typed == /\ \A l \in Loops : loop[l].every \in Nat
         /\ shut \in BOOLEAN

ControlInv == LoopInv /\ ConfigInv /\ Typed /\ PaceInv /\ CallsInv /\ FiledInv

(* The whole invariant holds at the start ...                              *)
LEMMA InitControl == Init => ControlInv
<1> SUFFICES ASSUME Init PROVE ControlInv
  OBVIOUS
<1>1. Typed
  BY DEF Init, Typed, FreeSlot
<1>2. PaceInv /\ CallsInv /\ FiledInv
  BY DEF Init, PaceInv, Paced, CallsInv, FiledInv
<1> QED
  BY <1>1, <1>2, InitLoop, InitConfig DEF ControlInv

(* (the intervals are numbers, shut a Boolean)                             *)
LEMMA NextTyped == LoopInv /\ ConfigInv /\ Typed /\ [Next]_vars => Typed'
<1> SUFFICES ASSUME LoopInv, ConfigInv, Typed, [Next]_vars PROVE Typed'
  OBVIOUS
<1>1. CASE UNCHANGED <<loop, shut>>
  BY <1>1 DEF Typed
<1>2. ASSUME NEW s \in Callers, Start(s), MayStart PROVE Typed'
  <2>1. PICK l \in Loops :
          loop' = [loop EXCEPT ![l] = [stage |-> "wait", stop |-> FALSE,
                                       every |-> Interval(probeCfg)]]
    BY <1>2 DEF Start
  <2>2. Interval(probeCfg) \in Nat
    BY ConfigReads DEF ConfigInv
  <2>3. \A k \in Loops :
          loop'[k].every = IF k = l THEN Interval(probeCfg) ELSE loop[k].every
    BY <2>1 DEF LoopInv, Slots
  <2> QED
    BY <1>2, <2>2, <2>3 DEF Typed, Start, history
<1>3. ASSUME NEW s \in Callers, Stop(s) PROVE Typed'
  <2>1. \A k \in Loops : loop'[k].every = loop[k].every
    <3>1. CASE running /\ ~UNCHANGED <<flags, loop>>
      <4>1. loop' = [loop EXCEPT ![stopCh] = [loop[stopCh] EXCEPT !.stop = TRUE]]
        BY <1>3, <3>1 DEF Stop
      <4>2. \A k \in Loops :
              loop'[k] = IF k = stopCh THEN [loop[stopCh] EXCEPT !.stop = TRUE] ELSE loop[k]
        BY <4>1 DEF LoopInv, Slots
      <4>3. ASSUME NEW k \in Loops PROVE [loop[k] EXCEPT !.stop = TRUE].every = loop[k].every
        <5>1. loop[k] = [stage |-> loop[k].stage, stop |-> loop[k].stop, every |-> loop[k].every]
          BY DEF LoopInv, Slots
        <5>2. PICK r : r = loop[k]
          OBVIOUS
        <5>3. [r EXCEPT !.stop = TRUE].every = r.every
          BY <5>1, <5>2
        <5> QED
          BY <5>2, <5>3
      <4> QED
        BY <4>2, <4>3
    <3> QED
      BY <1>3, <3>1 DEF Stop
  <2> QED
    BY <1>3, <2>1 DEF Typed, Stop, history
<1>4. ASSUME NEW l \in Loops, LoopStep(l) PROVE Typed'
  <2>1. \A k \in Loops : loop'[k].every = loop[k].every \/ loop'[k].every = 0
    BY <1>4 DEF LoopStep, Fire, RunEnds, Leave, FreeSlot, LoopInv, Slots
  <2> QED
    BY <1>4, <2>1 DEF Typed, LoopStep, Fire, RunEnds, Leave, others, history
<1>5. ASSUME NEW s \in Callers, Step(s), ~(Start(s) /\ MayStart), ~Stop(s)
      PROVE  UNCHANGED <<loop, shut>>
  BY <1>5, StartsAtPace DEF Step, Merge, MergeImport, ReadBack, SetSettings, SaveNow, Load, Overlay,
       StartIfEnabled, StoreApp, StoreEngine, UpdateConfig, Start, history
<1>6. ASSUME NEW s \in Callers, \/ \E patch \in Patches[s] : Save(s, patch)
                                \/ \E patch \in Imports[s] : Import(s, patch)
                                \/ \E raw \in Yamls[s] : handleRegister(s, raw)
                                \/ Shutdown(s)
      PROVE  loop' = loop /\ shut' \in BOOLEAN
  BY <1>6 DEF Typed, Save, Import, handleRegister, Shutdown, Begin
<1>7. CASE TimerSave \/ UNCHANGED vars
  BY <1>1, <1>7 DEF TimerSave, vars, history
<1> QED
  BY <1>1, <1>2, <1>3, <1>4, <1>5, <1>6, <1>7 DEF Next, Typed

(* A call on its way stays on its way through a step that only moves loops. *)
LEMMA WayKept ==
  ASSUME UNCHANGED <<appCfg, engineCfg, probeCfg, settings, running, hostInstall, todo>>,
         Paced => Paced', NEW s \in Callers, OnItsWay(todo[s])
  PROVE  OnItsWay(todo[s])'
<1>1. PICK q : q = todo[s]
  OBVIOUS
<1>2. q = todo[s]'
  BY <1>1
<1>3. CASE Sending(q)
  <2>1. Sending(q)'
    BY <1>3 DEF Sending, Agree, InstallFits, SettingsFit, InForce
  <2> QED
    BY <2>1, <1>2 DEF OnItsWay
<1>4. ASSUME NEW cfg \in Configs, NEW rest \in Seq(Work), Bringing(q, cfg, rest)
      PROVE  OnItsWay(todo[s])'
  <2>1. RestOf(cfg, rest)'
    BY <1>4 DEF Bringing, RestOf, SettingsFit
  <2>2. InstallFits(cfg)'
    BY <1>4 DEF Bringing, InstallFits
  <2>3. Spreading(q, cfg, rest)'
    BY <1>4 DEF Bringing, Spreading, InForce, Agree
  <2> QED
    BY <2>1, <2>2, <2>3, <1>2 DEF OnItsWay, Bringing
<1> QED
  BY <1>1, <1>3, <1>4 DEF OnItsWay

(* ... and every step keeps it.                                            *)
LEMMA NextControl == ControlInv /\ [Next]_vars => ControlInv'
<1> SUFFICES ASSUME ControlInv, [Next]_vars PROVE ControlInv'
  OBVIOUS
<1> USE DEF ControlInv
<1>1. LoopInv' /\ ConfigInv' /\ PaceInv' /\ Typed' /\ FiledInv'
  BY StepLoop, NextConfig, NextPace, NextTyped, NextFiled
<1>2. CallsInv'
  <2>1. ASSUME NEW l \in Loops, LoopStep(l) PROVE CallsInv'
    <3>1. UNCHANGED <<configs, settings, flags, todo, history>> /\ (Paced => Paced')
      BY <2>1, LoopsKeepPace
    <3>2. ASSUME NEW s \in Callers, OnItsWay(todo[s]) PROVE OnItsWay(todo[s])'
      BY <3>1, <3>2, WayKept DEF configs, flags, history
    <3> QED
      BY <3>1, <3>2 DEF CallsInv, Alone, InstallFits, configs, history
  <2>2. CASE TimerSave \/ UNCHANGED vars
    <3>4. UNCHANGED <<configs, settings, flags, loop, todo, settled, hostInstall>>
      BY <2>2 DEF TimerSave, vars, history
    <3>1. ASSUME NEW s \in Callers, OnItsWay(todo[s]) PROVE OnItsWay(todo[s])'
      <4>1. Paced => Paced'
        BY <3>4 DEF Paced, Interval, configs, flags
      <4> QED
        BY <3>1, <3>4, <4>1, WayKept DEF configs, flags
    <3> QED
      BY <3>1, <3>4 DEF CallsInv, Alone, InstallFits, configs
  <2> QED
    BY <2>1, <2>2, CallCalls, StepCalls DEF Next
<1> QED
  BY <1>1, <1>2

(* It is an invariant.                                                     *)
LEMMA ControlHolds == Spec => []ControlInv
BY InitControl, NextControl, PTL DEF Spec

(* Types, for any threads, fields, inputs and loops.                       *)
THEOREM ControlType == Spec => []TypeOK
<1>1. ControlInv => TypeOK
  <2> SUFFICES ASSUME ControlInv PROVE TypeOK
    OBVIOUS
  <2>1. loop \in [Loops -> [stage : {"free", "wait", "run"}, stop : BOOLEAN, every : Nat]]
    BY DEF ControlInv, LoopInv, Slots, Typed
  <2> QED
    BY <2>1 DEF ControlInv, LoopInv, Slots, Typed, ConfigInv, CallsInv, TypeOK
<1> QED
  BY <1>1, ControlHolds, PTL

(* When the latest call was overlapped by no other and all have returned,  *)
(* the three copies of the configuration agree and the loop is the one     *)
(* they ask for - whatever happened, and overlapped, before that call.     *)
THEOREM LoopObeysConfig == Spec => []LoopMatchesConfig
<1>1. ControlInv => LoopMatchesConfig
  <2> SUFFICES ASSUME ControlInv, Idle, settled
               PROVE  /\ engineCfg = appCfg /\ probeCfg = appCfg
                      /\ running <=> appCfg.probe_enabled
                      /\ running => loop[stopCh].every = Interval(appCfg)
    BY DEF LoopMatchesConfig
  <2>1. PICK cfg \in Configs, rest \in Seq(Work) : Bringing(<< >>, cfg, rest)
    BY NothingToDo DEF ControlInv
  <2>2. InForce(cfg)
    BY <2>1, Empties DEF Bringing
  <2> QED
    BY <2>2 DEF InForce, Agree, Paced
<1> QED
  BY <1>1, ControlHolds, PTL

(* The console's settings that reached the state file outlive every        *)
(* registration, although each replaces memory by the file, and the host's *)
(* install fields outlive a save: whenever the latest call was overlapped  *)
(* by no other, whatever saves failed, timers fired and imports were lost  *)
(* before.                                                                 *)
THEOREM SettingsSurvive == Spec => []ConsoleSurvivesRegister
<1>1. ControlInv => ConsoleSurvivesRegister
  <2> SUFFICES ASSUME ControlInv, Idle, settled
               PROVE  /\ Applied(settings)
                      /\ filed # Unset => Applied(filed)
                      /\ hostInstall # Unset => InstallPart(appCfg) = hostInstall
    BY DEF ConsoleSurvivesRegister
  <2>1. PICK cfg \in Configs, rest \in Seq(Work) : Bringing(<< >>, cfg, rest)
    BY NothingToDo DEF ControlInv
  <2>2. rest = << >> /\ appCfg = cfg
    BY <2>1, Empties DEF Bringing, InForce, Agree
  <2>3. Applied(settings) /\ InstallFits(appCfg)
    BY <2>1, <2>2 DEF Bringing, RestOf, SettingsFit, Applied
  <2>4. ASSUME filed # Unset PROVE Applied(filed)
    <3>1. filed = Compact(settings) /\ settings \in Settings
      BY <2>4 DEF ControlInv, FiledInv, ConfigInv
    <3>2. \A f \in DOMAIN Compact(settings) :
            f \in DOMAIN settings /\ Compact(settings)[f] = settings[f]
      BY <3>1, CompactIs
    <3> QED
      BY <2>3, <3>1, <3>2 DEF Applied
  <2> QED
    BY <2>3, <2>4 DEF InstallFits
<1> QED
  BY <1>1, ControlHolds, PTL
=============================================================================
