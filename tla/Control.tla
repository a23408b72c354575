------------------------------- MODULE Control -------------------------------
(***************************************************************************)
(* How a configuration reaches the parts that use it, and the scheduled    *)
(* probe loop it starts, restarts and stops: App.SetConfig, handleRegister *)
(* and Shutdown of main.go, the console's settings save and import of      *)
(* internal/mgmt, and UpdateConfig, Start, Stop and loop of internal/probe.*)
(*                                                                         *)
(* A call runs on a thread of its own.  todo[s] is what is left of it, one *)
(* element per critical section (App.mu, Engine.mu, Persister.mu,          *)
(* Service.mu); nothing holds two calls apart, so their elements           *)
(* interleave.  A registration also replaces settings by what the state    *)
(* file holds of them, which need not be the latest.  A save of the file   *)
(* is one step here, and a ledger change may have it made at any time: its *)
(* own steps, and how two of them cross, are Persister's subject.          *)
(***************************************************************************)
EXTENDS Config, Sequences

CONSTANTS Callers,      \* threads that may be inside the plugin at once
          Loops,        \* bound: loop goroutines alive at once
          Patches,      \* what the console may save, by thread
          Imports,      \* settings a backup may carry, by thread
          Yamls,        \* texts the host may register with, by thread
          Intervals,    \* the intervals, in seconds, that may be asked for
          NoLoop,       \* the nil channel
          NoFile,       \* no state file, or none that can be read
          Unset         \* nothing is claimed

ASSUME ControlAssumption ==
  /\ {"probe_enabled", "probe_interval_seconds"} \subseteq Fields
  /\ NoLoop \notin Loops

(* The handler of a save drops all keys but the console's.                 *)
ASSUME InputsAssumption ==
  \A s \in Callers :
    /\ \A patch \in Patches[s] : Worded(patch) /\ DOMAIN patch \subseteq OpsKeys
    /\ \A patch \in Imports[s] : Worded(patch)
    /\ \A raw \in Yamls[s] : Sent(raw)

VARIABLES appCfg, engineCfg, probeCfg,
          settings,     \* the Persister's ops settings, empty until a save
          saved,        \* those in the state file
          running, stopCh,
          loop,         \* the loop goroutines
          todo,
          shut,         \* the host has called Shutdown (bound: it does so once)
          settled,      \* history: no call overlapped the latest one, and it was
                        \* not a Shutdown
          hostInstall,  \* history: the install fields of the latest registration,
                        \* unless the console replaced them since
          filed         \* history: the settings that the state file got once the
                        \* latest save or import was through

configs == <<appCfg, engineCfg, probeCfg>>
flags   == <<running, stopCh>>
history == <<shut, settled, hostInstall, filed>>
vars == <<configs, settings, saved, flags, loop, todo, history>>

AtLeast(t, least) == IF t < least THEN least ELSE t
Interval(cfg) == AtLeast(cfg.probe_interval_seconds, 30)

FreeSlot == [stage |-> "free", stop |-> FALSE, every |-> 0]
Alive(l) == loop[l].stage # "free"
Live(l)  == Alive(l) /\ ~loop[l].stop

TypeOK ==
  /\ running \in BOOLEAN /\ shut \in BOOLEAN /\ settled \in BOOLEAN
  /\ stopCh \in Loops \cup {NoLoop}
  /\ loop \in [Loops -> [stage : {"free", "wait", "run"}, stop : BOOLEAN, every : Nat]]
  /\ DOMAIN todo = Callers

Init ==
  /\ appCfg = DefaultConfig /\ engineCfg = DefaultConfig /\ probeCfg = DefaultConfig
  /\ settings = [f \in {} |-> Unset] /\ saved = NoFile
  /\ running = FALSE /\ stopCh = NoLoop
  /\ loop = [l \in Loops |-> FreeSlot]
  /\ todo = [s \in Callers |-> << >>]
  /\ shut = FALSE /\ settled = FALSE /\ hostInstall = Unset /\ filed = Unset

-----------------------------------------------------------------------------
(* The calls.                                                              *)

Idle == \A s \in Callers : todo[s] = << >>

SetConfig(cfg) == << <<"app", cfg>>, <<"engine", cfg>>, <<"probe", cfg>> >>

Begin(s, work, install) ==
  /\ todo[s] = << >>
  /\ todo' = [todo EXCEPT ![s] = work]
  /\ settled' = (Idle /\ work # << <<"stop">>, <<"save">> >>)
  /\ hostInstall' = IF Idle THEN install ELSE Unset
  /\ UNCHANGED <<configs, settings, saved, flags, loop>>

(* updateSettings; patches hold ops keys only, the handler drops the rest. *)
Save(s, patch) ==
  /\ Begin(s, << <<"merge", patch>>, <<"read_back">> >>, hostInstall)
  /\ filed' = Unset /\ UNCHANGED shut

(* ImportSnapshot, the part about settings.                                *)
Import(s, patch) ==
  /\ Begin(s, << <<"import", patch>> >>, Unset)
  /\ filed' = Unset /\ UNCHANGED shut

\* Slip: the settings are laid over the host's text before the file is read.
RegisterOverlaysFirst(s, raw) ==
  /\ Begin(s, SetConfig(ParseYAML(raw))
                \o << <<"overlay">>, <<"load">>, <<"start_if_enabled">> >>,
           InstallPart(ParseYAML(raw)))
  /\ UNCHANGED <<filed, shut>>

handleRegister(s, raw) ==
  /\ Begin(s, SetConfig(ParseYAML(raw))
                \o << <<"load">>, <<"overlay">>, <<"start_if_enabled">> >>,
           InstallPart(ParseYAML(raw)))
  /\ UNCHANGED <<filed, shut>>

Shutdown(s) ==
  /\ ~shut /\ shut' = TRUE
  /\ Begin(s, << <<"stop">>, <<"save">> >>, hostInstall)
  /\ UNCHANGED filed

-----------------------------------------------------------------------------
(* Their steps.                                                            *)

At(s, op) == todo[s] # << >> /\ Head(todo[s])[1] = op
Arg(s)    == Head(todo[s])[2]
Continue(s, more) == todo' = [todo EXCEPT ![s] = more \o Tail(@)]

(* MergePatch over what Config() returns at this moment.                   *)
Merge(s) ==
  /\ At(s, "merge")
  /\ Continue(s, SetConfig(MergePatch(appCfg, Arg(s))))
  /\ hostInstall' = IF Unreadable \in Range(Arg(s)) THEN Unset ELSE hostInstall
  /\ UNCHANGED <<configs, settings, saved, flags, loop, shut, settled, filed>>

MergeImport(s) ==
  /\ At(s, "import")
  /\ LET cfg == MergePatch(appCfg, Arg(s))
     IN Continue(s, SetConfig(cfg) \o << <<"settings", OpsSettingsView(cfg)>> >>)
  /\ UNCHANGED <<configs, settings, saved, flags, loop, history>>

ReadBack(s) ==
  /\ At(s, "read_back")
  /\ Continue(s, << <<"settings", OpsSettingsView(appCfg)>>, <<"save">> >>)
  /\ UNCHANGED <<configs, settings, saved, flags, loop, history>>

SetSettings(s) ==
  /\ At(s, "settings")
  /\ settings' = Arg(s)
  /\ Continue(s, << >>)
  /\ UNCHANGED <<configs, saved, flags, loop, history>>

(* SaveNow writes no blank texts.                                          *)
Blank(view) ==
  {f \in DOMAIN view \ (Counts \cup SparePool \cup Pauses \cup Switches) : view[f] = ""}

Compact(view) == Restrict(view, DOMAIN view \ Blank(view))

Store ==
  /\ saved' = Compact(settings)
  /\ filed' = IF Idle' THEN Compact(settings) ELSE filed

(* The handler ignores the error of a save that fails, and nobody tries    *)
(* again.                                                                  *)
SaveNow(s) ==
  /\ At(s, "save")
  /\ Continue(s, << >>)
  /\ Store \/ UNCHANGED <<saved, filed>>
  /\ UNCHANGED <<configs, settings, flags, loop, shut, settled, hostInstall>>

(* The timer that ScheduleSave sets for an import, a settings save or any  *)
(* change of the ledger.                                                   *)
TimerSave ==
  /\ UNCHANGED <<configs, settings, flags, loop, todo, shut, settled, hostInstall>>
  /\ Store

Load(s) ==
  /\ At(s, "load")
  /\ Continue(s, IF saved = NoFile THEN << >> ELSE << <<"settings", saved>> >>)
  /\ UNCHANGED <<configs, settings, saved, flags, loop, history>>

Overlay(s) ==
  /\ At(s, "overlay")
  /\ Continue(s, IF DOMAIN settings = {} THEN << >> ELSE << <<"merge", settings>> >>)
  /\ UNCHANGED <<configs, settings, saved, flags, loop, history>>

StartIfEnabled(s) ==
  /\ At(s, "start_if_enabled")
  /\ Continue(s, IF appCfg.probe_enabled THEN << <<"start">> >> ELSE << >>)
  /\ UNCHANGED <<configs, settings, saved, flags, loop, history>>

StoreApp(s) ==
  /\ At(s, "app")
  /\ appCfg' = Arg(s)
  /\ Continue(s, << >>)
  /\ UNCHANGED <<engineCfg, probeCfg, settings, saved, flags, loop, history>>

StoreEngine(s) ==
  /\ At(s, "engine")
  /\ engineCfg' = Arg(s)
  /\ Continue(s, << >>)
  /\ UNCHANGED <<appCfg, probeCfg, settings, saved, flags, loop, history>>

\* Slip: every save restarts a loop that runs.
DecisionAlways(cfg) ==
  CASE cfg.probe_enabled /\ ~running -> << <<"start">> >>
    [] ~cfg.probe_enabled /\ running -> << <<"stop">> >>
    [] cfg.probe_enabled /\ running  -> << <<"stop">>, <<"start">> >>
    [] OTHER -> << >>

\* Slip: a new interval waits for the next start.
DecisionNoRestart(cfg) ==
  CASE cfg.probe_enabled /\ ~running -> << <<"start">> >>
    [] ~cfg.probe_enabled /\ running -> << <<"stop">> >>
    [] OTHER -> << >>

(* What UpdateConfig decides under the lock, to be done after it.          *)
Decision(cfg) ==
  CASE cfg.probe_enabled /\ ~running -> << <<"start">> >>
    [] ~cfg.probe_enabled /\ running -> << <<"stop">> >>
    [] /\ cfg.probe_enabled /\ running
       /\ cfg.probe_interval_seconds # probeCfg.probe_interval_seconds
       /\ cfg.probe_interval_seconds > 0 -> << <<"stop">>, <<"start">> >>
    [] OTHER -> << >>

UpdateConfig(s) ==
  /\ At(s, "probe")
  /\ probeCfg' = Arg(s)
  /\ Continue(s, Decision(Arg(s)))
  /\ UNCHANGED <<appCfg, engineCfg, settings, saved, flags, loop, history>>

\* Slip: Start trusts the decision and does not look again.
MayStartAgain == probeCfg.probe_enabled

MayStart == ~running /\ probeCfg.probe_enabled

Start(s) ==
  /\ At(s, "start")
  /\ \/ /\ MayStart
        /\ \E l \in Loops :
             /\ ~Alive(l)
             /\ stopCh' = l
             /\ loop' = [loop EXCEPT ![l] = [stage |-> "wait", stop |-> FALSE,
                                             every |-> Interval(probeCfg)]]
        /\ running' = TRUE
     \/ ~MayStart /\ UNCHANGED <<flags, loop>>
  /\ Continue(s, << >>)
  /\ UNCHANGED <<configs, settings, saved, history>>

Stop(s) ==
  /\ At(s, "stop")
  /\ \/ /\ running
        /\ loop' = [loop EXCEPT ![stopCh].stop = TRUE]
        /\ running' = FALSE
        /\ stopCh' = NoLoop
     \/ ~running /\ UNCHANGED <<flags, loop>>
  /\ Continue(s, << >>)
  /\ UNCHANGED <<configs, settings, saved, history>>

Step(s) ==
  \/ Merge(s) \/ MergeImport(s) \/ ReadBack(s) \/ SetSettings(s) \/ SaveNow(s)
  \/ Load(s) \/ Overlay(s) \/ StartIfEnabled(s) \/ StoreApp(s) \/ StoreEngine(s) \/ UpdateConfig(s)
  \/ Start(s) \/ Stop(s)

-----------------------------------------------------------------------------
(* The loop goroutine: it waits for its timer or for its stop channel, and *)
(* runs a probe in between.  The clock is left out: a wait that is not cut *)
(* short elapses at some time (fairness of Fire).  When both channels are  *)
(* ready select takes either, so a loop that was stopped may still fire.   *)

others == <<configs, settings, saved, flags, todo, history>>

Fire(l) ==
  /\ loop[l].stage = "wait"
  /\ loop' = [loop EXCEPT ![l].stage = "run"]
  /\ UNCHANGED others

\* Slip: a loop that left is not forgotten.
RunEndsForGood(l) ==
  /\ loop[l].stage = "run"
  /\ loop' = [loop EXCEPT ![l].stage = IF loop[l].stop THEN "left" ELSE "wait"]
  /\ UNCHANGED others

(* runScheduled returns, having probed or found a probe in flight.         *)
RunEnds(l) ==
  /\ loop[l].stage = "run"
  /\ loop' = [loop EXCEPT ![l].stage = "wait"]
  /\ UNCHANGED others

\* Slip: a loop watches the field stopCh in place of the channel it was given.
LeaveByField(l) ==
  /\ loop[l].stage = "wait" /\ loop[l].stop /\ ~running
  /\ loop' = [loop EXCEPT ![l] = FreeSlot]
  /\ UNCHANGED others

Leave(l) ==
  /\ loop[l].stage = "wait" /\ loop[l].stop
  /\ loop' = [loop EXCEPT ![l] = FreeSlot]
  /\ UNCHANGED others

LoopStep(l) == Fire(l) \/ RunEnds(l) \/ Leave(l)

Next ==
  \/ \E s \in Callers :
       \/ \E patch \in Patches[s] : Save(s, patch)
       \/ \E patch \in Imports[s] : Import(s, patch)
       \/ \E raw \in Yamls[s] : handleRegister(s, raw)
       \/ Shutdown(s)
       \/ Step(s)
  \/ TimerSave
  \/ \E l \in Loops : LoopStep(l)

(* Calls and loops go on.  The stop branch of a loop's select is offered   *)
(* again and again between runs; select chooses at random, so it is not    *)
(* passed over for ever.                                                   *)
Fairness ==
  /\ \A s \in Callers : WF_vars(Step(s))
  /\ \A l \in Loops : WF_vars(LoopStep(l)) /\ SF_vars(Leave(l))

Spec == Init /\ [][Next]_vars /\ Fairness

-----------------------------------------------------------------------------
(* However saves, registrations and a shutdown interleave, at most one     *)
(* loop has not been told to stop, and it is the one that running and      *)
(* stopCh speak of: UpdateConfig decides without the lock, but Start and   *)
(* Stop look again under it.  Two loops would probe the fleet twice.       *)
AtMostOneLiveLoop ==
  /\ running <=> stopCh # NoLoop
  /\ \A l \in Loops : Live(l) <=> l = stopCh

(* When calls do not overlap and all have returned, the loop runs if and   *)
(* only if it is enabled, at the configured interval, and the three copies *)
(* of the configuration agree: no save leaves one part behind.             *)
LoopMatchesConfig ==
  (Idle /\ settled) =>
    /\ engineCfg = appCfg /\ probeCfg = appCfg
    /\ running <=> appCfg.probe_enabled
    /\ running => loop[stopCh].every = Interval(appCfg)

(* A registration reads the settings from the state file and lays them     *)
(* over the host's text, so after any series of calls one by one the ops   *)
(* fields are those the Persister has; what the console last asked for is  *)
(* in force, however often the host has registered since, if the file got  *)
(* it (an import, or a save that failed, may be undone by the next         *)
(* registration; a blank text always is, and gives way to the host's); and *)
(* the install fields are those last registered - as long as nothing the   *)
(* console sent was of a type the configuration cannot hold.               *)
Applied(view) == \A f \in DOMAIN view : appCfg[f] = view[f]

ConsoleSurvivesRegister ==
  (Idle /\ settled) =>
    /\ Applied(settings)
    /\ filed # Unset => Applied(filed)
    /\ hostInstall # Unset => InstallPart(appCfg) = hostInstall

(* Whatever the host, the console or a backup sends, no part ever holds a  *)
(* value the code that reads it is not made for: a pool of nobody, an      *)
(* unknown action, or a failed delete that falls back on deleting.         *)
ConfigInRange ==
  \A cfg \in {appCfg, engineCfg, probeCfg} : \A f \in Fields :
    /\ f \in Counts => cfg[f] > 0
    /\ f \in SparePool \cup Pauses => cfg[f] >= 0
    /\ f \in DOMAIN Choices => cfg[f] \in Choices[f]
    /\ f = "delete_fallback" => cfg[f] # "delete"

(* What a registration or save does not change does not disturb the loop:  *)
(* if from some time on every call wants probes at the same interval, and  *)
(* the loop is not left off, it fires again and again, however often the   *)
(* settings are saved.                                                     *)
Wants(cfg, every) == cfg.probe_enabled /\ Interval(cfg) = every
AllWant(every) ==
  /\ Wants(probeCfg, every)
  /\ \A s \in Callers : \A i \in DOMAIN todo[s] :
       todo[s][i][1] = "probe" => Wants(todo[s][i][2], every)
Firing == \E l \in Loops : loop[l].stage = "run"
ProbesKeepComing ==
  \A every \in Intervals :
    (<>[]AllWant(every) /\ []<>running) => []<>Firing

(* A loop that was told to stop ends, although its timer may win the       *)
(* select again and again.                                                 *)
StoppedLoopEnds == \A l \in Loops : loop[l].stop ~> ~Alive(l)

=============================================================================
