# Verification of xai-autoban

xai-autoban is a Go plugin of the CLI proxy CPA. It watches what becomes of the
requests that the proxy sends with its x.ai credentials, keeps a ledger of the
credentials that are *isolated* (out of scheduling until a time), and carries
out a policy on those that fail: isolate, disable, delete, refresh. It also
probes the credentials by itself, and an operations console lets a person do by
hand all that the policy does.

This directory holds TLA+ specifications of its core, the TLC runs that check
them on small instances, and proofs that TLAPS checks for every instance.
`PROJECT.json` lists the components, the runs, the lines each definition stands
for, the hazards and the theorems.

    tlc -workers 2 -config MCBanLedger.cfg MCBanLedger.tla      # a run
    tlapm BanLedgerProofs.tla                                   # the proofs

## 1. Inventory

How the parts call each other:

    host ──usage.handle──> usage ──────────> action.Engine ──> ban.State
     │  ──scheduler.pick─> schedule ──────────────────────────>   │
     │  ──management.*──> mgmt ──> action, probe, persist, ban    │ onChanged
     │  ──register,────> main ──> config, persist.Load            v
     │    reconfigure, shutdown                             persist.Persister
     <──AuthList/AuthGet/AuthSave, HTTP── probe, action, reauth, creds

The host calls the plugin from many goroutines. Each component has one mutex,
which it holds across no host call, and hardly any across another component. So
what a call reads in one critical section may be stale in the next: that is
where most of the hazards are. The one mutex that *is* held across host calls
belongs to a call, not to a component: the workers of one probe or of one selected
recheck take turns with it, and keep it while they apply a failure
(`probe.go:550`, `recheck.go:227`). It orders the workers of that call among
themselves and holds up nobody else.

| Component | State | Operations | What makes it correct | What is hard |
|---|---|---|---|---|
| `internal/ban` ledger | rows by storage key (mailbox, else id), `byEmail`, `byAuth` | Set, ForceSet, Active, Clear, ClearAll, Snapshot, ReplaceAll (with the rows of the state file) | one row per mailbox; the index leads to live rows; isolation is neither lost nor spread | many names for one credential, and rows that are collapsed, expire and are reloaded in any order |
| `internal/action` engine | success grace, soft-403 streaks, cooldowns; the host's disabled switch | ApplyFailure, ApplyAction, ApplySuccess, ApplyUsageSuccess, reconcile | real traffic is the last word; disabled and isolated exclude each other; report-only leaves the host alone | check, host call and write are separate steps; host calls fail or succeed without a reply |
| `internal/probe` flight | job flag, id, progress, result; history; bulk flag | StartJob, RunOnceTrigger, ForceResetJob, workers, StartBulk | one full probe at a time; every call returns; the console sees one run | force, a lock that ages, workers that report out of order |
| `internal/probe` loop | stop channel, next-run time | Start, Stop, UpdateConfig, loop | one loop, the one the settings ask for | decided after the unlock |
| `internal/probe` recheck | worker pool | Recheck429, RecheckSelected | rechecking never undoes what happened meanwhile | rows written from an old snapshot |
| `internal/persist` | settings, timer, the file and its temporary file | Load, ScheduleSave, SaveNow, Flush | the file is whole and never goes back; no change is forgotten | overlapping saves, failures, crashes, reload on reconfigure |
| `internal/schedule` | round-robin counter | Pick | an isolated credential is not picked while another is free | all isolated |
| `internal/usage` | none | Handle | successes heal, failures act | concurrent reports of one credential |
| management client | block after an authorization failure | SetDisabled, Delete, PatchFields | what is reported as done is done; a lost reply is not taken for a refusal | lost replies, several names for one file |
| `internal/mgmt` | request-scoped key in the engine | the routes | a request's key does not stay behind | one slot for all requests and jobs |
| `internal/creds` | cache of metadata | views, samplers, refresh | cards, lists and pages agree; the cache catches up with the files | background refresh beside a change |
| `internal/reauth` | the credential file | refresh and save | a rotating token is used once; a save changes the tokens only | read-modify-write of a whole file without a lock |
| `internal/classify` | none | decision table | every failure that isolates gets a duration and an action | texts that match several rules |
| `internal/config`, `main.go` | App's, engine's and probe's copies of one configuration | ParseYAML, Normalize, MergePatch, SetConfig | what comes out is in range; all parts end up with the same | three copies set one after the other by calls that overlap |
| `audit`, `xai`, `tokenutil`, `host`, `ui`, the C ABI | – | lists, predicates, parsing, RPC, HTML | – | no concurrency or protocol of their own |

Section 7 says why those without a module have none.

## 2. Modules

| Module | Models | State and actions against the code |
|---|---|---|
| `BanLedger` | `ban.State` | `bans`, `emailIndex`, `authIndex` are the three maps. Every method holds `State.mu` from its first to its last line, so each is one action. The order in which a map is walked is a choice: `Lookup` is the set of keys `lookupLocked` may return, `Rankings` the orders of a reload. `ReplaceAll` puts the rows of any file of `Files` in the place of memory's: the file a registration finds may be older than memory or have rows that were released since. |
| `Isolation` | what the ledger promises | for each credential the moments its isolations end; isolate, release, release all, restore from a file, tick. `BanLedger` implements it under `Ends`, which collects the ends of a credential's live rows under whatever names they are filed, and each operation as the one that is meant: `WritesHold`, `ReleasesFree`, `ReloadsRestore`, `UpkeepIsIdle`. |
| `ProbeFlight` | `beginProbe`, `StartJob`, `RunOnceTrigger`, `runOnceBody`, `finishProbe`, `recordRun`, `StartBulk` | the `job…` variables are the fields of `Service`; `pc`, `todo`, `busy`, `finished`, `bumps` are where each run's goroutine and its workers are. A step is one critical section of `Service.mu`. |
| `ActionEngine` | `action.Engine` for one credential, and what calls it | `disabled` is the host's switch, `banned` and `pending` the row, `grace`, `streak`, `cool` the engine's maps, `auto` its config. History: `calm` (nothing has come between `disabled` and `banned` since a call last had the engine to itself), and per call `older`, `graced`, `held`. A call is the list of the steps it has still to take (`call[c].steps`); a step is one host call or one critical section, and any other call's steps come between. |
| `Persister` | `persist.Persister` | `memory` stands for ledger and settings, as version numbers; `armed` is the timer; `at`, `image` and `holds` are where each SaveNow is, what it read and what file it has open; `tmp` and `state` are the two files; `load`, `loaded` where a reconfigure's Load is. `Change` is announced by ScheduleSave, `SilentChange` (the bulk unban, `routes.go:706`) is not. History: `pending` (a change no save has read, announced or not) and `order` (whether saves and reloads crossed, and whether a save alone has mended it). |
| `Durable` | what the state file promises | memory, disk, and change, save, reload, restart. `apart` says that saves and reloads have crossed; then nothing is promised but that a save that runs alone joins memory and disk again (`Cross`, `Disturb`, `Join`). `Persister` implements it. |
| `Config` | `internal/config` | operators: a configuration is a function of field names, `Normalize` what the code does to each field, `MergePatch` and `ParseYAML` how patches and texts come in, `Unreadable` a value yaml cannot decode. |
| `Control` | `handleRegister`, `SetConfig`, `Shutdown`, `updateSettings`, `ImportSnapshot`, and `UpdateConfig`, `Start`, `Stop`, `loop` of the probe service | `appCfg`, `engineCfg`, `probeCfg` are the copies, `settings` the Persister's, `saved` those of the state file, which a registration loads before it lays `settings` over the host's text (`main.go:184`); `todo[s]` is what is left of a call, one element per critical section; `loop` are the loop goroutines with their stop channels, `running` and `stopCh` the fields that speak of them. |
| `HostFile` | `SetDisabled`, `SetUsingAPI`, the management client, `RefreshOneOpts`, the request key and the using_api cache, for one file | `disabled`, `file` are the host's, `call[c].pc` is the host call that comes next, `copy` what was read; `slot` and `poller` are the key and the goroutines that clear it; `cache`, `sample` the console's view. |
| `Classification` | `classify.Probe`, `ClassifyFailureWithBody`, durations and actions by status | operators over a status and the set of marks a body bears. |
| `Fleet` | `Recheck429`, `RecheckSelected`, `Pick`, and failures and releases beside them | `rows` is one row per credential, with its window; `sweep` and `selected` are the rechecks in progress, `pool` the free places of the semaphore; `pick` and `rr` the scheduler. Rows are made by `Classification`. |
| `Console` | `BuildFull`, cards, filters and pages of `internal/creds` | operators over the rows of `Fleet`. `BuildFull` is the set of all orders of the list that put the urgent first, since remaining times and ids only order equal ones. |
| `MC…` | one per component | concrete names, inputs and symmetry sets for TLC. |
| `BanLedgerProofs`, `ProbeFlightProofs`, `ActionEngineProofs`, `ActionEngineSafety`, `PersisterProofs`, `ControlProofs`, `HostFileProofs`, `FleetProofs` | theorems | see section 5. |

Next to some definitions stand *slips*: the same definition with a bug that a
rewrite could plausibly bring in (a dropped check, a lock not given back). They
are used nowhere. `PROJECT.json` pairs each property with one slip; with the
slip in place of the definition, TLC finds the property violated.

Abstractions that are worth knowing when reading the modules:

- **Names.** An id, a file name or a mailbox is a model value.
  `Aliases` and `Strip` stand for `AuthIDAliases` and the comparison of
  `AuthIDsEqual`. That two credentials share no alias is assumed
  (`CredentialAssumption`); that a mailbox belongs to one credential follows
  from it. `WithAt` are the names that contain "@", by which the code tells a
  mailbox when it indexes; a file name may contain one too.
- **Rows.** Only the expiry, the mailbox and the id of an entry are kept.
  `Outlasts` carries the pending-delete rule; status, reason, source are
  carried by the code and decide nothing there.
- **One credential** in `ActionEngine`: the maps of the engine are keyed by the
  credential, and no step of a call reads another's. What is shared between
  credentials, the ledger's names, is in `BanLedger`. Cooldown keys *are* kept
  apart (`Keys`), since the code uses two for one credential.
- **Time** in `ActionEngine` is a lapse: a grace, a cooldown, a streak's window
  and a row end by steps of their own at any moment. What would need the
  durations (which of two ends first) is not asked.
- **`using_api`** and `using_api_off` are the two directions of one switch, of
  which only the effects on row and `disabled` are kept. RecheckSelected enters the engine by the same calls as `probe_fail`, `unban` and `operator`.
- **Config copies.** A probe copies the config when it starts, a usage success
  reads it after it has looked for the row. `ActionEngine` lets a probe use any
  copy and reads `auto` where the code does.
- **Files.** `Persister` assumes what POSIX says of open with truncation, write,
  and rename, and a process crash; a power failure (the code does no fsync)
  is not modelled. An open file follows a rename (`holds`). A write over
  another content may leave a tail (`Torn`).
- **`path = ""`**, which turns persistence off, is left out.
- **Three views of one credential.** `ActionEngine` has a host call as one step
  with its outcomes and asks what the engine decides; `HostFile` has the requests
  inside that step and asks what the host ends up with; `Fleet` has what a
  failure may leave in the ledger and asks what the scheduler and the console
  see. `Fleet.ApplyFailure` allows every outcome `ActionEngine` has, as one step;
  that a failure's call takes at most one step on the row, however the host answers, is the
  theorem `OneWritePerFailure`.
- **The host**, in `HostFile`, does what the code says of it (`engine.go:998`): a
  management patch touches one field; `host.auth.save` replaces the file,
  creates it when it is gone, and leaves the credential enabled. `form` says
  under which of the names the client tries the host knows the file.
- **A patch** in `Control` has ops keys only, and words and numbers as
  `CoerceOpsPatch` leaves them. A save of the state file is one step here, which may fail (the handler
  ignores the error, `routes.go:938`) and leaves blank texts out; the timer's saves
  come at any time, since any change of the ledger sets it. How two saves cross
  is `Persister`'s subject. The patch is merged into the
  configuration App has at that moment; the copies follow one by one.
- **Loop goroutines.** A wait that is not cut short ends at some time. A Start
  takes a free element of `Loops`; where none is free it waits (a bound).
- **No clock in `Fleet`**: a row ends at any time; a window is named by the status
  whose duration it has. A body is a set of marks, so any text that contains
  the words of two rules is there.
- **Listings** in `Fleet` are given to a recheck when it starts, as AuthList gives
  them.

## 3. Runs

Bounds are named in the modules: `MaxTime`, `MaxTargets`, `BulkItems`,
`MaxVersion`, `Loops`, `MaxTokens`, and the sizes of the constant sets.

| Run | Shows | Instance, and why it is enough |
|---|---|---|
| `MCBanLedger` | `OneRowPerMailbox`, `OthersUntouched`, `IsolationEndsByRelease`, `ReloadRestores`, `HoldsAndFrees` (the refinement of `Isolation`); `TypeOK` includes that the index leads to rows that are there | One credential with a mailbox, a file id and an alias of it, another without a mailbox; two windows, so that a row can outlast a new one; time 0..1 so that rows expire; four files, among them an empty one, one with rows memory may have released, and one whose rows claim the same name. 8,272 states. Each rule of `lookupLocked` and `setLocked` distinguishes at most a row, its mailbox row and a stranger. |
| `MCProbeFlight` | `OnlyOneFullProbe`, `JobIsOneRuns`, `BulkWaitsForProbe` | Three calls (one flies, one is refused, one comes after), three files on two workers so that counts are reported out of order and the semaphore is full; no force and no stale lock, which the first property needs. |
| `MCProbeFlightForced` | `LockHasOwner`, `EveryCallReturns` | Two forced calls and a plain one, locks that grow stale: any two and all three runs overlap. |
| `MCActionEngine` | `GraceShields`, `DisabledExclusive` | Two calls at once, every entry point, failing host, deletes that fall back. A violation needs one call to interfere with another; a third adds no new kind of step. `DisabledExclusive` speaks of the moments when no call is in progress: that the two exclude each other is lost by an overlap or a failing host, and what is checked is that nothing else loses it and that a lone reconciliation finds it again (`calm`). 1,410,849 states. |
| `MCActionEngineCooldown` | `ClearsOlderRow`, `CooldownHolds`, `ReportOnlySparesHost` | Two calls at once, cooldowns on, `auto_execute` switched at any moment. A success that finds its release in cooldown leaves the row (section 6): the property excepts that call and no other, and the case is reached. The actions are those that mark the key they look up; what delete and reauth do is in section 6. 2,421,008 states. |
| `MCPersister` | `DiskCatchesUp` | Two savers that may cross, a flush, a reconfigure, a crash between any two steps, two changes, announced or not: enough for a change while a save of the other is under way. |
| `MCPersisterOverlap` | `StateReadable`, `NoChangeForgotten`, `Durable` | The same, and each file operation may fail. A save that has opened the temporary file may find it renamed, truncated or written over by the other, and one that comes alone afterwards mends it. 2.46 million states. |
| `MCControl` | `AtMostOneLiveLoop`, `LoopMatchesConfig`, `ConsoleSurvivesRegister`, `ConfigInRange`, `ProbesKeepComing`, `StoppedLoopEnds` | One thread makes every call, another may shut down in the midst of it; saves that fail and timers that save at any time, so that the file is older than memory when a registration loads it; six fields (a switch, a count, a text the console leaves blank, an install field, a choice with an exception and a plain one), a value that cannot be read; two loops, so that an old one may still be on its way out. 86,370 states. That a second thread only shuts down keeps liveness checkable; the theorems cover any number of threads. |
| `MCHostFile` | `KeyCleared`, `OkMeansDone`, `CacheCatchesUp` | A console thread (request or bulk: enable, using_api, delete) beside a background one (disable, refresh), one reader; the file known under its second name form, so that every try is reached. 466,296 states. |
| `MCFleet` | `EveryRowTimed`, `ListsComplete`, `RecheckEnds` | Two credentials, of which the host may have forgotten one, four answers (fine, rate limited, none, and 500 with a text that denies), one place in the pool for two selected ids; page sizes from below the least to above the largest; every list in every order the console may build it. 192,249 states. |
| `MCScheduler` | `PickSparesIsolated`, `RotationServesAll` | Two credentials and a foreign candidate between them, both delegates, a counter that wraps at 5 (no multiple of two or three), rows rewritten by traffic and a sweep meanwhile. 162,606 states. |
| `MCHostFileSwitch` | violates `SwitchHeld` | section 6 |

`CHECK_DEADLOCK FALSE` stands where the system may come to rest: all calls of
`ProbeFlight` have returned, in `Control`, `HostFile` and `Fleet` nobody is
obliged to call.

## 4. Fairness

Safety properties need none. Six runs check liveness.

`ProbeFlight.Fairness`: each run's goroutine keeps taking its steps. The Go
scheduler gives that for the plugin's own code. The code sets no deadline on the
host calls of a run (AuthList, AuthGet, and the probe's HTTP request, which the
host sends), so that they answer is an assumption about the host. Nobody is
obliged to start a run, and locks need not grow stale.

`Persister.Fairness`: a caller that has changed memory reaches its
`ScheduleSave`, the timer fires, a save goes on or fails. These are statements
that follow each other in one goroutine, the runtime's timer, and system calls.
A save that fails is not retried, hence `failed` in `DiskCatchesUp`; a bulk unban
announces nothing, hence `pending["ledger"] = "silent"`. That saves
do not overlap is *not* given by the code: a handler's save and the timer's run
without a common lock, and no run or theorem assumes it. `order` says when they
did, and the properties what holds again once a save has run alone. Nobody is
obliged to change anything, to flush, to crash or to reconfigure.

`Control.Fairness`: calls go on (they wait for mutexes and nothing else), loop
goroutines go on (a timer fires, a probe returns), and a loop that was told to
stop leaves its select at some time. The last is strong fairness: between two
waits the loop is in a probe and cannot leave, but each time it waits with its
timer due and its stop channel closed the runtime chooses one at random, and it
does not choose the timer for ever.

`HostFile.Fairness`: calls go on, since every request has a timeout
(`management_timeout_seconds`; the calls of reauth and those to the host itself
have none, and are assumed to answer), the goroutine that waits for a bulk job looks every 200 ms, a sample
that was read is put, and a cache entry expires after 15 minutes unless it is
put again. Nobody is obliged to call.

`Fleet.Fairness`: both rechecks and the scheduler's call go on; that a probe ends
is the same assumption about the host as for `ProbeFlight`. That the host
asks again and again, with the same candidates, is a hypothesis of
`RotationServesAll`, not a fairness.

## 5. Proofs

The proofs hold for every value of the constants under the assumptions that the
modules name.

**`BanLedgerProofs`.** `LedgerInv` is `TypeOK`, in which `IndexLive` is included,
and `Keyed` (a row that has a mailbox is stored under it). `OneRowPerMailbox` is not inductive
by itself: that a write collapses what it must follows from where rows are
stored, which is what `Keyed` says; and that a removal leaves nothing in the
index needs the index to have led to rows before. `StepKeeps` has one lemma per
kind of step (`DropKeeps`, `WriteKeeps`, `ReloadKeeps`).
From it: `LedgerTypeOK`, `MailboxHasOneRow`.
`IsolationIsLocal` proves `OthersUntouched` with a second invariant, `LocalInv`
(a row and all index entries that lead to it bear names of one credential), the
lemma that a lookup stays with the credential (`LookupIsLocal`), and the lemma
that an operation that is confined to one credential's names is invisible to
the others (`ConfinedUnaffected`).
- `IsolationLasts` proves `IsolationEndsByRelease` under `OneMailbox`: no credential
  has two (section 6 says what happens if one had). It holds until the next reload. A name's own row, or else
  the index entry of the name itself, decides whether it is isolated
  (`RowDecides`). `BareInv` says that only the aliases of an id lead to a row that
  is filed under that id; a write that collapses the row indexes all of them.
  `EvictionFreesNobody` is the same for reads and sweeps.
- `ReloadFindsAll` proves `ReloadRestores` for whatever file is loaded, under
  `FileAssumption`: each row of it names one credential. An id that several rows
  claim goes to the one indexed last, and there is one because a file is finite
  (`Highest`, `LastIsOne`).
- `LedgerKeepsPromise` proves `HoldsAndFrees`: the ledger implements module
  `Isolation`, and each operation is the step it is meant to be, so that a write
  which freed somebody would not pass for a release: `WriteIsIsolate`,
  `ClearIsRelease`, `TickIsTick`, `ClearAllIsReleaseAll`, `ReloadIsRestore` (memory
  becomes what the file holds, be it older), and `UpkeepIsNoStep` for reads,
  eviction and sweep. That a step alters the ends of one credential only comes
  from its locality (`AltersOne`). It needs no `OneMailbox`: a *credential* stays
  held even where one of its names is lost.

**`ProbeFlightProofs`.** `FlightType`; `LockIsOwned` (whenever the service is
busy, the run whose id is the job's is in flight) and `IdsStayDistinct` hold with
force and stale locks; the invariant says that the lock's id is the newest a run
was given, and that every id given is at most `runSeq`. `OneFullProbe`,
`JobShowsOneRun` and `BulkStartsAlone` hold under `Cooperative` (no forced call,
no lock outlasted); there the invariant says that a run in flight holds the lock.

**`ActionEngineProofs`.** `EngineType` holds for every configuration: each
entry point's plan is a sequence of known steps (`PlanTypes`), and every step
leaves the rest of one (`StepGoesOn`). `GraceHolds` proves `GraceShields` where
`auto_execute` stays on, for any number of calls. The invariant, `GraceInv`, says
that a probe's unforced call which began in a grace that still lasts stands
before the question of the grace: the only step it can take is `Grace`
(`OnlyGrace`), which sends it away (`ShieldedReturns`), and no other call can
end the grace. Where the mode may be report-only a locally expired token
skips the question, and the theorem does not hold (section 6).

**`ActionEngineSafety`** goes on from there. Its lemmas `PlansPlanned` (which call an
entry point makes, one line each), `Begun` and `StepTaken` (what any step does to a
call's list of steps) serve four invariants about what a call has still to take.
None of its theorems has a hypothesis.
- `ReportOnlySpares`: `ReportOnlySparesHost` for every configuration. `ReportInv`
  says that a call by a report-only copy has no step on the switch left.
- `SuccessClearsOlder`: `ClearsOlderRow` for every configuration, any number of calls
  and every failure of the host. `RowInv` says that a call which must clear the
  row and has not yet, still has the step that does (`HealsOn`, `ClearsOn`), or is a
  success that found its release in cooldown (`held`).
- `ExclusiveBetweenCalls`: `DisabledExclusive` for every configuration, with calls that
  overlap and a host that fails. `ExclusiveInv` says that while it is `calm` one call
  is in progress at most, that a disable has a release behind it, an isolation the
  question whether the credential is disabled just before it (`Paired`), and that
  where disabled and isolated meet the call in progress is about to release.
  `BeginReconciles` is the way back: a lone reconciliation makes it calm again.
- `OneWritePerFailure`: `FailureWritesOnce` for every configuration and any number
  of calls. `FailureInv` says that a failure's call has nothing but cooldowns to mark
  behind a step on the row, and that one that disables has no isolation ahead.
  It is no property of a run; it joins two views of the engine: the rows of `Fleet`
  see a failure as one step, which isolates, drops the row (also a ban does, when it
  finds the credential disabled, `engine.go:438`) or leaves it alone; a disable that
  fails does not isolate.

**`PersisterProofs`.** All four theorems hold for any number of savers and changes,
with saves that cross, failures, crashes, flushes, reconfigures and silent changes.
`PersisterType`; `DebounceForgetsNothing`: `NoChangeForgotten` is inductive, each step
that takes one reason to wait away (the timer fires, a save reads) leaves another
or reads the change. `StateStaysReadable` and `ImplementsDurable` rest on
`KeptApart`: unless saves have crossed only one is under way, it alone has the
temporary file open, that file is empty when it writes and its own image when it
renames; a save that begins alone after a crossing comes back to that.
The properties say nothing of the temporary file, which is why they need it.
`Ordered` puts the disk's versions below those a save has read, these below
memory, and `Dated` everything below the clock; with them every step is to
`Durable` a change, a save, a reload, a restart, a step of the time in which
memory and disk are apart, or a stutter (`PromiseKept`).

**`ControlProofs`.** `OneLoop` proves `AtMostOneLiveLoop` for any number of
threads, registrations, saves, imports, a shutdown and loops. The invariant adds
to it only the shape of a loop's record: that the property is inductive by
itself is the point, since it means that what UpdateConfig decided before, and
what the calls have in store, does not matter. The other four theorems build on
four further invariants.
- `ConfigInv`: every configuration anywhere, in the parts or in what a call has
  left to do, is one that `Normalize` leaves as it is. `NormalFits` proves for each
  kind of field that Normalize ends in range and is its own fixed point;
  `MergedIsKept` and `ParsedIsKept` carry that through MergePatch and ParseYAML.
  `RangeHolds` (`ConfigInRange`) and `ControlType` follow.
- `PaceInv`: a loop at another interval than the probe service's is about to be
  stopped by some call. It holds whatever overlaps.
- `CallsInv`, about the latest call while no other has overlapped it. It has a
  patch to merge (`Sending`), or it brings a configuration to the parts in order
  and sets the loop right (`Spreading`), and then sees to the settings or to the
  start (`RestOf`). When it has returned, everything agrees: `LoopObeysConfig`
  (`LoopMatchesConfig`) and `SettingsSurvive` (`ConsoleSurvivesRegister`), the
  latter by `SettingsComeBack`: a view of the settings merged into any
  configuration comes back as the same view. What overlapped *before* that call
  is unrestricted, which is what TLC's single caller cannot show.
- `FiledInv`: once the latest save or import is through and the file has it
  (`filed`), the file and the Persister's settings are the same up to blank texts,
  and nothing a call has left to do brings other ones (`Harmless`): a registration
  loads just these. A save by the timer and one that failed keep it
  (`StepFiled`, `StoreFiles`).

The theorems use three assumptions that TLC evaluates on `MCControl`:
`FieldsAssumption` (the instance's fields are fields of the code),
`WordsAssumption` (a choice and a synonym are among the instance's words, and
folding a word to its lower case ends there) and `InputsAssumption` (a console's
patch has ops keys only; what comes in is of the kind the parsers deliver).

**`HostFileProofs`.** `TypesHold` needs `Placed`: which operation can stand at
which host call, and that a call that is about to save holds a copy. `OkIsTrue`
proves `OkMeansDone` from it: `SuccessHolds` goes through the steps by which a
call can come to succeed, `OthersWait` says that these leave the others where
they are. `KeyIsCleared` adds `BulkWaitedFor`: a bulk job that runs has a
goroutine that waits for it, which is why the end of the job does not leave the
key to nobody.

**`FleetProofs`.** `RowsTimed` proves `EveryRowTimed` for any credentials, answers
and configured actions. Its invariant `RowsInv` says the same of the rows a sweep
keeps in its snapshot; the lemmas are about the classifier
(`ClassifiedHolds`: whatever isolates gets a duration) and the rewriting of a row
that fails again (`StillFailingHolds`). `IsolatedAreSpared` proves
`PickSparesIsolated` for any candidates, priorities and any counter width:
`PickInv` says that no candidate set aside so far has been isolated throughout,
`FillFirstChoice` and `RoundRobinChoice` that either rule chooses among those
set aside, the former by well-foundedness of the order on priorities and places.
`FleetType` proves `TypeOK`, in which the semaphore of a selected recheck is
counted: `StepPlaces` shows that each step that takes or returns a place adds or
removes just one goroutine of those that hold one (`Placed`), so no more than
`probe_concurrency` run and, when the last has ended, every place is back. It uses
that a fleet is finite (`FleetAssumption`). `CallInv` is the scheduler's share: a
call judges each candidate once and chooses one of them, and the counter stays
below its wrap.
`ConsoleShowsAll` proves `ListsComplete` for any fleet, any rows and any page sizes.
No invariant is behind it, but facts about lists that the prover's library does not
have. The k-th match of a list exists because counting the matches up to each is an
injection into a set of the same size, hence onto (`NthPlace`); so each match is
shown once (`MatchingShownOnce`), and cards and lists count the same places
(`CardsAgree`). Pages follow by the arithmetic of `div` (`PageCount`, `SplitAt`) and
from what joining does (`PagesJoin`): two functions that obey the recursion of
`FlattenSeq` agree (`JoinsUnique`), since there is no least number at which they
differ. `ListExists` shows by a least set that cannot be sorted that there
always is a list, so the theorem does not speak of nothing.

**Model-checked only:** liveness (`EveryCallReturns`, `DiskCatchesUp`,
`ProbesKeepComing`, `StoppedLoopEnds`, `CacheCatchesUp`, `RecheckEnds`, `RotationServesAll`), which the prover does not do
under fairness. Of the safety properties of the passing runs, `CooldownHolds`
is model-checked only: it holds where an action marks the key it looks up, which the
code does not do for all (section 6). Every other is stated by a theorem, five
under a condition named above (`OneMailbox`, `Cooperative`, `auto_execute` on). No module that is proved about has a recursive operator, and the prover cannot apply
the library's induction theorems; where a theorem needs induction it argues from a
least counterexample instead, by the well-foundedness of the order concerned.

## 6. Where the code differs from what it says

Found while modelling; each was followed to the lines in the source. One has a
run:

- **The switch is saved over** (`MCHostFileSwitch`). By `engine.go:1000` a
  successful disable must never be followed by `host.auth.save`, which switches
  the credential on again. A refresh saves the file of a disabled credential
  (`reauth.go:174`), and so does SetUsingAPI when its management calls fail
  (`using_api.go:179`).

The others were seen on the way and have no run of their own.

Configuration and loop (`Control`):

- A registration applies the host's text before it lays the saved settings over
  it. If the two name different intervals, the loop is stopped and started
  twice and its wait begins anew, although nothing has changed
  (`main.go:182`, `probe.go:225`).
- Two saves at once each merge into the configuration they read: the fields of one
  are lost (`routes.go:930`).
- One value yaml cannot read (a word in a number's field) resets *every* field to
  its default, the install fields included (`config.go:136`).
- A registration loads the state file before it lays the settings over the host's
  text (`main.go:184`): an import whose debounced save has not come yet
  (`routes.go:1106`), or a settings save that failed (its error is ignored,
  `routes.go:938`), is undone by the next registration. A text the console set to
  blank is not written (`persist.go:146`), so the host's text comes back.
- The install fields that an import brings are not in the saved settings and are
  gone at the next reconfigure (`routes.go:1096`).
- The old loop clears the next-run time the new one has set (`probe.go:282`).

Host file (`HostFile`):

- Any request that ends, and any goroutine that waits for a bulk job, clears the
  key of every other one (`routes.go:256`, `732`): a job goes on without.
- A key that was refused blocks the management calls of requests that bring
  another (`management_client.go:125`).
- A refresh token that was exchanged is lost if the save fails, and an older copy
  may be saved over it (`reauth.go:174`): the endpoint then takes neither.

Fleet, classification, console (`Fleet`, `Classification`, `Console`):

- Recheck429 writes rows from its snapshot: a credential that was released during
  the sweep is isolated again (`recheck.go:114`), and the window of a row runs
  from the start of the sweep, not "from now" (`recheck.go:28`, `30`): where the sweep
  takes longer than the window the row is over as it is written. That a row is
  timed (`EveryRowTimed`) means that its duration is not zero, no more.
- More than 200 selected ids are cut off without a word (`recheck.go:177`).
- A failure judged as exhausted quota has the 402 window by the comment at
  `engine.go:196`; with status 429 the case at 229 comes first and gives it that of
  429.
- The round-robin counter is shared by all lists of candidates: two streams of
  requests in step can leave a candidate out (`pick.go:53`).
- A locally expired credential is counted on the card of 401 and not in its list
  (`credentials.go:367`, `518`), and is in the list of the healthy.

Ledger, engine, state file (`BanLedger`, `ActionEngine`, `Persister`):

- With `auto_execute` off a locally expired token goes to `ApplyAction`, past the
  grace check (`probe.go:562`), although a probe must not override a recent real
  success (STABILITY.md:29). Apart from this path there is also a race: the grace
  is checked, then the host is asked, then the row is written.
- A success within the cooldown of the last one leaves the row of a failure
  between them (`engine.go:703`, against its comment at 701).
- A bulk unban clears rows and schedules no save (`routes.go:706`): a restart or a
  reconfigure before the next save isolates the credentials again. A usage
  success whose host call fails after the release schedules none either.
- Reconciliation clears the row of a disabled credential and with it the
  `pending_delete` mark of a failed delete (`engine.go:852`).
- A handler's SaveNow and the timer's share `path + ".tmp"`; one renames what the
  other has just has just truncated (`persist.go:169`), or an older snapshot over a newer. The
  next save that runs alone puts the file right.
- On a reconfigure Load replaces rows and settings in memory by those of the file
  (`main.go:184`): rows written since the last save are lost, rows released since
  come back, and settings saved between its read and its assignment are gone.
- A write under one mailbox for an id that is another mailbox forgets the ids that
  led to the row of the latter, all but the last (`state.go:97`).
- A release removes the row an id resolves to, and a row without a mailbox leads
  to no other: an id with a row of its own and one under its mailbox needs two
  releases (`state.go:278`).
- `ReplaceAll` indexes a row by its key and the one id it names; other ids that
  earlier writes had indexed are forgotten by a restart or reconfigure (`state.go:360`).
- Workers set the progress to their own count after they have released the lock
  they counted under: what the console sees may go back, and its last value may
  be short of the total (`probe.go:522`).
- A forced start runs beside the run whose lock it clears, and may be refused
  when a third call takes the lock in between (`probe.go:413`).
- A ban asks whether the credential is disabled before it writes, which a disable
  may overtake, and a delete that falls back disables and writes: both leave the
  credential disabled and isolated until a reconciliation (`engine.go:438`, `554`).
  `DisabledExclusive` says that nothing but these, a host call that fails and the
  reauth below does.
- `applyDelete` and `applyReauth` mark their cooldown under the id, `ApplyAction`
  looks it up under the mailbox (`engine.go:530`, `1150`): they may be repeated at
  once.
- A failed management call of a disable saves the file, which by the comment at
  `engine.go:1000` switches the credential on.
- A reauth that fails, or whose probe fails, isolates without asking whether the
  credential is disabled (`engine.go:607`, `615`).
- A probe success does not reset the soft-403 streak (`engine.go:726`).

## 7. Not modelled, and the plan

Left out for good: parsing of requests and JWTs, the C ABI, the RPC glue, the
audit list, the string rules of provider matching, `ResolveStatePath`, exports,
and the browser console: no state of their own that a property is about, or
text only. `ClearStatus` and `ClearMany` have no callers. The next-run time is
only shown.

Planned, in this order:

1. The choice of targets of a full probe (`selectProbeTargets`) with the map of
   last results it reads after the lock, and ProbeOneWithJSON's second tries,
   composed with `ProbeFlight`.
2. A clock in `Fleet`, for what depends on which of two windows ends first.
