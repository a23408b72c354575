---------------------------- MODULE ActionEngine ----------------------------
(***************************************************************************)
(* The policy engine of internal/action for one credential: what real      *)
(* traffic, probes and the operator do to the host's disabled switch and   *)
(* to the credential's row in the isolation ledger.  Calls run on threads  *)
(* of their own (the host calls the plugin concurrently, a probe has its   *)
(* workers) and hold no lock from one step to the next: a call is the list *)
(* of the steps it has still to take, each one host call or one critical   *)
(* section of Engine.mu or State.mu.                                       *)
(*                                                                         *)
(* Durations are left out: the success grace, a cooldown and a row are in  *)
(* force until a step lets them lapse.                                     *)
(***************************************************************************)
EXTENDS Naturals, Sequences

CONSTANTS Calls,         \* threads that can be inside the engine at once
          Events,        \* what may call it (a subset of AllEvents)
          FailActions,   \* action_on_4xx and probe_action, per status
          OpActions,     \* what the operator applies
          OnSuccess,     \* probe_on_success
          AutoModes,     \* what auto_execute may be set to
          CooldownOn,    \* action_cooldown_seconds > 0
          Need,          \* fail_streak_403
          DeleteFallback,\* delete_fallback
          HasMailbox,    \* the host knows the credential's mailbox
          HasKey,        \* a management key is known
          ForceMgmt,     \* disable_via = management_api
          HostFails      \* whether host and management calls may fail

AllEvents  == {"usage_ok", "usage_fail", "probe_ok", "probe_fail", "probe_local",
               "operator", "unban", "reconcile"}
AllActions == {"ban", "disable", "delete", "reenable", "reauth",
               "using_api", "using_api_off"}
Modes      == {"none", "unban", "reenable", "unban_and_reenable"}

ASSUME ConfigAssumption ==
  /\ Events \subseteq AllEvents
  /\ FailActions \subseteq {"ban", "disable", "delete"}
  /\ OpActions \subseteq AllActions
  /\ OnSuccess \in Modes
  /\ AutoModes \subseteq BOOLEAN /\ AutoModes # {}
  /\ {CooldownOn, HasMailbox, HasKey, ForceMgmt, HostFails} \subseteq BOOLEAN
  /\ Need \in Nat \ {0}
  /\ DeleteFallback \in {"ban", "disable"}

VARIABLES auto,      \* auto_execute in the engine's config
          disabled,  \* the host's switch
          banned,    \* a live row in the ledger
          pending,   \* that row's pending_delete mark
          grace,     \* lastOK lies within usageSuccessGrace
          streak,    \* soft-403 failures counted
          cool,      \* <<key, action>> pairs in cooldown
          call,      \* what each thread is doing
          calm       \* nothing has come between disabled and banned (history)

vars == <<auto, disabled, banned, pending, grace, streak, cool, call, calm>>

Steps == {"grace", "soft", "hard", "cooldown", "cooldown_id", "ban_enabled", "isolate",
          "isolate_pending", "release", "mark", "mark_id", "disable", "try_disable",
          "enable", "delete", "refresh", "set_using_api", "look", "heal",
          "apply_success", "list_disabled"}

(* A cooldown is kept under the storage key of the row, or under the id.   *)
Keys == {"mailbox", "id"}

(* report: the call goes by a config in report-only mode.  older: it began  *)
(* before the row was last written.  graced: it began within a success     *)
(* grace that has not lapsed since.  held: it found the release of the row *)
(* in cooldown.  (All four are history.)                                   *)
Idle == [event |-> "none", action |-> "none", force |-> FALSE, key |-> "id",
         steps |-> << >>, report |-> FALSE, older |-> FALSE, graced |-> FALSE,
         held |-> FALSE]

Actions == AllActions \cup Modes \cup {"none"}

Call == [event : AllEvents \cup {"none"}, action : Actions,
         force : BOOLEAN, key : Keys, steps : Seq(Steps),
         report : BOOLEAN, older : BOOLEAN, graced : BOOLEAN, held : BOOLEAN]

TypeOK ==
  /\ auto \in AutoModes
  /\ {disabled, banned, pending, grace, calm} \subseteq BOOLEAN
  /\ streak \in 0..Need
  /\ cool \subseteq Keys \X Actions
  /\ call \in [Calls -> Call]

Init ==
  /\ auto \in AutoModes
  /\ disabled = FALSE /\ banned = FALSE /\ pending = FALSE /\ grace = FALSE
  /\ streak = 0
  /\ cool = {}
  /\ call = [c \in Calls |-> Idle]
  /\ calm = TRUE

-----------------------------------------------------------------------------
(* The plans of the entry points.                                          *)

ApplyAction(action) ==
  <<"cooldown">> \o
  CASE action = "ban"       -> <<"ban_enabled", "isolate", "mark">>
    [] action = "disable"   -> <<"disable", "release", "mark">>
    [] action = "delete"    -> <<"delete">>
    [] action = "reauth"    -> <<"refresh">>
    [] action = "using_api" -> <<"set_using_api", "release", "mark">>
    [] action = "using_api_off"    -> <<"set_using_api", "mark">>
    [] action = "reenable" -> <<"enable", "mark_id">>

\* Slips a rewrite could make stand next to what they would replace; a run under
\* one must break a property.  Here: nobody asks for a recent success.
ApplyFailureUngraced(action, kind) == <<kind>> \o ApplyAction(action)

ApplyFailure(action, kind) == <<"grace", kind>> \o ApplyAction(action)

applyDeleteFallback ==
  IF DeleteFallback = "ban" THEN <<"isolate_pending", "mark_id">>
  ELSE <<"try_disable", "isolate_pending", "mark_id">>

ApplySuccess(mode) ==
  CASE mode = "none"               -> << >>
    [] mode = "unban"              -> <<"cooldown_id", "release", "mark_id">>
    [] mode = "reenable"   -> <<"cooldown_id", "enable", "mark_id">>
    [] mode = "unban_and_reenable" -> <<"cooldown_id", "release", "enable", "mark_id">>

(* Which call an event makes: its action, whether it forces, its plan.  A  *)
(* probe goes by a copy of the config that may be older than the engine's. *)
(* In report-only mode it isolates and does no more, and a token that      *)
(* expired locally then skips ApplyFailure.                                *)
Plan(event, action, steps) ==
  [Idle EXCEPT !.event = event, !.action = action, !.steps = steps]

Forceable(plans) == {[p EXCEPT !.force = force] : p \in plans, force \in BOOLEAN}
Report(plans)    == {[p EXCEPT !.report = TRUE] : p \in plans}

UsageOK == {Plan("usage_ok", "unban", <<"look">>)}

FailPlans(event, actions, kinds) ==
  {Plan(event, a, ApplyFailure(a, kind)) : a \in actions, kind \in kinds}

UsageFail == FailPlans("usage_fail", FailActions, {"soft", "hard"})

ProbeOK(execute) ==
  IF execute /\ OnSuccess # "none"
  THEN Forceable({Plan("probe_ok", OnSuccess, ApplySuccess(OnSuccess))})
  ELSE {Idle}

\* Slip: a probe carries out its action in report-only mode too.
ProbeFailActs(execute) ==
  LET plans == FailPlans("probe_fail", FailActions, {"soft", "hard"})
  IN  IF execute THEN plans ELSE Report(plans)

ProbeFail(execute) ==
  IF execute THEN FailPlans("probe_fail", FailActions, {"soft", "hard"})
  ELSE Report(FailPlans("probe_fail", {"ban"}, {"soft", "hard"}))

ProbeLocal(execute) ==
  IF execute THEN Forceable(FailPlans("probe_local", FailActions, {"hard"}))
  ELSE Report(Forceable({Plan("probe_local", "ban", ApplyAction("ban"))}))

Operator == Forceable({Plan("operator", a, ApplyAction(a)) : a \in OpActions})

Unban     == {Plan("unban", "none", <<"release">>)}
Reconcile == {Plan("reconcile", "none", <<"list_disabled", "release">>)}

PlansOf(event) ==
  CASE event = "usage_ok"    -> UsageOK
    [] event = "usage_fail"  -> UsageFail
    [] event = "probe_ok"    -> UNION {ProbeOK(copy) : copy \in AutoModes}
    [] event = "probe_fail"  -> UNION {ProbeFail(copy) : copy \in AutoModes}
    [] event = "probe_local" -> UNION {ProbeLocal(copy) : copy \in AutoModes}
    [] event = "operator"    -> Operator
    [] event = "unban"       -> Unban
    [] event = "reconcile"   -> Reconcile

(* Where ApplyAction keeps its cooldown: the probe brings the mailbox, any *)
(* other caller looks it up with a host call.                              *)
lookupEmail(event) ==
  IF ~HasMailbox THEN {"id"}
  ELSE IF HostFails /\ event \in {"usage_fail", "operator"} THEN Keys
  ELSE {"mailbox"}

probeLikeSource(c) == call[c].event \in {"probe_fail", "probe_local"}

AllIdle == \A c \in Calls : call[c] = Idle

(* A call begins; a usage success first notes the time of the success.     *)
(* It is calm again when the call is alone and finds the credential not    *)
(* both disabled and isolated, or comes to put that right.                 *)
Begin(c, event) ==
  /\ call[c] = Idle
  /\ calm' = (AllIdle /\ (~(disabled /\ banned) \/ event = "reconcile"))
  /\ grace' = (grace \/ event = "usage_ok")
  /\ \E plan \in PlansOf(event), key \in lookupEmail(event) :
       call' = [call EXCEPT ![c] =
                  IF plan = Idle THEN Idle
                  ELSE [plan EXCEPT !.key = key, !.older = banned, !.graced = grace]]
  /\ UNCHANGED <<auto, disabled, banned, pending, streak, cool>>

-----------------------------------------------------------------------------
(* Steps.                                                                  *)

At(c, step) == call[c].steps # << >> /\ Head(call[c].steps) = step

After(c, steps) == IF steps = << >> THEN Idle ELSE [call[c] EXCEPT !.steps = steps]

Goto(c, steps) == call' = [call EXCEPT ![c] = After(c, steps)]
Continue(c)    == Goto(c, Tail(call[c].steps))
Return(c)      == Goto(c, << >>)

ledger == <<banned, pending>>

Grace(c) ==
  /\ At(c, "grace")
  /\ IF ~call[c].force /\ probeLikeSource(c) /\ grace THEN Return(c) ELSE Continue(c)
  /\ UNCHANGED <<auto, disabled, ledger, grace, streak, cool, calm>>

\* Slip: the streak is not reset when it is reached.
bumpStreakOn(c) ==
  /\ At(c, "soft")
  /\ streak' = streak + 1
  /\ IF streak + 1 >= Need THEN Continue(c) ELSE Return(c)
  /\ UNCHANGED <<auto, disabled, ledger, grace, cool, calm>>

(* bumpSoft403Streak                                                       *)
bumpStreak(c) ==
  /\ At(c, "soft")
  /\ IF streak + 1 >= Need
     THEN streak' = 0 /\ Continue(c)
     ELSE streak' = streak + 1 /\ Return(c)
  /\ UNCHANGED <<auto, disabled, ledger, grace, cool, calm>>

clearStreak(c) ==
  /\ At(c, "hard")
  /\ streak' = 0
  /\ Continue(c)
  /\ UNCHANGED <<auto, disabled, ledger, grace, cool, calm>>

\* Slip: a cooldown is looked up under the id alone.
inCooldownById(c, key) == CooldownOn /\ <<"id", call[c].action>> \in cool

inCooldown(c, key) == CooldownOn /\ <<key, call[c].action>> \in cool

Cooldown(c) ==
  /\ \/ At(c, "cooldown") /\ IF ~call[c].force /\ inCooldown(c, call[c].key)
                             THEN Return(c) ELSE Continue(c)
     \/ At(c, "cooldown_id") /\ IF ~call[c].force /\ inCooldown(c, "id")
                                THEN Return(c) ELSE Continue(c)
  /\ UNCHANGED <<auto, disabled, ledger, grace, streak, cool, calm>>

markCooldown(c) ==
  /\ \/ At(c, "mark") /\ cool' = cool \cup {k \in {<<call[c].key, call[c].action>>} : CooldownOn}
     \/ At(c, "mark_id") /\ cool' = cool \cup {k \in {<<"id", call[c].action>>} : CooldownOn}
  /\ Continue(c)
  /\ UNCHANGED <<auto, disabled, ledger, grace, streak, calm>>

\* Slip: a ban does not ask whether the credential is disabled.
BanAnyway(c) ==
  /\ At(c, "ban_enabled")
  /\ Continue(c)
  /\ UNCHANGED <<auto, disabled, ledger, grace, streak, cool, calm>>

(* hostCredentialDisabled, before a ban: a disabled credential has its row *)
(* cleared instead; a listing that fails counts as not disabled.           *)
BanEnabled(c) ==
  /\ At(c, "ban_enabled")
  /\ \/ disabled /\ Goto(c, <<"release">>) /\ UNCHANGED calm
     \/ ~disabled /\ Continue(c) /\ UNCHANGED calm
     \/ disabled /\ HostFails /\ Continue(c) /\ calm' = FALSE
  /\ UNCHANGED <<auto, disabled, ledger, grace, streak, cool>>

(* bans.Set.  A row that lasts longer is kept, with its mark, unless the   *)
(* write marks the credential for deletion.                                *)
Isolate(c) ==
  /\ \/ At(c, "isolate") /\ pending' \in {FALSE, pending}
     \/ At(c, "isolate_pending") /\ pending' = TRUE
  /\ banned' = TRUE
  /\ LET next == [call EXCEPT ![c] = After(c, Tail(call[c].steps))]
     IN  call' = [d \in Calls |-> [next[d] EXCEPT !.older = FALSE]]
  /\ UNCHANGED <<auto, disabled, grace, streak, cool, calm>>

\* Slip: bans.Clear under the id only, and the row is under the mailbox.
ReleaseOfId(c) ==
  /\ At(c, "release")
  /\ banned' = (banned /\ HasMailbox) /\ pending' = (pending /\ HasMailbox)
  /\ Continue(c)
  /\ UNCHANGED <<auto, disabled, grace, streak, cool, calm>>

(* bans.Clear under the id and the mailbox.                                *)
Release(c) ==
  /\ At(c, "release")
  /\ banned' = FALSE /\ pending' = FALSE
  /\ Continue(c)
  /\ UNCHANGED <<auto, disabled, grace, streak, cool, calm>>

(***************************************************************************)
(* SetDisabled: what it leaves the switch at, and whether it reports       *)
(* success.  A management call that fails may have reached the host.  The  *)
(* fallback saves the file, which makes the host rebuild the credential as *)
(* active (so the comment in SetDisabled says of the host).                *)
(***************************************************************************)
SetDisabled(d) ==
  {o \in [disabled : BOOLEAN, ok : BOOLEAN] :
     \/ HasKey /\ o = [disabled |-> d, ok |-> TRUE]
     \/ HostFails /\ ~o.ok /\ o.disabled \in {disabled} \cup {x \in {d} : HasKey}
     \/ HostFails /\ HasKey /\ ~ForceMgmt /\ o = [disabled |-> FALSE, ok |-> FALSE]
     \/ ~HasKey /\ o = [disabled |-> FALSE, ok |-> ~d]}

Switch(c) ==
  /\ \/ /\ At(c, "disable") \/ At(c, "enable")
        /\ \E o \in SetDisabled(At(c, "disable")) :
             /\ disabled' = o.disabled /\ calm' = (calm /\ o.ok)
             /\ IF o.ok THEN Continue(c) ELSE Return(c)
     \/ /\ At(c, "try_disable")
        /\ \E o \in SetDisabled(TRUE) : disabled' = o.disabled
        /\ Continue(c) /\ UNCHANGED calm
  /\ UNCHANGED <<auto, ledger, grace, streak, cool>>

(* applyDelete: the management API, or else the fallback.                  *)
Delete(c) ==
  /\ At(c, "delete")
  /\ \/ HasKey /\ Goto(c, <<"release", "mark_id">>) /\ UNCHANGED calm
     \/ (~HasKey \/ HostFails) /\ Goto(c, applyDeleteFallback) /\ calm' = FALSE
  /\ UNCHANGED <<auto, disabled, ledger, grace, streak, cool>>

(* applyReauth: the issuer may refuse, and the probe that follows a saved  *)
(* token may fail; either isolates, without asking whether it is disabled. *)
Refresh(c) ==
  /\ At(c, "refresh")
  /\ \/ HostFails /\ Return(c) /\ UNCHANGED <<disabled, calm>>
     \/ /\ Goto(c, <<"isolate", "mark_id">>)
        /\ disabled' \in {disabled, FALSE} /\ calm' = FALSE
     \/ Goto(c, <<"release", "mark_id">>) /\ disabled' = FALSE /\ UNCHANGED calm
  /\ UNCHANGED <<auto, ledger, grace, streak, cool>>

SetUsingAPI(c) ==
  /\ At(c, "set_using_api")
  /\ \/ HasKey /\ Continue(c) /\ UNCHANGED disabled
     \/ (~HasKey \/ HostFails) /\ Continue(c) /\ disabled' = FALSE
     \/ HostFails /\ Return(c) /\ disabled' \in {disabled, FALSE}
  /\ UNCHANGED <<auto, ledger, grace, streak, cool, calm>>

(* ApplyUsageSuccess looks whether there is a row and reads the config;    *)
(* then it clears the streak, releases the row if it was there and         *)
(* SuccessUnban is not in cooldown, and goes on to ApplySuccess when       *)
(* auto_execute and probe_on_success say so.                               *)
ThenReenable ==
  IF auto /\ OnSuccess \in {"reenable", "unban_and_reenable"}
  THEN <<"apply_success">> ELSE << >>

Look(c) ==
  /\ At(c, "look")
  /\ call' = [call EXCEPT ![c].report = ~auto,
                          ![c].steps = <<"hard">> \o (IF banned THEN <<"heal">> ELSE << >>)
                                       \o ThenReenable]
  /\ UNCHANGED <<auto, disabled, ledger, grace, streak, cool, calm>>

Heal(c) ==
  /\ At(c, "heal")
  /\ LET rest == Tail(call[c].steps)
     IN  IF inCooldown(c, "id")
         THEN call' = [call EXCEPT ![c] = IF rest = << >> THEN Idle
                                          ELSE [@ EXCEPT !.steps = rest, !.held = TRUE]]
         ELSE Goto(c, <<"release", "mark_id">> \o rest)
  /\ UNCHANGED <<auto, disabled, ledger, grace, streak, cool, calm>>

Reenable(c) ==
  /\ At(c, "apply_success")
  /\ call' = [call EXCEPT ![c].action = OnSuccess, ![c].steps = ApplySuccess(OnSuccess)]
  /\ UNCHANGED <<auto, disabled, ledger, grace, streak, cool, calm>>

(* ReconcileDisabledExclusive                                              *)
ListDisabled(c) ==
  /\ At(c, "list_disabled")
  /\ \/ disabled /\ Continue(c) /\ UNCHANGED calm
     \/ ~disabled /\ Return(c) /\ UNCHANGED calm
     \/ disabled /\ HostFails /\ Return(c) /\ calm' = FALSE
  /\ UNCHANGED <<auto, disabled, ledger, grace, streak, cool>>

Step(c) ==
  \/ Grace(c) \/ bumpStreak(c) \/ clearStreak(c) \/ Cooldown(c) \/ markCooldown(c)
  \/ BanEnabled(c) \/ Isolate(c) \/ Release(c) \/ Switch(c)
  \/ Delete(c) \/ Refresh(c) \/ SetUsingAPI(c)
  \/ Look(c) \/ Heal(c) \/ Reenable(c) \/ ListDisabled(c)

(* The operator saves settings.                                            *)
UpdateConfig ==
  /\ auto' \in AutoModes \ {auto}
  /\ UNCHANGED <<disabled, ledger, grace, streak, cool, call, calm>>

(* Time passes: the grace, the streak's window, a cooldown, the row.       *)
GraceLapses ==
  /\ grace /\ grace' = FALSE
  /\ call' = [c \in Calls |-> [call[c] EXCEPT !.graced = FALSE]]
  /\ UNCHANGED <<auto, disabled, ledger, streak, cool, calm>>

StreakLapses ==
  /\ streak > 0 /\ streak' = 0
  /\ UNCHANGED <<auto, disabled, ledger, grace, cool, call, calm>>

CooldownLapses ==
  /\ \E k \in cool : cool' = cool \ {k}
  /\ UNCHANGED <<auto, disabled, ledger, grace, streak, call, calm>>

RowExpires ==
  /\ banned /\ banned' = FALSE /\ pending' = FALSE
  /\ UNCHANGED <<auto, disabled, grace, streak, cool, call, calm>>

Next ==
  \/ \E c \in Calls : (\E event \in Events : Begin(c, event)) \/ Step(c)
  \/ UpdateConfig
  \/ GraceLapses \/ StreakLapses \/ CooldownLapses \/ RowExpires

Spec == Init /\ [][Next]_vars
-----------------------------------------------------------------------------
(* Properties.                                                             *)

Moved(c) == call'[c].steps # call[c].steps

(***************************************************************************)
(* The success grace shields from probes: a probe's call that begins while *)
(* a usage success is fresh, and that is not forced, changes neither the   *)
(* row nor the switch as long as the success is fresh, whatever runs       *)
(* beside it.                                                              *)
(***************************************************************************)
GraceShields ==
  [][\A c \in Calls :
       Moved(c) /\ call[c].graced /\ probeLikeSource(c) /\ ~call[c].force =>
         UNCHANGED <<disabled, ledger>>]_vars

(***************************************************************************)
(* Success is the last word on what came before it: when a usage success,  *)
(* a manual unban, or a disable that worked returns, the row it found, or  *)
(* any written before it began, is gone.  A row that is there was written  *)
(* by a failure that raced with it, or a usage success found its release   *)
(* in cooldown, as it may for a minute after the last one.                 *)
(***************************************************************************)
Clears(c) ==
  \/ call[c].event \in {"usage_ok", "unban"}
  \/ At(c, "mark") /\ call[c].action \in {"disable", "using_api"}

Held(c) ==
  /\ call[c].event = "usage_ok"
  /\ call[c].held \/ (At(c, "heal") /\ inCooldown(c, "id"))

ClearsOlderRow ==
  [][\A c \in Calls :
       call[c] # Idle /\ call'[c] = Idle /\ Clears(c) =>
         ~(call[c].older /\ banned') \/ Held(c)]_vars

(***************************************************************************)
(* Report-only mode spares the host: no step of a call that goes by a      *)
(* config with auto_execute off, be it a probe's or that of a usage        *)
(* success, touches the switch, also when the mode changes meanwhile.      *)
(***************************************************************************)
ReportOnlySparesHost ==
  [][\A c \in Calls : Moved(c) /\ call[c].report => UNCHANGED disabled]_vars

(***************************************************************************)
(* Disabled and isolated exclude each other (CHANGELOG 1.1.9) between      *)
(* calls that come one at a time, as far as the code sees to it: a         *)
(* disabled credential has no row in the ledger, whatever the calls were   *)
(* and with what cooldowns.  Not so after calls that overlapped, a switch  *)
(* or a listing that failed, a delete that fell back and a reauth that     *)
(* isolated; one call of the reconciliation, by itself and answered, puts  *)
(* that right again.                                                       *)
(***************************************************************************)
DisabledExclusive == AllIdle /\ calm => ~(disabled /\ banned)

(***************************************************************************)
(* What is asked of the cooldown: an action that was carried out is not    *)
(* carried out again for the same credential, unforced, before its         *)
(* cooldown is over.                                                       *)
(***************************************************************************)
CooldownHolds ==
  [][\A c \in Calls :
       /\ At(c, "cooldown") /\ ~call[c].force /\ Moved(c)
       /\ \E key \in Keys : <<key, call[c].action>> \in cool
       => call'[c] = Idle]_vars

=============================================================================
