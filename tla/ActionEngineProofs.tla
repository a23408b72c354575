------------------------- MODULE ActionEngineProofs -------------------------
(***************************************************************************)
(* Theorems about the policy engine, for any number of calls inside it at  *)
(* once and every configuration: its types, and the shield that the        *)
(* success grace is against probes.                                        *)
(***************************************************************************)
EXTENDS ActionEngine, SequenceTheorems, TLAPS

-----------------------------------------------------------------------------
(* The plans are sequences of steps.                                       *)

LEMMA JoinedSteps ==
  ASSUME NEW s \in Seq(Steps), NEW t \in Seq(Steps)
  PROVE  s \o t \in Seq(Steps)
BY ConcatProperties

LEMMA ActionSteps ==
  ASSUME NEW a \in AllActions
  PROVE  ApplyAction(a) \in Seq(Steps)
<1>1. <<"cooldown">> \in Seq(Steps)
  BY DEF Steps
<1>2. SUFFICES \E rest \in Seq(Steps) : ApplyAction(a) = <<"cooldown">> \o rest
  BY <1>1, JoinedSteps
<1>3. CASE a = "ban"
  <2>1. <<"ban_enabled", "isolate", "mark">> \in Seq(Steps)
    BY DEF Steps
  <2> QED
    BY <1>3, <2>1 DEF ApplyAction
<1>4. CASE a = "disable"
  <2>1. <<"disable", "release", "mark">> \in Seq(Steps)
    BY DEF Steps
  <2> QED
    BY <1>4, <2>1 DEF ApplyAction
<1>5. CASE a = "delete"
  <2>1. <<"delete">> \in Seq(Steps)
    BY DEF Steps
  <2> QED
    BY <1>5, <2>1 DEF ApplyAction
<1>6. CASE a = "reauth"
  <2>1. <<"refresh">> \in Seq(Steps)
    BY DEF Steps
  <2> QED
    BY <1>6, <2>1 DEF ApplyAction
<1>7. CASE a = "using_api"
  <2>1. <<"set_using_api", "release", "mark">> \in Seq(Steps)
    BY DEF Steps
  <2> QED
    BY <1>7, <2>1 DEF ApplyAction
<1>8. CASE a = "using_api_off"
  <2>1. <<"set_using_api", "mark">> \in Seq(Steps)
    BY DEF Steps
  <2> QED
    BY <1>8, <2>1 DEF ApplyAction
<1>9. CASE a = "reenable"
  <2>1. <<"enable", "mark_id">> \in Seq(Steps)
    BY DEF Steps
  <2> QED
    BY <1>9, <2>1 DEF ApplyAction
<1> QED
  BY <1>3, <1>4, <1>5, <1>6, <1>7, <1>8, <1>9 DEF AllActions

LEMMA FailureSteps ==
  ASSUME NEW a \in AllActions, NEW kind \in {"soft", "hard"}
  PROVE  /\ ApplyFailure(a, kind) \in Seq(Steps)
         /\ ApplyFailure(a, kind) # << >> /\ Head(ApplyFailure(a, kind)) = "grace"
<1> DEFINE first == <<"grace", kind>>
<1>1. first \in Seq(Steps) /\ Len(first) = 2 /\ first[1] = "grace"
  BY DEF Steps
<1>2. ApplyAction(a) \in Seq(Steps)
  BY ActionSteps
<1>3. ApplyFailure(a, kind) = first \o ApplyAction(a)
  BY DEF ApplyFailure
<1> HIDE DEF first
<1>4. /\ first \o ApplyAction(a) \in Seq(Steps)
      /\ Len(first \o ApplyAction(a)) = Len(first) + Len(ApplyAction(a))
      /\ \A i \in 1 .. Len(first) + Len(ApplyAction(a)) :
           (first \o ApplyAction(a))[i] =
             IF i <= Len(first) THEN first[i] ELSE ApplyAction(a)[i - Len(first)]
  BY <1>1, <1>2, ConcatProperties
<1>5. Len(ApplyAction(a)) \in Nat
  BY <1>2, LenProperties
<1>6. (first \o ApplyAction(a))[1] = "grace" /\ Len(first \o ApplyAction(a)) > 0
  BY <1>1, <1>4, <1>5
<1> QED
  BY <1>3, <1>4, <1>6

LEMMA SuccessSteps ==
  ASSUME NEW m \in Modes
  PROVE  ApplySuccess(m) \in Seq(Steps)
<1>1. CASE m = "none"
  BY <1>1 DEF ApplySuccess
<1>2. CASE m = "unban"
  <2>1. <<"cooldown_id", "release", "mark_id">> \in Seq(Steps)
    BY DEF Steps
  <2> QED
    BY <1>2, <2>1 DEF ApplySuccess
<1>3. CASE m = "reenable"
  <2>1. <<"cooldown_id", "enable", "mark_id">> \in Seq(Steps)
    BY DEF Steps
  <2> QED
    BY <1>3, <2>1 DEF ApplySuccess
<1>4. CASE m = "unban_and_reenable"
  <2>1. <<"cooldown_id", "release", "enable", "mark_id">> \in Seq(Steps)
    BY DEF Steps
  <2> QED
    BY <1>4, <2>1 DEF ApplySuccess
<1> QED
  BY <1>1, <1>2, <1>3, <1>4 DEF Modes

LEMMA FallbackSteps == applyDeleteFallback \in Seq(Steps)
<1>1. <<"isolate_pending", "mark_id">> \in Seq(Steps)
  BY DEF Steps
<1>2. <<"try_disable", "isolate_pending", "mark_id">> \in Seq(Steps)
  BY DEF Steps
<1> QED
  BY <1>1, <1>2 DEF applyDeleteFallback

LEMMA ReenableSteps == ThenReenable \in Seq(Steps)
<1>1. <<"apply_success">> \in Seq(Steps)
  BY DEF Steps
<1> QED
  BY <1>1 DEF ThenReenable

(* A failure's plan begins with the question of the grace.                 *)
GraceFirst(plan) == plan.steps # << >> /\ Head(plan.steps) = "grace"

LEMMA IdleType == Idle \in Call
BY DEF Idle, Call, Actions, Keys, AllEvents

LEMMA PlanType ==
  ASSUME NEW event \in AllEvents, NEW a \in Actions, NEW steps \in Seq(Steps)
  PROVE  /\ Plan(event, a, steps) \in Call
         /\ Plan(event, a, steps).event = event
         /\ Plan(event, a, steps).steps = steps
<1>1. \A r \in Call :
        LET p == [r EXCEPT !.event = event, !.action = a, !.steps = steps]
        IN  p \in Call /\ p.event = event /\ p.steps = steps
  BY DEF Call
<1> QED
  BY <1>1, IdleType DEF Plan

LEMMA ForceableType ==
  ASSUME NEW plans, plans \subseteq Call, NEW p \in Forceable(plans)
  PROVE  /\ p \in Call
         /\ \E q \in plans : p.event = q.event /\ p.steps = q.steps
BY DEF Forceable, Call

LEMMA ReportType ==
  ASSUME NEW plans, plans \subseteq Call, NEW p \in Report(plans)
  PROVE  p \in Call /\ p.report /\ \E q \in plans : p.event = q.event
BY DEF Report, Call

LEMMA KnownActions ==
  /\ AllActions \subseteq Actions /\ Modes \subseteq Actions /\ "none" \in Actions
  /\ FailActions \subseteq AllActions /\ OpActions \subseteq AllActions
  /\ {"ban"} \subseteq AllActions
BY ConfigAssumption DEF Actions, AllActions

LEMMA FailPlansType ==
  ASSUME NEW event \in AllEvents, NEW actions \in SUBSET AllActions,
         NEW kinds \in SUBSET {"soft", "hard"},
         NEW p \in FailPlans(event, actions, kinds)
  PROVE  p \in Call /\ p.event = event /\ GraceFirst(p)
<1>1. PICK a \in actions, kind \in kinds : p = Plan(event, a, ApplyFailure(a, kind))
  BY DEF FailPlans
<1>2. /\ ApplyFailure(a, kind) \in Seq(Steps)
      /\ ApplyFailure(a, kind) # << >> /\ Head(ApplyFailure(a, kind)) = "grace"
  BY FailureSteps
<1>3. a \in Actions
  BY KnownActions
<1> QED
  BY <1>1, <1>2, <1>3, PlanType DEF GraceFirst

(* Every plan is well formed, and a probe's begins with the question of    *)
(* the grace, unless the mode may be report-only.                          *)
LEMMA PlanTypes ==
  ASSUME NEW event \in AllEvents, NEW plan \in PlansOf(event)
  PROVE  /\ plan \in Call
         /\ plan.event \in {"probe_fail", "probe_local"} =>
              GraceFirst(plan) \/ FALSE \in AutoModes
<1>1. CASE event = "usage_ok"
  <2>1. <<"look">> \in Seq(Steps) /\ "unban" \in Actions
    BY DEF Steps, Actions, Modes
  <2>2. plan = Plan("usage_ok", "unban", <<"look">>)
    BY <1>1 DEF PlansOf, UsageOK
  <2> QED
    BY <1>1, <2>1, <2>2, PlanType
<1>2. CASE event = "usage_fail"
  <2>1. plan \in FailPlans("usage_fail", FailActions, {"soft", "hard"})
    BY <1>2 DEF PlansOf, UsageFail
  <2> QED
    BY <1>2, <2>1, FailPlansType, KnownActions
<1>3. CASE event = "probe_ok"
  <2>1. OnSuccess \in Modes
    BY ConfigAssumption
  <2> DEFINE healed == {Plan("probe_ok", OnSuccess, ApplySuccess(OnSuccess))}
  <2>2. \A q \in healed : q \in Call /\ q.event = "probe_ok"
    BY <1>3, <2>1, SuccessSteps, KnownActions, PlanType
  <2>3. PICK copy \in AutoModes : plan \in ProbeOK(copy)
    BY <1>3 DEF PlansOf
  <2>4. plan = Idle \/ plan \in Forceable(healed)
    BY <2>3 DEF ProbeOK
  <2> HIDE DEF healed
  <2>5. CASE plan = Idle
    <3>1. Idle.event = "none"
      BY DEF Idle
    <3> QED
      BY <2>5, <3>1, IdleType
  <2>6. CASE plan \in Forceable(healed)
    <3>1. healed \subseteq Call
      BY <2>2
    <3>2. plan \in Call /\ plan.event = "probe_ok"
      BY <2>2, <2>6, <3>1, ForceableType
    <3> QED
      BY <3>2
  <2> QED
    BY <2>4, <2>5, <2>6
<1>4. CASE event = "probe_fail"
  <2>1. PICK copy \in AutoModes : plan \in ProbeFail(copy)
    BY <1>4 DEF PlansOf
  <2>2. FailPlans("probe_fail", {"ban"}, {"soft", "hard"}) \subseteq Call
    BY <1>4, FailPlansType, KnownActions
  <2>3. \/ plan \in FailPlans("probe_fail", FailActions, {"soft", "hard"})
        \/ /\ FALSE \in AutoModes
           /\ plan \in Report(FailPlans("probe_fail", {"ban"}, {"soft", "hard"}))
    BY <2>1, ConfigAssumption DEF ProbeFail
  <2>4. CASE plan \in FailPlans("probe_fail", FailActions, {"soft", "hard"})
    BY <1>4, <2>4, FailPlansType, KnownActions
  <2>5. CASE /\ FALSE \in AutoModes
             /\ plan \in Report(FailPlans("probe_fail", {"ban"}, {"soft", "hard"}))
    BY <2>2, <2>5, ReportType
  <2> QED
    BY <2>3, <2>4, <2>5
<1>5. CASE event = "probe_local"
  <2>1. PICK copy \in AutoModes : plan \in ProbeLocal(copy)
    BY <1>5 DEF PlansOf
  <2> DEFINE judged == FailPlans("probe_local", FailActions, {"hard"})
             told   == {Plan("probe_local", "ban", ApplyAction("ban"))}
  <2>2. \/ plan \in Forceable(judged)
        \/ FALSE \in AutoModes /\ plan \in Report(Forceable(told))
    <3>1. copy = TRUE \/ copy = FALSE
      BY ConfigAssumption
    <3>2. CASE copy = TRUE
      BY <2>1, <3>2 DEF ProbeLocal
    <3>3. CASE copy = FALSE
      <4>1. FALSE \in AutoModes
        BY <3>3
      <4>2. plan \in Report(Forceable(told))
        BY <2>1, <3>3 DEF ProbeLocal
      <4> QED
        BY <4>1, <4>2
    <3> QED
      BY <3>1, <3>2, <3>3
  <2>3. \A q \in judged : q \in Call /\ q.event = event /\ GraceFirst(q)
    BY <1>5, FailPlansType, KnownActions
  <2>4. told \subseteq Call
    BY <1>5, ActionSteps, KnownActions, PlanType
  <2> HIDE DEF judged, told
  <2>5. CASE plan \in Forceable(judged)
    BY <2>3, <2>5, ForceableType DEF GraceFirst
  <2>6. CASE FALSE \in AutoModes /\ plan \in Report(Forceable(told))
    <3>1. Forceable(told) \subseteq Call
      BY <2>4, ForceableType
    <3> QED
      BY <2>6, <3>1, ReportType
  <2> QED
    BY <2>2, <2>5, <2>6
<1>6. CASE event = "operator"
  <2> DEFINE chosen == {Plan("operator", a, ApplyAction(a)) : a \in OpActions}
  <2>1. \A q \in chosen : q \in Call /\ q.event = "operator"
    BY <1>6, ActionSteps, KnownActions, PlanType
  <2>2. plan \in Forceable(chosen)
    BY <1>6 DEF PlansOf, Operator
  <2> HIDE DEF chosen
  <2> QED
    BY <2>1, <2>2, ForceableType
<1>7. CASE event = "unban"
  <2>1. <<"release">> \in Seq(Steps)
    BY DEF Steps
  <2>2. plan = Plan("unban", "none", <<"release">>)
    BY <1>7 DEF PlansOf, Unban
  <2> QED
    BY <1>7, <2>1, <2>2, PlanType, KnownActions
<1>8. CASE event = "reconcile"
  <2>1. <<"list_disabled", "release">> \in Seq(Steps)
    BY DEF Steps
  <2>2. plan = Plan("reconcile", "none", <<"list_disabled", "release">>)
    BY <1>8 DEF PlansOf, Reconcile
  <2> QED
    BY <1>8, <2>1, <2>2, PlanType, KnownActions
<1> QED
  BY <1>1, <1>2, <1>3, <1>4, <1>5, <1>6, <1>7, <1>8 DEF AllEvents

-----------------------------------------------------------------------------
(* What a step may do to the calls.                                        *)

(* Thread c is done or goes on with the same call; the others stay, but a  *)
(* row that is written is older than none of them.                         *)
GoesOn(c) ==
  /\ call' \in [Calls -> Call]
  /\ call'[c].graced => /\ call[c].graced
                        /\ call'[c].event = call[c].event
                        /\ call'[c].force = call[c].force
  /\ \A d \in Calls \ {c} :
       /\ call'[d].steps = call[d].steps /\ call'[d].graced = call[d].graced
       /\ call'[d].event = call[d].event /\ call'[d].force = call[d].force

LEMMA AfterType ==
  ASSUME call \in [Calls -> Call], NEW c \in Calls, NEW steps \in Seq(Steps)
  PROVE  /\ After(c, steps) \in Call
         /\ After(c, steps).graced => /\ call[c].graced
                                      /\ After(c, steps).event = call[c].event
                                      /\ After(c, steps).force = call[c].force
<1>1. CASE steps = << >>
  <2>1. After(c, steps) = Idle /\ ~Idle.graced
    BY <1>1 DEF After, Idle
  <2> QED
    BY <2>1, IdleType
<1>2. CASE steps # << >>
  <2>1. After(c, steps) = [call[c] EXCEPT !.steps = steps]
    BY <1>2 DEF After
  <2>2. call[c] \in Call
    OBVIOUS
  <2> QED
    BY <2>1, <2>2 DEF Call
<1> QED
  BY <1>1, <1>2

LEMMA GotoType ==
  ASSUME call \in [Calls -> Call], NEW c \in Calls, NEW steps \in Seq(Steps), Goto(c, steps)
  PROVE  GoesOn(c)
<1>1. call' = [call EXCEPT ![c] = After(c, steps)]
  BY DEF Goto
<1> QED
  BY <1>1, AfterType DEF GoesOn

LEMMA TailType ==
  ASSUME call \in [Calls -> Call], NEW c \in Calls, NEW step, At(c, step)
  PROVE  Tail(call[c].steps) \in Seq(Steps)
<1>1. call[c].steps \in Seq(Steps) /\ call[c].steps # << >>
  BY DEF At, Call
<1> QED
  BY <1>1, HeadTailProperties

LEMMA ContinueType ==
  ASSUME call \in [Calls -> Call], NEW c \in Calls, NEW step, At(c, step), Continue(c)
  PROVE  GoesOn(c)
<1>1. Tail(call[c].steps) \in Seq(Steps)
  BY TailType
<1> QED
  BY <1>1, GotoType DEF Continue

LEMMA ReturnType ==
  ASSUME call \in [Calls -> Call], NEW c \in Calls, Return(c)
  PROVE  GoesOn(c)
<1>1. << >> \in Seq(Steps)
  OBVIOUS
<1> QED
  BY <1>1, GotoType DEF Return

LEMMA StepGoesOn ==
  ASSUME call \in [Calls -> Call], NEW c \in Calls, Step(c)
  PROVE  GoesOn(c)
<1>1. CASE Grace(c)
  BY <1>1, ContinueType, ReturnType DEF Grace
<1>2. CASE bumpStreak(c)
  BY <1>2, ContinueType, ReturnType DEF bumpStreak
<1>3. CASE clearStreak(c)
  BY <1>3, ContinueType DEF clearStreak
<1>4. CASE Cooldown(c)
  BY <1>4, ContinueType, ReturnType DEF Cooldown
<1>5. CASE markCooldown(c)
  BY <1>5, ContinueType DEF markCooldown
<1>6. CASE BanEnabled(c)
  <2>1. <<"release">> \in Seq(Steps)
    BY DEF Steps
  <2> QED
    BY <1>6, <2>1, ContinueType, GotoType DEF BanEnabled
<1>7. CASE Isolate(c)
  <2> DEFINE rest == Tail(call[c].steps)
             next == [call EXCEPT ![c] = After(c, rest)]
  <2>1. rest \in Seq(Steps)
    BY <1>7, TailType DEF Isolate
  <2>2. call' = [d \in Calls |-> [next[d] EXCEPT !.older = FALSE]]
    BY <1>7 DEF Isolate
  <2> HIDE DEF rest
  <2>3. next \in [Calls -> Call] /\ next[c] = After(c, rest)
        /\ \A d \in Calls \ {c} : next[d] = call[d]
    BY <2>1, AfterType
  <2> HIDE DEF next
  <2>4. \A d \in Calls : call'[d] = [next[d] EXCEPT !.older = FALSE] /\ next[d] \in Call
    BY <2>2, <2>3
  <2>5. \A d \in Calls :
          /\ call'[d] \in Call
          /\ call'[d].steps = next[d].steps /\ call'[d].graced = next[d].graced
          /\ call'[d].event = next[d].event /\ call'[d].force = next[d].force
    BY <2>4 DEF Call
  <2>6. call' \in [Calls -> Call]
    BY <2>2, <2>5
  <2> QED
    BY <2>1, <2>3, <2>5, <2>6, AfterType DEF GoesOn
<1>8. CASE Release(c)
  BY <1>8, ContinueType DEF Release
<1>9. CASE Switch(c)
  BY <1>9, ContinueType, ReturnType DEF Switch
<1>10. CASE Delete(c)
  <2>1. <<"release", "mark_id">> \in Seq(Steps)
    BY DEF Steps
  <2> QED
    BY <1>10, <2>1, FallbackSteps, GotoType DEF Delete
<1>11. CASE Refresh(c)
  <2>1. <<"release", "mark_id">> \in Seq(Steps) /\ <<"isolate", "mark_id">> \in Seq(Steps)
    BY DEF Steps
  <2> QED
    BY <1>11, <2>1, ReturnType, GotoType DEF Refresh
<1>12. CASE SetUsingAPI(c)
  BY <1>12, ContinueType, ReturnType DEF SetUsingAPI
<1>13. CASE Look(c)
  <2> DEFINE steps == <<"hard">> \o (IF banned THEN <<"heal">> ELSE << >>) \o ThenReenable
  <2>1. <<"hard">> \in Seq(Steps) /\ <<"heal">> \in Seq(Steps) /\ << >> \in Seq(Steps)
    BY DEF Steps
  <2>2. steps \in Seq(Steps)
    BY <2>1, JoinedSteps, ReenableSteps
  <2>3. call' = [call EXCEPT ![c].report = ~auto, ![c].steps = steps]
    BY <1>13 DEF Look
  <2> HIDE DEF steps
  <2>4. call' = [call EXCEPT ![c] = [call[c] EXCEPT !.report = ~auto, !.steps = steps]]
    BY <2>3
  <2>5. /\ [call[c] EXCEPT !.report = ~auto, !.steps = steps] \in Call
        /\ [call[c] EXCEPT !.report = ~auto, !.steps = steps].graced = call[c].graced
        /\ [call[c] EXCEPT !.report = ~auto, !.steps = steps].event = call[c].event
        /\ [call[c] EXCEPT !.report = ~auto, !.steps = steps].force = call[c].force
    BY <2>2 DEF Call
  <2> QED
    BY <2>4, <2>5 DEF GoesOn
<1>14. CASE Heal(c)
  <2> DEFINE first == <<"release", "mark_id">>
             rest  == Tail(call[c].steps)
             told  == [call[c] EXCEPT !.steps = rest, !.held = TRUE]
  <2>1. first \in Seq(Steps) /\ rest \in Seq(Steps)
    BY <1>14, TailType DEF Heal, Steps
  <2>2. \/ Goto(c, first \o rest)
        \/ call' = [call EXCEPT ![c] = IF rest = << >> THEN Idle ELSE told]
    BY <1>14 DEF Heal
  <2> HIDE DEF first, rest
  <2>3. /\ told \in Call /\ told.graced = call[c].graced
        /\ told.event = call[c].event /\ told.force = call[c].force
    BY <2>1 DEF Call
  <2> HIDE DEF told
  <2>4. CASE Goto(c, first \o rest)
    BY <2>1, <2>4, JoinedSteps, GotoType
  <2>5. CASE call' = [call EXCEPT ![c] = Idle]
    BY <2>5, IdleType DEF GoesOn, Idle
  <2>6. CASE call' = [call EXCEPT ![c] = told]
    BY <2>3, <2>6 DEF GoesOn
  <2> QED
    BY <2>2, <2>4, <2>5, <2>6
<1>15. CASE Reenable(c)
  <2>1. OnSuccess \in Modes /\ OnSuccess \in Actions /\ ApplySuccess(OnSuccess) \in Seq(Steps)
    BY ConfigAssumption, KnownActions, SuccessSteps
  <2> DEFINE after == [call[c] EXCEPT !.action = OnSuccess, !.steps = ApplySuccess(OnSuccess)]
  <2>2. call' = [call EXCEPT ![c] = after]
    BY <1>15 DEF Reenable
  <2>3. /\ after \in Call /\ after.graced = call[c].graced
        /\ after.event = call[c].event /\ after.force = call[c].force
    BY <2>1 DEF Call
  <2> HIDE DEF after
  <2> QED
    BY <2>2, <2>3 DEF GoesOn
<1>16. CASE ListDisabled(c)
  BY <1>16, ContinueType, ReturnType DEF ListDisabled
<1> QED
  BY <1>1, <1>2, <1>3, <1>4, <1>5, <1>6, <1>7, <1>8, <1>9, <1>10, <1>11, <1>12, <1>13,
     <1>14, <1>15, <1>16 DEF Step

-----------------------------------------------------------------------------
(* Types.                                                                  *)

(* TypeOK a variable at a time.                                            *)
LEMMA Types ==
  TypeOK <=> /\ auto \in AutoModes
             /\ disabled \in BOOLEAN /\ banned \in BOOLEAN
             /\ pending \in BOOLEAN /\ grace \in BOOLEAN
             /\ streak \in 0..Need
             /\ cool \subseteq Keys \X Actions
             /\ call \in [Calls -> Call]
             /\ calm \in BOOLEAN
BY DEF TypeOK

LEMMA InitType == Init => TypeOK
<1> SUFFICES ASSUME Init PROVE TypeOK
  OBVIOUS
<1>1. streak \in 0..Need
  BY ConfigAssumption DEF Init
<1>2. call \in [Calls -> Call]
  BY IdleType DEF Init
<1> QED
  BY <1>1, <1>2, Types DEF Init

LEMMA BeginType ==
  ASSUME TypeOK, NEW c \in Calls, NEW event \in Events, Begin(c, event)
  PROVE  TypeOK'
<1>1. event \in AllEvents /\ Events \subseteq AllEvents
  BY ConfigAssumption
<1>2. PICK plan \in PlansOf(event), key \in lookupEmail(event) :
        call' = [call EXCEPT ![c] =
                   IF plan = Idle THEN Idle
                   ELSE [plan EXCEPT !.key = key, !.older = banned, !.graced = grace]]
  BY DEF Begin
<1>3. plan \in Call /\ key \in Keys /\ banned \in BOOLEAN /\ grace \in BOOLEAN
  BY <1>1, PlanTypes, Types DEF lookupEmail, Keys
<1>4. [plan EXCEPT !.key = key, !.older = banned, !.graced = grace] \in Call
  BY <1>3 DEF Call
<1>5. call' \in [Calls -> Call]
  BY <1>2, <1>4, IdleType, Types
<1>6. grace' \in BOOLEAN /\ calm' \in BOOLEAN
  BY DEF Begin
<1> QED
  BY <1>5, <1>6, Types DEF Begin, ledger, TypeOK

(* A step keeps every type but that of the calls (StepGoesOn).             *)
LEMMA StepKeepsTypes ==
  ASSUME TypeOK, NEW c \in Calls, Step(c)
  PROVE  /\ auto' = auto /\ grace' = grace
         /\ disabled' \in BOOLEAN /\ banned' \in BOOLEAN /\ pending' \in BOOLEAN
         /\ streak' \in 0..Need
         /\ cool' \subseteq Keys \X Actions
         /\ calm' \in BOOLEAN
<1> USE Types
<1>1. CASE Grace(c)
  BY <1>1 DEF Grace, ledger
<1>2. CASE bumpStreak(c)
  <2>1. streak' \in 0..Need
    BY <1>2, ConfigAssumption DEF bumpStreak
  <2> QED
    BY <1>2, <2>1 DEF bumpStreak, ledger
<1>3. CASE clearStreak(c)
  <2>1. streak' \in 0..Need
    BY <1>3, ConfigAssumption DEF clearStreak
  <2> QED
    BY <1>3, <2>1 DEF clearStreak, ledger
<1>4. CASE Cooldown(c)
  BY <1>4 DEF Cooldown, ledger
<1>5. CASE markCooldown(c)
  <2>1. call[c].key \in Keys /\ "id" \in Keys /\ call[c].action \in Actions
    BY DEF Call, Keys
  <2>2. cool' \subseteq Keys \X Actions
    BY <1>5, <2>1 DEF markCooldown
  <2> QED
    BY <1>5, <2>2 DEF markCooldown, ledger
<1>6. CASE BanEnabled(c)
  BY <1>6 DEF BanEnabled, ledger
<1>7. CASE Isolate(c)
  BY <1>7 DEF Isolate, ledger
<1>8. CASE Release(c)
  BY <1>8 DEF Release, ledger
<1>9. CASE Switch(c)
  <2>1. disabled' \in BOOLEAN /\ calm' \in BOOLEAN
    BY <1>9 DEF Switch, SetDisabled
  <2> QED
    BY <1>9, <2>1 DEF Switch, ledger
<1>10. CASE Delete(c)
  BY <1>10 DEF Delete, ledger
<1>11. CASE Refresh(c)
  <2>1. disabled' \in BOOLEAN /\ calm' \in BOOLEAN
    BY <1>11 DEF Refresh
  <2> QED
    BY <1>11, <2>1 DEF Refresh, ledger
<1>12. CASE SetUsingAPI(c)
  <2>1. disabled' \in BOOLEAN
    BY <1>12 DEF SetUsingAPI
  <2> QED
    BY <1>12, <2>1 DEF SetUsingAPI, ledger
<1>13. CASE Look(c)
  BY <1>13 DEF Look, ledger
<1>14. CASE Heal(c)
  BY <1>14 DEF Heal, ledger
<1>15. CASE Reenable(c)
  BY <1>15 DEF Reenable, ledger
<1>16. CASE ListDisabled(c)
  BY <1>16 DEF ListDisabled, ledger
<1> QED
  BY <1>1, <1>2, <1>3, <1>4, <1>5, <1>6, <1>7, <1>8, <1>9, <1>10, <1>11, <1>12, <1>13,
     <1>14, <1>15, <1>16 DEF Step

(* Time passes, or the operator saves settings.                            *)
Environment == UpdateConfig \/ GraceLapses \/ StreakLapses \/ CooldownLapses \/ RowExpires

LEMMA EnvironmentType == TypeOK /\ Environment => TypeOK'
<1> SUFFICES ASSUME TypeOK, Environment PROVE TypeOK'
  OBVIOUS
<1> USE Types
<1>1. CASE UpdateConfig
  BY <1>1 DEF UpdateConfig, ledger, TypeOK
<1>2. CASE GraceLapses
  <2>1. \A d \in Calls : [call[d] EXCEPT !.graced = FALSE] \in Call
    BY DEF Call
  <2>2. call' \in [Calls -> Call]
    BY <1>2, <2>1 DEF GraceLapses
  <2> QED
    BY <1>2, <2>2 DEF GraceLapses, ledger, TypeOK
<1>3. CASE StreakLapses
  <2>1. streak' \in 0..Need
    BY <1>3, ConfigAssumption DEF StreakLapses
  <2> QED
    BY <1>3, <2>1 DEF StreakLapses, ledger, TypeOK
<1>4. CASE CooldownLapses
  BY <1>4 DEF CooldownLapses, ledger, TypeOK
<1>5. CASE RowExpires
  BY <1>5 DEF RowExpires, TypeOK
<1> QED
  BY <1>1, <1>2, <1>3, <1>4, <1>5 DEF Environment

(***************************************************************************)
(* Type correctness: no interleaving of calls leaves the engine's          *)
(* vocabulary; above all every plan, however it is cut and continued, is a *)
(* sequence of known steps, and a streak never passes fail_streak_403.     *)
(***************************************************************************)
THEOREM EngineType == Spec => []TypeOK
<1>1. Init => TypeOK
  BY InitType
<1>2. TypeOK /\ [Next]_vars => TypeOK'
  <2> SUFFICES ASSUME TypeOK, [Next]_vars PROVE TypeOK'
    OBVIOUS
  <2>1. CASE \E c \in Calls, event \in Events : Begin(c, event)
    BY <2>1, BeginType
  <2>2. ASSUME NEW c \in Calls, Step(c) PROVE TypeOK'
    <3>1. call' \in [Calls -> Call]
      BY <2>2, Types, StepGoesOn DEF GoesOn
    <3>2. /\ auto' = auto /\ grace' = grace
          /\ disabled' \in BOOLEAN /\ banned' \in BOOLEAN /\ pending' \in BOOLEAN
          /\ streak' \in 0..Need
          /\ cool' \subseteq Keys \X Actions /\ calm' \in BOOLEAN
      BY <2>2, StepKeepsTypes
    <3> QED
      BY <3>1, <3>2 DEF TypeOK
  <2>3. CASE Environment
    BY <2>3, EnvironmentType
  <2>4. CASE UNCHANGED vars
    BY <2>4 DEF vars, TypeOK
  <2> QED
    BY <2>1, <2>2, <2>3, <2>4 DEF Next, Environment
<1> QED
  BY <1>1, <1>2, PTL DEF Spec

-----------------------------------------------------------------------------
(* The success grace.                                                      *)

(* A probe's unforced call that began in a grace still stands before the   *)
(* question of the grace, which is still in force.                         *)
Shielded(c) == call[c].graced /\ probeLikeSource(c) /\ ~call[c].force

GraceInv == \A c \in Calls : Shielded(c) => grace /\ At(c, "grace")

LEMMA InitGrace == Init => GraceInv
BY DEF Init, GraceInv, Shielded, Idle

LEMMA BeginGrace ==
  ASSUME TypeOK, GraceInv, FALSE \notin AutoModes,
         NEW c \in Calls, NEW event \in Events, Begin(c, event)
  PROVE  GraceInv'
<1>1. call \in [Calls -> Call] /\ event \in AllEvents
  BY ConfigAssumption, Types
<1>2. PICK plan \in PlansOf(event), key \in lookupEmail(event) :
        call' = [call EXCEPT ![c] =
                   IF plan = Idle THEN Idle
                   ELSE [plan EXCEPT !.key = key, !.older = banned, !.graced = grace]]
  BY DEF Begin
<1>3. plan \in Call /\ (plan.event \in {"probe_fail", "probe_local"} => GraceFirst(plan))
  BY <1>1, PlanTypes
<1>4. SUFFICES ASSUME NEW d \in Calls, Shielded(d)'
               PROVE  grace' /\ At(d, "grace")'
  BY DEF GraceInv
<1>5. grace => grace'
  BY DEF Begin
<1>6. CASE d # c
  <2>1. call'[d] = call[d]
    BY <1>1, <1>2, <1>6
  <2>2. Shielded(d)
    BY <1>4, <2>1 DEF Shielded, probeLikeSource
  <2>3. grace /\ At(d, "grace")
    BY <2>2 DEF GraceInv
  <2> QED
    BY <1>5, <2>1, <2>3 DEF At
<1>7. CASE d = c
  <2>1. call'[c] = IF plan = Idle THEN Idle
                   ELSE [plan EXCEPT !.key = key, !.older = banned, !.graced = grace]
    BY <1>1, <1>2
  <2>2. plan # Idle
    BY <1>4, <1>7, <2>1 DEF Shielded, Idle
  <2>3. call'[c].event = plan.event /\ call'[c].steps = plan.steps /\ call'[c].graced = grace
    BY <1>3, <2>1, <2>2 DEF Call
  <2>4. GraceFirst(plan)
    BY <1>3, <1>4, <1>7, <2>3 DEF Shielded, probeLikeSource
  <2>5. grace
    BY <1>4, <1>7, <2>3 DEF Shielded
  <2> QED
    BY <1>5, <1>7, <2>3, <2>4, <2>5 DEF At, GraceFirst
<1> QED
  BY <1>6, <1>7

(* Before the question of the grace a thread can only ask it.              *)
LEMMA OnlyGrace ==
  ASSUME NEW c \in Calls, Step(c), At(c, "grace")
  PROVE  Grace(c)
BY DEF Step, At, bumpStreak, clearStreak, Cooldown, markCooldown, BanEnabled, Isolate, Release,
       Switch, Delete, Refresh, SetUsingAPI, Look, Heal, Reenable, ListDisabled

(* A shielded call ends when it asks.                                      *)
LEMMA ShieldedReturns ==
  ASSUME TypeOK, GraceInv, NEW c \in Calls, Step(c), Shielded(c)
  PROVE  call'[c] = Idle /\ UNCHANGED <<disabled, ledger>>
<1>1. grace /\ At(c, "grace")
  BY DEF GraceInv
<1>2. Grace(c)
  BY <1>1, OnlyGrace
<1>3. Return(c)
  BY <1>1, <1>2 DEF Grace, Shielded
<1>4. call'[c] = Idle
  BY <1>3, Types DEF Return, Goto, After
<1> QED
  BY <1>2, <1>4 DEF Grace

LEMMA StepGrace ==
  ASSUME TypeOK, GraceInv, NEW c \in Calls, Step(c)
  PROVE  GraceInv'
<1>1. GoesOn(c) /\ grace' = grace
  BY StepGoesOn, StepKeepsTypes, Types
<1>2. SUFFICES ASSUME NEW d \in Calls, Shielded(d)'
               PROVE  grace' /\ At(d, "grace")'
  BY DEF GraceInv
<1>3. Shielded(d)
  BY <1>1, <1>2 DEF GoesOn, Shielded, probeLikeSource
<1>4. grace /\ At(d, "grace")
  BY <1>3 DEF GraceInv
<1>5. CASE d = c
  <2>1. call'[c] = Idle
    BY <1>3, <1>5, ShieldedReturns
  <2> QED
    BY <1>2, <1>5, <2>1 DEF Shielded, Idle
<1>6. CASE d # c
  <2>1. call'[d].steps = call[d].steps
    BY <1>1, <1>6 DEF GoesOn
  <2> QED
    BY <1>1, <1>4, <2>1 DEF At
<1> QED
  BY <1>5, <1>6

LEMMA EnvironmentGrace ==
  ASSUME TypeOK, GraceInv, Environment
  PROVE  GraceInv'
<1>1. CASE GraceLapses
  <2>1. \A d \in Calls : call'[d].graced = FALSE
    BY <1>1, Types DEF GraceLapses, Call
  <2> QED
    BY <2>1 DEF GraceInv, Shielded
<1>2. CASE UNCHANGED <<grace, call>>
  BY <1>2 DEF GraceInv, Shielded, probeLikeSource, At
<1> QED
  BY <1>1, <1>2 DEF Environment, UpdateConfig, StreakLapses, CooldownLapses, RowExpires

(***************************************************************************)
(* The success grace shields from probes, for any number of calls, whoever *)
(* they are and however they interleave, where auto_execute stays on: no   *)
(* unforced probe call that began in a grace moves the row or the switch   *)
(* while the grace lasts.  (In report-only mode a locally expired token    *)
(* skips the question: README, section 6.)                                 *)
(***************************************************************************)
THEOREM GraceHolds ==
  ASSUME FALSE \notin AutoModes
  PROVE  Spec => GraceShields
<1>1. Init => GraceInv
  BY InitGrace
<1>2. TypeOK /\ GraceInv /\ [Next]_vars => GraceInv'
  <2> SUFFICES ASSUME TypeOK, GraceInv, [Next]_vars PROVE GraceInv'
    OBVIOUS
  <2>1. CASE \E c \in Calls, event \in Events : Begin(c, event)
    BY <2>1, BeginGrace
  <2>2. CASE \E c \in Calls : Step(c)
    BY <2>2, StepGrace
  <2>3. CASE Environment
    BY <2>3, EnvironmentGrace
  <2>4. CASE UNCHANGED vars
    BY <2>4 DEF vars, GraceInv, Shielded, probeLikeSource, At
  <2> QED
    BY <2>1, <2>2, <2>3, <2>4 DEF Next, Environment
<1> DEFINE Untouched ==
      \A c \in Calls :
        Moved(c) /\ call[c].graced /\ probeLikeSource(c) /\ ~call[c].force =>
          UNCHANGED <<disabled, ledger>>
<1>3. TypeOK /\ GraceInv /\ [Next]_vars => [Untouched]_vars
  <2> SUFFICES ASSUME TypeOK, GraceInv, Next,
                      NEW c \in Calls, Moved(c), Shielded(c)
               PROVE  UNCHANGED <<disabled, ledger>>
    BY DEF Shielded
  <2>1. ASSUME NEW d \in Calls, NEW event \in Events, Begin(d, event)
        PROVE  UNCHANGED <<disabled, ledger>>
    BY <2>1 DEF Begin, ledger
  <2>2. ASSUME NEW d \in Calls, Step(d)
        PROVE  UNCHANGED <<disabled, ledger>>
    <3>1. CASE d = c
      BY <2>2, <3>1, ShieldedReturns
    <3>2. CASE d # c
      <4>1. GoesOn(d)
        BY <2>2, StepGoesOn, Types
      <4> QED
        BY <3>2, <4>1 DEF GoesOn, Moved
    <3> QED
      BY <3>1, <3>2
  <2>3. CASE Environment
    <3>1. call' = call \/ call' = [d \in Calls |-> [call[d] EXCEPT !.graced = FALSE]]
      BY <2>3 DEF Environment, UpdateConfig, GraceLapses, StreakLapses, CooldownLapses,
                  RowExpires
    <3>2. call[c] \in Call
      BY Types
    <3> QED
      BY <3>1, <3>2 DEF Moved, Call
  <2> QED
    BY <2>1, <2>2, <2>3 DEF Next, Environment
<1> QED
  BY <1>1, <1>2, <1>3, EngineType, PTL DEF Spec, GraceShields

=============================================================================
