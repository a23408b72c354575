------------------------- MODULE ActionEngineSafety -------------------------
(***************************************************************************)
(* Theorems about what the policy engine may do: report-only mode spares   *)
(* the host, a success is the last word on an older row, a failure writes  *)
(* the row once at most, and, between calls that come one at a time, a     *)
(* disabled credential has no row.  Each rests on an invariant about the   *)
(* steps a call has still to take.                                         *)
(***************************************************************************)
EXTENDS ActionEngineProofs

-----------------------------------------------------------------------------
(* The plans, one line per entry point: of which event, for which action,  *)
(* with which steps, and whether by a report-only config.                  *)

Fails(plan) == \E kind \in {"soft", "hard"} : plan.steps = ApplyFailure(plan.action, kind)

Planned(event, plan) ==
  /\ plan \in Call /\ plan.event = event
  /\ \/ /\ event = "usage_ok" /\ plan.action = "unban" /\ plan.steps = <<"look">>
        /\ ~plan.report
     \/ /\ event \in {"usage_fail", "probe_fail", "probe_local"} /\ Fails(plan)
        /\ \/ plan.action \in FailActions /\ ~plan.report
           \/ plan.action = "ban" /\ plan.report
     \/ /\ event = "probe_ok" /\ plan.action = OnSuccess
        /\ plan.steps = ApplySuccess(OnSuccess) /\ ~plan.report
     \/ /\ event = "probe_local" /\ plan.action = "ban" /\ plan.steps = ApplyAction("ban")
        /\ plan.report
     \/ /\ event = "operator" /\ plan.action \in OpActions
        /\ plan.steps = ApplyAction(plan.action) /\ ~plan.report
     \/ /\ event = "unban" /\ plan.action = "none" /\ plan.steps = <<"release">>
        /\ ~plan.report
     \/ /\ event = "reconcile" /\ plan.action = "none"
        /\ plan.steps = <<"list_disabled", "release">> /\ ~plan.report

LEMMA PlanFields ==
  ASSUME NEW event \in AllEvents, NEW a \in Actions, NEW steps \in Seq(Steps),
         NEW p, p = Plan(event, a, steps)
  PROVE  p \in Call /\ p.event = event /\ p.action = a /\ p.steps = steps /\ ~p.report
<1>1. Idle \in Call /\ ~Idle.report
  BY IdleType DEF Idle
<1>2. p = [Idle EXCEPT !.event = event, !.action = a, !.steps = steps]
  BY DEF Plan
<1> QED
  BY <1>1, <1>2 DEF Call

LEMMA ForceableFields ==
  ASSUME NEW plans, plans \subseteq Call, NEW p \in Forceable(plans)
  PROVE  \E q \in plans : /\ p \in Call /\ p.event = q.event /\ p.action = q.action
                          /\ p.steps = q.steps /\ p.report = q.report
BY DEF Forceable, Call

LEMMA ReportFields ==
  ASSUME NEW plans, plans \subseteq Call, NEW p \in Report(plans)
  PROVE  \E q \in plans : /\ p \in Call /\ p.event = q.event /\ p.action = q.action
                          /\ p.steps = q.steps /\ p.report
BY DEF Report, Call

LEMMA FailFields ==
  ASSUME NEW event \in AllEvents, NEW actions \in SUBSET AllActions,
         NEW kinds \in SUBSET {"soft", "hard"},
         NEW p \in FailPlans(event, actions, kinds)
  PROVE  p \in Call /\ p.event = event /\ p.action \in actions /\ Fails(p) /\ ~p.report
<1>1. PICK a \in actions, kind \in kinds : p = Plan(event, a, ApplyFailure(a, kind))
  BY DEF FailPlans
<1>2. ApplyFailure(a, kind) \in Seq(Steps) /\ a \in Actions
  BY FailureSteps, KnownActions
<1>3. /\ p \in Call /\ p.event = event /\ p.action = a /\ ~p.report
      /\ p.steps = ApplyFailure(a, kind)
  BY <1>1, <1>2, PlanFields
<1> QED
  BY <1>3 DEF Fails

LEMMA ProbesPlanned ==
  ASSUME NEW event \in {"probe_fail", "probe_local"}, NEW plan \in PlansOf(event)
  PROVE  Planned(event, plan)
<1> DEFINE Judged(kinds) == FailPlans(event, FailActions, kinds)
           Told(kinds)   == FailPlans(event, {"ban"}, kinds)
           told          == {Plan("probe_local", "ban", ApplyAction("ban"))}
           two           == {"soft", "hard"}
<1>1. event \in AllEvents /\ {"hard"} \subseteq two
  BY DEF AllEvents
<1>2. \A kinds \in SUBSET two : \A q \in Judged(kinds) :
        q \in Call /\ q.event = event /\ q.action \in FailActions /\ Fails(q) /\ ~q.report
  BY <1>1, FailFields, KnownActions
<1>3. \A kinds \in SUBSET two : \A q \in Told(kinds) :
        q \in Call /\ q.event = event /\ q.action = "ban" /\ Fails(q) /\ ~q.report
  BY <1>1, FailFields, KnownActions
<1>4. \A q \in told : /\ q \in Call /\ q.event = "probe_local" /\ q.action = "ban"
                      /\ q.steps = ApplyAction("ban")
  <2>1. ApplyAction("ban") \in Seq(Steps) /\ "ban" \in Actions /\ "probe_local" \in AllEvents
    BY ActionSteps, KnownActions DEF AllEvents
  <2> QED
    BY <2>1, PlanFields
<1>5. CASE event = "probe_fail"
  <2>1. PICK copy \in AutoModes : plan \in ProbeFail(copy)
    BY <1>5 DEF PlansOf
  <2>2. plan \in Judged(two) \/ plan \in Report(Told(two))
    BY <1>5, <2>1 DEF ProbeFail
  <2>3. CASE plan \in Judged(two)
    BY <1>2, <1>5, <2>3 DEF Planned
  <2>4. CASE plan \in Report(Told(two))
    <3>1. Told(two) \subseteq Call
      BY <1>3
    <3>2. PICK q \in Told(two) : /\ plan \in Call /\ plan.event = q.event
                                 /\ plan.action = q.action /\ plan.steps = q.steps
                                 /\ plan.report
      BY <2>4, <3>1, ReportFields
    <3>3. q.event = event /\ q.action = "ban" /\ Fails(q)
      BY <1>3
    <3> QED
      BY <1>5, <3>2, <3>3 DEF Planned, Fails
  <2> QED
    BY <2>2, <2>3, <2>4
<1>6. CASE event = "probe_local"
  <2> DEFINE judged == Judged({"hard"})
  <2>1. PICK copy \in AutoModes : plan \in ProbeLocal(copy)
    BY <1>6 DEF PlansOf
  <2>2. plan \in Forceable(judged) \/ plan \in Report(Forceable(told))
    BY <1>6, <2>1 DEF ProbeLocal
  <2>3. judged \subseteq Call /\ told \subseteq Call
    BY <1>1, <1>2, <1>4
  <2>4. CASE plan \in Forceable(judged)
    <3>1. PICK q \in judged : /\ plan \in Call /\ plan.event = q.event
                              /\ plan.action = q.action /\ plan.steps = q.steps
                              /\ plan.report = q.report
      BY <2>3, <2>4, ForceableFields
    <3>2. q.event = event /\ q.action \in FailActions /\ Fails(q) /\ ~q.report
      BY <1>1, <1>2
    <3> QED
      BY <1>6, <3>1, <3>2 DEF Planned, Fails
  <2>5. CASE plan \in Report(Forceable(told))
    <3>1. Forceable(told) \subseteq Call
      BY <2>3, ForceableType
    <3>2. PICK q \in Forceable(told) : /\ plan \in Call /\ plan.event = q.event
                                       /\ plan.action = q.action /\ plan.steps = q.steps
                                       /\ plan.report
      BY <2>5, <3>1, ReportFields
    <3>3. PICK r \in told : q.event = r.event /\ q.action = r.action /\ q.steps = r.steps
      BY <2>3, ForceableFields
    <3>4. r.event = "probe_local" /\ r.action = "ban" /\ r.steps = ApplyAction("ban")
      BY <1>4
    <3> QED
      BY <1>6, <3>2, <3>3, <3>4 DEF Planned
  <2> QED
    BY <2>2, <2>4, <2>5
<1> QED
  BY <1>5, <1>6

LEMMA PlansPlanned ==
  ASSUME NEW event \in AllEvents, NEW plan \in PlansOf(event), plan # Idle
  PROVE  Planned(event, plan)
<1>1. CASE event = "usage_ok"
  <2> DEFINE steps == <<"look">>
  <2>1. steps \in Seq(Steps) /\ "unban" \in Actions
    BY DEF Steps, Actions, Modes
  <2>2. plan = Plan(event, "unban", steps)
    BY <1>1 DEF PlansOf, UsageOK
  <2> HIDE DEF steps
  <2>3. /\ plan \in Call /\ plan.event = event /\ plan.action = "unban" /\ plan.steps = steps
        /\ ~plan.report
    BY <2>1, <2>2, PlanFields
  <2> QED
    BY <1>1, <2>3 DEF Planned, steps
<1>2. CASE event = "usage_fail"
  <2>1. plan \in FailPlans("usage_fail", FailActions, {"soft", "hard"})
    BY <1>2 DEF PlansOf, UsageFail
  <2>2. plan.event = event /\ plan \in Call /\ plan.action \in FailActions /\ Fails(plan)
        /\ ~plan.report
    BY <1>2, <2>1, FailFields, KnownActions
  <2> QED
    BY <1>2, <2>2 DEF Planned
<1>3. CASE event = "probe_ok"
  <2> DEFINE healed == {Plan("probe_ok", OnSuccess, ApplySuccess(OnSuccess))}
  <2>1. OnSuccess \in Actions /\ ApplySuccess(OnSuccess) \in Seq(Steps)
    BY ConfigAssumption, SuccessSteps, KnownActions
  <2>2. \A q \in healed : /\ q \in Call /\ q.event = "probe_ok" /\ q.action = OnSuccess
                          /\ q.steps = ApplySuccess(OnSuccess) /\ ~q.report
    BY <1>3, <2>1, PlanFields
  <2>3. plan \in Forceable(healed)
    BY <1>3 DEF PlansOf, ProbeOK
  <2> HIDE DEF healed
  <2>4. PICK q \in healed : /\ plan \in Call /\ plan.event = q.event
                            /\ plan.action = q.action /\ plan.steps = q.steps
                            /\ plan.report = q.report
    BY <2>2, <2>3, ForceableFields
  <2> QED
    BY <1>3, <2>2, <2>4 DEF Planned
<1>4. CASE event \in {"probe_fail", "probe_local"}
  BY <1>4, ProbesPlanned
<1>5. CASE event = "operator"
  <2> DEFINE chosen == {Plan("operator", a, ApplyAction(a)) : a \in OpActions}
  <2>1. \A a \in OpActions : a \in Actions /\ ApplyAction(a) \in Seq(Steps)
    BY ActionSteps, KnownActions
  <2>2. \A q \in chosen : /\ q \in Call /\ q.event = "operator" /\ q.action \in OpActions
                          /\ q.steps = ApplyAction(q.action) /\ ~q.report
    BY <1>5, <2>1, PlanFields
  <2>3. plan \in Forceable(chosen)
    BY <1>5 DEF PlansOf, Operator
  <2> HIDE DEF chosen
  <2>4. PICK q \in chosen : /\ plan \in Call /\ plan.event = q.event
                            /\ plan.action = q.action /\ plan.steps = q.steps
                            /\ plan.report = q.report
    BY <2>2, <2>3, ForceableFields
  <2> QED
    BY <1>5, <2>2, <2>4 DEF Planned
<1>6. CASE event = "unban"
  <2> DEFINE steps == <<"release">>
  <2>1. steps \in Seq(Steps) /\ "none" \in Actions
    BY DEF Steps, Actions, Modes
  <2>2. plan = Plan(event, "none", steps)
    BY <1>6 DEF PlansOf, Unban
  <2> HIDE DEF steps
  <2>3. /\ plan \in Call /\ plan.event = event /\ plan.action = "none" /\ plan.steps = steps
        /\ ~plan.report
    BY <2>1, <2>2, PlanFields
  <2> QED
    BY <1>6, <2>3 DEF Planned, steps
<1>7. CASE event = "reconcile"
  <2> DEFINE steps == <<"list_disabled", "release">>
  <2>1. steps \in Seq(Steps) /\ "none" \in Actions
    BY DEF Steps, Actions, Modes
  <2>2. plan = Plan(event, "none", steps)
    BY <1>7 DEF PlansOf, Reconcile
  <2> HIDE DEF steps
  <2>3. /\ plan \in Call /\ plan.event = event /\ plan.action = "none" /\ plan.steps = steps
        /\ ~plan.report
    BY <2>1, <2>2, PlanFields
  <2> QED
    BY <1>7, <2>3 DEF Planned, steps
<1> QED
  BY <1>1, <1>2, <1>3, <1>4, <1>5, <1>6, <1>7 DEF AllEvents

-----------------------------------------------------------------------------
(* What an action may do to the calls.                                     *)

(* A call that begins is planned; nobody else's changes.                   *)
LEMMA Begun ==
  ASSUME TypeOK, NEW c \in Calls, NEW event \in Events, Begin(c, event)
  PROVE  /\ call[c] = Idle
         /\ \A d \in Calls \ {c} : call'[d] = call[d]
         /\ call'[c] # Idle => Planned(event, call'[c]) /\ call'[c].key \in lookupEmail(event)
<1>1. call \in [Calls -> Call] /\ banned \in BOOLEAN /\ grace \in BOOLEAN /\ event \in AllEvents
  BY Types, ConfigAssumption
<1>2. PICK plan \in PlansOf(event), key \in lookupEmail(event) :
        call' = [call EXCEPT ![c] =
                   IF plan = Idle THEN Idle
                   ELSE [plan EXCEPT !.key = key, !.older = banned, !.graced = grace]]
  BY DEF Begin
<1>3. key \in Keys
  BY DEF lookupEmail, Keys
<1>4. CASE plan = Idle
  BY <1>1, <1>2, <1>4 DEF Begin
<1>5. CASE plan # Idle
  <2> DEFINE made == [plan EXCEPT !.key = key, !.older = banned, !.graced = grace]
  <2>1. Planned(event, plan)
    BY <1>1, <1>5, PlansPlanned
  <2>2. plan \in Call
    BY <2>1 DEF Planned
  <2>3. /\ made \in Call /\ made.event = plan.event /\ made.action = plan.action
        /\ made.steps = plan.steps /\ made.report = plan.report /\ made.key = key
    BY <1>1, <1>3, <2>2 DEF Call
  <2>4. call'[c] = made /\ \A d \in Calls \ {c} : call'[d] = call[d]
    BY <1>1, <1>2, <1>5
  <2> HIDE DEF made
  <2>5. Planned(event, made)
    BY <2>1, <2>3 DEF Planned, Fails
  <2> QED
    BY <2>3, <2>4, <2>5 DEF Begin
<1> QED
  BY <1>4, <1>5

(* A call that stays the same call.                                        *)
SameCall(d) ==
  /\ call'[d].event = call[d].event /\ call'[d].action = call[d].action
  /\ call'[d].force = call[d].force /\ call'[d].key = call[d].key
  /\ call'[d].report = call[d].report
  /\ call'[d].older => call[d].older
  /\ call[d].held => call'[d].held

(* The steps that may follow the one a thread takes.                       *)
Follows(c, steps) ==
  LET rest == Tail(call[c].steps)
  IN  \/ /\ call[c].steps # << >> /\ steps = rest
         /\ Head(call[c].steps) \notin {"delete", "refresh", "look", "heal", "apply_success"}
      \/ At(c, "ban_enabled") /\ steps = <<"release">>
      \/ At(c, "delete") /\ HasKey /\ steps = <<"release", "mark_id">>
      \/ At(c, "delete") /\ (~HasKey \/ HostFails) /\ steps = applyDeleteFallback
      \/ At(c, "refresh") /\ steps \in {<<"isolate", "mark_id">>, <<"release", "mark_id">>}
      \/ /\ At(c, "heal")
         /\ steps = (IF inCooldown(c, "id") THEN << >> ELSE <<"release", "mark_id">>) \o rest

(* Thread c is done, or goes on with its call, which a usage success turns *)
(* into that of the config it finds and then into an ApplySuccess.         *)
Taken(c) ==
  /\ \A d \in Calls \ {c} : SameCall(d) /\ call'[d].steps = call[d].steps
  /\ \/ call'[c] = Idle
     \/ SameCall(c) /\ Follows(c, call'[c].steps)
     \/ /\ Look(c)
        /\ call'[c].event = call[c].event /\ call'[c].action = call[c].action
        /\ call'[c].key = call[c].key
        /\ call'[c].report = ~auto /\ (call'[c].older => call[c].older)
        /\ call[c].held => call'[c].held
        /\ call'[c].steps = <<"hard">> \o (IF banned THEN <<"heal">> ELSE << >>)
                            \o ThenReenable
     \/ /\ Reenable(c)
        /\ call'[c].event = call[c].event /\ call'[c].action = OnSuccess
        /\ call'[c].key = call[c].key
        /\ call'[c].report = call[c].report /\ (call'[c].older => call[c].older)
        /\ call[c].held => call'[c].held
        /\ call'[c].steps = ApplySuccess(OnSuccess)

LEMMA GotoTaken ==
  ASSUME call \in [Calls -> Call], NEW c \in Calls, NEW steps \in Seq(Steps),
         Goto(c, steps), steps = << >> \/ Follows(c, steps)
  PROVE  Taken(c)
<1>1. call' = [call EXCEPT ![c] = After(c, steps)] /\ call[c] \in Call
  BY DEF Goto
<1>2. \A d \in Calls \ {c} : call'[d] = call[d]
  BY <1>1
<1>3. CASE steps = << >>
  BY <1>1, <1>2, <1>3 DEF Taken, After, SameCall
<1>4. CASE steps # << >>
  <2>1. call'[c] = [call[c] EXCEPT !.steps = steps]
    BY <1>1, <1>4 DEF After
  <2>2. SameCall(c) /\ call'[c].steps = steps
    BY <1>1, <2>1 DEF Call, SameCall
  <2> QED
    BY <1>2, <1>4, <2>2 DEF Taken, SameCall
<1> QED
  BY <1>3, <1>4

LEMMA ContinueTaken ==
  ASSUME call \in [Calls -> Call], NEW c \in Calls, NEW step, At(c, step), Continue(c),
         step \notin {"delete", "refresh", "look", "heal", "apply_success"}
  PROVE  Taken(c)
<1> DEFINE rest == Tail(call[c].steps)
<1>1. rest \in Seq(Steps)
  BY TailType
<1>2. Follows(c, rest)
  BY DEF Follows, At
<1>3. Goto(c, rest)
  BY DEF Continue
<1> HIDE DEF rest
<1> QED
  BY <1>1, <1>2, <1>3, GotoTaken

LEMMA ReturnTaken ==
  ASSUME call \in [Calls -> Call], NEW c \in Calls, Return(c)
  PROVE  Taken(c)
<1>1. << >> \in Seq(Steps)
  OBVIOUS
<1> QED
  BY <1>1, GotoTaken DEF Return

LEMMA IsolateTaken ==
  ASSUME call \in [Calls -> Call], NEW c \in Calls, Isolate(c)
  PROVE  Taken(c)
<1> DEFINE rest == Tail(call[c].steps)
           next == [call EXCEPT ![c] = After(c, rest)]
<1>1. rest \in Seq(Steps) /\ Follows(c, rest)
  BY TailType DEF Isolate, Follows, At
<1>2. call' = [d \in Calls |-> [next[d] EXCEPT !.older = FALSE]]
  BY DEF Isolate
<1> HIDE DEF rest
<1>3. /\ next \in [Calls -> Call] /\ next[c] = After(c, rest)
      /\ \A d \in Calls \ {c} : next[d] = call[d]
  BY <1>1, AfterType
<1> HIDE DEF next
<1>4. \A d \in Calls : call'[d] = [next[d] EXCEPT !.older = FALSE] /\ next[d] \in Call
  BY <1>2, <1>3
<1>5. \A d \in Calls :
        /\ call'[d].event = next[d].event /\ call'[d].action = next[d].action
        /\ call'[d].force = next[d].force /\ call'[d].key = next[d].key
        /\ call'[d].report = next[d].report /\ ~call'[d].older
        /\ call'[d].held = next[d].held
        /\ call'[d].steps = next[d].steps
  BY <1>4 DEF Call
<1>6. \A d \in Calls \ {c} : SameCall(d) /\ call'[d].steps = call[d].steps
  BY <1>3, <1>5 DEF SameCall
<1>7. CASE rest = << >>
  <2>1. next[c] = Idle
    BY <1>3, <1>7 DEF After
  <2>2. call'[c] = Idle
    BY <1>4, <2>1 DEF Idle
  <2> QED
    BY <1>6, <2>2 DEF Taken
<1>8. CASE rest # << >>
  <2>1. next[c] = [call[c] EXCEPT !.steps = rest] /\ call[c] \in Call
    BY <1>3, <1>8 DEF After
  <2>2. SameCall(c) /\ call'[c].steps = rest
    BY <1>5, <2>1 DEF SameCall, Call
  <2> QED
    BY <1>1, <1>6, <2>2 DEF Taken
<1> QED
  BY <1>7, <1>8

LEMMA LookTaken ==
  ASSUME call \in [Calls -> Call], NEW c \in Calls, Look(c)
  PROVE  Taken(c)
<1> DEFINE steps == <<"hard">> \o (IF banned THEN <<"heal">> ELSE << >>) \o ThenReenable
           looked == [call[c] EXCEPT !.report = ~auto, !.steps = steps]
<1>1. call' = [call EXCEPT ![c].report = ~auto, ![c].steps = steps]
  BY DEF Look
<1> HIDE DEF steps
<1>2. call' = [call EXCEPT ![c] = looked]
  BY <1>1
<1>3. /\ looked.event = call[c].event /\ looked.action = call[c].action
      /\ looked.key = call[c].key /\ looked.report = ~auto
      /\ looked.older = call[c].older /\ looked.steps = steps
      /\ looked.held = call[c].held
  BY DEF Call
<1> HIDE DEF looked
<1>4. call'[c] = looked /\ \A d \in Calls \ {c} : call'[d] = call[d]
  BY <1>2
<1>5. call'[c].steps = <<"hard">> \o (IF banned THEN <<"heal">> ELSE << >>) \o ThenReenable
  BY <1>3, <1>4 DEF steps
<1> QED
  BY <1>3, <1>4, <1>5 DEF Taken, SameCall

LEMMA ReenableTaken ==
  ASSUME call \in [Calls -> Call], NEW c \in Calls, Reenable(c)
  PROVE  Taken(c)
<1> DEFINE after == [call[c] EXCEPT !.action = OnSuccess, !.steps = ApplySuccess(OnSuccess)]
<1>1. call' = [call EXCEPT ![c] = after]
  BY DEF Reenable
<1>2. /\ after.event = call[c].event /\ after.action = OnSuccess
      /\ after.key = call[c].key /\ after.report = call[c].report
      /\ after.older = call[c].older /\ after.steps = ApplySuccess(OnSuccess)
      /\ after.held = call[c].held
  BY DEF Call
<1> HIDE DEF after
<1>3. call'[c] = after /\ \A d \in Calls \ {c} : call'[d] = call[d]
  BY <1>1
<1> QED
  BY <1>2, <1>3 DEF Taken, SameCall

LEMMA HealTaken ==
  ASSUME call \in [Calls -> Call], NEW c \in Calls, Heal(c)
  PROVE  Taken(c)
<1> DEFINE first == <<"release", "mark_id">>
           rest  == Tail(call[c].steps)
           told  == [call[c] EXCEPT !.steps = rest, !.held = TRUE]
<1>1. first \in Seq(Steps) /\ rest \in Seq(Steps) /\ At(c, "heal")
  BY TailType DEF Heal, Steps
<1>2. CASE ~inCooldown(c, "id")
  <2>1. Goto(c, first \o rest) /\ Follows(c, first \o rest)
    BY <1>2 DEF Heal, Follows
  <2> HIDE DEF first, rest
  <2>2. first \o rest \in Seq(Steps)
    BY <1>1, JoinedSteps
  <2> QED
    BY <2>1, <2>2, GotoTaken
<1>3. CASE inCooldown(c, "id")
  <2>1. call' = [call EXCEPT ![c] = IF rest = << >> THEN Idle ELSE told]
    BY <1>3 DEF Heal
  <2>2. << >> \o rest = rest
    <3> HIDE DEF rest
    <3> QED
      BY <1>1, ConcatEmptySeq
  <2>3. Follows(c, rest)
    BY <1>1, <1>3, <2>2 DEF Follows
  <2> HIDE DEF rest
  <2>4. /\ told.event = call[c].event /\ told.action = call[c].action
        /\ told.force = call[c].force /\ told.key = call[c].key
        /\ told.report = call[c].report /\ told.older = call[c].older
        /\ told.held = TRUE /\ told.steps = rest
    BY DEF Call
  <2> HIDE DEF told
  <2>5. \A d \in Calls \ {c} : call'[d] = call[d]
    BY <2>1
  <2>6. CASE rest = << >>
    BY <2>1, <2>5, <2>6 DEF Taken, SameCall
  <2>7. CASE rest # << >>
    <3>1. call'[c] = told
      BY <2>1, <2>7
    <3> QED
      BY <2>3, <2>4, <2>5, <3>1 DEF Taken, SameCall
  <2> QED
    BY <2>6, <2>7
<1> QED
  BY <1>2, <1>3

LEMMA StepTaken ==
  ASSUME TypeOK, NEW c \in Calls, Step(c)
  PROVE  Taken(c)
<1>0. call \in [Calls -> Call]
  BY Types
<1> USE <1>0
<1>1. CASE Grace(c)
  BY <1>1, ContinueTaken, ReturnTaken DEF Grace
<1>2. CASE bumpStreak(c)
  BY <1>2, ContinueTaken, ReturnTaken DEF bumpStreak
<1>3. CASE clearStreak(c)
  BY <1>3, ContinueTaken DEF clearStreak
<1>4. CASE Cooldown(c)
  BY <1>4, ContinueTaken, ReturnTaken DEF Cooldown
<1>5. CASE markCooldown(c)
  BY <1>5, ContinueTaken DEF markCooldown
<1>6. CASE BanEnabled(c)
  <2> DEFINE cleared == <<"release">>
  <2>1. cleared \in Seq(Steps)
    BY DEF Steps
  <2>2. At(c, "ban_enabled") => Follows(c, cleared)
    BY DEF Follows
  <2>3. At(c, "ban_enabled") /\ (Goto(c, cleared) \/ Continue(c))
    BY <1>6 DEF BanEnabled
  <2> HIDE DEF cleared
  <2> QED
    BY <2>1, <2>2, <2>3, ContinueTaken, GotoTaken
<1>7. CASE Isolate(c)
  BY <1>7, IsolateTaken
<1>8. CASE Release(c)
  BY <1>8, ContinueTaken DEF Release
<1>9. CASE Switch(c)
  BY <1>9, ContinueTaken, ReturnTaken DEF Switch
<1>10. CASE Delete(c)
  <2> DEFINE done == <<"release", "mark_id">>
  <2>1. done \in Seq(Steps) /\ applyDeleteFallback \in Seq(Steps)
    BY FallbackSteps DEF Steps
  <2>2. \/ Goto(c, done) /\ Follows(c, done)
        \/ Goto(c, applyDeleteFallback) /\ Follows(c, applyDeleteFallback)
    BY <1>10 DEF Delete, Follows
  <2> HIDE DEF done
  <2> QED
    BY <2>1, <2>2, GotoTaken
<1>11. CASE Refresh(c)
  <2> DEFINE done == <<"release", "mark_id">>
             held == <<"isolate", "mark_id">>
  <2>1. done \in Seq(Steps) /\ held \in Seq(Steps)
    BY DEF Steps
  <2>2. \/ Return(c)
        \/ Goto(c, done) /\ Follows(c, done)
        \/ Goto(c, held) /\ Follows(c, held)
    BY <1>11 DEF Refresh, Follows
  <2> HIDE DEF done, held
  <2> QED
    BY <2>1, <2>2, ReturnTaken, GotoTaken
<1>12. CASE SetUsingAPI(c)
  BY <1>12, ContinueTaken, ReturnTaken DEF SetUsingAPI
<1>13. CASE Look(c)
  BY <1>13, LookTaken
<1>14. CASE Heal(c)
  BY <1>14, HealTaken
<1>15. CASE Reenable(c)
  BY <1>15, ReenableTaken
<1>16. CASE ListDisabled(c)
  BY <1>16, ContinueTaken, ReturnTaken DEF ListDisabled
<1> QED
  BY <1>1, <1>2, <1>3, <1>4, <1>5, <1>6, <1>7, <1>8, <1>9, <1>10, <1>11, <1>12, <1>13,
     <1>14, <1>15, <1>16 DEF Step

(* Time and the operator change no call but for its history.               *)
LEMMA EnvironmentTaken ==
  ASSUME TypeOK, Environment \/ UNCHANGED vars
  PROVE  \A d \in Calls : SameCall(d) /\ call'[d].steps = call[d].steps
<1>1. call' = call \/ call' = [d \in Calls |-> [call[d] EXCEPT !.graced = FALSE]]
  BY DEF Environment, UpdateConfig, GraceLapses, StreakLapses, CooldownLapses, RowExpires, vars
<1>2. \A d \in Calls : call[d] \in Call
  BY Types
<1> QED
  BY <1>1, <1>2 DEF SameCall, Call

-----------------------------------------------------------------------------
(* Plans that keep to some of the steps.                                   *)

LEMMA RestWithin ==
  ASSUME NEW S, NEW s \in Seq(S), s # << >>
  PROVE  Head(s) \in S /\ Tail(s) \in Seq(S)
BY HeadTailProperties

LEMMA JoinWithin ==
  ASSUME NEW S, NEW s \in Seq(S), NEW t \in Seq(S)
  PROVE  s \o t \in Seq(S)
BY ConcatProperties

LEMMA OneWithin ==
  ASSUME NEW S, NEW x \in S
  PROVE  <<x>> \in Seq(S)
OBVIOUS

LEMMA TwoWithin ==
  ASSUME NEW S, NEW x \in S, NEW y \in S
  PROVE  <<x, y>> \in Seq(S)
OBVIOUS

LEMMA ThreeWithin ==
  ASSUME NEW S, NEW x \in S, NEW y \in S, NEW z \in S
  PROVE  <<x, y, z>> \in Seq(S)
OBVIOUS

LEMMA FourWithin ==
  ASSUME NEW S, NEW x \in S, NEW y \in S, NEW z \in S, NEW w \in S
  PROVE  <<x, y, z, w>> \in Seq(S)
OBVIOUS

(* Where ApplyAction(a) is within S, so is ApplyFailure(a, kind).          *)
LEMMA FailureWithin ==
  ASSUME NEW S, {"grace", "soft", "hard"} \subseteq S, NEW a, ApplyAction(a) \in Seq(S),
         NEW kind \in {"soft", "hard"}
  PROVE  ApplyFailure(a, kind) \in Seq(S)
<1> DEFINE first == <<"grace", kind>>
<1>1. first \in Seq(S)
  BY TwoWithin
<1>2. ApplyFailure(a, kind) = first \o ApplyAction(a)
  BY DEF ApplyFailure
<1> HIDE DEF first
<1> QED
  BY <1>1, <1>2, JoinWithin

-----------------------------------------------------------------------------
(* Report-only mode.                                                       *)

(* What touches the switch, or leads to a step that does.                  *)
HostSteps == {"disable", "try_disable", "enable", "delete", "refresh", "set_using_api",
              "apply_success"}

Quiet == Steps \ HostSteps

(* A call that goes by a report-only config has no such step ahead.        *)
ReportInv == \A c \in Calls : call[c].report => call[c].steps \in Seq(Quiet)

LEMMA BanQuiet ==
  /\ ApplyAction("ban") \in Seq(Quiet)
  /\ \A kind \in {"soft", "hard"} : ApplyFailure("ban", kind) \in Seq(Quiet)
<1> DEFINE first == <<"cooldown">>
           rest  == <<"ban_enabled", "isolate", "mark">>
<1>1. {"cooldown", "ban_enabled", "isolate", "mark", "grace", "soft", "hard"} \subseteq Quiet
  BY DEF Quiet, Steps, HostSteps
<1>2. first \in Seq(Quiet) /\ rest \in Seq(Quiet)
  BY <1>1, OneWithin, ThreeWithin
<1>3. ApplyAction("ban") = first \o rest
  BY DEF ApplyAction
<1> HIDE DEF first, rest
<1>4. ApplyAction("ban") \in Seq(Quiet)
  BY <1>2, <1>3, JoinWithin
<1> QED
  BY <1>1, <1>4, FailureWithin

LEMMA PlannedQuiet ==
  ASSUME NEW event, NEW plan, Planned(event, plan), plan.report
  PROVE  plan.steps \in Seq(Quiet)
BY BanQuiet DEF Planned, Fails

LEMMA FollowsQuiet ==
  ASSUME TypeOK, NEW c \in Calls, call[c].steps \in Seq(Quiet), NEW s, Follows(c, s)
  PROVE  s \in Seq(Quiet)
<1> DEFINE rest  == Tail(call[c].steps)
           clear == <<"release">>
           mark  == <<"release", "mark_id">>
           heal  == IF inCooldown(c, "id") THEN << >> ELSE mark
<1>1. call[c].steps # << >>
  BY DEF Follows, At
<1>2. Head(call[c].steps) \in Quiet /\ rest \in Seq(Quiet)
  BY <1>1, RestWithin
<1>3. ~At(c, "delete") /\ ~At(c, "refresh")
  BY <1>2 DEF At, Quiet, HostSteps
<1>4. {"release", "mark_id"} \subseteq Quiet
  BY DEF Quiet, Steps, HostSteps
<1>5. << >> \in Seq(Quiet) /\ clear \in Seq(Quiet) /\ mark \in Seq(Quiet)
  BY <1>4, OneWithin, TwoWithin
<1>6. s = rest \/ s = clear \/ s = heal \o rest
  BY <1>3 DEF Follows
<1> HIDE DEF clear, mark, rest
<1>7. heal \in Seq(Quiet)
  BY <1>5
<1> HIDE DEF heal
<1> QED
  BY <1>2, <1>5, <1>6, <1>7, JoinWithin

LEMMA LookQuiet ==
  ASSUME ~auto
  PROVE  <<"hard">> \o (IF banned THEN <<"heal">> ELSE << >>) \o ThenReenable \in Seq(Quiet)
<1> DEFINE hard == <<"hard">>
           one  == <<"heal">>
           heal == IF banned THEN one ELSE << >>
<1>1. {"hard", "heal"} \subseteq Quiet
  BY DEF Quiet, Steps, HostSteps
<1>2. hard \in Seq(Quiet) /\ one \in Seq(Quiet) /\ << >> \in Seq(Quiet)
  BY <1>1, OneWithin
<1>3. ThenReenable = << >>
  BY DEF ThenReenable
<1> HIDE DEF hard, one
<1>4. heal \in Seq(Quiet)
  BY <1>2
<1> HIDE DEF heal
<1>5. hard \o heal \o ThenReenable \in Seq(Quiet)
  BY <1>2, <1>3, <1>4, JoinWithin
<1> QED
  BY <1>5 DEF hard, one, heal

LEMMA StepReport ==
  ASSUME TypeOK, ReportInv, NEW c \in Calls, Step(c)
  PROVE  ReportInv'
<1>1. Taken(c)
  BY StepTaken
<1>2. SUFFICES ASSUME NEW d \in Calls, call'[d].report
               PROVE  call'[d].steps \in Seq(Quiet)
  BY DEF ReportInv
<1>3. CASE d # c
  BY <1>1, <1>2, <1>3 DEF Taken, SameCall, ReportInv
<1>4. CASE d = c
  <2>1. CASE call'[c] = Idle
    BY <1>2, <1>4, <2>1 DEF Idle
  <2>2. CASE SameCall(c) /\ Follows(c, call'[c].steps)
    BY <1>2, <1>4, <2>2, FollowsQuiet DEF SameCall, ReportInv
  <2>3. CASE /\ call'[c].report = ~auto
             /\ call'[c].steps = <<"hard">> \o (IF banned THEN <<"heal">> ELSE << >>)
                                 \o ThenReenable
    BY <1>2, <1>4, <2>3, LookQuiet
  <2>4. CASE Reenable(c) /\ call'[c].report = call[c].report
    <3>1. call[c].steps \in Seq(Quiet) /\ call[c].steps # << >>
          /\ Head(call[c].steps) = "apply_success"
      BY <1>2, <1>4, <2>4 DEF ReportInv, Reenable, At
    <3> QED
      BY <3>1, RestWithin DEF Quiet, HostSteps
  <2> QED
    BY <1>1, <2>1, <2>2, <2>3, <2>4 DEF Taken
<1> QED
  BY <1>3, <1>4

(* A thread with quiet steps leaves the switch alone.                      *)
LEMMA QuietStep ==
  ASSUME NEW c \in Calls, call[c].steps \in Seq(Quiet), Step(c)
  PROVE  UNCHANGED disabled
<1>1. \A step \in HostSteps : ~At(c, step)
  BY RestWithin DEF At, Quiet
<1>2. ~Switch(c) /\ ~Refresh(c) /\ ~SetUsingAPI(c)
  BY <1>1 DEF Switch, Refresh, SetUsingAPI, HostSteps
<1> QED
  BY <1>2 DEF Step, Grace, bumpStreak, clearStreak, Cooldown, markCooldown, BanEnabled, Isolate,
              Release, Delete, Look, Heal, Reenable, ListDisabled

(***************************************************************************)
(* Report-only mode spares the host, for any number of calls, every        *)
(* configuration and every change of auto_execute in between: no step of a *)
(* probe's call that goes by a report-only copy of the config, nor of a    *)
(* usage success that found auto_execute off, touches the switch.          *)
(***************************************************************************)
THEOREM ReportOnlySpares == Spec => ReportOnlySparesHost
<1>1. Init => ReportInv
  BY DEF Init, ReportInv, Idle
<1>2. TypeOK /\ ReportInv /\ [Next]_vars => ReportInv'
  <2> SUFFICES ASSUME TypeOK, ReportInv, [Next]_vars PROVE ReportInv'
    OBVIOUS
  <2>1. ASSUME NEW c \in Calls, NEW event \in Events, Begin(c, event)
        PROVE  ReportInv'
    <3>1. \A d \in Calls \ {c} : call'[d] = call[d]
      BY <2>1, Begun
    <3>2. call'[c] # Idle => Planned(event, call'[c])
      BY <2>1, Begun
    <3>3. ~Idle.report
      BY DEF Idle
    <3>4. call'[c].report => call'[c].steps \in Seq(Quiet)
      BY <3>2, <3>3, PlannedQuiet
    <3> QED
      BY <3>1, <3>4 DEF ReportInv
  <2>2. CASE \E c \in Calls : Step(c)
    BY <2>2, StepReport
  <2>3. CASE Environment \/ UNCHANGED vars
    BY <2>3, EnvironmentTaken DEF ReportInv, SameCall
  <2> QED
    BY <2>1, <2>2, <2>3 DEF Next, Environment
<1>3. TypeOK /\ ReportInv /\ [Next]_vars =>
        [\A c \in Calls : Moved(c) /\ call[c].report => UNCHANGED disabled]_vars
  <2> SUFFICES ASSUME TypeOK, ReportInv, Next, NEW c \in Calls, Moved(c), call[c].report
               PROVE  UNCHANGED disabled
    OBVIOUS
  <2>1. ASSUME NEW d \in Calls, NEW event \in Events, Begin(d, event)
        PROVE  UNCHANGED disabled
    BY <2>1 DEF Begin
  <2>2. ASSUME NEW d \in Calls, Step(d)
        PROVE  UNCHANGED disabled
    <3>1. d = c
      BY <2>2, StepTaken DEF Taken, Moved
    <3> QED
      BY <2>2, <3>1, QuietStep DEF ReportInv
  <2>3. CASE Environment
    BY <2>3, EnvironmentTaken DEF Moved
  <2> QED
    BY <2>1, <2>2, <2>3 DEF Next, Environment
<1> QED
  BY <1>1, <1>2, <1>3, EngineType, PTL DEF Spec, ReportOnlySparesHost

-----------------------------------------------------------------------------
(* The last word on an older row.                                          *)

UsageSteps == {"look", "hard", "heal", "release", "mark_id", "apply_success", "cooldown_id",
               "enable"}
ClearingSteps == {"grace", "soft", "hard", "cooldown", "disable", "set_using_api", "release",
                  "mark"}

(* Nothing but the clearing of the streak comes before the release.        *)
Heals(s) ==
  \E i \in 1..Len(s) : s[i] \in {"heal", "release"} /\ \A j \in 1..(i - 1) : s[j] = "hard"

(* The release is the last step before the mark.                           *)
ClearsLast(s) ==
  Len(s) >= 2 /\ s[Len(s) - 1] = "release" /\ \A j \in 1..(Len(s) - 1) : s[j] # "mark"

(* The call began before the row was last written, and the row is there.   *)
Older(c) == call[c].older /\ banned

(* A success has yet to look or to release, or a cooldown told it to leave *)
(* the row.                                                                *)
Healing(c) == call[c].held \/ call[c].steps = <<"look">> \/ Heals(call[c].steps)

(* Where a success has an older row before it, it is healing.              *)
RowInv == \A c \in Calls :
  /\ call[c].event = "usage_ok" =>
       /\ call[c].steps \in Seq(UsageSteps)
       /\ Older(c) => Healing(c)
  /\ call[c].event = "unban" => call[c].steps = <<"release">>
  /\ call[c].action \in {"disable", "using_api"} =>
       /\ call[c].steps \in Seq(ClearingSteps)
       /\ Older(c) => ClearsLast(call[c].steps)

(* The steps a look goes on with.                                          *)
LEMMA LookWithin ==
  ASSUME NEW S, {"hard", "heal", "apply_success"} \subseteq S
  PROVE  <<"hard">> \o (IF banned THEN <<"heal">> ELSE << >>) \o ThenReenable \in Seq(S)
<1> DEFINE hard == <<"hard">>
           one  == <<"heal">>
           then == <<"apply_success">>
           heal == IF banned THEN one ELSE << >>
<1>1. hard \in Seq(S) /\ one \in Seq(S) /\ then \in Seq(S) /\ << >> \in Seq(S)
  BY OneWithin
<1>2. ThenReenable \in {then, << >>}
  BY DEF ThenReenable
<1> HIDE DEF hard, one, then
<1>3. heal \in Seq(S)
  BY <1>1
<1> HIDE DEF heal
<1>4. hard \o heal \o ThenReenable \in Seq(S)
  BY <1>1, <1>2, <1>3, JoinWithin
<1> QED
  BY <1>4 DEF hard, one, heal

LEMMA JoinIndex ==
  ASSUME NEW s \in Seq(Steps), NEW t \in Seq(Steps)
  PROVE  /\ s \o t \in Seq(Steps) /\ Len(s \o t) = Len(s) + Len(t) /\ Len(t) \in Nat
         /\ \A i \in 1..Len(s) : (s \o t)[i] = s[i]
<1>1. /\ Len(s \o t) = Len(s) + Len(t)
      /\ \A i \in 1 .. Len(s) + Len(t) :
           (s \o t)[i] = IF i <= Len(s) THEN s[i] ELSE t[i - Len(s)]
  BY ConcatProperties
<1>2. Len(s) \in Nat /\ Len(t) \in Nat
  OBVIOUS
<1> QED
  BY <1>1, <1>2, ConcatProperties

LEMMA JoinClears ==
  ASSUME NEW p \in Seq(Steps), NEW q \in Seq(Steps), ClearsLast(q),
         \A i \in 1..Len(p) : p[i] # "mark"
  PROVE  ClearsLast(p \o q)
<1>1. /\ Len(p \o q) = Len(p) + Len(q)
      /\ \A i \in 1 .. Len(p) + Len(q) :
           (p \o q)[i] = IF i <= Len(p) THEN p[i] ELSE q[i - Len(p)]
  BY ConcatProperties
<1>2. Len(p) \in Nat /\ Len(q) \in Nat
  OBVIOUS
<1> QED
  BY <1>1, <1>2 DEF ClearsLast

LEMMA ClearingPlan ==
  ASSUME NEW a \in {"disable", "using_api"}
  PROVE  /\ ApplyAction(a) \in Seq(ClearingSteps) /\ ClearsLast(ApplyAction(a))
         /\ \A kind \in {"soft", "hard"} : /\ ApplyFailure(a, kind) \in Seq(ClearingSteps)
                                           /\ ClearsLast(ApplyFailure(a, kind))
<1> DEFINE first   == <<"cooldown">>
           disable == <<"disable", "release", "mark">>
           api     == <<"set_using_api", "release", "mark">>
           Kind(k) == <<"grace", k>>
<1>1. /\ {"grace", "soft", "hard", "cooldown", "disable", "set_using_api", "release", "mark"}
           \subseteq ClearingSteps
      /\ ClearingSteps \subseteq Steps
  BY DEF ClearingSteps, Steps
<1>2. first \in Seq(ClearingSteps) /\ disable \in Seq(ClearingSteps) /\ api \in Seq(ClearingSteps)
  BY <1>1, OneWithin, ThreeWithin
<1>3. \A k \in {"soft", "hard"} :
        Kind(k) \in Seq(ClearingSteps) /\ \A i \in 1..Len(Kind(k)) : Kind(k)[i] # "mark"
  BY <1>1, TwoWithin
<1>4. \A i \in 1..Len(first) : first[i] # "mark"
  OBVIOUS
<1>5. ClearsLast(disable) /\ ClearsLast(api)
  BY DEF ClearsLast
<1>6. \E rest \in {disable, api} : ApplyAction(a) = first \o rest
  BY DEF ApplyAction
<1>7. \A k \in {"soft", "hard"} : ApplyFailure(a, k) = Kind(k) \o ApplyAction(a)
  BY DEF ApplyFailure
<1>8. \A s \in Seq(ClearingSteps) : s \in Seq(Steps)
  BY <1>1
<1> HIDE DEF first, disable, api, Kind
<1>9. ApplyAction(a) \in Seq(ClearingSteps) /\ ClearsLast(ApplyAction(a))
  BY <1>2, <1>4, <1>5, <1>6, <1>8, JoinWithin, JoinClears
<1> QED
  BY <1>3, <1>7, <1>8, <1>9, JoinWithin, JoinClears

LEMMA PlannedClears ==
  ASSUME NEW event, NEW plan, Planned(event, plan),
         plan.action \in {"disable", "using_api"}
  PROVE  plan.steps \in Seq(ClearingSteps) /\ ClearsLast(plan.steps)
<1>1. OnSuccess \notin {"disable", "using_api"}
  BY ConfigAssumption DEF Modes
<1> QED
  BY <1>1, ClearingPlan DEF Planned, Fails

(* A row that appears is older than no call.                               *)
LEMMA RowWritten ==
  ASSUME TypeOK, NEW c \in Calls, Step(c), ~banned, banned'
  PROVE  Isolate(c) /\ \A d \in Calls : ~call'[d].older
<1>1. Isolate(c)
  BY DEF Step, Grace, bumpStreak, clearStreak, Cooldown, markCooldown, BanEnabled, Release,
         Switch, Delete, Refresh, SetUsingAPI, Look, Heal, Reenable, ListDisabled, ledger
<1> DEFINE rest == Tail(call[c].steps)
           next == [call EXCEPT ![c] = After(c, rest)]
<1>2. call' = [d \in Calls |-> [next[d] EXCEPT !.older = FALSE]]
  BY <1>1 DEF Isolate
<1>3. rest \in Seq(Steps)
  BY <1>1, TailType, Types DEF Isolate
<1> HIDE DEF rest
<1>4. next \in [Calls -> Call]
  BY <1>3, AfterType, Types
<1> HIDE DEF next
<1>5. \A d \in Calls : call'[d] = [next[d] EXCEPT !.older = FALSE] /\ next[d] \in Call
  BY <1>2, <1>4
<1> QED
  BY <1>1, <1>5 DEF Call

LEMMA OlderBefore ==
  ASSUME TypeOK, NEW c \in Calls, Step(c), NEW d \in Calls, Older(d)',
         SameCall(d) \/ (call'[d].older => call[d].older)
  PROVE  Older(d)
BY RowWritten DEF Older, SameCall

(* At these heads a thread has one step to take.                           *)
LEMMA OnlyStep ==
  ASSUME NEW c \in Calls, Step(c)
  PROVE  /\ At(c, "hard") => clearStreak(c)
         /\ At(c, "heal") => Heal(c)
         /\ At(c, "release") => Release(c)
         /\ At(c, "look") => Look(c)
         /\ At(c, "mark") => markCooldown(c)
BY DEF Step, At, Grace, bumpStreak, clearStreak, Cooldown, markCooldown, BanEnabled, Isolate,
       Release, Switch, Delete, Refresh, SetUsingAPI, Look, Heal, Reenable, ListDisabled

(* What heals goes on to heal, or the row is gone, or the cooldown says to *)
(* leave it.                                                               *)
LEMMA HealsOn ==
  ASSUME TypeOK, NEW c \in Calls, Step(c), Heals(call[c].steps)
  PROVE  \/ ~banned'
         \/ call'[c] # Idle /\ Heals(call'[c].steps)
         \/ At(c, "heal") /\ inCooldown(c, "id") /\ (call'[c] = Idle \/ call'[c].held)
<1> DEFINE s    == call[c].steps
           rest == Tail(s)
           mark == <<"release", "mark_id">>
<1>1. s \in Seq(Steps) /\ s # << >> /\ call \in [Calls -> Call]
  BY Types DEF Call, Heals
<1>2. PICK i \in 1..Len(s) : s[i] \in {"heal", "release"} /\ \A j \in 1..(i - 1) : s[j] = "hard"
  BY DEF Heals
<1>3. /\ rest \in Seq(Steps) /\ Len(rest) = Len(s) - 1 /\ Head(s) = s[1]
      /\ \A j \in 1..(Len(s) - 1) : rest[j] = s[j + 1]
  BY <1>1, HeadTailProperties
<1>4. CASE i = 1 /\ s[1] = "release"
  <2>1. Release(c)
    BY <1>1, <1>3, <1>4, OnlyStep DEF At
  <2> QED
    BY <2>1 DEF Release
<1>5. CASE i = 1 /\ s[1] = "heal" /\ inCooldown(c, "id")
  <2> DEFINE told == [call[c] EXCEPT !.steps = rest, !.held = TRUE]
  <2>1. At(c, "heal") /\ Heal(c)
    BY <1>1, <1>3, <1>5, OnlyStep DEF At
  <2>2. call' = [call EXCEPT ![c] = IF rest = << >> THEN Idle ELSE told]
    BY <1>5, <2>1 DEF Heal
  <2> HIDE DEF rest
  <2>3. told.held = TRUE
    BY <1>1 DEF Call
  <2> HIDE DEF told
  <2>4. call'[c] = Idle \/ call'[c] = told
    BY <1>1, <2>2
  <2> QED
    BY <1>5, <2>1, <2>3, <2>4
<1>6. CASE i = 1 /\ s[1] = "heal" /\ ~inCooldown(c, "id")
  <2>1. Heal(c)
    BY <1>1, <1>3, <1>6, OnlyStep DEF At
  <2>2. Goto(c, mark \o rest)
    BY <1>6, <2>1 DEF Heal
  <2>3. mark \in Seq(Steps) /\ Len(mark) = 2 /\ mark[1] = "release"
    BY DEF Steps
  <2> HIDE DEF mark, rest
  <2>4. /\ mark \o rest \in Seq(Steps) /\ Len(mark \o rest) = 2 + Len(rest)
        /\ (mark \o rest)[1] = "release"
    <3>1. /\ mark \o rest \in Seq(Steps) /\ Len(mark \o rest) = Len(mark) + Len(rest)
          /\ \A k \in 1..Len(mark) : (mark \o rest)[k] = mark[k]
      BY <1>3, <2>3, JoinIndex
    <3> QED
      BY <2>3, <3>1
  <2>5. Heals(mark \o rest) /\ mark \o rest # << >>
    BY <1>3, <2>4 DEF Heals
  <2>6. call'[c] = [call[c] EXCEPT !.steps = mark \o rest]
    BY <1>1, <2>2, <2>5 DEF Goto, After
  <2>7. call'[c].steps = mark \o rest
    BY <1>1, <2>6 DEF Call
  <2> QED
    BY <2>5, <2>7 DEF Idle
<1>7. CASE i > 1
  <2>1. Head(s) = "hard" /\ Len(s) \in Nat /\ Len(s) >= 2
    BY <1>1, <1>2, <1>3, <1>7
  <2>2. Goto(c, rest)
    BY <1>1, <2>1, OnlyStep DEF At, clearStreak, Continue
  <2>3. rest[i - 1] \in {"heal", "release"} /\ \A j \in 1..(i - 2) : rest[j] = "hard"
    BY <1>2, <1>3, <1>7, <2>1
  <2>4. i - 1 \in 1..Len(rest) /\ (i - 1) - 1 = i - 2
    BY <1>2, <1>3, <1>7, <2>1
  <2> HIDE DEF rest
  <2>5. Heals(rest) /\ rest # << >>
    <3>1. \E k \in 1..Len(rest) :
            rest[k] \in {"heal", "release"} /\ \A j \in 1..(k - 1) : rest[j] = "hard"
      BY <2>3, <2>4
    <3>2. Len(rest) > 0
      BY <1>3, <2>1
    <3> QED
      BY <3>1, <3>2 DEF Heals
  <2>6. call'[c] = [call[c] EXCEPT !.steps = rest]
    BY <1>1, <2>2, <2>5 DEF Goto, After
  <2>7. call'[c].steps = rest
    BY <1>1, <2>6 DEF Call
  <2> QED
    BY <2>5, <2>7 DEF Idle
<1> QED
  BY <1>1, <1>2, <1>4, <1>5, <1>6, <1>7

(* A look that finds a row goes on to heal.                                *)
LEMMA LookHeals ==
  ASSUME banned
  PROVE  Heals(<<"hard">> \o (IF banned THEN <<"heal">> ELSE << >>) \o ThenReenable)
<1> DEFINE hard == <<"hard">>
           heal == <<"heal">>
           both == hard \o heal
           all  == both \o ThenReenable
<1>1. hard \in Seq(Steps) /\ heal \in Seq(Steps)
  BY DEF Steps
<1>2. /\ Len(hard) = 1 /\ Len(heal) = 1 /\ hard[1] = "hard" /\ heal[1] = "heal"
  OBVIOUS
<1>3. hard \o (IF banned THEN heal ELSE << >>) \o ThenReenable = all
  OBVIOUS
<1> HIDE DEF hard, heal
<1>4. both \in Seq(Steps) /\ Len(both) = 2 /\ both[1] = "hard" /\ both[2] = "heal"
  <2>1. /\ both \in Seq(Steps)
        /\ Len(both) = Len(hard) + Len(heal)
        /\ \A k \in 1 .. Len(hard) + Len(heal) :
             both[k] = IF k <= Len(hard) THEN hard[k] ELSE heal[k - Len(hard)]
    BY <1>1, ConcatProperties
  <2> HIDE DEF both
  <2> QED
    BY <1>2, <2>1
<1> HIDE DEF both
<1>5. /\ Len(all) = 2 + Len(ThenReenable) /\ Len(ThenReenable) \in Nat
      /\ all[1] = "hard" /\ all[2] = "heal"
  <2>1. /\ Len(all) = Len(both) + Len(ThenReenable) /\ Len(ThenReenable) \in Nat
        /\ \A k \in 1..Len(both) : all[k] = both[k]
    BY <1>4, ReenableSteps, JoinIndex
  <2> HIDE DEF all
  <2> QED
    BY <1>4, <2>1
<1> HIDE DEF all
<1>6. Heals(all)
  <2>1. 2 \in 1..Len(all) /\ \A j \in 1..(2 - 1) : all[j] = "hard"
    BY <1>5
  <2> QED
    BY <1>5, <2>1 DEF Heals
<1> QED
  BY <1>3, <1>6 DEF hard, heal

LEMMA FollowsClearing ==
  ASSUME TypeOK, NEW c \in Calls, call[c].steps \in Seq(ClearingSteps), NEW s, Follows(c, s)
  PROVE  s = Tail(call[c].steps) /\ s \in Seq(ClearingSteps)
<1>1. call[c].steps # << >>
  BY DEF Follows, At
<1>2. Head(call[c].steps) \in ClearingSteps /\ Tail(call[c].steps) \in Seq(ClearingSteps)
  BY <1>1, RestWithin
<1>3. \A step \in {"ban_enabled", "delete", "refresh", "heal"} : ~At(c, step)
  BY <1>2 DEF At, ClearingSteps
<1> QED
  BY <1>2, <1>3 DEF Follows

(* What clears last still does, or the row is gone.                        *)
LEMMA ClearsOn ==
  ASSUME TypeOK, NEW c \in Calls, Step(c), call[c].steps \in Seq(ClearingSteps),
         ClearsLast(call[c].steps), NEW s, Follows(c, s)
  PROVE  ~banned' \/ ClearsLast(s)
<1> DEFINE old == call[c].steps
<1>1. s = Tail(old) /\ old # << >>
  BY FollowsClearing DEF Follows, At
<1>2. /\ Len(s) = Len(old) - 1 /\ Head(old) = old[1] /\ Len(old) \in Nat
      /\ \A j \in 1..(Len(old) - 1) : s[j] = old[j + 1]
  BY <1>1, HeadTailProperties
<1>3. CASE Len(old) = 2
  <2>1. Release(c)
    BY <1>1, <1>2, <1>3, OnlyStep DEF ClearsLast, At
  <2> QED
    BY <2>1 DEF Release
<1>4. CASE Len(old) > 2
  <2> DEFINE n == Len(old)
  <2>1. old[n - 1] = "release" /\ \A j \in 1..(n - 1) : old[j] # "mark"
    BY DEF ClearsLast
  <2>2. n \in Nat /\ n > 2 /\ Len(s) = n - 1 /\ \A j \in 1..(n - 1) : s[j] = old[j + 1]
    BY <1>2, <1>4
  <2> HIDE DEF n, old
  <2>3. s[n - 2] = old[n - 1] /\ Len(s) >= 2 /\ Len(s) - 1 = n - 2
    <3>1. n - 2 \in 1..(n - 1) /\ (n - 2) + 1 = n - 1
      BY <2>2
    <3> QED
      BY <2>2, <3>1
  <2>4. \A j \in 1..(n - 2) : s[j] # "mark"
    <3>1. \A j \in 1..(n - 2) : j \in 1..(n - 1) /\ j + 1 \in 1..(n - 1)
      BY <2>2
    <3> QED
      BY <2>1, <2>2, <3>1
  <2> QED
    BY <2>1, <2>3, <2>4 DEF ClearsLast
<1>5. Len(old) >= 2
  BY DEF ClearsLast
<1>6. Len(old) = 2 \/ Len(old) > 2
  <2> HIDE DEF old
  <2> QED
    BY <1>2, <1>5
<1> QED
  BY <1>3, <1>4, <1>6

LEMMA FollowsUsage ==
  ASSUME TypeOK, NEW c \in Calls, call[c].steps \in Seq(UsageSteps), NEW s, Follows(c, s)
  PROVE  s \in Seq(UsageSteps)
<1> DEFINE rest == Tail(call[c].steps)
           mark == <<"release", "mark_id">>
           heal == IF inCooldown(c, "id") THEN << >> ELSE mark
<1>1. call[c].steps # << >>
  BY DEF Follows, At
<1>2. Head(call[c].steps) \in UsageSteps /\ rest \in Seq(UsageSteps)
  BY <1>1, RestWithin
<1>3. \A step \in {"ban_enabled", "delete", "refresh"} : ~At(c, step)
  BY <1>2 DEF At, UsageSteps
<1>4. {"release", "mark_id"} \subseteq UsageSteps
  BY DEF UsageSteps
<1>5. mark \in Seq(UsageSteps) /\ << >> \in Seq(UsageSteps)
  BY <1>4, TwoWithin
<1>6. s = rest \/ s = heal \o rest
  BY <1>3 DEF Follows
<1> HIDE DEF mark, rest
<1>7. heal \in Seq(UsageSteps)
  BY <1>5
<1> HIDE DEF heal
<1> QED
  BY <1>2, <1>6, <1>7, JoinWithin

LEMMA HealingWithin ==
  ASSUME NEW mode \in Modes
  PROVE  ApplySuccess(mode) \in Seq(UsageSteps)
<1> DEFINE unban   == <<"cooldown_id", "release", "mark_id">>
           enable  == <<"cooldown_id", "enable", "mark_id">>
           both    == <<"cooldown_id", "release", "enable", "mark_id">>
<1>1. {"cooldown_id", "release", "enable", "mark_id"} \subseteq UsageSteps
  BY DEF UsageSteps
<1>2. << >> \in Seq(UsageSteps) /\ unban \in Seq(UsageSteps) /\ enable \in Seq(UsageSteps)
      /\ both \in Seq(UsageSteps)
  BY <1>1, ThreeWithin, FourWithin
<1>3. ApplySuccess(mode) \in {<< >>, unban, enable, both}
  BY DEF ApplySuccess, Modes
<1> HIDE DEF unban, enable, both
<1> QED
  BY <1>2, <1>3

(* A usage success on its way.                                             *)
LEMMA StepUsage ==
  ASSUME TypeOK, RowInv, NEW c \in Calls, Step(c),
         call[c].event = "usage_ok", call'[c] # Idle
  PROVE  /\ call'[c].steps \in Seq(UsageSteps)
         /\ Older(c)' => Healing(c)'
<1>1. /\ call[c].steps \in Seq(UsageSteps)
      /\ Older(c) => Healing(c)
  BY DEF RowInv
<1>2. /\ Taken(c)
      /\ Older(c)' => Older(c)
  BY StepTaken, OlderBefore DEF Taken, SameCall, Older, Idle
<1>3. Heals(call[c].steps) => ~banned' \/ Heals(call'[c].steps) \/ call'[c].held
  BY HealsOn
<1>4. CASE SameCall(c) /\ Follows(c, call'[c].steps)
  <2>1. call[c].steps = <<"look">> => FALSE
    <3>1. call[c].steps = <<"look">> => At(c, "look")
      BY DEF At
    <3> QED
      BY <1>4, <3>1 DEF Follows, At
  <2> QED
    BY <1>1, <1>2, <1>3, <1>4, <2>1, FollowsUsage DEF Older, Healing, SameCall
<1>5. CASE /\ Look(c)
           /\ call'[c].steps = <<"hard">> \o (IF banned THEN <<"heal">> ELSE << >>)
                               \o ThenReenable
  <2>1. {"hard", "heal", "apply_success"} \subseteq UsageSteps
    BY DEF UsageSteps
  <2>2. banned => Heals(call'[c].steps)
    BY <1>5, LookHeals
  <2> QED
    BY <1>2, <1>5, <2>1, <2>2, LookWithin DEF Older, Healing
<1>6. CASE /\ Reenable(c) /\ call'[c].steps = ApplySuccess(OnSuccess)
           /\ call[c].held => call'[c].held
  <2>1. At(c, "apply_success")
    BY <1>6 DEF Reenable
  <2>2. call[c].steps # <<"look">>
    BY <2>1 DEF At
  <2>3. ~Heals(call[c].steps)
    <3>1. call[c].steps[1] = "apply_success"
      BY <2>1, <1>1, HeadTailProperties DEF At
    <3> QED
      BY <3>1 DEF Heals
  <2> QED
    BY <1>1, <1>2, <1>6, <2>2, <2>3, HealingWithin, ConfigAssumption DEF Healing
<1> QED
  BY <1>2, <1>4, <1>5, <1>6 DEF Taken

(* An unban has one step to take, and it takes the row.                    *)
LEMMA StepUnban ==
  ASSUME TypeOK, NEW c \in Calls, Step(c), call[c].steps = <<"release">>
  PROVE  call'[c] = Idle /\ ~banned'
<1>1. At(c, "release") /\ Tail(call[c].steps) = << >>
  BY DEF At
<1>2. Release(c)
  BY <1>1, OnlyStep
<1> QED
  BY <1>1, <1>2, Types DEF Release, Continue, Goto, After

LEMMA StepRow ==
  ASSUME TypeOK, RowInv, NEW c \in Calls, Step(c)
  PROVE  RowInv'
<1>1. Taken(c)
  BY StepTaken
<1>2. SUFFICES ASSUME NEW d \in Calls
      PROVE  /\ call'[d].event = "usage_ok" =>
                  /\ call'[d].steps \in Seq(UsageSteps)
                  /\ Older(d)' => Healing(d)'
             /\ call'[d].event = "unban" => call'[d].steps = <<"release">>
             /\ call'[d].action \in {"disable", "using_api"} =>
                  /\ call'[d].steps \in Seq(ClearingSteps)
                  /\ Older(d)' => ClearsLast(call'[d].steps)
  BY DEF RowInv
<1>3. CASE d # c
  <2>1. SameCall(d) /\ call'[d].steps = call[d].steps
    BY <1>1, <1>3 DEF Taken
  <2>2. Older(d)' => Older(d)
    BY <2>1, OlderBefore
  <2> QED
    BY <2>1, <2>2 DEF SameCall, RowInv, Healing
<1>4. CASE d = c /\ call'[c] = Idle
  BY <1>4 DEF Idle
<1>5. CASE d = c /\ call'[c] # Idle
  <2>1. /\ call'[c].event = call[c].event /\ (Older(c)' => Older(c))
        /\ call'[c].event = "unban" => FALSE
    <3>1. call'[c].event = call[c].event /\ (call'[c].older => call[c].older)
      BY <1>1, <1>5 DEF Taken, SameCall
    <3>2. call[c].event # "unban"
      BY <1>5, StepUnban DEF RowInv
    <3> QED
      BY <3>1, <3>2, OlderBefore
  <2>2. call'[c].event = "usage_ok" =>
          /\ call'[c].steps \in Seq(UsageSteps)
          /\ Older(c)' => Healing(c)'
    BY <1>5, <2>1, StepUsage DEF RowInv
  <2>3. ASSUME call'[c].action \in {"disable", "using_api"}
        PROVE  /\ call'[c].steps \in Seq(ClearingSteps)
               /\ Older(c)' => ClearsLast(call'[c].steps)
    <3>1. OnSuccess \notin {"disable", "using_api"}
      BY ConfigAssumption DEF Modes
    <3>2. call'[c].action = call[c].action
      BY <1>1, <1>5, <2>3, <3>1 DEF Taken, SameCall
    <3>3. /\ call[c].steps \in Seq(ClearingSteps)
          /\ Older(c) => ClearsLast(call[c].steps)
      BY <2>3, <3>2 DEF RowInv
    <3>4. ~Look(c) /\ ~Reenable(c)
      <4>1. call[c].steps # << >> => Head(call[c].steps) \in ClearingSteps
        BY <3>3, RestWithin
      <4> QED
        BY <4>1 DEF Look, Reenable, At, ClearingSteps
    <3>5. Follows(c, call'[c].steps)
      BY <1>1, <1>5, <3>4 DEF Taken
    <3> QED
      BY <2>1, <3>3, <3>5, FollowsClearing, ClearsOn DEF Older
  <2> QED
    BY <1>5, <2>1, <2>2, <2>3
<1> QED
  BY <1>3, <1>4, <1>5

LEMMA BeginRow ==
  ASSUME TypeOK, RowInv, NEW c \in Calls, NEW event \in Events, Begin(c, event)
  PROVE  RowInv'
<1>1. /\ \A d \in Calls \ {c} : call'[d] = call[d]
      /\ call'[c] # Idle => Planned(event, call'[c])
      /\ banned' = banned
  BY Begun DEF Begin
<1>2. CASE call'[c] = Idle
  BY <1>1, <1>2 DEF RowInv, Older, Healing, Idle
<1>3. CASE call'[c] # Idle
  <2>1. Planned(event, call'[c]) /\ call'[c].event = event
    BY <1>1, <1>3 DEF Planned
  <2>2. event = "usage_ok" => call'[c].steps = <<"look">>
    BY <2>1 DEF Planned
  <2>3. <<"look">> \in Seq(UsageSteps)
    BY DEF UsageSteps
  <2>4. event = "unban" => call'[c].steps = <<"release">>
    BY <2>1 DEF Planned
  <2>5. call'[c].action \in {"disable", "using_api"} =>
          call'[c].steps \in Seq(ClearingSteps) /\ ClearsLast(call'[c].steps)
    BY <2>1, PlannedClears
  <2> QED
    BY <1>1, <2>1, <2>2, <2>3, <2>4, <2>5 DEF RowInv, Older, Healing
<1> QED
  BY <1>2, <1>3

LEMMA EnvironmentRow ==
  ASSUME TypeOK, RowInv, Environment \/ UNCHANGED vars
  PROVE  RowInv'
<1>1. \A d \in Calls : SameCall(d) /\ call'[d].steps = call[d].steps
  BY EnvironmentTaken
<1>2. banned' => banned
  BY DEF Environment, UpdateConfig, GraceLapses, StreakLapses, CooldownLapses, RowExpires,
         ledger, vars
<1> QED
  BY <1>1, <1>2 DEF RowInv, Older, Healing, SameCall

LEMMA LastWord ==
  ASSUME TypeOK, RowInv, NEW c \in Calls, Step(c),
         call[c] # Idle, call'[c] = Idle, Clears(c)
  PROVE  ~(call[c].older /\ banned') \/ Held(c)
<1>1. CASE call[c].event = "usage_ok"
  <2>1. /\ call[c].steps \in Seq(UsageSteps)
        /\ Older(c) => Healing(c)
    BY <1>1 DEF RowInv
  <2>2. ~Isolate(c)
    <3>1. call[c].steps # << >> => Head(call[c].steps) \in UsageSteps
      BY <2>1, RestWithin
    <3> QED
      BY <3>1 DEF Isolate, At, UsageSteps
  <2>3. banned' => banned
    BY <2>2, RowWritten
  <2>4. call[c].steps # <<"look">>
    <3> SUFFICES ASSUME call[c].steps = <<"look">> PROVE FALSE
      OBVIOUS
    <3>1. Look(c)
      BY OnlyStep DEF At
    <3>2. call'[c].event = call[c].event
      <4> DEFINE steps == <<"hard">> \o (IF banned THEN <<"heal">> ELSE << >>) \o ThenReenable
      <4>1. call' = [call EXCEPT ![c].report = ~auto, ![c].steps = steps]
        BY <3>1 DEF Look
      <4> HIDE DEF steps
      <4> QED
        BY <4>1, Types DEF Call
    <3> QED
      BY <1>1, <3>2 DEF Idle
  <2>5. Heals(call[c].steps) => ~banned' \/ Held(c)
    BY <1>1, HealsOn DEF Held
  <2> QED
    BY <1>1, <2>1, <2>3, <2>4, <2>5 DEF Older, Healing, Held
<1>2. CASE call[c].event = "unban"
  BY <1>2, StepUnban DEF RowInv
<1>3. CASE At(c, "mark") /\ call[c].action \in {"disable", "using_api"}
  <2>1. banned' = banned
    BY <1>3, OnlyStep DEF markCooldown, ledger
  <2>2. call[c].steps[1] = "mark" /\ call[c].steps \in Seq(ClearingSteps)
    BY <1>3, HeadTailProperties DEF At, RowInv
  <2>3. ~ClearsLast(call[c].steps)
    BY <2>2 DEF ClearsLast
  <2> QED
    BY <1>3, <2>1, <2>3 DEF RowInv, Older
<1> QED
  BY <1>1, <1>2, <1>3 DEF Clears

(***************************************************************************)
(* A success is the last word on an older row, for any number of calls,    *)
(* every failure of the host and every configuration: when a usage         *)
(* success, an unban, or a disable that worked returns, the row it found,  *)
(* or any written before it began, is gone, unless it is a usage success   *)
(* that found its release in cooldown.                                     *)
(***************************************************************************)
THEOREM SuccessClearsOlder == Spec => ClearsOlderRow
<1>1. Init => RowInv
  <2>1. Idle.event = "none" /\ Idle.action = "none"
    BY DEF Idle
  <2> QED
    BY <2>1 DEF Init, RowInv
<1>2. TypeOK /\ RowInv /\ [Next]_vars => RowInv'
  <2> SUFFICES ASSUME TypeOK, RowInv, [Next]_vars PROVE RowInv'
    OBVIOUS
  <2>1. CASE \E c \in Calls, event \in Events : Begin(c, event)
    BY <2>1, BeginRow
  <2>2. CASE \E c \in Calls : Step(c)
    BY <2>2, StepRow
  <2>3. CASE Environment \/ UNCHANGED vars
    BY <2>3, EnvironmentRow
  <2> QED
    BY <2>1, <2>2, <2>3 DEF Next, Environment
<1> DEFINE Cleared ==
      \A c \in Calls :
        call[c] # Idle /\ call'[c] = Idle /\ Clears(c) =>
          ~(call[c].older /\ banned') \/ Held(c)
<1>3. TypeOK /\ RowInv /\ [Next]_vars => [Cleared]_vars
  <2> SUFFICES ASSUME TypeOK, RowInv, Next, NEW c \in Calls,
                      call[c] # Idle, call'[c] = Idle, Clears(c)
               PROVE  ~(call[c].older /\ banned') \/ Held(c)
    OBVIOUS
  <2>1. Idle.event = "none" /\ Idle.steps = << >>
    BY DEF Idle
  <2>2. call[c].event \in {"usage_ok", "unban"} \/ call[c].steps # << >>
    BY DEF Clears, At
  <2>3. ASSUME NEW d \in Calls, NEW event \in Events, Begin(d, event)
        PROVE  FALSE
    BY <2>3, Begun
  <2>4. ASSUME NEW d \in Calls, Step(d)
        PROVE  ~(call[c].older /\ banned') \/ Held(c)
    <3>1. d = c
      BY <2>1, <2>2, <2>4, StepTaken DEF Taken, SameCall
    <3> QED
      BY <2>4, <3>1, LastWord
  <2>5. CASE Environment
    BY <2>1, <2>2, <2>5, EnvironmentTaken DEF SameCall
  <2> QED
    BY <2>3, <2>4, <2>5 DEF Next, Environment
<1> QED
  BY <1>1, <1>2, <1>3, EngineType, PTL DEF Spec, ClearsOlderRow

-----------------------------------------------------------------------------
(* Disabled and isolated exclude each other.                               *)

(* What a release has to follow.                                           *)
Leads == {"disable", "list_disabled"}

(* A disable, and a listing of who is disabled, are followed by a release; *)
(* an isolation is preceded by the question whether the credential is      *)
(* disabled.                                                               *)
Paired(s) == \A i \in 1..Len(s) :
  /\ s[i] \in Leads => i < Len(s) /\ s[i + 1] = "release"
  /\ s[i] = "isolate" /\ i > 1 => s[i - 1] = "ban_enabled"

FirstIs(s, step) == s # << >> /\ s[1] = step

(* All steps but those of a delete that falls back.                        *)
PairedSteps == Steps \ {"isolate_pending", "try_disable"}

Busy(c) == call[c].steps # << >>

(* As long as it is calm one call is in progress at most, and where the    *)
(* credential is both disabled and isolated that call will release it.     *)
Releasing(c) == At(c, "release") \/ At(c, "list_disabled")

CallPaired(c) ==
  /\ call[c].steps \in Seq(PairedSteps) /\ Paired(call[c].steps)
  /\ FirstIs(call[c].steps, "isolate") => ~disabled

ExclusiveInv == calm =>
  /\ \A c, d \in Calls : Busy(c) /\ Busy(d) => c = d
  /\ disabled /\ banned => \E c \in Calls : Releasing(c)
  /\ \A c \in Calls : CallPaired(c)

(* A plan as it is made: paired, and the isolation is not first.           *)
Made(s) == s \in Seq(PairedSteps) /\ Paired(s) /\ ~FirstIs(s, "isolate")

LEMMA PlainMade ==
  ASSUME NEW s \in Seq(PairedSteps \ (Leads \cup {"isolate"}))
  PROVE  Made(s)
<1>1. s \in Seq(PairedSteps)
  OBVIOUS
<1>2. \A i \in 1..Len(s) : s[i] \notin Leads /\ s[i] # "isolate"
  OBVIOUS
<1>3. s # << >> => 1 \in 1..Len(s)
  OBVIOUS
<1> QED
  BY <1>1, <1>2, <1>3 DEF Made, Paired, FirstIs

LEMMA JoinMade ==
  ASSUME NEW p \in Seq(PairedSteps \ (Leads \cup {"isolate"})), NEW q, Made(q)
  PROVE  Made(p \o q)
<1>1. q \in Seq(PairedSteps) /\ p \in Seq(PairedSteps)
  BY DEF Made
<1>2. /\ p \o q \in Seq(PairedSteps)
      /\ Len(p \o q) = Len(p) + Len(q)
      /\ \A i \in 1 .. Len(p) + Len(q) :
           (p \o q)[i] = IF i <= Len(p) THEN p[i] ELSE q[i - Len(p)]
  BY <1>1, ConcatProperties
<1>3. Len(p) \in Nat /\ Len(q) \in Nat
  BY <1>1
<1>4. \A i \in 1..Len(p) : p[i] \notin Leads /\ p[i] # "isolate"
  OBVIOUS
<1> DEFINE m == Len(p)
           n == Len(q)
           j == p \o q
<1>5. /\ m \in Nat /\ n \in Nat /\ Len(j) = m + n /\ j \in Seq(PairedSteps)
      /\ \A i \in 1..(m + n) : j[i] = (IF i <= m THEN p[i] ELSE q[i - m])
      /\ \A i \in 1..m : p[i] \notin Leads /\ p[i] # "isolate"
  BY <1>2, <1>3, <1>4
<1>6. \A i \in 1..n : /\ q[i] \in Leads => i < n /\ q[i + 1] = "release"
                      /\ q[i] = "isolate" => i > 1 /\ q[i - 1] = "ban_enabled"
  BY <1>1 DEF Made, Paired, FirstIs
<1> HIDE DEF j, m, n
<1>7. \A i \in 1..(m + n) : i > m => /\ i - m \in 1..n
                                     /\ j[i] = q[i - m]
                                     /\ i - m > 1 => j[i - 1] = q[(i - m) - 1]
                                     /\ i - m < n => j[i + 1] = q[(i - m) + 1]
  <2> SUFFICES ASSUME NEW i \in 1..(m + n), i > m
               PROVE  /\ i - m \in 1..n
                      /\ j[i] = q[i - m]
                      /\ i - m > 1 => j[i - 1] = q[(i - m) - 1]
                      /\ i - m < n => j[i + 1] = q[(i - m) + 1]
    OBVIOUS
  <2>1. i - m \in 1..n /\ j[i] = q[i - m]
    BY <1>5
  <2>2. ASSUME i - m > 1 PROVE j[i - 1] = q[(i - m) - 1]
    <3>1. i - 1 \in 1..(m + n) /\ ~(i - 1 <= m) /\ (i - 1) - m = (i - m) - 1
      BY <1>5, <2>2
    <3> QED
      BY <1>5, <3>1
  <2>3. ASSUME i - m < n PROVE j[i + 1] = q[(i - m) + 1]
    <3>1. i + 1 \in 1..(m + n) /\ ~(i + 1 <= m) /\ (i + 1) - m = (i - m) + 1
      BY <1>5, <2>3
    <3> QED
      BY <1>5, <3>1
  <2> QED
    BY <2>1, <2>2, <2>3
<1>8. \A i \in 1..(m + n) : i <= m => j[i] \notin Leads /\ j[i] # "isolate"
  BY <1>5
<1>9. \A i \in 1..(m + n) : /\ j[i] \in Leads => i < m + n /\ j[i + 1] = "release"
                            /\ j[i] = "isolate" => i > 1 /\ j[i - 1] = "ban_enabled"
  <2> SUFFICES ASSUME NEW i \in 1..(m + n)
               PROVE  /\ j[i] \in Leads => i < m + n /\ j[i + 1] = "release"
                      /\ j[i] = "isolate" => i > 1 /\ j[i - 1] = "ban_enabled"
    OBVIOUS
  <2>1. CASE i <= m
    BY <1>8, <2>1
  <2>2. CASE i > m
    <3>1. /\ i - m \in 1..n /\ j[i] = q[i - m]
          /\ i - m > 1 => j[i - 1] = q[(i - m) - 1]
          /\ i - m < n => j[i + 1] = q[(i - m) + 1]
      BY <1>7, <2>2
    <3>2. /\ j[i] \in Leads => i - m < n /\ j[i + 1] = "release"
          /\ j[i] = "isolate" => i - m > 1 /\ j[i - 1] = "ban_enabled"
      BY <1>6, <3>1
    <3> QED
      BY <1>5, <2>2, <3>2
  <2> QED
    BY <1>5, <2>1, <2>2
<1>10. Len(j) = m + n /\ j \in Seq(PairedSteps)
  BY <1>5
<1>11. Made(j)
  <2>1. j # << >> => 1 \in 1..(m + n)
    BY <1>5
  <2> QED
    BY <1>9, <1>10, <2>1 DEF Made, Paired, FirstIs
<1> QED
  BY <1>11 DEF j

(* What is left of a paired plan; and it is as if made, unless the         *)
(* question was its first step.                                            *)
LEMMA RestPaired ==
  ASSUME NEW s \in Seq(PairedSteps), Paired(s), s # << >>
  PROVE  /\ Tail(s) \in Seq(PairedSteps) /\ Paired(Tail(s))
         /\ s[1] # "ban_enabled" => Made(Tail(s))
         /\ s[1] \in Leads => FirstIs(Tail(s), "release")
<1> DEFINE n == Len(s)
           t == Tail(s)
<1>1. /\ n \in Nat /\ n > 0 /\ t \in Seq(PairedSteps) /\ Len(t) = n - 1
      /\ \A i \in 1..(n - 1) : t[i] = s[i + 1]
      /\ t # << >> => n - 1 > 0
      /\ n - 1 > 0 => t # << >>
  <2>1. /\ t \in Seq(PairedSteps) /\ Len(t) = n - 1
        /\ \A i \in 1..(n - 1) : t[i] = s[i + 1]
    BY HeadTailProperties
  <2>2. n \in Nat /\ n > 0
    OBVIOUS
  <2> HIDE DEF t
  <2>3. (t # << >> => Len(t) > 0) /\ (Len(t) > 0 => t # << >>)
    BY <2>1
  <2> QED
    BY <2>1, <2>2, <2>3
<1>2. \A i \in 1..n : /\ s[i] \in Leads => i < n /\ s[i + 1] = "release"
                      /\ s[i] = "isolate" /\ i > 1 => s[i - 1] = "ban_enabled"
  BY DEF Paired
<1> HIDE DEF n, t
<1>3. \A i \in 1..(n - 1) :
        /\ t[i] \in Leads => i < n - 1 /\ t[i + 1] = "release"
        /\ t[i] = "isolate" => (IF i > 1 THEN t[i - 1] ELSE s[1]) = "ban_enabled"
  <2> SUFFICES ASSUME NEW i \in 1..(n - 1)
               PROVE  /\ t[i] \in Leads => i < n - 1 /\ t[i + 1] = "release"
                      /\ t[i] = "isolate" => (IF i > 1 THEN t[i - 1] ELSE s[1]) = "ban_enabled"
    OBVIOUS
  <2>1. i + 1 \in 1..n /\ i + 1 > 1 /\ t[i] = s[i + 1]
    BY <1>1
  <2>2. ASSUME t[i] \in Leads PROVE i < n - 1 /\ t[i + 1] = "release"
    <3>1. i + 1 < n /\ s[(i + 1) + 1] = "release"
      BY <1>2, <2>1, <2>2
    <3>2. i + 1 \in 1..(n - 1)
      BY <1>1, <3>1
    <3> QED
      BY <1>1, <3>1, <3>2
  <2>3. ASSUME t[i] = "isolate"
        PROVE  (IF i > 1 THEN t[i - 1] ELSE s[1]) = "ban_enabled"
    <3>1. s[i] = "ban_enabled"
      <4>1. s[(i + 1) - 1] = "ban_enabled"
        BY <1>2, <2>1, <2>3
      <4>2. (i + 1) - 1 = i
        OBVIOUS
      <4> QED
        BY <4>1, <4>2
    <3>2. CASE i > 1
      <4>1. i - 1 \in 1..(n - 1) /\ (i - 1) + 1 = i
        BY <1>1, <3>2
      <4>2. t[i - 1] = s[i]
        BY <1>1, <4>1
      <4> QED
        BY <3>1, <3>2, <4>2
    <3>3. CASE i = 1
      BY <3>1, <3>3
    <3> QED
      BY <3>2, <3>3
  <2> QED
    BY <2>2, <2>3
<1>4. Paired(t)
  BY <1>1, <1>3 DEF Paired
<1>5. FirstIs(t, "isolate") => s[1] = "ban_enabled"
  <2>1. FirstIs(t, "isolate") => 1 \in 1..(n - 1)
    BY <1>1 DEF FirstIs
  <2> QED
    BY <1>3, <2>1 DEF FirstIs
<1>6. s[1] \in Leads => FirstIs(t, "release")
  <2>1. s[1] \in Leads => 1 < n /\ s[1 + 1] = "release"
    BY <1>1, <1>2
  <2>2. 1 < n => 1 \in 1..(n - 1)
    BY <1>1
  <2> QED
    BY <1>1, <2>1, <2>2 DEF FirstIs
<1> QED
  BY <1>1, <1>4, <1>5, <1>6 DEF Made, t

LEMMA PlannedMade ==
  ASSUME NEW event, NEW plan, Planned(event, plan)
  PROVE  Made(plan.steps)
<1> DEFINE S       == PairedSteps \ (Leads \cup {"isolate"})
           first   == <<"cooldown">>
           Kind(k) == <<"grace", k>>
           look    == <<"look">>
           clear   == <<"release">>
           listed  == <<"list_disabled", "release">>
           ban     == <<"ban_enabled", "isolate", "mark">>
           disable == <<"disable", "release", "mark">>
           delete  == <<"delete">>
           refresh == <<"refresh">>
           api     == <<"set_using_api", "release", "mark">>
           off     == <<"set_using_api", "mark">>
           enable  == <<"enable", "mark_id">>
           healed  == <<"cooldown_id", "release", "mark_id">>
           enabled == <<"cooldown_id", "enable", "mark_id">>
           both    == <<"cooldown_id", "release", "enable", "mark_id">>
<1>1. {"cooldown", "grace", "soft", "hard", "look", "release", "delete", "refresh",
       "set_using_api", "mark", "enable", "mark_id", "cooldown_id"} \subseteq S
  BY DEF PairedSteps, Steps, Leads
<1>2. {"ban_enabled", "isolate", "disable", "release", "mark", "list_disabled"} \subseteq PairedSteps
  BY DEF PairedSteps, Steps
<1> HIDE DEF S
<1>3. /\ first \in Seq(S) /\ look \in Seq(S) /\ clear \in Seq(S) /\ refresh \in Seq(S)
      /\ delete \in Seq(S) /\ api \in Seq(S) /\ off \in Seq(S) /\ enable \in Seq(S)
      /\ healed \in Seq(S) /\ enabled \in Seq(S) /\ both \in Seq(S) /\ << >> \in Seq(S)
      /\ \A k \in {"soft", "hard"} : Kind(k) \in Seq(S)
  BY <1>1, OneWithin, TwoWithin, ThreeWithin, FourWithin
<1>4. Made(ban) /\ Made(disable) /\ Made(listed)
  <2>1. ban \in Seq(PairedSteps) /\ disable \in Seq(PairedSteps)
    BY <1>2, ThreeWithin
  <2>4. listed \in Seq(PairedSteps)
    BY <1>2, TwoWithin
  <2>2. Paired(ban) /\ ~FirstIs(ban, "isolate")
    BY DEF Paired, FirstIs, Leads
  <2>3. Paired(disable) /\ ~FirstIs(disable, "isolate")
    BY DEF Paired, FirstIs, Leads
  <2>5. Paired(listed) /\ ~FirstIs(listed, "isolate")
    BY DEF Paired, FirstIs, Leads
  <2> QED
    BY <2>1, <2>2, <2>3, <2>4, <2>5 DEF Made
<1>5. \A a \in AllActions :
        \E rest \in {ban, disable, delete, refresh, api, off, enable} : ApplyAction(a) = first \o rest
  BY DEF AllActions, ApplyAction
<1>6. ApplySuccess(OnSuccess) \in {<< >>, healed, enabled, both}
  BY ConfigAssumption DEF ApplySuccess, Modes
<1>7. \A a, k : ApplyFailure(a, k) = Kind(k) \o ApplyAction(a)
  BY DEF ApplyFailure
<1>8. FailActions \cup OpActions \cup {"ban"} \subseteq AllActions
  BY ConfigAssumption DEF AllActions
<1>9. \/ plan.steps \in {look, clear, listed, ApplySuccess(OnSuccess)}
      \/ plan.action \in AllActions /\ plan.steps = ApplyAction(plan.action)
      \/ plan.action \in AllActions /\ Fails(plan)
  BY <1>8 DEF Planned
<1> HIDE DEF first, Kind, look, clear, listed, ban, disable, delete, refresh, api, off, enable, healed,
             enabled, both
<1>10. \A t \in {look, clear, delete, refresh, api, off, enable, healed, enabled, both, << >>} :
         Made(t)
  BY <1>3, PlainMade DEF S
<1>11. \A a \in AllActions : Made(ApplyAction(a))
  <2> TAKE a \in AllActions
  <2>1. PICK rest \in {ban, disable, delete, refresh, api, off, enable} : ApplyAction(a) = first \o rest
    BY <1>5
  <2>2. Made(rest)
    BY <1>4, <1>10
  <2> QED
    BY <1>3, <2>1, <2>2, JoinMade DEF S
<1>12. \A a \in AllActions, k \in {"soft", "hard"} : Made(ApplyFailure(a, k))
  BY <1>3, <1>7, <1>11, JoinMade DEF S
<1> QED
  BY <1>4, <1>6, <1>9, <1>10, <1>11, <1>12 DEF Fails

LEMMA SuccessMade == Made(ApplySuccess(OnSuccess))
<1> DEFINE S       == PairedSteps \ (Leads \cup {"isolate"})
           healed  == <<"cooldown_id", "release", "mark_id">>
           enabled == <<"cooldown_id", "enable", "mark_id">>
           both    == <<"cooldown_id", "release", "enable", "mark_id">>
<1>1. {"release", "enable", "mark_id", "cooldown_id"} \subseteq S
  BY DEF PairedSteps, Steps, Leads
<1> HIDE DEF S
<1>2. healed \in Seq(S) /\ enabled \in Seq(S) /\ both \in Seq(S) /\ << >> \in Seq(S)
  BY <1>1, ThreeWithin, FourWithin
<1>3. ApplySuccess(OnSuccess) \in {<< >>, healed, enabled, both}
  BY ConfigAssumption DEF ApplySuccess, Modes
<1> HIDE DEF healed, enabled, both
<1> QED
  BY <1>2, <1>3, PlainMade DEF S

LEMMA LookMade ==
  Made(<<"hard">> \o (IF banned THEN <<"heal">> ELSE << >>) \o ThenReenable)
<1>1. {"hard", "heal", "apply_success"} \subseteq PairedSteps \ (Leads \cup {"isolate"})
  BY DEF PairedSteps, Steps, Leads
<1> QED
  BY <1>1, LookWithin, PlainMade

(* What follows in a plan, where no delete falls back and no reauth        *)
(* isolates.                                                               *)
LEMMA FollowsPaired ==
  ASSUME TypeOK, NEW c \in Calls, CallPaired(c), NEW s, Follows(c, s),
         At(c, "delete") \/ At(c, "refresh") => s = <<"release", "mark_id">>
  PROVE  /\ s \in Seq(PairedSteps) /\ Paired(s)
         /\ FirstIs(s, "isolate") => At(c, "ban_enabled")
<1> DEFINE old   == call[c].steps
           rest  == Tail(old)
           S     == PairedSteps \ (Leads \cup {"isolate"})
           clear == <<"release">>
           mark  == <<"release", "mark_id">>
           heal  == IF inCooldown(c, "id") THEN << >> ELSE mark
<1>1. old # << >>
  BY DEF Follows, At
<1>2. /\ Head(old) = old[1] /\ Head(old) \in PairedSteps
      /\ rest \in Seq(PairedSteps) /\ Paired(rest)
      /\ Head(old) # "ban_enabled" => Made(rest)
  BY <1>1, RestPaired, RestWithin, HeadTailProperties DEF CallPaired
<1>3. {"release", "mark_id"} \subseteq S
  BY DEF PairedSteps, Steps, Leads
<1>4. \/ s = rest \/ s = clear \/ s = mark
      \/ At(c, "heal") /\ s = heal \o rest
  BY DEF Follows
<1> HIDE DEF S
<1>5. clear \in Seq(S) /\ mark \in Seq(S) /\ << >> \in Seq(S)
  BY <1>3, OneWithin, TwoWithin
<1> HIDE DEF clear, mark, rest, old
<1>6. heal \in Seq(S)
  BY <1>5
<1> HIDE DEF heal
<1>7. CASE s = rest
  BY <1>1, <1>2, <1>7 DEF Made, At, old, rest
<1>8. CASE s \in {clear, mark}
  BY <1>5, <1>8, PlainMade DEF Made, S
<1>9. CASE At(c, "heal") /\ s = heal \o rest
  <2>1. Head(old) = "heal"
    BY <1>9 DEF At, old
  <2> QED
    BY <1>2, <1>6, <1>9, <2>1, JoinMade DEF Made, S
<1> QED
  BY <1>4, <1>7, <1>8, <1>9

LEMMA EmptyMade == Made(<< >>)
<1>1. << >> \in Seq(PairedSteps \ (Leads \cup {"isolate"}))
  OBVIOUS
<1> QED
  BY <1>1, PlainMade

(* A step makes nothing calm, and none of its thread is left undone.       *)
LEMMA StepCalm ==
  ASSUME NEW c \in Calls, Step(c)
  PROVE  Busy(c) /\ (calm' => calm)
<1>1. Busy(c)
  BY DEF Step, Grace, bumpStreak, clearStreak, Cooldown, markCooldown, BanEnabled, Isolate,
         Release, Switch, Delete, Refresh, SetUsingAPI, Look, Heal, Reenable, ListDisabled, At,
         Busy
<1>2. ASSUME BanEnabled(c) \/ Switch(c) \/ Delete(c) \/ Refresh(c) \/ ListDisabled(c)
      PROVE  calm' => calm
  BY <1>2 DEF BanEnabled, Switch, Delete, Refresh, ListDisabled
<1>3. \/ BanEnabled(c) \/ Switch(c) \/ Delete(c) \/ Refresh(c) \/ ListDisabled(c)
      \/ UNCHANGED calm
  BY DEF Step, Grace, bumpStreak, clearStreak, Cooldown, markCooldown, Isolate, Release,
         SetUsingAPI, Look, Heal, Reenable
<1> QED
  BY <1>1, <1>2, <1>3

(* Where it stays calm a delete was carried out, and a refreshed           *)
(* credential is active.                                                   *)
LEMMA CalmOutcome ==
  ASSUME TypeOK, NEW c \in Calls, Step(c), calm', call'[c] # Idle,
         At(c, "delete") \/ At(c, "refresh")
  PROVE  call'[c].steps = <<"release", "mark_id">>
<1> DEFINE done == <<"release", "mark_id">>
<1>1. Delete(c) \/ Refresh(c)
  BY DEF Step, At, Grace, bumpStreak, clearStreak, Cooldown, markCooldown, BanEnabled, Isolate,
         Release, Switch, SetUsingAPI, Look, Heal, Reenable, ListDisabled
<1>2. Goto(c, done) \/ Return(c)
  BY <1>1 DEF Delete, Refresh
<1>3. done # << >>
  OBVIOUS
<1> HIDE DEF done
<1>4. CASE Return(c)
  BY <1>4, Types DEF Return, Goto, After
<1>5. CASE Goto(c, done)
  <2>1. call'[c] = [call[c] EXCEPT !.steps = done]
    BY <1>3, <1>5, Types DEF Goto, After
  <2>2. call'[c].steps = done
    BY <2>1, Types DEF Call
  <2> QED
    BY <2>2 DEF done
<1> QED
  BY <1>2, <1>4, <1>5

(* The steps ahead of a thread that moved.                                 *)
LEMMA StepPaired ==
  ASSUME TypeOK, NEW c \in Calls, CallPaired(c), Step(c), calm'
  PROVE  CallPaired(c)'
<1>1. Taken(c)
  BY StepTaken
<1>2. CASE call'[c] = Idle
  <2>1. Idle.steps = << >>
    BY DEF Idle
  <2> QED
    BY <1>2, <2>1 DEF CallPaired, Paired, FirstIs
<1>3. CASE SameCall(c) /\ Follows(c, call'[c].steps) /\ call'[c] # Idle
  <2>1. /\ call'[c].steps \in Seq(PairedSteps) /\ Paired(call'[c].steps)
        /\ FirstIs(call'[c].steps, "isolate") => At(c, "ban_enabled")
    BY <1>3, FollowsPaired, CalmOutcome
  <2>2. ASSUME FirstIs(call'[c].steps, "isolate")
        PROVE  ~disabled'
    <3>1. BanEnabled(c)
      BY <2>1, <2>2 DEF Step, At, Grace, bumpStreak, clearStreak, Cooldown, markCooldown, Isolate,
                        Release, Switch, Delete, Refresh, SetUsingAPI, Look, Heal, Reenable,
                        ListDisabled
    <3>2. CASE disabled /\ Goto(c, <<"release">>)
      <4> DEFINE clear == <<"release">>
      <4>1. clear # << >> /\ ~FirstIs(clear, "isolate")
        BY DEF FirstIs
      <4>2. Goto(c, clear)
        BY <3>2
      <4> HIDE DEF clear
      <4>3. call'[c] = [call[c] EXCEPT !.steps = clear]
        BY <4>1, <4>2, Types DEF Goto, After
      <4>4. call'[c].steps = clear
        BY <4>3, Types DEF Call
      <4> QED
        BY <2>2, <4>1, <4>4
    <3> QED
      BY <3>1, <3>2 DEF BanEnabled
  <2> QED
    BY <2>1, <2>2 DEF CallPaired
<1>4. CASE call'[c].steps = <<"hard">> \o (IF banned THEN <<"heal">> ELSE << >>) \o ThenReenable
  BY <1>4, LookMade DEF Made, CallPaired
<1>5. CASE call'[c].steps = ApplySuccess(OnSuccess)
  BY <1>5, SuccessMade DEF Made, CallPaired
<1> QED
  BY <1>1, <1>2, <1>3, <1>4, <1>5 DEF Taken

(* A switch that is reported to have worked is as asked.                   *)
LEMMA SwitchOutcome ==
  ASSUME NEW d \in BOOLEAN, NEW o \in SetDisabled(d), o.ok
  PROVE  o.disabled = d
BY DEF SetDisabled

(* The thread goes on with the release that follows.                       *)
LEMMA ThenReleases ==
  ASSUME TypeOK, NEW c \in Calls, CallPaired(c), NEW step \in Leads, At(c, step), Continue(c)
  PROVE  Releasing(c)'
<1> DEFINE s    == call[c].steps
           rest == Tail(s)
<1>1. call \in [Calls -> Call] /\ s \in Seq(PairedSteps) /\ Paired(s) /\ s # << >>
  BY Types DEF CallPaired, At
<1>2. s[1] \in Leads
  BY <1>1, HeadTailProperties DEF At
<1>3. FirstIs(rest, "release") /\ rest \in Seq(PairedSteps)
  BY <1>1, <1>2, RestPaired
<1>4. Goto(c, rest)
  BY DEF Continue
<1> HIDE DEF rest
<1>5. call'[c] = [call[c] EXCEPT !.steps = rest]
  BY <1>1, <1>3, <1>4 DEF Goto, After, FirstIs
<1>6. call'[c].steps = rest
  BY <1>1, <1>5 DEF Call
<1> QED
  BY <1>3, <1>6, HeadTailProperties DEF Releasing, At, FirstIs

(* The switch and the row after a step, where it stays calm.               *)
LEMMA StepExclusive ==
  ASSUME TypeOK, ExclusiveInv, NEW c \in Calls, Step(c), calm, calm'
  PROVE  disabled' /\ banned' => Releasing(c)'
<1> DEFINE s == call[c].steps
<1>1. /\ s \in Seq(PairedSteps) /\ Paired(s) /\ (FirstIs(s, "isolate") => ~disabled)
      /\ call \in [Calls -> Call] /\ CallPaired(c)
  BY Types DEF ExclusiveInv, CallPaired
<1>2. s # << >> => s[1] = Head(s) /\ Head(s) \in PairedSteps
  BY <1>1, RestWithin, HeadTailProperties
<1>3. disabled /\ banned => Releasing(c)
  BY StepCalm DEF ExclusiveInv, Releasing, At, Busy
<1>4. CASE Isolate(c)
  <2>1. CASE At(c, "isolate")
    BY <1>1, <1>2, <1>4, <2>1 DEF Isolate, At, FirstIs
  <2>2. ~At(c, "isolate_pending")
    BY <1>2 DEF At, PairedSteps
  <2> QED
    BY <1>4, <2>1, <2>2 DEF Isolate
<1>5. CASE Release(c)
  BY <1>5 DEF Release
<1>6. CASE Switch(c)
  <2>1. ~At(c, "try_disable")
    BY <1>2 DEF At, PairedSteps
  <2> DEFINE asked == At(c, "disable")
  <2>2. PICK o \in SetDisabled(asked) : disabled' = o.disabled /\ o.ok /\ Continue(c)
    BY <1>6, <2>1 DEF Switch
  <2>3. CASE At(c, "disable")
    BY <1>1, <2>2, <2>3, ThenReleases DEF Leads
  <2>4. CASE ~At(c, "disable")
    <3>1. asked = FALSE
      BY <2>4 DEF At
    <3> HIDE DEF asked
    <3>2. o.disabled = FALSE
      BY <2>2, <3>1, SwitchOutcome
    <3> QED
      BY <2>2, <3>2
  <2> QED
    BY <2>3, <2>4
<1>7. CASE Refresh(c)
  <2>1. ~Releasing(c)
    BY <1>7 DEF Refresh, At, Releasing
  <2>2. banned' = banned /\ (disabled' = disabled \/ disabled' = FALSE)
    BY <1>7 DEF Refresh, ledger
  <2> QED
    BY <1>3, <2>1, <2>2
<1>8. CASE SetUsingAPI(c)
  <2>1. ~Releasing(c)
    BY <1>8 DEF SetUsingAPI, At, Releasing
  <2>2. banned' = banned /\ (disabled' = disabled \/ disabled' = FALSE)
    BY <1>8 DEF SetUsingAPI, ledger
  <2> QED
    BY <1>3, <2>1, <2>2
<1>9. CASE ListDisabled(c)
  <2>1. disabled' => At(c, "list_disabled") /\ Continue(c)
    BY <1>9 DEF ListDisabled
  <2> QED
    BY <1>1, <2>1, ThenReleases DEF Leads
<1>10. CASE ~Release(c) /\ ~ListDisabled(c) /\ UNCHANGED <<disabled, banned>>
  <2>1. ~At(c, "release")
    BY <1>10, OnlyStep
  <2>2. ~At(c, "list_disabled")
    BY <1>10 DEF Step, At, Grace, bumpStreak, clearStreak, Cooldown, markCooldown, BanEnabled,
                 Isolate, Switch, Delete, Refresh, SetUsingAPI, Look, Heal, Reenable
  <2> QED
    BY <1>3, <1>10, <2>1, <2>2 DEF Releasing
<1>11. \/ Isolate(c) \/ Release(c) \/ Switch(c) \/ Refresh(c) \/ SetUsingAPI(c)
       \/ ListDisabled(c) \/ UNCHANGED <<disabled, banned>>
  BY DEF Step, Grace, bumpStreak, clearStreak, Cooldown, markCooldown, BanEnabled, Delete,
         Look, Heal, Reenable, ledger
<1> QED
  BY <1>4, <1>5, <1>6, <1>7, <1>8, <1>9, <1>10, <1>11

LEMMA StepKeepsExclusive ==
  ASSUME TypeOK, ExclusiveInv, NEW c \in Calls, Step(c)
  PROVE  ExclusiveInv'
<1> SUFFICES ASSUME calm'
             PROVE  /\ \A d, e \in Calls : Busy(d)' /\ Busy(e)' => d = e
                    /\ disabled' /\ banned' => \E d \in Calls : Releasing(d)'
                    /\ \A d \in Calls : CallPaired(d)'
  BY DEF ExclusiveInv
<1>1. calm /\ Busy(c)
  BY StepCalm
<1>2. \A d \in Calls \ {c} : call[d].steps = << >> /\ call'[d].steps = << >>
  BY <1>1, StepTaken DEF ExclusiveInv, Taken, Busy
<1>3. CallPaired(c)'
  BY <1>1, StepPaired DEF ExclusiveInv
<1>4. \A d \in Calls \ {c} : CallPaired(d)'
  BY <1>2, EmptyMade DEF CallPaired, Made, FirstIs
<1> QED
  BY <1>1, <1>2, <1>3, <1>4, StepExclusive DEF Busy

(* A reconciliation begins with the listing.                               *)
LEMMA BeginReconciles ==
  ASSUME TypeOK, NEW c \in Calls, Begin(c, "reconcile")
  PROVE  At(c, "list_disabled")'
<1> DEFINE steps == <<"list_disabled", "release">>
           plan  == Plan("reconcile", "none", steps)
<1>1. PICK key \in lookupEmail("reconcile") :
        call' = [call EXCEPT ![c] =
                   IF plan = Idle THEN Idle
                   ELSE [plan EXCEPT !.key = key, !.older = banned, !.graced = grace]]
  BY DEF Begin, PlansOf, Reconcile
<1>2. steps \in Seq(Steps) /\ steps # << >> /\ Head(steps) = "list_disabled"
  BY DEF Steps
<1> HIDE DEF steps
<1>3. plan \in Call /\ plan.event = "reconcile" /\ plan.steps = steps
  BY <1>2, PlanType, KnownActions DEF AllEvents
<1> HIDE DEF plan
<1>4. plan # Idle
  BY <1>3 DEF Idle
<1>5. call'[c] = [plan EXCEPT !.key = key, !.older = banned, !.graced = grace]
  BY <1>1, <1>4, Types
<1>6. call'[c].steps = steps
  BY <1>3, <1>5 DEF Call
<1> QED
  BY <1>2, <1>6 DEF At

LEMMA BeginExclusive ==
  ASSUME TypeOK, ExclusiveInv, NEW c \in Calls, NEW event \in Events, Begin(c, event)
  PROVE  ExclusiveInv'
<1> SUFFICES ASSUME calm' PROVE ExclusiveInv'
  BY DEF ExclusiveInv
<1>1. /\ \A d \in Calls \ {c} : call'[d] = call[d]
      /\ call'[c] # Idle => Planned(event, call'[c])
      /\ disabled' = disabled /\ banned' = banned
      /\ AllIdle /\ (~(disabled /\ banned) \/ event = "reconcile")
  BY Begun DEF Begin, ledger
<1>2. Idle.steps = << >>
  BY DEF Idle
<1>3. \A d \in Calls \ {c} : call'[d].steps = << >>
  BY <1>1, <1>2 DEF AllIdle
<1>4. disabled' /\ banned' => Releasing(c)'
  BY <1>1, BeginReconciles DEF Releasing
<1>5. Made(call'[c].steps)
  BY <1>1, <1>2, PlannedMade, EmptyMade
<1>6. CallPaired(c)'
  BY <1>5 DEF CallPaired, Made
<1>7. \A d \in Calls \ {c} : CallPaired(d)'
  BY <1>3, EmptyMade DEF CallPaired, Made
<1> QED
  BY <1>3, <1>4, <1>6, <1>7 DEF ExclusiveInv, Busy

LEMMA EnvironmentExclusive ==
  ASSUME TypeOK, ExclusiveInv, Environment \/ UNCHANGED vars
  PROVE  ExclusiveInv'
<1>1. \A d \in Calls : call'[d].steps = call[d].steps
  BY EnvironmentTaken
<1>2. disabled' = disabled /\ (banned' => banned) /\ calm' = calm
  BY DEF Environment, UpdateConfig, GraceLapses, StreakLapses, CooldownLapses, RowExpires,
         ledger, vars
<1> QED
  BY <1>1, <1>2 DEF ExclusiveInv, CallPaired, Releasing, Busy, At

(***************************************************************************)
(* Disabled and isolated exclude each other between calls that come one at *)
(* a time, for every configuration, with or without a management key and   *)
(* whatever the host fails at: only an overlap, a switch or a listing that *)
(* failed, a delete that fell back or a reauth that isolated can bring the *)
(* two together, and after any of them one call of the reconciliation, by  *)
(* itself and answered, takes them apart.                                  *)
(***************************************************************************)
THEOREM ExclusiveBetweenCalls == Spec => []DisabledExclusive
<1>1. Init => ExclusiveInv
  <2>1. Idle.steps = << >>
    BY DEF Idle
  <2> QED
    BY <2>1, EmptyMade DEF Init, ExclusiveInv, CallPaired, Busy, Made
<1>2. TypeOK /\ ExclusiveInv /\ [Next]_vars => ExclusiveInv'
  BY BeginExclusive, StepKeepsExclusive, EnvironmentExclusive DEF Next, Environment
<1>3. ExclusiveInv => DisabledExclusive
  BY DEF ExclusiveInv, DisabledExclusive, AllIdle, Releasing, At, Idle
<1> QED
  BY <1>1, <1>2, <1>3, EngineType, PTL DEF Spec

-----------------------------------------------------------------------------
(* One failure, one write: what the rows see of a failure.                 *)

Failing(c) == call[c].event \in {"usage_fail", "probe_fail", "probe_local"}

RowSteps  == {"isolate", "isolate_pending", "release"}
MarkSteps == {"mark", "mark_id"}

(***************************************************************************)
(* A call that applies a failure writes the row once at most, whatever the *)
(* host answers: the step that does leaves it nothing but cooldowns to     *)
(* mark, and a failure that disables does not isolate.  (So the readers of *)
(* the ledger see a failure as one write or none, and Fleet may take it    *)
(* for one step: applyDelete never releases what it then isolates.)        *)
(***************************************************************************)
FailureWritesOnce ==
  [][\A c \in Calls :
       /\ Failing(c) /\ Moved(c)
       /\ ledger' # ledger \/ \E step \in RowSteps : At(c, step)
       => /\ call'[c].steps \in Seq(MarkSteps)
          /\ call[c].action = "disable" => ~banned']_vars

(* The steps a failure's call may have ahead, by its action.               *)
FailingSteps(action) ==
  {"grace", "soft", "hard", "cooldown", "ban_enabled", "release", "mark", "mark_id",
   "disable", "try_disable"}
  \cup IF action = "disable" THEN {} ELSE {"delete", "isolate", "isolate_pending"}

(* Nothing but marks comes after a step on the row.                        *)
RowStepLast(s) ==
  \A i, j \in 1..Len(s) : i < j /\ s[i] \in RowSteps => s[j] \in MarkSteps

FailureInv == \A c \in Calls : Failing(c) =>
  /\ call[c].steps \in Seq(FailingSteps(call[c].action))
  /\ RowStepLast(call[c].steps)

LEMMA JoinRowStep ==
  ASSUME NEW S, NEW s \in Seq(S), NEW t \in Seq(S), RowStepLast(t),
         \A i \in 1..Len(s) : s[i] \notin RowSteps
  PROVE  RowStepLast(s \o t)
<1>1. /\ Len(s \o t) = Len(s) + Len(t)
      /\ \A i \in 1 .. Len(s) + Len(t) :
           (s \o t)[i] = IF i <= Len(s) THEN s[i] ELSE t[i - Len(s)]
  BY ConcatProperties
<1>2. Len(s) \in Nat /\ Len(t) \in Nat
  OBVIOUS
<1> SUFFICES ASSUME NEW i \in 1 .. Len(s) + Len(t), NEW j \in 1 .. Len(s) + Len(t),
                    i < j, (s \o t)[i] \in RowSteps
             PROVE  (s \o t)[j] \in MarkSteps
  BY <1>1 DEF RowStepLast
<1>3. i > Len(s)
  BY <1>1, <1>2
<1>4. (s \o t)[i] = t[i - Len(s)] /\ (s \o t)[j] = t[j - Len(s)]
  BY <1>1, <1>2, <1>3
<1>5. i - Len(s) \in 1..Len(t) /\ j - Len(s) \in 1..Len(t) /\ i - Len(s) < j - Len(s)
  BY <1>2, <1>3
<1> QED
  BY <1>4, <1>5 DEF RowStepLast

LEMMA WithinBy ==
  ASSUME NEW S, NEW R, NEW s \in Seq(S), \A i \in 1..Len(s) : s[i] \in R
  PROVE  s \in Seq(R)
<1>1. s \in [1..Len(s) -> S] /\ Len(s) \in Nat
  BY LenProperties
<1>2. s \in [1..Len(s) -> R]
  BY <1>1
<1> QED
  BY <1>1, <1>2, SeqDef

LEMMA RestRowStep ==
  ASSUME NEW S, NEW s \in Seq(S), s # << >>, RowStepLast(s)
  PROVE  /\ RowStepLast(Tail(s))
         /\ Head(s) \in RowSteps => Tail(s) \in Seq(MarkSteps)
<1>1. /\ Tail(s) \in Seq(S) /\ Len(Tail(s)) = Len(s) - 1 /\ Head(s) = s[1]
      /\ \A i \in 1..Len(Tail(s)) : Tail(s)[i] = s[i + 1]
  BY HeadTailProperties
<1>2. Len(s) \in Nat /\ Len(s) > 0
  OBVIOUS
<1>3. \A i \in 1..Len(Tail(s)) : i + 1 \in 1..Len(s) /\ 1 \in 1..Len(s) /\ 1 < i + 1
  BY <1>1, <1>2
<1>4. RowStepLast(Tail(s))
  BY <1>1, <1>3 DEF RowStepLast
<1>5. Head(s) \in RowSteps => \A i \in 1..Len(Tail(s)) : Tail(s)[i] \in MarkSteps
  BY <1>1, <1>3 DEF RowStepLast
<1>6. Head(s) \in RowSteps => Tail(s) \in Seq(MarkSteps)
  BY <1>1, <1>5, WithinBy
<1> QED
  BY <1>4, <1>6

(* What comes before the cooldown is no step on the row.                   *)
LEMMA LeadRowStep ==
  ASSUME NEW kind \in {"soft", "hard"}, NEW a, ApplyAction(a) \in Seq(FailingSteps(a)),
         RowStepLast(ApplyAction(a))
  PROVE  /\ ApplyFailure(a, kind) \in Seq(FailingSteps(a))
         /\ RowStepLast(ApplyFailure(a, kind))
<1> DEFINE first == <<"grace", kind>>
           S     == FailingSteps(a)
<1>1. {"grace", "soft", "hard"} \subseteq S
  BY DEF FailingSteps
<1>2. ApplyFailure(a, kind) = first \o ApplyAction(a)
  BY DEF ApplyFailure
<1>3. \A i \in 1..Len(first) : first[i] \notin RowSteps
  BY DEF RowSteps
<1> HIDE DEF S
<1>4. first \in Seq(S)
  BY <1>1, TwoWithin
<1> HIDE DEF first
<1>5. RowStepLast(first \o ApplyAction(a))
  BY <1>3, <1>4, JoinRowStep DEF S
<1> QED
  BY <1>1, <1>2, <1>5, FailureWithin DEF S

LEMMA ActionRowStep ==
  ASSUME NEW a \in {"ban", "disable", "delete"}
  PROVE  ApplyAction(a) \in Seq(FailingSteps(a)) /\ RowStepLast(ApplyAction(a))
<1> DEFINE S       == FailingSteps(a)
           first   == <<"cooldown">>
           ban     == <<"ban_enabled", "isolate", "mark">>
           disable == <<"disable", "release", "mark">>
           delete  == <<"delete">>
<1>1. /\ {"cooldown", "ban_enabled", "disable", "release", "mark"} \subseteq S
      /\ a # "disable" => {"isolate", "delete"} \subseteq S
  BY DEF FailingSteps
<1>2. PICK rest \in {ban, disable, delete} :
        ApplyAction(a) = first \o rest /\ (a = "disable" => rest = disable)
  BY DEF ApplyAction
<1>3. RowStepLast(ban) /\ RowStepLast(disable) /\ RowStepLast(delete)
  BY DEF RowStepLast, RowSteps, MarkSteps
<1>4. \A i \in 1..Len(first) : first[i] \notin RowSteps
  BY DEF RowSteps
<1> HIDE DEF S
<1>5. /\ first \in Seq(S) /\ disable \in Seq(S)
      /\ a # "disable" => ban \in Seq(S) /\ delete \in Seq(S)
  BY <1>1, OneWithin, ThreeWithin
<1> HIDE DEF first, ban, disable, delete
<1>6. rest \in Seq(S) /\ RowStepLast(rest)
  BY <1>2, <1>3, <1>5
<1>7. first \o rest \in Seq(S) /\ RowStepLast(first \o rest)
  BY <1>4, <1>5, <1>6, JoinWithin, JoinRowStep
<1> QED
  BY <1>2, <1>7 DEF S

LEMMA PlannedFailure ==
  ASSUME NEW event \in {"usage_fail", "probe_fail", "probe_local"}, NEW plan,
         Planned(event, plan)
  PROVE  plan.steps \in Seq(FailingSteps(plan.action)) /\ RowStepLast(plan.steps)
<1>1. plan.action \in {"ban", "disable", "delete"}
  BY ConfigAssumption DEF Planned
<1>2. \/ plan.steps = ApplyAction(plan.action)
      \/ \E kind \in {"soft", "hard"} : plan.steps = ApplyFailure(plan.action, kind)
  BY DEF Planned, Fails
<1> QED
  BY <1>1, <1>2, ActionRowStep, LeadRowStep

LEMMA FollowsFailure ==
  ASSUME NEW c \in Calls, NEW a, call[c].steps \in Seq(FailingSteps(a)),
         RowStepLast(call[c].steps), NEW s, Follows(c, s)
  PROVE  s \in Seq(FailingSteps(a)) /\ RowStepLast(s)
<1> DEFINE S       == FailingSteps(a)
           rest    == Tail(call[c].steps)
           clear   == <<"release">>
           cleared == <<"release", "mark_id">>
           held    == <<"isolate_pending", "mark_id">>
           tried   == <<"try_disable", "isolate_pending", "mark_id">>
<1>1. call[c].steps # << >>
  BY DEF Follows, At
<1>2. /\ Head(call[c].steps) \in S /\ rest \in Seq(S)
      /\ RowStepLast(rest)
  BY <1>1, RestWithin, RestRowStep
<1>3. /\ ~At(c, "refresh") /\ ~At(c, "heal")
      /\ At(c, "delete") => a # "disable"
  BY <1>2 DEF At, FailingSteps
<1>4. /\ {"release", "mark_id", "try_disable"} \subseteq S
      /\ a # "disable" => "isolate_pending" \in S
  BY DEF FailingSteps
<1>5. RowStepLast(clear) /\ RowStepLast(cleared) /\ RowStepLast(held) /\ RowStepLast(tried)
  BY DEF RowStepLast, RowSteps, MarkSteps
<1>6. \/ s \in {rest, clear, cleared}
      \/ a # "disable" /\ s \in {held, tried}
  BY <1>3 DEF Follows, applyDeleteFallback
<1> HIDE DEF S
<1>7. /\ clear \in Seq(S) /\ cleared \in Seq(S)
      /\ a # "disable" => held \in Seq(S) /\ tried \in Seq(S)
  BY <1>4, OneWithin, TwoWithin, ThreeWithin
<1> HIDE DEF rest, clear, cleared, held, tried
<1> QED
  BY <1>2, <1>5, <1>6, <1>7 DEF S

(* A failure's call is at none of the steps of a success.                  *)
LEMMA NeverHealing ==
  ASSUME FailureInv, NEW c \in Calls, Failing(c)
  PROVE  ~Look(c) /\ ~Reenable(c)
<1>1. /\ call[c].steps \in Seq(FailingSteps(call[c].action))
      /\ {"look", "apply_success"} \cap FailingSteps(call[c].action) = {}
  BY DEF FailureInv, FailingSteps
<1> QED
  BY <1>1, RestWithin DEF Look, Reenable, At

LEMMA StepFailure ==
  ASSUME TypeOK, FailureInv, NEW c \in Calls, Step(c)
  PROVE  FailureInv'
<1>1. Taken(c)
  BY StepTaken
<1>2. SUFFICES ASSUME NEW d \in Calls, Failing(d)'
               PROVE  /\ call'[d].steps \in Seq(FailingSteps(call'[d].action))
                      /\ RowStepLast(call'[d].steps)
  BY DEF FailureInv
<1>3. CASE d # c
  BY <1>1, <1>2, <1>3 DEF Taken, SameCall, FailureInv, Failing
<1>4. CASE d = c
  <2>1. CASE call'[c] = Idle
    BY <1>2, <1>4, <2>1 DEF Idle, Failing
  <2>2. CASE SameCall(c) /\ Follows(c, call'[c].steps)
    <3>1. Failing(c) /\ call'[c].action = call[c].action
      BY <1>2, <1>4, <2>2 DEF SameCall, Failing
    <3> QED
      BY <1>4, <2>2, <3>1, FollowsFailure DEF FailureInv
  <2>3. CASE (Look(c) \/ Reenable(c)) /\ call'[c].event = call[c].event
    BY <1>2, <1>4, <2>3, NeverHealing DEF Failing
  <2> QED
    BY <1>1, <2>1, <2>2, <2>3 DEF Taken
<1> QED
  BY <1>3, <1>4

(* Only a step on the row changes it, and it leaves a failure the marks.   *)
LEMMA RowStepTaken ==
  ASSUME TypeOK, FailureInv, NEW c \in Calls, Failing(c), Step(c),
         ledger' # ledger \/ \E step \in RowSteps : At(c, step)
  PROVE  /\ call'[c].steps \in Seq(MarkSteps)
         /\ call[c].action = "disable" => ~banned'
<1> DEFINE S == FailingSteps(call[c].action)
           s == call[c].steps
<1>1. PICK step \in RowSteps : At(c, step)
  BY DEF Step, Grace, bumpStreak, clearStreak, Cooldown, markCooldown, BanEnabled, Isolate,
         Release, Switch, Delete, Refresh, SetUsingAPI, Look, Heal, Reenable, ListDisabled,
         ledger, RowSteps
<1>2. s \in Seq(S) /\ RowStepLast(s) /\ s # << >> /\ Head(s) = step
  BY <1>1 DEF FailureInv, At
<1>3. Tail(s) \in Seq(MarkSteps) /\ Head(s) \in S
  BY <1>1, <1>2, RestRowStep, RestWithin
<1>4. call'[c] = Idle \/ Follows(c, call'[c].steps)
  BY StepTaken, NeverHealing DEF Taken
<1>5. << >> \in Seq(MarkSteps) /\ Idle.steps = << >>
  BY DEF Idle
<1>6. call'[c] = Idle \/ call'[c].steps = Tail(s)
  BY <1>1, <1>4 DEF Follows, At, RowSteps
<1>7. ASSUME call[c].action = "disable" PROVE ~banned'
  <2>1. At(c, "release")
    BY <1>1, <1>2, <1>3, <1>7 DEF RowSteps, FailingSteps
  <2> QED
    BY <2>1, OnlyStep DEF Release
<1> QED
  BY <1>3, <1>5, <1>6, <1>7

(***************************************************************************)
(* One failure, one write: for any number of calls, every configuration    *)
(* and every failure of the host, the call that applies a failure takes no *)
(* further step on the row once it has taken one, and one that disables    *)
(* leaves no row there.                                                    *)
(***************************************************************************)
THEOREM OneWritePerFailure == Spec => FailureWritesOnce
<1>1. Init => FailureInv
  BY DEF Init, FailureInv, Failing, Idle
<1>2. TypeOK /\ FailureInv /\ [Next]_vars => FailureInv'
  <2> SUFFICES ASSUME TypeOK, FailureInv, [Next]_vars PROVE FailureInv'
    OBVIOUS
  <2>1. ASSUME NEW c \in Calls, NEW event \in Events, Begin(c, event)
        PROVE  FailureInv'
    <3>1. \A d \in Calls \ {c} : call'[d] = call[d]
      BY <2>1, Begun
    <3>2. call'[c] # Idle => Planned(event, call'[c])
      BY <2>1, Begun
    <3>3. Idle.event = "none"
      BY DEF Idle
    <3>4. Failing(c)' => event \in {"usage_fail", "probe_fail", "probe_local"}
                         /\ Planned(event, call'[c])
      BY <3>2, <3>3 DEF Failing, Planned
    <3>5. Failing(c)' => /\ call'[c].steps \in Seq(FailingSteps(call'[c].action))
                         /\ RowStepLast(call'[c].steps)
      BY <3>4, PlannedFailure
    <3> QED
      BY <3>1, <3>5 DEF FailureInv, Failing
  <2>2. CASE \E c \in Calls : Step(c)
    BY <2>2, StepFailure
  <2>3. CASE Environment \/ UNCHANGED vars
    BY <2>3, EnvironmentTaken DEF FailureInv, SameCall, Failing
  <2> QED
    BY <2>1, <2>2, <2>3 DEF Next, Environment
<1>3. TypeOK /\ FailureInv /\ [Next]_vars =>
        [\A c \in Calls :
           /\ Failing(c) /\ Moved(c)
           /\ ledger' # ledger \/ \E step \in RowSteps : At(c, step)
           => /\ call'[c].steps \in Seq(MarkSteps)
              /\ call[c].action = "disable" => ~banned']_vars
  <2> SUFFICES ASSUME TypeOK, FailureInv, Next, NEW c \in Calls, Failing(c), Moved(c),
                      ledger' # ledger \/ \E step \in RowSteps : At(c, step)
               PROVE  /\ call'[c].steps \in Seq(MarkSteps)
                      /\ call[c].action = "disable" => ~banned'
    OBVIOUS
  <2>1. ASSUME NEW d \in Calls, NEW event \in Events, Begin(d, event) PROVE FALSE
    <3>1. d = c
      BY <2>1, Begun DEF Moved
    <3> QED
      BY <2>1, <3>1 DEF Begin, Failing, Idle
  <2>2. ASSUME NEW d \in Calls, Step(d)
        PROVE  /\ call'[c].steps \in Seq(MarkSteps)
               /\ call[c].action = "disable" => ~banned'
    <3>1. d = c
      BY <2>2, StepTaken DEF Taken, Moved
    <3> QED
      BY <2>2, <3>1, RowStepTaken
  <2>3. CASE Environment
    BY <2>3, EnvironmentTaken DEF Moved
  <2> QED
    BY <2>1, <2>2, <2>3 DEF Next, Environment
<1> QED
  BY <1>1, <1>2, <1>3, EngineType, PTL DEF Spec, FailureWritesOnce

=============================================================================
