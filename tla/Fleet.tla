------------------------------- MODULE Fleet --------------------------------
(***************************************************************************)
(* The rows that keep a fleet of credentials out of scheduling, and those  *)
(* who write and read them at the same time: failures of real traffic, the *)
(* rechecks Recheck429 and RecheckSelected of internal/probe, and Pick of  *)
(* internal/schedule.                                                      *)
(*                                                                         *)
(* One row per credential (how names collapse to one is BanLedger's        *)
(* subject); there is no clock, a row ends at any time.                    *)
(***************************************************************************)
EXTENDS Classification, Sequences, FiniteSets

CONSTANTS Creds,        \* the xAI credentials
          Others,       \* candidates of other providers
          NoRow, Nobody,
          Candidates,   \* what the host asks the scheduler to choose from
          Priority,     \* of each candidate
          Delegates,    \* what scheduler_delegate may be
          CounterSize,  \* the round-robin counter wraps here (2^64)
          Answers,      \* what the upstream may answer: [status, body]
          Hints,        \* whether its headers name a time to come back
          Listings,     \* what AuthList may list of Creds
          Selections,   \* the ids the operator may select
          ProbeAction,  \* probe_action
          AutoExecute,  \* auto_execute
          Pool,         \* probe_concurrency
          MaxSelected   \* credentials one selected recheck takes (200)

ASSUME FleetAssumption ==
  /\ IsFiniteSet(Creds)
  /\ Creds \cap Others = {} /\ Nobody \notin Creds \cup Others
  /\ Candidates \in Seq(Creds \cup Others)
  /\ Priority \in [Creds \cup Others -> Int]
  /\ Delegates \subseteq {"round-robin", "fill-first"} /\ Delegates # {}
  /\ {CounterSize, Pool, MaxSelected} \subseteq Nat \ {0}
  /\ Hints \subseteq BOOLEAN
  /\ Listings \subseteq SUBSET Creds /\ Selections \subseteq SUBSET Creds
  /\ Answers \subseteq [status : 0..599, body : SUBSET Marks]
  /\ ProbeAction \in {"", "ban", "disable", "delete"}
  /\ AutoExecute \in BOOLEAN

VARIABLES rows,         \* the live row of each credential, or NoRow
          sweep,        \* Recheck429 in progress
          selected,     \* RecheckSelected in progress
          pool,         \* free places of its semaphore
          pick,         \* the scheduler's call in progress
          rr,           \* its round-robin counter
          served,       \* whom the call that returned last chose, Nobody if it
                        \* left that to the host or one is in progress
          delegate

rechecks  == <<sweep, selected, pool>>
scheduler == <<rr, served, delegate>>
vars == <<rows, rechecks, pick, scheduler>>

Row == [status : 0..599, kind : Kinds, window : {NoWindow, Hinted} \cup Classics]
IsolatedIn(r) == {c \in Creds : r[c] # NoRow}
Isolated == IsolatedIn(rows)

Empty == [c \in {} |-> NoRow]
NoAnswer == [status |-> -1, body |-> {}]

(* The goroutines that have taken a place.                                 *)
Stage(c, stage) == c \in DOMAIN selected.work /\ selected.work[c].stage = stage
Placed == {c \in Creds : Stage(c, "probing") \/ Stage(c, "apply")}

(* Every place of the semaphore is free or taken by one goroutine, so no   *)
(* more than Pool of them probe at once.                                   *)
TypeOK ==
  /\ rows \in [Creds -> Row \cup {NoRow}]
  /\ sweep.pc \in {"idle", "next", "write"} /\ DOMAIN sweep.left \subseteq Creds
  /\ sweep.answer \in Answers \cup {NoAnswer}
  /\ DOMAIN selected.work \subseteq Creds
  /\ pool \in 0..Pool /\ pool + Cardinality(Placed) = Pool
  /\ pick.steady \subseteq Creds /\ pick.next \in 1..(Len(Candidates) + 1)
  /\ rr \in 0..(CounterSize - 1)
  /\ served \in Creds \cup Others \cup {Nobody}
  /\ delegate \in Delegates

NoSweep    == [pc |-> "idle", left |-> Empty, listed |-> {}, answer |-> NoAnswer, cur |-> Nobody]
NoSelected == [running |-> FALSE, listed |-> {}, work |-> Empty]
NoPick     == [busy |-> FALSE, next |-> 1, available |-> << >>, steady |-> {}]

Init ==
  /\ rows = [c \in Creds |-> NoRow]
  /\ sweep = NoSweep /\ selected = NoSelected /\ pool = Pool
  /\ pick = NoPick /\ rr = 0 /\ served = Nobody
  /\ delegate \in Delegates

(* Every change of a row; what a pick in progress has seen isolated        *)
(* throughout is remembered for PickSparesIsolated only.                   *)
Write(c, row) ==
  /\ rows' = [rows EXCEPT ![c] = row]
  /\ pick' = [pick EXCEPT !.steady = @ \cap IsolatedIn(rows')]

RowOf(entry) == [status |-> entry.status, kind |-> entry.kind, window |-> entry.window]

-----------------------------------------------------------------------------
(* Traffic, and what ends a row.                                           *)

(* ApplyFailure as the rows see it, by what ActionEngine does: the failure *)
(* is spared (a recent success, a streak not yet long enough, a cooldown,  *)
(* a host call that fails).  Or it isolates, unless the row there lasts    *)
(* longer: a ban, or a delete that cannot be carried out.  Or the row is   *)
(* dropped, as the credential is now disabled or deleted or, for a ban,    *)
(* found disabled.                                                         *)
ApplyFailure(c, entry) ==
  \/ UNCHANGED <<rows, pick>>
  \/ entry.action # "disable" /\ Write(c, RowOf(entry))
  \/ Write(c, NoRow)

Fail(c, answer, hinted) ==
  /\ Isolates(answer.status, answer.body)
  /\ ApplyFailure(c, ClassifyFailureWithBody(answer.status, answer.body, hinted))
  /\ UNCHANGED <<rechecks, scheduler>>

(* It expires, or a success or the operator releases it.                   *)
Ends(c) ==
  /\ rows[c] # NoRow
  /\ Write(c, NoRow)
  /\ UNCHANGED <<rechecks, scheduler>>

-----------------------------------------------------------------------------
(* Recheck429.                                                             *)

IsOK(answer) == answer.status \in 200..299

Limited == {c \in Creds : rows[c] # NoRow /\ rows[c].status = 429}

Recheck429(listed) ==
  /\ sweep.pc = "idle" /\ Limited # {}
  /\ sweep' = [NoSweep EXCEPT !.pc = "next", !.listed = listed,
                              !.left = [c \in Limited |-> rows[c]]]
  /\ UNCHANGED <<rows, selected, pool, pick, scheduler>>

Without(left, c) == [d \in DOMAIN left \ {c} |-> left[d]]

SweepSkip(c) ==
  /\ sweep.pc = "next" /\ c \in DOMAIN sweep.left \ sweep.listed
  /\ sweep' = [sweep EXCEPT !.left = Without(@, c)]
  /\ UNCHANGED <<rows, selected, pool, pick, scheduler>>

SweepProbe(c, answer) ==
  /\ sweep.pc = "next" /\ c \in DOMAIN sweep.left \cap sweep.listed
  /\ sweep' = [sweep EXCEPT !.pc = "write", !.cur = c, !.answer = answer]
  /\ UNCHANGED <<rows, selected, pool, pick, scheduler>>

\* Slip: a status without a duration of its own is not replaced.
StillFailingAsIs(entry, answer) ==
  IF Isolates(answer.status, answer.body)
  THEN RowOf(ClassifyFailureWithBody(answer.status, answer.body, FALSE))
  ELSE [entry EXCEPT !.status = statusOr(answer.status, @),
                     !.window = DurationForStatus(answer.status)]

(* The row of a credential that fails again, forced over whatever is there *)
(* by now.  An answer that isolates nobody keeps this one isolated.        *)
StillFailing(entry, answer) ==
  IF Isolates(answer.status, answer.body)
  THEN RowOf(ClassifyFailureWithBody(answer.status, answer.body, FALSE))
  ELSE [entry EXCEPT !.status = statusOr(answer.status, @),
                     !.window = DurationForStatus(statusOrFallback(answer.status))]

(* The probes run one after another and every row counts from when the     *)
(* sweep began: after a long sweep the row is over as it is written.       *)
SweepWrite ==
  /\ sweep.pc = "write"
  /\ LET c == sweep.cur
     IN  /\ \/ Write(c, NoRow)
            \/ /\ ~IsOK(sweep.answer)
               /\ Write(c, StillFailing(sweep.left[c], sweep.answer))
         /\ sweep' = [sweep EXCEPT !.pc = "next", !.cur = Nobody, !.answer = NoAnswer,
                                   !.left = Without(@, c)]
  /\ UNCHANGED <<selected, pool, scheduler>>

SweepEnds ==
  /\ sweep.pc = "next" /\ DOMAIN sweep.left = {}
  /\ sweep' = NoSweep
  /\ UNCHANGED <<rows, selected, pool, pick, scheduler>>

SweepStep ==
  \/ \E c \in Creds : SweepSkip(c) \/ \E answer \in Answers : SweepProbe(c, answer)
  \/ SweepWrite \/ SweepEnds

-----------------------------------------------------------------------------
(* RecheckSelected: a goroutine for each id, no more than Pool at once;    *)
(* an outcome is dealt with under the call's mutex.  work[c] is where the  *)
(* goroutine of c is; ids past the cap are dropped without a word.         *)

Waiting == [stage |-> "waiting", answer |-> NoAnswer]
Probing == [stage |-> "probing", answer |-> NoAnswer]

RecheckSelected(ids, listed) ==
  /\ ~selected.running /\ ids # {}
  /\ \E taken \in SUBSET ids :
       /\ Cardinality(taken) = IF Cardinality(ids) > MaxSelected THEN MaxSelected
                               ELSE Cardinality(ids)
       /\ selected' = [running |-> TRUE, listed |-> listed,
                       work |-> [c \in taken |-> Waiting]]
  /\ pool' = Pool
  /\ UNCHANGED <<rows, sweep, pick, scheduler>>

Finish(c) == selected' = [selected EXCEPT !.work = Without(@, c)]

\* Slip: a goroutine starts without taking a place.
LaunchAtOnce(c) ==
  /\ Stage(c, "waiting")
  /\ selected' = [selected EXCEPT !.work[c] = Probing]
  /\ UNCHANGED <<rows, sweep, pool, pick, scheduler>>

Launch(c) ==
  /\ Stage(c, "waiting") /\ pool > 0
  /\ selected' = [selected EXCEPT !.work[c] = Probing]
  /\ pool' = pool - 1
  /\ UNCHANGED <<rows, sweep, pick, scheduler>>

\* Slip: a goroutine that has nothing to probe keeps its place.
SelectedSkipKeepsPlace(c) ==
  /\ Stage(c, "probing") /\ c \notin selected.listed
  /\ Finish(c)
  /\ UNCHANGED <<rows, sweep, pool, pick, scheduler>>

SelectedSkip(c) ==
  /\ Stage(c, "probing") /\ c \notin selected.listed
  /\ Finish(c) /\ pool' = pool + 1
  /\ UNCHANGED <<rows, sweep, pick, scheduler>>

SelectedProbe(c, answer) ==
  /\ Stage(c, "probing") /\ c \in selected.listed
  /\ selected' = [selected EXCEPT !.work[c] = [stage |-> "apply", answer |-> answer]]
  /\ UNCHANGED <<rows, sweep, pool, pick, scheduler>>

(* The action of a probe's failure: isolation only in report-only mode,    *)
(* else what is configured; probe_action replaces an isolation, except of  *)
(* a credential that is merely rate limited.                               *)
SelectedEntry(answer) ==
  LET entry == ClassifyFailureWithBody(answer.status, answer.body, FALSE)
  IN  IF ~AutoExecute THEN [entry EXCEPT !.action = "ban"]
      ELSE IF entry.action = "ban" /\ ProbeAction # "" /\ entry.kind # "rate_limited"
      THEN [entry EXCEPT !.action = ProbeAction]
      ELSE entry

SelectedApply(c) ==
  /\ Stage(c, "apply")
  /\ LET answer == selected.work[c].answer
     IN  CASE IsOK(answer) -> Write(c, NoRow)
           [] ~IsOK(answer) /\ Isolates(answer.status, answer.body) ->
                ApplyFailure(c, SelectedEntry(answer))
           [] OTHER -> UNCHANGED <<rows, pick>>
  /\ Finish(c) /\ pool' = pool + 1
  /\ UNCHANGED <<sweep, scheduler>>

SelectedEnds ==
  /\ selected.running /\ DOMAIN selected.work = {}
  /\ selected' = NoSelected
  /\ UNCHANGED <<rows, sweep, pool, pick, scheduler>>

SelectedStep ==
  \/ \E c \in Creds :
       \/ Launch(c) \/ SelectedSkip(c) \/ SelectedApply(c)
       \/ \E answer \in Answers : SelectedProbe(c, answer)
  \/ SelectedEnds

-----------------------------------------------------------------------------
(* Pick: the candidates are judged one by one, each under State.mu.        *)

Pick ==
  /\ ~pick.busy
  /\ pick' = [NoPick EXCEPT !.busy = TRUE, !.steady = Isolated]
  /\ served' = Nobody
  /\ UNCHANGED <<rows, rechecks, rr, delegate>>

IsBannedCandidate(candidate) == candidate \in Creds /\ rows[candidate] # NoRow

Consider ==
  /\ pick.busy /\ pick.next <= Len(Candidates)
  /\ LET candidate == Candidates[pick.next]
     IN  pick' = [pick EXCEPT !.next = @ + 1,
                    !.available = IF IsBannedCandidate(candidate) THEN @
                                  ELSE Append(@, candidate)]
  /\ UNCHANGED <<rows, rechecks, scheduler>>

(* fill-first: the first of the highest priority.                          *)
FillFirst(available) ==
  LET best == CHOOSE i \in DOMAIN available :
                \A j \in DOMAIN available :
                  \/ Priority[available[j]] < Priority[available[i]]
                  \/ Priority[available[j]] = Priority[available[i]] /\ j >= i
  IN  available[best]

\* Slip: the place counted in what is available is taken in the request's list.
RoundRobinOfAll(available) ==
  LET n == (rr + 1) % CounterSize
  IN  Candidates[(((n - 1) % CounterSize) % Len(available)) + 1]

(* round-robin: one counter for every list; (n - 1) wraps as n does.       *)
RoundRobin(available) ==
  LET n == (rr + 1) % CounterSize
  IN  available[(((n - 1) % CounterSize) % Len(available)) + 1]

\* Slip: the counter is a variable of the call.
BumpLocal == 0

Bump == (rr + 1) % CounterSize

Choose ==
  /\ pick.busy /\ pick.next > Len(Candidates)
  /\ IF Len(pick.available) = Len(Candidates) \/ pick.available = << >>
     THEN served' = Nobody /\ UNCHANGED rr
     ELSE IF delegate = "fill-first"
     THEN served' = FillFirst(pick.available) /\ UNCHANGED rr
     ELSE served' = RoundRobin(pick.available) /\ rr' = Bump
  /\ pick' = NoPick
  /\ UNCHANGED <<rows, rechecks, delegate>>

-----------------------------------------------------------------------------
Next ==
  \/ \E c \in Creds :
       \/ \E answer \in Answers, hinted \in Hints : Fail(c, answer, hinted)
       \/ Ends(c)
  \/ \E listed \in Listings :
       \/ Recheck429(listed)
       \/ \E ids \in Selections : RecheckSelected(ids, listed)
  \/ SweepStep \/ SelectedStep
  \/ Pick \/ Consider \/ Choose

(* Threads go on.  A probe has no deadline of its own: that the host's      *)
(* calls return is assumed.                                                *)
Fairness ==
  /\ WF_vars(SweepStep) /\ WF_vars(SelectedStep)
  /\ WF_vars(Consider \/ Choose)

Spec == Init /\ [][Next]_vars /\ Fairness

-----------------------------------------------------------------------------
(* No failure is recorded for a time of zero: whatever status and body it  *)
(* came with, a row is given a configured duration or the time the headers *)
(* name.  The duration of a status that has none is zero, and such a row   *)
(* would isolate nobody.  How much of its time is left when it is written  *)
(* is another matter: a sweep counts from when it began.                   *)
EveryRowTimed == \A c \in Creds : rows[c] # NoRow => rows[c].window # NoWindow

(* A credential that is isolated from the beginning of a scheduler call to *)
(* its end is not chosen, whoever rewrites its row meanwhile: a recheck    *)
(* that finds it still limited replaces the row without releasing it.      *)
PickSparesIsolated ==
  [][pick.busy /\ ~pick'.busy => served' \notin pick.steady]_vars

(* Every recheck returns, however many ids it is given, those included     *)
(* that the host does not know.                                            *)
RecheckEnds ==
  /\ sweep.pc # "idle" ~> sweep.pc = "idle"
  /\ selected.running ~> ~selected.running

(* Round-robin leaves nobody out: as long as the same credentials stay     *)
(* isolated and the host goes on asking with the same candidates, each of  *)
(* the others is chosen again and again, over the counter's wrap as well.  *)
(* One stream of requests only: two with lists of their own share the      *)
(* counter, and in step with each other they may starve a candidate.       *)
RotationServesAll ==
  \A gone \in SUBSET Creds \ {{}} :
    (/\ [](delegate = "round-robin")
     /\ <>[](Isolated = gone)
     /\ []<>pick.busy)
      => \A i \in DOMAIN Candidates :
           Candidates[i] \notin gone => []<>(served = Candidates[i])
=============================================================================
