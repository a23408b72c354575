---------------------------- MODULE FleetProofs -----------------------------
(***************************************************************************)
(* Theorems about the rows of a fleet and about the scheduler and the      *)
(* console that read them, for any number of credentials, any answers of   *)
(* the upstream, any candidates and priorities, any size of the            *)
(* round-robin counter and of a page.                                      *)
(***************************************************************************)
EXTENDS Console, FiniteSetTheorems, SequenceTheorems, WellFoundedInduction, TLAPS

(* A row that keeps its credential out for some time.                      *)
Holding == [status : 0..599, kind : Kinds, window : {Hinted} \cup Classics]

Sweeps ==
  [pc : {"idle", "next", "write"}, left : UNION {[D -> Holding] : D \in SUBSET Creds},
   listed : SUBSET Creds, answer : Answers \cup {NoAnswer}, cur : Creds \cup {Nobody}]

Work == [stage : {"waiting", "probing"}, answer : {NoAnswer}]
          \cup [stage : {"apply"}, answer : Answers]

RowsInv ==
  /\ rows \in [Creds -> Holding \cup {NoRow}]
  /\ sweep \in Sweeps
  /\ sweep.pc = "write" => sweep.answer \in Answers /\ sweep.cur \in DOMAIN sweep.left
  /\ selected = [running |-> selected.running, listed |-> selected.listed,
                 work |-> selected.work]
  /\ selected.work \in UNION {[D -> Work] : D \in SUBSET Creds}

(* What the scheduler has set aside so far is not isolated throughout.     *)
PickInv ==
  /\ pick = [busy |-> pick.busy, next |-> pick.next, available |-> pick.available,
             steady |-> pick.steady]
  /\ pick.next \in Nat \ {0}
  /\ pick.available \in Seq(Creds \cup Others)
  /\ pick.steady \subseteq Isolated
  /\ \A i \in DOMAIN pick.available : pick.available[i] \notin pick.steady

-----------------------------------------------------------------------------
(* Classification.                                                         *)

LEMMA JudgeStatus ==
  ASSUME NEW status \in 0..599, NEW body
  PROVE  Judge(status, body).status \in 0..599 /\ Judge(status, body).kind \in Kinds
BY DEF Judge, Judgment, statusOr, Kinds

LEMMA WindowIsDuration ==
  ASSUME NEW j, NEW hinted
  PROVE  ResetOf(j, hinted) \in {Hinted} \cup Classics
BY DEF ResetOf, Window, DurationForStatus, Classics

(* Whatever a failure was, the row made of it holds.                       *)
LEMMA ClassifiedHolds ==
  ASSUME NEW answer \in Answers, NEW hinted
  PROVE  RowOf(ClassifyFailureWithBody(answer.status, answer.body, hinted)) \in Holding
<1>1. answer.status \in 0..599
  BY FleetAssumption
<1> DEFINE j == Judge(answer.status, answer.body)
<1>2. j.status \in 0..599 /\ j.kind \in Kinds
  BY <1>1, JudgeStatus
<1> HIDE DEF j
<1>3. ResetOf(j, hinted) \in {Hinted} \cup Classics
  BY WindowIsDuration
<1>4. RowOf(ClassifyFailureWithBody(answer.status, answer.body, hinted))
        = [status |-> j.status, kind |-> j.kind, window |-> ResetOf(j, hinted)]
  BY DEF RowOf, ClassifyFailureWithBody, j
<1> QED
  BY <1>2, <1>3, <1>4 DEF Holding

LEMMA StillFailingHolds ==
  ASSUME NEW entry \in Holding, NEW answer \in Answers
  PROVE  StillFailing(entry, answer) \in Holding
<1>1. CASE Isolates(answer.status, answer.body)
  BY <1>1, ClassifiedHolds DEF StillFailing
<1>2. CASE ~Isolates(answer.status, answer.body)
  <2>1. answer.status \in 0..599
    BY FleetAssumption
  <2>2. statusOr(answer.status, entry.status) \in 0..599
    BY <2>1 DEF statusOr, Holding
  <2>3. DurationForStatus(statusOrFallback(answer.status)) \in Classics
    BY DEF DurationForStatus, statusOrFallback, Classics
  <2> DEFINE s == statusOr(answer.status, entry.status)
             w == DurationForStatus(statusOrFallback(answer.status))
  <2>4. StillFailing(entry, answer) = [entry EXCEPT !.status = s, !.window = w]
    BY <1>2 DEF StillFailing
  <2> HIDE DEF s, w
  <2>5. s \in 0..599 /\ w \in Classics
    BY <2>2, <2>3 DEF s, w
  <2> QED
    BY <2>4, <2>5 DEF Holding
<1> QED
  BY <1>1, <1>2

-----------------------------------------------------------------------------
(* The scheduler's choice.                                                 *)

(* Both ways to choose take somebody who is there to be chosen.            *)
LEMMA FillFirstChoice ==
  ASSUME NEW available \in Seq(Creds \cup Others), available # << >>
  PROVE  \E i \in DOMAIN available : FillFirst(available) = available[i]
<1> DEFINE Places == DOMAIN available
           P(i) == Priority[available[i]]
           Better(i) == {j \in Places : P(j) > P(i) \/ (P(j) = P(i) /\ j < i)}
           T == {Better(i) : i \in Places}
           First(i) == \A j \in Places : P(j) < P(i) \/ (P(j) = P(i) /\ j >= i)
<1>1. Places = 1..Len(available) /\ Len(available) \in Nat \ {0}
  OBVIOUS
<1>2. \A i \in Places : P(i) \in Int
  <2>1. Priority \in [Creds \cup Others -> Int]
    BY FleetAssumption
  <2>2. \A i \in Places : available[i] \in Creds \cup Others
    OBVIOUS
  <2> QED
    BY <2>1, <2>2
<1>3. IsFiniteSet(Places)
  BY <1>1, FS_Interval
<1>4. T # {} /\ T \subseteq FiniteSubsetsOf(Places)
  <2>2. \A i \in Places : Better(i) \in SUBSET Places
    OBVIOUS
  <2>4. 1 \in Places
    BY <1>1
  <2> HIDE DEF Better, Places
  <2>1. T # {}
    BY <2>4
  <2>3. \A i \in Places : IsFiniteSet(Better(i))
    BY <1>3, <2>2, FS_Subset
  <2> QED
    BY <2>1, <2>2, <2>3 DEF FiniteSubsetsOf
<1>5. \E S \in T : \A R \in T : <<R, S>> \notin StrictSubsetOrdering(Places)
  BY <1>4, WFMin, FS_StrictSubsetOrderingWellFounded
<1>6. PICK i \in Places : \A j \in Places : <<Better(j), Better(i)>> \notin StrictSubsetOrdering(Places)
  BY <1>5
<1>7. First(i)
  <2> SUFFICES ASSUME NEW j \in Places, ~(P(j) < P(i) \/ (P(j) = P(i) /\ j >= i))
               PROVE  FALSE
    OBVIOUS
  <2>1. P(i) \in Int /\ P(j) \in Int /\ i \in Int /\ j \in Int
    BY <1>1, <1>2
  <2> HIDE DEF P, Places
  <2>2. P(j) > P(i) \/ (P(j) = P(i) /\ j < i)
    BY <2>1
  <2>3. j \in Better(i) /\ j \notin Better(j)
    BY <2>1, <2>2
  <2>4. \A k \in Better(j) : k \in Better(i)
    <3> SUFFICES ASSUME NEW k \in Better(j) PROVE k \in Better(i)
      OBVIOUS
    <3>1. k \in Places /\ k \in Int /\ P(k) \in Int
      BY <1>1, <1>2 DEF Places
    <3> QED
      BY <2>1, <2>2, <3>1
  <2>5. <<Better(j), Better(i)>> \in StrictSubsetOrdering(Places)
    <3> HIDE DEF Better
    <3>1. Better(i) \in SUBSET Places /\ Better(j) \in SUBSET Places
      BY DEF Better
    <3> QED
      BY <2>3, <2>4, <3>1 DEF StrictSubsetOrdering
  <2> QED
    BY <1>6, <2>5
<1>8. FillFirst(available) = available[CHOOSE k \in Places : First(k)]
  BY DEF FillFirst
<1> HIDE DEF First
<1>9. (CHOOSE k \in Places : First(k)) \in Places
  BY <1>7
<1> QED
  BY <1>8, <1>9

LEMMA RoundRobinChoice ==
  ASSUME NEW available \in Seq(Creds \cup Others), available # << >>, rr \in Int
  PROVE  \E i \in DOMAIN available : RoundRobin(available) = available[i]
<1> DEFINE n == (rr + 1) % CounterSize
           k == (n - 1) % CounterSize
           i == (k % Len(available)) + 1
<1>1. CounterSize \in Nat \ {0} /\ Len(available) \in Nat \ {0}
  <2>1. CounterSize \in Nat \ {0}
    BY FleetAssumption
  <2>2. Len(available) \in Nat \ {0}
    OBVIOUS
  <2> QED
    BY <2>1, <2>2
<1>2. n \in 0..(CounterSize - 1)
  BY <1>1
<1> HIDE DEF n
<1>3. k \in 0..(CounterSize - 1)
  BY <1>1, <1>2
<1> HIDE DEF k
<1>4. i \in 1..Len(available)
  BY <1>1, <1>3
<1> HIDE DEF i
<1> QED
  BY <1>1, <1>4 DEF RoundRobin, n, k, i

-----------------------------------------------------------------------------
(* Rows hold.                                                              *)

RowsTyped == rows \in [Creds -> Holding \cup {NoRow}]

LEMMA WriteRows ==
  ASSUME RowsTyped, NEW c \in Creds, NEW row \in Holding \cup {NoRow}, Write(c, row)
  PROVE  RowsTyped'
BY DEF RowsTyped, Write

LEMMA FailureRows ==
  ASSUME RowsTyped, NEW c \in Creds, NEW entry, RowOf(entry) \in Holding, ApplyFailure(c, entry)
  PROVE  RowsTyped'
<1>1. CASE UNCHANGED <<rows, pick>>
  BY <1>1 DEF RowsTyped
<1>2. CASE \E row \in {RowOf(entry), NoRow} : Write(c, row)
  BY <1>2, WriteRows
<1> QED
  BY <1>1, <1>2 DEF ApplyFailure

LEMMA WithoutIn ==
  ASSUME NEW S, NEW left \in UNION {[D -> S] : D \in SUBSET Creds}, NEW c
  PROVE  /\ Without(left, c) \in UNION {[D -> S] : D \in SUBSET Creds}
         /\ DOMAIN Without(left, c) = DOMAIN left \ {c}
<1>1. PICK D \in SUBSET Creds : left \in [D -> S]
  OBVIOUS
<1>2. Without(left, c) \in [D \ {c} -> S]
  BY <1>1 DEF Without
<1>3. D \ {c} \in SUBSET Creds
  OBVIOUS
<1> QED
  BY <1>1, <1>2, <1>3

LEMMA SweepRows ==
  ASSUME RowsInv, SweepStep \/ \E listed \in Listings : Recheck429(listed)
  PROVE  RowsInv'
<1>1. RowsTyped /\ sweep \in Sweeps
  BY DEF RowsInv, RowsTyped
<1>2. sweep.left \in UNION {[D -> Holding] : D \in SUBSET Creds}
  BY <1>1 DEF Sweeps
<1>3. UNCHANGED selected
  BY DEF SweepStep, SweepSkip, SweepProbe, SweepWrite, SweepEnds, Recheck429
<1>4. ASSUME NEW new \in Sweeps, sweep' = new, RowsTyped',
             new.pc = "write" => new.answer \in Answers /\ new.cur \in DOMAIN new.left
      PROVE  RowsInv'
  BY <1>3, <1>4 DEF RowsInv, RowsTyped
<1>5. ASSUME NEW c \in Creds, SweepSkip(c)
      PROVE  RowsInv'
  <2> DEFINE left == Without(sweep.left, c)
             new  == [sweep EXCEPT !.left = left]
  <2>1. left \in UNION {[D -> Holding] : D \in SUBSET Creds}
    BY <1>2, WithoutIn
  <2>2. sweep' = new /\ UNCHANGED rows /\ sweep.pc = "next"
    BY <1>5 DEF SweepSkip
  <2> HIDE DEF left
  <2>3. new \in Sweeps /\ new.pc = sweep.pc
    BY <1>1, <2>1 DEF Sweeps
  <2> HIDE DEF new
  <2> QED
    BY <1>1, <1>4, <2>2, <2>3 DEF RowsTyped
<1>6. ASSUME NEW c \in Creds, NEW answer \in Answers, SweepProbe(c, answer)
      PROVE  RowsInv'
  <2> DEFINE new == [sweep EXCEPT !.pc = "write", !.cur = c, !.answer = answer]
  <2>1. new \in Sweeps /\ new.answer = answer /\ new.cur = c /\ new.left = sweep.left
    BY <1>1 DEF Sweeps
  <2>2. sweep' = new /\ UNCHANGED rows /\ c \in DOMAIN sweep.left
    BY <1>6 DEF SweepProbe
  <2> HIDE DEF new
  <2> QED
    BY <1>1, <1>4, <2>1, <2>2 DEF RowsTyped
<1>7. CASE SweepWrite
  <2> DEFINE c    == sweep.cur
             left == Without(sweep.left, c)
             still == StillFailing(sweep.left[c], sweep.answer)
             new  == [sweep EXCEPT !.pc = "next", !.cur = Nobody, !.answer = NoAnswer,
                                   !.left = left]
  <2>1. sweep.answer \in Answers /\ c \in DOMAIN sweep.left
    BY <1>7 DEF SweepWrite, RowsInv
  <2>2. sweep.left[c] \in Holding /\ c \in Creds
    BY <1>2, <2>1
  <2>3. still \in Holding
    BY <2>1, <2>2, StillFailingHolds
  <2>4. (\E row \in {NoRow, still} : Write(c, row)) /\ sweep' = new
    BY <1>7 DEF SweepWrite
  <2> HIDE DEF still
  <2>5. RowsTyped'
    BY <1>1, <2>2, <2>3, <2>4, WriteRows
  <2>6. left \in UNION {[D -> Holding] : D \in SUBSET Creds}
    BY <1>2, WithoutIn
  <2> HIDE DEF left
  <2>7. new \in Sweeps /\ new.pc = "next"
    BY <1>1, <2>6 DEF Sweeps
  <2> HIDE DEF new
  <2> QED
    BY <1>4, <2>4, <2>5, <2>7
<1>8. ASSUME NEW listed \in Listings, Recheck429(listed)
      PROVE  RowsInv'
  <2> DEFINE left == [c \in Limited |-> rows[c]]
             new  == [NoSweep EXCEPT !.pc = "next", !.listed = listed, !.left = left]
  <2>1. left \in [Limited -> Holding] /\ Limited \in SUBSET Creds
    BY <1>1 DEF Limited, RowsTyped
  <2>2. left \in UNION {[D -> Holding] : D \in SUBSET Creds}
    BY <2>1
  <2>3. sweep' = new /\ UNCHANGED rows
    BY <1>8 DEF Recheck429
  <2> HIDE DEF left
  <2>4. listed \in SUBSET Creds
    BY FleetAssumption
  <2>5. new \in Sweeps /\ new.pc = "next"
    BY <2>2, <2>4 DEF Sweeps, NoSweep
  <2> HIDE DEF new
  <2> QED
    BY <1>1, <1>4, <2>3, <2>5 DEF RowsTyped
<1>9. CASE SweepEnds
  <2>1. Empty \in [{} -> Holding]
    BY DEF Empty
  <2>2. NoSweep \in Sweeps /\ NoSweep.pc = "idle"
    BY <2>1 DEF Sweeps, NoSweep
  <2> QED
    BY <1>1, <1>4, <1>9, <2>2 DEF SweepEnds, RowsTyped
<1> QED
  BY <1>5, <1>6, <1>7, <1>8, <1>9 DEF SweepStep

Works == UNION {[D -> Work] : D \in SUBSET Creds}
SelectedShape ==
  selected = [running |-> selected.running, listed |-> selected.listed, work |-> selected.work]

LEMMA SelectedRows ==
  ASSUME RowsInv,
         SelectedStep \/ \E listed \in Listings, ids \in Selections : RecheckSelected(ids, listed)
  PROVE  RowsInv'
<1>1. RowsTyped /\ selected.work \in Works /\ SelectedShape
  BY DEF RowsInv, RowsTyped, Works, SelectedShape
<1>2. UNCHANGED sweep
  BY DEF SelectedStep, Launch, SelectedSkip, SelectedProbe, SelectedApply, SelectedEnds,
         RecheckSelected
<1>3. ASSUME NEW work \in Works, selected' = [selected EXCEPT !.work = work], RowsTyped'
      PROVE  RowsInv'
  BY <1>1, <1>2, <1>3 DEF RowsInv, RowsTyped, Works, SelectedShape
<1>4. ASSUME NEW c \in Creds, NEW w \in Work, c \in DOMAIN selected.work,
             selected' = [selected EXCEPT !.work[c] = w], UNCHANGED rows
      PROVE  RowsInv'
  <2> DEFINE work == [selected.work EXCEPT ![c] = w]
  <2>1. selected' = [selected EXCEPT !.work = work]
    BY <1>1, <1>4 DEF SelectedShape
  <2>2. work \in Works
    BY <1>1, <1>4 DEF Works
  <2> HIDE DEF work
  <2> QED
    BY <1>1, <1>3, <1>4, <2>1, <2>2 DEF RowsTyped
<1>5. ASSUME NEW c \in Creds, Launch(c)
      PROVE  RowsInv'
  BY <1>4, <1>5 DEF Launch, Stage, Probing, Work
<1>6. ASSUME NEW c \in Creds, NEW answer \in Answers, SelectedProbe(c, answer)
      PROVE  RowsInv'
  BY <1>4, <1>6 DEF SelectedProbe, Stage, Work
<1>7. ASSUME NEW c \in Creds, Finish(c), RowsTyped'
      PROVE  RowsInv'
  <2>1. Without(selected.work, c) \in Works
    BY <1>1, WithoutIn DEF Works
  <2> QED
    BY <1>3, <1>7, <2>1 DEF Finish
<1>8. ASSUME NEW c \in Creds, SelectedSkip(c)
      PROVE  RowsInv'
  BY <1>1, <1>7, <1>8 DEF SelectedSkip, RowsTyped
<1>9. ASSUME NEW c \in Creds, SelectedApply(c)
      PROVE  RowsInv'
  <2> DEFINE answer == selected.work[c].answer
  <2>1. answer \in Answers
    <3>1. selected.work[c] \in Work /\ selected.work[c].stage = "apply"
      BY <1>1, <1>9 DEF SelectedApply, Stage, Works
    <3> QED
      BY <3>1 DEF Work
  <2>2. RowOf(SelectedEntry(answer)) = RowOf(ClassifyFailureWithBody(answer.status, answer.body, FALSE))
    <3> DEFINE entry == ClassifyFailureWithBody(answer.status, answer.body, FALSE)
    <3>1. entry = [status |-> entry.status, kind |-> entry.kind, action |-> entry.action,
                   window |-> entry.window]
      BY DEF ClassifyFailureWithBody
    <3>2. SelectedEntry(answer) \in {entry, [entry EXCEPT !.action = "ban"],
                                     [entry EXCEPT !.action = ProbeAction]}
      BY DEF SelectedEntry
    <3> HIDE DEF entry
    <3> QED
      BY <3>1, <3>2 DEF RowOf, entry
  <2>3. RowOf(SelectedEntry(answer)) \in Holding
    BY <2>1, <2>2, ClassifiedHolds
  <2>4. \/ Write(c, NoRow)
        \/ ApplyFailure(c, SelectedEntry(answer))
        \/ UNCHANGED <<rows, pick>>
    BY <1>9 DEF SelectedApply
  <2> HIDE DEF answer
  <2>8. RowsTyped'
    <3>1. CASE Write(c, NoRow)
      BY <1>1, <3>1, WriteRows
    <3>2. CASE ApplyFailure(c, SelectedEntry(answer))
      BY <1>1, <2>3, <3>2, FailureRows
    <3>3. CASE UNCHANGED <<rows, pick>>
      BY <1>1, <3>3 DEF RowsTyped
    <3> QED
      BY <2>4, <3>1, <3>2, <3>3
  <2> QED
    BY <1>7, <1>9, <2>8 DEF SelectedApply
<1>10. CASE SelectedEnds
  <2>1. Empty \in [{} -> Work]
    BY DEF Empty
  <2> QED
    BY <1>1, <1>2, <1>10, <2>1 DEF SelectedEnds, NoSelected, RowsInv, RowsTyped
<1>11. ASSUME NEW listed \in Listings, NEW ids \in Selections, RecheckSelected(ids, listed)
       PROVE  RowsInv'
  <2>1. PICK taken \in SUBSET ids :
          selected' = [running |-> TRUE, listed |-> listed, work |-> [c \in taken |-> Waiting]]
    BY <1>11 DEF RecheckSelected
  <2>2. taken \in SUBSET Creds
    BY FleetAssumption
  <2> DEFINE work == [c \in taken |-> Waiting]
  <2>3. work \in [taken -> Work]
    BY DEF Waiting, Work
  <2>4. work \in Works
    BY <2>2, <2>3 DEF Works
  <2>5. selected' = [running |-> TRUE, listed |-> listed, work |-> work]
    BY <2>1
  <2> HIDE DEF work
  <2> QED
    BY <1>1, <1>2, <1>11, <2>4, <2>5 DEF RecheckSelected, RowsInv, RowsTyped, Works
<1> QED
  BY <1>5, <1>6, <1>8, <1>9, <1>10, <1>11 DEF SelectedStep

LEMMA InitRows == Init => RowsInv
<1> SUFFICES ASSUME Init PROVE RowsInv
  OBVIOUS
<1>1. Empty \in [{} -> Holding] /\ Empty \in [{} -> Work]
  BY DEF Empty
<1>2. NoSweep \in Sweeps /\ NoSweep.pc = "idle"
  BY <1>1 DEF Sweeps, NoSweep
<1> QED
  BY <1>1, <1>2 DEF Init, RowsInv, NoSelected

LEMMA StepRows == RowsInv /\ [Next]_vars => RowsInv'
<1> SUFFICES ASSUME RowsInv, [Next]_vars PROVE RowsInv'
  OBVIOUS
<1>1. RowsTyped
  BY DEF RowsInv, RowsTyped
<1>2. ASSUME RowsTyped', UNCHANGED <<sweep, selected>>
      PROVE  RowsInv'
  BY <1>2 DEF RowsInv, RowsTyped
<1>3. ASSUME NEW c \in Creds, NEW answer \in Answers, NEW hinted \in Hints, Fail(c, answer, hinted)
      PROVE  RowsInv'
  BY <1>1, <1>2, <1>3, ClassifiedHolds, FailureRows DEF Fail, rechecks
<1>4. ASSUME NEW c \in Creds, Ends(c)
      PROVE  RowsInv'
  BY <1>1, <1>2, <1>4, WriteRows DEF Ends, rechecks
<1>5. CASE Pick \/ Consider \/ Choose \/ UNCHANGED vars
  BY <1>1, <1>2, <1>5 DEF Pick, Consider, Choose, vars, rechecks, RowsTyped
<1> QED
  BY <1>3, <1>4, <1>5, SweepRows, SelectedRows DEF Next

(* No row is written for a time of zero, whatever an upstream answers to   *)
(* traffic or to a recheck and whatever the ledger held before.            *)
THEOREM RowsTimed == Spec => []EveryRowTimed
<1>1. RowsInv => EveryRowTimed
  BY DEF RowsInv, EveryRowTimed, Holding, NoWindow, Hinted, Classics
<1> QED
  BY <1>1, InitRows, StepRows, PTL DEF Spec

-----------------------------------------------------------------------------
(* The scheduler spares who is isolated throughout.                        *)

LEMMA WritePick ==
  ASSUME PickInv, NEW c \in Creds, NEW row, Write(c, row)
  PROVE  PickInv' /\ pick'.busy = pick.busy /\ pick'.next = pick.next
<1>1. pick' = [pick EXCEPT !.steady = pick.steady \cap IsolatedIn(rows')]
  BY DEF Write
<1>2. /\ pick'.busy = pick.busy /\ pick'.next = pick.next
      /\ pick'.available = pick.available
      /\ pick'.steady = pick.steady \cap IsolatedIn(rows')
  BY <1>1 DEF PickInv
<1>3. pick' = [busy |-> pick'.busy, next |-> pick'.next, available |-> pick'.available,
               steady |-> pick'.steady]
  BY <1>1 DEF PickInv
<1> QED
  BY <1>2, <1>3 DEF PickInv, Isolated

SchedulerInv == PickInv /\ rr \in Nat

(* What each step means to a call of the scheduler.                        *)
LEMMA StepPick ==
  ASSUME RowsInv, SchedulerInv, [Next]_vars
  PROVE  /\ SchedulerInv'
         /\ pick.busy /\ ~pick'.busy => served' \notin pick.steady
<1> DEFINE Spares == pick.busy /\ ~pick'.busy => served' \notin pick.steady
<1>1. ASSUME UNCHANGED <<rows, pick, rr>> PROVE SchedulerInv' /\ Spares
  BY <1>1 DEF SchedulerInv, PickInv, Isolated
<1>2. ASSUME NEW c \in Creds, NEW row, Write(c, row), UNCHANGED rr PROVE SchedulerInv' /\ Spares
  <2>1. PickInv' /\ pick'.busy = pick.busy
    BY <1>2, WritePick DEF SchedulerInv
  <2> QED
    BY <1>2, <2>1 DEF SchedulerInv
<1>3. ASSUME NEW c \in Creds, NEW entry, ApplyFailure(c, entry), UNCHANGED rr
      PROVE  SchedulerInv' /\ Spares
  BY <1>1, <1>2, <1>3 DEF ApplyFailure
<1>4. ASSUME NEW c \in Creds,
             Ends(c) \/ \E answer \in Answers, hinted \in Hints : Fail(c, answer, hinted)
      PROVE  SchedulerInv' /\ Spares
  BY <1>2, <1>3, <1>4 DEF Ends, Fail, scheduler
<1>5. ASSUME \/ \E c \in Creds : SweepSkip(c) \/ \E answer \in Answers : SweepProbe(c, answer)
             \/ SweepEnds \/ SelectedEnds
             \/ \E c \in Creds : \/ Launch(c) \/ SelectedSkip(c)
                                 \/ \E answer \in Answers : SelectedProbe(c, answer)
             \/ \E listed \in Listings : \/ Recheck429(listed)
                                         \/ \E ids \in Selections : RecheckSelected(ids, listed)
             \/ UNCHANGED vars
      PROVE  SchedulerInv' /\ Spares
  BY <1>1, <1>5 DEF SweepSkip, SweepProbe, SweepEnds, SelectedEnds, Launch, SelectedSkip,
                    SelectedProbe, Recheck429, RecheckSelected, scheduler, vars
<1>6. ASSUME SweepWrite PROVE SchedulerInv' /\ Spares
  <2>1. sweep.cur \in Creds
    BY <1>6 DEF RowsInv, SweepWrite, Sweeps
  <2> QED
    BY <1>2, <1>6, <2>1 DEF SweepWrite, scheduler
<1>7. ASSUME NEW c \in Creds, SelectedApply(c) PROVE SchedulerInv' /\ Spares
  <2>1. \/ Write(c, NoRow)
        \/ ApplyFailure(c, SelectedEntry(selected.work[c].answer))
        \/ UNCHANGED <<rows, pick>>
    BY <1>7 DEF SelectedApply
  <2>2. UNCHANGED rr
    BY <1>7 DEF SelectedApply, scheduler
  <2> QED
    BY <1>1, <1>2, <1>3, <2>1, <2>2
<1>8. ASSUME Pick PROVE SchedulerInv' /\ Spares
  <2>1. pick' = [busy |-> TRUE, next |-> 1, available |-> << >>, steady |-> Isolated]
    BY <1>8, Zenon DEF Pick, NoPick
  <2>2. ~pick.busy /\ UNCHANGED <<rows, rr>>
    BY <1>8 DEF Pick
  <2> QED
    BY <2>1, <2>2 DEF SchedulerInv, PickInv, Isolated, IsolatedIn
<1>9. ASSUME Consider PROVE SchedulerInv' /\ Spares
  <2> DEFINE candidate == Candidates[pick.next]
             available == IF IsBannedCandidate(candidate) THEN pick.available
                          ELSE Append(pick.available, candidate)
             next      == pick.next + 1
  <2>1. /\ pick' = [pick EXCEPT !.next = next, !.available = available]
        /\ UNCHANGED <<rows, rr>>
    BY <1>9 DEF Consider, scheduler
  <2>2. candidate \in Creds \cup Others
    <3>1. Candidates \in Seq(Creds \cup Others)
      BY FleetAssumption
    <3>2. pick.next \in 1..Len(Candidates)
      BY <1>9, <3>1 DEF Consider, SchedulerInv, PickInv
    <3> QED
      BY <3>1, <3>2
  <2>3. candidate \notin pick.steady \/ IsBannedCandidate(candidate)
    BY DEF SchedulerInv, PickInv, Isolated, IsolatedIn, IsBannedCandidate
  <2> HIDE DEF candidate
  <2>4. /\ available \in Seq(Creds \cup Others)
        /\ \A i \in DOMAIN available : available[i] \notin pick.steady
    BY <2>2, <2>3 DEF SchedulerInv, PickInv
  <2>5. next \in Nat \ {0}
    BY DEF SchedulerInv, PickInv
  <2> HIDE DEF available, next
  <2>6. pick' = [busy |-> pick.busy, next |-> next, available |-> available,
                 steady |-> pick.steady]
    BY <2>1 DEF SchedulerInv, PickInv
  <2>7. pick'.busy = pick.busy
    BY <2>6
  <2>8. PickInv'
    BY <2>1, <2>4, <2>5, <2>6 DEF SchedulerInv, PickInv, Isolated, IsolatedIn
  <2> QED
    BY <2>1, <2>7, <2>8 DEF SchedulerInv
<1>10. ASSUME Choose PROVE SchedulerInv' /\ Spares
  <2>1. pick' = NoPick /\ UNCHANGED rows
    BY <1>10 DEF Choose, rechecks
  <2>2. PickInv'
    BY <2>1 DEF NoPick, PickInv
  <2>3. rr' \in Nat
    <3>1. rr' \in {rr, Bump}
      BY <1>10 DEF Choose
    <3>2. Bump \in Nat
      <4>1. CounterSize \in Nat \ {0}
        BY FleetAssumption
      <4> QED
        BY <4>1 DEF Bump, SchedulerInv
    <3> QED
      BY <3>1, <3>2 DEF SchedulerInv
  <2>4. served' \notin pick.steady
    <3>1. /\ pick.available \in Seq(Creds \cup Others)
          /\ \A i \in DOMAIN pick.available : pick.available[i] \notin pick.steady
          /\ pick.steady \subseteq Creds /\ rr \in Int
      BY DEF SchedulerInv, PickInv, Isolated, IsolatedIn
    <3>2. CASE served' = Nobody
      BY <3>1, <3>2, FleetAssumption
    <3>3. CASE pick.available # << >> /\ served' = FillFirst(pick.available)
      BY <3>1, <3>3, FillFirstChoice
    <3>4. CASE pick.available # << >> /\ served' = RoundRobin(pick.available)
      BY <3>1, <3>4, RoundRobinChoice
    <3> QED
      BY <1>10, <3>2, <3>3, <3>4 DEF Choose
  <2> QED
    BY <2>2, <2>3, <2>4 DEF SchedulerInv
<1> QED
  BY <1>4, <1>5, <1>6, <1>7, <1>8, <1>9, <1>10 DEF Next, SweepStep, SelectedStep

(* Whoever rewrites rows meanwhile, a scheduler call does not choose a     *)
(* credential that is isolated from its beginning to its end.              *)
THEOREM IsolatedAreSpared == Spec => PickSparesIsolated
<1>1. Init => SchedulerInv
  BY DEF Init, SchedulerInv, PickInv, NoPick
<1>2. RowsInv /\ SchedulerInv /\ [Next]_vars => SchedulerInv'
  BY StepPick
<1>3. RowsInv /\ SchedulerInv /\ [Next]_vars =>
        [pick.busy /\ ~pick'.busy => served' \notin pick.steady]_vars
  BY StepPick
<1> QED
  BY <1>1, <1>2, <1>3, InitRows, StepRows, PTL DEF Spec, PickSparesIsolated

-----------------------------------------------------------------------------
(* The places of a selected recheck, and the shape of everything else.     *)

(* Every place is free or taken.                                           *)
PlacesInv == pool \in 0..Pool /\ pool + Cardinality(Placed) = Pool

LEMMA ConstantsTyped == Len(Candidates) \in Nat /\ {CounterSize, Pool} \subseteq Nat \ {0}
<1>1. Candidates \in Seq(Creds \cup Others)
  BY FleetAssumption
<1>2. Len(Candidates) \in Nat
  BY <1>1
<1>3. {CounterSize, Pool} \subseteq Nat \ {0}
  BY FleetAssumption
<1> QED
  BY <1>2, <1>3

LEMMA PlacedFinite == IsFiniteSet(Placed) /\ Cardinality(Placed) \in Nat
<1>1. IsFiniteSet(Creds) /\ Placed \in SUBSET Creds
  BY FleetAssumption DEF Placed
<1> QED
  BY <1>1, FS_Subset, FS_CardinalityType

LEMMA StepPlaces ==
  ASSUME RowsInv, PlacesInv, [Next]_vars
  PROVE  PlacesInv'
<1> DEFINE Running(work) == {c \in Creds : /\ c \in DOMAIN work
                                           /\ work[c].stage \in {"probing", "apply"}}
<1>1. Placed = Running(selected.work)
  BY DEF Placed, Stage
<1>2. Placed' = Running(selected.work)'
  BY DEF Placed, Stage
<1>3. /\ selected = [running |-> selected.running, listed |-> selected.listed,
                     work |-> selected.work]
      /\ Pool \in Nat \ {0}
  BY FleetAssumption DEF RowsInv
<1>4. ASSUME UNCHANGED <<selected, pool>> PROVE PlacesInv'
  <2>1. Placed' = Placed
    BY <1>1, <1>2, <1>4
  <2> QED
    BY <1>4, <2>1 DEF PlacesInv
<1>5. ASSUME NEW c \in Creds, NEW w, c \in DOMAIN selected.work,
             selected' = [selected EXCEPT !.work[c] = w]
      PROVE  Placed' = IF w.stage \in {"probing", "apply"} THEN Placed \cup {c} ELSE Placed \ {c}
  <2>1. selected'.work = [selected.work EXCEPT ![c] = w]
    BY <1>3, <1>5
  <2>2. /\ DOMAIN selected'.work = DOMAIN selected.work
        /\ \A d \in DOMAIN selected.work :
             selected'.work[d] = IF d = c THEN w ELSE selected.work[d]
    BY <1>5, <2>1
  <2> QED
    BY <1>1, <1>2, <1>5, <2>2
<1>6. ASSUME NEW c \in Creds, Finish(c) PROVE Placed' = Placed \ {c}
  <2>1. selected'.work = Without(selected.work, c)
    BY <1>3, <1>6 DEF Finish
  <2>2. /\ DOMAIN selected'.work = DOMAIN selected.work \ {c}
        /\ \A d \in DOMAIN selected.work \ {c} : selected'.work[d] = selected.work[d]
    BY <2>1 DEF Without
  <2> QED
    BY <1>1, <1>2, <2>2
<1>7. ASSUME NEW c \in Creds, Launch(c) PROVE PlacesInv'
  <2>1. Placed' = Placed \cup {c}
    <3>1. Probing.stage \in {"probing", "apply"}
      BY DEF Probing
    <3>2. c \in DOMAIN selected.work /\ selected' = [selected EXCEPT !.work[c] = Probing]
      BY <1>7 DEF Launch, Stage
    <3> QED
      BY <1>5, <3>1, <3>2
  <2>2. c \notin Placed
    BY <1>7 DEF Launch, Stage, Placed
  <2>3. Cardinality(Placed') = Cardinality(Placed) + 1
    BY <2>1, <2>2, PlacedFinite, FS_AddElement
  <2> QED
    BY <1>3, <1>7, <2>3, PlacedFinite DEF Launch, PlacesInv
<1>8. ASSUME NEW c \in Creds, c \in Placed, Finish(c), pool' = pool + 1 PROVE PlacesInv'
  <2>1. Cardinality(Placed') = Cardinality(Placed) - 1
    BY <1>6, <1>8, PlacedFinite, FS_RemoveElement
  <2>2. Cardinality(Placed') \in Nat
    BY <1>6, <1>8, PlacedFinite, FS_RemoveElement, FS_CardinalityType
  <2> QED
    BY <1>3, <1>8, <2>1, <2>2, PlacedFinite DEF PlacesInv
<1>9. ASSUME NEW c \in Creds, NEW answer \in Answers, SelectedProbe(c, answer) PROVE PlacesInv'
  <2>1. Placed' = Placed \cup {c} /\ c \in Placed
    BY <1>5, <1>9 DEF SelectedProbe, Stage, Placed
  <2>2. Placed' = Placed
    BY <2>1
  <2> QED
    BY <1>9, <2>2 DEF SelectedProbe, PlacesInv
<1>10. CASE SelectedEnds
  <2>1. Placed = {}
    BY <1>1, <1>10 DEF SelectedEnds
  <2>2. Placed' = {}
    BY <1>2, <1>10 DEF SelectedEnds, NoSelected, Empty
  <2> QED
    BY <1>10, <2>1, <2>2 DEF SelectedEnds, PlacesInv
<1>11. ASSUME NEW ids \in Selections, NEW listed \in Listings, RecheckSelected(ids, listed)
       PROVE  PlacesInv'
  <2>1. PICK taken \in SUBSET ids : selected'.work = [c \in taken |-> Waiting]
    BY <1>11 DEF RecheckSelected
  <2>2. Placed' = {}
    BY <1>2, <2>1 DEF Waiting
  <2> QED
    BY <1>3, <1>11, <2>2, FS_EmptySet DEF RecheckSelected, PlacesInv
<1>12. ASSUME NEW c \in Creds, SelectedSkip(c) \/ SelectedApply(c) PROVE PlacesInv'
  <2>1. c \in Placed /\ Finish(c) /\ pool' = pool + 1
    BY <1>12 DEF SelectedSkip, SelectedApply, Placed
  <2> QED
    BY <1>8, <2>1
<1>13. CASE \/ \E c \in Creds : \/ Ends(c)
                                \/ \E answer \in Answers, hinted \in Hints : Fail(c, answer, hinted)
            \/ \E listed \in Listings : Recheck429(listed)
            \/ SweepStep \/ Pick \/ Consider \/ Choose \/ UNCHANGED vars
  BY <1>4, <1>13 DEF Ends, Fail, Recheck429, SweepStep, SweepSkip, SweepProbe, SweepWrite,
                     SweepEnds, Pick, Consider, Choose, vars, rechecks
<1> QED
  BY <1>7, <1>9, <1>10, <1>11, <1>12, <1>13 DEF Next, SelectedStep

(* A call has judged at most every candidate, and what it chose is one of  *)
(* them.                                                                   *)
CallInv ==
  /\ pick.next \in 1..(Len(Candidates) + 1)
  /\ rr \in 0..(CounterSize - 1)
  /\ served \in Creds \cup Others \cup {Nobody}
  /\ delegate \in Delegates

LEMMA StepCall ==
  ASSUME RowsInv, PickInv, CallInv, [Next]_vars
  PROVE  CallInv'
<1>1. ASSUME pick'.next = pick.next, UNCHANGED scheduler PROVE CallInv'
  BY <1>1 DEF CallInv, scheduler
<1>2. ASSUME NEW c \in Creds, NEW row, Write(c, row), UNCHANGED scheduler PROVE CallInv'
  BY <1>1, <1>2, WritePick
<1>3. ASSUME NEW c \in Creds, NEW entry, ApplyFailure(c, entry), UNCHANGED scheduler
      PROVE  CallInv'
  BY <1>1, <1>2, <1>3 DEF ApplyFailure
<1>4. ASSUME NEW c \in Creds,
             Ends(c) \/ \E answer \in Answers, hinted \in Hints : Fail(c, answer, hinted)
      PROVE  CallInv'
  BY <1>2, <1>3, <1>4 DEF Ends, Fail
<1>5. ASSUME \/ \E c \in Creds : SweepSkip(c) \/ \E answer \in Answers : SweepProbe(c, answer)
             \/ SweepEnds \/ SelectedEnds
             \/ \E c \in Creds : \/ Launch(c) \/ SelectedSkip(c)
                                 \/ \E answer \in Answers : SelectedProbe(c, answer)
             \/ \E listed \in Listings : \/ Recheck429(listed)
                                         \/ \E ids \in Selections : RecheckSelected(ids, listed)
             \/ UNCHANGED vars
      PROVE  CallInv'
  BY <1>1, <1>5 DEF SweepSkip, SweepProbe, SweepEnds, SelectedEnds, Launch, SelectedSkip,
                    SelectedProbe, Recheck429, RecheckSelected, vars
<1>6. ASSUME SweepWrite PROVE CallInv'
  <2>1. sweep.cur \in Creds
    BY <1>6 DEF RowsInv, SweepWrite, Sweeps
  <2> QED
    BY <1>2, <1>6, <2>1 DEF SweepWrite
<1>7. ASSUME NEW c \in Creds, SelectedApply(c) PROVE CallInv'
  <2>1. \/ Write(c, NoRow)
        \/ ApplyFailure(c, SelectedEntry(selected.work[c].answer))
        \/ UNCHANGED <<rows, pick>>
    BY <1>7 DEF SelectedApply
  <2>2. UNCHANGED scheduler
    BY <1>7 DEF SelectedApply
  <2> QED
    BY <1>1, <1>2, <1>3, <2>1, <2>2
<1>8. Len(Candidates) \in Nat /\ CounterSize \in Nat \ {0}
  BY ConstantsTyped
<1>9. CASE Pick
  <2>1. pick'.next = 1 /\ served' = Nobody /\ UNCHANGED <<rr, delegate>>
    BY <1>9 DEF Pick, NoPick
  <2> QED
    BY <1>8, <2>1 DEF CallInv
<1>10. CASE Consider
  <2>1. pick'.next = pick.next + 1 /\ pick.next <= Len(Candidates) /\ UNCHANGED scheduler
    BY <1>10 DEF Consider, PickInv
  <2> QED
    BY <1>8, <2>1 DEF CallInv, scheduler
<1>11. CASE Choose
  <2>1. pick'.next = 1 /\ UNCHANGED delegate
    BY <1>11 DEF Choose, NoPick
  <2>2. rr' \in 0..(CounterSize - 1)
    <3>1. rr' \in {rr, Bump}
      BY <1>11 DEF Choose
    <3>2. Bump \in 0..(CounterSize - 1)
      BY <1>8 DEF Bump, CallInv
    <3> QED
      BY <3>1, <3>2 DEF CallInv
  <2>3. served' \in Creds \cup Others \cup {Nobody}
    <3>1. pick.available \in Seq(Creds \cup Others) /\ rr \in Int
      BY <1>8 DEF PickInv, CallInv
    <3>2. CASE served' = Nobody
      BY <3>2
    <3>3. CASE pick.available # << >> /\ served' = FillFirst(pick.available)
      BY <3>1, <3>3, FillFirstChoice
    <3>4. CASE pick.available # << >> /\ served' = RoundRobin(pick.available)
      BY <3>1, <3>4, RoundRobinChoice
    <3> QED
      BY <1>11, <3>2, <3>3, <3>4 DEF Choose
  <2> QED
    BY <1>8, <2>1, <2>2, <2>3 DEF CallInv
<1> QED
  BY <1>4, <1>5, <1>6, <1>7, <1>9, <1>10, <1>11 DEF Next, SweepStep, SelectedStep

LEMMA InitFleet == Init => PickInv /\ PlacesInv /\ CallInv
<1> SUFFICES ASSUME Init PROVE PickInv /\ PlacesInv /\ CallInv
  OBVIOUS
<1>1. Len(Candidates) \in Nat /\ {CounterSize, Pool} \subseteq Nat \ {0}
  BY ConstantsTyped
<1>2. Placed = {}
  BY DEF Init, Placed, Stage, NoSelected, Empty
<1>3. PlacesInv
  BY <1>1, <1>2, FS_EmptySet DEF Init, PlacesInv
<1>4. CallInv
  BY <1>1 DEF Init, CallInv, NoPick
<1> QED
  BY <1>3, <1>4 DEF Init, PickInv, NoPick

(* The rows, both rechecks and the scheduler keep their shapes, whatever   *)
(* the order of their steps; a selected recheck never runs more probes at  *)
(* once than probe_concurrency, and gives every place back.                *)
THEOREM FleetType == Spec => []TypeOK
<1>1. Init => SchedulerInv /\ PlacesInv /\ CallInv
  <2>1. Init => rr \in Nat
    BY DEF Init
  <2> QED
    BY <2>1, InitFleet DEF SchedulerInv
<1>2. RowsInv /\ SchedulerInv /\ [Next]_vars => SchedulerInv'
  BY StepPick
<1>3. RowsInv /\ PlacesInv /\ [Next]_vars => PlacesInv'
  BY StepPlaces
<1>4. RowsInv /\ SchedulerInv /\ CallInv /\ [Next]_vars => CallInv'
  BY StepCall DEF SchedulerInv
<1>5. RowsInv /\ SchedulerInv /\ PlacesInv /\ CallInv => TypeOK
  <2> SUFFICES ASSUME RowsInv, SchedulerInv, PlacesInv, CallInv PROVE TypeOK
    OBVIOUS
  <2>1. Holding \subseteq Row
    BY DEF Holding, Row
  <2>2. rows \in [Creds -> Row \cup {NoRow}]
    BY <2>1 DEF RowsInv
  <2>3. /\ sweep.pc \in {"idle", "next", "write"} /\ DOMAIN sweep.left \subseteq Creds
        /\ sweep.answer \in Answers \cup {NoAnswer}
    BY DEF RowsInv, Sweeps
  <2>4. DOMAIN selected.work \subseteq Creds
    BY DEF RowsInv
  <2>5. pick.steady \subseteq Creds
    BY DEF SchedulerInv, PickInv, Isolated, IsolatedIn
  <2> QED
    BY <2>2, <2>3, <2>4, <2>5 DEF TypeOK, PlacesInv, CallInv
<1> QED
  BY <1>1, <1>2, <1>3, <1>4, <1>5, InitRows, StepRows, PTL DEF Spec

-----------------------------------------------------------------------------
(* The console's lists.                                                    *)

(* Places of a list.                                                       *)
LEMMA Counted ==
  ASSUME NEW n \in Nat, NEW A \in SUBSET (1..n)
  PROVE  IsFiniteSet(A) /\ Cardinality(A) \in Nat
<1>1. IsFiniteSet(1..n)
  BY FS_Interval
<1> QED
  BY <1>1, FS_Subset, FS_CardinalityType

LEMMA CountedApart ==
  ASSUME NEW n \in Nat, NEW A \in SUBSET (1..n), NEW B \in SUBSET (1..n), A \cap B = {}
  PROVE  Cardinality(A \cup B) = Cardinality(A) + Cardinality(B)
<1>1. IsFiniteSet(A) /\ IsFiniteSet(B)
  BY Counted
<1>2. Cardinality(A \cup B) = Cardinality(A) + Cardinality(B) - Cardinality(A \cap B)
  BY <1>1, FS_Union
<1>3. Cardinality(A) \in Nat /\ Cardinality(B) \in Nat /\ Cardinality(A \cap B) = 0
  BY Counted, FS_EmptySet
<1> QED
  BY <1>2, <1>3

(* Every place of a finite set has its turn, and just one.                 *)
LEMMA NthPlace ==
  ASSUME NEW n \in Nat, NEW A \in SUBSET (1..n)
  PROVE  /\ \A k \in 1..Cardinality(A) : Nth(A, k) \in A
         /\ \A m \in A : \E k \in 1..Cardinality(A) : Nth(A, k) = m
         /\ \A j, k \in 1..Cardinality(A) : Nth(A, j) = Nth(A, k) => j = k
<1> DEFINE Upto(m) == {l \in A : l <= m}
           rank == [m \in A |-> Cardinality(Upto(m))]
           N == Cardinality(A)
<1>1. IsFiniteSet(A) /\ N \in Nat
  BY Counted
<1>2. \A m \in A : /\ IsFiniteSet(Upto(m)) /\ Upto(m) \in SUBSET A
                   /\ Cardinality(Upto(m)) \in 1..N
  <2> TAKE m \in A
  <2>1. Upto(m) \in SUBSET A /\ m \in Upto(m)
    OBVIOUS
  <2> HIDE DEF Upto
  <2>2. IsFiniteSet(Upto(m)) /\ Cardinality(Upto(m)) <= N
    BY <1>1, <2>1, FS_Subset
  <2>3. Cardinality(Upto(m)) \in Nat /\ Cardinality(Upto(m)) # 0
    BY <2>1, <2>2, FS_CardinalityType, FS_EmptySet
  <2> QED
    BY <1>1, <2>1, <2>2, <2>3
<1>3. \A l, m \in A : l < m => Cardinality(Upto(l)) # Cardinality(Upto(m))
  <2> TAKE l, m \in A
  <2> HAVE l < m
  <2>1. Upto(l) \in SUBSET Upto(m) /\ m \in Upto(m) /\ m \notin Upto(l)
    <3>1. \A x \in A : x \in Int
      OBVIOUS
    <3>2. \A x \in A : x <= l => x <= m
      BY <3>1
    <3>3. m <= m /\ ~(m <= l)
      BY <3>1
    <3> QED
      BY <3>2, <3>3
  <2> HIDE DEF Upto
  <2>2. IsFiniteSet(Upto(m))
    BY <1>2
  <2>3. Cardinality(Upto(m)) = Cardinality(Upto(l)) => Upto(m) = Upto(l)
    BY <2>1, <2>2, FS_Subset
  <2> QED
    BY <2>1, <2>3
<1>4. \A l, m \in A : rank[l] = rank[m] => l = m
  <2> TAKE l, m \in A
  <2>1. l \in Int /\ m \in Int
    OBVIOUS
  <2> HIDE DEF Upto
  <2> QED
    BY <1>3, <2>1
<1> HIDE DEF Upto
<1>5. rank \in [A -> 1..N]
  BY <1>2
<1>6. rank \in Injection(A, 1..N)
  BY <1>4, <1>5 DEF Injection, IsInjective
<1>7. IsFiniteSet(1..N) /\ Cardinality(1..N) = N
  BY <1>1, FS_Interval
<1>8. rank \in Surjection(A, 1..N)
  BY <1>6, <1>7, FS_Injection
<1>9. \A k \in 1..N : \E m \in A : rank[m] = k
  BY <1>8 DEF Surjection
<1>10. \A k : Nth(A, k) = CHOOSE m \in A : Cardinality(Upto(m)) = k
  BY DEF Nth, Upto
<1>11. \A m \in A : rank[m] = Cardinality(Upto(m))
  OBVIOUS
<1> HIDE DEF rank, N
<1>12. \A k \in 1..N : Nth(A, k) \in A /\ rank[Nth(A, k)] = k
  <2> TAKE k \in 1..N
  <2>1. \E m \in A : Cardinality(Upto(m)) = k
    BY <1>9, <1>11
  <2>2. Nth(A, k) \in A /\ Cardinality(Upto(Nth(A, k))) = k
    BY <1>10, <2>1, Zenon
  <2> QED
    BY <1>11, <2>2
<1> QED
  BY <1>4, <1>5, <1>12 DEF N

LEMMA InfosFinite ==
  ASSUME NEW files \in SUBSET Creds, NEW off, NEW expired, NEW api
  PROVE  IsFiniteSet({Info(c, files, off, expired, api) : c \in Listed(files)})
<1> DEFINE infos == {Info(c, files, off, expired, api) : c \in Listed(files)}
           f == [c \in Listed(files) |-> Info(c, files, off, expired, api)]
<1>1. Listed(files) \in SUBSET Creds
  BY DEF Listed, Isolated, IsolatedIn
<1>2. IsFiniteSet(Listed(files))
  BY <1>1, FleetAssumption, FS_Subset
<1>3. f \in Surjection(Listed(files), infos)
  BY DEF Surjection
<1> HIDE DEF f, infos
<1>4. IsFiniteSet(infos)
  BY <1>2, <1>3, FS_Surjection
<1> QED
  BY <1>4 DEF infos

(* The lists are sequences of what the fleet's credentials look like.      *)
LEMMA ListIsSequence ==
  ASSUME NEW files \in SUBSET Creds, NEW off, NEW expired, NEW api,
         NEW items \in BuildFull(files, off, expired, api)
  PROVE  \E S : items \in Seq(S) /\ IsInjective(items)
<1> DEFINE infos == {Info(c, files, off, expired, api) : c \in Listed(files)}
<1>1. items \in [1..Cardinality(infos) -> infos] /\ IsInjective(items)
  BY DEF BuildFull
<1>2. IsFiniteSet(infos)
  BY InfosFinite
<1> HIDE DEF infos
<1>3. Cardinality(infos) \in Nat
  BY <1>2, FS_CardinalityType
<1>4. items \in Seq(infos)
  BY <1>1, <1>3
<1> QED
  BY <1>1, <1>4

(* A filtered list has as many entries as the list has matching ones.      *)
LEMMA FilterLength ==
  ASSUME NEW S, NEW items \in Seq(S), NEW f
  PROVE  /\ Matching(items, f) \in SUBSET (1..Len(items))
         /\ Filter(items, f) \in Seq(S)
         /\ Len(Filter(items, f)) = Cardinality(Matching(items, f))
<1>1. Matching(items, f) \in SUBSET (1..Len(items))
  BY DEF Matching
<1> DEFINE A == Matching(items, f)
<1> HIDE DEF A
<1>2. A \in SUBSET (1..Len(items)) /\ Len(items) \in Nat
  BY <1>1 DEF A
<1>3. Cardinality(A) \in Nat /\ \A k \in 1..Cardinality(A) : Nth(A, k) \in A
  BY <1>2, Counted, NthPlace
<1>4. \A k \in 1..Cardinality(A) : items[Nth(A, k)] \in S
  <2> TAKE k \in 1..Cardinality(A)
  <2>1. Nth(A, k) \in 1..Len(items)
    BY <1>2, <1>3
  <2> QED
    BY <2>1, ElementOfSeq
<1>5. Filter(items, f) = [k \in 1..Cardinality(A) |-> items[Nth(A, k)]]
  BY DEF Filter, A
<1>6. Filter(items, f) \in Seq(S) /\ Len(Filter(items, f)) = Cardinality(A)
  BY <1>3, <1>4, <1>5
<1> QED
  BY <1>1, <1>6 DEF A

(* It shows each of these once and no other.                               *)
LEMMA MatchingShownOnce ==
  ASSUME NEW S, NEW items \in Seq(S), IsInjective(items), NEW f
  PROVE  ShownOnce(items, Filter(items, f), f)
<1> DEFINE A == Matching(items, f)
           list == Filter(items, f)
<1>1. A \in SUBSET (1..Len(items)) /\ Len(items) \in Nat
  BY FilterLength
<1>2. list = [k \in 1..Cardinality(A) |-> items[Nth(A, k)]]
  BY DEF Filter
<1>3. \A n \in A : n \in DOMAIN items
  BY DEF Matching
<1>4. \A n \in DOMAIN items : n \in A <=> matchCredentialFilter(items[n], f)
  BY DEF Matching
<1> HIDE DEF A, list
<1> SUFFICES ASSUME NEW n \in DOMAIN items
             PROVE  Cardinality({k \in DOMAIN list : list[k] = items[n]}) = IF n \in A THEN 1 ELSE 0
  BY <1>4 DEF ShownOnce, list
<1> DEFINE places == {k \in DOMAIN list : list[k] = items[n]}
<1> HIDE DEF places
<1>8. /\ \A k \in 1..Cardinality(A) : Nth(A, k) \in A
      /\ \A m \in A : \E k \in 1..Cardinality(A) : Nth(A, k) = m
      /\ \A j, k \in 1..Cardinality(A) : Nth(A, j) = Nth(A, k) => j = k
  BY <1>1, NthPlace
<1>5. places = {k \in 1..Cardinality(A) : Nth(A, k) = n}
  <2>1. \A k \in 1..Cardinality(A) : Nth(A, k) \in DOMAIN items
    BY <1>3, <1>8
  <2>2. \A k \in 1..Cardinality(A) : items[Nth(A, k)] = items[n] <=> Nth(A, k) = n
    BY <2>1 DEF IsInjective
  <2> QED
    BY <1>2, <2>2 DEF places
<1>6. CASE n \in A
  <2>1. PICK k \in 1..Cardinality(A) : Nth(A, k) = n
    BY <1>6, <1>8
  <2>2. places = {k}
    BY <1>5, <1>8, <2>1
  <2> QED
    BY <1>6, <2>2, FS_Singleton DEF places
<1>7. CASE n \notin A
  <2>1. places = {}
    BY <1>5, <1>7, <1>8
  <2> QED
    BY <1>7, <2>1, FS_EmptySet DEF places
<1> QED
  BY <1>6, <1>7 DEF places

(* The cards count by predicates that differ from those of the lists only  *)
(* in the locally expired.                                                 *)
LEMMA CardsAgree ==
  ASSUME NEW S, NEW items \in Seq(S)
  PROVE  CardsMatchLists(items)
<1> DEFINE n == Len(items)
           cards == countCredentials(items)
           local == CountIf(items, LocallyExpired)
           L == {m \in DOMAIN items : LocallyExpired(items[m])}
           Card(f) == cards[f]
           Show(f) == Len(Filter(items, f))
<1>1. n \in Nat /\ DOMAIN items = 1..n
  OBVIOUS
<1>2. \A f : Show(f) = Cardinality(Matching(items, f)) /\ Matching(items, f) \in SUBSET (1..n)
  BY FilterLength
<1>3. \A f : Show(f) \in Nat
  BY <1>1, <1>2, Counted
<1>4. local = Cardinality(L) /\ L \in SUBSET (1..n) /\ local \in Nat
  <2>1. local = Cardinality(L)
    BY DEF CountIf
  <2>2. L \in SUBSET (1..n)
    BY <1>1
  <2> HIDE DEF L, local
  <2> QED
    BY <1>1, <2>1, <2>2, Counted
<1>5. Card("all") = Show("all")
  <2>1. Matching(items, "all") = 1..n
    BY <1>1 DEF Matching, matchCredentialFilter
  <2>2. Cardinality(1..n) = n
    BY <1>1, FS_Interval
  <2>3. Card("all") = n
    BY DEF countCredentials, Filters
  <2> QED
    BY <1>2, <2>1, <2>2, <2>3
<1>6. Card("disabled") = Show("disabled")
  <2>1. Card("disabled") = Cardinality({m \in DOMAIN items : items[m].disabled})
    BY DEF countCredentials, Filters, CountIf
  <2>2. Matching(items, "disabled") = {m \in DOMAIN items : items[m].disabled}
    BY DEF Matching, matchCredentialFilter
  <2> QED
    BY <1>2, <2>1, <2>2
<1>7. Card("banned") = Show("banned")
  <2>1. Card("banned") = Cardinality({m \in DOMAIN items : items[m].banned})
    BY DEF countCredentials, Filters, CountIf
  <2>2. Matching(items, "banned") = {m \in DOMAIN items : items[m].banned}
    BY DEF Matching, matchCredentialFilter
  <2> QED
    BY <1>2, <2>1, <2>2
<1>8. Card("using_api") = Show("using_api")
  <2>1. Card("using_api") = Cardinality({m \in DOMAIN items : items[m].api})
    BY DEF countCredentials, Filters, CountIf
  <2>2. Matching(items, "using_api") = {m \in DOMAIN items : items[m].api}
    BY DEF Matching, matchCredentialFilter
  <2> QED
    BY <1>2, <2>1, <2>2
<1>9. Card("healthy") = Show("healthy") - local
  <2> DEFINE H == {m \in DOMAIN items : IsHealthy(items[m])}
  <2>1. Card("healthy") = Cardinality(H)
    BY DEF countCredentials, Filters, CountIf
  <2>2. Matching(items, "healthy") = H \cup L /\ H \cap L = {} /\ H \in SUBSET (1..n)
    BY <1>1 DEF Matching, matchCredentialFilter, IsHealthy, LocallyExpired
  <2> HIDE DEF H, L, Card, Show, local, n
  <2>3. Show("healthy") = Cardinality(H) + local
    BY <1>1, <1>2, <1>4, <2>2, CountedApart
  <2>4. Cardinality(H) \in Nat
    BY <1>1, <2>2, Counted
  <2> QED
    BY <1>4, <2>1, <2>3, <2>4
<1>10. Card("401") = Show("401") + local
  <2>1. Card("401") = Cardinality({m \in DOMAIN items : items[m].banned /\ items[m].code = 401}) + local
    BY DEF countCredentials, Filters, CountIf
  <2>2. Matching(items, "401") = {m \in DOMAIN items : items[m].banned /\ items[m].code = 401}
    BY DEF Matching, matchCredentialFilter, CodeOf
  <2> QED
    BY <1>2, <2>1, <2>2
<1>11. ASSUME NEW f \in {"402", "403", "429"} PROVE Card(f) = Show(f)
  <2>1. Card(f) = Cardinality({m \in DOMAIN items : items[m].banned /\ items[m].code = CodeOf[f]})
    BY DEF countCredentials, Filters, CountIf
  <2>2. Matching(items, f) = {m \in DOMAIN items : items[m].banned /\ items[m].code = CodeOf[f]}
    BY DEF Matching, matchCredentialFilter
  <2> QED
    BY <1>2, <2>1, <2>2
<1> SUFFICES ASSUME NEW f \in Filters
             PROVE  Card(f) = Show(f) + CASE f = "401"     -> local
                                          [] f = "healthy" -> -local
                                          [] OTHER         -> 0
  BY DEF CardsMatchLists
<1> HIDE DEF Card, Show, local
<1>12. Show(f) \in Nat /\ local \in Nat
  BY <1>3, <1>4
<1>13. CASE f = "401"
  BY <1>10, <1>13
<1>14. CASE f = "healthy"
  BY <1>9, <1>12, <1>14
<1>15. CASE f \notin {"401", "healthy"}
  <2>1. Card(f) = Show(f)
    BY <1>5, <1>6, <1>7, <1>8, <1>11, <1>15 DEF Filters
  <2> QED
    BY <1>12, <1>15, <2>1
<1> QED
  BY <1>13, <1>14, <1>15

(* The last page begins before the end of a list and reaches it.           *)
LEMMA PageCount ==
  ASSUME NEW n \in Nat \ {0}, NEW size \in Nat \ {0}
  PROVE  LET P == (n + size - 1) \div size
         IN  P \in Nat \ {0} /\ (P - 1) * size < n /\ n <= P * size
<1> DEFINE P == (n + size - 1) \div size
           r == (n + size - 1) % size
<1>1. P \in Nat /\ r \in 0..(size - 1) /\ n + size - 1 = P * size + r
  OBVIOUS
<1> HIDE DEF P, r
<1>2. P # 0
  BY <1>1
<1>3. (P - 1) * size = P * size - size
  BY <1>1
<1> QED
  BY <1>1, <1>2, <1>3 DEF P

(* What the joining of sequences in FlattenSeq is defined by, and that      *)
(* only one function is.                                                   *)
Joins(g, seqs, n) == g = [i \in 1..n |-> IF i = 1 THEN seqs[i] ELSE g[i-1] \o seqs[i]]

LEMMA JoinsUnique ==
  ASSUME NEW n \in Nat \ {0}, NEW seqs, NEW f, NEW g, Joins(f, seqs, n), Joins(g, seqs, n)
  PROVE  f = g
<1>0. /\ f = [i \in 1..n |-> f[i]] /\ g = [i \in 1..n |-> g[i]]
      /\ \A i \in 1..n : f[i] = IF i = 1 THEN seqs[i] ELSE f[i-1] \o seqs[i]
      /\ \A i \in 1..n : g[i] = IF i = 1 THEN seqs[i] ELSE g[i-1] \o seqs[i]
  BY DEF Joins
<1> DEFINE T == {i \in 1..n : f[i] # g[i]}
<1> SUFFICES T = {}
  <2> SUFFICES \A i \in 1..n : f[i] = g[i]
    BY <1>0
  <2> QED
    OBVIOUS
<1> SUFFICES ASSUME T # {} PROVE FALSE
  OBVIOUS
<1>1. T \subseteq Nat
  OBVIOUS
<1>2. PICK i \in T : \A j \in T : <<j, i>> \notin OpToRel(<, Nat)
  BY <1>1, NatLessThanWellFounded, WFMin
<1>3. i \in 1..n /\ f[i] # g[i]
  OBVIOUS
<1>4. i # 1
  BY <1>0, <1>3
<1>5. i - 1 \in 1..n /\ i - 1 \notin T
  <2>1. i - 1 \in 1..n /\ i - 1 < i
    BY <1>3, <1>4
  <2>2. <<i - 1, i>> \in OpToRel(<, Nat)
    BY <1>3, <2>1 DEF OpToRel
  <2> QED
    BY <1>2, <2>1, <2>2
<1>6. f[i] = f[i-1] \o seqs[i] /\ g[i] = g[i-1] \o seqs[i]
  BY <1>0, <1>3, <1>4
<1> QED
  BY <1>3, <1>5, <1>6

LEMMA PageSizePositive == \A asked \in PageSizes : PageSize(asked) \in Nat \ {0}
BY PageAssumption DEF PageSize

(* A beginning of a list is a shorter beginning and what is between.       *)
LEMMA SplitAt ==
  ASSUME NEW S, NEW list \in Seq(S), NEW a \in 0..Len(list), NEW b \in 0..Len(list), a <= b
  PROVE  SubSeq(list, 1, b) = SubSeq(list, 1, a) \o SubSeq(list, a + 1, b)
<1> DEFINE all == SubSeq(list, 1, b)
           left == SubSeq(list, 1, a)
           right == SubSeq(list, a + 1, b)
<1>1. Len(list) \in Nat /\ \A i \in 1..Len(list) : list[i] \in S
  OBVIOUS
<1>2. a \in Nat /\ b \in Nat /\ a <= b
  BY <1>1
<1>3. /\ all \in Seq(S) /\ Len(all) = b
      /\ \A i \in 1..b : all[i] = list[i]
  <2>1. \A i \in 1..b : list[i] \in S
    BY <1>1, <1>2
  <2>2. /\ all \in Seq(S) /\ Len(all) = IF 1 <= b THEN b - 1 + 1 ELSE 0
        /\ \A i \in 1..(b - 1 + 1) : all[i] = list[1 + i - 1]
    BY <1>2, <2>1, SubSeqProperties
  <2> QED
    BY <1>2, <2>2
<1>4. /\ left \in Seq(S) /\ Len(left) = a
      /\ \A i \in 1..a : left[i] = list[i]
  <2>1. \A i \in 1..a : list[i] \in S
    BY <1>1, <1>2
  <2>2. /\ left \in Seq(S) /\ Len(left) = IF 1 <= a THEN a - 1 + 1 ELSE 0
        /\ \A i \in 1..(a - 1 + 1) : left[i] = list[1 + i - 1]
    BY <1>2, <2>1, SubSeqProperties
  <2> QED
    BY <1>2, <2>2
<1>5. /\ right \in Seq(S) /\ Len(right) = b - a
      /\ \A i \in 1..(b - a) : right[i] = list[a + i]
  <2>1. \A i \in (a + 1)..b : list[i] \in S
    BY <1>1, <1>2
  <2>2. /\ right \in Seq(S) /\ Len(right) = IF a + 1 <= b THEN b - (a + 1) + 1 ELSE 0
        /\ \A i \in 1..(b - (a + 1) + 1) : right[i] = list[(a + 1) + i - 1]
    BY <1>2, <2>1, SubSeqProperties
  <2>3. \A i \in 1..(b - a) : i \in 1..(b - (a + 1) + 1) /\ (a + 1) + i - 1 = a + i
    BY <1>2
  <2>4. Len(right) = b - a
    BY <1>2, <2>2
  <2> HIDE DEF right
  <2>5. \A i \in 1..(b - a) : right[i] = list[a + i]
    <3> TAKE i \in 1..(b - a)
    <3>1. right[i] = list[(a + 1) + i - 1]
      BY <2>2, <2>3
    <3> QED
      BY <2>3, <3>1
  <2> QED
    BY <2>2, <2>4, <2>5
<1> HIDE DEF all, left, right
<1>6. /\ left \o right \in Seq(S) /\ Len(left \o right) = Len(left) + Len(right)
      /\ \A i \in 1..(Len(left) + Len(right)) :
           (left \o right)[i] = IF i <= Len(left) THEN left[i] ELSE right[i - Len(left)]
  BY <1>4, <1>5, ConcatProperties
<1>7. Len(left \o right) = b
  BY <1>2, <1>4, <1>5, <1>6
<1>8. \A i \in 1..b : (left \o right)[i] = all[i]
  <2> TAKE i \in 1..b
  <2>1. (left \o right)[i] = IF i <= a THEN left[i] ELSE right[i - a]
    BY <1>2, <1>4, <1>5, <1>6
  <2>2. CASE i <= a
    BY <1>2, <1>3, <1>4, <2>1, <2>2
  <2>3. CASE ~(i <= a)
    <3>1. i - a \in 1..(b - a) /\ a + (i - a) = i
      BY <1>2, <2>3
    <3>2. right[i - a] = list[i]
      BY <1>5, <3>1
    <3> QED
      BY <1>3, <2>1, <2>3, <3>2
  <2> QED
    BY <2>2, <2>3
<1>9. all = left \o right
  BY <1>3, <1>6, <1>7, <1>8, SeqEqual
<1> QED
  BY <1>9 DEF all, left, right

(* What the pages up to the i-th show together.                            *)
LEMMA PagesJoin ==
  ASSUME NEW S, NEW list \in Seq(S), NEW size \in Nat \ {0}
  PROVE  LET P == Pages(list, size)
             seqs == [p \in 1..P |-> slicePage(list, p, size)]
             upto(i) == IF i * size > Len(list) THEN Len(list) ELSE i * size
             front == [i \in 1..P |-> SubSeq(list, 1, upto(i))]
         IN  /\ P \in Nat \ {0}
             /\ front = [i \in 1..P |-> IF i = 1 THEN seqs[i] ELSE front[i-1] \o seqs[i]]
             /\ front[P] = list
<1> DEFINE P == Pages(list, size)
           seqs == [p \in 1..P |-> slicePage(list, p, size)]
           n == Len(list)
           upto(i) == IF i * size > n THEN n ELSE i * size
           front == [i \in 1..P |-> SubSeq(list, 1, upto(i))]
<1>1. n \in Nat
  OBVIOUS
<1>2. /\ P \in Nat \ {0} /\ n <= P * size
      /\ \A i \in 1..P : i > 1 => (i - 1) * size < n
  <2>1. CASE list = << >>
    <3>1. P = 1 /\ n = 0
      BY <2>1 DEF Pages
    <3> QED
      BY <3>1
  <2>2. CASE list # << >>
    <3>1. P = (n + size - 1) \div size /\ n \in Nat \ {0}
      BY <2>2 DEF Pages
    <3> HIDE DEF P, n
    <3>2. P \in Nat \ {0} /\ (P - 1) * size < n /\ n <= P * size
      BY <3>1, PageCount
    <3>3. ASSUME NEW i \in 1..P, i > 1 PROVE (i - 1) * size < n
      <4>1. P - i \in Nat /\ (P - i) * size \in Nat
        BY <3>2
      <4>2. (P - 1) * size = (i - 1) * size + (P - i) * size
        BY <3>2
      <4>3. (i - 1) * size \in Nat
        BY <3>2, <3>3
      <4> QED
        BY <1>1, <3>2, <4>1, <4>2, <4>3
    <3> QED
      BY <3>2, <3>3
  <2> QED
    BY <2>1, <2>2
<1>3. ASSUME NEW i \in 1..P
      PROVE  /\ seqs[i] = SubSeq(list, (i - 1) * size + 1, upto(i))
             /\ (i - 1) * size \in 0..n /\ upto(i) \in 0..n /\ upto(i) >= (i - 1) * size
  <2>1. Within(i, P) = i
    BY <1>2 DEF Within
  <2>2. (i - 1) * size + size = i * size /\ (i - 1) * size \in Nat /\ i * size \in Nat
    <3>1. i \in Int /\ size \in Int /\ i - 1 \in Nat
      BY <1>2
    <3> QED
      BY <3>1
  <2>3. (i - 1) * size <= n
    <3>1. CASE i = 1
      BY <1>1, <3>1
    <3>2. CASE i > 1
      BY <1>1, <1>2, <2>2, <3>2
    <3> QED
      BY <1>2, <3>1, <3>2
  <2> HIDE DEF P
  <2>4. seqs[i] = SubSeq(list, (i - 1) * size + 1, upto(i))
    BY <2>1, <2>2 DEF slicePage, P
  <2> HIDE DEF n, seqs
  <2> QED
    BY <1>1, <2>2, <2>3, <2>4
<1>4. ASSUME NEW a \in 0..n, NEW b \in 0..n, a <= b
      PROVE  SubSeq(list, 1, b) = SubSeq(list, 1, a) \o SubSeq(list, a + 1, b)
  BY <1>4, SplitAt
<1>5. \A i \in 1..P : front[i] = IF i = 1 THEN seqs[i] ELSE front[i-1] \o seqs[i]
  <2> TAKE i \in 1..P
  <2> HIDE DEF P, seqs
  <2>1. CASE i = 1
    <3>1. (i - 1) * size + 1 = 1
      BY <2>1
    <3> QED
      BY <1>3, <2>1, <3>1
  <2>2. CASE i # 1
    <3>1. i - 1 \in 1..P /\ i > 1
      BY <1>2, <2>2
    <3>2. upto(i - 1) = (i - 1) * size
      <4>1. (i - 1) * size < n /\ (i - 1) * size \in Int
        BY <1>2, <1>3, <3>1
      <4> HIDE DEF n
      <4> QED
        BY <1>1, <4>1
    <3>3. front[i - 1] = SubSeq(list, 1, (i - 1) * size)
      BY <3>1, <3>2
    <3>4. front[i] = SubSeq(list, 1, upto(i))
      OBVIOUS
    <3>5. (i - 1) * size \in 0..n /\ upto(i) \in 0..n /\ upto(i) >= (i - 1) * size
      BY <1>3
    <3> DEFINE a == (i - 1) * size
               b == upto(i)
    <3> HIDE DEF a, b
    <3>6. a \in 0..n /\ b \in 0..n /\ a <= b
      BY <1>1, <3>5 DEF a, b
    <3>7. SubSeq(list, 1, b) = SubSeq(list, 1, a) \o SubSeq(list, a + 1, b)
      BY <1>4, <3>6
    <3>8. front[i] = SubSeq(list, 1, b) /\ front[i - 1] = SubSeq(list, 1, a)
          /\ seqs[i] = SubSeq(list, a + 1, b)
      BY <1>3, <3>3, <3>4 DEF a, b
    <3> HIDE DEF front
    <3> QED
      BY <2>2, <3>7, <3>8
  <2> QED
    BY <2>1, <2>2
<1>6. front[P] = list
  <2>1. upto(P) = n
    <3>1. P * size \in Int
      BY <1>2
    <3> QED
      BY <1>1, <1>2, <3>1
  <2>2. front[P] = SubSeq(list, 1, n)
    BY <1>2, <2>1
  <2> QED
    BY <2>2, SubSeqFull
<1> HIDE DEF seqs, P
<1>7. front = [i \in 1..P |-> IF i = 1 THEN seqs[i] ELSE front[i-1] \o seqs[i]]
  <2> DEFINE step == [i \in 1..P |-> IF i = 1 THEN seqs[i] ELSE front[i-1] \o seqs[i]]
  <2>1. DOMAIN front = 1..P /\ DOMAIN step = 1..P
    OBVIOUS
  <2>2. \A i \in 1..P : step[i] = IF i = 1 THEN seqs[i] ELSE front[i-1] \o seqs[i]
    OBVIOUS
  <2> HIDE DEF front
  <2>3. \A i \in 1..P : front[i] = step[i]
    BY <1>5, <2>2
  <2>4. front = [i \in 1..P |-> front[i]]
    BY DEF front
  <2> QED
    BY <2>3, <2>4
<1> QED
  BY <1>2, <1>6, <1>7 DEF seqs, P

(* One page after the other is the list.                                   *)
LEMMA PagesShowList ==
  ASSUME NEW S, NEW list \in Seq(S)
  PROVE  PagesCoverList(list)
<1> SUFFICES ASSUME NEW asked \in PageSizes
             PROVE  LET size == PageSize(asked)
                    IN  FlattenSeq([p \in 1..Pages(list, size) |-> slicePage(list, p, size)]) = list
  BY DEF PagesCoverList
<1> DEFINE size == PageSize(asked)
           P == Pages(list, size)
           seqs == [p \in 1..P |-> slicePage(list, p, size)]
<1>1. size \in Nat \ {0}
  BY PageSizePositive
<1> HIDE DEF size
<1>2. PICK front : /\ P \in Nat \ {0}
                   /\ front = [i \in 1..P |-> IF i = 1 THEN seqs[i] ELSE front[i-1] \o seqs[i]]
                   /\ front[P] = list
  BY <1>1, PagesJoin
<1>3. Len(seqs) = P
  BY <1>2
<1>4. FlattenSeq(seqs) = (CHOOSE g : Joins(g, seqs, P))[P]
  BY <1>2, <1>3 DEF FlattenSeq, Joins
<1> HIDE DEF seqs, P
<1>5. Joins(front, seqs, P)
  BY <1>2 DEF Joins
<1>6. Joins(CHOOSE g : Joins(g, seqs, P), seqs, P)
  BY <1>5
<1>7. (CHOOSE g : Joins(g, seqs, P)) = front
  BY <1>2, <1>5, <1>6, JoinsUnique
<1> QED
  BY <1>2, <1>3, <1>4, <1>7 DEF seqs, P, size

LEMMA PriorityRange == \A i : statusSortPriority(i) \in 1..10
BY DEF statusSortPriority

(* Somebody of a list is the least urgent.                                 *)
LEMMA LeastUrgent ==
  ASSUME NEW J, J # {}
  PROVE  \E x \in J : \A y \in J : statusSortPriority(y) <= statusSortPriority(x)
<1> DEFINE T == {10 - statusSortPriority(x) : x \in J}
<1>1. T \subseteq Nat /\ T # {}
  BY PriorityRange
<1>2. PICK t \in T : \A u \in T : <<u, t>> \notin OpToRel(<, Nat)
  BY <1>1, NatLessThanWellFounded, WFMin
<1>3. PICK x \in J : t = 10 - statusSortPriority(x)
  OBVIOUS
<1>4. \A y \in J : statusSortPriority(y) <= statusSortPriority(x)
  <2> TAKE y \in J
  <2>1. <<10 - statusSortPriority(y), t>> \notin OpToRel(<, Nat)
    BY <1>2
  <2>2. ~(10 - statusSortPriority(y) < t)
    <3>1. 10 - statusSortPriority(y) \in Nat /\ t \in Nat
      BY <1>1
    <3> QED
      BY <2>1, <3>1 DEF OpToRel
  <2> QED
    BY <1>3, <2>2, PriorityRange
<1> QED
  BY <1>4

(* What BuildFull may return for a set of entries.                         *)
SortedLists(J) == {list \in [1..Cardinality(J) -> J] : IsInjective(list) /\ Sorted(list)}

(* Whoever is put last, if nobody is less urgent, keeps a list sorted.     *)
LEMMA PutLast ==
  ASSUME NEW J, IsFiniteSet(J), NEW x \in J, NEW list \in SortedLists(J \ {x}),
         \A y \in J : statusSortPriority(y) <= statusSortPriority(x)
  PROVE  SortedLists(J) # {}
<1> DEFINE n == Cardinality(J)
           new == [i \in 1..n |-> IF i = n THEN x ELSE list[i]]
<1>1. n \in Nat \ {0} /\ Cardinality(J \ {x}) = n - 1
  <2>1. n \in Nat /\ n # 0
    BY FS_CardinalityType, FS_EmptySet
  <2>2. Cardinality(J \ {x}) = n - 1
    BY FS_RemoveElement
  <2> QED
    BY <2>1, <2>2
<1>2. list \in [1..(n - 1) -> J \ {x}] /\ IsInjective(list) /\ Sorted(list)
  BY <1>1 DEF SortedLists
<1> HIDE DEF n
<1>3. \A i \in 1..n : i # n => i \in 1..(n - 1)
  BY <1>1
<1>4. new \in [1..n -> J]
  BY <1>2, <1>3
<1>5. \A i \in 1..n : new[i] = IF i = n THEN x ELSE list[i]
  OBVIOUS
<1> HIDE DEF new
<1>6. IsInjective(new)
  <2> SUFFICES ASSUME NEW i \in 1..n, NEW j \in 1..n, new[i] = new[j] PROVE i = j
    BY <1>4 DEF IsInjective
  <2>1. CASE i = n \/ j = n
    BY <1>2, <1>3, <1>5, <2>1
  <2>2. CASE i # n /\ j # n
    BY <1>2, <1>3, <1>5, <2>2 DEF IsInjective
  <2> QED
    BY <2>1, <2>2
<1>7. Sorted(new)
  <2> SUFFICES ASSUME NEW i \in 1..n, NEW j \in 1..n, i < j
               PROVE  statusSortPriority(new[i]) <= statusSortPriority(new[j])
    BY <1>4 DEF Sorted
  <2>1. CASE j = n
    BY <1>4, <1>5, <2>1
  <2>2. CASE j # n
    <3>1. i # n
      BY <1>1, <2>2
    <3> QED
      BY <1>2, <1>3, <1>5, <2>2, <3>1 DEF Sorted
  <2> QED
    BY <2>1, <2>2
<1> QED
  BY <1>4, <1>6, <1>7 DEF SortedLists, n

(* A set that could not be sorted would have a least part that could not.  *)
LEMMA CanBeSorted ==
  ASSUME NEW I, IsFiniteSet(I)
  PROVE  SortedLists(I) # {}
<1> DEFINE T == {J \in SUBSET I : SortedLists(J) = {}}
<1> SUFFICES ASSUME T # {} PROVE FALSE
  OBVIOUS
<1>1. \A J \in SUBSET I : IsFiniteSet(J)
  BY FS_Subset
<1>2. T \subseteq FiniteSubsetsOf(I)
  BY <1>1 DEF FiniteSubsetsOf
<1>3. PICK J \in T : \A K \in T : <<K, J>> \notin StrictSubsetOrdering(I)
  <2> HIDE DEF T
  <2> QED
    BY <1>2, WFMin, FS_StrictSubsetOrderingWellFounded
<1>4. J # {}
  <2>1. [i \in {} |-> 0] \in SortedLists({})
    <3>1. 1..Cardinality({}) = {}
      BY FS_EmptySet
    <3>2. [i \in {} |-> 0] \in [{} -> {}]
      OBVIOUS
    <3> QED
      BY <3>1, <3>2 DEF SortedLists, IsInjective, Sorted
  <2> QED
    BY <2>1
<1>5. PICK x \in J : \A y \in J : statusSortPriority(y) <= statusSortPriority(x)
  BY <1>4, LeastUrgent
<1>6. SortedLists(J \ {x}) # {}
  <2>1. <<J \ {x}, J>> \in StrictSubsetOrdering(I)
    <3>1. J \ {x} \in SUBSET I /\ J \in SUBSET I /\ J \ {x} \subseteq J /\ J \ {x} # J
      OBVIOUS
    <3> QED
      BY <3>1 DEF StrictSubsetOrdering
  <2> QED
    BY <1>3, <2>1
<1>7. SortedLists(J) # {}
  BY <1>1, <1>5, <1>6, PutLast
<1> QED
  BY <1>7

(* There is always a list to show.                                         *)
LEMMA ListExists ==
  ASSUME NEW files \in SUBSET Creds, NEW off, NEW expired, NEW api
  PROVE  BuildFull(files, off, expired, api) # {}
<1> DEFINE infos == {Info(c, files, off, expired, api) : c \in Listed(files)}
<1>1. IsFiniteSet(infos)
  BY InfosFinite
<1>2. BuildFull(files, off, expired, api) = SortedLists(infos)
  BY DEF BuildFull, SortedLists
<1> HIDE DEF infos
<1> QED
  BY <1>1, <1>2, CanBeSorted

(* For any fleet, whatever its rows say and the host forgets, disables or  *)
(* has expired: the console's cards and lists agree, and turning the pages *)
(* of any list shows each credential that belongs on it once and no other. *)
THEOREM ConsoleShowsAll == Spec => []ListsComplete
<1>1. ListsComplete
  <2> SUFFICES ASSUME NEW files \in SUBSET Creds, NEW off \in SUBSET Creds,
                      NEW expired \in SUBSET Creds, NEW api \in SUBSET Creds,
                      NEW items \in BuildFull(files, off, expired, api)
               PROVE  /\ CardsMatchLists(items)
                      /\ \A f \in Filters : LET list == Filter(items, f)
                                            IN  ShownOnce(items, list, f) /\ PagesCoverList(list)
    BY DEF ListsComplete
  <2>1. PICK S : items \in Seq(S) /\ IsInjective(items)
    BY ListIsSequence
  <2>2. CardsMatchLists(items)
    BY <2>1, CardsAgree
  <2>3. \A f : ShownOnce(items, Filter(items, f), f)
    BY <2>1, MatchingShownOnce
  <2>4. \A f : Filter(items, f) \in Seq(S)
    BY <2>1, FilterLength
  <2>5. \A f : PagesCoverList(Filter(items, f))
    BY <2>4, PagesShowList
  <2> QED
    BY <2>2, <2>3, <2>5
<1> QED
  BY <1>1, PTL
=============================================================================
