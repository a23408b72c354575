-------------------------- MODULE ProbeFlightProofs --------------------------
(***************************************************************************)
(* What the probe flight guarantees for any number of calls, files and     *)
(* workers: always, that the lock has an owner and that ids are distinct;  *)
(* and, as long as nobody forces a start and no run outlasts its lock,     *)
(* that one full probe runs at a time.                                     *)
(***************************************************************************)
EXTENDS ProbeFlight, FiniteSetTheorems, SequenceTheorems, TLAPS

(***************************************************************************)
(* A worker is busy as long as its report is outstanding, so releasing the *)
(* semaphore never counts below zero.                                      *)
(***************************************************************************)
Counted == \A r \in Runs : IsFiniteSet(bumps[r]) /\ Cardinality(bumps[r]) <= busy[r]

TypeInv == TypeOK /\ Counted

LEMMA InitType == Init => TypeInv
<1> SUFFICES ASSUME Init PROVE TypeInv
  OBVIOUS
<1>1. history \in Seq(Nat)
  BY DEF Init
<1>2. bumps \in [Runs -> SUBSET Nat] /\ pc \in [Runs -> PC]
  BY DEF Init, PC
<1>3. TypeOK
  BY <1>1, <1>2 DEF Init, TypeOK
<1>4. Counted
  BY FS_EmptySet DEF Init, Counted
<1> QED
  BY <1>3, <1>4 DEF TypeInv

Recorded(h, n) ==
  SubSeq(<<n>> \o h, 1, IF Len(h) < MaxHistory THEN Len(h) + 1 ELSE MaxHistory)

(* recordRun puts the new id first and keeps the others in order.          *)
LEMMA HistoryTakes ==
  ASSUME NEW h \in Seq(Nat), NEW n \in Nat
  PROVE  /\ Recorded(h, n) \in Seq(Nat)
         /\ \A i \in DOMAIN Recorded(h, n) :
              \/ i = 1 /\ Recorded(h, n)[i] = n
              \/ i \in Nat /\ i # 1 /\ i - 1 \in DOMAIN h /\ Recorded(h, n)[i] = h[i - 1]
<1> DEFINE longer == <<n>> \o h
           last   == IF Len(h) < MaxHistory THEN Len(h) + 1 ELSE MaxHistory
<1>1. /\ longer \in Seq(Nat) /\ Len(longer) = Len(h) + 1 /\ longer[1] = n
      /\ \A i \in 2..(Len(h) + 1) : longer[i] = h[i - 1]
  OBVIOUS
<1>2. last \in Nat /\ 1 <= last /\ last <= Len(h) + 1 /\ Len(h) \in Nat
  <2>1. Len(h) \in Nat
    OBVIOUS
  <2> QED
    BY <2>1 DEF MaxHistory
<1>3. Recorded(h, n) = SubSeq(longer, 1, last)
  BY DEF Recorded
<1> HIDE DEF longer, last
<1>4. \A i \in 1..last : longer[i] \in Nat
  BY <1>1, <1>2
<1>5. /\ SubSeq(longer, 1, last) \in Seq(Nat)
      /\ Len(SubSeq(longer, 1, last)) = last
      /\ \A i \in 1..last : SubSeq(longer, 1, last)[i] = longer[i]
  BY <1>2, <1>4, SubSeqProperties
<1>6. ASSUME NEW i \in 1..last
      PROVE  \/ i = 1 /\ longer[i] = n
             \/ i \in Nat /\ i # 1 /\ i - 1 \in DOMAIN h /\ longer[i] = h[i - 1]
  <2>1. CASE i = 1
    BY <1>1, <2>1
  <2>2. CASE i # 1
    <3>1. i \in 2..(Len(h) + 1) /\ i - 1 \in 1..Len(h)
      BY <1>2, <2>2
    <3> QED
      BY <1>1, <3>1
  <2> QED
    BY <2>1, <2>2
<1>7. DOMAIN SubSeq(longer, 1, last) = 1..last
  BY <1>5
<1> QED
  BY <1>3, <1>5, <1>6, <1>7

LEMMA NextType == TypeInv /\ [Next]_vars => TypeInv'
<1> SUFFICES ASSUME TypeInv, [Next]_vars PROVE TypeInv'
  OBVIOUS
<1> USE DEF TypeInv
<1>begin. ASSUME NEW r \in Runs, NEW refusal \in PC, beginProbe(r, refusal) PROVE TypeInv'
  <2>1. CASE Acquire(r)
    <3>1. /\ jobRunning' = TRUE /\ jobStale' = FALSE /\ runSeq' = runSeq + 1
          /\ jobID' = runSeq + 1 /\ jobDone' = 0 /\ jobTotal' = 0 /\ jobResult' = NoRun
          /\ runId' = [runId EXCEPT ![r] = runSeq + 1]
          /\ pc' = [pc EXCEPT ![r] = "list"]
          /\ UNCHANGED <<history, bulk, work>>
      BY <1>begin, <2>1 DEF beginProbe, Acquire
    <3>2. pc' \in [Runs -> PC] /\ runId' \in [Runs -> Nat]
      BY <3>1 DEF TypeOK, PC
    <3>3. Counted'
      BY <3>1 DEF Counted, work
    <3> QED
      BY <3>1, <3>2, <3>3 DEF TypeOK, bulk, work
  <2>2. CASE ~Acquire(r)
    BY <1>begin, <2>2 DEF beginProbe, TypeOK, Counted, job, bulk, work
  <2> QED
    BY <2>1, <2>2
<1>1. ASSUME NEW r \in Runs, Start(r) \/ StartAgain(r) PROVE TypeInv'
  BY <1>1, <1>begin DEF Start, StartAgain, PC
<1>2. ASSUME NEW r \in Runs, ForceResetJob(r) \/ ListFails(r) PROVE TypeInv'
  BY <1>2 DEF ForceResetJob, ListFails, TypeOK, Counted, job, bulk, work, PC
<1>3. ASSUME NEW r \in Runs, finishProbe(r) PROVE TypeInv'
  BY <1>3 DEF finishProbe, TypeOK, Counted, bulk, work, PC
<1>4. CASE GrowStale
  BY <1>4 DEF GrowStale, TypeOK, Counted, bulk, work
<1>5. ASSUME NEW r \in Runs, ListTargets(r) PROVE TypeInv'
  <2>1. PICK n \in 0..MaxTargets : todo' = [todo EXCEPT ![r] = n] /\ jobTotal' = n
    BY <1>5 DEF ListTargets
  <2>2. n \in Nat
    BY BoundsAssumption
  <2> QED
    BY <1>5, <2>1, <2>2 DEF ListTargets, TypeOK, Counted, bulk, PC
<1>6. ASSUME NEW r \in Runs, Launch(r) PROVE TypeInv'
  <2>1. TypeOK'
    BY <1>6 DEF Launch, TypeOK, job, bulk
  <2>2. ASSUME NEW s \in Runs PROVE IsFiniteSet(bumps'[s]) /\ Cardinality(bumps'[s]) <= busy'[s]
    <3>1. bumps' = bumps /\ busy \in [Runs -> Nat] /\ busy' = [busy EXCEPT ![r] = @ + 1]
      BY <1>6 DEF Launch, TypeOK
    <3>2. Cardinality(bumps[s]) \in Nat
      BY FS_CardinalityType DEF Counted
    <3> QED
      BY <3>1, <3>2 DEF Counted
  <2> QED
    BY <2>1, <2>2 DEF Counted
<1>7. ASSUME NEW r \in Runs, FileDone(r) PROVE TypeInv'
  <2>1. /\ finished' = [finished EXCEPT ![r] = @ + 1]
        /\ bumps' = [bumps EXCEPT ![r] = @ \cup {finished[r] + 1}]
        /\ busy' = busy /\ Cardinality(bumps[r]) < busy[r]
        /\ UNCHANGED <<job, runSeq, history, bulk, pc, runId, todo>>
    BY <1>7 DEF FileDone
  <2>2. TypeOK'
    BY <2>1 DEF TypeOK, job, bulk
  <2>3. ASSUME NEW s \in Runs PROVE IsFiniteSet(bumps'[s]) /\ Cardinality(bumps'[s]) <= busy'[s]
    <3>1. CASE s = r
      <4>1. bumps'[s] = bumps[r] \cup {finished[r] + 1}
        BY <2>1, <3>1 DEF TypeOK
      <4>2. IsFiniteSet(bumps[r]) /\ Cardinality(bumps[r]) \in Nat /\ busy[r] \in Nat
        BY FS_CardinalityType DEF Counted, TypeOK
      <4>3. /\ IsFiniteSet(bumps'[s])
            /\ Cardinality(bumps'[s]) = Cardinality(bumps[r]) \/
               Cardinality(bumps'[s]) = Cardinality(bumps[r]) + 1
        BY <4>1, <4>2, FS_AddElement
      <4> QED
        BY <2>1, <3>1, <4>2, <4>3
    <3>2. CASE s # r
      BY <2>1, <3>2 DEF TypeOK, Counted
    <3> QED
      BY <3>1, <3>2
  <2> QED
    BY <2>2, <2>3 DEF Counted
<1>8. ASSUME NEW r \in Runs, bumpJobProgress(r) PROVE TypeInv'
  <2>1. PICK n \in bumps[r] : jobDone' = n /\ bumps' = [bumps EXCEPT ![r] = @ \ {n}]
    BY <1>8 DEF bumpJobProgress
  <2>2. /\ busy' = [busy EXCEPT ![r] = @ - 1]
        /\ UNCHANGED <<jobRunning, jobID, jobTotal, jobStale, jobResult, runSeq, history,
                       bulk, pc, runId, todo, finished>>
    BY <1>8 DEF bumpJobProgress
  <2>3. IsFiniteSet(bumps[r]) /\ Cardinality(bumps[r]) <= busy[r] /\ busy[r] \in Nat
    BY DEF Counted, TypeOK
  <2>4. /\ IsFiniteSet(bumps[r] \ {n})
        /\ Cardinality(bumps[r] \ {n}) = Cardinality(bumps[r]) - 1
        /\ Cardinality(bumps[r] \ {n}) \in Nat /\ Cardinality(bumps[r]) \in Nat
    BY <2>3, FS_RemoveElement, FS_CardinalityType
  <2>5. busy[r] - 1 \in Nat /\ Cardinality(bumps[r] \ {n}) <= busy[r] - 1
    BY <2>3, <2>4
  <2>6. n \in Nat
    BY <2>1 DEF TypeOK
  <2>7. TypeOK'
    BY <2>1, <2>2, <2>5, <2>6 DEF TypeOK, bulk
  <2>8. Counted'
    BY <2>1, <2>2, <2>4, <2>5 DEF TypeOK, Counted
  <2> QED
    BY <2>7, <2>8
<1>9. ASSUME NEW r \in Runs, recordRun(r) PROVE TypeInv'
  <2>1. history' \in Seq(Nat)
    BY <1>9, HistoryTakes DEF recordRun, Recorded, TypeOK
  <2> QED
    BY <1>9, <2>1 DEF recordRun, TypeOK, Counted, job, bulk, work, PC
<1>10. CASE StartBulk \/ BulkItem \/ BulkEnd
  <2>1. UNCHANGED <<job, runSeq, history, pc, runId, work>>
    BY <1>10 DEF StartBulk, BulkItem, BulkEnd
  <2>2. bulkRunning' \in BOOLEAN /\ bulkDone' \in Nat
    <3>1. bulkRunning' = TRUE \/ bulkRunning' = FALSE \/ bulkRunning' = bulkRunning
      BY <1>10 DEF StartBulk, BulkItem, BulkEnd
    <3>2. bulkDone' = 0 \/ bulkDone' = bulkDone + 1 \/ bulkDone' = bulkDone
      BY <1>10 DEF StartBulk, BulkItem, BulkEnd
    <3>3. bulkRunning' \in BOOLEAN
      BY <3>1 DEF TypeOK
    <3>4. bulkDone' \in Nat
      BY <3>2 DEF TypeOK
    <3> QED
      BY <3>3, <3>4
  <2> QED
    BY <2>1, <2>2 DEF TypeOK, Counted, job, work
<1>11. CASE UNCHANGED vars
  BY <1>11 DEF vars, TypeOK, Counted, job, bulk, work
<1> QED
  BY <1>1, <1>2, <1>3, <1>4, <1>5, <1>6, <1>7, <1>8, <1>9, <1>10, <1>11 DEF Next, RunStep

(***************************************************************************)
(* Type correctness, and with it: no counter of the worker pool ever goes  *)
(* below zero.                                                             *)
(***************************************************************************)
THEOREM FlightType == Spec => []TypeOK
<1>1. Spec => []TypeInv
  BY InitType, NextType, PTL DEF Spec
<1>2. TypeInv => TypeOK
  BY DEF TypeInv
<1> QED
  BY <1>1, <1>2, PTL
-----------------------------------------------------------------------------
(* The lock and its owner.                                                 *)

LEMMA InitOwner == Init => LockHasOwner
BY DEF Init, LockHasOwner

LEMMA OwnerStays ==
  ASSUME LockHasOwner, UNCHANGED <<jobRunning, jobID, runId>>,
         \A s \in Runs : Flying(s) => Flying(s)'
  PROVE  LockHasOwner'
BY DEF LockHasOwner

(***************************************************************************)
(* Only finishing ends a flight, and finishing frees the lock: so whoever  *)
(* took the lock last is in flight for as long as the lock is held.        *)
(***************************************************************************)
LEMMA NextOwner == TypeInv /\ LockHasOwner /\ [Next]_vars => LockHasOwner'
<1> SUFFICES ASSUME TypeOK, LockHasOwner, [Next]_vars PROVE LockHasOwner'
  BY DEF TypeInv
<1>begin. ASSUME NEW r \in Runs, NEW refusal, ~Flying(r), beginProbe(r, refusal)
          PROVE  LockHasOwner'
  <2>1. CASE Acquire(r)
    <3>1. Flying(r)' /\ runId'[r] = jobID'
      BY <2>1 DEF Acquire, Flying, TypeOK
    <3> QED
      BY <3>1 DEF LockHasOwner
  <2>2. CASE ~Acquire(r)
    <3>1. /\ UNCHANGED <<jobRunning, jobID, runId>>
          /\ pc' = [pc EXCEPT ![r] = refusal]
      BY <1>begin, <2>2 DEF beginProbe, job
    <3>2. \A s \in Runs : Flying(s) => Flying(s)'
      BY <1>begin, <3>1 DEF Flying, TypeOK
    <3> QED
      BY <3>1, <3>2, OwnerStays
  <2> QED
    BY <2>1, <2>2
<1>1. ASSUME NEW r \in Runs, Start(r) \/ StartAgain(r) PROVE LockHasOwner'
  BY <1>1, <1>begin DEF Start, StartAgain, Flying
<1>2. ASSUME NEW r \in Runs, ForceResetJob(r) \/ finishProbe(r) PROVE LockHasOwner'
  BY <1>2 DEF ForceResetJob, finishProbe, LockHasOwner
<1>3. ASSUME NEW r \in Runs, ListFails(r) \/ ListTargets(r) \/ recordRun(r) PROVE LockHasOwner'
  <2>1. /\ UNCHANGED <<jobRunning, jobID, runId>>
        /\ pc[r] \in {"list", "work"}
        /\ \E next \in {"work", "finish"} : pc' = [pc EXCEPT ![r] = next]
    BY <1>3 DEF ListFails, ListTargets, recordRun, job
  <2>2. \A s \in Runs : Flying(s) => Flying(s)'
    BY <2>1 DEF Flying, TypeOK
  <2> QED
    BY <2>1, <2>2, OwnerStays
<1>4. ASSUME NEW r \in Runs, Launch(r) \/ FileDone(r) \/ bumpJobProgress(r) PROVE LockHasOwner'
  <2>1. UNCHANGED <<jobRunning, jobID, runId, pc>>
    BY <1>4 DEF Launch, FileDone, bumpJobProgress, job
  <2> QED
    BY <2>1, OwnerStays DEF Flying
<1>5. CASE GrowStale \/ StartBulk \/ BulkItem \/ BulkEnd \/ UNCHANGED vars
  <2>1. UNCHANGED <<jobRunning, jobID, runId, pc>>
    BY <1>5 DEF GrowStale, StartBulk, BulkItem, BulkEnd, vars, job
  <2> QED
    BY <2>1, OwnerStays DEF Flying
<1> QED
  BY <1>1, <1>2, <1>3, <1>4, <1>5 DEF Next, RunStep

(***************************************************************************)
(* The lock is never leaked, however calls overlap, force or grow stale.   *)
(***************************************************************************)
THEOREM LockIsOwned == Spec => []LockHasOwner
<1>1. Spec => [](TypeInv /\ LockHasOwner)
  BY InitType, NextType, InitOwner, NextOwner, PTL DEF Spec
<1> QED
  BY <1>1, PTL
-----------------------------------------------------------------------------
(* One probe at a time.                                                    *)

(***************************************************************************)
(* The cooperative case: nobody forces a start, and every run ends within  *)
(* the 45 minutes of its lock.                                             *)
(***************************************************************************)
Cooperative == ForcedRuns = {} /\ MayStale = FALSE

(* The run in flight holds the lock and knows the job.                     *)
Single ==
  /\ jobStale = FALSE
  /\ \A r \in Runs : pc[r] \notin {"reset", "again"}
  /\ \A r \in Runs : Flying(r) => jobRunning /\ runId[r] = jobID
  /\ OnlyOneFullProbe

LEMMA InitSingle == Init => Single
BY DEF Init, Single, Flying, OnlyOneFullProbe

LEMMA SingleStays ==
  ASSUME Single, UNCHANGED <<jobRunning, jobStale, jobID, runId>>,
         \A s \in Runs : pc'[s] \notin {"reset", "again"},
         \A s \in Runs : Flying(s)' => Flying(s)
  PROVE  Single'
BY DEF Single, OnlyOneFullProbe

LEMMA NextSingle ==
  ASSUME Cooperative
  PROVE  TypeInv /\ Single /\ [Next]_vars => Single'
<1> SUFFICES ASSUME TypeOK, Single, [Next]_vars PROVE Single'
  BY DEF TypeInv
<1>1. ASSUME NEW r \in Runs, Start(r) PROVE Single'
  <2>1. beginProbe(r, "refused") /\ pc[r] = "idle"
    BY <1>1 DEF Start, Cooperative
  <2>2. CASE ~Locked /\ Acquire(r)
    <3>1. jobRunning = FALSE
      BY <2>2 DEF Locked, Single, TypeOK
    <3>2. \A s \in Runs : ~Flying(s)
      BY <3>1 DEF Single
    <3>3. \A s \in Runs : pc'[s] = IF s = r THEN "list" ELSE pc[s]
      BY <2>2 DEF Acquire, TypeOK
    <3>4. \A s \in Runs : Flying(s)' => s = r
      BY <3>2, <3>3 DEF Flying
    <3>5. jobStale' = FALSE /\ jobRunning' = TRUE /\ runId'[r] = jobID'
      BY <2>2 DEF Acquire, TypeOK
    <3>6. \A s \in Runs : pc'[s] \notin {"reset", "again"}
      BY <3>3 DEF Single
    <3>7. \A s \in Runs : Flying(s)' => jobRunning' /\ runId'[s] = jobID'
      BY <3>4, <3>5
    <3>8. OnlyOneFullProbe'
      BY <3>4 DEF OnlyOneFullProbe
    <3>9. jobStale' = FALSE
      BY <3>5
    <3> QED
      BY <3>6, <3>7, <3>8, <3>9 DEF Single
  <2>3. CASE ~(~Locked /\ Acquire(r))
    <3>1. /\ UNCHANGED <<jobRunning, jobStale, jobID, runId>>
          /\ pc' = [pc EXCEPT ![r] = "refused"]
      BY <2>1, <2>3 DEF beginProbe, job
    <3>2. \A s \in Runs : pc'[s] = IF s = r THEN "refused" ELSE pc[s]
      BY <3>1 DEF TypeOK
    <3>3. \A s \in Runs : pc'[s] \notin {"reset", "again"} /\ (Flying(s)' => Flying(s))
      BY <3>2 DEF Single, Flying
    <3> QED
      BY <3>1, <3>3, SingleStays
  <2> QED
    BY <2>2, <2>3
<1>2. ASSUME NEW r \in Runs, ForceResetJob(r) \/ StartAgain(r) PROVE Single'
  BY <1>2 DEF ForceResetJob, StartAgain, Single
<1>3. ASSUME NEW r \in Runs, finishProbe(r) PROVE Single'
  <2>1. Flying(r)
    BY <1>3 DEF finishProbe, Flying
  <2>2. \A s \in Runs : pc'[s] = IF s = r THEN "done" ELSE pc[s]
    BY <1>3 DEF finishProbe, TypeOK
  <2>3. \A s \in Runs : ~Flying(s)'
    BY <2>1, <2>2 DEF Single, OnlyOneFullProbe, Flying
  <2> QED
    BY <1>3, <2>2, <2>3 DEF finishProbe, Single, OnlyOneFullProbe
<1>4. ASSUME NEW r \in Runs, ListFails(r) \/ ListTargets(r) \/ recordRun(r) PROVE Single'
  <2>1. /\ UNCHANGED <<jobRunning, jobStale, jobID, runId>>
        /\ pc[r] \in {"list", "work"}
        /\ \E next \in {"work", "finish"} : pc' = [pc EXCEPT ![r] = next]
    BY <1>4 DEF ListFails, ListTargets, recordRun, job
  <2>2. \A s \in Runs : pc'[s] \notin {"reset", "again"} /\ (Flying(s)' => Flying(s))
    BY <2>1 DEF Flying, TypeOK, Single
  <2> QED
    BY <2>1, <2>2, SingleStays
<1>5. CASE GrowStale
  BY <1>5 DEF GrowStale, Cooperative
<1>6. ASSUME NEW r \in Runs, Launch(r) \/ FileDone(r) \/ bumpJobProgress(r) PROVE Single'
  <2>1. UNCHANGED <<jobRunning, jobStale, jobID, runId, pc>>
    BY <1>6 DEF Launch, FileDone, bumpJobProgress, job
  <2> QED
    BY <2>1, SingleStays DEF Flying, Single
<1>7. CASE StartBulk \/ BulkItem \/ BulkEnd \/ UNCHANGED vars
  <2>1. UNCHANGED <<jobRunning, jobStale, jobID, runId, pc>>
    BY <1>7 DEF StartBulk, BulkItem, BulkEnd, vars, job
  <2> QED
    BY <2>1, SingleStays DEF Flying, Single
<1> QED
  BY <1>1, <1>2, <1>3, <1>4, <1>5, <1>6, <1>7 DEF Next, RunStep

(***************************************************************************)
(* beginProbe's promise, under the assumption it needs.                    *)
(***************************************************************************)
THEOREM OneFullProbe ==
  ASSUME Cooperative
  PROVE  Spec => []OnlyOneFullProbe
<1>1. Spec => [](TypeInv /\ Single)
  BY InitType, NextType, InitSingle, NextSingle, PTL DEF Spec
<1>2. Single => OnlyOneFullProbe
  BY DEF Single
<1> QED
  BY <1>1, <1>2, PTL

(***************************************************************************)
(* A bulk action starts only when no probe is in flight.                   *)
(***************************************************************************)
THEOREM BulkStartsAlone ==
  ASSUME Cooperative
  PROVE  Spec => BulkWaitsForProbe
<1>1. Spec => [](TypeInv /\ Single)
  BY InitType, NextType, InitSingle, NextSingle, PTL DEF Spec
<1>2. TypeInv /\ Single /\ [Next]_vars =>
        [~bulkRunning /\ bulkRunning' => \A r \in Runs : ~Flying(r)]_vars
  <2> SUFFICES ASSUME TypeOK, Single, Next, ~bulkRunning, bulkRunning'
               PROVE  \A r \in Runs : ~Flying(r)
    BY DEF TypeInv
  <2>1. CASE StartBulk
    BY <2>1 DEF StartBulk, Single
  <2>2. CASE ~StartBulk
    <3>1. bulkRunning' = bulkRunning \/ bulkRunning' = FALSE
      BY <2>2 DEF Next, RunStep, Start, StartAgain, beginProbe, ForceResetJob, finishProbe,
                  ListFails, ListTargets, Launch, FileDone, bumpJobProgress, recordRun,
                  GrowStale, BulkItem, BulkEnd, bulk
    <3> QED
      BY <3>1
  <2> QED
    BY <2>1, <2>2
<1> QED
  BY <1>1, <1>2, PTL DEF Spec, BulkWaitsForProbe
-----------------------------------------------------------------------------
(* Ids.                                                                    *)

(* Every id that was given out is one runSeq has already passed.           *)
IdsGiven ==
  /\ \A r \in Runs : runId[r] <= runSeq
  /\ \A i \in DOMAIN history : history[i] \in 1..runSeq

LEMMA InitIds == Init => IdsGiven /\ IdsDistinct
BY DEF Init, IdsGiven, IdsDistinct

LEMMA NextIds == TypeInv /\ IdsGiven /\ IdsDistinct /\ [Next]_vars => (IdsGiven /\ IdsDistinct)'
<1> SUFFICES ASSUME TypeOK, IdsGiven, IdsDistinct, [Next]_vars
             PROVE  (IdsGiven /\ IdsDistinct)'
  BY DEF TypeInv
<1>type. /\ runSeq \in Nat /\ history \in Seq(Nat)
         /\ runId \in [Runs -> Nat]
  BY DEF TypeOK
<1>same. ASSUME UNCHANGED <<runSeq, runId, history>> PROVE (IdsGiven /\ IdsDistinct)'
  BY <1>same DEF IdsGiven, IdsDistinct
<1>1. ASSUME NEW r \in Runs, Acquire(r), history' = history PROVE (IdsGiven /\ IdsDistinct)'
  <2>1. runSeq' = runSeq + 1
    BY <1>1 DEF Acquire
  <2>2. \A s \in Runs : runId'[s] = IF s = r THEN runSeq + 1 ELSE runId[s]
    BY <1>1, <1>type DEF Acquire
  <2>3. IdsGiven'
    BY <1>1, <1>type, <2>1, <2>2 DEF IdsGiven
  <2>4. IdsDistinct'
    BY <1>1, <1>type, <2>2 DEF IdsGiven, IdsDistinct
  <2> QED
    BY <2>3, <2>4
<1>2. ASSUME NEW r \in Runs, Start(r) \/ StartAgain(r) PROVE (IdsGiven /\ IdsDistinct)'
  <2>1. history' = history
    BY <1>2 DEF Start, StartAgain, beginProbe
  <2>2. CASE Acquire(r)
    BY <1>1, <2>1, <2>2
  <2>3. CASE ~Acquire(r)
    <3>1. UNCHANGED <<runSeq, runId>>
      BY <1>2, <2>3 DEF Start, StartAgain, beginProbe
    <3> QED
      BY <1>same, <2>1, <3>1
  <2> QED
    BY <2>2, <2>3
<1>3. ASSUME NEW r \in Runs, recordRun(r) PROVE (IdsGiven /\ IdsDistinct)'
  <2>1. runSeq' = runSeq + 1 /\ runId' = runId /\ history' = Recorded(history, runSeq + 1)
    BY <1>3 DEF recordRun, Recorded
  <2>2. \A i \in DOMAIN history' :
          \/ i = 1 /\ history'[i] = runSeq + 1
          \/ i \in Nat /\ i # 1 /\ i - 1 \in DOMAIN history /\ history'[i] = history[i - 1]
    <3>1. runSeq + 1 \in Nat
      BY <1>type
    <3> QED
      BY <1>type, <2>1, <3>1, HistoryTakes
  <2>3. \A i \in DOMAIN history : history[i] \in 1..runSeq /\ i \in Nat
    BY <1>type DEF IdsGiven
  <2>4. IdsGiven'
    BY <1>type, <2>1, <2>2, <2>3 DEF IdsGiven
  <2>5. ASSUME NEW i \in DOMAIN history', NEW j \in DOMAIN history', history'[i] = history'[j]
        PROVE  i = j
    <3>0. \A k \in DOMAIN history' : history'[k] = runSeq + 1 <=> k = 1
      BY <1>type, <2>2, <2>3
    <3>1. CASE i = 1
      BY <2>5, <3>0, <3>1
    <3>2. CASE i # 1
      <4>1. i \in Nat /\ i - 1 \in DOMAIN history /\ history'[i] = history[i - 1]
        BY <2>2, <3>2
      <4>2. j # 1
        BY <2>5, <3>0, <3>2
      <4>3. j \in Nat /\ j - 1 \in DOMAIN history /\ history'[j] = history[j - 1]
        BY <2>2, <4>2
      <4>4. i - 1 = j - 1
        BY <2>5, <4>1, <4>3 DEF IdsDistinct
      <4> QED
        BY <4>1, <4>3, <4>4
    <3> QED
      BY <3>1, <3>2
  <2>6. \A s \in Runs, i \in DOMAIN history' : history'[i] # runId'[s]
    BY <1>type, <2>1, <2>2, <2>3 DEF IdsGiven, IdsDistinct
  <2>7. IdsDistinct'
    BY <2>1, <2>5, <2>6 DEF IdsDistinct
  <2> QED
    BY <2>4, <2>7
<1>4. ASSUME NEW r \in Runs,
             \/ ForceResetJob(r) \/ finishProbe(r) \/ ListFails(r) \/ ListTargets(r)
             \/ Launch(r) \/ FileDone(r) \/ bumpJobProgress(r)
      PROVE  (IdsGiven /\ IdsDistinct)'
  <2>1. UNCHANGED <<runSeq, runId, history>>
    BY <1>4 DEF ForceResetJob, finishProbe, ListFails, ListTargets, Launch, FileDone,
                bumpJobProgress
  <2> QED
    BY <1>same, <2>1
<1>5. CASE GrowStale \/ StartBulk \/ BulkItem \/ BulkEnd \/ UNCHANGED vars
  <2>1. UNCHANGED <<runSeq, runId, history>>
    BY <1>5 DEF GrowStale, StartBulk, BulkItem, BulkEnd, vars
  <2> QED
    BY <1>same, <2>1
<1> QED
  BY <1>2, <1>3, <1>4, <1>5 DEF Next, RunStep

(***************************************************************************)
(* One counter serves two purposes without a clash: ids stay distinct for  *)
(* any number of runs, through forced and stale overlaps and the cut of    *)
(* the history at its limit.                                               *)
(***************************************************************************)
THEOREM IdsStayDistinct == Spec => []IdsDistinct
<1>1. Spec => [](TypeInv /\ IdsGiven /\ IdsDistinct)
  BY InitType, NextType, InitIds, NextIds, PTL DEF Spec
<1> QED
  BY <1>1, PTL
-----------------------------------------------------------------------------
(* The job the console polls.                                              *)

(***************************************************************************)
(* Of a run at work: the files finished, those a worker has in hand and    *)
(* those not handed out yet add up to the job's total, and a report that   *)
(* is outstanding is no higher than the count of finished files.           *)
(***************************************************************************)
InHand(r) == finished[r] + busy[r] + todo[r] = jobTotal + Cardinality(bumps[r])

Progress ==
  /\ \A r \in Runs : pc[r] = "work" => InHand(r)
  /\ \A r \in Runs : \A n \in bumps[r] : n <= finished[r]
  /\ \A r \in Runs : pc[r] # "work" => bumps[r] = {} /\ busy[r] = 0
  /\ \A r \in Runs : pc[r] \in {"idle", "list"} => finished[r] = 0

JobInv == Progress /\ JobIsOneRuns

LEMMA InitJob == Init => JobInv
<1> SUFFICES ASSUME Init PROVE JobInv
  OBVIOUS
<1> QED
  BY DEF Init, JobInv, Progress, JobIsOneRuns

LEMMA JobStays ==
  ASSUME JobInv, UNCHANGED <<jobDone, jobTotal, jobResult, jobID, runId, work>>,
         \A s \in Runs : pc'[s] = "work" <=> pc[s] = "work",
         \A s \in Runs : pc'[s] \in {"idle", "list"} => pc[s] \in {"idle", "list"}
  PROVE  JobInv'
BY DEF JobInv, Progress, JobIsOneRuns, InHand, work

LEMMA NextJob ==
  ASSUME Cooperative
  PROVE  TypeInv /\ Single /\ JobInv /\ [Next]_vars => JobInv'
<1> SUFFICES ASSUME TypeOK, Counted, Single, JobInv, [Next]_vars PROVE JobInv'
  BY DEF TypeInv
<1>type. /\ jobTotal \in Nat /\ jobDone \in Nat
         /\ \A s \in Runs : /\ todo[s] \in Nat /\ busy[s] \in Nat /\ finished[s] \in Nat
                            /\ bumps[s] \in SUBSET Nat
                            /\ IsFiniteSet(bumps[s]) /\ Cardinality(bumps[s]) \in Nat
                            /\ Cardinality(bumps[s]) <= busy[s]
  BY FS_CardinalityType DEF TypeOK, Counted
<1>1. ASSUME NEW r \in Runs, Start(r) PROVE JobInv'
  <2>1. beginProbe(r, "refused") /\ pc[r] = "idle" /\ work' = work
    BY <1>1 DEF Start, beginProbe, Cooperative
  <2>2. CASE ~Locked /\ Acquire(r)
    <3>1. \A s \in Runs : ~Flying(s)
      BY <2>2 DEF Locked, Single
    <3>2. \A s \in Runs : pc'[s] = IF s = r THEN "list" ELSE pc[s]
      BY <2>2 DEF Acquire, TypeOK
    <3>3. \A s \in Runs : pc[s] # "work" /\ pc'[s] # "work"
      BY <3>1, <3>2 DEF Flying
    <3>4. Progress'
      BY <2>1, <3>2, <3>3 DEF JobInv, Progress, work
    <3>5. JobIsOneRuns'
      BY <2>2 DEF Acquire, JobIsOneRuns
    <3> QED
      BY <3>4, <3>5 DEF JobInv
  <2>3. CASE ~(~Locked /\ Acquire(r))
    <3>1. job' = job /\ runId' = runId /\ pc' = [pc EXCEPT ![r] = "refused"]
      BY <2>1, <2>3 DEF beginProbe
    <3>2. \A s \in Runs : pc'[s] = IF s = r THEN "refused" ELSE pc[s]
      BY <3>1 DEF TypeOK
    <3> QED
      BY <2>1, <3>1, <3>2, JobStays DEF job
  <2> QED
    BY <2>2, <2>3
<1>2. ASSUME NEW r \in Runs, ForceResetJob(r) \/ StartAgain(r) PROVE JobInv'
  BY <1>2 DEF ForceResetJob, StartAgain, Single
<1>3. ASSUME NEW r \in Runs, finishProbe(r) PROVE JobInv'
  <2>1. /\ pc[r] = "finish" /\ jobResult' = r
        /\ \A s \in Runs : pc'[s] = IF s = r THEN "done" ELSE pc[s]
        /\ UNCHANGED <<jobID, jobDone, jobTotal, runId, work>>
    BY <1>3 DEF finishProbe, TypeOK
  <2>2. runId[r] = jobID
    BY <2>1 DEF Single, Flying
  <2>3. JobIsOneRuns'
    BY <2>1, <2>2 DEF JobInv, JobIsOneRuns
  <2>4. Progress'
    BY <2>1 DEF JobInv, Progress, InHand, work
  <2> QED
    BY <2>3, <2>4 DEF JobInv
<1>4. ASSUME NEW r \in Runs, ListFails(r) PROVE JobInv'
  <2>1. /\ pc[r] = "list" /\ UNCHANGED <<job, runId, work>>
        /\ \A s \in Runs : pc'[s] = IF s = r THEN "finish" ELSE pc[s]
    BY <1>4 DEF ListFails, TypeOK
  <2> QED
    BY <2>1, JobStays DEF job
<1>5. ASSUME NEW r \in Runs, ListTargets(r) PROVE JobInv'
  <2>1. PICK n \in 0..MaxTargets : todo' = [todo EXCEPT ![r] = n] /\ jobTotal' = n
    BY <1>5 DEF ListTargets
  <2>2. /\ pc[r] = "list" /\ jobDone' = 0 /\ n \in Nat
        /\ \A s \in Runs : pc'[s] = IF s = r THEN "work" ELSE pc[s]
        /\ UNCHANGED <<jobResult, jobID, runId, busy, finished, bumps>>
        /\ todo'[r] = n
    BY <1>5, <2>1, BoundsAssumption DEF ListTargets, TypeOK
  <2>3. \A s \in Runs : pc'[s] = "work" => s = r
    BY <2>2 DEF Single, OnlyOneFullProbe, Flying
  <2>4. InHand(r)'
    <3>1. finished[r] = 0 /\ busy[r] = 0 /\ bumps[r] = {}
      BY <2>2 DEF JobInv, Progress
    <3>2. Cardinality(bumps[r]) = 0
      BY <3>1, FS_EmptySet
    <3> QED
      BY <2>1, <2>2, <3>1, <3>2 DEF InHand
  <2>5. Progress'
    BY <2>2, <2>3, <2>4 DEF JobInv, Progress
  <2>6. JobIsOneRuns'
    BY <2>1, <2>2 DEF JobInv, JobIsOneRuns
  <2> QED
    BY <2>5, <2>6 DEF JobInv
<1>6. ASSUME NEW r \in Runs, Launch(r) PROVE JobInv'
  <2>1. /\ pc[r] = "work" /\ todo[r] > 0
        /\ \A s \in Runs : /\ todo'[s] = IF s = r THEN todo[r] - 1 ELSE todo[s]
                           /\ busy'[s] = IF s = r THEN busy[r] + 1 ELSE busy[s]
        /\ UNCHANGED <<job, pc, runId, finished, bumps>>
    BY <1>6 DEF Launch, TypeOK
  <2>2. \A s \in Runs : pc[s] = "work" => InHand(s)'
    BY <1>type, <2>1 DEF JobInv, Progress, InHand, job
  <2>3. Progress'
    BY <2>1, <2>2 DEF JobInv, Progress
  <2> QED
    BY <2>1, <2>3 DEF JobInv, JobIsOneRuns, job
<1>7. ASSUME NEW r \in Runs, FileDone(r) PROVE JobInv'
  <2>1. /\ Cardinality(bumps[r]) < busy[r]
        /\ \A s \in Runs : /\ finished'[s] = IF s = r THEN finished[r] + 1 ELSE finished[s]
                           /\ bumps'[s] = IF s = r THEN bumps[r] \cup {finished[r] + 1} ELSE bumps[s]
        /\ UNCHANGED <<job, pc, runId, todo, busy>>
    BY <1>7 DEF FileDone, TypeOK
  <2>2. pc[r] = "work"
    BY <1>type, <2>1 DEF JobInv, Progress
  <2>3. finished[r] + 1 \notin bumps[r]
    BY <1>type DEF JobInv, Progress
  <2>4. Cardinality(bumps'[r]) = Cardinality(bumps[r]) + 1
    BY <1>type, <2>1, <2>3, FS_AddElement
  <2>5. \A s \in Runs : pc[s] = "work" => InHand(s)'
    BY <1>type, <2>1, <2>4 DEF JobInv, Progress, InHand, job
  <2>6. \A s \in Runs : \A n \in bumps'[s] : n <= finished'[s]
    BY <1>type, <2>1 DEF JobInv, Progress
  <2>7. Progress'
    BY <2>1, <2>2, <2>5, <2>6 DEF JobInv, Progress
  <2> QED
    BY <2>1, <2>7 DEF JobInv, JobIsOneRuns, job
<1>8. ASSUME NEW r \in Runs, bumpJobProgress(r) PROVE JobInv'
  <2>1. PICK n \in bumps[r] : jobDone' = n /\ bumps' = [bumps EXCEPT ![r] = @ \ {n}]
    BY <1>8 DEF bumpJobProgress
  <2>2. /\ \A s \in Runs : /\ bumps'[s] = IF s = r THEN bumps[r] \ {n} ELSE bumps[s]
                           /\ busy'[s] = IF s = r THEN busy[r] - 1 ELSE busy[s]
        /\ UNCHANGED <<jobID, jobTotal, jobResult, pc, runId, todo, finished>>
    BY <1>8, <2>1 DEF bumpJobProgress, TypeOK
  <2>3. pc[r] = "work"
    BY <2>1 DEF JobInv, Progress
  <2>4. Cardinality(bumps'[r]) = Cardinality(bumps[r]) - 1
    <3>1. bumps'[r] = bumps[r] \ {n} /\ n \in bumps[r] /\ IsFiniteSet(bumps[r])
      BY <1>type, <2>1, <2>2
    <3> QED
      BY <3>1, FS_RemoveElement
  <2>5. n <= jobTotal
    BY <1>type, <2>1, <2>3 DEF JobInv, Progress, InHand
  <2>6. \A s \in Runs : pc[s] = "work" => InHand(s)'
    BY <1>type, <2>2, <2>4 DEF JobInv, Progress, InHand
  <2>7. Progress'
    BY <2>2, <2>3, <2>6 DEF JobInv, Progress
  <2> QED
    BY <2>1, <2>2, <2>5, <2>7 DEF JobInv, JobIsOneRuns
<1>9. ASSUME NEW r \in Runs, recordRun(r) PROVE JobInv'
  <2>1. /\ pc[r] = "work" /\ busy[r] = 0 /\ UNCHANGED <<job, runId, work>>
        /\ \A s \in Runs : pc'[s] = IF s = r THEN "finish" ELSE pc[s]
    BY <1>9 DEF recordRun, TypeOK
  <2>2. bumps[r] = {}
    BY <1>type, <2>1, FS_EmptySet
  <2>3. Progress'
    BY <2>1, <2>2 DEF JobInv, Progress, InHand, work, job
  <2> QED
    BY <2>1, <2>3 DEF JobInv, JobIsOneRuns, job
<1>10. CASE GrowStale
  BY <1>10 DEF GrowStale, Cooperative
<1>11. CASE StartBulk \/ BulkItem \/ BulkEnd \/ UNCHANGED vars
  <2>1. UNCHANGED <<job, runId, pc, work>>
    BY <1>11 DEF StartBulk, BulkItem, BulkEnd, vars
  <2> QED
    BY <2>1, JobStays DEF job
<1> QED
  BY <1>1, <1>2, <1>3, <1>4, <1>5, <1>6, <1>7, <1>8, <1>9, <1>10, <1>11 DEF Next, RunStep

(***************************************************************************)
(* What the console shows is one run's: the result is the job's own, and   *)
(* the progress never passes the total.                                    *)
(***************************************************************************)
THEOREM JobShowsOneRun ==
  ASSUME Cooperative
  PROVE  Spec => []JobIsOneRuns
<1>1. Spec => [](TypeInv /\ Single /\ JobInv)
  BY InitType, NextType, InitSingle, NextSingle, InitJob, NextJob, PTL DEF Spec
<1>2. JobInv => JobIsOneRuns
  BY DEF JobInv
<1> QED
  BY <1>1, <1>2, PTL

==============================================================================
