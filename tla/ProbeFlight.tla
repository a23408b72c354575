----------------------------- MODULE ProbeFlight -----------------------------
(***************************************************************************)
(* The full-probe flight of internal/probe: the lock that beginProbe takes *)
(* and finishProbe gives back, the job whose progress and result the ops   *)
(* console polls, the worker goroutines of runOnceBody, and the bulk       *)
(* action that shares the busy check.  A run is one call of StartJob or    *)
(* RunOnceTrigger, on its own goroutine; a step is one critical section of *)
(* Service.mu, or the host call between two of them.                       *)
(***************************************************************************)
EXTENDS Naturals, Sequences, FiniteSets

CONSTANTS Runs,         \* the calls that may ask for a full probe
          ForcedRuns,   \* those of them that are StartJob(force = true)
          MaxTargets,   \* bound: the most files one run probes
          Concurrency,  \* EffectiveProbeConcurrency
          BulkItems,    \* bound: ids in the one bulk action modelled
          MayStale,     \* whether a run may outlast the 45 minutes of its lock
          NoRun

ASSUME RunsAssumption ==
  /\ ForcedRuns \subseteq Runs
  /\ NoRun \notin Runs
ASSUME BoundsAssumption ==
  /\ MaxTargets \in Nat
  /\ Concurrency \in Nat \ {0}
  /\ BulkItems \in Nat
  /\ MayStale \in BOOLEAN

VARIABLES jobRunning, jobID, jobDone, jobTotal,
          jobStale,    \* jobStarted lies more than 45 minutes back
          jobResult,   \* the run whose result jobResult holds, or NoRun
          runSeq,
          history,     \* ids recordRun gave, newest first
          bulkRunning, bulkDone,
          pc,          \* where each run is
          runId,       \* the job id beginProbe gave it
          todo,        \* files not yet handed to a worker
          busy,        \* workers between acquiring and releasing the semaphore
          finished,    \* runOnceBody's counter
          bumps        \* counts workers took and have not reported yet

job  == <<jobRunning, jobID, jobDone, jobTotal, jobStale, jobResult>>
bulk == <<bulkRunning, bulkDone>>
work == <<todo, busy, finished, bumps>>
vars == <<job, runSeq, history, bulk, pc, runId, work>>

PC == {"idle", "reset", "again", "list", "work", "finish", "done", "refused"}

TypeOK ==
  /\ jobRunning \in BOOLEAN /\ jobStale \in BOOLEAN /\ bulkRunning \in BOOLEAN
  /\ jobID \in Nat /\ jobDone \in Nat /\ jobTotal \in Nat /\ runSeq \in Nat
  /\ jobResult \in Runs \cup {NoRun}
  /\ history \in Seq(Nat)
  /\ bulkDone \in Nat
  /\ pc \in [Runs -> PC]
  /\ runId \in [Runs -> Nat]
  /\ todo \in [Runs -> Nat] /\ busy \in [Runs -> Nat] /\ finished \in [Runs -> Nat]
  /\ bumps \in [Runs -> SUBSET Nat]

Flying(r) == pc[r] \in {"list", "work", "finish"}

Init ==
  /\ jobRunning = FALSE /\ jobStale = FALSE /\ bulkRunning = FALSE
  /\ jobID = 0 /\ jobDone = 0 /\ jobTotal = 0 /\ runSeq = 0 /\ bulkDone = 0
  /\ jobResult = NoRun
  /\ history = << >>
  /\ pc = [r \in Runs |-> "idle"]
  /\ runId = [r \in Runs |-> 0]
  /\ todo = [r \in Runs |-> 0] /\ busy = [r \in Runs |-> 0]
  /\ finished = [r \in Runs |-> 0]
  /\ bumps = [r \in Runs |-> {}]

-----------------------------------------------------------------------------
(* The flight lock.                                                        *)

\* Slips a rewrite could make stand next to what they would replace; a run under
\* one must break a property.  Here: a fresh lock counts as stale.
LockedIfStale == jobRunning /\ jobStale

Locked == jobRunning /\ ~jobStale

Acquire(r) ==
  /\ jobRunning' = TRUE
  /\ jobStale' = FALSE
  /\ runSeq' = runSeq + 1
  /\ jobID' = runSeq + 1
  /\ jobDone' = 0 /\ jobTotal' = 0
  /\ jobResult' = NoRun
  /\ runId' = [runId EXCEPT ![r] = runSeq + 1]
  /\ pc' = [pc EXCEPT ![r] = "list"]

(* beginProbe: a lock older than 45 minutes counts as free.  A refused     *)
(* call returns, except that a forced StartJob resets the job and tries    *)
(* once more.                                                              *)
beginProbe(r, refusal) ==
  /\ \/ ~Locked /\ Acquire(r)
     \/ /\ Locked
        /\ pc' = [pc EXCEPT ![r] = refusal]
        /\ UNCHANGED <<job, runSeq, runId>>
  /\ UNCHANGED <<history, bulk, work>>

Start(r) ==
  /\ pc[r] = "idle"
  /\ beginProbe(r, IF r \in ForcedRuns THEN "reset" ELSE "refused")

ForceResetJob(r) ==
  /\ pc[r] = "reset"
  /\ jobRunning' = FALSE
  /\ jobStale' = FALSE
  /\ pc' = [pc EXCEPT ![r] = "again"]
  /\ UNCHANGED <<jobID, jobDone, jobTotal, jobResult, runSeq, history, bulk, runId, work>>

StartAgain(r) ==
  /\ pc[r] = "again"
  /\ beginProbe(r, "refused")

\* Slip: the result is stored and the lock kept.
finishProbeLocked(r) ==
  /\ pc[r] = "finish"
  /\ jobResult' = r
  /\ pc' = [pc EXCEPT ![r] = "done"]
  /\ UNCHANGED <<jobRunning, jobID, jobDone, jobTotal, jobStale, runSeq, history, bulk,
                 runId, work>>

(* finishProbe: no argument says whose job it is.                          *)
finishProbe(r) ==
  /\ pc[r] = "finish"
  /\ jobRunning' = FALSE
  /\ jobStale' = FALSE
  /\ jobResult' = r
  /\ pc' = [pc EXCEPT ![r] = "done"]
  /\ UNCHANGED <<jobID, jobDone, jobTotal, runSeq, history, bulk, runId, work>>

(* 45 minutes go by with a run in flight (MayStale).                       *)
GrowStale ==
  /\ MayStale /\ jobRunning /\ ~jobStale
  /\ jobStale' = TRUE
  /\ UNCHANGED <<jobRunning, jobID, jobDone, jobTotal, jobResult,
                 runSeq, history, bulk, pc, runId, work>>

-----------------------------------------------------------------------------
(* runOnceBody.                                                            *)

\* Slip: the early return forgets finishProbe.
ListFailsUnfinished(r) ==
  /\ pc[r] = "list"
  /\ pc' = [pc EXCEPT ![r] = "done"]
  /\ UNCHANGED <<job, runSeq, history, bulk, runId, work>>

(* AuthList fails, or the body panics before it has workers: no run is     *)
(* recorded and finishProbe reports the error.                             *)
ListFails(r) ==
  /\ pc[r] = "list"
  /\ pc' = [pc EXCEPT ![r] = "finish"]
  /\ UNCHANGED <<job, runSeq, history, bulk, runId, work>>

\* Slip: the progress keeps the total of the previous job.
ListTargetsUntotalled(r) ==
  /\ pc[r] = "list"
  /\ \E n \in 0..MaxTargets : todo' = [todo EXCEPT ![r] = n]
  /\ jobDone' = 0
  /\ pc' = [pc EXCEPT ![r] = "work"]
  /\ UNCHANGED <<jobRunning, jobID, jobTotal, jobStale, jobResult, runSeq, history, bulk,
                 runId, busy, finished, bumps>>

(* The targets are chosen and the progress is reset for them.              *)
ListTargets(r) ==
  /\ pc[r] = "list"
  /\ \E n \in 0..MaxTargets :
       /\ todo' = [todo EXCEPT ![r] = n]
       /\ jobTotal' = n
  /\ jobDone' = 0
  /\ pc' = [pc EXCEPT ![r] = "work"]
  /\ UNCHANGED <<jobRunning, jobID, jobStale, jobResult, runSeq, history, bulk, runId,
                 busy, finished, bumps>>

Launch(r) ==
  /\ pc[r] = "work" /\ todo[r] > 0 /\ busy[r] < Concurrency
  /\ todo' = [todo EXCEPT ![r] = @ - 1]
  /\ busy' = [busy EXCEPT ![r] = @ + 1]
  /\ UNCHANGED <<job, runSeq, history, bulk, pc, runId, finished, bumps>>

\* Slip: a worker counts its file twice, and is done twice.
FileDoneTwice(r) ==
  /\ busy[r] > 0 /\ Cardinality(bumps[r]) < 2 * busy[r]
  /\ finished' = [finished EXCEPT ![r] = @ + 1]
  /\ bumps' = [bumps EXCEPT ![r] = @ \cup {finished[r] + 1}]
  /\ UNCHANGED <<job, runSeq, history, bulk, pc, runId, todo, busy>>

(* A worker is done with its file and takes the next count, then reports   *)
(* it in a critical section of its own and releases the semaphore.         *)
FileDone(r) ==
  /\ Cardinality(bumps[r]) < busy[r]
  /\ finished' = [finished EXCEPT ![r] = @ + 1]
  /\ bumps' = [bumps EXCEPT ![r] = @ \cup {finished[r] + 1}]
  /\ UNCHANGED <<job, runSeq, history, bulk, pc, runId, todo, busy>>

bumpJobProgress(r) ==
  /\ \E n \in bumps[r] :
       /\ jobDone' = n
       /\ bumps' = [bumps EXCEPT ![r] = @ \ {n}]
  /\ busy' = [busy EXCEPT ![r] = @ - 1]
  /\ UNCHANGED <<jobRunning, jobID, jobTotal, jobStale, jobResult, runSeq, history, bulk,
                 pc, runId, todo, finished>>

(* recordRun, after wg.Wait: the history takes an id of its own.           *)
MaxHistory == 30

recordRun(r) ==
  /\ pc[r] = "work" /\ todo[r] = 0 /\ busy[r] = 0
  /\ runSeq' = runSeq + 1
  /\ history' = SubSeq(<<runSeq + 1>> \o history, 1,
                       IF Len(history) < MaxHistory THEN Len(history) + 1 ELSE MaxHistory)
  /\ pc' = [pc EXCEPT ![r] = "finish"]
  /\ UNCHANGED <<job, bulk, runId, work>>

-----------------------------------------------------------------------------
(* StartBulk and its goroutine: apply one id, count it, until all are done *)
(* (each id is a step of its own), then clear the flag.                    *)

\* Slip: a bulk action asks only for other bulk actions.
StartBulkAnyway ==
  /\ ~bulkRunning
  /\ bulkDone < BulkItems
  /\ bulkRunning' = TRUE
  /\ bulkDone' = 0
  /\ UNCHANGED <<job, runSeq, history, pc, runId, work>>

StartBulk ==
  /\ ~bulkRunning /\ ~jobRunning
  /\ bulkDone < BulkItems
  /\ bulkRunning' = TRUE
  /\ bulkDone' = 0
  /\ UNCHANGED <<job, runSeq, history, pc, runId, work>>

BulkItem ==
  /\ bulkRunning /\ bulkDone < BulkItems
  /\ bulkDone' = bulkDone + 1
  /\ UNCHANGED <<job, runSeq, history, bulkRunning, pc, runId, work>>

BulkEnd ==
  /\ bulkRunning /\ bulkDone = BulkItems
  /\ bulkRunning' = FALSE
  /\ UNCHANGED <<job, runSeq, history, bulkDone, pc, runId, work>>

RunStep(r) ==
  \/ ForceResetJob(r) \/ StartAgain(r) \/ finishProbe(r)
  \/ ListFails(r) \/ ListTargets(r)
  \/ Launch(r) \/ FileDone(r) \/ bumpJobProgress(r) \/ recordRun(r)

Next ==
  \/ \E r \in Runs : Start(r) \/ RunStep(r)
  \/ GrowStale
  \/ StartBulk \/ BulkItem \/ BulkEnd

Spec == Init /\ [][Next]_vars

(* A goroutine that was started is scheduled until it ends.  The code sets *)
(* no deadline on the host calls of a run, so that they answer is an       *)
(* assumption about the host.  Nobody is obliged to start a run.           *)
Fairness == \A r \in Runs : WF_vars(RunStep(r))

FairSpec == Spec /\ Fairness

-----------------------------------------------------------------------------
(* Properties.                                                             *)

(***************************************************************************)
(* beginProbe's comment: only one full probe at a time, be it manual,      *)
(* synchronous or scheduled.                                               *)
(***************************************************************************)
OnlyOneFullProbe == \A r, s \in Runs : Flying(r) /\ Flying(s) => r = s

(***************************************************************************)
(* The lock is not leaked: whenever the service calls itself busy, the run *)
(* that took the lock last is still in flight and will give it back.       *)
(***************************************************************************)
LockHasOwner == jobRunning => \E r \in Runs : Flying(r) /\ runId[r] = jobID

(***************************************************************************)
(* runSeq serves both the job ids and the history: no two runs share a job *)
(* id, and no history entry has the id of a job or of another entry.       *)
(***************************************************************************)
IdsDistinct ==
  /\ \A r, s \in Runs : runId[r] = runId[s] /\ runId[r] # 0 => r = s
  /\ \A i, j \in DOMAIN history : history[i] = history[j] => i = j
  /\ \A r \in Runs, i \in DOMAIN history : history[i] # runId[r]

(***************************************************************************)
(* The job the console polls is one run's: the result is that of the run   *)
(* the job id names, and its progress never passes its own total.          *)
(***************************************************************************)
JobIsOneRuns ==
  /\ jobResult # NoRun => runId[jobResult] = jobID
  /\ jobDone <= jobTotal

(***************************************************************************)
(* A bulk action, which writes the same credentials a probe does, never    *)
(* starts while a probe is in flight.                                      *)
(***************************************************************************)
BulkWaitsForProbe ==
  [][~bulkRunning /\ bulkRunning' => \A r \in Runs : ~Flying(r)]_vars

(***************************************************************************)
(* Every call that was started returns, refused or with its result, and    *)
(* the flight does not stay taken: also when runs overlap by force or      *)
(* because a lock grew stale.                                              *)
(***************************************************************************)
EveryCallReturns ==
  /\ \A r \in Runs : pc[r] # "idle" ~> pc[r] \in {"done", "refused"}
  /\ jobRunning ~> ~jobRunning

=============================================================================
