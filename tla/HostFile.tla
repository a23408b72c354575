------------------------------ MODULE HostFile ------------------------------
(***************************************************************************)
(* One credential file of the host, and the calls that change it over the  *)
(* wire: SetDisabled and SetUsingAPI of internal/action with the management *)
(* client below them, deleteAuthFileWithKey, RefreshOneOpts of              *)
(* internal/reauth, and the cache of the using_api flag of internal/creds. *)
(*                                                                         *)
(* A call is a thread that holds no lock from one host call to the next; a *)
(* host or management call is one step with an answer, and it may be lost  *)
(* before or after it took effect.  What CPA does is modelled from how the *)
(* code uses it (and says it must, engine.go:998): a management patch      *)
(* touches one field; host.auth.save replaces the whole file, creates it   *)
(* when it is gone, and leaves the credential enabled.                     *)
(***************************************************************************)
EXTENDS Naturals, FiniteSets

CONSTANTS Callers,      \* threads that may be inside the engine at once
          Readers,      \* threads that sample using_api for the console
          Tasks,        \* what each thread may be asked, [Callers -> set]
          Kinds,        \* how each thread comes in, [Callers -> set]
          HasCfgKey,    \* management_key is configured
          ForceMgmt,    \* disable_via = management_api
          Forms,        \* the name forms under which the host may know the file
          MaxTokens,    \* bound: refresh tokens the endpoint hands out
          NoFile, None

Task == [op : {"disabled", "using"}, want : {"on", "off"}]
          \cup [op : {"delete", "reauth"}, want : {"none"}]

ASSUME HostFileAssumption ==
  /\ Tasks \in [Callers -> SUBSET Task]
  /\ Kinds \in [Callers -> SUBSET {"background", "request", "bulk"}]
  /\ {HasCfgKey, ForceMgmt} \subseteq BOOLEAN
  /\ Forms \subseteq 1..3 /\ Forms # {}
  /\ MaxTokens \in Nat
  /\ NoFile \notin [using : {"unset", "on", "off"}, token : Nat]
  /\ None \notin [using : {"unset", "on", "off"}, token : Nat]

VARIABLES disabled,   \* the host's switch, on or off
          file,       \* the JSON: its using_api and its refresh token
          issued,     \* the newest refresh token; the endpoint takes no other
          form,       \* 1: named as the list says, 2: with or without .json, 3: else
          blocked,    \* the management client cools down after a refused key
          slot,       \* requestMgmtKey is set
          poller,     \* the handlers' goroutines that wait for a bulk to end
          call, cache, sample

host   == <<disabled, file, issued, form>>
client == <<blocked, slot, poller>>
view   == <<cache, sample>>
vars   == <<host, client, call, view>>

Json == [using : {"unset", "on", "off"}, token : 0..MaxTokens]

PCs == {"idle", "start bulk", "list", "key", "check", "try 1", "try 2", "find", "try 3", "verify",
        "settle", "get", "token", "save", "reread", "reread saved", "hook", "done"}
Errors == {"missing", "refused", "lost"}

(* last: the error of the latest management request.                       *)
Idle == [pc |-> "idle", kind |-> "background", op |-> "none", want |-> "none",
         keyed |-> FALSE, last |-> "none", copy |-> None, ok |-> FALSE]

Calls ==
  [pc : PCs, kind : {"background", "request", "bulk"},
   op : {"none", "disabled", "using", "delete", "reauth"}, want : {"none", "on", "off"},
   keyed : BOOLEAN, last : Errors \cup {"none"}, copy : Json \cup {None}, ok : BOOLEAN]

TypeOK ==
  /\ disabled \in {"on", "off"} /\ file \in Json \cup {NoFile}
  /\ issued \in 0..MaxTokens /\ form \in Forms
  /\ blocked \in BOOLEAN /\ slot \in BOOLEAN
  /\ poller \subseteq Callers
  /\ call \in [Callers -> Calls]
  /\ cache \in {"none", "on", "off"}
  /\ sample \in [Readers -> {"none", "unset", "on", "off"}]

Init ==
  /\ disabled = "off" /\ file = [using |-> "unset", token |-> 0] /\ issued = 0
  /\ form \in Forms
  /\ blocked = FALSE /\ slot = FALSE /\ poller = {}
  /\ call = [c \in Callers |-> Idle]
  /\ cache = "none" /\ sample = [r \in Readers |-> "none"]

-----------------------------------------------------------------------------
(* Calls come and go.  A console request brings the operator's key, which  *)
(* the engine keeps in one slot for every thread; a bulk job is started by *)
(* such a request and outlives it.                                         *)

At(c, pc)   == call[c].pc = pc
Goto(c, pc) == call' = [call EXCEPT ![c].pc = pc]

(* What a call returns, with nothing left of how it got there.             *)
Done(c, ok) ==
  call' = [call EXCEPT ![c] = [@ EXCEPT !.pc = "done", !.ok = ok, !.keyed = FALSE,
                                        !.last = "none", !.copy = None]]

BulkRunning == \E c \in Callers : call[c].kind = "bulk" /\ call[c].pc \notin {"idle", "start bulk"}

Begin(c, task, kind) ==
  /\ At(c, "idle")
  /\ c \notin poller              \* bound: one job of a thread is waited for at a time
  /\ call' = [call EXCEPT ![c] = [Idle EXCEPT !.op = task.op, !.want = task.want,
                !.kind = kind, !.pc = IF kind = "bulk" THEN "start bulk" ELSE "list"]]
  /\ slot' = (slot \/ kind # "background")
  /\ UNCHANGED <<host, blocked, poller, view>>

\* Slip: a refused job leaves the key it brought.
StartBulkLeavesKey(c) ==
  /\ At(c, "start bulk")
  /\ \/ ~BulkRunning /\ Goto(c, "list") /\ poller' = poller \cup {c} /\ UNCHANGED slot
     \/ call' = [call EXCEPT ![c] = Idle] /\ UNCHANGED <<poller, slot>>
  /\ UNCHANGED <<host, blocked, view>>

(* StartBulk, refused when a job or a full probe runs (the second is the   *)
(* subject of ProbeFlight).                                                *)
StartBulk(c) ==
  /\ At(c, "start bulk")
  /\ \/ ~BulkRunning /\ Goto(c, "list") /\ poller' = poller \cup {c} /\ UNCHANGED slot
     \/ call' = [call EXCEPT ![c] = Idle] /\ slot' = FALSE /\ UNCHANGED poller
  /\ UNCHANGED <<host, blocked, view>>

End(c) ==
  /\ At(c, "done")
  /\ call' = [call EXCEPT ![c] = Idle]
  /\ slot' = (slot /\ call[c].kind # "request")
  /\ UNCHANGED <<host, blocked, poller, view>>

PollerEnds(c) ==
  /\ c \in poller /\ ~BulkRunning
  /\ poller' = poller \ {c}
  /\ slot' = FALSE
  /\ UNCHANGED <<host, blocked, call, view>>

(* AuthList, to find the file; a delete goes on without it.                *)
List(c) ==
  /\ At(c, "list")
  /\ \/ /\ file # NoFile \/ call[c].op = "delete"
        /\ Goto(c, IF call[c].op = "reauth" THEN "get" ELSE "key")
     \/ call[c].op # "delete" /\ Done(c, FALSE)
  /\ UNCHANGED <<host, client, view>>

(* The key of the request, else the configured one, else none.             *)
Key(c) ==
  /\ At(c, "key")
  /\ LET keyed == slot \/ HasCfgKey
     IN  \/ /\ keyed
            /\ call' = [call EXCEPT ![c].keyed = TRUE,
                          ![c].pc = IF call[c].op = "using" THEN "try 1" ELSE "check"]
         \/ ~keyed /\ call[c].op # "delete" /\ Goto(c, "get")
         \/ ~keyed /\ call[c].op = "delete" /\ Done(c, FALSE)
  /\ UNCHANGED <<host, client, view>>

-----------------------------------------------------------------------------
(* The management client.                                                  *)

(* How an error of it is met: the host's own save, or none.                *)
Fallback(c) ==
  IF call[c].op = "delete" \/ (call[c].op = "disabled" /\ ForceMgmt)
  THEN Done(c, FALSE)
  ELSE call' = [call EXCEPT ![c] = [@ EXCEPT !.pc = "get", !.last = "none"]]

Check(c) ==
  /\ At(c, "check")
  /\ IF blocked THEN Fallback(c) ELSE Goto(c, "try 1")
  /\ UNCHANGED <<host, client, view>>

(* The answers to a request for the file's n-th name form; the last form   *)
(* is the name found in the listing.  "unheard": done, the answer is lost. *)
Answers(n) ==
  {"refused", "lost"} \cup
  IF file # NoFile /\ n \in {form, 3} THEN {"ok", "unheard"} ELSE {"missing"}

Apply(c) ==
  CASE call[c].op = "disabled" -> disabled' = call[c].want /\ UNCHANGED file
    [] call[c].op = "using"    -> file' = [file EXCEPT !.using = call[c].want]
                                    /\ UNCHANGED disabled
    [] OTHER                   -> file' = NoFile /\ UNCHANGED disabled

(* Where a call goes when its n-th try has failed.                         *)
AfterTry(op, n, error) ==
  CASE n = 1 -> "try 2"
    [] n = 2 /\ (op # "disabled" \/ error = "missing") -> "find"
    [] op = "disabled" /\ (n = 3 \/ error # "missing") -> "verify"
    [] op = "delete" -> "settle"
    [] OTHER -> "get"

Failed(c, n, error) ==
  call' = [call EXCEPT ![c] = [@ EXCEPT !.pc = AfterTry(call[c].op, n, error),
                                        !.last = error]]

Try(c, n) ==
  /\ \E answer \in Answers(n) :
       /\ IF answer \in {"ok", "unheard"} THEN Apply(c) ELSE UNCHANGED <<disabled, file>>
       /\ IF answer = "ok"
          THEN IF call[c].op = "using"
               THEN call' = [call EXCEPT ![c] = [@ EXCEPT !.pc = "reread", !.last = "none"]]
               ELSE Done(c, TRUE)
          ELSE Failed(c, n, IF answer = "unheard" THEN "lost" ELSE answer)
  /\ UNCHANGED <<issued, form, client, view>>

Try1(c) == At(c, "try 1") /\ Try(c, 1)
Try2(c) == At(c, "try 2") /\ Try(c, 2)
Try3(c) == At(c, "try 3") /\ Try(c, 3)

(* findAuthFile: its listing may fail too.  The switch is not patched      *)
(* again under a name that was tried.                                      *)
Find(c) ==
  /\ At(c, "find")
  /\ \/ /\ file # NoFile
        /\ call[c].op = "disabled" => form # 1
        /\ Goto(c, "try 3")
     \/ Goto(c, AfterTry(call[c].op, 3, call[c].last))
  /\ UNCHANGED <<host, client, view>>

\* Slip: finding the file is taken for success.
VerifyFound(c) ==
  /\ At(c, "verify")
  /\ \/ call[c].last # "refused" /\ file # NoFile /\ Done(c, TRUE)
     \/ Goto(c, "settle")
  /\ UNCHANGED <<host, client, view>>

(* An error other than a refused key may hide a success: look.             *)
Verify(c) ==
  /\ At(c, "verify")
  /\ \/ /\ call[c].last # "refused"
        /\ file # NoFile /\ disabled = call[c].want
        /\ Done(c, TRUE)
     \/ Goto(c, "settle")
  /\ UNCHANGED <<host, client, view>>

Settle(c) ==
  /\ At(c, "settle")
  /\ blocked' = (blocked \/ call[c].last = "refused")
  /\ Fallback(c)
  /\ UNCHANGED <<host, slot, poller, view>>

BlockLapses ==
  /\ blocked
  /\ blocked' = FALSE
  /\ UNCHANGED <<host, slot, poller, call, view>>

-----------------------------------------------------------------------------
(* Reading the file and saving it whole.                                   *)

\* Slip: a file that is gone reads as an empty one.
GetEmpty(c) ==
  /\ At(c, "get")
  /\ call' = [call EXCEPT ![c].copy = file,
                          ![c].pc = IF call[c].op = "reauth" THEN "token" ELSE "save"]
  /\ UNCHANGED <<host, client, view>>

Get(c) ==
  /\ At(c, "get")
  /\ \/ /\ file # NoFile
        /\ call' = [call EXCEPT ![c].copy = file,
                                ![c].pc = IF call[c].op = "reauth" THEN "token" ELSE "save"]
     \/ Done(c, FALSE)
  /\ UNCHANGED <<host, client, view>>

(* The token endpoint takes the newest refresh token only, and may replace *)
(* it; the answer may be lost.                                             *)
Token(c) ==
  /\ At(c, "token")
  /\ \/ /\ call[c].copy.token = issued
        /\ issued' \in {issued, issued + 1} \cap (0..MaxTokens)
        /\ \/ call' = [call EXCEPT ![c].copy.token = issued', ![c].pc = "save"]
           \/ Done(c, FALSE)
     \/ Done(c, FALSE) /\ UNCHANGED issued
  /\ UNCHANGED <<disabled, file, form, client, view>>

Edited(c) ==
  IF call[c].op = "using" THEN [call[c].copy EXCEPT !.using = call[c].want]
  ELSE call[c].copy

(* SetDisabled falls back on saving with no hope that the switch follows:  *)
(* it reports the error that led here, and a missing key when disabling.   *)
SavedIsOk(op, keyed, want) == op = "disabled" => ~keyed /\ want = "off"

Save(c) ==
  /\ At(c, "save")
  /\ \/ /\ file' = Edited(c)
        /\ disabled' = "off"
        /\ \/ IF call[c].op = "using"
              THEN call' = [call EXCEPT ![c].pc = "reread saved", ![c].copy = None]
              ELSE Done(c, SavedIsOk(call[c].op, call[c].keyed, call[c].want))
           \/ Done(c, FALSE)
     \/ Done(c, FALSE) /\ UNCHANGED <<file, disabled>>
  /\ UNCHANGED <<issued, form, client, view>>

(* verifyUsingAPI, after the patch and again after the save.               *)
Reread(c) ==
  /\ At(c, "reread") \/ At(c, "reread saved")
  /\ \/ file # NoFile /\ file.using = call[c].want /\ Goto(c, "hook")
     \/ IF At(c, "reread") THEN Goto(c, "get") ELSE Done(c, FALSE)
  /\ UNCHANGED <<host, client, view>>

(* onUsingAPI.                                                             *)
Hook(c) ==
  /\ At(c, "hook")
  /\ cache' = call[c].want
  /\ Done(c, TRUE)
  /\ UNCHANGED <<host, client, sample>>

Step(c) ==
  \/ StartBulk(c) \/ End(c) \/ List(c) \/ Key(c) \/ Check(c) \/ Try1(c) \/ Try2(c) \/ Find(c) \/ Try3(c)
  \/ Verify(c) \/ Settle(c) \/ Get(c) \/ Token(c) \/ Save(c) \/ Reread(c) \/ Hook(c)

-----------------------------------------------------------------------------
(* The console's view of using_api.                                        *)

(* SampleAuthJSON reads a file, of the page shown or in a scan of all;     *)
(* SampleMissingAuthJSON does so for a file that is not cached.            *)
Sample(r) ==
  /\ sample[r] = "none" /\ file # NoFile
  /\ sample' = [sample EXCEPT ![r] = file.using]
  /\ UNCHANGED <<host, client, call, cache>>

\* Slip: a file without the flag is cached as off.
PutSampleDefault(r) ==
  /\ sample[r] # "none"
  /\ cache' = IF sample[r] = "unset" THEN "off" ELSE sample[r]
  /\ sample' = [sample EXCEPT ![r] = "none"]
  /\ UNCHANGED <<host, client, call>>

(* PutFromJSON.                                                            *)
PutSample(r) ==
  /\ sample[r] # "none"
  /\ cache' = IF sample[r] = "unset" THEN cache ELSE sample[r]
  /\ sample' = [sample EXCEPT ![r] = "none"]
  /\ UNCHANGED <<host, client, call>>

Expire ==
  /\ cache # "none"
  /\ cache' = "none"
  /\ UNCHANGED <<host, client, call, sample>>

Next ==
  \/ \E c \in Callers :
       \/ \E task \in Tasks[c], kind \in Kinds[c] : Begin(c, task, kind)
       \/ Step(c)
       \/ PollerEnds(c)
  \/ \E r \in Readers : Sample(r) \/ PutSample(r)
  \/ BlockLapses
  \/ Expire

(* Calls have timeouts and go on, a poller looks again and again, a sample *)
(* that was read is put, and what nobody puts again expires.               *)
Fairness ==
  /\ \A c \in Callers : WF_vars(Step(c)) /\ WF_vars(PollerEnds(c))
  /\ \A r \in Readers : WF_vars(PutSample(r))
  /\ WF_vars(Expire)

Spec == Init /\ [][Next]_vars /\ Fairness

-----------------------------------------------------------------------------
(* No call reports a success the host does not show: when a call has come  *)
(* to the point where it will answer ok, the host holds what it asked for, *)
(* whichever of its requests were lost, refused or misnamed on the way     *)
(* there, and whatever other calls did meanwhile.                          *)
Holds(c) ==
  CASE call[c].op = "disabled" -> disabled = call[c].want
    [] call[c].op = "using"    -> file # NoFile /\ file.using = call[c].want
    [] call[c].op = "delete"   -> file = NoFile
    [] OTHER                   -> file # NoFile
Succeeds(c) == At(c, "hook") \/ (At(c, "done") /\ call[c].ok)
OkMeansDone == [][\A c \in Callers : ~Succeeds(c) /\ Succeeds(c)' => Holds(c)']_vars

(* The operator's key is not left behind for calls nobody made: while it   *)
(* is in the slot, a request that will clear it is in progress, or a       *)
(* goroutine that waits for a bulk job is.                                 *)
KeyCleared ==
  slot => \/ poller # {}
          \/ \E c \in Callers : ~At(c, "idle") /\ call[c].kind \in {"request", "bulk"}

(* The console comes to show the flag the file has: although a sample may  *)
(* overwrite what a newer call has set, once the flag stays as it is a     *)
(* wrong value does not last.                                              *)
Using(value)  == file # NoFile /\ file.using = value
CacheCatchesUp ==
  \A value \in {"unset", "on", "off"} :
    <>[]Using(value) => <>[](cache \in {"none", value})

(* engine.go:1000 says that saving would turn a disabled credential on     *)
(* again, and that the switch must therefore never be saved over.  Two     *)
(* calls save it all the same: a refresh and the fallback of SetUsingAPI.  *)
Enables(c) == call[c].op = "disabled" /\ call[c].want = "off"
SwitchHeld ==
  [][disabled = "on" /\ disabled' = "off" => \E c \in Callers : Enables(c)]_vars
=============================================================================
