--------------------------- MODULE HostFileProofs ---------------------------
(***************************************************************************)
(* Theorems about one credential file of the host, for any number of       *)
(* threads that change it at once, any tasks of theirs and any name form,  *)
(* with every host and management call free to be lost or refused.         *)
(***************************************************************************)
EXTENDS HostFile, TLAPS

(* Which operation can be where.                                           *)
Placed(r) ==
  /\ r.pc \in {"key", "try 1", "try 2", "try 3", "find"} => r.op \in {"disabled", "using", "delete"}
  /\ r.pc = "verify" => r.op = "disabled"
  /\ r.pc \in {"check", "settle"} => r.op \in {"disabled", "delete"}
  /\ r.pc \in {"get", "save"} => r.op \in {"disabled", "using", "reauth"}
  /\ r.pc = "token" => r.op = "reauth"
  /\ r.pc \in {"reread", "reread saved", "hook"} => r.op = "using"
  /\ r.pc \in {"token", "save"} => r.copy \in Json
  /\ r.pc # "idle" => r.op # "none"
  /\ r.op \in {"disabled", "using"} => r.want \in {"on", "off"}

CallsInv ==
  /\ call \in [Callers -> Calls]
  /\ \A c \in Callers : Placed(call[c])

TypeInv == TypeOK /\ CallsInv

(* A bulk job has a goroutine waiting for it.                              *)
BulkWaitedFor ==
  \A c \in Callers :
    call[c].kind = "bulk" /\ call[c].pc \notin {"idle", "start bulk"} => c \in poller

-----------------------------------------------------------------------------
(* Types and places.                                                       *)

LEMMA IdleIsCall == Idle \in Calls /\ Idle.pc = "idle" /\ Idle.op = "none"
<1>1. Idle.keyed \in BOOLEAN /\ Idle.ok \in BOOLEAN
  BY Zenon DEF Idle
<1> QED
  BY <1>1 DEF Idle, Calls, PCs

LEMMA Replaced ==
  ASSUME CallsInv, NEW c \in Callers, NEW r \in Calls, Placed(r), call' = [call EXCEPT ![c] = r]
  PROVE  CallsInv'
<1>1. \A d \in Callers : call'[d] = IF d = c THEN r ELSE call[d]
  BY DEF CallsInv
<1>2. \A d \in Callers : Placed(call'[d])
  BY <1>1 DEF CallsInv
<1> QED
  BY <1>2 DEF CallsInv

LEMMA DoneCalls ==
  ASSUME CallsInv, NEW c \in Callers, NEW ok \in BOOLEAN, Done(c, ok), call[c].pc # "idle"
  PROVE  CallsInv'
<1> DEFINE r == [call[c] EXCEPT !.pc = "done", !.ok = ok, !.keyed = FALSE, !.last = "none",
                                !.copy = None]
<1>1. call[c] \in Calls /\ Placed(call[c])
  BY DEF CallsInv
<1>2. r \in Calls
  BY <1>1 DEF Calls, PCs
<1>3. Placed(r)
  <2>1. r.pc = "done" /\ r.op = call[c].op /\ r.want = call[c].want
    BY <1>1 DEF Calls
  <2>2. call[c].op # "none"
    BY <1>1 DEF Placed
  <2> QED
    BY <1>1, <2>1, <2>2 DEF Placed
<1>4. call' = [call EXCEPT ![c] = r]
  BY DEF Done
<1> HIDE DEF r
<1> QED
  BY <1>2, <1>3, <1>4, Replaced

LEMMA GotoCalls ==
  ASSUME CallsInv, NEW c \in Callers, NEW pc \in PCs, Goto(c, pc),
         Placed([call[c] EXCEPT !.pc = pc])
  PROVE  CallsInv'
<1> DEFINE r == [call[c] EXCEPT !.pc = pc]
<1>1. r \in Calls
  BY DEF CallsInv, Calls
<1>2. call' = [call EXCEPT ![c] = r]
  BY DEF Goto
<1> HIDE DEF r
<1> QED
  BY <1>1, <1>2, Replaced DEF r

(* The rest of a fallback: an error, or the host's own save.               *)
LEMMA FallbackCalls ==
  ASSUME CallsInv, NEW c \in Callers, Fallback(c), call[c].pc \in {"check", "settle"}
  PROVE  CallsInv'
<1>1. call[c] \in Calls /\ Placed(call[c])
  BY DEF CallsInv
<1>2. CASE Done(c, FALSE)
  BY <1>2, DoneCalls
<1>3. CASE ~(call[c].op = "delete" \/ (call[c].op = "disabled" /\ ForceMgmt))
  <2> DEFINE r == [call[c] EXCEPT !.pc = "get", !.last = "none"]
  <2>1. r \in Calls
    BY <1>1 DEF Calls, PCs
  <2>2. r.pc = "get" /\ r.op = call[c].op /\ r.want = call[c].want
    BY <1>1 DEF Calls
  <2>3. Placed(r)
    BY <1>1, <1>3, <2>2 DEF Placed
  <2>4. call' = [call EXCEPT ![c] = r]
    BY <1>3 DEF Fallback
  <2> HIDE DEF r
  <2> QED
    BY <2>1, <2>3, <2>4, Replaced
<1> QED
  BY <1>2, <1>3 DEF Fallback

LEMMA TryCalls ==
  ASSUME CallsInv, NEW c \in Callers, NEW n \in {1, 2, 3},
         call[c].pc \in {"try 1", "try 2", "try 3"}, Try(c, n)
  PROVE  CallsInv'
<1>1. call[c] \in Calls /\ Placed(call[c]) /\ call[c].op \in {"disabled", "using", "delete"}
  BY DEF CallsInv, Placed
<1>2. CASE Done(c, TRUE)
  BY <1>2, DoneCalls
<1>3. ASSUME call[c].op = "using",
             call' = [call EXCEPT ![c] = [@ EXCEPT !.pc = "reread", !.last = "none"]]
      PROVE  CallsInv'
  <2> DEFINE r == [call[c] EXCEPT !.pc = "reread", !.last = "none"]
  <2>1. r \in Calls
    BY <1>1 DEF Calls, PCs
  <2>2. r.pc = "reread" /\ r.op = call[c].op /\ r.want = call[c].want
    BY <1>1 DEF Calls
  <2>3. Placed(r)
    BY <1>1, <1>3, <2>2 DEF Placed
  <2>4. call' = [call EXCEPT ![c] = r]
    BY <1>3
  <2> HIDE DEF r
  <2> QED
    BY <2>1, <2>3, <2>4, Replaced
<1>4. ASSUME NEW error \in Errors, Failed(c, n, error)
      PROVE  CallsInv'
  <2> DEFINE pc == AfterTry(call[c].op, n, error)
             r  == [call[c] EXCEPT !.pc = pc, !.last = error]
  <2>1. /\ pc \in {"try 2", "find", "verify", "settle", "get"}
        /\ pc = "verify" => call[c].op = "disabled"
        /\ pc = "settle" => call[c].op = "delete"
        /\ pc = "get"    => call[c].op = "using"
    BY <1>1 DEF AfterTry, Errors
  <2> HIDE DEF pc
  <2>2. r \in Calls
    BY <1>1, <2>1 DEF Calls, PCs
  <2>3. r.pc = pc /\ r.op = call[c].op /\ r.want = call[c].want
    BY <1>1 DEF Calls
  <2>4. Placed(r)
    BY <1>1, <2>1, <2>3 DEF Placed
  <2>5. call' = [call EXCEPT ![c] = r]
    BY <1>4 DEF Failed, pc
  <2> HIDE DEF r
  <2> QED
    BY <2>2, <2>4, <2>5, Replaced
<1>5. PICK answer \in Answers(n) :
        IF answer = "ok"
        THEN IF call[c].op = "using"
             THEN call' = [call EXCEPT ![c] = [@ EXCEPT !.pc = "reread", !.last = "none"]]
             ELSE Done(c, TRUE)
        ELSE Failed(c, n, IF answer = "unheard" THEN "lost" ELSE answer)
  BY DEF Try
<1>6. answer # "ok" => (IF answer = "unheard" THEN "lost" ELSE answer) \in Errors
  BY <1>5 DEF Answers, Errors
<1> QED
  BY <1>2, <1>3, <1>4, <1>5, <1>6

LEMMA EntryCalls ==
  ASSUME CallsInv, NEW c \in Callers,
         \/ \E task \in Tasks[c], kind \in Kinds[c] : Begin(c, task, kind)
         \/ StartBulk(c) \/ End(c) \/ List(c) \/ Key(c)
  PROVE  CallsInv'
<1>1. call[c] \in Calls /\ Placed(call[c])
  BY DEF CallsInv
<1>2. ASSUME NEW task \in Tasks[c], NEW kind \in Kinds[c], Begin(c, task, kind)
      PROVE  CallsInv'
  <2> DEFINE pc == IF kind = "bulk" THEN "start bulk" ELSE "list"
             r  == [Idle EXCEPT !.op = task.op, !.want = task.want, !.kind = kind, !.pc = pc]
  <2>1. call' = [call EXCEPT ![c] = r]
    BY <1>2 DEF Begin
  <2>2. /\ task.op \in {"disabled", "using", "delete", "reauth"}
        /\ task.want \in {"none", "on", "off"}
        /\ task.op \in {"disabled", "using"} => task.want \in {"on", "off"}
        /\ kind \in {"background", "request", "bulk"}
    BY HostFileAssumption DEF Task
  <2>3. pc \in {"start bulk", "list"}
    OBVIOUS
  <2> HIDE DEF pc
  <2>4. r \in Calls
    BY <2>2, <2>3, IdleIsCall DEF Calls, PCs
  <2>5. r.pc = pc /\ r.op = task.op /\ r.want = task.want
    BY IdleIsCall DEF Calls
  <2>6. Placed(r)
    BY <2>2, <2>3, <2>5 DEF Placed
  <2> HIDE DEF r
  <2> QED
    BY <2>1, <2>4, <2>6, Replaced
<1>3. ASSUME call' = [call EXCEPT ![c] = Idle]
      PROVE  CallsInv'
  <2>1. Placed(Idle)
    BY IdleIsCall DEF Placed
  <2> QED
    BY <1>3, <2>1, IdleIsCall, Replaced
<1>4. ASSUME NEW pc \in {"list", "get", "key"}, Goto(c, pc), call[c].pc # "idle",
             pc = "get" => call[c].op # "delete", pc = "key" => call[c].op # "reauth"
      PROVE  CallsInv'
  <2> DEFINE r == [call[c] EXCEPT !.pc = pc]
  <2>1. r.pc = pc /\ r.op = call[c].op /\ r.want = call[c].want
    BY <1>1 DEF Calls
  <2>2. call[c].op \in {"disabled", "using", "delete", "reauth"}
    BY <1>1, <1>4 DEF Calls, Placed
  <2>3. Placed(r)
    BY <1>1, <1>4, <2>1, <2>2 DEF Placed
  <2> HIDE DEF r
  <2> QED
    BY <1>4, <2>3, GotoCalls DEF PCs, r
<1>5. CASE StartBulk(c)
  BY <1>3, <1>4, <1>5 DEF StartBulk, At
<1>6. CASE End(c)
  BY <1>3, <1>6 DEF End
<1>7. CASE List(c)
  BY <1>4, <1>7, DoneCalls DEF List, At
<1>8. CASE Key(c)
  <2>1. CASE call' = [call EXCEPT ![c].keyed = TRUE,
                        ![c].pc = IF call[c].op = "using" THEN "try 1" ELSE "check"]
    <3> DEFINE pc == IF call[c].op = "using" THEN "try 1" ELSE "check"
               r  == [call[c] EXCEPT !.keyed = TRUE, !.pc = pc]
    <3>1. call[c].op \in {"disabled", "using", "delete"}
      BY <1>1, <1>8 DEF Key, At, Placed
    <3>2. pc \in {"try 1", "check"} /\ (pc = "check" => call[c].op # "using")
      OBVIOUS
    <3>3. call' = [call EXCEPT ![c] = r]
      BY <2>1 DEF CallsInv
    <3> HIDE DEF pc
    <3>4. r \in Calls
      BY <1>1, <3>2 DEF Calls, PCs
    <3>5. r.pc = pc /\ r.op = call[c].op /\ r.want = call[c].want
      BY <1>1 DEF Calls
    <3>6. Placed(r)
      BY <1>1, <3>1, <3>2, <3>5 DEF Placed
    <3> HIDE DEF r
    <3> QED
      BY <3>3, <3>4, <3>6, Replaced
  <2>2. CASE Goto(c, "get") /\ call[c].op # "delete"
    BY <1>4, <1>8, <2>2 DEF Key, At
  <2>3. CASE Done(c, FALSE)
    BY <1>8, <2>3, DoneCalls DEF Key, At
  <2> QED
    BY <1>8, <2>1, <2>2, <2>3 DEF Key
<1> QED
  BY <1>2, <1>5, <1>6, <1>7, <1>8

LEMMA ClientCalls ==
  ASSUME CallsInv, NEW c \in Callers,
         Check(c) \/ Try1(c) \/ Try2(c) \/ Find(c) \/ Try3(c) \/ Verify(c) \/ Settle(c)
  PROVE  CallsInv'
<1>1. call[c] \in Calls /\ Placed(call[c])
  BY DEF CallsInv
<1>2. ASSUME NEW pc \in {"try 1", "try 3", "verify", "settle", "get"}, Goto(c, pc),
             call[c].op \in {"disabled", "using", "delete"},
             pc = "verify" => call[c].op = "disabled",
             pc = "settle" => call[c].op \in {"disabled", "delete"},
             pc = "get" => call[c].op = "using"
      PROVE  CallsInv'
  <2> DEFINE r == [call[c] EXCEPT !.pc = pc]
  <2>1. r.pc = pc /\ r.op = call[c].op /\ r.want = call[c].want
    BY <1>1 DEF Calls
  <2>2. Placed(r)
    BY <1>1, <1>2, <2>1 DEF Placed
  <2> HIDE DEF r
  <2> QED
    BY <1>2, <2>2, GotoCalls DEF PCs, r
<1>3. CASE Check(c)
  BY <1>1, <1>2, <1>3, FallbackCalls DEF Check, At, Placed
<1>4. CASE Try1(c) \/ Try2(c) \/ Try3(c)
  BY <1>4, TryCalls DEF Try1, Try2, Try3, At
<1>5. CASE Find(c)
  <2>1. call[c].op \in {"disabled", "using", "delete"}
    BY <1>1, <1>5 DEF Find, At, Placed
  <2> DEFINE pc == AfterTry(call[c].op, 3, call[c].last)
  <2>2. /\ pc \in {"verify", "settle", "get"}
        /\ pc = "verify" => call[c].op = "disabled"
        /\ pc = "settle" => call[c].op = "delete"
        /\ pc = "get" => call[c].op = "using"
    BY <2>1 DEF AfterTry
  <2>3. Goto(c, "try 3") \/ Goto(c, pc)
    BY <1>5 DEF Find
  <2> HIDE DEF pc
  <2> QED
    BY <1>2, <2>1, <2>2, <2>3
<1>6. CASE Verify(c)
  BY <1>1, <1>2, <1>6, DoneCalls DEF Verify, At, Placed
<1>7. CASE Settle(c)
  BY <1>7, FallbackCalls DEF Settle, At
<1> QED
  BY <1>3, <1>4, <1>5, <1>6, <1>7

LEMMA FileCalls ==
  ASSUME TypeInv, NEW c \in Callers, Get(c) \/ Token(c) \/ Save(c) \/ Reread(c) \/ Hook(c)
  PROVE  CallsInv'
<1>1. /\ CallsInv /\ call[c] \in Calls /\ Placed(call[c])
      /\ file \in Json \cup {NoFile} /\ issued \in 0..MaxTokens
  BY DEF TypeInv, TypeOK, CallsInv
<1>2. CASE call[c].pc # "idle" /\ \E ok \in BOOLEAN : Done(c, ok)
  BY <1>1, <1>2, DoneCalls
<1>3. ASSUME NEW pc \in {"token", "save", "reread saved"}, NEW copy \in Json \cup {None},
             call' = [call EXCEPT ![c] = [call[c] EXCEPT !.copy = copy, !.pc = pc]],
             pc = "token" => call[c].op = "reauth" /\ copy \in Json,
             pc = "save" => call[c].op \in {"disabled", "using", "reauth"} /\ copy \in Json,
             pc = "reread saved" => call[c].op = "using"
      PROVE  CallsInv'
  <2> DEFINE r == [call[c] EXCEPT !.copy = copy, !.pc = pc]
  <2>1. r \in Calls
    BY <1>1 DEF Calls, PCs
  <2>2. r.pc = pc /\ r.op = call[c].op /\ r.want = call[c].want /\ r.copy = copy
    BY <1>1 DEF Calls
  <2>3. Placed(r)
    BY <1>1, <1>3, <2>2 DEF Placed
  <2> HIDE DEF r
  <2> QED
    BY <1>1, <1>3, <2>1, <2>3, Replaced DEF r
<1>4. CASE Get(c)
  <2>1. call[c].op \in {"disabled", "using", "reauth"} /\ call[c].pc # "idle"
    BY <1>1, <1>4 DEF Get, At, Placed
  <2>2. CASE Done(c, FALSE)
    BY <1>2, <2>1, <2>2
  <2>3. CASE /\ file # NoFile
             /\ call' = [call EXCEPT ![c].copy = file,
                           ![c].pc = IF call[c].op = "reauth" THEN "token" ELSE "save"]
    <3> DEFINE pc == IF call[c].op = "reauth" THEN "token" ELSE "save"
    <3>1. call' = [call EXCEPT ![c] = [call[c] EXCEPT !.copy = file, !.pc = pc]]
      BY <1>1, <2>3 DEF CallsInv
    <3> QED
      BY <1>1, <1>3, <2>1, <2>3, <3>1
  <2> QED
    BY <1>4, <2>2, <2>3 DEF Get
<1>5. CASE Token(c)
  <2>1. call[c].op = "reauth" /\ call[c].copy \in Json /\ call[c].pc # "idle"
    BY <1>1, <1>5 DEF Token, At, Placed
  <2>2. CASE Done(c, FALSE)
    BY <1>2, <2>1, <2>2
  <2>3. CASE /\ issued' \in {issued, issued + 1} \cap (0..MaxTokens)
             /\ call' = [call EXCEPT ![c].copy.token = issued', ![c].pc = "save"]
    <3> DEFINE copy == [call[c].copy EXCEPT !.token = issued']
    <3>1. call' = [call EXCEPT ![c] = [call[c] EXCEPT !.copy = copy, !.pc = "save"]]
      BY <1>1, <2>3 DEF CallsInv, Calls
    <3>2. copy \in Json
      BY <2>1, <2>3 DEF Json
    <3> QED
      BY <1>3, <2>1, <3>1, <3>2
  <2> QED
    BY <1>5, <2>2, <2>3 DEF Token
<1>6. CASE Save(c)
  <2>1. call[c].pc # "idle"
    BY <1>6 DEF Save, At
  <2>2. CASE Done(c, SavedIsOk(call[c].op, call[c].keyed, call[c].want))
    BY <1>2, <2>1, <2>2 DEF SavedIsOk
  <2>3. CASE Done(c, FALSE)
    BY <1>2, <2>1, <2>3
  <2>4. CASE /\ call[c].op = "using"
             /\ call' = [call EXCEPT ![c].pc = "reread saved", ![c].copy = None]
    <3>1. call' = [call EXCEPT ![c] = [call[c] EXCEPT !.copy = None, !.pc = "reread saved"]]
      BY <1>1, <2>4 DEF CallsInv, Calls
    <3> QED
      BY <1>3, <2>4, <3>1
  <2> QED
    BY <1>6, <2>2, <2>3, <2>4 DEF Save
<1>7. CASE Reread(c)
  <2>1. call[c].op = "using" /\ call[c].pc # "idle"
    BY <1>1, <1>7 DEF Reread, At, Placed
  <2>2. CASE Done(c, FALSE)
    BY <1>2, <2>1, <2>2
  <2>3. ASSUME NEW pc \in {"hook", "get"}, Goto(c, pc)
        PROVE  CallsInv'
    <3> DEFINE r == [call[c] EXCEPT !.pc = pc]
    <3>1. r.pc = pc /\ r.op = call[c].op /\ r.want = call[c].want
      BY <1>1 DEF Calls
    <3>2. Placed(r)
      BY <1>1, <2>1, <3>1 DEF Placed
    <3> HIDE DEF r
    <3> QED
      BY <1>1, <2>3, <3>2, GotoCalls DEF PCs, r
  <2> QED
    BY <1>7, <2>2, <2>3 DEF Reread
<1>8. CASE Hook(c)
  BY <1>1, <1>8, DoneCalls DEF Hook, At
<1> QED
  BY <1>4, <1>5, <1>6, <1>7, <1>8

LEMMA StepCalls ==
  ASSUME TypeInv, NEW c \in Callers,
         Step(c) \/ \E task \in Tasks[c], kind \in Kinds[c] : Begin(c, task, kind)
  PROVE  CallsInv'
BY EntryCalls, ClientCalls, FileCalls DEF TypeInv, Step

(* The host's side of a step.                                              *)
HostOK ==
  /\ disabled \in {"on", "off"} /\ file \in Json \cup {NoFile}
  /\ issued \in 0..MaxTokens /\ form \in Forms

LEMMA HostTypes ==
  ASSUME TypeInv, NEW c \in Callers, Step(c)
  PROVE  HostOK'
<1>1. HostOK /\ call[c] \in Calls /\ Placed(call[c])
  BY DEF TypeInv, TypeOK, CallsInv, HostOK
<1>2. CASE UNCHANGED host
  BY <1>1, <1>2 DEF host, HostOK
<1>3. ASSUME NEW n \in {1, 2, 3}, call[c].pc \in {"try 1", "try 2", "try 3"}, Try(c, n)
      PROVE  HostOK'
  <2>1. CASE UNCHANGED <<disabled, file>>
    BY <1>1, <1>3, <2>1 DEF Try, HostOK
  <2>2. CASE Apply(c) /\ file # NoFile
    <3>1. call[c].op \in {"disabled", "using", "delete"}
          /\ (call[c].op # "delete" => call[c].want \in {"on", "off"})
      BY <1>1, <1>3 DEF Placed
    <3>2. file \in Json => [file EXCEPT !.using = call[c].want] \in [using : {"unset", "on", "off"}
            \cup {call[c].want}, token : 0..MaxTokens]
      BY DEF Json
    <3>3. disabled' \in {"on", "off"} /\ file' \in Json \cup {NoFile}
      BY <1>1, <2>2, <3>1, <3>2 DEF Apply, HostOK, Json
    <3> QED
      BY <1>1, <1>3, <3>3 DEF Try, HostOK
  <2>3. PICK answer \in Answers(n) :
          IF answer \in {"ok", "unheard"} THEN Apply(c) ELSE UNCHANGED <<disabled, file>>
    BY <1>3 DEF Try
  <2>4. answer \in {"ok", "unheard"} => file # NoFile
    BY <2>3 DEF Answers
  <2> QED
    BY <2>1, <2>2, <2>3, <2>4
<1>4. CASE Token(c)
  BY <1>1, <1>4 DEF Token, HostOK
<1>5. CASE Save(c)
  <2>1. call[c].copy \in Json /\ (call[c].op = "using" => call[c].want \in {"on", "off"})
    BY <1>1, <1>5 DEF Save, At, Placed
  <2>2. Edited(c) \in Json
    BY <2>1 DEF Edited, Json
  <2> QED
    BY <1>1, <1>5, <2>2 DEF Save, HostOK
<1> QED
  BY <1>2, <1>3, <1>4, <1>5
  DEF Step, StartBulk, End, List, Key, Check, Try1, Try2, Find, Try3, Verify, Settle, Get,
      Reread, Hook, At

(* The client's side, and the console's view.                              *)
ClientOK ==
  /\ blocked \in BOOLEAN /\ slot \in BOOLEAN
  /\ poller \subseteq Callers
  /\ cache \in {"none", "on", "off"}
  /\ sample \in [Readers -> {"none", "unset", "on", "off"}]

LEMMA ClientTypes ==
  ASSUME TypeInv, NEW c \in Callers,
         Step(c) \/ \E task \in Tasks[c], kind \in Kinds[c] : Begin(c, task, kind)
  PROVE  ClientOK'
<1>1. ClientOK /\ call[c] \in Calls /\ Placed(call[c])
  BY DEF TypeInv, TypeOK, CallsInv, ClientOK
<1>2. blocked' \in BOOLEAN
  BY <1>1, Zenon
  DEF Step, Begin, StartBulk, End, List, Key, Check, Try, Try1, Try2, Find, Try3, Verify,
      Settle, Get, Token, Save, Reread, Hook, client, ClientOK
<1>3. slot' \in BOOLEAN
  BY <1>1, Zenon
  DEF Step, Begin, StartBulk, End, List, Key, Check, Try, Try1, Try2, Find, Try3, Verify,
      Settle, Get, Token, Save, Reread, Hook, client, ClientOK
<1>4. poller' \subseteq Callers
  BY <1>1
  DEF Step, Begin, StartBulk, End, List, Key, Check, Try, Try1, Try2, Find, Try3, Verify,
      Settle, Get, Token, Save, Reread, Hook, client, ClientOK
<1>5. cache' \in {"none", "on", "off"} /\ UNCHANGED sample
  <2>1. CASE Hook(c)
    BY <1>1, <2>1 DEF Hook, At, Placed
  <2> QED
    BY <1>1, <2>1
    DEF Step, Begin, StartBulk, End, List, Key, Check, Try, Try1, Try2, Find, Try3, Verify,
        Settle, Get, Token, Save, Reread, view, ClientOK
<1> QED
  BY <1>1, <1>2, <1>3, <1>4, <1>5 DEF ClientOK

LEMMA OtherTypes ==
  ASSUME TypeInv, \/ \E c \in Callers : PollerEnds(c)
                  \/ \E r \in Readers : Sample(r) \/ PutSample(r)
                  \/ BlockLapses \/ Expire
  PROVE  TypeInv'
<1>1. UNCHANGED <<host, call>>
  BY DEF PollerEnds, Sample, PutSample, BlockLapses, Expire, view
<1>2. CallsInv' /\ HostOK'
  BY <1>1 DEF TypeInv, TypeOK, CallsInv, HostOK, host
<1>3. ClientOK
  BY DEF TypeInv, TypeOK, ClientOK
<1>4. CASE \E c \in Callers : PollerEnds(c)
  <2>1. slot' \in BOOLEAN /\ blocked' \in BOOLEAN
    BY <1>3, <1>4, Zenon DEF PollerEnds, ClientOK
  <2>2. ClientOK'
    BY <1>3, <1>4, <2>1 DEF PollerEnds, ClientOK, view
  <2> QED
    BY <1>2, <2>2 DEF TypeInv, TypeOK, ClientOK, HostOK, CallsInv
<1>5. CASE BlockLapses
  <2>1. slot' \in BOOLEAN /\ blocked' \in BOOLEAN
    BY <1>3, <1>5, Zenon DEF BlockLapses, ClientOK
  <2>2. ClientOK'
    BY <1>3, <1>5, <2>1 DEF BlockLapses, ClientOK, view
  <2> QED
    BY <1>2, <2>2 DEF TypeInv, TypeOK, ClientOK, HostOK, CallsInv
<1>6. CASE Expire \/ \E r \in Readers : Sample(r) \/ PutSample(r)
  <2>1. UNCHANGED client
    BY <1>6 DEF Sample, PutSample, Expire
  <2>2. cache' \in {"none", "on", "off"}
        /\ sample' \in [Readers -> {"none", "unset", "on", "off"}]
    BY <1>3, <1>6 DEF TypeInv, TypeOK, Json, Sample, PutSample, Expire, ClientOK
  <2>3. ClientOK'
    BY <1>3, <2>1, <2>2 DEF client, ClientOK
  <2> QED
    BY <1>2, <2>3 DEF TypeInv, TypeOK, ClientOK, HostOK, CallsInv
<1> QED
  BY <1>4, <1>5, <1>6

LEMMA InitTypes == Init => TypeInv
<1> SUFFICES ASSUME Init PROVE TypeInv
  OBVIOUS
<1>1. CallsInv
  <2>1. Placed(Idle)
    BY IdleIsCall DEF Placed
  <2> QED
    BY <2>1, IdleIsCall DEF Init, CallsInv
<1>2. HostOK
  <2>1. [using |-> "unset", token |-> 0] \in Json
    BY HostFileAssumption DEF Json
  <2> QED
    BY <2>1, HostFileAssumption DEF Init, HostOK
<1>3. ClientOK
  <2>1. blocked \in BOOLEAN /\ slot \in BOOLEAN
    BY Zenon DEF Init
  <2> QED
    BY <2>1 DEF Init, ClientOK
<1> QED
  BY <1>1, <1>2, <1>3 DEF TypeInv, TypeOK, CallsInv, HostOK, ClientOK

LEMMA StepTypes == TypeInv /\ [Next]_vars => TypeInv'
<1> SUFFICES ASSUME TypeInv, [Next]_vars PROVE TypeInv'
  OBVIOUS
<1>1. ASSUME NEW c \in Callers,
             Step(c) \/ \E task \in Tasks[c], kind \in Kinds[c] : Begin(c, task, kind)
      PROVE  TypeInv'
  <2>1. CallsInv' /\ ClientOK'
    BY <1>1, StepCalls, ClientTypes
  <2>2. HostOK'
    <3>1. HostOK
      BY DEF TypeInv, TypeOK, HostOK
    <3> QED
      BY <1>1, <3>1, HostTypes DEF Begin, host, HostOK
  <2> QED
    BY <2>1, <2>2 DEF TypeInv, TypeOK, CallsInv, HostOK, ClientOK
<1>2. CASE UNCHANGED vars
  BY <1>2 DEF vars, host, client, view, TypeInv, TypeOK, CallsInv
<1> QED
  BY <1>1, <1>2, OtherTypes DEF Next

(* Every variable keeps its type, whatever is lost on the way.             *)
THEOREM TypesHold == Spec => []TypeOK
<1>1. TypeInv => TypeOK
  BY DEF TypeInv
<1> QED
  BY <1>1, InitTypes, StepTypes, PTL DEF Spec

-----------------------------------------------------------------------------
(* Success is never reported wrongly.                                      *)

LEMMA DoneFields ==
  ASSUME CallsInv, NEW c \in Callers, NEW ok \in BOOLEAN, Done(c, ok)
  PROVE  /\ call'[c].pc = "done" /\ call'[c].op = call[c].op /\ call'[c].want = call[c].want
         /\ call'[c].ok = ok
         /\ \A d \in Callers \ {c} : call'[d] = call[d]
<1>1. call'[c] = [call[c] EXCEPT !.pc = "done", !.ok = ok, !.keyed = FALSE, !.last = "none",
                                 !.copy = None]
  BY DEF Done, CallsInv
<1>2. call[c] \in Calls
  BY DEF CallsInv
<1>3. \A d \in Callers \ {c} : call'[d] = call[d]
  BY DEF Done, CallsInv
<1> QED
  BY <1>1, <1>2, <1>3 DEF Calls

(* A step of one call leaves the others alone.                             *)
LEMMA OthersWait ==
  ASSUME TypeInv, NEW c \in Callers,
         Step(c) \/ \E task \in Tasks[c], kind \in Kinds[c] : Begin(c, task, kind)
  PROVE  \A d \in Callers \ {c} : call'[d] = call[d]
<1> call \in [Callers -> Calls]
  BY DEF TypeInv, TypeOK
<1> USE DEF Goto, Done, Fallback, Failed
<1>1. CASE \E n \in {1, 2, 3} : Try(c, n)
  BY <1>1 DEF Try
<1>2. CASE Try1(c) \/ Try2(c) \/ Try3(c)
  BY <1>1, <1>2 DEF Try1, Try2, Try3
<1>3. CASE Check(c) \/ Find(c) \/ Verify(c) \/ Settle(c)
  BY <1>3 DEF Check, Find, Verify, Settle
<1>4. CASE Get(c) \/ Token(c) \/ Save(c) \/ Reread(c) \/ Hook(c)
  BY <1>4 DEF Get, Token, Save, Reread, Hook
<1>5. CASE StartBulk(c) \/ End(c) \/ List(c) \/ Key(c)
  BY <1>5 DEF StartBulk, End, List, Key
<1>6. CASE \E task \in Tasks[c], kind \in Kinds[c] : Begin(c, task, kind)
  BY <1>6 DEF Begin
<1> QED
  BY <1>2, <1>3, <1>4, <1>5, <1>6 DEF Step

(* The steps after which a call will answer ok.                            *)
LEMMA SuccessHolds ==
  ASSUME TypeInv, NEW c \in Callers, Step(c), ~Succeeds(c), Succeeds(c)'
  PROVE  Holds(c)'
<1>1. CallsInv /\ call[c] \in Calls /\ Placed(call[c]) /\ file \in Json \cup {NoFile}
  BY DEF TypeInv, TypeOK, CallsInv
<1>2. call'[c].pc = "hook" \/ (call'[c].pc = "done" /\ call'[c].ok)
  BY DEF Succeeds, At
<1>3. ASSUME Done(c, FALSE) PROVE FALSE
  <2>1. call'[c].pc = "done" /\ call'[c].ok = FALSE
    BY <1>1, <1>3, DoneFields
  <2> QED
    BY <1>2, <2>1
<1>4. ASSUME NEW pc \in PCs, pc \notin {"done", "hook"}, call'[c].pc = pc PROVE FALSE
  BY <1>2, <1>4
<1>5. ASSUME NEW pc, Goto(c, pc) PROVE call'[c].pc = pc
  BY <1>1, <1>5 DEF Goto, CallsInv, Calls
<1>6. ASSUME Fallback(c) PROVE FALSE
  <2>1. Done(c, FALSE) \/ call'[c].pc = "get"
    BY <1>1, <1>6 DEF Fallback, CallsInv, Calls
  <2> QED
    BY <1>3, <1>4, <2>1 DEF PCs
<1>7. ASSUME NEW n \in {1, 2, 3}, call[c].pc \in {"try 1", "try 2", "try 3"}, Try(c, n)
      PROVE  Holds(c)'
  <2>1. PICK answer \in Answers(n) :
          /\ IF answer \in {"ok", "unheard"} THEN Apply(c) ELSE UNCHANGED <<disabled, file>>
          /\ IF answer = "ok"
             THEN IF call[c].op = "using"
                  THEN call' = [call EXCEPT ![c] = [@ EXCEPT !.pc = "reread", !.last = "none"]]
                  ELSE Done(c, TRUE)
             ELSE Failed(c, n, IF answer = "unheard" THEN "lost" ELSE answer)
    BY <1>7 DEF Try
  <2>2. CASE answer # "ok"
    <3> DEFINE error == IF answer = "unheard" THEN "lost" ELSE answer
    <3>1. call'[c].pc = AfterTry(call[c].op, n, error)
      BY <1>1, <2>1, <2>2 DEF Failed, CallsInv, Calls
    <3>2. AfterTry(call[c].op, n, error) \in {"try 2", "find", "verify", "settle", "get"}
      BY DEF AfterTry
    <3> QED
      BY <1>4, <3>1, <3>2 DEF PCs
  <2>3. CASE answer = "ok" /\ call[c].op = "using"
    <3>1. call'[c].pc = "reread"
      BY <1>1, <2>1, <2>3 DEF CallsInv, Calls
    <3> QED
      BY <1>4, <3>1 DEF PCs
  <2>4. CASE answer = "ok" /\ call[c].op # "using"
    <3>1. Done(c, TRUE) /\ Apply(c)
      BY <2>1, <2>4
    <3>2. call'[c].op = call[c].op /\ call'[c].want = call[c].want
      BY <1>1, <3>1, DoneFields
    <3>3. call[c].op \in {"disabled", "delete"}
      BY <1>1, <1>7, <2>4 DEF Placed
    <3> QED
      BY <3>1, <3>2, <3>3 DEF Apply, Holds
  <2> QED
    BY <2>2, <2>3, <2>4
<1>8. CASE Try1(c) \/ Try2(c) \/ Try3(c)
  BY <1>7, <1>8 DEF Try1, Try2, Try3, At
<1>9. CASE Verify(c)
  <2>1. CASE Done(c, TRUE) /\ disabled = call[c].want
    <3>1. call'[c].op = "disabled" /\ call'[c].want = call[c].want /\ UNCHANGED disabled
      BY <1>1, <1>9, <2>1, DoneFields DEF Verify, At, Placed, host
    <3> QED
      BY <2>1, <3>1 DEF Holds
  <2> QED
    BY <1>4, <1>5, <1>9, <2>1 DEF Verify, PCs
<1>10. CASE Save(c)
  <2>1. call[c].op \in {"disabled", "using", "reauth"} /\ call[c].copy \in Json
    BY <1>1, <1>10 DEF Save, At, Placed
  <2>2. ASSUME call' = [call EXCEPT ![c].pc = "reread saved", ![c].copy = None] PROVE FALSE
    <3>1. call'[c].pc = "reread saved"
      BY <1>1, <2>2 DEF CallsInv, Calls
    <3> QED
      BY <1>4, <3>1 DEF PCs
  <2>3. CASE /\ call[c].op # "using" /\ file' = Edited(c) /\ disabled' = "off"
             /\ Done(c, SavedIsOk(call[c].op, call[c].keyed, call[c].want))
    <3> DEFINE good == SavedIsOk(call[c].op, call[c].keyed, call[c].want)
    <3>1. good \in BOOLEAN
      BY DEF SavedIsOk
    <3> HIDE DEF good
    <3>2. call'[c].op = call[c].op /\ call'[c].want = call[c].want
          /\ call'[c].pc = "done" /\ call'[c].ok = good
      BY <1>1, <2>3, <3>1, DoneFields DEF good
    <3>3. good
      BY <1>2, <3>1, <3>2
    <3>4. call[c].op = "disabled" => call[c].want = "off"
      BY <3>3 DEF good, SavedIsOk
    <3>5. Edited(c) \in Json
      BY <2>1, <2>3 DEF Edited
    <3>6. NoFile \notin Json
      BY HostFileAssumption DEF Json
    <3> QED
      BY <2>1, <2>3, <3>2, <3>4, <3>5, <3>6 DEF Holds
  <2> QED
    BY <1>3, <1>10, <2>2, <2>3 DEF Save
<1>11. CASE Reread(c)
  <2>1. call[c].op = "using"
    BY <1>1, <1>11 DEF Reread, At, Placed
  <2>2. CASE Goto(c, "hook") /\ file # NoFile /\ file.using = call[c].want
    <3>1. call'[c].op = call[c].op /\ call'[c].want = call[c].want /\ UNCHANGED file
      BY <1>1, <1>11, <2>2 DEF Goto, CallsInv, Calls, Reread, host
    <3> QED
      BY <2>1, <2>2, <3>1 DEF Holds
  <2> QED
    BY <1>3, <1>4, <1>5, <1>11, <2>2 DEF Reread, PCs
<1>12. CASE Token(c)
  <2>1. call'[c].pc = "save" \/ Done(c, FALSE)
    BY <1>1, <1>12 DEF Token, CallsInv, Calls
  <2> QED
    BY <1>3, <1>4, <2>1 DEF PCs
<1>13. CASE Get(c)
  <2> DEFINE pc == IF call[c].op = "reauth" THEN "token" ELSE "save"
  <2>0. ASSUME call' = [call EXCEPT ![c].copy = file, ![c].pc = pc]
        PROVE  call'[c].pc = pc
    <3> HIDE DEF pc
    <3>1. call' = [call EXCEPT ![c] = [call[c] EXCEPT !.copy = file, !.pc = pc]]
      BY <1>1, <2>0 DEF CallsInv
    <3> QED
      BY <1>1, <3>1 DEF CallsInv, Calls
  <2>1. call'[c].pc \in {"token", "save"} \/ Done(c, FALSE)
    BY <1>13, <2>0 DEF Get
  <2> QED
    BY <1>3, <1>4, <2>1 DEF PCs
<1>14. CASE Key(c)
  <2> DEFINE pc == IF call[c].op = "using" THEN "try 1" ELSE "check"
  <2>0. ASSUME call' = [call EXCEPT ![c].keyed = TRUE, ![c].pc = pc]
        PROVE  call'[c].pc = pc
    <3> HIDE DEF pc
    <3>1. call' = [call EXCEPT ![c] = [call[c] EXCEPT !.keyed = TRUE, !.pc = pc]]
      BY <1>1, <2>0 DEF CallsInv
    <3> QED
      BY <1>1, <3>1 DEF CallsInv, Calls
  <2>1. call'[c].pc \in {"try 1", "check", "get"} \/ Done(c, FALSE)
    BY <1>5, <1>14, <2>0 DEF Key
  <2> QED
    BY <1>3, <1>4, <2>1 DEF PCs
<1>15. CASE StartBulk(c) \/ End(c)
  <2>1. call'[c].pc \in {"list", "idle"}
    BY <1>1, <1>5, <1>15, IdleIsCall DEF StartBulk, End, CallsInv
  <2> QED
    BY <1>4, <2>1 DEF PCs
<1>16. CASE List(c)
  BY <1>3, <1>4, <1>5, <1>16 DEF List, PCs
<1>17. CASE Check(c) \/ Settle(c)
  BY <1>4, <1>5, <1>6, <1>17 DEF Check, Settle, PCs
<1>18. CASE Find(c)
  <2>1. call[c].op \in {"disabled", "using", "delete"}
    BY <1>1, <1>18 DEF Find, At, Placed
  <2>2. AfterTry(call[c].op, 3, call[c].last) \in {"verify", "settle", "get"}
    BY <2>1 DEF AfterTry
  <2> QED
    BY <1>4, <1>5, <1>18, <2>2 DEF Find, PCs
<1>19. CASE Hook(c)
  BY <1>19 DEF Hook, Succeeds
<1> QED
  BY <1>8, <1>9, <1>10, <1>11, <1>12, <1>13, <1>14, <1>15, <1>16, <1>17, <1>18, <1>19 DEF Step

LEMMA StepOk == TypeInv /\ [Next]_vars =>
                  (\A c \in Callers : ~Succeeds(c) /\ Succeeds(c)' => Holds(c)')
<1> SUFFICES ASSUME TypeInv, [Next]_vars, NEW d \in Callers, ~Succeeds(d), Succeeds(d)'
             PROVE  Holds(d)'
  OBVIOUS
<1>1. ASSUME call'[d] = call[d] PROVE FALSE
  BY <1>1 DEF Succeeds, At
<1>2. ASSUME NEW c \in Callers,
             Step(c) \/ \E task \in Tasks[c], kind \in Kinds[c] : Begin(c, task, kind)
      PROVE  Holds(d)'
  <2>1. CASE c # d
    BY <1>1, <1>2, <2>1, OthersWait
  <2>2. CASE c = d /\ Step(c)
    BY <2>2, SuccessHolds
  <2>3. ASSUME c = d, NEW task \in Tasks[c], NEW kind \in Kinds[c], Begin(c, task, kind)
        PROVE  FALSE
    <3>1. call \in [Callers -> Calls]
      BY DEF TypeInv, TypeOK
    <3>2. call'[c].pc \in {"start bulk", "list"}
      BY <2>3, <3>1, IdleIsCall DEF Begin, Calls
    <3> QED
      BY <2>3, <3>2 DEF Succeeds, At
  <2> QED
    BY <1>2, <2>1, <2>2, <2>3
<1>3. CASE \/ \E c \in Callers : PollerEnds(c)
           \/ \E r \in Readers : Sample(r) \/ PutSample(r)
           \/ BlockLapses \/ Expire
  BY <1>1, <1>3 DEF PollerEnds, Sample, PutSample, BlockLapses, Expire
<1>4. CASE UNCHANGED vars
  BY <1>1, <1>4 DEF vars
<1> QED
  BY <1>2, <1>3, <1>4 DEF Next

(* A call that answers ok has done what it was asked: when it comes to     *)
(* that point the host shows it, whichever requests were lost, refused or  *)
(* misnamed before.                                                        *)
THEOREM OkIsTrue == Spec => OkMeansDone
<1>1. TypeInv /\ [Next]_vars =>
        [\A c \in Callers : ~Succeeds(c) /\ Succeeds(c)' => Holds(c)']_vars
  BY StepOk
<1> QED
  BY <1>1, InitTypes, StepTypes, PTL DEF Spec, OkMeansDone

-----------------------------------------------------------------------------
(* The operator's key is not left behind.                                  *)

InCall(r) == r.pc \notin {"idle", "start bulk"}

KeyInv == TypeInv /\ BulkWaitedFor /\ KeyCleared

(* Between its start and its end a call stays what it is.                  *)
LEMMA KindKept ==
  ASSUME TypeInv, NEW c \in Callers, Step(c), ~StartBulk(c), ~End(c)
  PROVE  /\ InCall(call[c]) /\ InCall(call'[c]) /\ call'[c].kind = call[c].kind
         /\ UNCHANGED <<slot, poller>>
<1>1. CallsInv /\ call[c] \in Calls /\ Placed(call[c])
  BY DEF TypeInv, TypeOK, CallsInv
<1>2. InCall(call[c])
  BY DEF Step, List, Key, Check, Try1, Try2, Find, Try3, Verify, Settle, Get, Token, Save,
         Reread, Hook, At, InCall
<1>3. UNCHANGED <<slot, poller>>
  BY DEF Step, List, Key, Check, Try, Try1, Try2, Find, Try3, Verify, Settle, Get, Token, Save,
         Reread, Hook, client
<1> DEFINE Kept == InCall(call'[c]) /\ call'[c].kind = call[c].kind
<1> SUFFICES Kept
  BY <1>2, <1>3
<1>4. ASSUME NEW ok, Done(c, ok) PROVE Kept
  <2>1. call'[c] = [call[c] EXCEPT !.pc = "done", !.ok = ok, !.keyed = FALSE, !.last = "none",
                                   !.copy = None]
    BY <1>1, <1>4 DEF Done, CallsInv
  <2>2. call'[c].pc = "done" /\ call'[c].kind = call[c].kind
    BY <1>1, <2>1 DEF Calls
  <2> QED
    BY <2>2 DEF InCall
<1>5. ASSUME NEW pc, pc \notin {"idle", "start bulk"}, Goto(c, pc) PROVE Kept
  BY <1>1, <1>5 DEF Goto, CallsInv, Calls, InCall
<1>6. ASSUME NEW pc, pc \notin {"idle", "start bulk"}, NEW last,
             call' = [call EXCEPT ![c] = [call[c] EXCEPT !.pc = pc, !.last = last]]
      PROVE  Kept
  BY <1>1, <1>6 DEF CallsInv, Calls, InCall
<1>7. ASSUME NEW pc, pc \notin {"idle", "start bulk"}, NEW copy,
             call' = [call EXCEPT ![c].copy = copy, ![c].pc = pc]
      PROVE  Kept
  <2>1. call' = [call EXCEPT ![c] = [call[c] EXCEPT !.copy = copy, !.pc = pc]]
    BY <1>1, <1>7 DEF CallsInv, Calls
  <2> QED
    BY <1>1, <1>7, <2>1 DEF CallsInv, Calls, InCall
<1>8. ASSUME Fallback(c) PROVE Kept
  BY <1>4, <1>6, <1>8 DEF Fallback
<1>9. ASSUME NEW n \in {1, 2, 3}, Try(c, n) PROVE Kept
  <2>1. ASSUME NEW error, Failed(c, n, error) PROVE Kept
    <3>1. AfterTry(call[c].op, n, error) \notin {"idle", "start bulk"}
      BY DEF AfterTry
    <3> QED
      BY <1>6, <2>1, <3>1 DEF Failed
  <2> QED
    BY <1>4, <1>6, <1>9, <2>1 DEF Try
<1>10. CASE Try1(c) \/ Try2(c) \/ Try3(c)
  BY <1>9, <1>10 DEF Try1, Try2, Try3
<1>11. CASE List(c) \/ Verify(c) \/ Reread(c) \/ Hook(c)
  BY <1>4, <1>5, <1>11 DEF List, Verify, Reread, Hook
<1>12. CASE Check(c) \/ Settle(c)
  BY <1>5, <1>8, <1>12 DEF Check, Settle
<1>13. CASE Find(c)
  <2>1. AfterTry(call[c].op, 3, call[c].last) \notin {"idle", "start bulk"}
    BY DEF AfterTry
  <2> QED
    BY <1>5, <1>13, <2>1 DEF Find
<1>14. CASE Get(c)
  BY <1>4, <1>7, <1>14 DEF Get
<1>15. CASE Save(c)
  <2>1. CASE call' = [call EXCEPT ![c].pc = "reread saved", ![c].copy = None]
    <3>1. call' = [call EXCEPT ![c] = [call[c] EXCEPT !.copy = None, !.pc = "reread saved"]]
      BY <1>1, <2>1 DEF CallsInv, Calls
    <3> QED
      BY <1>1, <3>1 DEF CallsInv, Calls, InCall
  <2> QED
    BY <1>4, <1>15, <2>1 DEF Save
<1>16. CASE Token(c)
  <2>1. CASE call' = [call EXCEPT ![c].copy.token = issued', ![c].pc = "save"]
    <3> DEFINE copy == [call[c].copy EXCEPT !.token = issued']
    <3>1. call' = [call EXCEPT ![c] = [call[c] EXCEPT !.copy = copy, !.pc = "save"]]
      BY <1>1, <2>1 DEF CallsInv, Calls
    <3> HIDE DEF copy
    <3> QED
      BY <1>1, <3>1 DEF CallsInv, Calls, InCall
  <2> QED
    BY <1>4, <1>16, <2>1 DEF Token
<1>17. CASE Key(c)
  <2> DEFINE pc == IF call[c].op = "using" THEN "try 1" ELSE "check"
  <2>1. CASE call' = [call EXCEPT ![c].keyed = TRUE, ![c].pc = pc]
    <3>1. pc \notin {"idle", "start bulk"}
      OBVIOUS
    <3> HIDE DEF pc
    <3>2. call' = [call EXCEPT ![c] = [call[c] EXCEPT !.keyed = TRUE, !.pc = pc]]
      BY <1>1, <2>1 DEF CallsInv
    <3>3. call'[c].pc = pc /\ call'[c].kind = call[c].kind
      BY <1>1, <3>2 DEF CallsInv, Calls
    <3> QED
      BY <3>1, <3>3 DEF InCall
  <2> QED
    BY <1>4, <1>5, <1>17, <2>1 DEF Key
<1> QED
  BY <1>10, <1>11, <1>12, <1>13, <1>14, <1>15, <1>16, <1>17 DEF Step

LEMMA StepKey == KeyInv /\ [Next]_vars => KeyInv'
<1> SUFFICES ASSUME KeyInv, [Next]_vars PROVE (BulkWaitedFor /\ KeyCleared)'
  BY StepTypes DEF KeyInv
<1>1. TypeInv /\ call \in [Callers -> Calls]
  BY DEF KeyInv, TypeInv, TypeOK
<1> USE DEF KeyInv, BulkWaitedFor, KeyCleared, At
<1>2. ASSUME NEW c \in Callers, Step(c), ~StartBulk(c), ~End(c)
      PROVE  (BulkWaitedFor /\ KeyCleared)'
  <2>1. \A d \in Callers \ {c} : call'[d] = call[d]
    BY <1>1, <1>2, OthersWait
  <2> QED
    BY <1>1, <1>2, <2>1, KindKept DEF InCall
<1>3. ASSUME NEW c \in Callers, NEW task \in Tasks[c], NEW kind \in Kinds[c],
             Begin(c, task, kind)
      PROVE  (BulkWaitedFor /\ KeyCleared)'
  <2>1. call'[c].kind = kind /\ call'[c].pc = IF kind = "bulk" THEN "start bulk" ELSE "list"
    BY <1>1, <1>3, IdleIsCall DEF Begin, Calls
  <2>2. \A d \in Callers \ {c} : call'[d] = call[d]
    BY <1>1, <1>3 DEF Begin
  <2>3. kind \in {"background", "request", "bulk"}
    BY HostFileAssumption
  <2>4. UNCHANGED poller
    BY <1>3 DEF Begin
  <2>5. BulkWaitedFor'
    BY <2>1, <2>2, <2>4
  <2>6. slot' => slot \/ kind # "background"
    BY <1>3 DEF Begin
  <2>7. At(c, "idle")
    BY <1>3 DEF Begin
  <2>8. KeyCleared'
    BY <2>1, <2>2, <2>3, <2>4, <2>6, <2>7
  <2> QED
    BY <2>5, <2>8
<1>4. ASSUME NEW c \in Callers, StartBulk(c)
      PROVE  (BulkWaitedFor /\ KeyCleared)'
  <2>1. \A d \in Callers \ {c} : call'[d] = call[d]
    BY <1>1, <1>4 DEF StartBulk, Goto
  <2>2. CASE Goto(c, "list") /\ poller' = poller \cup {c}
    BY <2>1, <2>2
  <2>3. CASE /\ call' = [call EXCEPT ![c] = Idle]
             /\ slot' = FALSE /\ UNCHANGED poller
    <3>1. call'[c].pc = "idle"
      BY <1>1, <2>3, IdleIsCall
    <3> QED
      BY <2>1, <2>3, <3>1
  <2> QED
    BY <1>4, <2>2, <2>3 DEF StartBulk
<1>5. ASSUME NEW c \in Callers, End(c)
      PROVE  (BulkWaitedFor /\ KeyCleared)'
  <2>1. /\ call'[c].pc = "idle" /\ UNCHANGED poller
        /\ \A d \in Callers \ {c} : call'[d] = call[d]
    BY <1>1, <1>5, IdleIsCall DEF End
  <2>2. slot' => slot /\ call[c].kind # "request"
    BY <1>5 DEF End
  <2>3. call[c].kind = "bulk" => c \in poller
    BY <1>5 DEF End
  <2> QED
    BY <2>1, <2>2, <2>3
<1>6. ASSUME NEW c \in Callers, PollerEnds(c)
      PROVE  (BulkWaitedFor /\ KeyCleared)'
  <2>1. UNCHANGED call /\ poller' = poller \ {c} /\ slot' = FALSE
    BY <1>6 DEF PollerEnds
  <2>2. \A d \in Callers : ~(call[d].kind = "bulk" /\ call[d].pc \notin {"idle", "start bulk"})
    BY <1>6 DEF PollerEnds, BulkRunning
  <2>3. BulkWaitedFor'
    BY <2>1, <2>2
  <2>4. KeyCleared'
    BY <2>1
  <2> QED
    BY <2>3, <2>4
<1>7. CASE \/ \E r \in Readers : Sample(r) \/ PutSample(r)
           \/ BlockLapses \/ Expire \/ UNCHANGED vars
  <2>1. UNCHANGED <<slot, poller, call>>
    BY <1>7 DEF Sample, PutSample, BlockLapses, Expire, vars, client
  <2> QED
    BY <2>1
<1> QED
  BY <1>2, <1>3, <1>4, <1>5, <1>6, <1>7 DEF Next

(* While the operator's key is in the engine's slot somebody is there who  *)
(* will clear it.                                                          *)
THEOREM KeyIsCleared == Spec => []KeyCleared
<1>1. Init => KeyInv
  <2> SUFFICES ASSUME Init PROVE KeyInv
    OBVIOUS
  <2>1. BulkWaitedFor /\ KeyCleared
    BY IdleIsCall DEF Init, BulkWaitedFor, KeyCleared
  <2> QED
    BY <2>1, InitTypes DEF KeyInv
<1>2. KeyInv => KeyCleared
  BY DEF KeyInv
<1> QED
  BY <1>1, <1>2, StepKey, PTL DEF Spec
=============================================================================
