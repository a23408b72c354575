--------------------------- MODULE PersisterProofs ---------------------------
(***************************************************************************)
(* Theorems about the state file, for any number of savers and of changes, *)
(* whatever saves and reloads overlap, fail, or are cut off by a crash.    *)
(***************************************************************************)
EXTENDS Persister, TLAPS

(* Types.  Load replaces memory by what it read only when that is a state. *)
TypeInv == TypeOK /\ (load # "idle" => loaded \in Images)

LEMMA FirstIsImage == First \in Images
BY DEF First, Images

LEMMA ReadableIsImage ==
  ASSUME NEW c \in Contents, Readable(c)
  PROVE  c \in Images
BY DEF Contents, Readable

LEMMA ImageIsReadable ==
  ASSUME NEW c \in Images
  PROVE  Readable(c)
BY ContentsAssumption DEF Readable

LEMMA DiskIsImage ==
  ASSUME TypeOK
  PROVE  Disk \in Images
BY FirstIsImage, ReadableIsImage DEF Disk, TypeOK

LEMMA InitTypes == Init => TypeInv
<1> SUFFICES ASSUME Init PROVE TypeInv
  OBVIOUS
<1>1. memory \in Images /\ image \in [Savers -> Images]
  BY FirstIsImage DEF Init
<1>2. /\ at \in [Savers -> {"idle", "schedule", "read", "snapshot", "open", "write", "rename"}]
      /\ holds \in [Savers -> {"none", "tmp", "state", "gone"}]
  BY DEF Init
<1>3. tmp \in Contents /\ state \in Contents /\ loaded \in Contents
  BY DEF Init, Contents
<1>4. armed \in BOOLEAN /\ failed \in BOOLEAN
  BY Zenon DEF Init
<1>5. /\ clock \in Nat /\ owed \in Nat /\ load = "idle"
      /\ pending \in [Parts -> {"none", "silent", "announced"}]
      /\ order \in {"kept", "lost", "mending"}
  BY DEF Init
<1> QED
  BY <1>1, <1>2, <1>3, <1>4, <1>5 DEF TypeInv, TypeOK

LEMMA NewVersionTypes ==
  ASSUME TypeOK, NEW p \in Parts, NewVersion(p)
  PROVE  memory' \in Images /\ clock' \in Nat
BY DEF TypeOK, NewVersion, Images

LEMMA StepTypes == TypeInv /\ [Next]_vars => TypeInv'
<1> SUFFICES ASSUME TypeInv, [Next]_vars PROVE TypeInv'
  OBVIOUS
<1> USE DEF TypeInv, saving, file, history
<1>1. CASE Change
  BY <1>1, NewVersionTypes DEF Change, Announce, TypeOK
<1>silent. CASE SilentChange
  BY <1>silent, NewVersionTypes DEF SilentChange, TypeOK, Parts
<1>2. CASE ScheduleSave
  BY <1>2 DEF ScheduleSave, TypeOK
<1>3. ASSUME NEW s \in Savers, Fire(s) PROVE TypeInv'
  BY <1>3 DEF Fire, Begin, Goto, TypeOK
<1>4. ASSUME NEW s \in Savers, HandlerChange(s) PROVE TypeInv'
  BY <1>4, NewVersionTypes DEF HandlerChange, Announce, Goto, TypeOK
<1>5. ASSUME NEW s \in Savers, Flush(s) PROVE TypeInv'
  BY <1>5 DEF Flush, Begin, Goto, TypeOK
<1>6. ASSUME NEW s \in Savers, HandlerSchedule(s) PROVE TypeInv'
  BY <1>6 DEF HandlerSchedule, Begin, Goto, TypeOK
<1>7. ASSUME NEW s \in Savers, Read(s) PROVE TypeInv'
  BY <1>7 DEF Read, Goto, TypeOK, Images, Parts
<1>8. ASSUME NEW s \in Savers, Snapshot(s) PROVE TypeInv'
  BY <1>8 DEF Snapshot, Goto, TypeOK, Images, Parts
<1>9. ASSUME NEW s \in Savers, Open(s) PROVE TypeInv'
  BY <1>9 DEF Open, Goto, TypeOK, Contents
<1>10. ASSUME NEW s \in Savers, Write(s) PROVE TypeInv'
  BY <1>10 DEF Write, WriteTo, Over, Goto, TypeOK, Contents
<1>11. ASSUME NEW s \in Savers, Rename(s) PROVE TypeInv'
  <2>1. tmp' \in Contents /\ state' \in Contents
    BY <1>11 DEF Rename, TypeOK, Contents
  <2>2. holds' \in [Savers -> {"none", "tmp", "state", "gone"}]
    BY <1>11 DEF Rename, TypeOK
  <2>3. at' \in [Savers -> {"idle", "schedule", "read", "snapshot", "open", "write", "rename"}]
    BY <1>11 DEF Rename, End, Goto, TypeOK
  <2>4. image' \in [Savers -> Images] /\ failed' \in BOOLEAN /\ order' \in {"kept", "lost", "mending"}
    BY <1>11, FirstIsImage DEF Rename, End, Mended, TypeOK
  <2> QED
    BY <1>11, <2>1, <2>2, <2>3, <2>4 DEF Rename, TypeOK
<1>12. ASSUME NEW s \in Savers, Fail(s) PROVE TypeInv'
  BY <1>12, FirstIsImage DEF Fail, WriteTo, End, Mended, Goto, TypeOK, Contents
<1>13. CASE Restart
  BY <1>13, FirstIsImage, ReadableIsImage DEF Restart, StartAfresh, TypeOK, Contents
<1>14. CASE LoadFile
  BY <1>14, ReadableIsImage DEF LoadFile, TypeOK
<1>15. CASE LoadLedger
  BY <1>15 DEF LoadLedger, Replace, TypeOK, Images, Parts
<1>16. CASE LoadSettings
  BY <1>16 DEF LoadSettings, Replace, TypeOK, Images, Parts, Contents
<1>17. CASE UNCHANGED vars
  BY <1>17 DEF vars, TypeOK
<1> QED
  BY <1>1, <1>silent, <1>2, <1>3, <1>4, <1>5, <1>6, <1>7, <1>8, <1>9, <1>10, <1>11, <1>12,
     <1>13, <1>14, <1>15, <1>16, <1>17 DEF Next, SaveStep

THEOREM TypeInvariant == Spec => []TypeInv
BY InitTypes, StepTypes, PTL DEF Spec

(***************************************************************************)
(* Memory, timer, saves and files keep their types, whatever overlaps.     *)
(***************************************************************************)
THEOREM PersisterType == Spec => []TypeOK
<1>1. TypeInv => TypeOK
  BY DEF TypeInv
<1> QED
  BY <1>1, TypeInvariant, PTL
-----------------------------------------------------------------------------
(* The debounce.                                                           *)

LEMMA DebounceStep == TypeInv /\ NoChangeForgotten /\ [Next]_vars => NoChangeForgotten'
<1> SUFFICES ASSUME TypeInv, NoChangeForgotten, [Next]_vars PROVE NoChangeForgotten'
  OBVIOUS
<1> USE DEF saving, file, history
<1>type. /\ pending \in [Parts -> {"none", "silent", "announced"}] /\ owed \in Nat
         /\ at \in [Savers -> {"idle", "schedule", "read", "snapshot", "open", "write", "rename"}]
         /\ Parts = {"ledger", "settings"}
  BY DEF TypeInv, TypeOK, Parts
<1>1. CASE Change
  <2>1. owed' > 0
    BY <1>1, <1>type DEF Change
  <2> QED
    BY <2>1 DEF NoChangeForgotten, Waiting
\* A silent change is nobody's to save, and takes nothing from who waits.
<1>2. CASE SilentChange
  <2>1. \A p \in Parts : pending'[p] = "announced" => pending[p] = "announced"
    BY <1>2, <1>type DEF SilentChange
  <2> QED
    BY <1>2, <1>type, <2>1 DEF SilentChange, NoChangeForgotten, Waiting
<1>3. CASE ScheduleSave
  BY <1>3 DEF ScheduleSave, NoChangeForgotten, Waiting
<1>4. ASSUME NEW s \in Savers, Fire(s) \/ Flush(s) PROVE NoChangeForgotten'
  <2>1. at'[s] = "read"
    BY <1>4, <1>type DEF Fire, Flush, Begin, Goto
  <2> QED
    BY <2>1 DEF NoChangeForgotten, Waiting
<1>5. ASSUME NEW s \in Savers, HandlerChange(s) PROVE NoChangeForgotten'
  <2>1. at'[s] = "schedule"
    BY <1>5, <1>type DEF HandlerChange, Goto
  <2> QED
    BY <2>1 DEF NoChangeForgotten, Waiting
<1>6. ASSUME NEW s \in Savers, HandlerSchedule(s) PROVE NoChangeForgotten'
  BY <1>6 DEF HandlerSchedule, NoChangeForgotten, Waiting
\* A save that has read a part lets go of it; who waits for the other still waits.
<1>7. ASSUME NEW s \in Savers, Read(s) PROVE NoChangeForgotten'
  <2>1. /\ pending'["settings"] = "none" /\ at'[s] = "snapshot"
    BY <1>7, <1>type DEF Read, Goto
  <2> QED
    BY <2>1 DEF NoChangeForgotten, Waiting
<1>8. ASSUME NEW s \in Savers, Snapshot(s) PROVE NoChangeForgotten'
  <2>1. /\ pending'["ledger"] = "none" /\ pending'["settings"] = pending["settings"]
        /\ owed' = owed /\ armed' = armed
        /\ \A t \in Savers : at[t] \in {"schedule", "read"} => at'[t] = at[t]
    BY <1>8, <1>type DEF Snapshot, Goto
  <2> QED
    BY <2>1 DEF NoChangeForgotten, Waiting
<1>9. ASSUME NEW s \in Savers, Open(s) \/ Write(s) \/ Rename(s) \/ Fail(s)
      PROVE  NoChangeForgotten'
  <2>1. pending' = pending /\ owed' = owed /\ armed' = armed
    BY <1>9 DEF Open, Write, Rename, Fail
  <2>2. \A t \in Savers : at[t] \in {"schedule", "read", "snapshot"} => at'[t] = at[t]
    BY <1>9, <1>type DEF Open, Write, Rename, Fail, End, Goto
  <2> QED
    BY <2>1, <2>2 DEF NoChangeForgotten, Waiting
<1>10. CASE Restart
  <2>1. \A p \in Parts : pending'[p] = "none"
    BY <1>10 DEF Restart, StartAfresh
  <2> QED
    BY <2>1, <1>type DEF NoChangeForgotten
<1>11. CASE LoadLedger \/ LoadSettings
  <2>1. owed' = owed /\ armed' = armed /\ at' = at
    BY <1>11 DEF LoadLedger, LoadSettings, Replace
  <2>2. \A q \in Parts : pending'[q] = "announced" => pending[q] = "announced"
    BY <1>11, <1>type DEF LoadLedger, LoadSettings, Replace
  <2> QED
    BY <2>1, <2>2, <1>type DEF NoChangeForgotten, Waiting
<1>12. CASE LoadFile \/ UNCHANGED vars
  BY <1>12 DEF LoadFile, vars, NoChangeForgotten, Waiting
<1> QED
  BY <1>1, <1>2, <1>3, <1>4, <1>5, <1>6, <1>7, <1>8, <1>9, <1>10, <1>11, <1>12
  DEF Next, SaveStep

(***************************************************************************)
(* Debouncing forgets no announced change, for any number of savers, also  *)
(* while they overlap, fail, crash and reload, and whatever changes nobody *)
(* announces come between.                                                 *)
(***************************************************************************)
THEOREM DebounceForgetsNothing == Spec => []NoChangeForgotten
<1>1. Init => NoChangeForgotten
  BY DEF Init, NoChangeForgotten, Parts
<1> QED
  BY <1>1, DebounceStep, TypeInvariant, PTL DEF Spec
-----------------------------------------------------------------------------
(* Saves that keep out of each other's way.                                *)

Busy(s) == at[s] \notin {"idle", "schedule"}

(* While order is not lost only one save is under way, no reload beside    *)
(* it, it alone has the temporary file open, and what it is about to       *)
(* rename is what it read.  A file is open only where it is written.       *)
KeptApart ==
  /\ \A s \in Savers : at[s] # "write" => holds[s] = "none"
  /\ order # "lost" => /\ \A s, t \in Savers : Busy(s) /\ Busy(t) => s = t
                       /\ load # "idle" => ~SaveUnderWay
                       /\ \A s \in Savers : at[s] = "write" => holds[s] = "tmp" /\ tmp = Empty
                       /\ \A s \in Savers : at[s] = "rename" => tmp = image[s]
  /\ order = "mending" => SaveUnderWay
  /\ order = "kept" => Whole(state)

LEMMA UnderWay == SaveUnderWay <=> \E s \in Savers : Busy(s)
BY DEF SaveUnderWay, Busy

(* A save that begins finds nobody under way, or order is lost.            *)
LEMMA BeginKeepsApart ==
  ASSUME TypeInv, KeptApart, NEW s \in Savers, Begin(s), ~Busy(s),
         UNCHANGED <<image, holds, tmp, state, load>>
  PROVE  KeptApart'
<1>type. at \in [Savers -> {"idle", "schedule", "read", "snapshot", "open", "write", "rename"}]
  BY DEF TypeInv, TypeOK
<1>1. at'[s] = "read" /\ \A t \in Savers : t # s => at'[t] = at[t]
  BY <1>type DEF Begin, Goto
<1>2. \A t \in Savers : at'[t] # "write" => holds'[t] = "none"
  BY <1>1 DEF KeptApart, Busy
<1>3. SaveUnderWay'
  BY <1>1 DEF SaveUnderWay
<1>4. CASE SaveUnderWay \/ load # "idle"
  BY <1>2, <1>4 DEF Begin, KeptApart
<1>5. CASE ~SaveUnderWay /\ load = "idle"
  <2>1. \A t \in Savers : ~Busy(t)
    BY <1>5, UnderWay
  <2>2. \A t \in Savers : t # s => at'[t] \in {"idle", "schedule"}
    BY <1>1, <2>1 DEF Busy
  <2>3. order' = "kept" => Whole(state')
    BY <1>5 DEF Begin, KeptApart
  <2> QED
    BY <1>1, <1>2, <1>3, <1>5, <2>2, <2>3 DEF KeptApart, Busy, Whole, Readable
<1> QED
  BY <1>4, <1>5

LEMMA ApartStep == TypeInv /\ KeptApart /\ [Next]_vars => KeptApart'
<1> SUFFICES ASSUME TypeInv, KeptApart, [Next]_vars PROVE KeptApart'
  OBVIOUS
<1> USE DEF saving, file, history
<1>type. /\ at \in [Savers -> {"idle", "schedule", "read", "snapshot", "open", "write", "rename"}]
         /\ holds \in [Savers -> {"none", "tmp", "state", "gone"}]
         /\ image \in [Savers -> Images] /\ tmp \in Contents /\ state \in Contents
         /\ order \in {"kept", "lost", "mending"}
  BY DEF TypeInv, TypeOK
<1>1. CASE Change \/ SilentChange \/ ScheduleSave \/ UNCHANGED vars
  <2>1. UNCHANGED <<at, image, holds, tmp, state, load, order>>
    BY <1>1 DEF Change, SilentChange, ScheduleSave, vars
  <2> QED
    BY <2>1 DEF KeptApart, Busy, SaveUnderWay, Whole, Readable
<1>2. ASSUME NEW s \in Savers, Fire(s) \/ HandlerSchedule(s) \/ Flush(s) PROVE KeptApart'
  <2>1. Begin(s) /\ ~Busy(s) /\ UNCHANGED <<image, holds, tmp, state, load>>
    BY <1>2 DEF Fire, HandlerSchedule, Flush, Busy
  <2> QED
    BY <2>1, BeginKeepsApart
<1>3. ASSUME NEW s \in Savers, HandlerChange(s) PROVE KeptApart'
  <2>1. /\ at[s] = "idle" /\ at'[s] = "schedule" /\ \A t \in Savers : t # s => at'[t] = at[t]
        /\ UNCHANGED <<image, holds, tmp, state, load, order>>
    BY <1>3, <1>type DEF HandlerChange, Goto
  <2>2. SaveUnderWay' <=> SaveUnderWay
    BY <2>1 DEF SaveUnderWay
  <2> QED
    BY <2>1, <2>2 DEF KeptApart, Busy, Whole, Readable
\* A save goes on to its next step.
<1>4. ASSUME NEW s \in Savers, Read(s) \/ Snapshot(s) \/ Open(s) \/ Write(s)
      PROVE  /\ Busy(s) /\ Busy(s)' /\ \A t \in Savers : t # s => at'[t] = at[t]
             /\ UNCHANGED <<load, order>> /\ SaveUnderWay' /\ SaveUnderWay
  <2>1. /\ Busy(s) /\ at'[s] \in {"snapshot", "open", "write", "rename"}
        /\ \A t \in Savers : t # s => at'[t] = at[t]
        /\ UNCHANGED <<load, order>>
    BY <1>4, <1>type DEF Read, Snapshot, Open, Write, Goto, Busy
  <2> QED
    BY <2>1 DEF Busy, SaveUnderWay
<1>5. ASSUME NEW s \in Savers, Read(s) \/ Snapshot(s) PROVE KeptApart'
  <2>1. /\ at[s] \notin {"write", "rename"} /\ at'[s] \notin {"write", "rename"}
        /\ UNCHANGED <<holds, tmp, state>> /\ \A t \in Savers : t # s => image'[t] = image[t]
    BY <1>5, <1>type DEF Read, Snapshot, Goto
  <2> QED
    BY <1>4, <1>5, <2>1 DEF KeptApart, Busy, Whole, Readable
<1>6. ASSUME NEW s \in Savers, Open(s) PROVE KeptApart'
  <2>1. /\ at'[s] = "write" /\ holds'[s] = "tmp" /\ tmp' = Empty
        /\ \A t \in Savers : t # s => holds'[t] = holds[t]
        /\ UNCHANGED <<image, state>>
    BY <1>6, <1>type DEF Open, Goto
  <2> QED
    BY <1>4, <1>6, <2>1 DEF KeptApart, Busy, Whole, Readable
<1>7. ASSUME NEW s \in Savers, Write(s) PROVE KeptApart'
  <2>1. /\ at[s] = "write" /\ at'[s] = "rename" /\ holds'[s] = "none"
        /\ \A t \in Savers : t # s => holds'[t] = holds[t]
        /\ image' = image
    BY <1>7, <1>type DEF Write, WriteTo, Goto
  <2>2. ASSUME order # "lost" PROVE tmp' = image[s] /\ state' = state
    <3>1. holds[s] = "tmp" /\ tmp = Empty
      BY <2>1, <2>2 DEF KeptApart
    <3> QED
      BY <1>7, <3>1 DEF Write, WriteTo, Over
  <2> QED
    BY <1>4, <1>7, <2>1, <2>2, <1>type DEF KeptApart, Busy, Whole, Readable
<1>8. ASSUME NEW s \in Savers, Rename(s) PROVE KeptApart'
  <2>1. /\ at[s] = "rename" /\ at'[s] = "idle" /\ load' = load
        /\ \A t \in Savers : t # s => at'[t] = at[t] /\ image'[t] = image[t]
    BY <1>8, <1>type DEF Rename, End, Goto
  <2>2. \A t \in Savers : at'[t] # "write" => holds'[t] = "none"
    BY <1>8, <1>type, <2>1 DEF Rename, KeptApart
  <2>3. CASE order # "lost"
    <3>1. tmp = image[s] /\ image[s] \in Images
      BY <1>type, <2>1, <2>3 DEF KeptApart
    <3>2. tmp # Absent /\ Readable(tmp)
      BY <3>1, ContentsAssumption, ImageIsReadable
    <3>3. state' = tmp /\ order' = "kept"
      BY <1>8, <1>type, <2>3, <3>2 DEF Rename, Mended
    <3>4. \A t \in Savers : ~Busy(t)'
      <4>1. \A t \in Savers : t # s => ~Busy(t)
        BY <2>1, <2>3 DEF KeptApart, Busy
      <4> QED
        BY <2>1, <4>1 DEF Busy
    <3>5. Whole(state')
      BY <3>2, <3>3 DEF Whole, Readable
    <3> QED
      BY <2>2, <3>3, <3>4, <3>5 DEF KeptApart, Busy, SaveUnderWay, Whole, Readable
  <2>4. CASE order = "lost"
    <3>1. order' = "lost"
      BY <1>8, <2>4 DEF Rename, Mended
    <3> QED
      BY <2>2, <3>1 DEF KeptApart
  <2> QED
    BY <2>3, <2>4
<1>9. ASSUME NEW s \in Savers, Fail(s) PROVE KeptApart'
  <2>1. /\ at[s] \in {"open", "write", "rename"} /\ at'[s] = "idle" /\ load' = load
        /\ \A t \in Savers : t # s => at'[t] = at[t] /\ image'[t] = image[t] /\ holds'[t] = holds[t]
    BY <1>9, <1>type DEF Fail, WriteTo, End, Goto
  <2>2. \A t \in Savers : at'[t] # "write" => holds'[t] = "none"
    BY <1>9, <1>type, <2>1 DEF Fail, WriteTo, KeptApart
  <2>3. CASE order = "kept"
    <3>1. state' = state /\ order' = "kept"
      <4>1. holds[s] # "state" /\ (at[s] = "write" => holds[s] = "tmp")
        BY <2>1, <2>3 DEF KeptApart
      <4> QED
        BY <1>9, <2>3, <4>1 DEF Fail, WriteTo, Mended
    <3>2. \A t \in Savers : ~Busy(t)'
      <4>1. \A t \in Savers : t # s => ~Busy(t)
        BY <2>1, <2>3 DEF KeptApart, Busy
      <4> QED
        BY <2>1, <4>1 DEF Busy
    <3> QED
      BY <2>2, <2>3, <3>1, <3>2 DEF KeptApart, Busy, SaveUnderWay, Whole, Readable
  <2>4. CASE order # "kept"
    <3>1. order' = "lost"
      BY <1>9, <2>4, <1>type DEF Fail, Mended
    <3> QED
      BY <2>2, <3>1 DEF KeptApart
  <2> QED
    BY <2>3, <2>4
<1>10. CASE Restart
  <2>1. /\ \A s \in Savers : at'[s] = "idle" /\ holds'[s] = "none"
        /\ order' \in {"kept", "lost"} /\ state' = state
        /\ order' = "kept" => order = "kept" \/ Whole(state)
    BY <1>10 DEF Restart, StartAfresh
  <2>2. ~SaveUnderWay'
    BY <2>1 DEF SaveUnderWay
  <2> QED
    BY <2>1, <2>2 DEF KeptApart, Busy, Whole, Readable
<1>11. CASE LoadFile
  <2>1. UNCHANGED <<at, image, holds, tmp, state>> /\ order' = IF SaveUnderWay THEN "lost" ELSE order
    BY <1>11 DEF LoadFile
  <2> QED
    BY <2>1 DEF KeptApart, Busy, SaveUnderWay, Whole, Readable
<1>12. CASE LoadLedger \/ LoadSettings
  <2>1. UNCHANGED <<at, image, holds, tmp, state, order>> /\ load # "idle"
    BY <1>12 DEF LoadLedger, LoadSettings, Replace
  <2> QED
    BY <2>1 DEF KeptApart, Busy, SaveUnderWay, Whole, Readable
<1> QED
  BY <1>1, <1>2, <1>3, <1>5, <1>6, <1>7, <1>8, <1>9, <1>10, <1>11, <1>12 DEF Next, SaveStep

LEMMA ApartInit == Init => KeptApart
BY DEF Init, KeptApart, Busy, SaveUnderWay, Whole

(***************************************************************************)
(* The state file is whole, whatever call fails and wherever the process   *)
(* dies, unless saves were under way together; and then it is whole again  *)
(* after the next save that runs alone.                                    *)
(***************************************************************************)
THEOREM StateStaysReadable == Spec => []StateReadable
<1>1. KeptApart => StateReadable
  BY DEF KeptApart, StateReadable
<1> QED
  BY <1>1, ApartInit, ApartStep, TypeInvariant, PTL DEF Spec
-----------------------------------------------------------------------------
(* Versions.                                                               *)

UpTo(c, v) == \A p \in Parts : c[p] <= v

(* No content is newer than the clock.                                     *)
Dated ==
  /\ UpTo(memory, clock)
  /\ \A s \in Savers : UpTo(image[s], clock)
  /\ \A c \in {tmp, state, loaded} : Readable(c) => UpTo(c, clock)

LEMMA UpToLater ==
  ASSUME NEW c \in Images, NEW v \in Nat, NEW w \in Nat, v <= w, UpTo(c, v)
  PROVE  UpTo(c, w)
BY DEF UpTo, Images

LEMMA FirstUpTo == \A v \in Nat : UpTo(First, v)
BY DEF UpTo, First

LEMMA NewVersionIs ==
  ASSUME TypeInv, Dated, NEW p \in Parts, NewVersion(p)
  PROVE  /\ clock' = clock + 1 /\ memory'[p] = clock + 1
         /\ \A q \in Parts : q # p => memory'[q] = memory[q]
         /\ memory' = [memory EXCEPT ![p] = memory'[p]]
         /\ \A q \in Parts : memory[q] <= memory'[q] /\ memory'[q] <= clock'
<1>1. memory \in [Parts -> Nat] /\ clock \in Nat /\ \A q \in Parts : memory[q] <= clock
  BY DEF TypeInv, TypeOK, Images, Dated, UpTo
<1>2. memory' = [memory EXCEPT ![p] = clock + 1] /\ clock' = clock + 1
  BY DEF NewVersion
<1>3. memory'[p] = clock + 1 /\ \A q \in Parts : q # p => memory'[q] = memory[q]
  BY <1>1, <1>2
<1>4. \A q \in Parts : memory[q] <= memory'[q] /\ memory'[q] <= clock'
  <2> TAKE q \in Parts
  <2>1. memory[q] \in Nat /\ memory[q] <= clock
    BY <1>1
  <2> QED
    BY <1>1, <1>2, <1>3, <2>1
<1> QED
  BY <1>2, <1>3, <1>4

LEMMA DatedStep == TypeInv /\ Dated /\ [Next]_vars => Dated'
<1> SUFFICES ASSUME TypeInv, Dated, [Next]_vars PROVE Dated'
  OBVIOUS
<1> USE DEF saving, file, history
<1>type. /\ image \in [Savers -> Images] /\ memory \in Images /\ clock \in Nat
         /\ tmp \in Contents /\ state \in Contents /\ loaded \in Contents
         /\ load # "idle" => Readable(loaded)
  BY ImageIsReadable DEF TypeInv, TypeOK
<1>torn. ~Readable(Empty) /\ ~Readable(Torn) /\ ~Readable(Absent)
  BY DEF Readable
<1>1. ASSUME NEW p \in Parts, NewVersion(p), UNCHANGED <<image, tmp, state, loaded>>
      PROVE  Dated'
  <2>1. clock' = clock + 1 /\ UpTo(memory', clock')
    BY <1>1, NewVersionIs DEF UpTo
  <2>2. \A c \in Images : UpTo(c, clock) => UpTo(c, clock')
    BY <1>type, <2>1, UpToLater
  <2>3. \A s \in Savers : UpTo(image'[s], clock')
    BY <1>1, <1>type, <2>2 DEF Dated
  <2>4. \A c \in {tmp', state', loaded'} : Readable(c) => UpTo(c, clock')
    BY <1>1, <1>type, <2>2, ReadableIsImage DEF Dated
  <2> QED
    BY <2>1, <2>3, <2>4 DEF Dated, UpTo, Readable
<1>2. CASE Change \/ SilentChange
  <2>1. "ledger" \in Parts
    BY DEF Parts
  <2>2. PICK p \in Parts : NewVersion(p)
    BY <1>2, <2>1 DEF Change, SilentChange
  <2> QED
    BY <1>1, <1>2, <2>2 DEF Change, SilentChange
<1>3. ASSUME NEW s \in Savers, HandlerChange(s) PROVE Dated'
  BY <1>1, <1>3 DEF HandlerChange
\* Steps after which everything is a content there was, or no state at all.
<1>4. ASSUME UNCHANGED clock, UpTo(memory', clock),
             \A s \in Savers : UpTo(image'[s], clock),
             \A c \in {tmp', state', loaded'} :
               \/ c \in {tmp, state, loaded, Empty, Torn, Absent}
               \/ \E s \in Savers : c = image[s]
      PROVE  Dated'
  <2>1. \A c \in {tmp', state', loaded'} : Readable(c) => UpTo(c, clock)
    BY <1>4, <1>torn DEF Dated
  <2> QED
    BY <1>4, <2>1 DEF Dated, UpTo, Readable
<1>memory. UpTo(memory, clock) /\ \A s \in Savers : UpTo(image[s], clock)
  BY DEF Dated
<1>5. CASE ScheduleSave \/ UNCHANGED vars \/ LoadFile
  BY <1>4, <1>5, <1>memory DEF ScheduleSave, vars, LoadFile
<1>6. ASSUME NEW s \in Savers, Fire(s) \/ Flush(s) \/ HandlerSchedule(s) \/ Open(s) \/ Write(s)
      PROVE  Dated'
  <2>1. UNCHANGED <<clock, memory, image, loaded>>
    BY <1>6 DEF Fire, Flush, HandlerSchedule, Open, Write
  <2>2. \A c \in {tmp', state'} : c \in {tmp, state, Empty, Torn, image[s]}
    BY <1>6 DEF Fire, Flush, HandlerSchedule, Open, Write, WriteTo, Over
  <2> QED
    BY <1>4, <1>memory, <2>1, <2>2
<1>7. ASSUME NEW s \in Savers, Read(s) \/ Snapshot(s) PROVE Dated'
  <2>1. UNCHANGED <<clock, memory, tmp, state, loaded>>
    BY <1>7 DEF Read, Snapshot
  <2>2. ASSUME NEW t \in Savers, NEW q \in Parts PROVE image'[t][q] <= clock
    <3>1. image'[t][q] = image[t][q] \/ image'[t][q] = memory[q]
      BY <1>7, <1>type DEF Read, Snapshot, Images, Parts
    <3> QED
      BY <3>1, <1>memory DEF UpTo
  <2>3. \A t \in Savers : UpTo(image'[t], clock)
    BY <2>2 DEF UpTo
  <2> QED
    BY <1>4, <1>memory, <2>1, <2>3
<1>8. ASSUME NEW s \in Savers, Rename(s) \/ Fail(s) PROVE Dated'
  <2>1. UNCHANGED <<clock, memory, loaded>> /\ image' = [image EXCEPT ![s] = First]
    BY <1>8 DEF Rename, Fail, End
  <2>2. \A t \in Savers : UpTo(image'[t], clock)
    <3> TAKE t \in Savers
    <3>1. image'[t] = image[t] \/ image'[t] = First
      BY <1>type, <2>1
    <3> QED
      BY <1>memory, <1>type, <3>1, FirstUpTo
  <2>3. \A c \in {tmp', state'} : c \in {tmp, state, Torn, Absent}
    BY <1>8 DEF Rename, Fail, WriteTo
  <2> QED
    BY <1>4, <1>memory, <2>1, <2>2, <2>3
<1>9. CASE Restart
  <2>1. clock' = clock /\ tmp' = tmp /\ state' = state /\ loaded' = Absent
        /\ \A s \in Savers : image'[s] = First
    BY <1>9 DEF Restart, StartAfresh
  <2>2. UpTo(memory', clock)
    BY <1>9, <1>type, FirstUpTo DEF Restart, Dated
  <2>3. \A s \in Savers : UpTo(image'[s], clock)
    BY <1>type, <2>1, FirstUpTo
  <2> QED
    BY <1>4, <2>1, <2>2, <2>3
<1>10. CASE LoadLedger \/ LoadSettings
  <2>1. clock' = clock /\ image' = image /\ tmp' = tmp /\ state' = state /\ loaded' \in {loaded, Absent}
    BY <1>10 DEF LoadLedger, LoadSettings, Replace
  <2>2. UpTo(loaded, clock)
    BY <1>10, <1>type DEF Dated, LoadLedger, LoadSettings
  <2>3. \E p \in Parts : memory' = [memory EXCEPT ![p] = loaded[p]]
    BY <1>10 DEF LoadLedger, LoadSettings, Replace, Parts
  <2>4. UpTo(memory', clock)
    BY <1>memory, <1>type, <2>2, <2>3 DEF UpTo, Images
  <2> QED
    BY <1>4, <1>memory, <2>1, <2>4
<1> QED
  BY <1>2, <1>3, <1>5, <1>6, <1>7, <1>8, <1>9, <1>10 DEF Next, SaveStep

LEMMA DatedInit == Init => Dated
<1> SUFFICES ASSUME Init PROVE Dated
  OBVIOUS
<1>1. memory = First /\ clock = 0 /\ \A s \in Savers : image[s] = First
  BY DEF Init
<1>2. ~Readable(tmp) /\ ~Readable(state) /\ ~Readable(loaded)
  BY DEF Init, Readable
<1> QED
  BY <1>1, <1>2, FirstUpTo DEF Dated
-----------------------------------------------------------------------------
(* The promise of Durable.                                                 *)

(* What a save under way has read lies between the disk and memory; while  *)
(* it mends the order, memory alone bounds it.                             *)
Between(s, p) ==
  /\ image[s][p] <= memory[p]
  /\ order = "kept" => Disk[p] <= image[s][p]

Ordered ==
  /\ order = "kept" => /\ \A p \in Parts : Disk[p] <= memory[p]
                       /\ load # "idle" => loaded = state
  /\ order # "lost" =>
       \A s \in Savers :
         /\ at[s] \in {"snapshot", "open", "write", "rename"} => Between(s, "settings")
         /\ at[s] \in {"open", "write", "rename"} => Between(s, "ledger")

StoreInv == TypeInv /\ KeptApart /\ Dated /\ Ordered

PromiseStep == [Promise!Next]_<<memory, Disk, order # "kept">>

LEMMA DiskOf ==
  ASSUME state' = state
  PROVE  Disk' = Disk
BY DEF Disk, Readable

LEMMA DiskDated ==
  ASSUME TypeInv, Dated
  PROVE  Disk \in [Parts -> Nat] /\ \A p \in Parts : Disk[p] <= clock
<1>1. UpTo(First, clock)
  BY FirstUpTo DEF TypeInv, TypeOK
<1> QED
  BY <1>1, DiskIsImage DEF TypeInv, Images, Dated, UpTo, Disk

(* Ordered survives a step that leaves the disk and what the saves have    *)
(* read alone, lets memory only grow, and mends or keeps no order that was *)
(* not there.                                                              *)
LEMMA OrderedKept ==
  ASSUME StoreInv, TypeInv', state' = state, \A q \in Parts : memory[q] <= memory'[q],
         order' = "kept" => order = "kept",
         order' = "kept" /\ load' # "idle" => loaded' = state,
         order' # "lost" => order # "lost" \/ \A t \in Savers : at'[t] \in {"idle", "schedule", "read"},
         \A t \in Savers :
           /\ at'[t] = "snapshot" => at[t] = "snapshot" /\ image'[t] = image[t]
           /\ at'[t] \in {"open", "write", "rename"} =>
                at[t] \in {"open", "write", "rename"} /\ image'[t] = image[t]
  PROVE  Ordered'
<1>type. /\ memory \in [Parts -> Nat] /\ memory' \in [Parts -> Nat] /\ Disk \in [Parts -> Nat]
         /\ image \in [Savers -> [Parts -> Nat]]
  BY DiskIsImage DEF StoreInv, TypeInv, TypeOK, Images
<1>disk. Disk' = Disk
  BY DiskOf
<1>parts. "settings" \in Parts /\ "ledger" \in Parts
  BY DEF Parts
<1>1. ASSUME order' = "kept", NEW q \in Parts PROVE Disk'[q] <= memory'[q]
  <2>1. Disk[q] <= memory[q] /\ memory[q] <= memory'[q]
    BY <1>1 DEF StoreInv, Ordered
  <2>2. Disk[q] \in Nat /\ memory[q] \in Nat /\ memory'[q] \in Nat
    BY <1>type
  <2> QED
    BY <1>disk, <2>1, <2>2
<1>2. ASSUME NEW t \in Savers, NEW q \in Parts, Between(t, q), image'[t] = image[t]
      PROVE  Between(t, q)'
  <2>1. image[t][q] <= memory[q] /\ memory[q] <= memory'[q]
    BY <1>2 DEF Between
  <2>2. image[t][q] \in Nat /\ memory[q] \in Nat /\ memory'[q] \in Nat
    BY <1>type
  <2>3. image'[t][q] <= memory'[q]
    BY <1>2, <2>1, <2>2
  <2> QED
    BY <1>2, <2>3, <1>disk DEF Between
<1>3. ASSUME order' # "lost", NEW t \in Savers,
             at'[t] \in {"snapshot", "open", "write", "rename"}
      PROVE  /\ order # "lost" /\ image'[t] = image[t]
             /\ at[t] \in {"snapshot", "open", "write", "rename"}
             /\ at'[t] \in {"open", "write", "rename"} => at[t] \in {"open", "write", "rename"}
  BY <1>3
<1>4. ASSUME order' # "lost", NEW t \in Savers
      PROVE  /\ at'[t] \in {"snapshot", "open", "write", "rename"} => Between(t, "settings")'
             /\ at'[t] \in {"open", "write", "rename"} => Between(t, "ledger")'
  <2>1. ASSUME at'[t] \in {"snapshot", "open", "write", "rename"} PROVE Between(t, "settings")'
    <3>1. Between(t, "settings")
      BY <1>3, <1>4, <2>1 DEF StoreInv, Ordered
    <3> QED
      BY <1>2, <1>3, <1>4, <2>1, <3>1, <1>parts
  <2>2. ASSUME at'[t] \in {"open", "write", "rename"} PROVE Between(t, "ledger")'
    <3>1. Between(t, "ledger")
      BY <1>3, <1>4, <2>2 DEF StoreInv, Ordered
    <3> QED
      BY <1>2, <1>3, <1>4, <2>2, <3>1, <1>parts
  <2> QED
    BY <2>1, <2>2
<1> QED
  BY <1>1, <1>4 DEF Ordered

(* A change is new to memory and to the disk.                              *)
LEMMA NewVersionChanges ==
  ASSUME StoreInv, TypeInv', NEW p \in Parts, NewVersion(p),
         UNCHANGED <<state, image, order, load, loaded>>,
         \A t \in Savers : at'[t] = at[t] \/ at'[t] = "schedule"
  PROVE  Ordered' /\ PromiseStep
<1>1. /\ memory \in [Parts -> Nat] /\ Disk \in [Parts -> Nat] /\ clock \in Nat
      /\ \A q \in Parts : Disk[q] <= clock /\ memory[q] <= clock
  BY DiskDated DEF StoreInv, TypeInv, TypeOK, Images, Dated, UpTo
<1>2. /\ memory'[p] = clock + 1 /\ memory' = [memory EXCEPT ![p] = memory'[p]]
      /\ \A q \in Parts : memory[q] <= memory'[q]
  BY NewVersionIs DEF StoreInv
<1>3. memory'[p] > memory[p] /\ memory'[p] > Disk[p]
  <2>1. memory[p] \in Nat /\ Disk[p] \in Nat /\ memory[p] <= clock /\ Disk[p] <= clock
    BY <1>1
  <2> QED
    BY <1>1, <1>2, <2>1
<1>4. Promise!Change
  BY <1>2, <1>3, DiskOf DEF Promise!Change, Promise!Parts, Parts
<1>5. order' = "kept" /\ load' # "idle" => loaded' = state
  BY DEF StoreInv, Ordered
<1>6. Ordered'
  BY <1>2, <1>5, OrderedKept
<1> QED
  BY <1>4, <1>6 DEF PromiseStep, Promise!Next

(* A step that touches neither memory nor the file: order is kept, lost or *)
(* about to be mended.                                                     *)
LEMMA QuietStep ==
  ASSUME StoreInv, TypeInv', UNCHANGED <<memory, state>>,
         order' = "kept" => order = "kept",
         order' = "kept" /\ load' # "idle" => loaded' = state,
         order' # "lost" => order # "lost" \/ \A t \in Savers : at'[t] \in {"idle", "schedule", "read"},
         \A t \in Savers :
           /\ at'[t] = "snapshot" => at[t] = "snapshot" /\ image'[t] = image[t]
           /\ at'[t] \in {"open", "write", "rename"} =>
                at[t] \in {"open", "write", "rename"} /\ image'[t] = image[t]
  PROVE  Ordered' /\ PromiseStep
<1>1. \A q \in Parts : memory[q] <= memory'[q]
  BY DEF StoreInv, TypeInv, TypeOK, Images
<1>2. Ordered'
  BY <1>1, OrderedKept
<1>3. Disk' = Disk
  BY DiskOf
<1>4. CASE order = "kept" /\ order' # "kept"
  <2>1. Promise!Cross
    BY <1>3, <1>4 DEF Promise!Cross
  <2> QED
    BY <1>2, <2>1 DEF Promise!Next, PromiseStep
<1>5. CASE (order = "kept") <=> (order' = "kept")
  <2>1. UNCHANGED <<memory, Disk, order # "kept">>
    BY <1>3, <1>5
  <2> QED
    BY <1>2, <2>1, Zenon DEF PromiseStep
<1> QED
  BY <1>2, <1>4, <1>5

(* Nothing is promised while order is lost.                                *)
LEMMA LostStep ==
  ASSUME TypeInv', order = "lost", order' = "lost"
  PROVE  Ordered' /\ PromiseStep
<1>1. memory' \in Images /\ Disk' \in Images
  <2>1. TypeOK'
    BY DEF TypeInv
  <2>2. (TypeOK => Disk \in Images)'
    BY DiskIsImage, PTL
  <2> QED
    BY <2>1, <2>2 DEF TypeOK
<1>2. Promise!Disturb
  BY <1>1 DEF Promise!Disturb, Promise!Images, Images, Promise!Parts, Parts
<1> QED
  BY <1>2 DEF PromiseStep, Promise!Next, Ordered

(* A save reads a part: what memory holds is not older than the disk.      *)
LEMMA ReadStep ==
  ASSUME StoreInv, TypeInv', NEW s \in Savers, Read(s) \/ Snapshot(s)
  PROVE  Ordered' /\ PromiseStep
<1> USE DEF file, history
<1>type. /\ at \in [Savers -> {"idle", "schedule", "read", "snapshot", "open", "write", "rename"}]
         /\ image \in [Savers -> [Parts -> Nat]] /\ memory \in [Parts -> Nat]
         /\ "settings" \in Parts /\ "ledger" \in Parts /\ order \in {"kept", "lost", "mending"}
  BY DEF StoreInv, TypeInv, TypeOK, Images, Parts
<1>1. UNCHANGED <<memory, state, load, loaded, order>> /\ Disk' = Disk
  BY DiskOf DEF Read, Snapshot
<1>2. \A t \in Savers : t # s => at'[t] = at[t] /\ image'[t] = image[t]
  BY <1>type DEF Read, Snapshot, Goto
<1>3. order = "kept" => \A q \in Parts : Disk[q] <= memory[q]
  BY DEF StoreInv, Ordered
<1>4. \A q \in Parts : memory[q] <= memory[q]
  BY <1>type
<1>5. ASSUME Read(s) PROVE at'[s] = "snapshot" /\ Between(s, "settings")'
  <2>1. at'[s] = "snapshot" /\ image'[s]["settings"] = memory["settings"]
    BY <1>5, <1>type DEF Read, Goto
  <2> QED
    BY <1>1, <1>3, <1>4, <1>type, <2>1 DEF Between
<1>6. ASSUME Snapshot(s), order # "lost"
      PROVE  at'[s] = "open" /\ Between(s, "settings")' /\ Between(s, "ledger")'
  <2>1. /\ at[s] = "snapshot" /\ at'[s] = "open"
        /\ image'[s]["ledger"] = memory["ledger"]
        /\ image'[s]["settings"] = image[s]["settings"]
    BY <1>6, <1>type DEF Snapshot, Goto, Parts
  <2>2. Between(s, "settings")
    BY <1>6, <2>1 DEF StoreInv, Ordered
  <2> QED
    BY <1>1, <1>3, <1>4, <1>type, <2>1, <2>2 DEF Between
<1>7. \A t \in Savers, q \in Parts : t # s /\ Between(t, q) => Between(t, q)'
  BY <1>1, <1>2 DEF Between
<1>8. Ordered'
  <2>1. CASE Read(s)
    BY <1>1, <1>2, <1>5, <1>7, <1>type, <2>1 DEF StoreInv, Ordered
  <2>2. CASE Snapshot(s)
    BY <1>1, <1>2, <1>6, <1>7, <1>type, <2>2 DEF StoreInv, Ordered
  <2> QED
    BY <2>1, <2>2
<1> QED
  BY <1>1, <1>8 DEF PromiseStep

(* The rename of a save that ran alone publishes what it has read.         *)
LEMMA RenameStep ==
  ASSUME StoreInv, TypeInv', KeptApart', NEW s \in Savers, Rename(s), order # "lost"
  PROVE  Ordered' /\ PromiseStep
<1> USE DEF file, history
<1>type. /\ at \in [Savers -> {"idle", "schedule", "read", "snapshot", "open", "write", "rename"}]
         /\ image \in [Savers -> Images] /\ memory \in [Parts -> Nat] /\ Disk \in [Parts -> Nat]
         /\ Parts = {"settings", "ledger"} /\ order \in {"kept", "lost", "mending"}
  BY DiskIsImage DEF StoreInv, TypeInv, TypeOK, Images, Parts
<1>1. at[s] = "rename" /\ tmp = image[s] /\ image[s] \in Images
  BY <1>type DEF Rename, StoreInv, KeptApart
<1>2. Readable(image[s]) /\ tmp # Absent
  BY <1>1, ImageIsReadable, ContentsAssumption
<1>3. UNCHANGED <<memory, load, loaded>> /\ state' = image[s] /\ order' = "kept"
  BY <1>1, <1>2, <1>type DEF Rename, Mended
<1>4. Disk' = image[s]
  BY <1>2, <1>3 DEF Disk, Readable
<1>5. \A p \in Parts : Between(s, p)
  BY <1>1, <1>type DEF StoreInv, Ordered
<1>6. load = "idle" /\ \A t \in Savers : at'[t] \in {"idle", "schedule"}
  <2>1. SaveUnderWay /\ Busy(s)
    BY <1>1 DEF SaveUnderWay, Busy
  <2>2. load = "idle" /\ \A t \in Savers : Busy(t) => t = s
    BY <2>1 DEF StoreInv, KeptApart
  <2>3. at'[s] = "idle" /\ \A t \in Savers : t # s => at'[t] = at[t]
    BY <1>type DEF Rename, End, Goto
  <2> QED
    BY <2>2, <2>3 DEF Busy
<1>7. \A p \in Parts : Disk'[p] <= memory'[p]
  BY <1>3, <1>4, <1>5 DEF Between
<1>8. Ordered'
  BY <1>3, <1>6, <1>7 DEF Ordered
<1>9. CASE order = "kept"
  <2>1. \A p \in Parts : Disk'[p] \in Disk[p]..memory[p]
    <3> TAKE p \in Parts
    <3>1. Disk[p] <= image[s][p] /\ image[s][p] <= memory[p]
      BY <1>5, <1>9 DEF Between
    <3>2. Disk[p] \in Nat /\ image[s][p] \in Nat /\ memory[p] \in Nat
      BY <1>type DEF Images
    <3> QED
      BY <1>4, <3>1, <3>2
  <2>2. Promise!Save
    BY <1>1, <1>3, <1>4, <1>9, <2>1
    DEF Promise!Save, Promise!Parts, Promise!Images, Parts, Images
  <2> QED
    BY <1>8, <2>2 DEF PromiseStep, Promise!Next
<1>10. CASE order = "mending"
  <2>1. \A p \in Parts : Disk'[p] \in 0..memory[p]
    <3> TAKE p \in Parts
    <3>1. image[s][p] <= memory[p] /\ image[s][p] \in Nat /\ memory[p] \in Nat
      BY <1>5, <1>type DEF Between, Images
    <3> QED
      BY <1>4, <3>1
  <2>2. Promise!Join
    BY <1>1, <1>3, <1>4, <1>10, <2>1
    DEF Promise!Join, Promise!Parts, Promise!Images, Parts, Images
  <2> QED
    BY <1>8, <2>2 DEF PromiseStep, Promise!Next
<1> QED
  BY <1>9, <1>10, <1>type

LEMMA RestartStep ==
  ASSUME StoreInv, TypeInv', Restart
  PROVE  Ordered' /\ PromiseStep
<1> USE DEF file
<1>1. /\ memory' = Disk /\ state' = state /\ load' = "idle"
      /\ \A t \in Savers : at'[t] = "idle"
      /\ order' \in {"kept", "lost"} /\ (order = "kept" => order' = "kept")
  BY DEF Restart, StartAfresh, Disk
<1>2. Disk' = Disk
  BY <1>1, DiskOf
<1>3. \A p \in Parts : Disk[p] \in Nat
  BY DiskIsImage DEF StoreInv, TypeInv, Images
<1>4. \A p \in Parts : Disk'[p] <= memory'[p]
  BY <1>1, <1>2, <1>3
<1>5. Ordered'
  <2>1. CASE order' = "lost"
    BY <2>1 DEF Ordered
  <2>2. CASE order' = "kept"
    BY <1>1, <1>4, <2>2 DEF Ordered
  <2> QED
    BY <1>1, <2>1, <2>2
<1>6. Promise!Restart
  BY <1>1, <1>2 DEF Promise!Restart
<1> QED
  BY <1>5, <1>6 DEF PromiseStep, Promise!Next

(* A reload with no save under way puts the disk's version in the place of *)
(* memory's.                                                               *)
LEMMA ReloadStep ==
  ASSUME StoreInv, TypeInv', LoadLedger \/ LoadSettings
  PROVE  Ordered' /\ PromiseStep
<1> USE DEF saving, file
<1>1. PICK p \in Parts : /\ memory' = [memory EXCEPT ![p] = loaded[p]]
                         /\ UNCHANGED <<at, image, state, order>>
                         /\ load # "idle" /\ loaded' \in {loaded, Absent}
                         /\ load' # "idle" => loaded' = loaded
  BY DEF LoadLedger, LoadSettings, Replace, Parts
<1>2. Disk' = Disk
  BY <1>1, DiskOf
<1>3. CASE order = "lost"
  BY <1>1, <1>3, LostStep
<1>4. CASE order # "lost"
  <2>1. ~SaveUnderWay /\ order = "kept"
    BY <1>1, <1>4 DEF StoreInv, KeptApart, TypeInv, TypeOK
  <2>2. loaded = state /\ Disk = loaded
    <3>1. Readable(loaded)
      BY <1>1, ImageIsReadable DEF StoreInv, TypeInv
    <3> QED
      BY <1>1, <2>1, <3>1 DEF StoreInv, Ordered, Disk
  <2>3. Promise!Reload
    BY <1>1, <1>2, <2>1, <2>2 DEF Promise!Reload, Promise!Parts, Parts
  <2>4. ASSUME NEW q \in Parts PROVE Disk'[q] <= memory'[q]
    <3>1. Disk[q] <= memory[q] /\ Disk[q] \in Nat /\ memory[q] \in Nat /\ memory \in [Parts -> Nat]
      BY <2>1, DiskIsImage DEF StoreInv, Ordered, TypeInv, TypeOK, Images
    <3>2. memory'[q] = memory[q] \/ memory'[q] = Disk[q]
      BY <1>1, <2>2, <3>1
    <3> QED
      BY <1>2, <3>1, <3>2
  <2>5. \A t \in Savers : at'[t] \in {"idle", "schedule"}
    BY <1>1, <2>1 DEF SaveUnderWay
  <2>6. Ordered'
    BY <1>1, <2>2, <2>4, <2>5 DEF Ordered
  <2> QED
    BY <2>3, <2>6 DEF PromiseStep, Promise!Next
<1> QED
  BY <1>3, <1>4

(* Every step keeps the order of the versions, and is to Durable one of    *)
(* its steps or nothing.                                                   *)
LEMMA PromiseKept == StoreInv /\ [Next]_vars => Ordered' /\ PromiseStep
<1> SUFFICES ASSUME StoreInv, [Next]_vars PROVE Ordered' /\ PromiseStep
  OBVIOUS
<1> USE DEF saving, file, history
<1>inv. TypeInv /\ KeptApart /\ Dated /\ Ordered /\ TypeInv' /\ KeptApart'
  BY StepTypes, ApartStep DEF StoreInv
<1>type. /\ at \in [Savers -> {"idle", "schedule", "read", "snapshot", "open", "write", "rename"}]
         /\ order \in {"kept", "lost", "mending"} /\ "ledger" \in Parts
  BY <1>inv DEF TypeInv, TypeOK, Parts
<1>load. order = "kept" /\ load # "idle" => loaded = state
  BY <1>inv DEF Ordered
<1>1. CASE Change \/ SilentChange
  <2>1. PICK p \in Parts : NewVersion(p)
    BY <1>1, <1>type DEF Change, SilentChange
  <2>2. UNCHANGED <<at, state, image, order, load, loaded>>
    BY <1>1 DEF Change, SilentChange
  <2> QED
    BY <1>inv, <2>1, <2>2, NewVersionChanges
<1>2. ASSUME NEW s \in Savers, HandlerChange(s) PROVE Ordered' /\ PromiseStep
  <2>1. PICK p \in Parts : NewVersion(p)
    BY <1>2 DEF HandlerChange
  <2>2. UNCHANGED <<state, image, order, load, loaded>>
        /\ \A t \in Savers : at'[t] = at[t] \/ at'[t] = "schedule"
    BY <1>2, <1>type DEF HandlerChange, Goto
  <2> QED
    BY <1>inv, <2>1, <2>2, NewVersionChanges
<1>3. CASE ScheduleSave \/ UNCHANGED vars
  <2>1. UNCHANGED <<memory, at, state, image, order, load, loaded>>
    BY <1>3 DEF ScheduleSave, vars
  <2> QED
    BY <1>inv, <1>load, <2>1, QuietStep
<1>4. ASSUME NEW s \in Savers, Fire(s) \/ Flush(s) \/ HandlerSchedule(s)
      PROVE  Ordered' /\ PromiseStep
  <2>1. UNCHANGED <<memory, state, image, load, loaded>> /\ Begin(s)
    BY <1>4 DEF Fire, Flush, HandlerSchedule
  <2>2. \A t \in Savers : at'[t] = at[t] \/ at'[t] = "read"
    BY <2>1, <1>type DEF Begin, Goto
  <2>3. order' = "kept" => order = "kept"
    BY <2>1, <1>type DEF Begin
  <2>4. order' # "lost" => order # "lost" \/ \A t \in Savers : at'[t] \in {"idle", "schedule", "read"}
    BY <2>1, <2>2 DEF Begin, SaveUnderWay
  <2> QED
    BY <1>inv, <1>load, <2>1, <2>2, <2>3, <2>4, QuietStep
<1>5. ASSUME NEW s \in Savers, Open(s) \/ Write(s)
      PROVE  Ordered' /\ PromiseStep
  <2>1. /\ UNCHANGED <<memory, image, order, load, loaded>>
        /\ \A t \in Savers :
             \/ at'[t] = at[t]
             \/ at[t] \in {"open", "write"} /\ at'[t] \in {"write", "rename"}
    BY <1>5, <1>type DEF Open, Write, Goto
  <2>2. CASE order = "lost"
    BY <1>inv, <2>1, <2>2, LostStep
  <2>3. CASE order # "lost"
    <3>1. state' = state
      <4>1. at[s] = "write" => holds[s] = "tmp"
        BY <1>inv, <2>3 DEF KeptApart
      <4> QED
        BY <1>5, <4>1 DEF Open, Write, WriteTo
    <3> QED
      BY <1>inv, <1>load, <2>1, <2>3, <3>1, QuietStep
  <2> QED
    BY <2>2, <2>3
<1>6. ASSUME NEW s \in Savers, Fail(s) PROVE Ordered' /\ PromiseStep
  <2>1. /\ UNCHANGED <<memory, load, loaded>> /\ order' = Mended(FALSE)
        /\ at'[s] = "idle" /\ \A t \in Savers : t # s => at'[t] = at[t] /\ image'[t] = image[t]
    BY <1>6, <1>inv, <1>type DEF Fail, End, Goto, TypeInv, TypeOK
  <2>2. CASE order = "lost"
    BY <1>inv, <2>1, <2>2, LostStep DEF Mended
  <2>3. CASE order # "lost"
    <3>1. state' = state
      <4>1. at[s] = "write" => holds[s] = "tmp"
        BY <1>inv, <2>3 DEF KeptApart
      <4> QED
        BY <1>6, <4>1 DEF Fail, WriteTo
    <3>2. order' = "kept" => order = "kept"
      BY <2>1 DEF Mended
    <3> QED
      BY <1>inv, <1>load, <2>1, <2>3, <3>1, <3>2, QuietStep
  <2> QED
    BY <2>2, <2>3
<1>7. ASSUME NEW s \in Savers, Rename(s) PROVE Ordered' /\ PromiseStep
  <2>1. CASE order = "lost"
    <3>1. order' = "lost"
      BY <1>7, <2>1 DEF Rename, Mended
    <3> QED
      BY <1>inv, <2>1, <3>1, LostStep
  <2> QED
    BY <1>inv, <1>7, <2>1, RenameStep
<1>8. ASSUME NEW s \in Savers, Read(s) \/ Snapshot(s) PROVE Ordered' /\ PromiseStep
  BY <1>inv, <1>8, ReadStep
<1>9. CASE LoadFile
  <2>1. /\ UNCHANGED <<memory, at, image, state>> /\ loaded' = state
        /\ order' = IF SaveUnderWay THEN "lost" ELSE order
    BY <1>9 DEF LoadFile
  <2> QED
    BY <1>inv, <2>1, QuietStep
<1> QED
  BY <1>1, <1>2, <1>3, <1>4, <1>5, <1>6, <1>7, <1>8, <1>9, <1>inv, RestartStep, ReloadStep
  DEF Next, SaveStep

LEMMA PromiseInit == Init => Ordered /\ Promise!Init
<1> SUFFICES ASSUME Init PROVE Ordered /\ Promise!Init
  OBVIOUS
<1>1. memory = First /\ Disk = First /\ load = "idle" /\ order = "kept" /\ \A s \in Savers : at[s] = "idle"
  BY DEF Init, Disk, Readable
<1>2. \A p \in Parts : First[p] = 0
  BY DEF First
<1>3. Ordered
  BY <1>1, <1>2 DEF Ordered
<1> QED
  BY <1>1, <1>3 DEF Promise!Init, Promise!First, First, Promise!Parts, Parts

(***************************************************************************)
(* Saving keeps the promise of Durable, whatever overlaps, fails, crashes  *)
(* and reloads: the file never goes back and holds nothing that memory did *)
(* not, except from where saves and reloads crossed to the next save that  *)
(* runs alone, and a restart or a reload resumes from it.                  *)
(***************************************************************************)
THEOREM ImplementsDurable == Spec => Durable
<1>1. Init => StoreInv /\ Promise!Init
  BY InitTypes, ApartInit, DatedInit, PromiseInit DEF StoreInv
<1>2. StoreInv /\ [Next]_vars => StoreInv' /\ PromiseStep
  BY StepTypes, ApartStep, DatedStep, PromiseKept DEF StoreInv
<1> QED
  BY <1>1, <1>2, PTL DEF Spec, Durable, PromiseStep, Promise!Spec
=============================================================================
