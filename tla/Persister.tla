------------------------------ MODULE Persister ------------------------------
(***************************************************************************)
(* The state file of internal/persist: changes of the ledger and of the    *)
(* settings arm a debounce timer, SaveNow snapshots both and replaces the  *)
(* file through a temporary one, and Load replaces memory by the file at   *)
(* start-up and on every reconfigure.  Most callers that change memory     *)
(* announce it; the bulk unban does not.  SaveNow holds no lock while it   *)
(* writes: the timer's goroutine, a handler that saves at once and the     *)
(* flush of a shutdown can be inside it together, on the same temporary    *)
(* file, and a reconfigure can load meanwhile.                             *)
(*                                                                         *)
(* A content is the pair of versions of the ledger and of the settings;    *)
(* every change makes a new version.  A file that was opened twice is one  *)
(* inode: holds[s] says under which name the file a save has open is now.  *)
(***************************************************************************)
EXTENDS Naturals

CONSTANTS Savers,         \* goroutines that may be inside SaveNow
          MaxVersion,     \* bound: changes in a behaviour
          MayFail,        \* whether opening, writing or renaming may fail
          MayCrash,       \* whether the process may die and start again
          MayReconfigure, \* whether the host reconfigures the running plugin
          MayFlush,       \* whether the host shuts the plugin down
          Absent, Empty, Torn

ASSUME OptionsAssumption ==
  /\ MaxVersion \in Nat
  /\ {MayFail, MayCrash, MayReconfigure, MayFlush} \subseteq BOOLEAN

Parts  == {"ledger", "settings"}
Images == [Parts -> Nat]
First  == [p \in Parts |-> 0]

ASSUME ContentsAssumption ==
  /\ Absent # Empty /\ Absent # Torn /\ Empty # Torn
  /\ \A c \in {Absent, Empty, Torn} : c \notin Images

VARIABLES memory,     \* State's rows and Persister.settings, as versions
          clock,      \* the newest version
          owed,       \* callers that changed memory and have yet to ScheduleSave
          armed,      \* the debounce timer
          at,         \* where each save is
          image,      \* what it read
          holds,      \* the name of the file it has open
          tmp, state, \* contents under path + ".tmp" and under path
          load,       \* where Load is, on a reconfigure
          loaded,     \* the file it read
          pending,    \* history: whether a part has a change that no save read yet
          order,      \* history: whether saves and reloads kept out of each other's way
          failed      \* history: the last save to end returned an error

file   == <<tmp, state>>
saving == <<at, image, holds>>
history == <<pending, order, failed>>
vars    == <<memory, clock, owed, armed, saving, file, load, loaded, history>>

Contents    == Images \cup {Absent, Empty, Torn}
Readable(c) == c \notin {Absent, Empty, Torn}

TypeOK ==
  /\ memory \in Images
  /\ clock \in Nat /\ owed \in Nat
  /\ armed \in BOOLEAN /\ failed \in BOOLEAN
  /\ at \in [Savers -> {"idle", "schedule", "read", "snapshot", "open", "write", "rename"}]
  /\ image \in [Savers -> Images]
  /\ holds \in [Savers -> {"none", "tmp", "state", "gone"}]
  /\ tmp \in Contents /\ state \in Contents /\ loaded \in Contents
  /\ load \in {"idle", "replace", "settings"}
  /\ pending \in [Parts -> {"none", "silent", "announced"}]
  /\ order \in {"kept", "lost", "mending"}

Init ==
  /\ memory = First
  /\ clock = 0 /\ owed = 0 /\ armed = FALSE
  /\ at = [s \in Savers |-> "idle"]
  /\ image = [s \in Savers |-> First]
  /\ holds = [s \in Savers |-> "none"]
  /\ tmp = Absent /\ state = Absent
  /\ load = "idle" /\ loaded = Absent
  /\ pending = [p \in Parts |-> "none"]
  /\ order = "kept" /\ failed = FALSE

-----------------------------------------------------------------------------
(* Changes and the debounce timer.                                         *)

NewVersion(p) ==
  /\ clock < MaxVersion
  /\ clock' = clock + 1
  /\ memory' = [memory EXCEPT ![p] = clock + 1]

Announce(p) == pending' = [pending EXCEPT ![p] = "announced"]

(* A caller changes memory, once or more, and calls ScheduleSave later.    *)
Change ==
  /\ \E p \in Parts : NewVersion(p) /\ Announce(p)
  /\ owed' \in {owed + 1} \cup ({owed} \ {0})
  /\ UNCHANGED <<armed, saving, file, load, loaded, order, failed>>

(* The bulk unban clears rows, and a usage success whose host call fails   *)
(* has cleared one: neither schedules a save.                              *)
SilentChange ==
  /\ NewVersion("ledger")
  /\ pending' = [pending EXCEPT !["ledger"] = IF @ = "none" THEN "silent" ELSE @]
  /\ UNCHANGED <<owed, armed, saving, file, load, loaded, order, failed>>

\* Slips a rewrite could make stand next to what they would replace; a run under
\* one must break a property.  Here: a save under way is taken to cover the change.
ScheduleSaveCoalesced ==
  /\ owed > 0 /\ owed' = owed - 1
  /\ armed' = (armed \/ \A s \in Savers : at[s] = "idle")
  /\ UNCHANGED <<memory, clock, saving, file, load, loaded, history>>

ScheduleSave ==
  /\ owed > 0 /\ owed' = owed - 1
  /\ armed' = TRUE
  /\ UNCHANGED <<memory, clock, saving, file, load, loaded, history>>

Goto(s, step) == at' = [at EXCEPT ![s] = step]

(***************************************************************************)
(* History: order is lost when a save or a reload begins while another is  *)
(* under way.  A save that then begins alone mends it, unless it fails or  *)
(* something else begins before it ends.                                   *)
(***************************************************************************)
SaveUnderWay == \E s \in Savers : at[s] \notin {"idle", "schedule"}

Begin(s) ==
  /\ Goto(s, "read")
  /\ order' = IF SaveUnderWay \/ load # "idle" THEN "lost"
              ELSE IF order = "lost" THEN "mending" ELSE order

End(s) == Goto(s, "idle") /\ image' = [image EXCEPT ![s] = First]

Mended(ok) == IF order # "mending" THEN order ELSE IF ok THEN "kept" ELSE "lost"

Fire(s) ==
  /\ armed /\ at[s] = "idle"
  /\ armed' = FALSE
  /\ Begin(s)
  /\ UNCHANGED <<memory, clock, owed, image, holds, file, load, loaded, pending, failed>>

(* updateSettings and clearResidual403Disabled change memory, schedule a   *)
(* save, and save at once besides.                                         *)
HandlerChange(s) ==
  /\ at[s] = "idle"
  /\ \E p \in Parts : NewVersion(p) /\ Announce(p)
  /\ Goto(s, "schedule")
  /\ UNCHANGED <<owed, armed, image, holds, file, load, loaded, order, failed>>

HandlerSchedule(s) ==
  /\ at[s] = "schedule"
  /\ armed' = TRUE
  /\ Begin(s)
  /\ UNCHANGED <<memory, clock, owed, image, holds, file, load, loaded, pending, failed>>

\* Slip: a shutdown stops the timer and leaves it there.
FlushStops(s) ==
  /\ MayFlush /\ at[s] = "idle"
  /\ armed' = FALSE
  /\ UNCHANGED <<memory, clock, owed, saving, file, load, loaded, history>>

Flush(s) ==
  /\ MayFlush /\ at[s] = "idle"
  /\ armed' = FALSE
  /\ Begin(s)
  /\ UNCHANGED <<memory, clock, owed, image, holds, file, load, loaded, pending, failed>>

-----------------------------------------------------------------------------
(* SaveNow: the settings, then the ledger, then the file.                  *)

Read(s) ==
  /\ at[s] = "read"
  /\ image' = [image EXCEPT ![s]["settings"] = memory["settings"]]
  /\ pending' = [pending EXCEPT !["settings"] = "none"]
  /\ Goto(s, "snapshot")
  /\ UNCHANGED <<memory, clock, owed, armed, holds, file, load, loaded, order, failed>>

Snapshot(s) ==
  /\ at[s] = "snapshot"
  /\ image' = [image EXCEPT ![s]["ledger"] = memory["ledger"]]
  /\ pending' = [pending EXCEPT !["ledger"] = "none"]
  /\ Goto(s, "open")
  /\ UNCHANGED <<memory, clock, owed, armed, holds, file, load, loaded, order, failed>>

\* Slip: the state file itself is opened.
OpenState(s) ==
  /\ at[s] = "open"
  /\ state' = Empty
  /\ holds' = [holds EXCEPT ![s] = "state"]
  /\ Goto(s, "write")
  /\ UNCHANGED <<memory, clock, owed, armed, image, tmp, load, loaded, history>>

(* os.WriteFile: open with O_CREATE and O_TRUNC, then write from offset 0. *)
Open(s) ==
  /\ at[s] = "open"
  /\ tmp' = Empty
  /\ holds' = [holds EXCEPT ![s] = "tmp"]
  /\ Goto(s, "write")
  /\ UNCHANGED <<memory, clock, owed, armed, image, state, load, loaded, history>>

(* What a file holds after a write over c: a shorter content leaves the    *)
(* tail of a longer one behind.                                            *)
Over(c, new) == {new} \cup (IF c \in {Empty, new} THEN {} ELSE {Torn})

WriteTo(s, asTmp, asState) ==
  /\ \/ holds[s] = "tmp" /\ tmp' \in asTmp /\ UNCHANGED state
     \/ holds[s] = "state" /\ state' \in asState /\ UNCHANGED tmp
     \/ holds[s] = "gone" /\ UNCHANGED file
  /\ holds' = [holds EXCEPT ![s] = "none"]

Write(s) ==
  /\ at[s] = "write"
  /\ WriteTo(s, Over(tmp, image[s]), Over(state, image[s]))
  /\ Goto(s, "rename")
  /\ UNCHANGED <<memory, clock, owed, armed, image, load, loaded, history>>

(* os.Rename: whoever has the file open keeps it, under its new name; it   *)
(* fails when another save has renamed the file already.                   *)
Rename(s) ==
  /\ at[s] = "rename"
  /\ \/ /\ tmp # Absent
        /\ state' = tmp /\ tmp' = Absent
        /\ holds' = [t \in Savers |-> CASE holds[t] = "tmp"   -> "state"
                                        [] holds[t] = "state" -> "gone"
                                        [] OTHER              -> holds[t]]
     \/ tmp = Absent /\ UNCHANGED <<file, holds>>
  /\ End(s)
  /\ failed' = (tmp = Absent) /\ order' = Mended(tmp # Absent)
  /\ UNCHANGED <<memory, clock, owed, armed, load, loaded, pending>>

(* SaveNow returns an error at any of its three calls; nobody retries.  A  *)
(* write that fails may have written a part.                               *)
Fail(s) ==
  /\ MayFail
  /\ \/ at[s] \in {"open", "rename"} /\ UNCHANGED <<file, holds>>
     \/ at[s] = "write" /\ WriteTo(s, {tmp, Torn}, {state, Torn})
  /\ End(s)
  /\ failed' = TRUE /\ order' = Mended(FALSE)
  /\ UNCHANGED <<memory, clock, owed, armed, load, loaded, pending>>

-----------------------------------------------------------------------------
(* Load.                                                                   *)

Whole(c) == c = Absent \/ Readable(c)

\* What a process that starts finds undone: everything but the files.
StartAfresh ==
  /\ owed' = 0 /\ armed' = FALSE
  /\ at' = [s \in Savers |-> "idle"]
  /\ image' = [s \in Savers |-> First]
  /\ holds' = [s \in Savers |-> "none"]
  /\ load' = "idle" /\ loaded' = Absent
  /\ pending' = [p \in Parts |-> "none"] /\ failed' = FALSE
  /\ order' = IF order = "kept" \/ Whole(state) THEN "kept" ELSE "lost"
  /\ UNCHANGED <<clock, file>>

\* Slips: whatever the file holds is taken for a state; the temporary file a
\* crash left is taken for the newer state.
RestartUnchecked == MayCrash /\ memory' = state /\ StartAfresh

RestartFromTmp ==
  /\ MayCrash
  /\ memory' = IF Readable(tmp) THEN tmp ELSE IF Readable(state) THEN state ELSE First
  /\ StartAfresh

(* The process dies and starts again: what the file system was told        *)
(* stays, and Load runs before any other call.  A file it cannot parse     *)
(* counts as none.                                                         *)
Restart ==
  /\ MayCrash
  /\ memory' = IF Readable(state) THEN state ELSE First
  /\ StartAfresh

(* On a reconfigure Load reads the file, replaces the rows and then the    *)
(* settings, with every other call going on.                               *)
LoadFile ==
  /\ MayReconfigure /\ load = "idle" /\ Readable(state)
  /\ loaded' = state
  /\ load' = "replace"
  /\ order' = IF SaveUnderWay THEN "lost" ELSE order
  /\ UNCHANGED <<memory, clock, owed, armed, saving, file, pending, failed>>

Replace(p) ==
  /\ memory' = [memory EXCEPT ![p] = loaded[p]]
  /\ pending' = [pending EXCEPT ![p] = "none"]
  /\ UNCHANGED <<clock, owed, armed, saving, file, order, failed>>

LoadLedger   == load = "replace" /\ Replace("ledger") /\ load' = "settings" /\ UNCHANGED loaded
LoadSettings == load = "settings" /\ Replace("settings") /\ load' = "idle" /\ loaded' = Absent

SaveStep(s) ==
  HandlerSchedule(s) \/ Read(s) \/ Snapshot(s) \/ Open(s) \/ Write(s) \/ Rename(s)

Next ==
  \/ Change \/ SilentChange \/ ScheduleSave
  \/ \E s \in Savers : Fire(s) \/ HandlerChange(s) \/ Flush(s) \/ SaveStep(s) \/ Fail(s)
  \/ Restart \/ LoadFile \/ LoadLedger \/ LoadSettings

Spec == Init /\ [][Next]_vars

(* A caller that changed memory calls ScheduleSave, a timer fires, and a   *)
(* save that has begun goes on: the Go scheduler and the file system.      *)
(* Nobody is obliged to change anything, to flush or to restart.           *)
Fairness ==
  /\ WF_vars(ScheduleSave)
  /\ WF_vars(\E s \in Savers : Fire(s))
  /\ \A s \in Savers : WF_vars(SaveStep(s))

FairSpec == Spec /\ Fairness

-----------------------------------------------------------------------------
(* Properties.                                                             *)

(***************************************************************************)
(* The file under path is whole: the temporary file and the rename keep a  *)
(* state that is half written, or empty, from ever being what a restart    *)
(* finds.  Only saves that were under way together can spoil it, and the   *)
(* next save that runs alone puts it right.                                *)
(***************************************************************************)
StateReadable == order = "kept" => Whole(state)

(***************************************************************************)
(* Debouncing forgets no change it was told of: an announced change that   *)
(* no save has read yet has a caller about to schedule, a timer, or a save *)
(* that has yet to read it, also while saves overlap, fail and reload.     *)
(* (A bulk unban announces nothing, and waits for somebody else's save.)   *)
(***************************************************************************)
Waiting(steps) == owed > 0 \/ armed \/ \E s \in Savers : at[s] \in steps

NoChangeForgotten ==
  /\ pending["settings"] = "announced" => Waiting({"schedule", "read"})
  /\ pending["ledger"] = "announced" => Waiting({"schedule", "read", "snapshot"})

(***************************************************************************)
(* When the changes end, the file ends up with the last of them, restarts  *)
(* included, unless the last of them was never announced, the last save    *)
(* failed (nobody retries it), or saves and reloads got in each other's    *)
(* way and no save ran alone since.                                        *)
(***************************************************************************)
Disk == IF Readable(state) THEN state ELSE First

DiskCatchesUp ==
  <>[](Disk = memory \/ pending["ledger"] = "silent" \/ failed \/ order # "kept")

(***************************************************************************)
(* Saving implements the abstract promise of module Durable: the file      *)
(* never goes back to an older ledger or older settings than it has, and   *)
(* holds none that memory did not, unless saves and reloads are under way  *)
(* together, and again from the next save that runs alone.                 *)
(***************************************************************************)
Promise == INSTANCE Durable WITH mem <- memory, disk <- Disk, apart <- order # "kept"
Durable == Promise!Spec

=============================================================================
