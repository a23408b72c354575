------------------------------ MODULE BanLedger ------------------------------
(***************************************************************************)
(* The isolation ledger of internal/ban: State{bans, emailIndex,           *)
(* authIndex}, the rows that keep a credential out of scheduling until     *)
(* they expire or are released.  Every operation holds State.mu for its    *)
(* whole body, so each is one action.                                      *)
(*                                                                         *)
(* A name is an auth id or a mailbox, already trimmed and lower-cased.     *)
(* Aliases[n] is AuthIDAliases(n), the id first, then its base name, then  *)
(* the base name without ".json"; Strip[n] is the last of them, the form   *)
(* AuthIDsEqual compares.  Credential[n] says whose name it is: it appears *)
(* in no action, only in the choice of inputs and in the properties.       *)
(***************************************************************************)
EXTENDS Naturals, Sequences, FiniteSets, Functions

CONSTANTS Emails,      \* the mailboxes
          AuthIds,     \* file ids, file names, auth indexes and their aliases
          WithAt,      \* the names that contain "@": mailboxes, and some files
          None,        \* the empty string, where an email or an id is missing
          Aliases, Strip, Credential,
          Windows,     \* the isolation durations a failure can ask for
          Files,       \* what a state file may hold: id -> Entry
          MaxTime      \* bound: the clock stops here

Names == Emails \cup AuthIds

\* What State reads of an entry; status, reason and the pending-delete mark are
\* only carried (a write's own mark decides in Outlasts).
Entry == [reset : Nat, email : Emails \cup {None}, authId : Names]

ASSUME NamesAssumption ==
  /\ Emails \cap AuthIds = {}
  /\ None \notin Names
  /\ Emails \subseteq WithAt /\ WithAt \subseteq Names
ASSUME AliasAssumption ==
  /\ Aliases \in [Names -> Seq(Names)]
  /\ \A n \in Names : 1 \in DOMAIN Aliases[n] /\ Aliases[n][1] = n
  /\ Strip \in [Names -> Names]
ASSUME TimeAssumption ==
  /\ MaxTime \in Nat
  /\ Windows \subseteq Nat \ {0}
\* Two credentials share neither an alias nor a base name.
ASSUME CredentialAssumption ==
  \A m, n \in Names :
    /\ Strip[m] = Strip[n] => Credential[m] = Credential[n]
    /\ m \in Range(Aliases[n]) => Credential[m] = Credential[n]
\* A file was saved by this program: each row names a credential by its id, its
\* mailbox and the id that reported it.
ASSUME FileAssumption ==
  \A image \in Files :
    /\ DOMAIN image \subseteq Names /\ IsFiniteSet(DOMAIN image)
    /\ image \in [DOMAIN image -> Entry]
    /\ \A i \in DOMAIN image :
         /\ Credential[image[i].authId] = Credential[i]
         /\ IF image[i].email = None THEN image[i].authId = i
            ELSE Credential[image[i].email] = Credential[i]

VARIABLES bans,        \* storage key -> Entry
          emailIndex,  \* mailbox -> storage key
          authIndex,   \* auth id or alias -> storage key
          now

vars == <<bans, emailIndex, authIndex, now>>

EmptyMap == [n \in {} |-> None]

Rows == DOMAIN bans

IsLedger(b) == DOMAIN b \subseteq Names /\ b \in [DOMAIN b -> Entry]

LedgerTypes ==
  /\ IsLedger(bans)
  /\ DOMAIN emailIndex \subseteq Emails /\ emailIndex \in [DOMAIN emailIndex -> Names]
  /\ DOMAIN authIndex \subseteq Names /\ authIndex \in [DOMAIN authIndex -> Names]
  /\ now \in Nat

\* No id or alias in the reverse index outlives the row it leads to.
IndexLive == \A n \in DOMAIN authIndex : authIndex[n] \in Rows

TypeOK == LedgerTypes /\ IndexLive

-----------------------------------------------------------------------------
(* Naming.                                                                 *)

\* Slips a rewrite could make, each next to what it would replace; a run under
\* the slip must break a property.  Here: rows are filed under the id.
StorageKeyOfId(email, id) == id

StorageKey(email, id) == IF email # None THEN email ELSE id

SameId(m, n) == Strip[m] = Strip[n]

WithAliases(ids) == UNION {Range(Aliases[n]) : n \in ids}

(***************************************************************************)
(* lookupLocked: the row itself, the first alias the index resolves, the   *)
(* mailbox index, then a scan that returns whichever match the map yields  *)
(* first: the answer is any member of the set.                             *)
(***************************************************************************)
AliasHits(n) ==
  {i \in DOMAIN Aliases[n] : /\ Aliases[n][i] \in DOMAIN authIndex
                             /\ authIndex[Aliases[n][i]] \in Rows}

ScanHits(n) ==
  {k \in Rows : \/ SameId(k, n)
                \/ SameId(bans[k].authId, n)
                \/ bans[k].email = n}

Lookup(n) ==
  IF n \in Rows THEN {n}
  ELSE IF AliasHits(n) # {}
    THEN {authIndex[Aliases[n][i]] :
            i \in {h \in AliasHits(n) : \A j \in AliasHits(n) : h <= j}}
  ELSE IF n \in DOMAIN emailIndex /\ emailIndex[n] \in Rows THEN {emailIndex[n]}
  ELSE ScanHits(n)

(* unindexLocked, for a set of rows that go together.                      *)
\* Slip: a removed row stays in the index.
AuthIndexKept(gone) == authIndex

AuthIndexWithout(gone) ==
  Restrict(authIndex, {n \in DOMAIN authIndex : authIndex[n] \notin gone})

EmailIndexWithout(gone) ==
  Restrict(emailIndex,
    {m \in DOMAIN emailIndex :
       ~ \E k \in gone : bans[k].email = m /\ emailIndex[m] = k})

Drop(gone) ==
  /\ bans' = Restrict(bans, Rows \ gone)
  /\ authIndex' = AuthIndexWithout(gone)
  /\ emailIndex' = EmailIndexWithout(gone)

(* indexEntryLocked, after the rows in gone were unindexed.                *)
IndexedNames(key, row, related) ==
  WithAliases(related \cup {row.authId} \cup ({key} \ WithAt))

Index(key, row, related, gone) ==
  /\ authIndex' =
       LET kept == AuthIndexWithout(gone)
           hit  == IndexedNames(key, row, related)
       IN  [n \in DOMAIN kept \cup hit |-> IF n \in hit THEN key ELSE kept[n]]
  /\ emailIndex' =
       LET kept == EmailIndexWithout(gone)
           hit  == {row.email} \ {None}
       IN  [m \in DOMAIN kept \cup hit |-> IF m \in hit THEN key ELSE kept[m]]

-----------------------------------------------------------------------------
(* The operations of State.                                                *)

Init ==
  /\ bans = EmptyMap
  /\ emailIndex = EmptyMap
  /\ authIndex = EmptyMap
  /\ now = 0

(* The rows a write under email replaces: other rows that name the mailbox *)
(* and the row the same id had before its mailbox was known.               *)
\* Slip: the row under the mailbox itself is unindexed as well.
CollapsedWithSelf(id, email) ==
  IF email = None THEN {} ELSE {k \in Rows : bans[k].email = email \/ k = id}

Collapsed(id, email) ==
  IF email = None THEN {}
  ELSE {k \in Rows \ {email} : bans[k].email = email \/ k = id}

(* A write that does not force keeps a row with a later reset, unless it   *)
(* marks the credential for deletion; only who the row names is refreshed. *)
Outlasts(key, e) == key \in Rows /\ bans[key].reset > e.reset

Refreshed(row, e) ==
  [row EXCEPT !.email = IF e.email # None THEN e.email ELSE @, !.authId = e.authId]

setLocked(id, e, overwrite) ==
  LET key     == StorageKey(e.email, id)
      gone    == Collapsed(id, e.email)
      related == {id, e.authId} \cup {bans[k].authId : k \in gone} \cup (gone \ WithAt)
      row     == IF ~overwrite /\ Outlasts(key, e) THEN Refreshed(bans[key], e) ELSE e
  IN  /\ bans' = [k \in (Rows \ gone) \cup {key} |-> IF k = key THEN row ELSE bans[k]]
      /\ Index(key, row, related, gone)
      /\ UNCHANGED now

(* What callers write: the host's mailbox when the lookup found one, a     *)
(* window from now, and the reporting id.  Import and recheck force; a     *)
(* recheck rewrites a row under its key and keeps the id the row names.    *)
SameCredential(id) == {n \in Names : Credential[n] = Credential[id]}
Mailboxes(id) == {None} \cup (Emails \cap SameCredential(id))

NewEntry(email, w, authId) == [reset |-> now + w, email |-> email, authId |-> authId]

Set(id, email, w, pendingDelete) == setLocked(id, NewEntry(email, w, id), pendingDelete)

ForceSet(id, email, w, authId) ==
  /\ authId = id \/ id = email
  /\ setLocked(id, NewEntry(email, w, authId), TRUE)

(* activeLocked: a read that also evicts the row it finds expired.         *)
Active(id) ==
  /\ \E k \in Lookup(id) : now >= bans[k].reset /\ Drop({k})
  /\ UNCHANGED now

\* Slip: no mailbox counts as a mailbox.
SameMailboxOrNone(k) == {j \in Rows : bans[j].email = bans[k].email \/ j = bans[k].email}

SameMailbox(k) ==
  IF bans[k].email = None THEN {}
  ELSE {j \in Rows : bans[j].email = bans[k].email \/ j = bans[k].email}

Clear(id) ==
  /\ \E k \in Lookup(id) : Drop({k} \cup SameMailbox(k))
  /\ UNCHANGED now

ClearAll ==
  /\ bans' = EmptyMap /\ emailIndex' = EmptyMap /\ authIndex' = EmptyMap
  /\ UNCHANGED now

\* Slip: a sweep takes a row an instant early.
AliveBeyondNext == {k \in Rows : now + 1 < bans[k].reset}

Alive == {k \in Rows : now < bans[k].reset}

(* Snapshot evicts every expired row; what it returns changes nothing.     *)
Snapshot ==
  /\ Drop(Rows \ Alive)
  /\ UNCHANGED now

(***************************************************************************)
(* ReplaceAll with the rows of the state file that have not expired, at    *)
(* start-up and on every reconfigure: memory becomes what the file holds,  *)
(* so that rows written since it was saved are gone and rows released      *)
(* since are back.  A row is filed anew under its storage key; rows are    *)
(* taken in map order, here any ranking, and the last of two rows that     *)
(* claim a key or an alias has it.                                         *)
(***************************************************************************)
Rankings(S) == {r \in [S -> 1..Cardinality(S)] : \A j, k \in S : r[j] = r[k] => j = k}

LastOf(rank, S) == CHOOSE i \in S : \A j \in S : rank[j] <= rank[i]

LiveIn(image) == {i \in DOMAIN image : now < image[i].reset}

KeyIn(image, i) == StorageKey(image[i].email, i)

FiledAt(image, k) == {i \in LiveIn(image) : KeyIn(image, i) = k}

ClaimOf(image, n) == {i \in LiveIn(image) : n \in WithAliases({i, image[i].authId})}

\* Slip: rows without a mailbox are skipped.
ReloadMailboxes(image) ==
  /\ emailIndex' = [m \in {image[i].email : i \in LiveIn(image)} \ {None} |-> m]
  /\ bans' = [m \in DOMAIN emailIndex' |-> image[CHOOSE i \in FiledAt(image, m) : TRUE]]
  /\ authIndex' = EmptyMap
  /\ UNCHANGED now

\* Slip: the ledger's own rows stay beside those of the file.
ReloadBeside(image) ==
  /\ bans' = [k \in Rows \cup {KeyIn(image, i) : i \in LiveIn(image)} |->
                IF FiledAt(image, k) = {} THEN bans[k]
                ELSE image[CHOOSE i \in FiledAt(image, k) : TRUE]]
  /\ UNCHANGED <<emailIndex, authIndex, now>>

Reload(image) ==
  /\ \E rank \in Rankings(LiveIn(image)) :
       /\ bans' = [k \in {KeyIn(image, i) : i \in LiveIn(image)} |->
                     image[LastOf(rank, FiledAt(image, k))]]
       /\ authIndex' = [n \in {m \in Names : ClaimOf(image, m) # {}} |->
                          KeyIn(image, LastOf(rank, ClaimOf(image, n)))]
  /\ emailIndex' = [m \in {image[i].email : i \in LiveIn(image)} \ {None} |-> m]
  /\ UNCHANGED now

ReplaceAll == \E image \in Files : Reload(image)

Tick ==
  /\ now < MaxTime
  /\ now' = now + 1
  /\ UNCHANGED <<bans, emailIndex, authIndex>>

Write(id, w) ==
  \/ \E email \in Mailboxes(id), p \in BOOLEAN : Set(id, email, w, p)
  \/ \E email \in Mailboxes(id), a \in SameCredential(id) : ForceSet(id, email, w, a)

Next ==
  \/ \E id \in Names : \/ \E w \in Windows : Write(id, w)
                       \/ Active(id) \/ Clear(id)
  \/ ClearAll \/ Snapshot \/ ReplaceAll \/ Tick

Spec == Init /\ [][Next]_vars
-----------------------------------------------------------------------------
(* Properties.                                                             *)

(***************************************************************************)
(* One mailbox, one isolation row: whatever mix of ids and mailboxes the   *)
(* rows were written under, no two rows name the same mailbox.             *)
(***************************************************************************)
OneRowPerMailbox ==
  \A j, k \in Rows : bans[j].email # None /\ bans[j].email = bans[k].email => j = k

(***************************************************************************)
(* Isolation is local: unless it is the clock, a fleet-wide operation or a *)
(* reload, a step changes what at most one credential's names resolve to.  *)
(* Index aliases, collapses and same-mailbox sweeps never reach a row of   *)
(* another credential.                                                     *)
(***************************************************************************)
Unaffected(n) == Lookup(n)' = Lookup(n) /\ \A k \in Lookup(n) : bans'[k] = bans[k]

OthersUntouched ==
  [][\/ ClearAll \/ Snapshot \/ ReplaceAll \/ Tick
     \/ \E id \in Names : \A n \in Names \ SameCredential(id) : Unaffected(n)]_vars

(***************************************************************************)
(* Collapsing loses nobody: a name the index resolves to a live row stops  *)
(* being isolated only when time passes, when it is released or when the   *)
(* ledger is reloaded, never by a write or a read under some other name.   *)
(* (A name only the scan still finds, through the id a row was recorded    *)
(* with, is lost when that row is rewritten under another id.)             *)
(***************************************************************************)
Isolated(n) == \E k \in Lookup(n) : now < bans[k].reset

IsolationEndsByRelease ==
  [][\A n \in Rows \cup DOMAIN authIndex :
       Isolated(n) /\ ~Isolated(n)' =>
         now' > now \/ ClearAll \/ ReplaceAll \/ \E id \in Names : Clear(id)]_vars

(***************************************************************************)
(* A reload loses no live row of the file, in whatever order the rows are  *)
(* taken: each is found again under its key, its id and the id it was      *)
(* recorded with, and the rebuilt indexes hold only names of the           *)
(* credential whose row they lead to.                                      *)
(***************************************************************************)
FoundAgain(image) ==
  /\ \A i \in LiveIn(image) : /\ Lookup(KeyIn(image, i))' = {KeyIn(image, i)}
                              /\ Lookup(i)' # {} /\ Lookup(image[i].authId)' # {}
  /\ \A n \in DOMAIN authIndex' : Credential[authIndex'[n]] = Credential[n]

ReloadRestores == [][\A image \in Files : Reload(image) => FoundAgain(image)]_vars

(***************************************************************************)
(* The ledger keeps the promise of module Isolation, operation by          *)
(* operation: a write holds its own credential at least for the window     *)
(* asked for, a release frees its own only, a reload leaves held exactly   *)
(* the credentials with a row of the file that still lasts, the clock      *)
(* frees those whose rows are over, and evicting, sweeping and collapsing  *)
(* make no difference to anyone.                                           *)
(***************************************************************************)
Owners == {Credential[n] : n \in Names}

Ends ==
  [c \in Owners |->
     {bans[k].reset : k \in {r \in Rows : Credential[r] = c /\ now < bans[r].reset}}]

EndsIn(image) ==
  [c \in Owners |-> {image[i].reset : i \in {j \in DOMAIN image : Credential[j] = c}}]

Promise == INSTANCE Isolation
             WITH Credentials <- Owners, Spans <- Windows,
                  Images <- {EndsIn(image) : image \in Files}, ends <- Ends

WritesHold ==
  \A id \in Names, w \in Windows : Write(id, w) => Promise!Isolate(Credential[id], w)
ReleasesFree == \A id \in Names : Clear(id) => Promise!Release(Credential[id])
ReloadsRestore == \A image \in Files : Reload(image) => Promise!Restore(EndsIn(image))
UpkeepIsIdle == (Snapshot \/ \E id \in Names : Active(id)) => UNCHANGED Ends

HoldsAndFrees ==
  /\ Promise!Spec
  /\ [][WritesHold /\ ReleasesFree /\ ReloadsRestore /\ UpkeepIsIdle]_vars

=============================================================================
