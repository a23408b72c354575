--------------------------- MODULE BanLedgerProofs ---------------------------
(***************************************************************************)
(* The isolation ledger, for any credentials, aliases, windows and length  *)
(* of time: its invariants, the locality of every operation, how long an   *)
(* isolation lasts, what a reload restores, and that the ledger implements *)
(* the promise of module Isolation.                                        *)
(***************************************************************************)
EXTENDS BanLedger, FiniteSetTheorems, WellFoundedInduction, TLAPS

(* A row that names a mailbox is stored under it.                          *)
Keyed == \A k \in Rows : bans[k].email # None => k = bans[k].email

LedgerInv == LedgerTypes /\ Keyed /\ IndexLive

(***************************************************************************)
(* Taking rows away, with their index entries, keeps the invariant.        *)
(***************************************************************************)
LEMMA DropKeeps ==
  ASSUME LedgerInv, NEW gone, Drop(gone), now' \in Nat
  PROVE  LedgerInv'
<1>1. bans' = [k \in Rows \ gone |-> bans[k]]
  BY DEF Drop, Restrict
<1>2. authIndex' = [n \in {m \in DOMAIN authIndex : authIndex[m] \notin gone} |-> authIndex[n]]
  BY DEF Drop, AuthIndexWithout, Restrict
<1>3. PICK kept \in SUBSET DOMAIN emailIndex : emailIndex' = [m \in kept |-> emailIndex[m]]
  BY DEF Drop, EmailIndexWithout, Restrict
<1>4. LedgerTypes'
  BY <1>1, <1>2, <1>3 DEF LedgerInv, LedgerTypes, IsLedger, Rows
<1>5. Keyed'
  BY <1>1 DEF LedgerInv, Keyed, Rows
<1>6. IndexLive'
  BY <1>1, <1>2 DEF LedgerInv, IndexLive, Rows
<1> QED
  BY <1>4, <1>5, <1>6 DEF LedgerInv

LEMMA AliasesAreNames ==
  ASSUME NEW ids \in SUBSET Names
  PROVE  WithAliases(ids) \subseteq Names
<1>1. \A n \in Names : Range(Aliases[n]) \subseteq Names
  BY AliasAssumption DEF Range
<1> QED
  BY <1>1 DEF WithAliases

LEMMA StorageKeyIsName ==
  ASSUME NEW id \in Names, NEW email \in Emails \cup {None}
  PROVE  StorageKey(email, id) \in Names
BY DEF StorageKey, Names

(***************************************************************************)
(* The row a write leaves under its key names that key, or no mailbox.     *)
(***************************************************************************)
LEMMA RowNamesItsKey ==
  ASSUME LedgerInv, NEW id \in Names, NEW e \in Entry, NEW overwrite,
         NEW key, key = StorageKey(e.email, id),
         NEW row, row = IF ~overwrite /\ Outlasts(key, e) THEN Refreshed(bans[key], e) ELSE e
  PROVE  row \in Entry /\ (row.email # None => key = row.email)
<1>1. e.email # None => key = e.email
  BY DEF StorageKey
<1>2. CASE ~overwrite /\ Outlasts(key, e)
  <2>1. key \in Rows /\ bans[key] \in Entry
    BY <1>2 DEF Outlasts, LedgerInv, LedgerTypes, IsLedger, Rows
  <2>2. row = Refreshed(bans[key], e)
    BY <1>2
  <2>3. row = [reset |-> bans[key].reset,
               email |-> IF e.email # None THEN e.email ELSE bans[key].email,
               authId |-> e.authId]
    BY <2>1, <2>2 DEF Refreshed, Entry
  <2>4. bans[key].email # None => key = bans[key].email
    BY <2>1 DEF LedgerInv, Keyed
  <2> QED
    BY <1>1, <2>1, <2>3, <2>4 DEF Entry
<1>3. CASE ~(~overwrite /\ Outlasts(key, e))
  BY <1>1, <1>3
<1> QED
  BY <1>2, <1>3

(***************************************************************************)
(* Every write keeps the invariant, whatever rows it collapses.            *)
(***************************************************************************)
LEMMA WriteKeeps ==
  ASSUME LedgerInv, NEW id \in Names, NEW e \in Entry, NEW overwrite,
         setLocked(id, e, overwrite)
  PROVE  LedgerInv'
<1> DEFINE key     == StorageKey(e.email, id)
           gone    == Collapsed(id, e.email)
           related == {id, e.authId} \cup {bans[k].authId : k \in gone} \cup (gone \ WithAt)
           row     == IF ~overwrite /\ Outlasts(key, e) THEN Refreshed(bans[key], e) ELSE e
<1>1. /\ bans' = [k \in (Rows \ gone) \cup {key} |-> IF k = key THEN row ELSE bans[k]]
      /\ Index(key, row, related, gone)
      /\ now' = now
  BY DEF setLocked
<1>2. key \in Names
  BY StorageKeyIsName DEF Entry
<1>3. row \in Entry /\ (row.email # None => key = row.email)
  BY RowNamesItsKey
<1>4. gone \subseteq Rows
  BY DEF Collapsed
<1>5. Rows \subseteq Names /\ \A k \in Rows : bans[k] \in Entry
  BY DEF LedgerInv, LedgerTypes, IsLedger, Rows
<1>6. IndexedNames(key, row, related) \subseteq Names
  <2>1. related \subseteq Names
    BY <1>4, <1>5 DEF Entry
  <2>2. related \cup {row.authId} \cup ({key} \ WithAt) \in SUBSET Names
    BY <2>1, <1>2, <1>3 DEF Entry
  <2> HIDE DEF related, row, key
  <2> QED
    BY <2>2, AliasesAreNames DEF IndexedNames
<1> HIDE DEF key, gone, related, row
<1>7. PICK hit \in SUBSET Names :
        authIndex' = [n \in DOMAIN AuthIndexWithout(gone) \cup hit |->
                        IF n \in hit THEN key ELSE AuthIndexWithout(gone)[n]]
  BY <1>1, <1>6 DEF Index
<1>8. AuthIndexWithout(gone) =
        [n \in {m \in DOMAIN authIndex : authIndex[m] \notin gone} |-> authIndex[n]]
  BY DEF AuthIndexWithout, Restrict
<1>9. PICK kept \in SUBSET DOMAIN emailIndex : EmailIndexWithout(gone) = [m \in kept |-> emailIndex[m]]
  BY DEF EmailIndexWithout, Restrict
<1>10. emailIndex' = [m \in kept \cup ({row.email} \ {None}) |->
                        IF m \in {row.email} \ {None} THEN key ELSE emailIndex[m]]
  BY <1>1, <1>9 DEF Index
<1>11. LedgerTypes'
  <2>1. IsLedger(bans)'
    BY <1>1, <1>2, <1>3, <1>5 DEF IsLedger, Rows
  <2>2. DOMAIN authIndex' \subseteq Names /\ authIndex' \in [DOMAIN authIndex' -> Names]
    BY <1>2, <1>7, <1>8 DEF LedgerInv, LedgerTypes
  <2>3. DOMAIN emailIndex' \subseteq Emails /\ emailIndex' \in [DOMAIN emailIndex' -> Names]
    BY <1>2, <1>3, <1>10 DEF LedgerInv, LedgerTypes, Entry
  <2> QED
    BY <1>1, <2>1, <2>2, <2>3 DEF LedgerInv, LedgerTypes
<1>12. Keyed'
  BY <1>1, <1>3 DEF LedgerInv, Keyed, Rows
<1>13. IndexLive'
  BY <1>1, <1>7, <1>8 DEF LedgerInv, IndexLive, Rows
<1> QED
  BY <1>11, <1>12, <1>13 DEF LedgerInv

(* Among finitely many rows one is ranked highest.                         *)
LEMMA Highest ==
  ASSUME NEW S, IsFiniteSet(S), S # {}, NEW rank, \A x \in S : rank[x] \in Int
  PROVE  \E x \in S : \A y \in S : rank[y] <= rank[x]
<1> DEFINE Above(x) == {y \in S : rank[y] > rank[x]}
           T == {Above(x) : x \in S}
<1>1. T # {} /\ T \subseteq FiniteSubsetsOf(S)
  <2>1. \A x \in S : Above(x) \in SUBSET S /\ IsFiniteSet(Above(x))
    <3>1. \A x \in S : Above(x) \in SUBSET S
      OBVIOUS
    <3> HIDE DEF Above
    <3> QED
      BY <3>1, FS_Subset
  <2> HIDE DEF Above
  <2> QED
    BY <2>1 DEF FiniteSubsetsOf
<1>2. PICK x \in S : \A y \in S : <<Above(y), Above(x)>> \notin StrictSubsetOrdering(S)
  <2>1. \E U \in T : \A V \in T : <<V, U>> \notin StrictSubsetOrdering(S)
    <3> HIDE DEF T
    <3> QED
      BY <1>1, WFMin, FS_StrictSubsetOrderingWellFounded
  <2> HIDE DEF Above
  <2> QED
    BY <2>1
<1>3. ASSUME NEW y \in S, rank[y] > rank[x] PROVE FALSE
  <2>1. Above(y) \subseteq Above(x) /\ y \in Above(x) /\ y \notin Above(y) /\ Above(x) \subseteq S
    BY <1>3
  <2> HIDE DEF Above
  <2> QED
    BY <1>2, <2>1 DEF StrictSubsetOrdering
<1> QED
  BY <1>3

(***************************************************************************)
(* What a reload leaves: rows of the file that still last, each under its  *)
(* storage key, and for every name such a row claims an index entry that   *)
(* leads to one of those.                                                  *)
(***************************************************************************)
HasRows(image) ==
  /\ Rows' = {KeyIn(image, i) : i \in LiveIn(image)}
  /\ bans' = [k \in Rows' |-> bans'[k]]
  /\ \A k \in Rows' : \E i \in LiveIn(image) : KeyIn(image, i) = k /\ bans'[k] = image[i]

HasNames(image) ==
  /\ authIndex' = [n \in DOMAIN authIndex' |-> authIndex'[n]]
  /\ \A n \in DOMAIN authIndex' :
       n \in Names /\ \E i \in ClaimOf(image, n) : authIndex'[n] = KeyIn(image, i)
  /\ \A i \in LiveIn(image) : {i, image[i].authId} \subseteq DOMAIN authIndex'

RowIn(image, i) ==
  /\ i \in Names /\ image[i] \in Entry /\ image[i].reset > now
  /\ Credential[image[i].authId] = Credential[i]
  /\ IF image[i].email = None THEN image[i].authId = i
     ELSE Credential[image[i].email] = Credential[i]

LEMMA LiveRows ==
  ASSUME NEW image \in Files, LedgerTypes
  PROVE  IsFiniteSet(LiveIn(image)) /\ \A i \in LiveIn(image) : RowIn(image, i)
<1>1. LiveIn(image) \subseteq DOMAIN image /\ IsFiniteSet(DOMAIN image)
  BY FileAssumption DEF LiveIn
<1>2. IsFiniteSet(LiveIn(image))
  BY <1>1, FS_Subset
<1>3. \A i \in LiveIn(image) : RowIn(image, i)
  BY FileAssumption DEF LiveIn, RowIn, LedgerTypes, Entry
<1> QED
  BY <1>2, <1>3

LEMMA LastIsOne ==
  ASSUME NEW L, IsFiniteSet(L), NEW rank \in Rankings(L), NEW S \in SUBSET L, S # {}
  PROVE  LastOf(rank, S) \in S
<1>1. IsFiniteSet(S) /\ Cardinality(L) \in Nat
  BY FS_Subset, FS_CardinalityType
<1>2. \A x \in S : rank[x] \in Int
  BY <1>1 DEF Rankings
<1>3. \E x \in S : \A y \in S : rank[y] <= rank[x]
  BY <1>1, <1>2, Highest
<1> QED
  BY <1>3 DEF LastOf

LEMMA Reloaded ==
  ASSUME NEW image \in Files, LedgerTypes, Reload(image)
  PROVE  HasRows(image) /\ HasNames(image)
<1>1. PICK rank \in Rankings(LiveIn(image)) :
        /\ bans' = [k \in {KeyIn(image, i) : i \in LiveIn(image)} |->
                      image[LastOf(rank, FiledAt(image, k))]]
        /\ authIndex' = [n \in {m \in Names : ClaimOf(image, m) # {}} |->
                           KeyIn(image, LastOf(rank, ClaimOf(image, n)))]
  BY DEF Reload
<1>2. ASSUME NEW S \in SUBSET LiveIn(image), S # {} PROVE LastOf(rank, S) \in S
  BY <1>2, LiveRows, LastIsOne
<1>3. HasRows(image)
  <2>1. Rows' = {KeyIn(image, i) : i \in LiveIn(image)}
    BY <1>1 DEF Rows
  <2>2. ASSUME NEW k \in Rows'
        PROVE  \E i \in LiveIn(image) : KeyIn(image, i) = k /\ bans'[k] = image[i]
    <3>1. FiledAt(image, k) \in SUBSET LiveIn(image) /\ FiledAt(image, k) # {}
      BY <2>1, <2>2 DEF FiledAt
    <3>2. LastOf(rank, FiledAt(image, k)) \in FiledAt(image, k)
      BY <1>2, <3>1
    <3> QED
      BY <1>1, <2>1, <2>2, <3>2 DEF FiledAt
  <2> QED
    BY <1>1, <2>1, <2>2 DEF HasRows
<1>4. HasNames(image)
  <2>1. ASSUME NEW n \in DOMAIN authIndex'
        PROVE  n \in Names /\ \E i \in ClaimOf(image, n) : authIndex'[n] = KeyIn(image, i)
    <3>1. n \in Names /\ ClaimOf(image, n) \in SUBSET LiveIn(image) /\ ClaimOf(image, n) # {}
      BY <1>1, <2>1 DEF ClaimOf
    <3>2. LastOf(rank, ClaimOf(image, n)) \in ClaimOf(image, n)
      BY <1>2, <3>1
    <3> QED
      BY <1>1, <2>1, <3>1, <3>2
  <2>2. ASSUME NEW i \in LiveIn(image), NEW n \in {i, image[i].authId}
        PROVE  n \in DOMAIN authIndex'
    <3>1. n \in Names
      BY LiveRows DEF RowIn, Entry
    <3>2. n \in WithAliases({i, image[i].authId})
      BY <3>1, AliasAssumption DEF WithAliases, Range
    <3>3. i \in ClaimOf(image, n)
      BY <3>2 DEF ClaimOf
    <3> QED
      BY <1>1, <3>1, <3>3
  <2> QED
    BY <1>1, <2>1, <2>2 DEF HasNames
<1> QED
  BY <1>3, <1>4

(***************************************************************************)
(* A reload rebuilds rows and indexes from the file alone, and keeps the   *)
(* invariant.                                                              *)
(***************************************************************************)
LEMMA ReloadKeeps ==
  ASSUME LedgerInv, NEW image \in Files, Reload(image)
  PROVE  LedgerInv'
<1>0. LedgerTypes
  BY DEF LedgerInv
<1>1. HasRows(image) /\ HasNames(image) /\ now' = now
  BY <1>0, Reloaded DEF Reload
<1>2. \A i \in LiveIn(image) : RowIn(image, i)
  BY <1>0, LiveRows
<1>3. \A i \in LiveIn(image) : /\ KeyIn(image, i) \in Names
                               /\ image[i].email # None => KeyIn(image, i) = image[i].email
  BY <1>2 DEF RowIn, KeyIn, StorageKey, Entry, Names
<1>4. emailIndex' = [m \in {image[i].email : i \in LiveIn(image)} \ {None} |-> m]
  BY DEF Reload
<1>5. LedgerTypes'
  <2>1. IsLedger(bans)'
    BY <1>1, <1>2, <1>3 DEF HasRows, RowIn, IsLedger, Rows
  <2>2. DOMAIN authIndex' \subseteq Names /\ authIndex' \in [DOMAIN authIndex' -> Names]
    BY <1>1, <1>3 DEF HasNames, ClaimOf
  <2>3. DOMAIN emailIndex' \subseteq Emails /\ emailIndex' \in [DOMAIN emailIndex' -> Names]
    BY <1>2, <1>4 DEF RowIn, Entry, Names
  <2> QED
    BY <1>0, <1>1, <2>1, <2>2, <2>3 DEF LedgerTypes
<1>6. Keyed'
  BY <1>1, <1>3 DEF HasRows, Keyed
<1>7. IndexLive'
  BY <1>1 DEF HasRows, HasNames, ClaimOf, IndexLive
<1> QED
  BY <1>5, <1>6, <1>7 DEF LedgerInv

LEMMA InitEstablishes == Init => LedgerInv
<1> SUFFICES ASSUME Init PROVE LedgerInv
  OBVIOUS
<1>1. bans = [n \in {} |-> None] /\ emailIndex = bans /\ authIndex = bans /\ now = 0
  BY DEF Init, EmptyMap
<1> QED
  BY <1>1 DEF LedgerInv, LedgerTypes, IsLedger, Keyed, IndexLive, Rows

(***************************************************************************)
(* Every step of the ledger keeps the invariant.                           *)
(***************************************************************************)
LEMMA StepKeeps == LedgerInv /\ [Next]_vars => LedgerInv'
<1> SUFFICES ASSUME LedgerInv, [Next]_vars PROVE LedgerInv'
  OBVIOUS
<1>now. now \in Nat
  BY DEF LedgerInv, LedgerTypes
<1>entry. ASSUME NEW id \in Names, NEW email \in Mailboxes(id), NEW w \in Windows,
                 NEW a \in SameCredential(id)
          PROVE  NewEntry(email, w, a) \in Entry
  <2>1. now + w \in Nat
    BY <1>now, TimeAssumption
  <2>2. email \in Emails \cup {None} /\ a \in Names
    BY DEF Mailboxes, SameCredential
  <2> QED
    BY <2>1, <2>2 DEF NewEntry, Entry
<1>1. ASSUME NEW id \in Names, NEW w \in Windows, Write(id, w) PROVE LedgerInv'
  <2>1. ASSUME NEW email \in Mailboxes(id), NEW p \in BOOLEAN,
               Set(id, email, w, p)
        PROVE  LedgerInv'
    <3>1. id \in SameCredential(id)
      BY DEF SameCredential
    <3>2. NewEntry(email, w, id) \in Entry
      BY <1>entry, <3>1
    <3> QED
      BY <2>1, <3>2, WriteKeeps DEF Set
  <2>2. ASSUME NEW email \in Mailboxes(id), NEW a \in SameCredential(id),
               ForceSet(id, email, w, a)
        PROVE  LedgerInv'
    BY <1>entry, <2>2, WriteKeeps DEF ForceSet
  <2> QED
    BY <1>1, <2>1, <2>2 DEF Write
<1>2. ASSUME NEW id \in Names, Active(id) \/ Clear(id) PROVE LedgerInv'
  <2>1. PICK gone : Drop(gone)
    BY <1>2 DEF Active, Clear
  <2>2. now' \in Nat
    BY <1>2, <1>now DEF Active, Clear
  <2> QED
    BY <2>1, <2>2, DropKeeps
<1>3. CASE ClearAll
  <2>1. bans' = [n \in {} |-> None] /\ emailIndex' = bans' /\ authIndex' = bans' /\ now' = now
    BY <1>3 DEF ClearAll, EmptyMap
  <2> QED
    BY <2>1, <1>now DEF LedgerInv, LedgerTypes, IsLedger, Keyed, IndexLive, Rows
<1>4. CASE Snapshot
  BY <1>4, <1>now, DropKeeps DEF Snapshot
<1>5. CASE ReplaceAll
  BY <1>5, ReloadKeeps DEF ReplaceAll
<1>6. CASE Tick \/ UNCHANGED vars
  <2>1. bans' = bans /\ emailIndex' = emailIndex /\ authIndex' = authIndex /\ now' \in Nat
    BY <1>6, <1>now DEF Tick, vars
  <2> QED
    BY <2>1 DEF LedgerInv, LedgerTypes, IsLedger, Keyed, IndexLive, Rows
<1> QED
  BY <1>1, <1>2, <1>3, <1>4, <1>5, <1>6 DEF Next

(* The inductive invariant holds whatever Set, ForceSet, Clear, Snapshot,  *)
(* and ReplaceAll are called with, and whenever rows expire.               *)
THEOREM LedgerInvariant == Spec => []LedgerInv
BY InitEstablishes, StepKeeps, PTL DEF Spec

(***************************************************************************)
(* Every reachable ledger is well formed: rows and indexes stay within the *)
(* names there are, and no id in the reverse index outlives the row it     *)
(* leads to, whatever is written, released or reloaded.                    *)
(***************************************************************************)
THEOREM LedgerTypeOK == Spec => []TypeOK
<1>1. LedgerInv => TypeOK
  BY DEF LedgerInv, TypeOK
<1> QED
  BY <1>1, LedgerInvariant, PTL

(***************************************************************************)
(* One mailbox, one isolation row: because a row that names a mailbox is   *)
(* always stored under that mailbox.                                       *)
(***************************************************************************)
THEOREM MailboxHasOneRow == Spec => []OneRowPerMailbox
<1>1. LedgerInv => OneRowPerMailbox
  BY DEF LedgerInv, Keyed, OneRowPerMailbox
<1> QED
  BY <1>1, LedgerInvariant, PTL

-----------------------------------------------------------------------------
(* Isolation is local.                                                     *)

(* A row, and every index entry that leads to it, bears names of one       *)
(* credential; a mailbox is only ever indexed to the row stored under it.  *)
LocalInv ==
  /\ \A n \in DOMAIN authIndex : Credential[authIndex[n]] = Credential[n]
  /\ \A k \in Rows : Credential[bans[k].authId] = Credential[k]
  /\ \A m \in DOMAIN emailIndex : emailIndex[m] = m

(* A step that touches no row and no index entry of a name outside S.      *)
Confined(S) ==
  \A n \in Names \ S :
    /\ n \in Rows' <=> n \in Rows
    /\ n \in Rows => bans'[n] = bans[n]
    /\ n \in DOMAIN authIndex' <=> n \in DOMAIN authIndex
    /\ n \in DOMAIN authIndex => authIndex'[n] = authIndex[n]
    /\ n \in DOMAIN emailIndex' <=> n \in DOMAIN emailIndex
    /\ n \in DOMAIN emailIndex => emailIndex'[n] = emailIndex[n]

LEMMA AliasesOfCredential ==
  ASSUME NEW id \in Names, NEW ids \in SUBSET SameCredential(id)
  PROVE  WithAliases(ids) \subseteq SameCredential(id)
<1>1. ASSUME NEW n \in SameCredential(id), NEW m \in Range(Aliases[n]) PROVE m \in SameCredential(id)
  <2>1. n \in Names /\ Credential[n] = Credential[id]
    BY DEF SameCredential
  <2>2. m \in Names
    BY <2>1, AliasAssumption DEF Range
  <2>3. Credential[m] = Credential[n]
    BY <2>1, <2>2, CredentialAssumption
  <2> QED
    BY <2>1, <2>2, <2>3 DEF SameCredential
<1> QED
  BY <1>1 DEF WithAliases

(***************************************************************************)
(* A lookup only ever finds rows of the credential it was asked about: by  *)
(* key, by alias, by mailbox and by the scan.                              *)
(***************************************************************************)
LEMMA ScanIsLocal ==
  ASSUME LedgerInv, LocalInv, NEW n \in Names, NEW k \in ScanHits(n)
  PROVE  k \in Rows /\ k \in Names /\ Credential[k] = Credential[n]
<1>1. k \in Rows /\ k \in Names /\ bans[k] \in Entry
  BY DEF ScanHits, LedgerInv, LedgerTypes, IsLedger, Rows
<1>2. CASE SameId(k, n)
  BY <1>1, <1>2, CredentialAssumption DEF SameId
<1>3. CASE SameId(bans[k].authId, n)
  <2>1. bans[k].authId \in Names
    BY <1>1 DEF Entry
  <2>2. Credential[bans[k].authId] = Credential[n]
    BY <1>3, <2>1, CredentialAssumption DEF SameId
  <2> QED
    BY <1>1, <2>2 DEF LocalInv
<1>4. CASE bans[k].email = n
  BY <1>1, <1>4, NamesAssumption DEF LedgerInv, Keyed
<1> QED
  BY <1>1, <1>2, <1>3, <1>4 DEF ScanHits

LEMMA LookupIsLocal ==
  ASSUME LedgerInv, LocalInv, NEW n \in Names, NEW k \in Lookup(n)
  PROVE  k \in Rows /\ k \in Names /\ Credential[k] = Credential[n]
<1>0. Rows \subseteq Names
  BY DEF LedgerInv, LedgerTypes, IsLedger, Rows
<1>1. CASE n \in Rows
  BY <1>0, <1>1 DEF Lookup
<1>2. CASE n \notin Rows /\ AliasHits(n) # {}
  <2>1. PICK i \in AliasHits(n) : k = authIndex[Aliases[n][i]]
    BY <1>2 DEF Lookup
  <2>2. i \in DOMAIN Aliases[n] /\ Aliases[n][i] \in DOMAIN authIndex /\ k \in Rows
    BY <2>1 DEF AliasHits
  <2>3. Aliases[n][i] \in Names
    BY <2>2 DEF LedgerInv, LedgerTypes
  <2>4. Aliases[n][i] \in Range(Aliases[n])
    BY <2>2 DEF Range
  <2>5. Credential[Aliases[n][i]] = Credential[n]
    BY <2>3, <2>4, CredentialAssumption
  <2> QED
    BY <1>0, <2>1, <2>2, <2>5 DEF LocalInv
<1>3. CASE n \notin Rows /\ AliasHits(n) = {} /\ n \in DOMAIN emailIndex /\ emailIndex[n] \in Rows
  BY <1>0, <1>3 DEF Lookup, LocalInv
<1>4. CASE n \notin Rows /\ AliasHits(n) = {} /\ ~(n \in DOMAIN emailIndex /\ emailIndex[n] \in Rows)
  BY <1>4, ScanIsLocal DEF Lookup
<1> QED
  BY <1>1, <1>2, <1>3, <1>4

(***************************************************************************)
(* So a step confined to one credential's names cannot change what the     *)
(* names of another resolve to.                                            *)
(***************************************************************************)
LEMMA ConfinedUnaffected ==
  ASSUME LedgerInv, LocalInv, LedgerInv', LocalInv',
         NEW id \in Names, Confined(SameCredential(id)),
         NEW n \in Names \ SameCredential(id)
  PROVE  Unaffected(n)
<1>0. Credential[n] # Credential[id]
  BY DEF SameCredential
<1>same. ASSUME NEW k \in Names, Credential[k] = Credential[n]
         PROVE  /\ k \in Rows' <=> k \in Rows
                /\ k \in Rows => bans'[k] = bans[k]
                /\ k \in DOMAIN authIndex' <=> k \in DOMAIN authIndex
                /\ k \in DOMAIN authIndex => authIndex'[k] = authIndex[k]
                /\ k \in DOMAIN emailIndex' <=> k \in DOMAIN emailIndex
                /\ k \in DOMAIN emailIndex => emailIndex'[k] = emailIndex[k]
  <2>1. k \in Names \ SameCredential(id)
    BY <1>0, <1>same DEF SameCredential
  <2> QED
    BY <2>1 DEF Confined
<1>1. \A i \in DOMAIN Aliases[n] : Aliases[n][i] \in Names /\ Credential[Aliases[n][i]] = Credential[n]
  <2>1. ASSUME NEW i \in DOMAIN Aliases[n] PROVE Aliases[n][i] \in Names /\ Aliases[n][i] \in Range(Aliases[n])
    BY AliasAssumption DEF Range
  <2> QED
    BY <2>1, CredentialAssumption
<1>2. \A i \in DOMAIN Aliases[n] : Aliases[n][i] \in DOMAIN authIndex =>
        /\ authIndex[Aliases[n][i]] \in Names
        /\ Credential[authIndex[Aliases[n][i]]] = Credential[n]
  BY <1>1 DEF LedgerInv, LedgerTypes, LocalInv
<1>3. AliasHits(n)' = AliasHits(n)
  BY <1>1, <1>2, <1>same DEF AliasHits
<1>4. ScanHits(n)' = ScanHits(n)
  <2>1. ASSUME NEW k \in ScanHits(n) PROVE k \in ScanHits(n)'
    <3>1. k \in Rows /\ k \in Names /\ Credential[k] = Credential[n]
      BY ScanIsLocal
    <3>2. k \in Rows' /\ bans'[k] = bans[k]
      BY <3>1, <1>same
    <3> QED
      BY <3>2 DEF ScanHits, SameId
  <2>2. ASSUME NEW k \in ScanHits(n)' PROVE k \in ScanHits(n)
    <3>1. k \in Rows' /\ k \in Names /\ bans'[k] \in Entry
      BY DEF ScanHits, LedgerInv, LedgerTypes, IsLedger, Rows
    <3>2. Credential[k] = Credential[n]
      <4>1. CASE SameId(k, n)
        BY <3>1, <4>1, CredentialAssumption DEF SameId
      <4>2. CASE SameId(bans'[k].authId, n)
        <5>1. bans'[k].authId \in Names /\ Credential[bans'[k].authId] = Credential[k]
          BY <3>1 DEF Entry, LocalInv
        <5> QED
          BY <4>2, <5>1, CredentialAssumption DEF SameId
      <4>3. CASE bans'[k].email = n
        BY <3>1, <4>3, NamesAssumption DEF LedgerInv, Keyed
      <4> QED
        BY <4>1, <4>2, <4>3 DEF ScanHits, SameId
    <3>3. k \in Rows /\ bans'[k] = bans[k]
      BY <3>1, <3>2, <1>same
    <3> QED
      BY <3>3 DEF ScanHits, SameId
  <2> QED
    BY <2>1, <2>2
<1>5. Lookup(n)' = Lookup(n)
  <2>1. n \in Rows' <=> n \in Rows
    BY <1>same
  <2>2. \A i \in AliasHits(n) : authIndex'[Aliases[n][i]] = authIndex[Aliases[n][i]]
    BY <1>1, <1>same DEF AliasHits
  <2>3. (n \in DOMAIN emailIndex /\ emailIndex[n] \in Rows)' <=>
          (n \in DOMAIN emailIndex /\ emailIndex[n] \in Rows)
    BY <1>same DEF LocalInv
  <2>4. n \in DOMAIN emailIndex => emailIndex'[n] = emailIndex[n]
    BY <1>same
  <2>5. CASE n \in Rows
    BY <2>1, <2>5 DEF Lookup
  <2>6. CASE n \notin Rows /\ AliasHits(n) # {}
    BY <2>1, <2>2, <2>6, <1>3 DEF Lookup
  <2>7. CASE n \notin Rows /\ AliasHits(n) = {}
    BY <2>1, <2>3, <2>4, <2>7, <1>3, <1>4 DEF Lookup
  <2> QED
    BY <2>5, <2>6, <2>7
<1>6. \A k \in Lookup(n) : bans'[k] = bans[k]
  BY LookupIsLocal, <1>same
<1> QED
  BY <1>5, <1>6 DEF Unaffected
(***************************************************************************)
(* Dropping rows keeps the locality, and touches nothing else when the     *)
(* rows are of one credential.                                             *)
(***************************************************************************)
LEMMA DropIsLocal ==
  ASSUME LedgerInv, LocalInv, NEW gone, Drop(gone)
  PROVE  LocalInv'
<1>1. bans' = [k \in Rows \ gone |-> bans[k]]
  BY DEF Drop, Restrict
<1>2. authIndex' = [n \in {m \in DOMAIN authIndex : authIndex[m] \notin gone} |-> authIndex[n]]
  BY DEF Drop, AuthIndexWithout, Restrict
<1>3. PICK kept \in SUBSET DOMAIN emailIndex : emailIndex' = [m \in kept |-> emailIndex[m]]
  BY DEF Drop, EmailIndexWithout, Restrict
<1> QED
  BY <1>1, <1>2, <1>3 DEF LocalInv, Rows

(* The mailbox index keeps the entries of every other credential.          *)
LEMMA MailboxesKept ==
  ASSUME LedgerInv, LocalInv, NEW id \in Names, NEW gone \in SUBSET Rows,
         gone \subseteq SameCredential(id)
  PROVE  /\ DOMAIN EmailIndexWithout(gone) \subseteq DOMAIN emailIndex
         /\ \A m \in DOMAIN EmailIndexWithout(gone) : EmailIndexWithout(gone)[m] = emailIndex[m]
         /\ \A m \in Names \ SameCredential(id) :
              m \in DOMAIN emailIndex => m \in DOMAIN EmailIndexWithout(gone)
<1> DEFINE kept == {m \in DOMAIN emailIndex :
                      ~ \E k \in gone : bans[k].email = m /\ emailIndex[m] = k}
<1>1. EmailIndexWithout(gone) = [m \in kept |-> emailIndex[m]]
  BY DEF EmailIndexWithout, Restrict
<1>2. \A m \in Names \ SameCredential(id) : m \in DOMAIN emailIndex => m \in kept
  BY DEF LocalInv
<1> QED
  BY <1>1, <1>2

LEMMA DropConfined ==
  ASSUME LedgerInv, LocalInv, NEW id \in Names, NEW gone \in SUBSET Rows,
         gone \subseteq SameCredential(id), Drop(gone)
  PROVE  Confined(SameCredential(id))
<1>1. bans' = [k \in Rows \ gone |-> bans[k]]
  BY DEF Drop, Restrict
<1>2. authIndex' = [n \in {m \in DOMAIN authIndex : authIndex[m] \notin gone} |-> authIndex[n]]
  BY DEF Drop, AuthIndexWithout, Restrict
<1>3. ASSUME NEW n \in Names \ SameCredential(id)
      PROVE  /\ n \in Rows' <=> n \in Rows
             /\ n \in Rows => bans'[n] = bans[n]
  BY <1>1 DEF Rows
<1>4. ASSUME NEW n \in Names \ SameCredential(id), n \in DOMAIN authIndex
      PROVE  authIndex[n] \notin gone
  <2>1. Credential[authIndex[n]] # Credential[id]
    BY <1>4 DEF LocalInv, SameCredential
  <2> QED
    BY <2>1 DEF SameCredential
<1>5. emailIndex' = EmailIndexWithout(gone)
  BY DEF Drop
<1> QED
  BY <1>2, <1>3, <1>4, <1>5, MailboxesKept DEF Confined

(***************************************************************************)
(* The rows a write collapses, the names it indexes and the key it writes  *)
(* under are all names of the credential that is written.                  *)
(***************************************************************************)
LEMMA CollapsedIsLocal ==
  ASSUME LedgerInv, NEW id \in Names, NEW email \in Mailboxes(id)
  PROVE  Collapsed(id, email) \subseteq SameCredential(id) \cap Rows
<1> SUFFICES ASSUME NEW k \in Collapsed(id, email)
             PROVE  k \in SameCredential(id) \cap Rows
  OBVIOUS
<1>1. email # None /\ k \in Rows /\ k # email /\ (bans[k].email = email \/ k = id)
  BY DEF Collapsed
<1>2. k = id
  BY <1>1 DEF LedgerInv, Keyed
<1> QED
  BY <1>1, <1>2 DEF SameCredential

LEMMA WriteIsLocal ==
  ASSUME LedgerInv, LocalInv, NEW id \in Names, NEW email \in Mailboxes(id),
         NEW e \in Entry, e.email = email, e.authId \in SameCredential(id),
         NEW overwrite, setLocked(id, e, overwrite)
  PROVE  LocalInv' /\ Confined(SameCredential(id))
<1> DEFINE key     == StorageKey(e.email, id)
           gone    == Collapsed(id, e.email)
           related == {id, e.authId} \cup {bans[k].authId : k \in gone} \cup (gone \ WithAt)
           row     == IF ~overwrite /\ Outlasts(key, e) THEN Refreshed(bans[key], e) ELSE e
           hit     == IndexedNames(key, row, related)
           cred    == SameCredential(id)
<1>1. /\ bans' = [k \in (Rows \ gone) \cup {key} |-> IF k = key THEN row ELSE bans[k]]
      /\ Index(key, row, related, gone)
  BY DEF setLocked
<1>2. key \in cred
  BY DEF StorageKey, Mailboxes, SameCredential
<1>3. gone \subseteq cred /\ gone \subseteq Rows
  BY CollapsedIsLocal
<1>4. row \in Entry /\ (row.email # None => key = row.email)
  BY RowNamesItsKey
<1>5. row.authId = e.authId
  <2>1. CASE ~overwrite /\ Outlasts(key, e)
    <3>1. bans[key] \in Entry
      BY <2>1 DEF Outlasts, LedgerInv, LedgerTypes, IsLedger, Rows
    <3> QED
      BY <2>1, <3>1 DEF Refreshed, Entry
  <2>2. CASE ~(~overwrite /\ Outlasts(key, e))
    BY <2>2
  <2> QED
    BY <2>1, <2>2
<1>6. Rows \subseteq Names /\ \A k \in Rows : bans[k] \in Entry
  BY DEF LedgerInv, LedgerTypes, IsLedger, Rows
<1>7. hit \subseteq cred
  <2>1. \A k \in gone : bans[k].authId \in cred
    BY <1>3, <1>6 DEF LocalInv, Entry, SameCredential
  <2>2. id \in cred
    BY DEF SameCredential
  <2>3. related \cup {row.authId} \cup ({key} \ WithAt) \in SUBSET cred
    BY <1>2, <1>3, <1>5, <2>1, <2>2
  <2> HIDE DEF related, row, key
  <2> QED
    BY <2>3, AliasesOfCredential DEF IndexedNames
<1>8. authIndex' = [n \in DOMAIN AuthIndexWithout(gone) \cup hit |->
                      IF n \in hit THEN key ELSE AuthIndexWithout(gone)[n]]
  BY <1>1 DEF Index
<1>9. emailIndex' = [m \in DOMAIN EmailIndexWithout(gone) \cup ({row.email} \ {None}) |->
                       IF m \in {row.email} \ {None} THEN key ELSE EmailIndexWithout(gone)[m]]
  BY <1>1 DEF Index
<1> HIDE DEF key, gone, related, row, hit
<1>10. AuthIndexWithout(gone) =
         [n \in {m \in DOMAIN authIndex : authIndex[m] \notin gone} |-> authIndex[n]]
  BY DEF AuthIndexWithout, Restrict
<1>11. /\ DOMAIN EmailIndexWithout(gone) \subseteq DOMAIN emailIndex
       /\ \A m \in DOMAIN EmailIndexWithout(gone) : EmailIndexWithout(gone)[m] = emailIndex[m]
       /\ \A m \in Names \ cred : m \in DOMAIN emailIndex => m \in DOMAIN EmailIndexWithout(gone)
  BY <1>3, MailboxesKept
<1>12. \A n \in Names \ cred : n \in DOMAIN authIndex => authIndex[n] \notin gone
  BY <1>3 DEF LocalInv, SameCredential
<1>13. LocalInv'
  <2>1. \A n \in DOMAIN authIndex' : Credential[authIndex'[n]] = Credential[n]
    BY <1>2, <1>7, <1>8, <1>10 DEF LocalInv, SameCredential
  <2>2. \A k \in Rows' : Credential[bans'[k].authId] = Credential[k]
    BY <1>1, <1>2, <1>5 DEF LocalInv, Rows, SameCredential
  <2>3. \A m \in DOMAIN emailIndex' : emailIndex'[m] = m
    BY <1>4, <1>9, <1>11 DEF LocalInv
  <2> QED
    BY <2>1, <2>2, <2>3 DEF LocalInv
<1>14. Confined(cred)
  <2>1. ASSUME NEW n \in Names \ cred
        PROVE  (n \in Rows' <=> n \in Rows) /\ (n \in Rows => bans'[n] = bans[n])
    BY <1>1, <1>2, <1>3 DEF Rows
  <2>2. ASSUME NEW n \in Names \ cred
        PROVE  /\ n \in DOMAIN authIndex' <=> n \in DOMAIN authIndex
               /\ n \in DOMAIN authIndex => authIndex'[n] = authIndex[n]
    BY <1>7, <1>8, <1>10, <1>12
  <2>3. ASSUME NEW n \in Names \ cred
        PROVE  /\ n \in DOMAIN emailIndex' <=> n \in DOMAIN emailIndex
               /\ n \in DOMAIN emailIndex => emailIndex'[n] = emailIndex[n]
    <3>1. row.email # None => row.email \in cred
      BY <1>2, <1>4
    <3> QED
      BY <1>9, <1>11, <3>1
  <2> QED
    BY <2>1, <2>2, <2>3 DEF Confined
<1> QED
  BY <1>13, <1>14

LEMMA ReloadIsLocal ==
  ASSUME LedgerTypes, NEW image \in Files, Reload(image)
  PROVE  LocalInv'
<1>1. HasRows(image) /\ HasNames(image) /\ \A i \in LiveIn(image) : RowIn(image, i)
  BY Reloaded, LiveRows
<1>2. \A i \in LiveIn(image) : Credential[KeyIn(image, i)] = Credential[i]
  BY <1>1 DEF RowIn, KeyIn, StorageKey
<1>3. ASSUME NEW n \in DOMAIN authIndex' PROVE Credential[authIndex'[n]] = Credential[n]
  <2>1. PICK i \in ClaimOf(image, n) : n \in Names /\ authIndex'[n] = KeyIn(image, i)
    BY <1>1 DEF HasNames
  <2>2. i \in LiveIn(image) /\ n \in WithAliases({i, image[i].authId})
    BY DEF ClaimOf
  <2>3. i \in Names /\ {i, image[i].authId} \in SUBSET SameCredential(i)
    BY <1>1, <2>2 DEF RowIn, Entry, SameCredential
  <2>4. n \in SameCredential(i)
    BY <2>2, <2>3, AliasesOfCredential
  <2> QED
    BY <1>2, <2>1, <2>2, <2>4 DEF SameCredential
<1>4. \A k \in Rows' : Credential[bans'[k].authId] = Credential[k]
  BY <1>1, <1>2 DEF HasRows, RowIn
<1>5. \A m \in DOMAIN emailIndex' : emailIndex'[m] = m
  BY DEF Reload
<1> QED
  BY <1>3, <1>4, <1>5 DEF LocalInv

LEMMA InitIsLocal == Init => LocalInv
BY DEF Init, EmptyMap, LocalInv, Rows
(***************************************************************************)
(* What a step may change: everything for the clock and the operations on  *)
(* the whole ledger, and otherwise the names of one credential.            *)
(***************************************************************************)
LEMMA StepIsLocal ==
  ASSUME LedgerInv, LocalInv, [Next]_vars
  PROVE  /\ LocalInv'
         /\ \/ ClearAll \/ Snapshot \/ ReplaceAll \/ Tick \/ UNCHANGED vars
            \/ \E id \in Names : Confined(SameCredential(id))
<1>now. now \in Nat
  BY DEF LedgerInv, LedgerTypes
<1>write. ASSUME NEW id \in Names, NEW email \in Mailboxes(id), NEW w \in Windows,
                 NEW a \in SameCredential(id), NEW overwrite,
                 setLocked(id, NewEntry(email, w, a), overwrite)
          PROVE  LocalInv' /\ Confined(SameCredential(id))
  <2>1. now + w \in Nat
    BY <1>now, TimeAssumption
  <2>2. email \in Emails \cup {None} /\ a \in Names
    BY DEF Mailboxes, SameCredential
  <2>3. /\ NewEntry(email, w, a) \in Entry
        /\ NewEntry(email, w, a).email = email /\ NewEntry(email, w, a).authId = a
    BY <2>1, <2>2 DEF NewEntry, Entry
  <2> QED
    BY <1>write, <2>3, WriteIsLocal
<1>1. ASSUME NEW id \in Names, NEW w \in Windows, Write(id, w) PROVE LocalInv' /\ Confined(SameCredential(id))
  <2>1. id \in SameCredential(id)
    BY DEF SameCredential
  <2>2. ASSUME NEW email \in Mailboxes(id), NEW p \in BOOLEAN,
               Set(id, email, w, p)
        PROVE  LocalInv' /\ Confined(SameCredential(id))
    BY <1>write, <2>1, <2>2 DEF Set
  <2>3. ASSUME NEW email \in Mailboxes(id), NEW a \in SameCredential(id),
               ForceSet(id, email, w, a)
        PROVE  LocalInv' /\ Confined(SameCredential(id))
    BY <1>write, <2>3 DEF ForceSet
  <2> QED
    BY <1>1, <2>2, <2>3 DEF Write
<1>2. ASSUME NEW id \in Names, Active(id) \/ Clear(id)
      PROVE  LocalInv' /\ Confined(SameCredential(id))
  <2>1. PICK k \in Lookup(id) : Drop({k}) \/ Drop({k} \cup SameMailbox(k))
    BY <1>2 DEF Active, Clear
  <2>2. k \in Rows /\ k \in Names /\ Credential[k] = Credential[id]
    BY LookupIsLocal
  <2>3. SameMailbox(k) \subseteq {k}
    BY <2>2 DEF SameMailbox, LedgerInv, Keyed
  <2>4. Drop({k})
    <3>1. {k} \cup SameMailbox(k) = {k}
      BY <2>3
    <3> QED
      BY <2>1, <3>1
  <2>5. {k} \in SUBSET Rows /\ {k} \subseteq SameCredential(id)
    BY <2>2 DEF SameCredential
  <2> QED
    BY <2>4, <2>5, DropIsLocal, DropConfined
<1>3. CASE ClearAll
  BY <1>3 DEF ClearAll, EmptyMap, LocalInv, Rows
<1>4. CASE Snapshot
  BY <1>4, DropIsLocal DEF Snapshot
<1>5. CASE ReplaceAll
  BY <1>5, ReloadIsLocal DEF ReplaceAll, LedgerInv
<1>6. CASE Tick \/ UNCHANGED vars
  <2>1. bans' = bans /\ emailIndex' = emailIndex /\ authIndex' = authIndex
    BY <1>6 DEF Tick, vars
  <2>2. LocalInv'
    BY <2>1 DEF LocalInv, Rows
  <2> QED
    BY <1>6, <2>2
<1> QED
  BY <1>1, <1>2, <1>3, <1>4, <1>5, <1>6 DEF Next

(***************************************************************************)
(* Isolation is local, for every naming of credentials in which two        *)
(* credentials share no alias: what is written, read or released for one   *)
(* never reaches the row of another.                                       *)
(***************************************************************************)
THEOREM IsolationIsLocal == Spec => OthersUntouched
<1>1. LedgerInv /\ LocalInv /\ [Next]_vars => LocalInv'
  BY StepIsLocal
<1>2. Spec => [](LedgerInv /\ LocalInv)
  BY InitEstablishes, InitIsLocal, StepKeeps, <1>1, PTL DEF Spec
<1>3. LedgerInv /\ LocalInv /\ LedgerInv' /\ LocalInv' /\ [Next]_vars =>
        [\/ ClearAll \/ Snapshot \/ ReplaceAll \/ Tick
         \/ \E id \in Names : \A n \in Names \ SameCredential(id) : Unaffected(n)]_vars
  BY StepIsLocal, ConfinedUnaffected
<1> QED
  BY <1>2, <1>3, PTL DEF Spec, OthersUntouched

-----------------------------------------------------------------------------
(* Isolation lasts.                                                        *)

(* A credential has one mailbox.                                           *)
OneMailbox == \A m, n \in Emails : Credential[m] = Credential[n] => m = n

(* A row under an id, which has no mailbox, was written for that id, and   *)
(* only the aliases of the id lead to it.                                  *)
BareInv ==
  \A k \in Rows \ Emails :
    /\ bans[k].authId = k
    /\ \A n \in DOMAIN authIndex : authIndex[n] = k => n \in Range(Aliases[k])

(* A lookup finds the row under the name itself, or else the one that the  *)
(* index leads to from the name itself.                                    *)
FoundByRow ==
  /\ \A n \in Rows : Lookup(n) = {n}
  /\ \A n \in DOMAIN authIndex \ Rows : Lookup(n) = {authIndex[n]}

LEMMA RowFound == LedgerInv => FoundByRow
<1> SUFFICES ASSUME LedgerInv PROVE FoundByRow
  OBVIOUS
<1>1. \A n \in Rows : Lookup(n) = {n}
  BY DEF Lookup
<1>2. ASSUME NEW n \in DOMAIN authIndex \ Rows PROVE Lookup(n) = {authIndex[n]}
  <2>1. n \in Names /\ authIndex[n] \in Rows
    BY DEF LedgerInv, LedgerTypes, IndexLive
  <2>2. 1 \in DOMAIN Aliases[n] /\ Aliases[n][1] = n /\ Aliases[n] \in Seq(Names)
    BY <2>1, AliasAssumption
  <2>3. 1 \in AliasHits(n)
    BY <2>1, <2>2 DEF AliasHits
  <2>4. \A i \in AliasHits(n) : i \in Nat /\ 1 <= i
    BY <2>2 DEF AliasHits
  <2>5. {h \in AliasHits(n) : \A j \in AliasHits(n) : h <= j} = {1}
    BY <2>3, <2>4
  <2> QED
    BY <2>2, <2>3, <2>5 DEF Lookup
<1> QED
  BY <1>1, <1>2 DEF FoundByRow

(* So this row says whether the name is isolated.                          *)
IsolatedByRow ==
  /\ \A n \in Rows : Isolated(n) <=> now < bans[n].reset
  /\ \A n \in DOMAIN authIndex \ Rows : Isolated(n) <=> now < bans[authIndex[n]].reset

LEMMA RowDecides == LedgerInv => IsolatedByRow
BY RowFound DEF FoundByRow, IsolatedByRow, Isolated

(* What a write leaves: the rows of gone are replaced by the new row,      *)
(* which ends no earlier than the window asks for, and every name in hit   *)
(* leads to it.                                                            *)
Leaves(id, email, w, a, key, row, hit, gone) ==
  /\ key = StorageKey(email, id) /\ gone = Collapsed(id, email)
  /\ row.authId = a /\ (row.email # None => row.email = key)
  /\ \/ row.reset = now + w
     \/ key \in Rows /\ row.reset = bans[key].reset /\ row.reset > now + w
  /\ bans' = [k \in (Rows \ gone) \cup {key} |-> IF k = key THEN row ELSE bans[k]]
  /\ hit = IndexedNames(key, row, {id, a} \cup {bans[k].authId : k \in gone}
                                    \cup (gone \ WithAt))
  /\ authIndex' = [n \in {m \in DOMAIN authIndex : authIndex[m] \notin gone} \cup hit |->
                     IF n \in hit THEN key ELSE authIndex[n]]

LEMMA Written ==
  ASSUME LedgerInv, NEW id \in Names, NEW email \in Mailboxes(id), NEW w \in Windows,
         NEW a \in SameCredential(id), NEW overwrite,
         setLocked(id, NewEntry(email, w, a), overwrite)
  PROVE  \E key \in Names, row \in Entry, hit \in SUBSET Names, gone \in SUBSET Rows :
           Leaves(id, email, w, a, key, row, hit, gone)
<1> DEFINE e       == NewEntry(email, w, a)
           key     == StorageKey(email, id)
           gone    == Collapsed(id, email)
           related == {id, a} \cup {bans[k].authId : k \in gone} \cup (gone \ WithAt)
           row     == IF ~overwrite /\ Outlasts(key, e) THEN Refreshed(bans[key], e) ELSE e
           hit     == IndexedNames(key, row, related)
<1>1. now \in Nat /\ w \in Nat /\ email \in Emails \cup {None} /\ a \in Names /\ now + w \in Nat
  BY TimeAssumption DEF LedgerInv, LedgerTypes, Mailboxes, SameCredential
<1>2. e \in Entry /\ e.reset = now + w /\ e.email = email /\ e.authId = a
  BY <1>1 DEF NewEntry, Entry
<1>3. /\ bans' = [k \in (Rows \ gone) \cup {key} |-> IF k = key THEN row ELSE bans[k]]
      /\ Index(key, row, related, gone)
  BY <1>2 DEF setLocked
<1>4. key \in Names
  BY <1>1, StorageKeyIsName
<1>5. row \in Entry /\ (row.email # None => key = row.email)
  BY <1>2, RowNamesItsKey
<1>6. row.authId = a /\ (\/ row.reset = now + w
                         \/ key \in Rows /\ row.reset = bans[key].reset /\ row.reset > now + w)
  <2>1. CASE ~overwrite /\ Outlasts(key, e)
    <3>1. key \in Rows /\ bans[key] \in Entry /\ bans[key].reset > now + w
      BY <1>2, <2>1 DEF Outlasts, LedgerInv, LedgerTypes, IsLedger, Rows
    <3>2. row = Refreshed(bans[key], e)
      BY <2>1
    <3>3. row.authId = a /\ row.reset = bans[key].reset
      BY <1>2, <3>1, <3>2 DEF Refreshed, Entry
    <3> QED
      BY <3>1, <3>3
  <2>2. CASE ~(~overwrite /\ Outlasts(key, e))
    BY <1>2, <2>2
  <2> QED
    BY <2>1, <2>2
<1>7. gone \subseteq Rows /\ Rows \subseteq Names /\ \A k \in Rows : bans[k] \in Entry
  BY DEF Collapsed, LedgerInv, LedgerTypes, IsLedger, Rows
<1>8. hit \subseteq Names
  <2>1. \A k \in gone : bans[k].authId \in Names
    BY <1>7 DEF Entry
  <2>2. related \cup {row.authId} \cup ({key} \ WithAt) \in SUBSET Names
    BY <1>1, <1>4, <1>6, <1>7, <2>1
  <2> HIDE DEF related, row, key
  <2> QED
    BY <2>2, AliasesAreNames DEF IndexedNames
<1> HIDE DEF e, key, gone, row
<1>9. authIndex' = [n \in {m \in DOMAIN authIndex : authIndex[m] \notin gone} \cup hit |->
                      IF n \in hit THEN key ELSE authIndex[n]]
  <2>1. authIndex' = [n \in DOMAIN AuthIndexWithout(gone) \cup hit |->
                        IF n \in hit THEN key ELSE AuthIndexWithout(gone)[n]]
    BY <1>3 DEF Index
  <2>2. AuthIndexWithout(gone) =
          [n \in {m \in DOMAIN authIndex : authIndex[m] \notin gone} |-> authIndex[n]]
    BY DEF AuthIndexWithout, Restrict
  <2> HIDE DEF hit
  <2> QED
    BY <2>1, <2>2
<1>10. /\ key = StorageKey(email, id) /\ gone = Collapsed(id, email)
       /\ hit = IndexedNames(key, row, {id, a} \cup {bans[k].authId : k \in gone}
                                         \cup (gone \ WithAt))
  BY DEF key, gone
<1> HIDE DEF hit
<1>11. key \in Names /\ row \in Entry /\ hit \in SUBSET Names /\ gone \in SUBSET Rows
  BY <1>4, <1>5, <1>7, <1>8
<1>12. Leaves(id, email, w, a, key, row, hit, gone)
  BY <1>3, <1>5, <1>6, <1>9, <1>10 DEF Leaves
<1> QED
  BY <1>11, <1>12

(* Only a row under the id itself is ever collapsed, and the id is found   *)
(* again under its mailbox.                                                *)
LEMMA CollapsedIsBare ==
  ASSUME LedgerInv, OneMailbox, NEW id \in Names, NEW email \in Mailboxes(id)
  PROVE  \A k \in Collapsed(id, email) : k = id /\ k \in Rows \ Emails /\ email \in Emails
<1> SUFFICES ASSUME NEW k \in Collapsed(id, email)
             PROVE  k = id /\ k \in Rows \ Emails /\ email \in Emails
  OBVIOUS
<1>1. email # None /\ k \in Rows /\ k # email /\ (bans[k].email = email \/ k = id)
  BY DEF Collapsed
<1>2. k = id
  BY <1>1 DEF LedgerInv, Keyed
<1>3. email \in Emails /\ Credential[email] = Credential[id]
  BY <1>1 DEF Mailboxes, SameCredential
<1> QED
  BY <1>1, <1>2, <1>3 DEF OneMailbox

(* What a write indexes: the aliases of the id, and for a row without a    *)
(* mailbox nothing else.                                                   *)
LEMMA Indexed ==
  ASSUME NEW id, NEW row, NEW key, NEW related, id \in related
  PROVE  /\ Range(Aliases[id]) \subseteq IndexedNames(key, row, related)
         /\ (key = id /\ row.authId = id /\ related = {id}) =>
              IndexedNames(key, row, related) = Range(Aliases[id])
BY DEF IndexedNames, WithAliases

LEMMA WriteIsolates ==
  ASSUME LedgerInv, LedgerInv', BareInv, OneMailbox,
         NEW id \in Names, NEW email \in Mailboxes(id), NEW w \in Windows,
         NEW a \in SameCredential(id), a = id \/ id = email, NEW overwrite,
         setLocked(id, NewEntry(email, w, a), overwrite)
  PROVE  /\ BareInv'
         /\ \A n \in Rows \cup DOMAIN authIndex : Isolated(n) => Isolated(n)'
<1>1. PICK key \in Names, row \in Entry, hit \in SUBSET Names, gone \in SUBSET Rows :
        Leaves(id, email, w, a, key, row, hit, gone)
  BY Written
<1>2. now' = now /\ row.reset > now
  <2>1. w \in Nat \ {0} /\ now \in Nat /\ row.reset \in Nat
    BY TimeAssumption DEF LedgerInv, LedgerTypes, Entry
  <2>2. row.reset >= now + w
    BY <1>1, <2>1 DEF Leaves
  <2> QED
    BY <2>1, <2>2 DEF setLocked
<1>3. Range(Aliases[id]) \subseteq hit /\ id \in hit
  <2> DEFINE related == {id, a} \cup {bans[k].authId : k \in gone} \cup (gone \ WithAt)
  <2>1. id \in related /\ hit = IndexedNames(key, row, related)
    BY <1>1 DEF Leaves
  <2> HIDE DEF related
  <2>2. Range(Aliases[id]) \subseteq hit
    BY <2>1, Indexed
  <2> QED
    BY <2>2, AliasAssumption DEF Range
<1>4. \A k \in gone : k = id /\ k \in Rows \ Emails /\ k # key
  BY <1>1, CollapsedIsBare, NamesAssumption DEF Leaves, StorageKey
<1>5. /\ Rows' = (Rows \ gone) \cup {key} /\ bans'[key] = row
      /\ \A k \in Rows \ gone : k # key => bans'[k] = bans[k]
  BY <1>1 DEF Leaves, Rows
<1>6. /\ DOMAIN authIndex' = {m \in DOMAIN authIndex : authIndex[m] \notin gone} \cup hit
      /\ \A n \in hit : authIndex'[n] = key
      /\ \A n \in DOMAIN authIndex' \ hit : authIndex'[n] = authIndex[n]
  BY <1>1 DEF Leaves
<1>7. ASSUME key \notin Emails PROVE key = id /\ a = id /\ hit = Range(Aliases[id])
  <2>1. email = None /\ key = id
    BY <1>1, <1>7 DEF Leaves, StorageKey, Mailboxes
  <2>2. a = id
    BY <2>1, NamesAssumption
  <2>3. gone = {}
    BY <1>1, <2>1 DEF Leaves, Collapsed
  <2> DEFINE related == {id, a} \cup {bans[k].authId : k \in gone} \cup (gone \ WithAt)
  <2>4. hit = IndexedNames(key, row, related) /\ row.authId = id
    BY <1>1, <2>2 DEF Leaves
  <2>5. related = {id}
    BY <2>2, <2>3
  <2> HIDE DEF related
  <2> QED
    BY <2>1, <2>2, <2>4, <2>5, Indexed
<1>8. BareInv'
  <2> SUFFICES ASSUME NEW k \in Rows' \ Emails
               PROVE  /\ bans'[k].authId = k
                      /\ \A n \in DOMAIN authIndex' : authIndex'[n] = k => n \in Range(Aliases[k])
    BY DEF BareInv
  <2>1. CASE k = key
    <3>1. key = id /\ row.authId = id /\ hit = Range(Aliases[id])
      BY <1>1, <1>7, <2>1 DEF Leaves
    <3>2. ASSUME NEW n \in DOMAIN authIndex' \ hit, authIndex'[n] = k
          PROVE  n \in Range(Aliases[k])
      BY <1>6, <2>1, <3>2 DEF BareInv, LedgerInv, IndexLive
    <3> QED
      BY <1>5, <2>1, <3>1, <3>2
  <2>2. CASE k # key
    BY <1>5, <1>6, <2>2 DEF BareInv
  <2> QED
    BY <2>1, <2>2
<1>9. IsolatedByRow /\ IsolatedByRow'
  BY RowDecides, PTL
<1>10. ASSUME NEW n \in Rows, Isolated(n) PROVE Isolated(n)'
  <2>1. now < bans[n].reset
    BY <1>9, <1>10 DEF IsolatedByRow
  <2>2. CASE n \in gone
    <3>1. n \in hit /\ n \notin Rows' /\ n \in DOMAIN authIndex' /\ authIndex'[n] = key
      BY <1>3, <1>4, <1>5, <1>6, <2>2
    <3> QED
      BY <1>2, <1>5, <1>9, <3>1 DEF IsolatedByRow
  <2>3. CASE n \notin gone
    <3>1. n \in Rows' /\ (bans'[n] = row \/ bans'[n] = bans[n])
      BY <1>5, <2>3
    <3> QED
      BY <1>2, <1>9, <2>1, <3>1 DEF IsolatedByRow
  <2> QED
    BY <2>2, <2>3
<1>11. ASSUME NEW n \in DOMAIN authIndex \ Rows, Isolated(n) PROVE Isolated(n)'
  <2>1. now < bans[authIndex[n]].reset /\ authIndex[n] \in Rows
    BY <1>9, <1>11 DEF IsolatedByRow, LedgerInv, IndexLive
  <2>2. CASE n \in Rows'
    <3>1. n = key
      BY <1>5, <2>2
    <3> QED
      BY <1>2, <1>5, <1>9, <2>2, <3>1 DEF IsolatedByRow
  <2>3. CASE n \notin Rows' /\ n \in hit
    <3>1. n \in DOMAIN authIndex' /\ authIndex'[n] = key
      BY <1>6, <2>3
    <3> QED
      BY <1>2, <1>5, <1>9, <2>3, <3>1 DEF IsolatedByRow
  <2>4. CASE n \notin Rows' /\ n \notin hit
    <3>1. authIndex[n] \notin gone
      BY <1>3, <1>4, <2>4 DEF BareInv
    <3>2. n \in DOMAIN authIndex' /\ authIndex'[n] = authIndex[n]
      BY <1>6, <2>4, <3>1
    <3>3. bans'[authIndex[n]] = row \/ bans'[authIndex[n]] = bans[authIndex[n]]
      BY <1>5, <2>1, <3>1
    <3> QED
      BY <1>2, <1>9, <2>1, <2>4, <3>2, <3>3 DEF IsolatedByRow
  <2> QED
    BY <2>2, <2>3, <2>4
<1> QED
  BY <1>8, <1>10, <1>11

(* What is taken away leads to nothing else.                               *)
LEMMA DropIsBare ==
  ASSUME BareInv, NEW gone, Drop(gone)
  PROVE  BareInv'
<1>1. bans' = [k \in Rows \ gone |-> bans[k]]
  BY DEF Drop, Restrict
<1>2. authIndex' = [n \in {m \in DOMAIN authIndex : authIndex[m] \notin gone} |-> authIndex[n]]
  BY DEF Drop, AuthIndexWithout, Restrict
<1> QED
  BY <1>1, <1>2 DEF BareInv, Rows

(* Nobody is freed by the eviction of rows that have ended.                *)
LEMMA EvictionFreesNobody ==
  ASSUME LedgerInv, LedgerInv', NEW gone, Drop(gone), now' = now,
         \A k \in gone : k \in Rows => now >= bans[k].reset
  PROVE  \A n \in Rows \cup DOMAIN authIndex : Isolated(n) => Isolated(n)'
<1>1. bans' = [k \in Rows \ gone |-> bans[k]]
  BY DEF Drop, Restrict
<1>2. authIndex' = [n \in {m \in DOMAIN authIndex : authIndex[m] \notin gone} |-> authIndex[n]]
  BY DEF Drop, AuthIndexWithout, Restrict
<1>3. IsolatedByRow /\ IsolatedByRow'
  BY RowDecides, PTL
<1>4. now \in Nat /\ \A k \in Rows : bans[k].reset \in Nat
  BY DEF LedgerInv, LedgerTypes, IsLedger, Rows, Entry
<1>5. ASSUME NEW n \in Rows, Isolated(n) PROVE Isolated(n)'
  <2>1. now < bans[n].reset
    BY <1>3, <1>5 DEF IsolatedByRow
  <2>2. n \notin gone
    BY <1>4, <2>1
  <2>3. n \in Rows' /\ bans'[n] = bans[n]
    BY <1>1, <2>2 DEF Rows
  <2> QED
    BY <1>3, <2>1, <2>3 DEF IsolatedByRow
<1>6. ASSUME NEW n \in DOMAIN authIndex \ Rows, Isolated(n) PROVE Isolated(n)'
  <2>1. now < bans[authIndex[n]].reset /\ authIndex[n] \in Rows
    BY <1>3, <1>6 DEF IsolatedByRow, LedgerInv, IndexLive
  <2>2. authIndex[n] \notin gone
    BY <1>4, <2>1
  <2>3. /\ n \in DOMAIN authIndex' /\ n \notin Rows' /\ authIndex'[n] = authIndex[n]
        /\ bans'[authIndex[n]] = bans[authIndex[n]]
    BY <1>1, <1>2, <2>1, <2>2 DEF Rows
  <2> QED
    BY <1>3, <2>1, <2>3 DEF IsolatedByRow
<1> QED
  BY <1>5, <1>6

(* A reload indexes a row under an id by the aliases of that id.           *)
LEMMA ReloadIsBare ==
  ASSUME LedgerTypes, NEW image \in Files, Reload(image)
  PROVE  BareInv'
<1>1. HasRows(image) /\ HasNames(image) /\ \A i \in LiveIn(image) : RowIn(image, i)
  BY Reloaded, LiveRows
<1>2. ASSUME NEW i \in LiveIn(image), KeyIn(image, i) \notin Emails
      PROVE  KeyIn(image, i) = i /\ image[i].authId = i
  BY <1>1, <1>2 DEF RowIn, KeyIn, StorageKey, Entry
<1>3. \A k \in Rows' \ Emails : bans'[k].authId = k
  BY <1>1, <1>2 DEF HasRows
<1>4. ASSUME NEW n \in DOMAIN authIndex', authIndex'[n] \notin Emails
      PROVE  n \in Range(Aliases[authIndex'[n]])
  <2>1. PICK i \in ClaimOf(image, n) : authIndex'[n] = KeyIn(image, i)
    BY <1>1 DEF HasNames
  <2>2. i \in LiveIn(image) /\ n \in WithAliases({i, image[i].authId})
    BY DEF ClaimOf
  <2> QED
    BY <1>2, <1>4, <2>1, <2>2 DEF WithAliases
<1> QED
  BY <1>3, <1>4 DEF BareInv

(* Who stops being isolated was released, or reloaded, or waited.          *)
LEMMA StepIsolates ==
  ASSUME LedgerInv, LedgerInv', BareInv, OneMailbox, [Next]_vars
  PROVE  /\ BareInv'
         /\ \/ now' > now \/ ClearAll \/ ReplaceAll \/ \E id \in Names : Clear(id)
            \/ \A n \in Rows \cup DOMAIN authIndex : Isolated(n) => Isolated(n)'
<1> DEFINE Freed == \/ now' > now \/ ClearAll \/ ReplaceAll \/ \E id \in Names : Clear(id)
           Kept  == \A n \in Rows \cup DOMAIN authIndex : Isolated(n) => Isolated(n)'
<1>1. ASSUME NEW id \in Names, NEW w \in Windows, Write(id, w) PROVE BareInv' /\ Kept
  <2>1. ASSUME NEW email \in Mailboxes(id), NEW p \in BOOLEAN,
               Set(id, email, w, p)
        PROVE  BareInv' /\ Kept
    <3>1. id \in SameCredential(id)
      BY DEF SameCredential
    <3> QED
      BY <2>1, <3>1, WriteIsolates DEF Set
  <2>2. ASSUME NEW email \in Mailboxes(id), NEW a \in SameCredential(id),
               ForceSet(id, email, w, a)
        PROVE  BareInv' /\ Kept
    BY <2>2, WriteIsolates DEF ForceSet
  <2> QED
    BY <1>1, <2>1, <2>2 DEF Write
<1>2. ASSUME NEW id \in Names, Active(id) PROVE BareInv' /\ Kept
  <2>1. PICK k \in Lookup(id) : now >= bans[k].reset /\ Drop({k})
    BY <1>2 DEF Active
  <2> QED
    BY <1>2, <2>1, DropIsBare, EvictionFreesNobody DEF Active
<1>3. ASSUME NEW id \in Names, Clear(id) PROVE BareInv' /\ Freed
  BY <1>3, DropIsBare DEF Clear
<1>4. CASE ClearAll
  BY <1>4 DEF ClearAll, EmptyMap, BareInv, Rows
<1>5. CASE Snapshot
  <2>1. \A k \in Rows \ Alive : k \in Rows => now >= bans[k].reset
    BY DEF Alive, LedgerInv, LedgerTypes, IsLedger, Rows, Entry
  <2> QED
    BY <1>5, <2>1, DropIsBare, EvictionFreesNobody DEF Snapshot
<1>6. CASE ReplaceAll
  BY <1>6, ReloadIsBare DEF ReplaceAll, LedgerInv
<1>7. CASE Tick
  <2>1. bans' = bans /\ authIndex' = authIndex /\ now' > now
    BY <1>7 DEF Tick, LedgerInv, LedgerTypes
  <2> QED
    BY <2>1 DEF BareInv, Rows
<1>8. CASE UNCHANGED vars
  <2>1. bans' = bans /\ authIndex' = authIndex /\ emailIndex' = emailIndex /\ now' = now
    BY <1>8 DEF vars
  <2>2. IsolatedByRow /\ IsolatedByRow'
    BY RowDecides, PTL
  <2> QED
    BY <2>1, <2>2 DEF BareInv, Rows, IsolatedByRow
<1> QED
  BY <1>1, <1>2, <1>3, <1>4, <1>5, <1>6, <1>7, <1>8 DEF Next

LEMMA InitIsBare == Init => BareInv
BY DEF Init, EmptyMap, BareInv, Rows

(***************************************************************************)
(* Collapsing and re-indexing lose nobody, where a credential has one      *)
(* mailbox: a name the index resolves to a live row stays isolated until   *)
(* it is released, the ledger is reloaded, or time passes.                 *)
(***************************************************************************)
THEOREM IsolationLasts ==
  ASSUME OneMailbox
  PROVE  Spec => IsolationEndsByRelease
<1>1. LedgerInv /\ LedgerInv' /\ BareInv /\ [Next]_vars => BareInv'
  BY StepIsolates
<1>2. Spec => [](LedgerInv /\ BareInv)
  BY InitEstablishes, InitIsBare, StepKeeps, <1>1, PTL DEF Spec
<1>3. LedgerInv /\ BareInv /\ LedgerInv' /\ [Next]_vars =>
        [\A n \in Rows \cup DOMAIN authIndex :
           Isolated(n) /\ ~Isolated(n)' =>
             now' > now \/ ClearAll \/ ReplaceAll \/ \E id \in Names : Clear(id)]_vars
  BY StepIsolates
<1> QED
  BY <1>2, <1>3, PTL DEF Spec, IsolationEndsByRelease
-----------------------------------------------------------------------------
(* A reload loses no live row.                                             *)

LEMMA ReloadFinds ==
  ASSUME LedgerInv', LedgerTypes, NEW image \in Files, Reload(image)
  PROVE  FoundAgain(image)
<1>1. HasRows(image) /\ HasNames(image)
  BY Reloaded
<1>2. FoundByRow'
  BY RowFound, PTL
<1>3. ASSUME NEW n \in DOMAIN authIndex' PROVE Lookup(n)' # {}
  <2>1. CASE n \in Rows'
    BY <1>2, <2>1 DEF FoundByRow
  <2>2. CASE n \notin Rows'
    BY <1>2, <1>3, <2>2 DEF FoundByRow
  <2> QED
    BY <2>1, <2>2
<1>4. ASSUME NEW i \in LiveIn(image)
      PROVE  /\ Lookup(KeyIn(image, i))' = {KeyIn(image, i)}
             /\ Lookup(i)' # {} /\ Lookup(image[i].authId)' # {}
  <2>1. KeyIn(image, i) \in Rows' /\ {i, image[i].authId} \subseteq DOMAIN authIndex'
    BY <1>1 DEF HasRows, HasNames
  <2>2. \A k \in Rows' : Lookup(k)' = {k}
    BY <1>2 DEF FoundByRow
  <2>3. PICK k \in Rows', a \in DOMAIN authIndex' : k = KeyIn(image, i) /\ a = image[i].authId
    BY <2>1
  <2> QED
    BY <1>3, <2>1, <2>2
<1>5. \A n \in DOMAIN authIndex' : Credential[authIndex'[n]] = Credential[n]
  BY ReloadIsLocal DEF LocalInv
<1> QED
  BY <1>4, <1>5 DEF FoundAgain

(***************************************************************************)
(* A reload loses no live row of the file and leads no name to another     *)
(* credential's, in whatever order the rows are taken.                     *)
(***************************************************************************)
THEOREM ReloadFindsAll == Spec => ReloadRestores
<1>1. LedgerInv /\ LedgerInv' /\ [Next]_vars =>
        [\A image \in Files : Reload(image) => FoundAgain(image)]_vars
  BY ReloadFinds DEF LedgerInv
<1> QED
  BY <1>1, LedgerInvariant, PTL DEF Spec, ReloadRestores
-----------------------------------------------------------------------------
(* The ledger implements its promise.                                      *)

(* The rows that hold a credential now.                                    *)
Holding(c) == {r \in Rows : Credential[r] = c /\ now < bans[r].reset}

LEMMA EndsOfRows == Ends = [c \in Owners |-> {bans[k].reset : k \in Holding(c)}]
BY DEF Ends, Owners, Holding

(* Ends change for nobody when the rows that are held to stay as they are. *)
LEMMA SameEnds ==
  ASSUME \A c \in Owners : Holding(c)' = Holding(c) /\ \A k \in Holding(c) : bans'[k] = bans[k]
  PROVE  Ends' = Ends
<1>1. ASSUME NEW c \in Owners
      PROVE  {bans[k].reset : k \in Holding(c)}' = {bans[k].reset : k \in Holding(c)}
  BY <1>1
<1>2. Ends' = [c \in Owners |-> {bans[k].reset : k \in Holding(c)}']
  BY DEF Ends, Owners, Holding
<1> QED
  BY <1>1, <1>2, EndsOfRows

(* Rows that have ended hold nobody: to evict them is no step.             *)
LEMMA EvictionIsNoStep ==
  ASSUME LedgerInv, NEW gone, now' = now,
         bans' = Restrict(bans, Rows \ gone),
         \A k \in gone : k \in Rows => now >= bans[k].reset
  PROVE  Ends' = Ends
<1>1. Rows' = Rows \ gone /\ \A k \in Rows \ gone : bans'[k] = bans[k]
  BY DEF Restrict, Rows
<1>2. now \in Nat /\ \A k \in Rows : bans[k].reset \in Nat
  BY DEF LedgerInv, LedgerTypes, IsLedger, Rows, Entry
<1>3. \A k \in Rows : now < bans[k].reset => k \notin gone
  BY <1>2
<1>4. ASSUME NEW c \in Owners
      PROVE  Holding(c)' = Holding(c) /\ \A k \in Holding(c) : bans'[k] = bans[k]
  BY <1>1, <1>3 DEF Holding
<1> QED
  BY <1>4, SameEnds

(* A step that touches the rows of one credential alters its ends only.    *)
LEMMA AltersOne ==
  ASSUME LedgerInv, LedgerInv', NEW id \in Names, Confined(SameCredential(id)), now' = now
  PROVE  Ends' = [Ends EXCEPT ![Credential[id]] = Ends'[Credential[id]]]
<1>1. Rows \subseteq Names /\ Rows' \subseteq Names
  BY DEF LedgerInv, LedgerTypes, IsLedger, Rows
<1>2. ASSUME NEW c \in Owners, c # Credential[id]
      PROVE  Ends'[c] = Ends[c]
  <2>1. \A k \in Names : Credential[k] = c => k \in Names \ SameCredential(id)
    BY <1>2 DEF SameCredential
  <2>2. Holding(c)' = Holding(c) /\ \A k \in Holding(c) : bans'[k] = bans[k]
    BY <1>1, <2>1 DEF Holding, Confined
  <2>3. Ends[c] = {bans[k].reset : k \in Holding(c)}
    BY EndsOfRows
  <2>4. Ends'[c] = {bans'[k].reset : k \in Holding(c)'}
    BY DEF Ends, Owners, Holding
  <2> QED
    BY <2>2, <2>3, <2>4
<1>3. Ends = [c \in Owners |-> Ends[c]] /\ Ends' = [c \in Owners |-> Ends'[c]]
  BY DEF Ends, Owners
<1> QED
  BY <1>2, <1>3

(* A write is an isolation: the new row's end is the window's, or the      *)
(* later one that the row had.                                             *)
LEMMA WriteIsIsolate ==
  ASSUME LedgerInv, LedgerInv', LocalInv,
         NEW id \in Names, NEW email \in Mailboxes(id), NEW w \in Windows,
         NEW a \in SameCredential(id), NEW overwrite,
         setLocked(id, NewEntry(email, w, a), overwrite)
  PROVE  Promise!Isolate(Credential[id], w)
<1> DEFINE c == Credential[id]
<1>1. PICK key \in Names, row \in Entry, hit \in SUBSET Names, gone \in SUBSET Rows :
        Leaves(id, email, w, a, key, row, hit, gone)
  BY Written
<1>2. w \in Nat \ {0} /\ now \in Nat /\ row.reset \in Nat /\ now' = now
  BY TimeAssumption DEF LedgerInv, LedgerTypes, Entry, setLocked
<1>3. key \in SameCredential(id)
  BY <1>1 DEF Leaves, StorageKey, Mailboxes, SameCredential
<1>4. /\ Rows' = (Rows \ gone) \cup {key} /\ bans'[key] = row
      /\ \A k \in Rows \ gone : k # key => bans'[k] = bans[k]
  BY <1>1 DEF Leaves, Rows
<1>5. c \in Owners /\ Credential[key] = c
  BY <1>3 DEF Owners, SameCredential
<1>6. row.reset > now
  BY <1>1, <1>2 DEF Leaves
<1>7. PICK others : others = Holding(c) \ (gone \cup {key})
  OBVIOUS
<1>8. Holding(c)' = others \cup {key} /\ \A k \in others : bans'[k] = bans[k]
  <2>1. \A k \in others : k \in Rows \ gone /\ k # key
    BY <1>7 DEF Holding
  <2> QED
    BY <1>2, <1>4, <1>5, <1>6, <1>7, <2>1 DEF Holding
<1>9. Ends[c] = {bans[k].reset : k \in Holding(c)} /\ Ends'[c] = {bans'[k].reset : k \in Holding(c)'}
  BY <1>5 DEF Ends, Owners, Holding
<1>10. PICK kept \in SUBSET Ends[c] : kept = {bans[k].reset : k \in others}
  BY <1>7, <1>9
<1>11. Ends'[c] = kept \cup {row.reset}
  BY <1>4, <1>8, <1>9, <1>10
<1>12. row.reset \in {now + w} \cup {e \in Ends[c] : e > now + w}
  <2>1. CASE row.reset = now + w
    BY <2>1
  <2>2. CASE key \in Rows /\ row.reset = bans[key].reset /\ row.reset > now + w
    <3>1. key \in Holding(c)
      BY <1>5, <1>6, <2>2 DEF Holding
    <3> QED
      BY <1>9, <2>2, <3>1
  <2> QED
    BY <1>1, <2>1, <2>2 DEF Leaves
<1>13. Ends' = [Ends EXCEPT ![c] = kept \cup {row.reset}]
  <2>1. NewEntry(email, w, a) \in Entry /\ NewEntry(email, w, a).email = email
        /\ NewEntry(email, w, a).authId = a
    BY <1>2 DEF NewEntry, Entry, Mailboxes, SameCredential
  <2>2. Confined(SameCredential(id))
    BY <2>1, WriteIsLocal
  <2> QED
    BY <1>2, <1>11, <2>2, AltersOne
<1> HIDE DEF c
<1>14. Promise!Isolate(c, w)
  BY <1>2, <1>10, <1>12, <1>13 DEF Promise!Isolate, Promise!Alter
<1> QED
  BY <1>14 DEF c

(* A release takes ends of one credential away.                            *)
LEMMA ClearIsRelease ==
  ASSUME LedgerInv, LedgerInv', LocalInv, NEW id \in Names, Clear(id)
  PROVE  Promise!Release(Credential[id])
<1> DEFINE c == Credential[id]
<1>1. PICK k \in Lookup(id) : Drop({k} \cup SameMailbox(k))
  BY DEF Clear
<1>2. k \in Rows /\ k \in Names /\ Credential[k] = c
  BY LookupIsLocal
<1>3. SameMailbox(k) \subseteq {k}
  BY <1>2 DEF SameMailbox, LedgerInv, Keyed
<1>4. Drop({k})
  <2>1. {k} \cup SameMailbox(k) = {k}
    BY <1>3
  <2> QED
    BY <1>1, <2>1
<1>5. Confined(SameCredential(id)) /\ now' = now
  <2>1. {k} \in SUBSET Rows /\ {k} \subseteq SameCredential(id)
    BY <1>2 DEF SameCredential
  <2> QED
    BY <1>4, <2>1, DropConfined DEF Clear
<1>6. Rows' = Rows \ {k} /\ \A j \in Rows' : bans'[j] = bans[j]
  BY <1>4 DEF Drop, Restrict, Rows
<1>7. c \in Owners
  BY DEF Owners
<1>8. Ends[c] = {bans[j].reset : j \in Holding(c)} /\ Ends'[c] = {bans'[j].reset : j \in Holding(c)'}
  BY <1>7 DEF Ends, Owners, Holding
<1>9. Holding(c)' \subseteq Holding(c) /\ \A j \in Holding(c)' : bans'[j] = bans[j]
  BY <1>5, <1>6 DEF Holding
<1>10. Ends'[c] \in SUBSET Ends[c]
  BY <1>8, <1>9
<1>11. Ends' = [Ends EXCEPT ![c] = Ends'[c]]
  BY <1>5, AltersOne
<1> HIDE DEF c
<1>12. Promise!Release(c)
  BY <1>5, <1>10, <1>11 DEF Promise!Release, Promise!Alter
<1> QED
  BY <1>12 DEF c

(* The clock frees whoever's end it passes, and nobody else.               *)
LEMMA TickIsTick ==
  ASSUME LedgerInv, Tick
  PROVE  Promise!Tick
<1>1. now' = now + 1 /\ bans' = bans /\ now \in Nat /\ \A k \in Rows : bans[k].reset \in Nat
  BY DEF Tick, LedgerInv, LedgerTypes, IsLedger, Rows, Entry
<1>2. ASSUME NEW c \in Owners
      PROVE  {bans[k].reset : k \in Holding(c)'} =
               {e \in {bans[k].reset : k \in Holding(c)} : e > now'}
  <2>1. Holding(c)' = {k \in Holding(c) : bans[k].reset > now'}
    BY <1>1 DEF Holding, Rows
  <2>2. Holding(c) \subseteq Rows
    BY DEF Holding
  <2> QED
    BY <2>1, <2>2
<1>3. Ends' = [c \in Owners |-> {bans[k].reset : k \in Holding(c)'}]
  BY <1>1 DEF Ends, Owners, Holding, Rows
<1>4. \A c \in Owners : Ends[c] = {bans[k].reset : k \in Holding(c)}
  BY EndsOfRows
<1>5. Ends' = [c \in Owners |-> {e \in Ends[c] : e > now'}]
  BY <1>2, <1>3, <1>4
<1> QED
  BY <1>1, <1>5 DEF Promise!Tick, Owners

(* Evicting and sweeping hold and free nobody.                             *)
LEMMA UpkeepIsNoStep ==
  ASSUME LedgerInv
  PROVE  /\ UpkeepIsIdle
         /\ Snapshot \/ (\E id \in Names : Active(id)) => now' = now
<1>1. ASSUME Snapshot PROVE Ends' = Ends /\ now' = now
  <2>1. now' = now /\ bans' = Restrict(bans, Rows \ (Rows \ Alive))
    BY <1>1 DEF Snapshot, Drop
  <2>2. \A k \in Rows \ Alive : k \in Rows => now >= bans[k].reset
    BY DEF Alive, LedgerInv, LedgerTypes, IsLedger, Rows, Entry
  <2> QED
    BY <2>1, <2>2, EvictionIsNoStep
<1>2. ASSUME NEW id \in Names, Active(id) PROVE Ends' = Ends /\ now' = now
  <2>1. PICK k \in Lookup(id) : now >= bans[k].reset /\ Drop({k})
    BY <1>2 DEF Active
  <2>2. bans' = Restrict(bans, Rows \ {k}) /\ now' = now
    BY <1>2, <2>1 DEF Active, Drop
  <2> QED
    BY <2>1, <2>2, EvictionIsNoStep
<1> QED
  BY <1>1, <1>2 DEF UpkeepIsIdle

(* A reload leaves held the credentials with a lasting row in the file.    *)
LEMMA ReloadIsRestore ==
  ASSUME LedgerTypes, NEW image \in Files, Reload(image)
  PROVE  Promise!Restore(EndsIn(image))
<1>1. HasRows(image) /\ now' = now /\ \A i \in LiveIn(image) : RowIn(image, i)
  BY Reloaded, LiveRows DEF Reload
<1>2. \A i \in LiveIn(image) : Credential[KeyIn(image, i)] = Credential[i]
  BY <1>1 DEF RowIn, KeyIn, StorageKey
<1>3. \A i \in DOMAIN image : image[i].reset \in Nat /\ i \in Names
  BY FileAssumption DEF Entry
<1>4. now \in Nat
  BY DEF LedgerTypes
<1>5. ASSUME NEW c \in Owners
      PROVE  /\ Ends'[c] \subseteq Promise!Lasting(EndsIn(image), c)
             /\ Promise!Lasting(EndsIn(image), c) # {} => Ends'[c] # {}
  <2>1. Ends'[c] = {bans'[k].reset : k \in Holding(c)'}
    BY DEF Ends, Owners, Holding
  <2>2. EndsIn(image)[c] = {image[i].reset : i \in {j \in DOMAIN image : Credential[j] = c}}
    BY DEF EndsIn
  <2>3. Promise!Lasting(EndsIn(image), c) = {e \in EndsIn(image)[c] : e > now}
    BY DEF Promise!Lasting
  <2>4. ASSUME NEW k \in Holding(c)' PROVE bans'[k].reset \in Promise!Lasting(EndsIn(image), c)
    <3>1. k \in Rows' /\ Credential[k] = c
      BY <2>4 DEF Holding
    <3>2. PICK i \in LiveIn(image) : KeyIn(image, i) = k /\ bans'[k] = image[i]
      BY <1>1, <3>1 DEF HasRows
    <3>3. i \in DOMAIN image /\ Credential[i] = c /\ image[i].reset > now
      BY <1>1, <1>2, <3>1, <3>2 DEF LiveIn, RowIn
    <3> QED
      BY <2>2, <2>3, <3>2, <3>3
  <2>5. ASSUME NEW e \in Promise!Lasting(EndsIn(image), c) PROVE Ends'[c] # {}
    <3>1. PICK i \in DOMAIN image : Credential[i] = c /\ image[i].reset = e /\ e > now
      BY <2>2, <2>3, <2>5
    <3>2. i \in LiveIn(image)
      BY <1>3, <1>4, <3>1 DEF LiveIn
    <3>3. PICK k \in Rows' : k = KeyIn(image, i) /\ Credential[k] = c
      BY <1>1, <1>2, <3>1, <3>2 DEF HasRows
    <3>4. PICK j \in LiveIn(image) : bans'[k] = image[j]
      BY <1>1 DEF HasRows
    <3>5. now < bans'[k].reset
      BY <1>1, <1>3, <1>4, <3>4 DEF RowIn, Entry
    <3>6. k \in Holding(c)'
      BY <1>1, <3>3, <3>5 DEF Holding
    <3> QED
      BY <2>1, <3>6
  <2> QED
    BY <2>1, <2>4, <2>5
<1>6. DOMAIN Ends' = Owners
  BY DEF Ends, Owners
<1> QED
  BY <1>1, <1>5, <1>6 DEF Promise!Restore, Promise!Held

LEMMA ClearAllIsReleaseAll ==
  ASSUME ClearAll
  PROVE  Promise!ReleaseAll
<1>1. Rows' = {} /\ now' = now
  BY DEF ClearAll, EmptyMap, Rows
<1>2. \A c \in Owners : {bans'[k].reset : k \in Holding(c)'} = {}
  BY <1>1 DEF Holding
<1>3. Ends' = [c \in Owners |-> {bans'[k].reset : k \in Holding(c)'}]
  BY DEF Ends, Owners, Holding
<1>4. Ends' = [c \in Owners |-> {}]
  BY <1>2, <1>3
<1> QED
  BY <1>1, <1>4 DEF Promise!ReleaseAll, Owners

(* A write holds its own credential for the window it asked for.           *)
LEMMA WritesIsolate ==
  ASSUME LedgerInv, LedgerInv', LocalInv, NEW id \in Names, NEW w \in Windows, Write(id, w)
  PROVE  Promise!Isolate(Credential[id], w)
<1>1. ASSUME NEW email \in Mailboxes(id), NEW p \in BOOLEAN, Set(id, email, w, p)
      PROVE  Promise!Isolate(Credential[id], w)
  <2>1. id \in SameCredential(id)
    BY DEF SameCredential
  <2> QED
    BY <1>1, <2>1, WriteIsIsolate DEF Set
<1>2. ASSUME NEW email \in Mailboxes(id), NEW a \in SameCredential(id), ForceSet(id, email, w, a)
      PROVE  Promise!Isolate(Credential[id], w)
  BY <1>2, WriteIsIsolate DEF ForceSet
<1> QED
  BY <1>1, <1>2 DEF Write

(* Each operation is the step of the promise it stands for, or none.       *)
LEMMA OperationsArePromised ==
  ASSUME LedgerInv, LedgerInv', LocalInv
  PROVE  WritesHold /\ ReleasesFree /\ ReloadsRestore /\ UpkeepIsIdle
<1>1. WritesHold
  BY WritesIsolate DEF WritesHold
<1>2. ReleasesFree
  BY ClearIsRelease DEF ReleasesFree
<1>3. ReloadsRestore
  BY ReloadIsRestore DEF ReloadsRestore, LedgerInv
<1> QED
  BY <1>1, <1>2, <1>3, UpkeepIsNoStep

(* Every step of the ledger is one of the promise, or none.                *)
LEMMA StepIsPromised ==
  ASSUME LedgerInv, LedgerInv', LocalInv, [Next]_vars
  PROVE  [Promise!Next]_<<Ends, now>>
<1>1. \A id \in Names : Credential[id] \in Owners
  BY DEF Owners
<1>2. ASSUME NEW id \in Names, NEW w \in Windows, Write(id, w) PROVE Promise!Next
  BY <1>1, <1>2, WritesIsolate DEF Promise!Next
<1>3. ASSUME NEW id \in Names, Clear(id) PROVE Promise!Next
  BY <1>1, <1>3, ClearIsRelease DEF Promise!Next
<1>4. CASE ReplaceAll
  <2>1. PICK image \in Files : Reload(image)
    BY <1>4 DEF ReplaceAll
  <2>2. Promise!Restore(EndsIn(image))
    BY <2>1, ReloadIsRestore DEF LedgerInv
  <2> QED
    BY <2>2 DEF Promise!Next
<1>5. CASE ClearAll \/ Tick
  BY <1>5, ClearAllIsReleaseAll, TickIsTick DEF Promise!Next
<1>6. CASE Snapshot \/ \E id \in Names : Active(id)
  BY <1>6, UpkeepIsNoStep DEF UpkeepIsIdle
<1>7. CASE UNCHANGED vars
  BY <1>7 DEF vars, Ends, Rows
<1> QED
  BY <1>2, <1>3, <1>4, <1>5, <1>6, <1>7 DEF Next

(***************************************************************************)
(* The ledger implements module Isolation, whatever names its rows are     *)
(* filed under, and each operation is the step of the promise it stands    *)
(* for: a write holds its own credential for the window it asked for, a    *)
(* release frees only its own, a reload leaves held those the file has a   *)
(* lasting row of, and keeping house is no step at all.                    *)
(***************************************************************************)
THEOREM LedgerKeepsPromise == Spec => HoldsAndFrees
<1>1. Init => Promise!Init
  <2> SUFFICES ASSUME Init PROVE Promise!Init
    OBVIOUS
  <2>1. Rows = {} /\ now = 0
    BY DEF Init, EmptyMap, Rows
  <2>2. \A c \in Owners : {bans[k].reset : k \in Holding(c)} = {}
    BY <2>1 DEF Holding
  <2>3. Ends = [c \in Owners |-> {}]
    BY <2>2, EndsOfRows
  <2> QED
    BY <2>1, <2>3 DEF Promise!Init
<1>2. LedgerInv /\ LocalInv /\ [Next]_vars => LocalInv'
  BY StepIsLocal
<1>3. Spec => [](LedgerInv /\ LocalInv)
  BY InitEstablishes, InitIsLocal, StepKeeps, <1>2, PTL DEF Spec
<1>4. LedgerInv /\ LocalInv /\ LedgerInv' /\ [Next]_vars => [Promise!Next]_<<Ends, now>>
  BY StepIsPromised
<1>5. LedgerInv /\ LocalInv /\ LedgerInv' /\ [Next]_vars =>
        [WritesHold /\ ReleasesFree /\ ReloadsRestore /\ UpkeepIsIdle]_vars
  BY OperationsArePromised
<1>6. Spec => Promise!Spec
  BY <1>1, <1>3, <1>4, PTL DEF Spec, Promise!Spec
<1>7. Spec => [][WritesHold /\ ReleasesFree /\ ReloadsRestore /\ UpkeepIsIdle]_vars
  BY <1>3, <1>5, PTL DEF Spec
<1> QED
  BY <1>6, <1>7 DEF HoldsAndFrees
=============================================================================
