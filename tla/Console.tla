------------------------------ MODULE Console -------------------------------
(***************************************************************************)
(* What the console shows of the fleet: the list of internal/creds built   *)
(* from the host's files and a snapshot of the rows, its cards, its        *)
(* filters and its pages.  Pure, over the rows of Fleet.                   *)
(*                                                                         *)
(* files are the credentials the host lists, off those it has disabled,    *)
(* expired those whose token is known to be over, api those with using_api *)
(* on.  A search text is left out: it only narrows a list further.         *)
(***************************************************************************)
EXTENDS Fleet, FiniteSetsExt, SequencesExt

CONSTANT PageSizes,     \* the page sizes to ask for
         DefaultPageSize, MaxPageSize

ASSUME PageAssumption ==
  /\ PageSizes \subseteq Int
  /\ DefaultPageSize \in 1..MaxPageSize /\ MaxPageSize \in Nat

Filters == {"all", "healthy", "banned", "disabled", "using_api", "401", "402", "403", "429"}
CodeOf  == [f \in {"401", "402", "403", "429"} |->
              CASE f = "401" -> 401 [] f = "402" -> 402 [] f = "403" -> 403 [] f = "429" -> 429]

LookupBan(c) == rows[c]

(* A credential without a file is listed while it has a row.               *)
Listed(files) == files \cup Isolated

Info(c, files, off, expired, api) ==
  LET known == c \in files
  IN  [id |-> c, disabled |-> known /\ c \in off, banned |-> LookupBan(c) # NoRow,
       code |-> IF LookupBan(c) = NoRow THEN 0 ELSE LookupBan(c).status,
       expired |-> known /\ c \in expired, api |-> known /\ c \in api]

DeriveStatus(i) ==
  CASE i.disabled -> "disabled"
    [] ~i.disabled /\ i.banned ->
         IF \E f \in DOMAIN CodeOf : CodeOf[f] = i.code
         THEN CHOOSE f \in DOMAIN CodeOf : CodeOf[f] = i.code ELSE "banned"
    [] ~i.disabled /\ ~i.banned /\ i.expired -> "401"
    [] OTHER -> "healthy"

statusSortPriority(i) ==
  CASE DeriveStatus(i) = "403" -> 1 [] DeriveStatus(i) = "401" -> 2
    [] DeriveStatus(i) = "402" -> 3 [] DeriveStatus(i) = "429" -> 4
    [] DeriveStatus(i) = "disabled" -> 5 [] DeriveStatus(i) = "banned" -> 6
    [] OTHER -> 10

(* Remaining times and ids order the equal ones: any order stands for it.  *)
Sorted(list) ==
  \A m, n \in DOMAIN list :
    m < n => statusSortPriority(list[m]) <= statusSortPriority(list[n])

BuildFull(files, off, expired, api) ==
  LET infos == {Info(c, files, off, expired, api) : c \in Listed(files)}
  IN  {list \in [1..Cardinality(infos) -> infos] : IsInjective(list) /\ Sorted(list)}

LocallyExpired(i) == ~i.banned /\ ~i.disabled /\ i.expired
IsHealthy(i)      == ~i.banned /\ ~i.disabled /\ ~i.expired

CountIf(items, Is(_)) == Cardinality({n \in DOMAIN items : Is(items[n])})

countCredentials(items) ==
  [f \in Filters |->
     CASE f = "all"      -> Len(items)
       [] f = "disabled" -> CountIf(items, LAMBDA i : i.disabled)
       [] f = "banned"   -> CountIf(items, LAMBDA i : i.banned)
       [] f = "using_api" -> CountIf(items, LAMBDA i : i.api)
       [] f = "healthy"  -> CountIf(items, IsHealthy)
       [] f = "401" -> CountIf(items, LAMBDA i : i.banned /\ i.code = 401)
                         + CountIf(items, LocallyExpired)
       [] OTHER     -> CountIf(items, LAMBDA i : i.banned /\ i.code = CodeOf[f])]

\* Slip: a list of a code shows what its rows show, so not a disabled one.
MatchStatus(i, f) ==
  CASE f = "all"     -> TRUE
    [] f = "healthy" -> ~i.disabled /\ ~i.banned
    [] f = "banned"  -> i.banned
    [] f = "disabled"  -> i.disabled
    [] f = "using_api" -> i.api
    [] OTHER -> DeriveStatus(i) = f

matchCredentialFilter(i, f) ==
  CASE f = "all"     -> TRUE
    [] f = "healthy" -> ~i.disabled /\ ~i.banned
    [] f = "banned"  -> i.banned
    [] f = "disabled"  -> i.disabled
    [] f = "using_api" -> i.api
    [] OTHER -> i.banned /\ i.code = CodeOf[f]

(* The k-th least of some places.                                         *)
Nth(places, k) == CHOOSE n \in places : Cardinality({m \in places : m <= n}) = k

(* What matches, in the order of the list.                                 *)
Matching(items, f) == {n \in DOMAIN items : matchCredentialFilter(items[n], f)}

Filter(items, f) ==
  [k \in 1..Cardinality(Matching(items, f)) |-> items[Nth(Matching(items, f), k)]]

(* ParsePageQuery and slicePage: a page past the end is the last one.      *)
PageSize(asked) ==
  IF asked <= 0 THEN DefaultPageSize ELSE IF asked > MaxPageSize THEN MaxPageSize ELSE asked

Pages(list, size) == IF list = << >> THEN 1 ELSE (Len(list) + size - 1) \div size

Within(page, pages) == IF page < 1 THEN 1 ELSE IF page > pages THEN pages ELSE page

slicePage(list, page, size) ==
  LET start == (Within(page, Pages(list, size)) - 1) * size
      end   == IF start + size > Len(list) THEN Len(list) ELSE start + size
  IN  SubSeq(list, start + 1, end)

-----------------------------------------------------------------------------
Quiet == sweep = NoSweep /\ selected = NoSelected /\ pick = NoPick

CardsMatchLists(items) ==
  LET cards == countCredentials(items)
      local == CountIf(items, LocallyExpired)
  IN  \A f \in Filters :
        cards[f] = Len(Filter(items, f)) + CASE f = "401"     -> local
                                             [] f = "healthy" -> -local
                                             [] OTHER         -> 0

ShownOnce(items, list, f) ==
  \A n \in DOMAIN items :
    LET places == {k \in DOMAIN list : list[k] = items[n]}
    IN  Cardinality(places) = IF matchCredentialFilter(items[n], f) THEN 1 ELSE 0

PagesCoverList(list) ==
  \A asked \in PageSizes :
    LET size == PageSize(asked)
    IN  FlattenSeq([p \in 1..Pages(list, size) |-> slicePage(list, p, size)]) = list

(* What the console counts on its cards and what it lists when one is      *)
(* chosen agree, whichever credentials are disabled, expired, gone from    *)
(* the host or isolated, except for those that are only locally expired:   *)
(* the card of 401 counts them and its list leaves them out, and with      *)
(* "healthy" it is the other way round.  Turning the pages of a list shows *)
(* each credential that belongs on it once and no other, for every size    *)
(* that may be asked for, however the list orders equal ones.              *)
(* (The view is built of the rows alone: looking when no call is in        *)
(* progress looks at all there is.)                                        *)
ListsComplete ==
  Quiet => \A files, off, expired, api \in SUBSET Creds :
             \A items \in BuildFull(files, off, expired, api) :
               /\ CardsMatchLists(items)
               /\ \A f \in Filters : LET list == Filter(items, f)
                                     IN  ShownOnce(items, list, f) /\ PagesCoverList(list)
=============================================================================
