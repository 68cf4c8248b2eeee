----------------------------- MODULE KeysetPaging -----------------------------
(***************************************************************************)
(* The keyset-paginated listings (ListComponents, ListMachineProcesses,    *)
(* ListReleaseArtifacts) and the one that is not (ListEntitlements): a     *)
(* caller walks a collection page by page, feeding NextCursor back as      *)
(* ListOptions.After, while rows come and go on the server.                *)
(***************************************************************************)
EXTENDS Integers, FiniteSets, FiniteSetsExt

CONSTANTS
  Ids,                 \* row ids, in the order the server lists them by
  Limits,              \* values of ListOptions.Limit the caller may choose
  ServerMaxPageLimit,  \* serverMaxPageLimit; the server clamps to it
  MaxChanges,          \* bound: rows added or deleted during a walk
  None                 \* a nil cursor

ASSUME ConfigOK ==
  /\ Ids \subseteq Nat /\ IsFiniteSet(Ids) /\ None \notin Ids
  /\ Limits \subseteq Int
  /\ ServerMaxPageLimit \in Nat \ {0} /\ MaxChanges \in Nat

Keyset      == {"components", "processes", "artifacts"}
Collections == Keyset \union {"entitlements"}

VARIABLES
  collection,  \* what is walked
  rows,        \* the server's rows
  changes,
  stable,      \* history: rows present since the walk began
  limit,       \* ListOptions.Limit, the same for every page
  after,       \* ListOptions.After
  listed,      \* the ids of the pages so far
  twice,       \* history: ids two pages returned
  done         \* the last page had no NextCursor

server == <<rows, changes, stable>>
walk   == <<after, listed, twice, done>>
vars   == <<collection, limit, server, walk>>

TypeOK ==
  /\ collection \in Collections /\ limit \in Limits
  /\ rows \subseteq Ids /\ stable \subseteq rows
  /\ changes \in 0..MaxChanges
  /\ after \in Ids \union {None}
  /\ listed \subseteq Ids /\ twice \subseteq listed
  /\ done \in BOOLEAN

Init ==
  /\ collection \in Collections /\ limit \in Limits
  /\ rows \in SUBSET Ids /\ stable = rows /\ changes = 0
  /\ after = None /\ listed = {} /\ twice = {}
  /\ done = FALSE

-----------------------------------------------------------------------------
(* The server. *)

AddRow(id) ==
  /\ changes < MaxChanges /\ changes' = changes + 1
  /\ id \notin rows /\ rows' = rows \union {id}
  /\ UNCHANGED <<collection, limit, stable, walk>>

DeleteRow(id) ==
  /\ changes < MaxChanges /\ changes' = changes + 1
  /\ id \in rows /\ rows' = rows \ {id} /\ stable' = stable \ {id}
  /\ UNCHANGED <<collection, limit, walk>>

\* The first n elements of S.
FirstOf(n, S) == {x \in S : Cardinality({y \in S : y < x}) < n}

Clamp(n) == IF n > ServerMaxPageLimit THEN ServerMaxPageLimit ELSE n

\* The rows after the cursor, by id and not by position.
ServerPage(cursor, n) ==
  FirstOf(Clamp(n), {x \in rows : cursor = None \/ x > cursor})

-----------------------------------------------------------------------------
(* The listings. *)

\* Mutant of effectivePageLimit: an unset Limit asks for a short page.
limitShort(n) == IF n > 0 THEN n ELSE 1

\* The caller's Limit when set, the server's maximum otherwise.
effectivePageLimit(n) == IF n > 0 THEN n ELSE ServerMaxPageLimit

\* Mutant of NextCursor: the cursor is the position after the last item.
CursorPastLast(items, n) == IF Cardinality(items) = n THEN Max(items) + 1 ELSE None

\* Mutant of NextCursor: any page that is not empty has a next one, after its
\* first row.
CursorAtFirst(items, n) == IF items # {} THEN Min(items) ELSE None

\* Mutant of NextCursor: a page one row short counts as the last.
CursorOffByOne(items, n) == IF Cardinality(items) > n THEN Max(items) ELSE None

\* The last item's id when a full page came back, by the size asked for.
NextCursor(items, n) == IF Cardinality(items) = n THEN Max(items) ELSE None

\* The caller takes the page and goes on while there is a cursor.
TakePage(items, cursor) ==
  /\ listed' = listed \union items
  /\ twice' = twice \union (listed \intersect items)
  /\ after' = cursor
  /\ done' = (cursor = None)
  /\ UNCHANGED <<collection, limit, server>>

KeysetList(name) ==
  /\ collection = name /\ ~done
  /\ LET n     == effectivePageLimit(limit)
         items == ServerPage(after, n)
     IN TakePage(items, NextCursor(items, n))

ListComponents       == KeysetList("components")
ListMachineProcesses == KeysetList("processes")
ListReleaseArtifacts == KeysetList("artifacts")

\* Mutant of ListEntitlements: a full page hands back a cursor the route ignores.
EntitlementsCursor ==
  /\ collection = "entitlements" /\ ~done
  /\ LET n     == effectivePageLimit(limit)
         items == ServerPage(None, n)
     IN TakePage(items, NextCursor(items, n))

\* page[after] is never sent and NextCursor is always nil.
ListEntitlements ==
  /\ collection = "entitlements" /\ ~done
  /\ TakePage(ServerPage(None, effectivePageLimit(limit)), None)

List == ListComponents \/ ListMachineProcesses \/ ListReleaseArtifacts \/ ListEntitlements

Next == (\E id \in Ids : AddRow(id) \/ DeleteRow(id)) \/ List

\* The caller asks for the next page as long as it has a cursor.
Fairness == WF_vars(List)
Spec == Init /\ [][Next]_vars /\ Fairness

-----------------------------------------------------------------------------
(* Properties. *)

\* A finished keyset walk has listed every row that was there all along,
\* whatever was added or deleted meanwhile (NextCursor is set "when a full
\* page was returned"; ListOptions: "the page size is always a known number").
CompleteWalk == done /\ collection \in Keyset => stable \subseteq listed

\* No page repeats a row of an earlier one, so a caller that deletes or counts
\* what it lists does so once (the keyset is a position in the order, not an
\* offset).
NothingTwice == twice = {}

\* The unpaginated listing leaves nothing out below its ceiling
\* (ListEntitlements: "authoritative only below that ceiling"; an unset Limit
\* "does NOT mean everything" but the server's maximum).
Ceiling == IF limit > 0 THEN Clamp(limit) ELSE ServerMaxPageLimit
CompleteBelowCeiling ==
  done /\ collection = "entitlements" /\ Cardinality(rows \union listed) <= Ceiling
    => stable \subseteq listed

\* A walk ends, one that meets no further row included: the loop "until the
\* page is short" never spins, ListEntitlements' included.
WalkEnds == <>done
=============================================================================
