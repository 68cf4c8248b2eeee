--------------------------- MODULE EntitlementCache ---------------------------
(***************************************************************************)
(* HasEntitlement and InvalidateEntitlementCache (entitlement.go): the     *)
(* per-license cache of entitlement codes, used by several goroutines of   *)
(* one Client while the server's entitlements change.                      *)
(*                                                                         *)
(* The mutex covers the lookup and the store, not the fetch between them,  *)
(* so each of the three is a step.  Only the network takes time.           *)
(***************************************************************************)
EXTENDS Integers, FiniteSets

CONSTANTS
  Workers,      \* goroutines that call HasEntitlement
  Licenses,
  Codes,
  InitialCodes, \* what each license holds at first
  PageLimit,    \* serverMaxPageLimit
  TTL,          \* entitlementCacheTTL
  Latency,      \* the longest a response is under way (DefaultTimeout)
  MaxNow,       \* bound: the clock
  MaxChanges,   \* bound: entitlements attached or detached on the server
  None

ASSUME ConfigOK ==
  /\ InitialCodes \in [Licenses -> SUBSET Codes]
  /\ TTL \in Nat /\ Latency \in Nat /\ PageLimit \in Nat
  /\ MaxNow \in Nat /\ TTL + Latency <= MaxNow /\ MaxChanges \in Nat
  /\ None \notin Licenses /\ None \notin Codes

VARIABLES
  now,
  \* the server
  codes,      \* the entitlements of each license, inherited ones included
  changed,    \* when each code was last attached or detached
  overAt,     \* when each license last held more than one page
  changes,
  \* the Client
  cache,
  \* the locals of HasEntitlement
  pc,
  asked,      \* licenseID and code
  entry,
  \* what the last step returned to a caller
  answer

server == <<codes, changed, overAt, changes>>
call   == <<pc, asked, entry>>
vars   == <<now, server, cache, call, answer>>

\* readAt and old are history: when the server read the list, and whether the
\* license's cache was invalidated since.
Entry   == [codes : SUBSET Codes, fetchedAt : Int, readAt : Int, old : BOOLEAN]
NoEntry == [codes |-> {}, fetchedAt |-> -1, readAt |-> -1, old |-> FALSE]
NoCall  == [lic |-> None, code |-> None]

\* stale is history: a cached list read before the last invalidation.
Answer   == [lic : Licenses, code : Codes, found : BOOLEAN, stale : BOOLEAN]
NoAnswer == [lic |-> None, code |-> None, found |-> FALSE, stale |-> FALSE]

Start   == TTL + Latency   \* the clock starts late enough to look back

TypeOK ==
  /\ now \in Start..MaxNow
  /\ codes \in [Licenses -> SUBSET Codes]
  /\ changed \in [Licenses -> [Codes -> Int]]
  /\ overAt \in [Licenses -> Int]
  /\ changes \in 0..MaxChanges
  /\ cache \in [Licenses -> Entry]
  /\ pc \in [Workers -> {"idle", "fetch", "reply", "store"}]
  /\ asked \in [Workers -> [lic : Licenses, code : Codes] \union {NoCall}]
  /\ \A w \in Workers : pc[w] # "idle" => asked[w] # NoCall
  /\ entry \in [Workers -> Entry]
  /\ answer \in Answer \union {NoAnswer}

Init ==
  /\ now = Start
  /\ codes = InitialCodes
  /\ changed = [l \in Licenses |-> [k \in Codes |-> -1]]
  /\ overAt = [l \in Licenses |-> -1] /\ changes = 0
  /\ cache = [l \in Licenses |-> NoEntry]
  /\ pc = [w \in Workers |-> "idle"] /\ asked = [w \in Workers |-> NoCall]
  /\ entry = [w \in Workers |-> NoEntry]
  /\ answer = NoAnswer

Silent == answer' = NoAnswer

-----------------------------------------------------------------------------
(* The server. *)

Toggle(S, k) == IF k \in S THEN S \ {k} ELSE S \union {k}

OverOnePage(S) == Cardinality(S) > PageLimit

Change(l, k) ==
  /\ changes < MaxChanges /\ changes' = changes + 1
  /\ codes' = [codes EXCEPT ![l] = Toggle(@, k)]
  /\ changed' = [changed EXCEPT ![l][k] = now]
  /\ overAt' = [overAt EXCEPT ![l] = IF OverOnePage(codes[l]) THEN now ELSE @]
  /\ Silent /\ UNCHANGED <<now, cache, call>>

\* The one page the route returns, whatever is left out of it.
PagesOf(S) == IF OverOnePage(S) THEN {P \in SUBSET S : Cardinality(P) = PageLimit} ELSE {S}

-----------------------------------------------------------------------------
(* HasEntitlement. *)

Fresh(l) == cache[l] # NoEntry /\ now - cache[l].fetchedAt < TTL

\* A call for code k of license l answers from entry e.
Says(l, k, e, cached) ==
  answer' = [lic |-> l, code |-> k, found |-> k \in e.codes, stale |-> cached /\ e.old]

Hit(w, l, k) ==
  /\ pc[w] = "idle" /\ Fresh(l)
  /\ Says(l, k, cache[l], TRUE)
  /\ UNCHANGED <<now, server, cache, call>>

\* Mutant of Miss: the license asked for is not kept.
MissForgets(w, l, k) ==
  /\ pc[w] = "idle" /\ ~Fresh(l)
  /\ pc' = [pc EXCEPT ![w] = "fetch"]
  /\ Silent /\ UNCHANGED <<now, server, cache, asked, entry>>

Miss(w, l, k) ==
  /\ pc[w] = "idle" /\ ~Fresh(l)
  /\ pc' = [pc EXCEPT ![w] = "fetch"]
  /\ asked' = [asked EXCEPT ![w] = [lic |-> l, code |-> k]]
  /\ Silent /\ UNCHANGED <<now, server, cache, entry>>

ServerLists(w) ==
  /\ pc[w] = "fetch"
  /\ pc' = [pc EXCEPT ![w] = "reply"]
  /\ \E P \in PagesOf(codes[asked[w].lic]) :
       entry' = [entry EXCEPT ![w] =
                   [codes |-> P, fetchedAt |-> -1, readAt |-> now, old |-> FALSE]]
  /\ Silent /\ UNCHANGED <<now, server, cache, asked>>

Return(w) ==
  /\ pc' = [pc EXCEPT ![w] = "idle"]
  /\ entry' = [entry EXCEPT ![w] = NoEntry]
  /\ asked' = [asked EXCEPT ![w] = NoCall]
  /\ UNCHANGED <<now, server>>

\* Mutant of FetchFails: an error is cached as a license without entitlements.
FetchFailsCached(w) ==
  /\ pc[w] \in {"fetch", "reply"}
  /\ cache' = [cache EXCEPT ![asked[w].lic] =
                 [codes |-> {}, fetchedAt |-> now, readAt |-> now, old |-> FALSE]]
  /\ Return(w) /\ Silent

\* An error is returned and nothing is cached.
FetchFails(w) ==
  /\ pc[w] \in {"fetch", "reply"}
  /\ Return(w)
  /\ Silent /\ UNCHANGED cache

\* fetchedAt is time.Now() once the response is decoded.
Receive(w) ==
  /\ pc[w] = "reply"
  /\ pc' = [pc EXCEPT ![w] = "store"]
  /\ entry' = [entry EXCEPT ![w].fetchedAt = now]
  /\ Silent /\ UNCHANGED <<now, server, cache, asked>>

\* The entry is stored, whatever was stored or invalidated meanwhile.
Stored(w) == [cache EXCEPT ![asked[w].lic] = entry[w]]

Store(w) ==
  /\ pc[w] = "store"
  /\ cache' = Stored(w)
  /\ Says(asked[w].lic, asked[w].code, entry[w], FALSE)
  /\ Return(w)

Invalidate(l) ==
  /\ cache' = [cache EXCEPT ![l] = NoEntry]
  /\ entry' = [w \in Workers |->
                 IF asked[w].lic = l /\ pc[w] \in {"reply", "store"}
                 THEN [entry[w] EXCEPT !.old = TRUE] ELSE entry[w]]
  /\ Silent /\ UNCHANGED <<now, server, pc, asked>>

\* The client's timeout bounds how long a response may be under way.
Tick ==
  /\ now < MaxNow
  /\ \A w \in Workers : /\ pc[w] # "store"
                        /\ pc[w] = "reply" => now - entry[w].readAt < Latency
  /\ now' = now + 1
  /\ Silent /\ UNCHANGED <<server, cache, call>>

Next ==
  \/ \E l \in Licenses, k \in Codes :
       \/ Change(l, k)
       \/ \E w \in Workers : Hit(w, l, k) \/ Miss(w, l, k)
  \/ \E w \in Workers : ServerLists(w) \/ FetchFails(w) \/ Receive(w) \/ Store(w)
  \/ \E l \in Licenses : Invalidate(l)
  \/ Tick

Spec == Init /\ [][Next]_vars

-----------------------------------------------------------------------------
(* Properties. *)

\* At some moment since t the license held the code; did not hold it; had more
\* than one page.
HeldSince(l, k, t)    == k \in codes[l] \/ changed[l][k] >= t
NotHeldSince(l, k, t) == k \notin codes[l] \/ changed[l][k] >= t
OverSince(l, t)       == OverOnePage(codes[l]) \/ overAt[l] >= t

WasTrue(l, k, found, t) ==
  IF found THEN HeldSince(l, k, t) ELSE NotHeldSince(l, k, t) \/ OverSince(l, t)

\* A code granted was held, and a code denied was not, at some moment no
\* longer ago than the TTL and one response under way; only a license with
\* more than one page in that time may be denied a code it holds
\* (HasEntitlement's doc comment).
AnswersWereTrue ==
  answer # NoAnswer =>
    WasTrue(answer.lic, answer.code, answer.found, now - TTL - Latency)

\* After InvalidateEntitlementCache, no call answers from a list read before
\* it: "forcing the next HasEntitlement call to refetch regardless of TTL".
\* Violated: a fetch under way when the cache is invalidated is stored after.
InvalidateForcesRefetch == ~answer.stale

-----------------------------------------------------------------------------
(* The inductive invariant behind AnswersWereTrue (proved in               *)
(* EntitlementCache_proofs).                                               *)

\* What the entry says of the license was true when it was read.
TrueEntry(e, l) ==
  e.readAt <= now /\ \A k \in Codes : WasTrue(l, k, k \in e.codes, e.readAt)

CachedTruth(l) ==
  cache[l] # NoEntry =>
    TrueEntry(cache[l], l) /\ cache[l].fetchedAt <= cache[l].readAt + Latency

FetchedTruth(w) ==
  /\ pc[w] \in {"reply", "store"} =>
       TrueEntry(entry[w], asked[w].lic) /\ now <= entry[w].readAt + Latency
  /\ pc[w] = "store" => entry[w].fetchedAt = now

Inv ==
  /\ TypeOK /\ AnswersWereTrue
  /\ \A l \in Licenses : CachedTruth(l)
  /\ \A w \in Workers : FetchedTruth(w)
=============================================================================
