----------------------- MODULE EntitlementCache_proofs -----------------------
(***************************************************************************)
(* Theorems about EntitlementCache, for any goroutines, licenses, codes,   *)
(* page limit, TTL and latency.                                            *)
(***************************************************************************)
EXTENDS EntitlementCache, TLAPS

\* The server's side of a step: nothing changes but the clock, or one code of
\* one license is toggled.
ServerKeeps == codes' = codes /\ changed' = changed /\ overAt' = overAt /\ now' \in {now, now + 1}

\* What was true since t stays true since any earlier moment.
LEMMA TruthIsMonotone ==
  ASSUME TypeOK, NEW l \in Licenses, NEW k \in Codes, NEW found \in BOOLEAN,
         NEW t \in Int, NEW u \in Int, u <= t, WasTrue(l, k, found, t)
  PROVE  WasTrue(l, k, found, u)
  <1>1. changed[l][k] \in Int /\ overAt[l] \in Int
    BY DEF TypeOK
  <1>2. QED
    BY <1>1 DEF WasTrue, HeldSince, NotHeldSince, OverSince

LEMMA TruthSurvivesChange ==
  ASSUME TypeOK, NEW l \in Licenses, NEW k \in Codes, NEW found \in BOOLEAN,
         NEW t \in Int, t <= now, WasTrue(l, k, found, t),
         ServerKeeps \/ \E m \in Licenses, j \in Codes : Change(m, j)
  PROVE  WasTrue(l, k, found, t)'
  <1>1. CASE ServerKeeps
    BY <1>1 DEF ServerKeeps, WasTrue, HeldSince, NotHeldSince, OverSince, OverOnePage
  <1>2. ASSUME NEW m \in Licenses, NEW j \in Codes, Change(m, j)
        PROVE  WasTrue(l, k, found, t)'
    <2>1. now \in Int
      BY ConfigOK DEF TypeOK, Start
    <2>2. CASE l # m
      BY <1>2, <2>2
      DEF Change, TypeOK, WasTrue, HeldSince, NotHeldSince, OverSince, OverOnePage
    <2>3. CASE l = m
      <3>1. codes'[l] = Toggle(codes[l], j) /\ changed'[l] = [changed[l] EXCEPT ![j] = now]
              /\ overAt'[l] = IF OverOnePage(codes[l]) THEN now ELSE overAt[l]
        BY <1>2, <2>3 DEF Change, TypeOK
      <3>2. CASE k = j
        <4>1. changed'[l][k] = now
          BY <3>1, <3>2 DEF TypeOK
        <4>2. QED
          BY <2>1, <4>1 DEF WasTrue, HeldSince, NotHeldSince
      <3>3. CASE k # j
        <4>1. changed'[l][k] = changed[l][k] /\ (k \in codes'[l] <=> k \in codes[l])
          BY <3>1, <3>3 DEF TypeOK, Toggle
        <4>2. OverSince(l, t) => OverSince(l, t)'
          BY <2>1, <3>1 DEF OverSince
        <4>3. QED
          BY <4>1, <4>2 DEF WasTrue, HeldSince, NotHeldSince
      <3>4. QED
        BY <3>2, <3>3
    <2>4. QED
      BY <2>2, <2>3
  <1>3. QED
    BY <1>1, <1>2

LEMMA EntrySurvivesChange ==
  ASSUME TypeOK, NEW l \in Licenses, NEW e \in Entry, TrueEntry(e, l),
         ServerKeeps \/ \E m \in Licenses, j \in Codes : Change(m, j)
  PROVE  TrueEntry(e, l)'
  <1>1. e.readAt \in Int /\ e.readAt <= now /\ now \in Int
    BY ConfigOK DEF Entry, TrueEntry, TypeOK, Start
  <1>2. now' \in {now, now + 1}
    BY DEF ServerKeeps, Change
  <1>3. ASSUME NEW k \in Codes
        PROVE  WasTrue(l, k, k \in e.codes, e.readAt)'
    <2>1. WasTrue(l, k, k \in e.codes, e.readAt)
      BY DEF TrueEntry
    <2>2. CASE k \in e.codes
      <3>1. WasTrue(l, k, TRUE, e.readAt)
        BY <2>1, <2>2 DEF WasTrue
      <3>2. WasTrue(l, k, TRUE, e.readAt)'
        BY <1>1, <3>1, TruthSurvivesChange
      <3>3. QED
        BY <2>2, <3>2 DEF WasTrue
    <2>3. CASE k \notin e.codes
      <3>1. WasTrue(l, k, FALSE, e.readAt)
        BY <2>1, <2>3 DEF WasTrue
      <3>2. WasTrue(l, k, FALSE, e.readAt)'
        BY <1>1, <3>1, TruthSurvivesChange
      <3>3. QED
        BY <2>3, <3>2 DEF WasTrue
    <2>4. QED
      BY <2>2, <2>3
  <1>4. e.readAt <= now'
    BY <1>1, <1>2
  <1>5. QED
    BY <1>3, <1>4 DEF TrueEntry

\* What an entry tells a caller was true a bounded time ago.
LEMMA TrueEntryAnswers ==
  ASSUME TypeOK, NEW l \in Licenses, NEW k \in Codes, NEW e \in Entry, TrueEntry(e, l),
         NEW t \in Int, t <= e.readAt
  PROVE  WasTrue(l, k, k \in e.codes, t)
  <1>1. e.readAt \in Int /\ WasTrue(l, k, k \in e.codes, e.readAt)
    BY DEF Entry, TrueEntry
  <1>2. changed[l][k] \in Int /\ overAt[l] \in Int
    BY DEF TypeOK
  <1>3. QED
    BY <1>1, <1>2 DEF WasTrue, HeldSince, NotHeldSince, OverSince

LEMMA NoEntryType == NoEntry \in Entry
  BY DEF NoEntry, Entry

LEMMA InitInv == Init => Inv
  <1> SUFFICES ASSUME Init PROVE Inv
    OBVIOUS
  <1>1. Start \in Start..MaxNow
    BY ConfigOK DEF Start
  <1>2. TypeOK
    <2>1. changed \in [Licenses -> [Codes -> Int]] /\ overAt \in [Licenses -> Int]
      BY DEF Init
    <2>2. changes \in 0..MaxChanges /\ now \in Start..MaxNow
      BY <1>1, ConfigOK DEF Init
    <2>3. cache \in [Licenses -> Entry] /\ entry \in [Workers -> Entry]
      BY NoEntryType DEF Init
    <2>4. pc \in [Workers -> {"idle", "fetch", "reply", "store"}]
      BY DEF Init
    <2>5. asked \in [Workers -> [lic : Licenses, code : Codes] \union {NoCall}]
            /\ \A w \in Workers : pc[w] # "idle" => asked[w] # NoCall
      BY DEF Init
    <2>6. codes \in [Licenses -> SUBSET Codes]
      BY ConfigOK DEF Init
    <2>7. QED
      BY <2>1, <2>2, <2>3, <2>4, <2>5, <2>6 DEF Init, TypeOK
  <1>3. AnswersWereTrue /\ (\A l \in Licenses : CachedTruth(l))
          /\ (\A w \in Workers : FetchedTruth(w))
    BY DEF Init, AnswersWereTrue, CachedTruth, FetchedTruth
  <1>4. QED
    BY <1>2, <1>3 DEF Inv

LEMMA StepKeepsTypes ==
  ASSUME TypeOK, [Next]_vars
  PROVE  TypeOK'
  <1>1. now \in Int /\ Start \in Int
    BY ConfigOK DEF TypeOK, Start
  <1>2. ASSUME NEW l \in Licenses, NEW k \in Codes, Change(l, k)
        PROVE  TypeOK'
    <2>1. codes' \in [Licenses -> SUBSET Codes]
      BY <1>2 DEF Change, Toggle, TypeOK
    <2>2. changed' \in [Licenses -> [Codes -> Int]] /\ overAt' \in [Licenses -> Int]
      BY <1>1, <1>2 DEF Change, TypeOK
    <2>3. changes' \in 0..MaxChanges
      BY <1>2, ConfigOK DEF Change, TypeOK
    <2>4. QED
      BY <1>2, <2>1, <2>2, <2>3 DEF Change, Silent, call, TypeOK
  <1>3. ASSUME NEW w \in Workers, NEW l \in Licenses, NEW k \in Codes, Hit(w, l, k)
        PROVE  TypeOK'
    <2>1. answer' \in Answer
      <3>1. cache[l].old \in BOOLEAN
        BY DEF TypeOK, Entry
      <3>2. QED
        BY <1>3, <3>1 DEF Hit, Says, Answer
    <2>2. QED
      BY <1>3, <2>1 DEF Hit, server, call, TypeOK
  <1>4. ASSUME NEW w \in Workers, NEW l \in Licenses, NEW k \in Codes, Miss(w, l, k)
        PROVE  TypeOK'
    <2>1. asked' \in [Workers -> [lic : Licenses, code : Codes] \union {NoCall}]
      BY <1>4 DEF Miss, TypeOK
    <2>2. \A x \in Workers : pc'[x] # "idle" => asked'[x] # NoCall
      BY <1>4, ConfigOK DEF Miss, TypeOK, NoCall
    <2>3. pc' \in [Workers -> {"idle", "fetch", "reply", "store"}]
      BY <1>4 DEF Miss, TypeOK
    <2>4. QED
      BY <1>4, <2>1, <2>2, <2>3 DEF Miss, Silent, server, TypeOK
  <1>5. ASSUME NEW w \in Workers, ServerLists(w)
        PROVE  TypeOK'
    <2>1. asked[w].lic \in Licenses
      BY <1>5 DEF ServerLists, TypeOK
    <2>2. PICK P \in PagesOf(codes[asked[w].lic]) :
            entry' = [entry EXCEPT ![w] =
                        [codes |-> P, fetchedAt |-> -1, readAt |-> now, old |-> FALSE]]
      BY <1>5 DEF ServerLists
    <2>3. P \in SUBSET Codes
      BY <2>1 DEF PagesOf, TypeOK
    <2>4. [codes |-> P, fetchedAt |-> -1, readAt |-> now, old |-> FALSE] \in Entry
      BY <1>1, <2>3 DEF Entry
    <2>5. entry' \in [Workers -> Entry]
      BY <2>2, <2>4 DEF TypeOK
    <2>6. QED
      BY <1>5, <2>5 DEF ServerLists, Silent, server, TypeOK
  <1>6. ASSUME NEW w \in Workers, Return(w)
        PROVE  /\ pc' \in [Workers -> {"idle", "fetch", "reply", "store"}]
               /\ asked' \in [Workers -> [lic : Licenses, code : Codes] \union {NoCall}]
               /\ \A x \in Workers : pc'[x] # "idle" => asked'[x] # NoCall
               /\ entry' \in [Workers -> Entry] /\ UNCHANGED <<now, server>>
    BY <1>6, NoEntryType DEF Return, TypeOK
  <1>7. ASSUME NEW w \in Workers, FetchFails(w)
        PROVE  TypeOK'
    BY <1>6, <1>7 DEF FetchFails, Silent, server, TypeOK
  <1>8. ASSUME NEW w \in Workers, Receive(w)
        PROVE  TypeOK'
    <2>1. entry' \in [Workers -> Entry]
      BY <1>1, <1>8 DEF Receive, TypeOK, Entry
    <2>2. QED
      BY <1>8, <2>1 DEF Receive, Silent, server, TypeOK
  <1>9. ASSUME NEW w \in Workers, Store(w)
        PROVE  TypeOK'
    <2>1. asked[w] \in [lic : Licenses, code : Codes] /\ entry[w] \in Entry
      BY <1>9 DEF Store, TypeOK
    <2>2. cache' \in [Licenses -> Entry]
      BY <1>9, <2>1 DEF Store, Stored, TypeOK
    <2>3. answer' \in Answer
      BY <1>9, <2>1 DEF Store, Says, Answer, Entry
    <2>4. QED
      BY <1>6, <1>9, <2>2, <2>3 DEF Store, server, TypeOK
  <1>10. ASSUME NEW l \in Licenses, Invalidate(l)
         PROVE  TypeOK'
    <2>1. cache' \in [Licenses -> Entry]
      BY <1>10, NoEntryType DEF Invalidate, TypeOK
    <2>2. entry' \in [Workers -> Entry]
      <3>1. \A e \in Entry : [e EXCEPT !.old = TRUE] \in Entry
        BY DEF Entry
      <3>2. entry \in [Workers -> Entry]
        BY DEF TypeOK
      <3>3. QED
        BY <1>10, <3>1, <3>2 DEF Invalidate
    <2>3. QED
      BY <1>10, <2>1, <2>2 DEF Invalidate, Silent, server, TypeOK
  <1>11. CASE Tick
    <2>1. now' \in Start..MaxNow
      BY <1>11, ConfigOK DEF Tick, TypeOK, Start
    <2>2. QED
      BY <1>11, <2>1 DEF Tick, Silent, server, call, TypeOK
  <1>12. CASE UNCHANGED vars
    BY <1>12 DEF vars, server, call, TypeOK
  <1>13. QED
    BY <1>2, <1>3, <1>4, <1>5, <1>7, <1>8, <1>9, <1>10, <1>11, <1>12 DEF Next

\* A step that leaves the server's lists alone or changes one code of them.
LEMMA ServerSteps ==
  ASSUME [Next]_vars
  PROVE  ServerKeeps \/ \E m \in Licenses, j \in Codes : Change(m, j)
  BY DEF Next, Hit, Miss, ServerLists, FetchFails, Receive, Store, Return, Invalidate, Tick,
         vars, server, ServerKeeps

\* A page tells the truth about the license it was read from.
LEMMA PageIsTrue ==
  ASSUME NEW l \in Licenses, NEW P \in PagesOf(codes[l]), NEW e,
         e.codes = P, e.readAt = now, now \in Int
  PROVE  TrueEntry(e, l)
  <1>1. P \subseteq codes[l] /\ (P = codes[l] \/ OverOnePage(codes[l]))
    BY DEF PagesOf
  <1>2. QED
    BY <1>1 DEF TrueEntry, WasTrue, HeldSince, NotHeldSince, OverSince

\* A list kept unchanged by a step still tells the truth after it.
LEMMA CachedEntrySurvives ==
  ASSUME TypeOK, [Next]_vars, NEW l \in Licenses, CachedTruth(l), cache'[l] = cache[l]
  PROVE  CachedTruth(l)'
  <1>1. cache[l] \in Entry
    BY DEF TypeOK
  <1>2. CASE cache[l] # NoEntry
    <2>1. TrueEntry(cache[l], l) /\ cache[l].fetchedAt <= cache[l].readAt + Latency
      BY <1>2 DEF CachedTruth
    <2>2. TrueEntry(cache[l], l)'
      <3> DEFINE e == cache[l]
      <3>1. \A d \in Entry : TrueEntry(d, l) => TrueEntry(d, l)'
        BY ServerSteps, EntrySurvivesChange
      <3>2. QED
        BY <1>1, <2>1, <3>1 DEF TrueEntry
    <2>3. QED
      BY <2>1, <2>2 DEF CachedTruth
  <1>3. QED
    BY <1>2 DEF CachedTruth

LEMMA StepKeepsCachedTruth ==
  ASSUME Inv, [Next]_vars, NEW l \in Licenses
  PROVE  CachedTruth(l)'
  <1>1. TypeOK /\ CachedTruth(l)
    BY DEF Inv
  <1>2. CASE cache'[l] = cache[l]
    BY <1>1, <1>2, CachedEntrySurvives
  <1>3. CASE cache'[l] = NoEntry
    BY <1>3 DEF CachedTruth
  <1>4. ASSUME NEW w \in Workers, Store(w), asked[w].lic = l
        PROVE  CachedTruth(l)'
    <2>1. cache'[l] = entry[w] /\ UNCHANGED <<now, server>>
      BY <1>1, <1>4 DEF Store, Stored, Return, TypeOK
    <2>2. FetchedTruth(w) /\ pc[w] = "store"
      BY <1>4 DEF Inv, Store
    <2>3. TrueEntry(entry[w], l) /\ entry[w].fetchedAt <= entry[w].readAt + Latency
      BY <1>4, <2>2 DEF FetchedTruth
    <2>4. TrueEntry(cache[l], l)'
      BY <2>1, <2>3
      DEF server, TrueEntry, WasTrue, HeldSince, NotHeldSince, OverSince, OverOnePage
    <2>5. QED
      BY <2>1, <2>3, <2>4 DEF CachedTruth
  <1>5. cache'[l] = cache[l] \/ cache'[l] = NoEntry
          \/ \E w \in Workers : Store(w) /\ asked[w].lic = l
    BY <1>1
    DEF Next, Change, Hit, Miss, ServerLists, FetchFails, Receive, Store, Stored, Invalidate,
        Tick, vars, TypeOK
  <1>6. QED
    BY <1>2, <1>3, <1>4, <1>5

\* A page under way keeps telling the truth through a step that leaves its
\* codes and its reading time alone.
LEMMA FetchedEntrySurvives ==
  ASSUME TypeOK, [Next]_vars, NEW w \in Workers, FetchedTruth(w),
         pc[w] \in {"reply", "store"}, asked'[w] = asked[w],
         entry'[w].codes = entry[w].codes, entry'[w].readAt = entry[w].readAt
  PROVE  TrueEntry(entry[w], asked[w].lic)'
  <1>1. asked[w].lic \in Licenses /\ entry[w] \in Entry
    BY DEF TypeOK
  <1>2. TrueEntry(entry[w], asked[w].lic)
    BY DEF FetchedTruth
  <1>3. ASSUME NEW l \in Licenses, NEW d \in Entry, NEW e, TrueEntry(d, l),
               e.codes = d.codes, e.readAt = d.readAt
        PROVE  TrueEntry(e, l)'
    <2>1. TrueEntry(d, l)'
      BY <1>3, ServerSteps, EntrySurvivesChange
    <2>2. QED
      BY <1>3, <2>1 DEF TrueEntry
  <1>4. PICK l \in Licenses, d \in Entry : l = asked[w].lic /\ d = entry[w]
    BY <1>1
  <1>5. PICK e : e = entry'[w]
    OBVIOUS
  <1>6. TrueEntry(e, l)'
    BY <1>2, <1>3, <1>4, <1>5
  <1>7. e = entry'[w] /\ l = asked'[w].lic
    BY <1>4, <1>5
  <1>8. QED
    BY <1>6, <1>7 DEF TrueEntry, WasTrue, HeldSince, NotHeldSince, OverSince, OverOnePage

\* What a step does to a worker whose page is, afterwards, under way.
LEMMA StepKeepsFetchedTruth ==
  ASSUME Inv, [Next]_vars, NEW w \in Workers
  PROVE  FetchedTruth(w)'
  <1>1. TypeOK /\ FetchedTruth(w) /\ now \in Int
    BY ConfigOK DEF Inv, TypeOK, Start
  <1>2. CASE pc'[w] \notin {"reply", "store"}
    BY <1>2 DEF FetchedTruth
  <1>3. CASE ServerLists(w)
    <2>1. /\ pc'[w] = "reply" /\ asked' = asked /\ UNCHANGED <<now, server>>
          /\ asked[w].lic \in Licenses
      BY <1>1, <1>3 DEF ServerLists, TypeOK
    <2>2. PICK P \in PagesOf(codes[asked[w].lic]) :
            entry' = [entry EXCEPT ![w] =
                        [codes |-> P, fetchedAt |-> -1, readAt |-> now, old |-> FALSE]]
      BY <1>3 DEF ServerLists
    <2>3. entry'[w].codes = P /\ entry'[w].readAt = now
      BY <1>1, <2>2 DEF TypeOK
    <2>4. TrueEntry(entry'[w], asked[w].lic)
      BY <1>1, <2>1, <2>3, PageIsTrue
    <2>5. TrueEntry(entry[w], asked[w].lic)'
      BY <2>1, <2>4
      DEF server, TrueEntry, WasTrue, HeldSince, NotHeldSince, OverSince, OverOnePage
    <2>6. QED
      BY <1>1, <2>1, <2>3, <2>5, ConfigOK DEF FetchedTruth
  <1>4. CASE Receive(w)
    <2>1. pc[w] = "reply" /\ pc'[w] = "store" /\ asked' = asked /\ now' = now
      BY <1>1, <1>4 DEF Receive, TypeOK
    <2>2. entry'[w] = [entry[w] EXCEPT !.fetchedAt = now] /\ entry[w] \in Entry
      BY <1>1, <1>4 DEF Receive, TypeOK
    <2>3. /\ entry'[w].fetchedAt = now /\ entry'[w].readAt = entry[w].readAt
          /\ entry'[w].codes = entry[w].codes
      BY <2>2 DEF Entry
    <2>4. TrueEntry(entry[w], asked[w].lic)'
      BY <1>1, <2>1, <2>3, FetchedEntrySurvives
    <2>5. now <= entry[w].readAt + Latency
      BY <1>1, <2>1 DEF FetchedTruth
    <2>6. QED
      BY <2>1, <2>3, <2>4, <2>5 DEF FetchedTruth
  <1>5. CASE /\ pc[w] \in {"reply", "store"} /\ pc'[w] = pc[w] /\ asked'[w] = asked[w]
             /\ entry'[w].codes = entry[w].codes /\ entry'[w].readAt = entry[w].readAt
             /\ entry'[w].fetchedAt = entry[w].fetchedAt
             /\ \/ now' = now
                \/ now' = now + 1 /\ pc[w] = "reply" /\ now - entry[w].readAt < Latency
    <2>1. TrueEntry(entry[w], asked[w].lic)'
      BY <1>1, <1>5, FetchedEntrySurvives
    <2>2. now <= entry[w].readAt + Latency /\ (pc[w] = "store" => entry[w].fetchedAt = now)
      BY <1>1, <1>5 DEF FetchedTruth
    <2>3. entry[w].readAt \in Int /\ Latency \in Int
      BY <1>1, ConfigOK DEF TypeOK, Entry
    <2>4. now' <= entry[w].readAt + Latency
      BY <1>1, <1>5, <2>2, <2>3
    <2>5. pc[w] = "store" => now' = now
      BY <1>5
    <2>6. QED
      BY <1>5, <2>1, <2>2, <2>4, <2>5 DEF FetchedTruth
  <1>6. \/ pc'[w] \notin {"reply", "store"} \/ ServerLists(w) \/ Receive(w)
        \/ /\ pc[w] \in {"reply", "store"} /\ pc'[w] = pc[w] /\ asked'[w] = asked[w]
           /\ entry'[w].codes = entry[w].codes /\ entry'[w].readAt = entry[w].readAt
           /\ entry'[w].fetchedAt = entry[w].fetchedAt
           /\ \/ now' = now
              \/ now' = now + 1 /\ pc[w] = "reply" /\ now - entry[w].readAt < Latency
    <2>1. CASE UNCHANGED vars
      BY <1>1, <2>1 DEF vars, call, TypeOK
    <2>2. ASSUME NEW l \in Licenses, NEW k \in Codes, Change(l, k)
          PROVE  UNCHANGED <<now, call>>
      BY <2>2 DEF Change
    <2>3. ASSUME NEW x \in Workers, NEW l \in Licenses, NEW k \in Codes,
                 Hit(x, l, k) \/ Miss(x, l, k)
          PROVE  now' = now /\ entry' = entry
                   /\ \/ pc' = pc /\ asked' = asked
                      \/ /\ x = w => pc'[w] = "fetch"
                         /\ x # w => pc'[w] = pc[w] /\ asked'[w] = asked[w]
      BY <1>1, <2>3 DEF Hit, Miss, call, TypeOK
    <2>4. ASSUME NEW x \in Workers, ServerLists(x) \/ Receive(x), x # w
          PROVE  now' = now /\ entry'[w] = entry[w] /\ pc'[w] = pc[w] /\ asked' = asked
      BY <1>1, <2>4 DEF ServerLists, Receive, TypeOK
    <2>5. ASSUME NEW x \in Workers, FetchFails(x) \/ Store(x)
          PROVE  /\ now' = now
                 /\ x = w => pc'[w] = "idle"
                 /\ x # w => entry'[w] = entry[w] /\ pc'[w] = pc[w] /\ asked'[w] = asked[w]
      BY <1>1, <2>5 DEF FetchFails, Store, Return, TypeOK
    <2>6. ASSUME NEW l \in Licenses, Invalidate(l)
          PROVE  /\ now' = now /\ pc' = pc /\ asked' = asked
                 /\ entry'[w].codes = entry[w].codes /\ entry'[w].readAt = entry[w].readAt
                 /\ entry'[w].fetchedAt = entry[w].fetchedAt
      BY <1>1, <2>6 DEF Invalidate, TypeOK, Entry
    <2>7. CASE Tick
      BY <1>1, <2>7 DEF Tick, call, TypeOK
    <2>8. QED
      BY <2>1, <2>2, <2>3, <2>4, <2>5, <2>6, <2>7 DEF Next, call
  <1>7. QED
    BY <1>2, <1>3, <1>4, <1>5, <1>6

\* A call that answers, from the cache or from its own fetch, tells the truth.
LEMMA StepAnswersTruly ==
  ASSUME Inv, [Next]_vars
  PROVE  AnswersWereTrue'
  <1>1. TypeOK /\ AnswersWereTrue /\ now \in Int /\ TTL \in Int /\ Latency \in Int
    BY ConfigOK DEF Inv, TypeOK, Start
  <1>2. CASE Silent
    BY <1>2 DEF Silent, AnswersWereTrue
  <1>3. ASSUME NEW e \in Entry, NEW l \in Licenses, NEW k \in Codes, NEW cached \in BOOLEAN,
               TrueEntry(e, l), Says(l, k, e, cached), UNCHANGED <<now, server>>,
               now - TTL - Latency <= e.readAt
        PROVE  AnswersWereTrue'
    <2>1. WasTrue(l, k, k \in e.codes, now - TTL - Latency)
      BY <1>1, <1>3, TrueEntryAnswers
    <2>2. /\ answer'.lic = l /\ answer'.code = k /\ answer'.found = (k \in e.codes)
      BY <1>3 DEF Says
    <2>3. WasTrue(answer.lic, answer.code, answer.found, now - TTL - Latency)'
      BY <1>3, <2>1, <2>2
      DEF server, WasTrue, HeldSince, NotHeldSince, OverSince, OverOnePage
    <2>4. QED
      BY <2>3 DEF AnswersWereTrue
  <1>4. ASSUME NEW w \in Workers, NEW l \in Licenses, NEW k \in Codes, Hit(w, l, k)
        PROVE  AnswersWereTrue'
    <2>1. /\ cache[l] \in Entry /\ CachedTruth(l) /\ cache[l] # NoEntry
          /\ now - cache[l].fetchedAt < TTL
      BY <1>1, <1>4 DEF Hit, Fresh, Inv, TypeOK
    <2>2. TrueEntry(cache[l], l) /\ cache[l].fetchedAt <= cache[l].readAt + Latency
      BY <2>1 DEF CachedTruth
    <2>3. now - TTL - Latency <= cache[l].readAt
      BY <1>1, <2>1, <2>2 DEF Entry
    <2>4. Says(l, k, cache[l], TRUE) /\ UNCHANGED <<now, server>>
      BY <1>4 DEF Hit
    <2>5. QED
      BY <1>3, <2>1, <2>2, <2>3, <2>4
  <1>5. ASSUME NEW w \in Workers, Store(w)
        PROVE  AnswersWereTrue'
    <2>1. /\ entry[w] \in Entry /\ asked[w].lic \in Licenses /\ asked[w].code \in Codes
          /\ FetchedTruth(w) /\ pc[w] = "store"
      BY <1>1, <1>5 DEF Store, Inv, TypeOK
    <2>2. TrueEntry(entry[w], asked[w].lic) /\ now <= entry[w].readAt + Latency
      BY <2>1 DEF FetchedTruth
    <2>3. now - TTL - Latency <= entry[w].readAt
      BY <1>1, <2>1, <2>2, ConfigOK DEF Entry
    <2>4. Says(asked[w].lic, asked[w].code, entry[w], FALSE) /\ UNCHANGED <<now, server>>
      BY <1>5 DEF Store, Return
    <2>5. QED
      BY <1>3, <2>1, <2>2, <2>3, <2>4
  <1>6. CASE UNCHANGED vars
    BY <1>1, <1>6
    DEF vars, server, AnswersWereTrue, WasTrue, HeldSince, NotHeldSince, OverSince, OverOnePage
  <1>7. QED
    BY <1>2, <1>4, <1>5, <1>6
    DEF Next, Change, Miss, ServerLists, FetchFails, Receive, Invalidate, Tick

LEMMA InvHolds == Spec => []Inv
  <1>1. Inv /\ [Next]_vars => Inv'
    <2> SUFFICES ASSUME Inv, [Next]_vars PROVE Inv'
      OBVIOUS
    <2>1. TypeOK'
      BY StepKeepsTypes DEF Inv
    <2>2. AnswersWereTrue'
      BY StepAnswersTruly
    <2>3. \A l \in Licenses : CachedTruth(l)'
      BY StepKeepsCachedTruth
    <2>4. \A w \in Workers : FetchedTruth(w)'
      BY StepKeepsFetchedTruth
    <2>5. QED
      BY <2>1, <2>2, <2>3, <2>4 DEF Inv
  <1>2. QED
    BY InitInv, <1>1, PTL DEF Spec

-----------------------------------------------------------------------------

\* The Client's cache, the fetches under way and the server's lists keep their
\* types in every interleaving of the goroutines.
THEOREM TypeCorrect == Spec => []TypeOK
  <1>1. Inv => TypeOK
    BY DEF Inv
  <1>2. QED
    BY InvHolds, <1>1, PTL

\* HasEntitlement never grants a code the license did not hold, nor denies one
\* it held on its only page, throughout the last TTL and one response.
THEOREM AnswersTrue == Spec => []AnswersWereTrue
  <1>1. Inv => AnswersWereTrue
    BY DEF Inv
  <1>2. QED
    BY InvHolds, <1>1, PTL
=============================================================================
