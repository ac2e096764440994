----------------------------- MODULE PlanProofs -----------------------------
(***************************************************************************)
(* What a Run wants to enforce, for any feeds, entries, documents,         *)
(* configurations, address widths and allowlists: missing grace, the       *)
(* agreement of `sync --dry-run` with the Run after it (FeedSync), and the *)
(* plan that BuildDesired makes of the active entries (Desired).           *)
(***************************************************************************)
EXTENDS FeedSync, Desired, TLAPS

-----------------------------------------------------------------------------
(* Missing grace: an entry is active exactly while one of the last         *)
(* MissingGraceRuns accepted documents has it.                             *)

Counter == [active : BOOLEAN, missing : Nat]

\* missing_runs of an active entry says how many of the newest documents lack
\* it; the one before them has it.  No kept document has an inactive entry.
Counts(row, e, docs) ==
    IF row.active
    THEN /\ row.missing < Len(docs) /\ e \in docs[row.missing + 1]
         /\ \A i \in 1..row.missing : e \notin docs[i]
    ELSE \A i \in 1..Len(docs) : e \notin docs[i]

\* The inductive invariant: ActiveIsRecent does not say how far an entry is in
\* its grace, on which the next snapshot depends.
FeedInv ==
    /\ config \in Configs /\ site \in [Definition -> Documents]
    /\ pc # "idle" => \A f \in todo : f \in Feed /\ Configured(f)
    /\ pc = "answer" => cur \in Feed /\ Configured(cur)
    /\ entries \in [Feed -> [Entry -> Counter]]
    /\ recent \in [Feed -> Seq(SUBSET Entry)]
    /\ \A f \in Feed : Len(recent[f]) <= MissingGraceRuns
    /\ \A f \in Feed, e \in Entry : Counts(entries[f][e], e, recent[f])

\* The documents that are kept once d is accepted.
Kept(docs, d) ==
    SubSeq(<<d>> \o docs, 1, IF Len(docs) < MissingGraceRuns THEN Len(docs) + 1
                             ELSE MissingGraceRuns)

-----------------------------------------------------------------------------

LEMMA FeedInitInv == FeedInit => FeedInv
<1> SUFFICES ASSUME FeedInit PROVE FeedInv
  BY Zenon
<1>1. entries \in [Feed -> [Entry -> Counter]]
  BY Zenon DEF FeedInit, Counter
<1>2. /\ recent \in [Feed -> Seq(SUBSET Entry)]
      /\ \A f \in Feed : Len(recent[f]) = 0
  BY DEF FeedInit
<1>3. \A f \in Feed, e \in Entry : Counts(entries[f][e], e, recent[f])
  BY <1>2 DEF FeedInit, Counts
<1>4. QED
  BY <1>1, <1>2, <1>3, FeedAssumption DEF FeedInit, FeedInv

\* The newest document comes first, the others move back by one, and what is
\* beyond the grace is forgotten.
LEMMA KeptShifts ==
    ASSUME NEW docs \in Seq(SUBSET Entry), NEW d \in SUBSET Entry,
           Len(docs) <= MissingGraceRuns
    PROVE  /\ Kept(docs, d) \in Seq(SUBSET Entry)
           /\ Len(Kept(docs, d)) = IF Len(docs) < MissingGraceRuns THEN Len(docs) + 1
                                   ELSE MissingGraceRuns
           /\ Kept(docs, d)[1] = d
           /\ \A i \in 2..Len(Kept(docs, d)) : Kept(docs, d)[i] = docs[i - 1]
<1> DEFINE all == <<d>> \o docs
           n == IF Len(docs) < MissingGraceRuns THEN Len(docs) + 1 ELSE MissingGraceRuns
<1>1. /\ all \in Seq(SUBSET Entry) /\ Len(all) = Len(docs) + 1
      /\ all[1] = d
      /\ \A i \in 2..Len(all) : all[i] = docs[i - 1]
  OBVIOUS
<1>2. n \in 1..Len(all)
  BY <1>1, FeedAssumption
<1> HIDE DEF all
<1>3. /\ SubSeq(all, 1, n) \in Seq(SUBSET Entry) /\ Len(SubSeq(all, 1, n)) = n
      /\ \A i \in 1..n : SubSeq(all, 1, n)[i] = all[i]
  BY <1>1, <1>2
<1>4. Kept(docs, d) = SubSeq(all, 1, n)
  BY Zenon DEF Kept, all
<1> HIDE DEF n
<1>5. /\ Len(Kept(docs, d)) = n
      /\ Kept(docs, d)[1] = d
      /\ \A i \in 2..n : Kept(docs, d)[i] = docs[i - 1]
  BY <1>1, <1>2, <1>3, <1>4
<1>6. QED
  BY <1>3, <1>4, <1>5, Zenon DEF n

\* A snapshot counts one entry on.
LEMMA SnapshotCounts ==
    ASSUME NEW docs \in Seq(SUBSET Entry), Len(docs) <= MissingGraceRuns,
           NEW d \in SUBSET Entry, NEW e \in Entry, NEW row \in Counter,
           Counts(row, e, docs)
    PROVE  /\ SnapshotEntry(row, e \in d) \in Counter
           /\ Counts(SnapshotEntry(row, e \in d), e, Kept(docs, d))
<1> DEFINE new == Kept(docs, d)
           after == SnapshotEntry(row, e \in d)
<1>1. /\ Len(new) = IF Len(docs) < MissingGraceRuns THEN Len(docs) + 1
                    ELSE MissingGraceRuns
      /\ new[1] = d
      /\ \A i \in 2..Len(new) : new[i] = docs[i - 1]
  BY KeptShifts, Zenon
<1>2. MissingGraceRuns \in Nat \ {0} /\ Len(docs) \in Nat /\ Len(new) \in Nat \ {0}
  BY <1>1, FeedAssumption
<1> HIDE DEF new
<1>3. CASE e \in d
  <2>1. after = [active |-> TRUE, missing |-> 0]
    BY <1>3, Zenon DEF SnapshotEntry
  <2> HIDE DEF after
  <2>2. after \in Counter /\ after.active /\ after.missing = 0
    BY <2>1, 0 \in Nat, TRUE \in BOOLEAN, Zenon DEF Counter
  <2>3. Counts(after, e, new)
    BY <1>1, <1>2, <1>3, <2>2 DEF Counts
  <2>4. QED
    BY <2>2, <2>3, Zenon DEF new, after
<1>4. CASE e \notin d /\ ~row.active
  <2>1. after = row
    BY <1>4, Zenon DEF SnapshotEntry
  <2>2. \A i \in 1..Len(new) : e \notin new[i]
    BY <1>1, <1>2, <1>4 DEF Counts
  <2>3. QED
    BY <1>4, <2>1, <2>2, Zenon DEF Counts, new
<1>5. CASE e \notin d /\ row.active
  <2> DEFINE more == row.missing + 1
  <2>1. /\ row.missing \in Nat /\ row.missing < Len(docs)
        /\ e \in docs[more] /\ \A i \in 1..row.missing : e \notin docs[i]
    BY <1>5, Zenon DEF Counts, Counter
  <2>2. after = [active |-> more < MissingGraceRuns, missing |-> more]
    BY <1>5, Zenon DEF SnapshotEntry
  <2>3. \A i \in 1..more : i <= Len(new) => e \notin new[i]
    <3> SUFFICES ASSUME NEW i \in 1..more, i <= Len(new) PROVE e \notin new[i]
      BY Zenon
    <3>1. CASE i = 1
      BY <1>1, <1>5, <3>1, Zenon
    <3>2. CASE i # 1
      <4>1. i \in 2..Len(new) /\ i - 1 \in 1..row.missing
        BY <1>2, <2>1, <3>2
      <4>2. QED
        BY <1>1, <2>1, <4>1, Zenon
    <3>3. QED
      BY <3>1, <3>2, Zenon
  <2>4. more \in Nat /\ (more < MissingGraceRuns) \in BOOLEAN
    BY <1>2, <2>1
  <2> HIDE DEF after
  <2>5. /\ after \in Counter /\ after.missing = more
        /\ after.active <=> more < MissingGraceRuns
    BY <2>2, <2>4, Zenon DEF Counter
  <2>6. CASE more < MissingGraceRuns
    <3>1. more < Len(new) /\ new[more + 1] = docs[more]
      BY <1>1, <1>2, <2>1, <2>6
    <3>2. Counts(after, e, new)
      BY <2>1, <2>3, <2>4, <2>5, <2>6, <3>1 DEF Counts
    <3>3. QED
      BY <2>5, <3>2, Zenon DEF new, after
  <2>7. CASE ~(more < MissingGraceRuns)
    <3>1. Len(new) = more
      BY <1>1, <1>2, <2>1, <2>7
    <3>2. Counts(after, e, new)
      BY <2>3, <2>5, <2>7, <3>1 DEF Counts
    <3>3. QED
      BY <2>5, <3>2, Zenon DEF new, after
  <2>8. QED
    BY <2>6, <2>7, Zenon
<1>6. QED
  BY <1>3, <1>4, <1>5, Zenon

\* A step that leaves the entries alone.
LEMMA EntriesKept ==
    ASSUME FeedInv, UNCHANGED <<entries, recent>>,
           config' \in Configs, site' \in [Definition -> Documents],
           pc' # "idle" => \A f \in todo' : f \in Feed /\ Configured(f)',
           pc' = "answer" => cur' \in Feed /\ Configured(cur)'
    PROVE  FeedInv'
BY Zenon DEF FeedInv

\* The feed at hand is configured, so there is a document behind its URL.
LEMMA DocumentType ==
    ASSUME FeedInv, pc = "answer"
    PROVE  cur \in Feed /\ Document(cur) \in SUBSET Entry
<1>1. cur \in Feed /\ config[cur].def \in Definition
  BY FeedAssumption DEF FeedInv, Configured
<1>2. QED
  BY <1>1, FeedAssumption, Zenon DEF FeedInv, Document

LEMMA AcceptInv == ASSUME FeedInv, AcceptSnapshot PROVE FeedInv'
<1>1. cur \in Feed /\ Document(cur) \in SUBSET Entry
  BY DocumentType, Zenon DEF AcceptSnapshot
<1>2. /\ entries' = [entries EXCEPT ![cur] =
                        [e \in Entry |-> SnapshotEntry(entries[cur][e], e \in Document(cur))]]
      /\ recent' = [recent EXCEPT ![cur] = Kept(recent[cur], Document(cur))]
  BY Zenon DEF AcceptSnapshot, ApplyFeedSnapshot, Kept
<1>3. \A e \in Entry :
        /\ SnapshotEntry(entries[cur][e], e \in Document(cur)) \in Counter
        /\ Counts(SnapshotEntry(entries[cur][e], e \in Document(cur)), e,
                  Kept(recent[cur], Document(cur)))
  BY <1>1, SnapshotCounts, Zenon DEF FeedInv
<1>4. /\ Kept(recent[cur], Document(cur)) \in Seq(SUBSET Entry)
      /\ Len(Kept(recent[cur], Document(cur))) <= MissingGraceRuns
  <2>1. recent[cur] \in Seq(SUBSET Entry) /\ Len(recent[cur]) <= MissingGraceRuns
    BY <1>1, Zenon DEF FeedInv
  <2>2. Len(recent[cur]) \in Nat
    BY <2>1
  <2>3. QED
    BY <1>1, <2>1, <2>2, KeptShifts, FeedAssumption
<1>5. entries' \in [Feed -> [Entry -> Counter]] /\ recent' \in [Feed -> Seq(SUBSET Entry)]
  BY <1>1, <1>2, <1>3, <1>4, Zenon DEF FeedInv
<1>6. \A f \in Feed :
        /\ Len(recent'[f]) <= MissingGraceRuns
        /\ \A e \in Entry : Counts(entries'[f][e], e, recent'[f])
  <2> SUFFICES ASSUME NEW f \in Feed
               PROVE  /\ Len(recent'[f]) <= MissingGraceRuns
                      /\ \A e \in Entry : Counts(entries'[f][e], e, recent'[f])
    BY Zenon
  <2>1. CASE f = cur
    <3>1. /\ recent'[f] = Kept(recent[cur], Document(cur))
          /\ \A e \in Entry :
                entries'[f][e] = SnapshotEntry(entries[cur][e], e \in Document(cur))
      BY <1>2, <2>1, Zenon DEF FeedInv
    <3>2. QED
      BY <1>3, <1>4, <3>1, Zenon
  <2>2. CASE f # cur
    <3>1. recent'[f] = recent[f] /\ entries'[f] = entries[f]
      BY <1>2, <2>2, Zenon DEF FeedInv
    <3>2. QED
      BY <3>1, Zenon DEF FeedInv
  <2>3. QED
    BY <2>1, <2>2, Zenon
<1>7. /\ config' \in Configs /\ site' \in [Definition -> Documents] /\ pc' = "feeds"
      /\ \A f \in todo' : f \in Feed /\ Configured(f)'
  BY Zenon DEF AcceptSnapshot, FeedDone, FeedInv, Configured
<1>8. QED
  BY <1>5, <1>6, <1>7, Zenon DEF FeedInv

LEMMA FeedNextInv == FeedInv /\ [FeedNext]_vars => FeedInv'
<1> SUFFICES ASSUME FeedInv, [FeedNext]_vars PROVE FeedInv'
  BY Zenon
<1>1. ASSUME NEW selected \in SUBSET Feed, StartRun(selected) PROVE FeedInv'
  <2>1. /\ UNCHANGED <<entries, recent, config, site>> /\ pc' = "feeds"
        /\ todo' = {f \in selected : Configured(f) /\ config[f].enabled}
    BY <1>1, Zenon DEF StartRun
  <2>2. \A f \in todo' : f \in Feed /\ Configured(f)'
    BY <2>1, Zenon DEF Configured
  <2>3. QED
    BY <2>1, <2>2, EntriesKept, Zenon DEF FeedInv
<1>2. ASSUME NEW f \in Feed, NotDue(f) PROVE FeedInv'
  <2>1. /\ UNCHANGED <<entries, recent, config, site, pc>> /\ pc = "feeds"
        /\ todo' = todo \ {f}
    BY <1>2, Zenon DEF NotDue, historyVars
  <2>2. QED
    BY <2>1, EntriesKept, Zenon DEF FeedInv, Configured
<1>3. ASSUME NEW f \in Feed, Fetch(f) PROVE FeedInv'
  <2>1. /\ UNCHANGED <<entries, recent, config, site>>
        /\ pc = "feeds" /\ pc' = "answer" /\ f \in todo
        /\ todo' = todo \ {f} /\ cur' = f
    BY <1>3, Zenon DEF Fetch, IsNext
  <2>2. Configured(f)
    BY <2>1, Zenon DEF FeedInv
  <2>3. QED
    BY <2>1, <2>2, EntriesKept, Zenon DEF FeedInv, Configured
<1>4. CASE RefuseSnapshot \/ FetchFails \/ UnsolicitedNotModified \/ NotModified
  <2>1. UNCHANGED <<entries, recent>> /\ FeedDone /\ pc = "answer"
    BY <1>4, Zenon DEF RefuseSnapshot, FetchFails, UnsolicitedNotModified, NotModified, FeedFails
  <2>2. UNCHANGED <<config, site, todo>> /\ pc' = "feeds"
    BY <2>1, Zenon DEF FeedDone
  <2>3. QED
    BY <2>1, <2>2, EntriesKept, Zenon DEF FeedInv, Configured
<1>5. CASE NotModifiedRefused \/ Reconcile \/ Crash
  <2>1. UNCHANGED <<entries, recent, config, site>> /\ pc' = "idle"
    BY <1>5, Zenon DEF NotModifiedRefused, Reconcile, Crash, Return
  <2>2. QED
    BY <2>1, EntriesKept, Zenon DEF FeedInv
<1>6. CASE Reconfigure \/ Tick
  <2>1. /\ UNCHANGED <<entries, recent, site, pc>> /\ pc = "idle" /\ config' \in Configs
    BY <1>6, Zenon DEF Reconfigure, Tick, localVars, historyVars, FeedInv
  <2>2. QED
    BY <2>1, EntriesKept, Zenon DEF FeedInv
<1>7. ASSUME NEW d \in Definition, Publish(d) PROVE FeedInv'
  <2>1. UNCHANGED <<entries, recent, config, pc, todo, cur>>
    BY <1>7, Zenon DEF Publish, localVars
  <2>2. site' \in [Definition -> Documents]
    BY <1>7, Zenon DEF Publish, FeedInv
  <2>3. QED
    BY <2>1, <2>2, EntriesKept, Zenon DEF FeedInv, Configured
<1>8. CASE UNCHANGED vars
  BY <1>8, EntriesKept, Zenon DEF vars, localVars, historyVars, FeedInv, Configured
<1>9. QED
  BY <1>1, <1>2, <1>3, <1>4, <1>5, <1>6, <1>7, <1>8, AcceptInv, Zenon
     DEF FeedNext, Step, HandleFeed

\* Missing grace is exact, for any number of feeds and entries, any documents
\* and any MissingGraceRuns: whatever order of accepted, refused, unchanged
\* and failed fetches, crashes and changes of the configuration,
\* ApplyFeedSnapshot keeps exactly the entries of the last accepted documents.
THEOREM GraceIsExact == FeedSpec => []ActiveIsRecent
<1>1. FeedInv => ActiveIsRecent
  <2> SUFFICES ASSUME FeedInv, NEW f \in Feed, NEW e \in Entry
               PROVE  entries[f][e].active <=> \E i \in DOMAIN recent[f] : e \in recent[f][i]
    BY Zenon DEF ActiveIsRecent
  <2>1. /\ recent[f] \in Seq(SUBSET Entry) /\ entries[f][e] \in Counter
        /\ Counts(entries[f][e], e, recent[f])
    BY Zenon DEF FeedInv
  <2>2. DOMAIN recent[f] = 1..Len(recent[f]) /\ Len(recent[f]) \in Nat
    BY <2>1
  <2>3. QED
    BY <2>1, <2>2 DEF Counts, Counter
<1>2. QED
  BY <1>1, FeedInitInv, FeedNextInv, PTL DEF FeedSpec

-----------------------------------------------------------------------------
(* `sync --dry-run` and the Run after it agree, and entries change only by *)
(* acceptance.                                                             *)

Fields == {"known", "def", "enabled", "validator", "good", "accepted", "failures",
           "age", "wait"}

Enabled(f) == Configured(f) /\ config[f].enabled

Active(f) == {e \in Entry : entries[f][e].active}

\* The Run has still to ask for f, or waits for its answer.
Pending(f) == f \in todo \/ (pc = "answer" /\ cur = f)

\* The document of f is about to replace its entries.
Replaced(f) ==
    /\ Pending(f) /\ Due(f, changed[f])
    /\ ~Confirmed(f, changed[f]) /\ Accepted(f, changed[f])

\* What f contributes, as far as the Run has come.
Share(f) == IF Replaced(f) THEN Document(f) ELSE Active(f)

\* f contributes nothing that was not announced, but for the excuses.
Within(f, announced) ==
    IF Replaced(f) THEN Document(f) \subseteq announced
    ELSE \A e \in Active(f) :
            e \in announced \/ entries[f][e].missing > 0 \/ changed[f]

Agrees(announced) ==
    /\ \A e \in announced : \E f \in Feed : Enabled(f) /\ e \in Share(f)
    /\ \A f \in Feed : Enabled(f) => Within(f, announced)

\* The inductive invariant: in the middle of a Run the announcement is made of
\* what the handled feeds have and what the pending ones will have.
PreviewInv ==
    /\ DOMAIN rows = Feed /\ \A f \in Feed : DOMAIN rows[f] = Fields
    /\ changed \in [Feed -> BOOLEAN]
    /\ pc \in {"idle", "feeds", "answer"}
    /\ pc # "idle" =>
        /\ \A f \in Feed : rows[f].enabled <=> Enabled(f)
        /\ \A announced \in preview : Agrees(announced)
    /\ pc = "answer" => cur \notin todo /\ Due(cur, changed[cur])

-----------------------------------------------------------------------------

LEMMA PreviewInitInv == FeedInit => PreviewInv
BY DEF FeedInit, PreviewInv, Fields

\* A feed the step does not touch.
Untouched(f) ==
    /\ UNCHANGED <<config, site>>
    /\ rows'[f] = rows[f] /\ entries'[f] = entries[f] /\ changed'[f] = changed[f]
    /\ Pending(f)' <=> Pending(f)

LEMMA SameShare ==
    ASSUME NEW f \in Feed, Untouched(f), NEW CONSTANT announced
    PROVE  /\ Share(f)' = Share(f)
           /\ Enabled(f)' <=> Enabled(f)
           /\ Within(f, announced)' <=> Within(f, announced)
<1>1. /\ Due(f, changed[f])' <=> Due(f, changed[f])
      /\ Confirmed(f, changed[f])' <=> Confirmed(f, changed[f])
      /\ Accepted(f, changed[f])' <=> Accepted(f, changed[f])
  BY Zenon DEF Untouched, Due, Confirmed, Sent, Document, Accepted
<1>2. Replaced(f)' <=> Replaced(f)
  BY <1>1, Zenon DEF Replaced, Untouched
<1>3. Document(f)' = Document(f) /\ Active(f)' = Active(f)
  BY Zenon DEF Untouched, Document, Active
<1>4. QED
  BY <1>2, <1>3, Zenon DEF Untouched, Share, Within, Enabled, Configured

\* A step that is done with feed f, and leaves the others alone.
LEMMA OneDone ==
    ASSUME PreviewInv, FeedInv, NEW f \in Feed, UNCHANGED <<config, site, changed>>,
           pc # "idle", pc' = "feeds", Pending(f),
           DOMAIN rows' = Feed, DOMAIN rows'[f] = Fields,
           rows'[f].enabled = rows[f].enabled,
           \A g \in Feed \ {f} : rows'[g] = rows[g] /\ entries'[g] = entries[g],
           todo' = todo \ {f}, pc = "answer" => cur = f,
           preview' \subseteq preview,
           \A announced \in preview' : Within(f, announced) =>
                Share(f) \subseteq Active(f)' /\ Within(f, announced)'
    PROVE  PreviewInv'
<1>1. ~Pending(f)' /\ Share(f)' = Active(f)' /\ (Enabled(f)' <=> Enabled(f))
  BY Zenon DEF Pending, Share, Replaced, Enabled, Configured
<1>2. ASSUME NEW g \in Feed, g # f PROVE Untouched(g)
  <2>1. Pending(g)' <=> Pending(g)
    BY <1>2, Zenon DEF Pending
  <2>2. QED
    BY <1>2, <2>1, Zenon DEF Untouched
<1>3. ASSUME NEW announced \in preview' PROVE Agrees(announced)'
  <2>1. Agrees(announced)
    BY Zenon DEF PreviewInv
  <2>2. ASSUME NEW g \in Feed, Enabled(g)' PROVE Within(g, announced)'
    <3>1. CASE g = f
      BY <1>1, <2>1, <2>2, <3>1, Zenon DEF Agrees
    <3>2. CASE g # f
      BY <1>2, <2>1, <2>2, <3>2, SameShare, Zenon DEF Agrees
    <3>3. QED
      BY <3>1, <3>2, Zenon
  <2>3. ASSUME NEW e \in announced PROVE \E g \in Feed : Enabled(g)' /\ e \in Share(g)'
    <3>1. PICK g \in Feed : Enabled(g) /\ e \in Share(g)
      BY <2>1, Zenon DEF Agrees
    <3>2. CASE g = f
      BY <1>1, <2>1, <3>1, <3>2, Zenon DEF Agrees
    <3>3. CASE g # f
      BY <1>2, <3>1, <3>3, SameShare, Zenon
    <3>4. QED
      BY <3>2, <3>3, Zenon
  <2>4. QED
    BY <2>2, <2>3, Zenon DEF Agrees
<1>4. \A g \in Feed : /\ DOMAIN rows'[g] = Fields
                      /\ rows'[g].enabled <=> Enabled(g)'
  BY <1>1, <1>2, Zenon DEF PreviewInv, Enabled, Configured
<1>5. QED
  BY <1>3, <1>4, Zenon DEF PreviewInv

\* EnsureFeeds changes nothing that decides whether and how a feed is fetched.
LEMMA EnsureKeeps ==
    ASSUME PreviewInv, FeedInv, NEW f \in Feed
    PROVE  /\ DOMAIN EnsureFeeds = Feed /\ DOMAIN EnsureFeeds[f] = Fields
           /\ EnsureFeeds[f].enabled <=> Enabled(f)
           /\ EnsureFeeds[f].age = rows[f].age /\ EnsureFeeds[f].wait = rows[f].wait
           /\ EnsureFeeds[f].validator = rows[f].validator
           /\ EnsureFeeds[f].accepted = rows[f].accepted
<1>1. DOMAIN rows[f] = Fields
  BY Zenon DEF PreviewInv
<1>2. CASE Configured(f)
  <2>1. EnsureFeeds[f] = [rows[f] EXCEPT !.known = TRUE, !.def = config[f].def,
                                         !.enabled = config[f].enabled]
    BY <1>2, Zenon DEF EnsureFeeds
  <2>2. QED
    BY <1>1, <1>2, <2>1, Zenon DEF EnsureFeeds, Fields, Enabled
<1>3. CASE ~Configured(f)
  <2>1. EnsureFeeds[f] = [rows[f] EXCEPT !.enabled = FALSE]
    BY <1>3, Zenon DEF EnsureFeeds
  <2>2. QED
    BY <1>1, <1>3, <2>1, Zenon DEF EnsureFeeds, Fields, Enabled
<1>4. QED
  BY <1>2, <1>3, Zenon

LEMMA StartPreview ==
    ASSUME PreviewInv, FeedInv, NEW selected \in SUBSET Feed, StartRun(selected)
    PROVE  PreviewInv'
<1> DEFINE New(f) == DefinitionChanged(f)
           Fresh(f) == /\ f \in selected /\ Due(f, New(f))
                       /\ ~Confirmed(f, New(f)) /\ Accepted(f, New(f))
           Old(f) == IF rows[f].enabled THEN Active(f) ELSE {}
<1>0. PICK announced : announced = runDry(selected)
  BY Zenon
<1>1. /\ UNCHANGED <<config, site, entries>> /\ pc' = "feeds" /\ rows' = EnsureFeeds
      /\ changed' = [f \in Feed |-> Configured(f) /\ New(f)]
      /\ todo' = {f \in selected : Enabled(f)} /\ preview' = {announced}
  BY <1>0, Zenon DEF StartRun, Enabled
<1>2. /\ \A e \in announced : \E f \in Feed :
            Enabled(f) /\ e \in IF Fresh(f) THEN Document(f) ELSE Old(f)
      /\ \A f \in Feed : Enabled(f) =>
            (IF Fresh(f) THEN Document(f) ELSE Old(f)) \subseteq announced
  BY <1>0, Zenon DEF runDry, Active, Enabled
<1>3. ASSUME NEW f \in Feed, Enabled(f)
      PROVE  /\ Enabled(f)' /\ Document(f)' = Document(f) /\ Active(f)' = Active(f)
             /\ changed'[f] <=> New(f)
             /\ Replaced(f)' <=> Fresh(f)
             /\ ~rows[f].enabled => changed'[f]
  <2>1. /\ Enabled(f)' /\ Document(f)' = Document(f) /\ Active(f)' = Active(f)
        /\ changed'[f] <=> New(f)
    BY <1>1, <1>3, Zenon DEF Enabled, Configured, Document, Active
  <2>2. /\ rows'[f].age = rows[f].age /\ rows'[f].wait = rows[f].wait
        /\ rows'[f].validator = rows[f].validator
        /\ rows'[f].accepted = rows[f].accepted
    BY <1>1, EnsureKeeps, Zenon
  <2>3. /\ Due(f, changed[f])' <=> Due(f, New(f))
        /\ Confirmed(f, changed[f])' <=> Confirmed(f, New(f))
        /\ Accepted(f, changed[f])' <=> Accepted(f, New(f))
    BY <1>1, <2>1, <2>2, Zenon DEF Due, Confirmed, Sent, Accepted
  <2>4. Pending(f)' <=> f \in selected
    BY <1>1, <1>3, Zenon DEF Pending
  <2>5. ~rows[f].enabled => New(f)
    BY <1>3, Zenon DEF DefinitionChanged, Enabled
  <2>6. QED
    BY <2>1, <2>3, <2>4, <2>5, Zenon DEF Replaced
<1>4. \A f \in Feed : Enabled(f)' => Enabled(f)
  BY <1>1, Zenon DEF Enabled, Configured
<1> HIDE DEF New, Fresh
<1>5. \A e \in announced : \E f \in Feed : Enabled(f)' /\ e \in Share(f)'
  BY <1>2, <1>3, Zenon DEF Share
<1>6. \A f \in Feed : Enabled(f)' => Within(f, announced)'
  <2> SUFFICES ASSUME NEW f \in Feed, Enabled(f)' PROVE Within(f, announced)'
    BY Zenon
  <2>1. CASE Fresh(f)
    BY <1>1, <1>2, <1>3, <1>4, <2>1, Zenon DEF Within
  <2>2. CASE ~Fresh(f)
    BY <1>1, <1>2, <1>3, <1>4, <2>2, Zenon DEF Within
  <2>3. QED
    BY <2>1, <2>2, Zenon
<1>7. \A f \in Feed : rows'[f].enabled <=> Enabled(f)'
  BY <1>1, EnsureKeeps, Zenon DEF Enabled, Configured
<1>8. /\ DOMAIN rows' = Feed /\ \A f \in Feed : DOMAIN rows'[f] = Fields
      /\ changed' \in [Feed -> BOOLEAN]
  BY <1>1, EnsureKeeps, Zenon DEF EnsureFeeds, New, DefinitionChanged, Configured
<1>9. QED
  BY <1>1, <1>5, <1>6, <1>7, <1>8, Zenon DEF PreviewInv, Agrees

\* The answer for cur is dealt with and its entries stay: either its document
\* is refused, the server confirms what is stored, or nothing is promised.
LEMMA AnswerPreview ==
    ASSUME PreviewInv, FeedInv, pc = "answer", FeedDone, UNCHANGED entries,
           DOMAIN rows' = Feed, DOMAIN rows'[cur] = Fields,
           rows'[cur].enabled = rows[cur].enabled,
           \A g \in Feed \ {cur} : rows'[g] = rows[g],
           preview' \subseteq preview, preview' # {} => ~Replaced(cur)
    PROVE  PreviewInv'
<1>1. PICK f \in Feed : f = cur
  BY Zenon DEF FeedInv
<1>2. /\ UNCHANGED <<config, site, changed, todo>> /\ pc' = "feeds"
      /\ Pending(f) /\ f \notin todo /\ todo' = todo \ {f} /\ ~Pending(f)' /\ ~Replaced(f)'
  BY <1>1, Zenon DEF PreviewInv, FeedDone, Pending, Replaced
<1>3. ASSUME NEW announced \in preview', Within(f, announced)
      PROVE  Share(f) \subseteq Active(f)' /\ Within(f, announced)'
  <2>1. ~Replaced(f)
    BY <1>1, <1>3, Zenon
  <2>2. QED
    BY <1>2, <1>3, <2>1, Zenon DEF Share, Within, Active
<1>4. QED
  BY <1>1, <1>2, <1>3, OneDone, Zenon

\* What is in a document becomes active; what is not stays active in its grace.
LEMMA SnapshotActive ==
    ASSUME NEW row \in Counter, NEW d, NEW e
    PROVE  /\ e \in d => SnapshotEntry(row, e \in d).active
           /\ e \notin d /\ SnapshotEntry(row, e \in d).active =>
                SnapshotEntry(row, e \in d).missing > 0
<1> DEFINE after == SnapshotEntry(row, e \in d)
<1>1. CASE e \in d
  <2>1. after = [active |-> TRUE, missing |-> 0]
    BY <1>1, Zenon DEF SnapshotEntry
  <2> HIDE DEF after
  <2>2. 0 \in Nat /\ TRUE \in BOOLEAN
    BY Zenon
  <2>3. after.active
    BY <2>1, <2>2, Zenon
  <2>4. QED
    BY <1>1, <2>3, Zenon DEF after
<1>2. CASE e \notin d /\ row.active
  <2>1. after = [active |-> row.missing + 1 < MissingGraceRuns, missing |-> row.missing + 1]
    BY <1>2, Zenon DEF SnapshotEntry
  <2> HIDE DEF after
  <2>2. after.missing = row.missing + 1
    <3>1. (row.missing + 1 < MissingGraceRuns) \in BOOLEAN
      OBVIOUS
    <3>2. QED
      BY <2>1, <3>1, Zenon
  <2>3. row.missing + 1 > 0
    BY DEF Counter
  <2>4. after.missing > 0
    BY <2>2, <2>3, Zenon
  <2>5. QED
    BY <1>2, <2>4, Zenon DEF after
<1>3. CASE e \notin d /\ ~row.active
  BY <1>3, Zenon DEF SnapshotEntry
<1>4. QED
  BY <1>1, <1>2, <1>3, Zenon

LEMMA AcceptPreview == ASSUME PreviewInv, FeedInv, AcceptSnapshot PROVE PreviewInv'
<1>1. PICK f \in Feed : f = cur
  BY Zenon DEF FeedInv, AcceptSnapshot
<1>2. PICK v : ApplyFeedSnapshot(f, Document(f), v)
  BY <1>1, Zenon DEF AcceptSnapshot
<1>3. /\ UNCHANGED <<config, site, changed, todo, preview>> /\ pc = "answer" /\ pc' = "feeds"
      /\ Pending(f) /\ f \notin todo /\ todo' = todo \ {f} /\ ~Pending(f)' /\ ~Replaced(f)'
      /\ Replaced(f)
  BY <1>1, Zenon DEF AcceptSnapshot, MayAnswer200, PreviewInv, FeedDone, Pending, Replaced
<1>4. /\ DOMAIN rows' = Feed /\ DOMAIN rows'[f] = Fields
      /\ rows'[f].enabled = rows[f].enabled
      /\ \A g \in Feed \ {f} : rows'[g] = rows[g] /\ entries'[g] = entries[g]
  BY <1>2 DEF ApplyFeedSnapshot, PreviewInv, FeedInv, Fields
<1>5. \A e \in Entry : entries'[f][e] = SnapshotEntry(entries[f][e], e \in Document(f))
  BY <1>2, Zenon DEF ApplyFeedSnapshot, FeedInv
<1>6. ASSUME NEW e \in Entry
      PROVE  /\ e \in Document(f) => entries'[f][e].active
             /\ e \notin Document(f) /\ entries'[f][e].active => entries'[f][e].missing > 0
  <2>1. entries[f][e] \in Counter
    BY Zenon DEF FeedInv
  <2>2. QED
    BY <1>5, <2>1, SnapshotActive, Zenon
<1>7. Document(f) \subseteq Entry
  BY <1>1, <1>3, DocumentType, Zenon
<1>8. ASSUME NEW announced \in preview', Within(f, announced)
      PROVE  Share(f) \subseteq Active(f)' /\ Within(f, announced)'
  BY <1>3, <1>6, <1>7, <1>8, Zenon DEF Share, Within, Active
<1>9. QED
  BY <1>1, <1>3, <1>4, <1>8, OneDone, Zenon

LEMMA PreviewNextInv == FeedInv /\ PreviewInv /\ [FeedNext]_vars => PreviewInv'
<1> SUFFICES ASSUME FeedInv, PreviewInv, [FeedNext]_vars PROVE PreviewInv'
  BY Zenon
<1>1. ASSUME NEW f \in Feed, NotDue(f) PROVE PreviewInv'
  <2>1. /\ UNCHANGED <<config, site, rows, entries, changed, preview>>
        /\ pc = "feeds" /\ pc' = "feeds" /\ f \in todo /\ todo' = todo \ {f}
        /\ ~Due(f, changed[f])
    BY <1>1, Zenon DEF NotDue, IsNext, historyVars
  <2>2. Pending(f) /\ ~Pending(f)' /\ ~Replaced(f) /\ ~Replaced(f)'
    BY <2>1, Zenon DEF Pending, Replaced
  <2>3. ASSUME NEW announced \in preview', Within(f, announced)
        PROVE  Share(f) \subseteq Active(f)' /\ Within(f, announced)'
    BY <2>1, <2>2, <2>3, Zenon DEF Share, Within, Active
  <2>4. DOMAIN rows' = Feed /\ DOMAIN rows'[f] = Fields
    BY <2>1, Zenon DEF PreviewInv
  <2>5. QED
    BY <2>1, <2>2, <2>3, <2>4, OneDone, Zenon
<1>2. ASSUME NEW f \in Feed, Fetch(f) PROVE PreviewInv'
  <2>1. /\ UNCHANGED <<config, site, rows, entries, changed, preview>>
        /\ pc = "feeds" /\ pc' = "answer" /\ f \in todo /\ todo' = todo \ {f}
        /\ cur' = f /\ Due(f, changed[f])
    BY <1>2, Zenon DEF Fetch, IsNext
  <2>2. ASSUME NEW g \in Feed PROVE Untouched(g)
    <3>1. Pending(g)' <=> Pending(g)
      BY <2>1, Zenon DEF Pending
    <3>2. QED
      BY <2>1, <3>1, Zenon DEF Untouched
  <2>3. Due(f, changed[f])' /\ Due(cur, changed[cur])'
    BY <2>1, Zenon DEF Due
  <2>4. \A g \in Feed : Enabled(g)' <=> Enabled(g)
    BY <2>1, Zenon DEF Enabled, Configured
  <2>5. ASSUME NEW announced \in preview' PROVE Agrees(announced)'
    <3>1. Agrees(announced)
      BY <2>1, Zenon DEF PreviewInv
    <3>2. QED
      BY <2>2, <2>4, <3>1, SameShare, Zenon DEF Agrees
  <2>6. QED
    BY <2>1, <2>3, <2>4, <2>5, Zenon DEF PreviewInv
<1>3. ASSUME NEW requested, FeedFails(requested), pc = "answer",
             preview' \subseteq preview, preview' # {} => ~Replaced(cur)
      PROVE  PreviewInv'
  <2>1. cur \in Feed
    BY <1>3, Zenon DEF FeedInv
  <2>2. /\ DOMAIN rows' = Feed /\ DOMAIN rows'[cur] = Fields
        /\ rows'[cur].enabled = rows[cur].enabled
        /\ \A g \in Feed \ {cur} : rows'[g] = rows[g]
    BY <1>3, <2>1, Zenon DEF FeedFails, RecordFeedFailure, PreviewInv, Fields
  <2>3. QED
    BY <1>3, <2>2, AnswerPreview, Zenon DEF FeedFails
<1>4. CASE RefuseSnapshot
  BY <1>3, <1>4, Zenon DEF RefuseSnapshot, Replaced
<1>5. CASE FetchFails
  BY <1>3, <1>5, Zenon DEF FetchFails
<1>6. CASE UnsolicitedNotModified
  BY <1>3, <1>6, Zenon DEF UnsolicitedNotModified
<1>7. CASE NotModified
  <2>1. cur \in Feed /\ pc = "answer" /\ FeedDone /\ UNCHANGED entries
    BY <1>7, Zenon DEF NotModified, FeedInv
  <2>2. PICK v : RecordFeedNotModified(cur, v)
    BY <1>7, Zenon DEF NotModified
  <2>3. /\ DOMAIN rows' = Feed /\ DOMAIN rows'[cur] = Fields
        /\ rows'[cur].enabled = rows[cur].enabled
        /\ \A g \in Feed \ {cur} : rows'[g] = rows[g]
    BY <2>1, <2>2, Zenon DEF RecordFeedNotModified, PreviewInv, Fields
  <2>4. preview' \subseteq preview /\ (preview' # {} => ~Replaced(cur))
    BY <1>7, Zenon DEF NotModified, Replaced
  <2>5. QED
    BY <2>1, <2>3, <2>4, AnswerPreview, Zenon
<1>8. CASE NotModifiedRefused \/ Reconcile \/ Crash
  <2>1. UNCHANGED rows /\ pc' = "idle" /\ changed' = [f \in Feed |-> FALSE]
    BY <1>8, Zenon DEF NotModifiedRefused, Reconcile, Crash, Return
  <2>2. QED
    BY <2>1, Zenon DEF PreviewInv
<1>9. CASE Reconfigure
  BY <1>9, Zenon DEF Reconfigure, localVars, PreviewInv
<1>10. CASE Tick
  <2>1. UNCHANGED <<pc, changed>> /\ pc = "idle"
    BY <1>10, Zenon DEF Tick, localVars
  <2>2. DOMAIN rows' = Feed /\ \A f \in Feed : DOMAIN rows'[f] = DOMAIN rows[f]
    BY <1>10, Zenon DEF Tick
  <2>3. QED
    BY <2>1, <2>2, Zenon DEF PreviewInv
<1>11. ASSUME NEW d \in Definition, Publish(d) PROVE PreviewInv'
  <2>1. UNCHANGED <<config, rows, pc, changed, todo, cur>> /\ preview' = {}
    BY <1>11, Zenon DEF Publish, localVars
  <2>2. QED
    BY <2>1, Zenon DEF PreviewInv, Enabled, Configured, Due
<1>12. CASE UNCHANGED vars
  <2>1. /\ UNCHANGED <<config, site, rows, entries, pc, changed, todo, cur, preview>>
    BY <1>12, Zenon DEF vars, localVars, historyVars
  <2>2. \A f \in Feed : Untouched(f)
    BY <2>1, Zenon DEF Untouched, Pending
  <2>3. \A f \in Feed : Enabled(f)' <=> Enabled(f)
    BY <2>1, Zenon DEF Enabled, Configured
  <2>4. ASSUME NEW announced \in preview', pc # "idle" PROVE Agrees(announced)'
    <3>1. Agrees(announced)
      BY <2>1, <2>4, Zenon DEF PreviewInv
    <3>2. QED
      BY <2>2, <2>3, <3>1, SameShare, Zenon DEF Agrees
  <2>5. pc = "answer" => Due(cur, changed[cur])'
    BY <2>1, Zenon DEF PreviewInv, Due
  <2>6. QED
    BY <2>1, <2>3, <2>4, <2>5, Zenon DEF PreviewInv
<1>13. QED
  BY <1>1, <1>2, <1>4, <1>5, <1>6, <1>7, <1>8, <1>9, <1>10, <1>11, <1>12,
     AcceptPreview, StartPreview, Zenon DEF FeedNext, Step, HandleFeed

LEMMA AlwaysPreview == FeedSpec => [](FeedInv /\ PreviewInv)
BY FeedInitInv, FeedNextInv, PreviewInitInv, PreviewNextInv, PTL DEF FeedSpec

\* A dry run (Engine.runDry) and the Run after it (Engine.Run) agree on what is
\* enforced, for any feeds, entries and limits and any mixture of documents
\* accepted, refused, not due or confirmed by a 304.  A document that changes
\* or a fetch that fails in between ends the comparison.
THEOREM PreviewAgrees == FeedSpec => PreviewHolds
<1>1. ASSUME FeedInv, PreviewInv, Reconcile, NEW announced \in preview
      PROVE  /\ announced \subseteq plan'
             /\ \A e \in plan' \ announced : \E f \in Feed :
                    /\ rows[f].enabled /\ entries[f][e].active
                    /\ entries[f][e].missing > 0 \/ changed[f]
  <2>1. pc = "feeds" /\ todo = {} /\ plan' = ListActiveEntries
    BY <1>1, Zenon DEF Reconcile
  <2>2. Agrees(announced) /\ \A f \in Feed : rows[f].enabled <=> Enabled(f)
    BY <1>1, <2>1, Zenon DEF PreviewInv
  <2>3. \A f \in Feed : ~Replaced(f)
    BY <2>1, Zenon DEF Replaced, Pending
  <2>4. announced \subseteq plan'
    BY <2>1, <2>2, <2>3, Zenon DEF Agrees, Share, Active, ListActiveEntries
  <2>5. ASSUME NEW e \in plan' \ announced
        PROVE  \E f \in Feed : /\ rows[f].enabled /\ entries[f][e].active
                               /\ entries[f][e].missing > 0 \/ changed[f]
    <3>1. e \in Entry
      BY <2>1, <2>5, Zenon DEF ListActiveEntries
    <3>2. PICK f \in Feed : rows[f].enabled /\ entries[f][e].active
      BY <2>1, <2>5, Zenon DEF ListActiveEntries
    <3>3. Within(f, announced) /\ e \in Active(f)
      BY <2>2, <3>1, <3>2, Zenon DEF Agrees, Active
    <3>4. QED
      BY <2>3, <2>5, <3>2, <3>3, Zenon DEF Within
  <2>6. QED
    BY <2>4, <2>5, Zenon
<1>2. FeedInv /\ PreviewInv =>
        [Reconcile => \A announced \in preview :
            /\ announced \subseteq plan'
            /\ \A e \in plan' \ announced : \E f \in Feed :
                    /\ rows[f].enabled /\ entries[f][e].active
                    /\ entries[f][e].missing > 0 \/ changed[f]]_vars
  BY <1>1, Zenon
<1>3. QED
  BY <1>2, AlwaysPreview, PTL DEF PreviewHolds

\* Only ApplyFeedSnapshot changes entries: one feed's at a time, with its
\* success and the count the next change is measured against, for any number
\* of feeds, entries and MissingGraceRuns.
THEOREM LastGood == FeedSpec => LastGoodKept
<1> DEFINE Justified ==
        \A f \in Feed : entries'[f] # entries[f] =>
            /\ \A g \in Feed \ {f} : entries'[g] = entries[g]
            /\ rows'[f].age = 0 /\ rows'[f].wait = 0
            /\ rows'[f].accepted = Cardinality(recent'[f][1])
<1>1. ASSUME FeedInv, PreviewInv, AcceptSnapshot PROVE Justified
  <2>1. cur \in Feed /\ Document(cur) \in SUBSET Entry
    BY <1>1, DocumentType, Zenon DEF AcceptSnapshot
  <2>2. entries \in [Feed -> [Entry -> Counter]] /\ recent \in [Feed -> Seq(SUBSET Entry)]
        /\ Len(recent[cur]) <= MissingGraceRuns
    BY <1>1, <2>1, Zenon DEF FeedInv
  <2>3. \A g \in Feed \ {cur} : entries'[g] = entries[g]
    BY <1>1, <2>1, <2>2, Zenon DEF AcceptSnapshot, ApplyFeedSnapshot
  <2>4. recent'[cur] = Kept(recent[cur], Document(cur))
    BY <1>1, <2>1, <2>2, Zenon DEF AcceptSnapshot, Kept
  <2>5. recent'[cur][1] = Document(cur)
    BY <2>1, <2>2, <2>4, KeptShifts
  <2>6. DOMAIN rows = Feed /\ DOMAIN rows[cur] = Fields
    BY <1>1, <2>1, Zenon DEF PreviewInv
  <2>7. /\ rows'[cur].age = 0 /\ rows'[cur].wait = 0
        /\ rows'[cur].accepted = Cardinality(Document(cur))
    BY <1>1, <2>1, <2>6 DEF AcceptSnapshot, ApplyFeedSnapshot, Fields
  <2>8. QED
    BY <2>1, <2>3, <2>5, <2>7, Zenon
<1>2. ASSUME FeedNext, ~AcceptSnapshot PROVE UNCHANGED entries
  BY <1>2, Zenon DEF FeedNext, Step, HandleFeed, StartRun, NotDue, Fetch, RefuseSnapshot,
     FetchFails, UnsolicitedNotModified, NotModified, FeedFails, NotModifiedRefused,
     Reconcile, Crash, Reconfigure, Tick, Publish
<1>3. FeedInv /\ PreviewInv /\ [FeedNext]_vars => [Justified]_vars
  BY <1>1, <1>2, Zenon
<1>4. QED
  BY <1>3, AlwaysPreview, PTL DEF LastGoodKept, FeedSpec

-----------------------------------------------------------------------------
(* BuildDesired, for every address width, special list, allowlist and      *)
(* candidate set.                                                          *)

\* What a Run leaves behind: the plan belongs to the inputs it was built from.
DesiredInv ==
    /\ candidates \subseteq Candidate
    /\ allowlist \subseteq Prefix
    /\ desired = BuildDesired(candidates, allowlist)

\* Every change of the inputs is followed by a new plan: BuildDesired runs in
\* every Reconcile.
THEOREM DesiredInductive == DesiredSpec => []DesiredInv
<1>1. DesiredInit => DesiredInv
  BY Zenon DEF DesiredInit, DesiredInv, BuildDesired, NotAllowed, Objects, Valid
<1>2. DesiredInv /\ [DesiredNext]_dvars => DesiredInv'
  <2> SUFFICES ASSUME DesiredInv, [DesiredNext]_dvars PROVE DesiredInv'
    BY Zenon
  <2>1. CASE Listed
    BY <2>1, Zenon DEF Listed, Rebuild, DesiredInv
  <2>2. CASE Unlisted
    BY <2>2, Zenon DEF Unlisted, Rebuild, DesiredInv
  <2>3. CASE Allowed
    BY <2>3, Zenon DEF Allowed, Rebuild, DesiredInv
  <2>4. CASE Disallowed
    BY <2>4, Zenon DEF Disallowed, Rebuild, DesiredInv
  <2>5. CASE UNCHANGED dvars
    BY <2>5, Zenon DEF dvars, DesiredInv
  <2> QED
    BY <2>1, <2>2, <2>3, <2>4, <2>5, Zenon DEF DesiredNext
<1> QED
  BY <1>1, <1>2, PTL DEF DesiredSpec

\* A prefix of full length is one address: what lets a range stand for a host.
LEMMA HostIsOneAddress ==
    ASSUME NEW p \in Prefix, p.bits = Width
    PROVE  Addresses(p) = {p.addr}
<1>1. Size(p.bits) = 1
  BY DesiredAssumption, Zenon
<1>2. p.addr \in Int
  BY DEF Prefix
<1>3. Addresses(p) = p.addr .. p.addr
  BY <1>1, <1>2 DEF Addresses
<1> QED
  BY <1>2, <1>3

\* The allowlist and the safety list hold back every prefix that touches them.
THEOREM PlanIsHarmless == DesiredSpec => []NoCollateral
<1>1. DesiredInv => NoCollateral
  BY Zenon DEF DesiredInv, NoCollateral, BuildDesired, NotAllowed, Objects, Valid,
         IsSafePrefix, overlapsAllowlist, Overlaps
<1> QED
  BY <1>1, DesiredInductive, PTL

\* A suppressed host lies in a range that is itself enforced: a range that covers
\* is not a host, so the same pass cannot suppress it.
THEOREM PlanIsComplete == DesiredSpec => []Covered
<1>1. DesiredInv => Covered
  <2> SUFFICES ASSUME DesiredInv, NEW c \in candidates,
                      IsSafePrefix(c.prefix), ValidateKind(c),
                      ~overlapsAllowlist(c.prefix, allowlist),
                      NEW a \in Addresses(c.prefix)
               PROVE  \E p \in desired : a \in Addresses(p)
    BY Zenon DEF Covered
  <2>1. c.prefix \in NotAllowed(candidates, allowlist)
    BY Zenon DEF NotAllowed, Objects, Valid
  <2>2. CASE c.prefix \in desired
    BY <2>2, Zenon
  <2>3. CASE c.prefix \notin desired
    <3>1. /\ IsHost(c.prefix, candidates)
          /\ Covering(c.prefix, candidates, allowlist) # {}
      BY <2>1, <2>3, Zenon DEF BuildDesired, DesiredInv
    <3>2. PICK q : q \in Covering(c.prefix, candidates, allowlist)
      BY <3>1, Zenon
    <3>3. q \in desired
      BY <3>2, Zenon DEF Covering, BuildDesired, DesiredInv
    <3>4. c.prefix \in Prefix /\ c.prefix.bits = Width
      BY <3>1, Zenon DEF IsHost, Valid, ValidateKind, DesiredInv, Candidate
    <3>5. a = c.prefix.addr
      BY <3>4, HostIsOneAddress, Zenon
    <3>6. a \in Addresses(q)
      BY <3>2, <3>5, Zenon DEF Covering, Contains
    <3> QED
      BY <3>3, <3>6, Zenon
  <2> QED
    BY <2>2, <2>3, Zenon
<1> QED
  BY <1>1, DesiredInductive, PTL
=============================================================================
