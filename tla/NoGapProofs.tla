----------------------------- MODULE NoGapProofs -----------------------------
(***************************************************************************)
(* NoGap, ResumeLosesNothing, RevokedGone and PurgesOnlyWithdrawn, for      *)
(* every number of records, page size and sequence of failures, where one   *)
(* process at a time works on the store: the links are offsets into a       *)
(* result that is computed again, and nothing is lost but what slides past  *)
(* one.  And, where deep offsets are rejected, WholeFeedImported.           *)
(***************************************************************************)
EXTENDS ReplicationProofs, DeepPaging, Offsets

-----------------------------------------------------------------------------
(* The inductive invariant.  It says, for every moment of a run, where a    *)
(* record that is not stored in its current version can still be: in the    *)
(* page in hand, ahead of the next link, or changed since the page came.    *)

\* What the import is to store.
Wanted(k) == Viewable(k) /\ feed[k].ts >= Since

InScope(k) == Wanted(k) /\ k \notin slid

Stored(k) == rows[k] = feed[k].ts

\* Times the run knows: a change of the feed in scope is not before them.
Bounded(t) == t <= now \/ t <= Since

\* A link into a query over all the keys.
LinkOK(url) ==
    /\ url # NoURL
    /\ url.keys = Keys
    /\ Bounded(url.ge)

\* Whatever is ahead of the link is not before t.
Reaches(url, t) == \A k \in Keys : Ahead(url, k) /\ feed[k].ts >= Since => t <= feed[k].ts

Covers(url) == \A k \in Keys : InScope(k) => Stored(k) \/ Ahead(url, k)

\* k changed after the page of run r was fetched: its timestamp is past
\* everything the run and the cursor know.
Overtaken(r, k) ==
    /\ feed[k].ts >= syncState.wm
    /\ Resuming => Ahead(syncState.inProgress, k)
    /\ feed[k].ts >= r.wm
    /\ feed[k].ts >= r.started
    /\ r.next # NoURL => Ahead(r.next, k)
    /\ \A j \in DOMAIN r.page : feed[k].ts > r.page[j].ts

NextInv(r) ==
    r.next # NoURL => /\ LinkOK(r.next)
                      /\ Reaches(r.next, r.wm)
                      /\ \A j \in DOMAIN r.page : Reaches(r.next, r.page[j].ts)

PageInv(r) ==
    /\ \A j \in DOMAIN r.page : r.page[j].ts <= now
    /\ \A k \in DOMAIN r.page : InScope(k) => r.page[k] = feed[k] \/ Overtaken(r, k)

\* Where the current version of k is, once the page is in hand.
Delivered(r, k) == k \in DOMAIN r.page /\ r.page[k] = feed[k]
Beyond(r, k) == (r.next # NoURL /\ Ahead(r.next, k)) \/ Overtaken(r, k)

PagingInv(r) ==
    /\ Bounded(r.wm)
    /\ r.started <= now
    /\ r.pc = "fetch" => LinkOK(r.url) /\ Covers(r.url) /\ Reaches(r.url, r.wm)
    /\ r.pc = "upsert" =>
         /\ NextInv(r)
         /\ PageInv(r)
         /\ \A k \in Keys : InScope(k) => Stored(k) \/ Delivered(r, k) \/ Beyond(r, k)
    /\ r.pc \in {"delete", "persist"} =>
         /\ NextInv(r)
         /\ PageInv(r)
         /\ \A k \in Keys : InScope(k) => Stored(k) \/ Beyond(r, k)
    /\ r.pc = "complete" =>
         \A k \in Keys : InScope(k) =>
            Stored(k) \/ (feed[k].ts >= r.wm /\ feed[k].ts >= r.started)

\* k may be purged or overwritten without opening a gap.
Safe(k) == feed[k].ts >= syncState.wm

SweepingInv(r) ==
    /\ r.st = syncState
    /\ ~Resuming
    /\ r.pc = "sweep" =>
         /\ LinkOK(r.url)
         /\ \A k \in Keys : InScope(k) => k \in DOMAIN r.remote \/ Ahead(r.url, k)
    /\ r.pc = "diff" =>
         \A k \in Keys : InScope(k) => k \in DOMAIN r.remote \/ Safe(k)
    /\ \A k \in r.purge : InScope(k) => Safe(k)
    /\ r.pc \in {"upsert", "delete"} =>
         \A k \in DOMAIN r.page : InScope(k) => r.page[k] = feed[k] \/ Safe(k)

GapInv ==
    /\ \A k \in Keys : feed[k].ts <= now
    /\ Bounded(syncState.wm)
    /\ NoGap
    /\ Resuming => /\ LinkOK(syncState.inProgress)
                   /\ Covers(syncState.inProgress)
                   /\ Reaches(syncState.inProgress, syncState.wm)
    /\ \A p \in Procs :
         /\ run[p].op \in {"backfill", "sync"} => PagingInv(run[p])
         /\ run[p].op = "reconcile" => SweepingInv(run[p])

-----------------------------------------------------------------------------
(* Ranks and pages.                                                         *)

LEMMA RankTyped ==
    ASSUME NEW url \in URLs, NEW lag, NEW k
    PROVE  Rank(url, lag, k) \in Nat
<1> DEFINE Before == {j \in Matching(url, lag) : Precedes(At(j), At(k))}
<1>1. IsFiniteSet(Keys) /\ Before \subseteq Keys
  BY FS_Interval, FeedConstants DEF Keys, Matching, URLs
<1>2. Cardinality(Before) \in Nat
  BY <1>1, FS_Subset, FS_CardinalityType
<1> QED
  BY <1>2 DEF Rank

\* Of two records of a query the one of the higher rank is not the earlier.
LEMMA RankOrders ==
    ASSUME TypeOK, NEW url \in URLs, NEW lag,
           NEW j \in Matching(url, lag), NEW k \in Matching(url, lag),
           Rank(url, lag, j) < Rank(url, lag, k)
    PROVE  feed[j].ts <= feed[k].ts
<1> DEFINE Before(i) == {l \in Matching(url, lag) : Precedes(At(l), At(i))}
<1>1. Matching(url, lag) \subseteq Keys
  BY DEF Matching, URLs
<1>2. \A l \in Keys : feed[l].ts \in Nat /\ l \in Nat
  BY FeedConstants DEF TypeOK, FeedRecord, Times, Keys
<1>3. ASSUME feed[k].ts < feed[j].ts PROVE FALSE
  <2>1. \A l \in Matching(url, lag) : Precedes(At(l), At(k)) => Precedes(At(l), At(j))
    BY <1>1, <1>2, <1>3 DEF At, Precedes
  <2>2. Before(k) \subseteq Before(j)
    BY <2>1
  <2>3. IsFiniteSet(Before(j))
    BY <1>1, FS_Interval, FS_Subset, FeedConstants DEF Keys
  <2>4. Cardinality(Before(k)) <= Cardinality(Before(j))
    BY <2>2, <2>3, FS_Subset
  <2>5. Rank(url, lag, k) <= Rank(url, lag, j)
    BY <2>4 DEF Rank
  <2> QED
    BY <2>5, RankTyped
<1> QED
  BY <1>1, <1>2, <1>3

\* The revoked records a filter lets through push the others back.
LEMMA LagPushesBack ==
    ASSUME NEW url \in URLs, NEW lag, NEW k
    PROVE  /\ Matching(url, {}) \subseteq Matching(url, lag)
           /\ Rank(url, {}, k) <= Rank(url, lag, k)
<1> DEFINE Before(l) == {j \in Matching(url, l) : Precedes(At(j), At(k))}
<1>1. Matching(url, {}) \subseteq Matching(url, lag) /\ Matching(url, lag) \subseteq Keys
  BY DEF Matching, URLs
<1>2. IsFiniteSet(Keys) /\ Before(lag) \subseteq Keys
  BY <1>1, FS_Interval, FeedConstants DEF Keys
<1>3. Before({}) \subseteq Before(lag) /\ IsFiniteSet(Before(lag))
  BY <1>1, <1>2, FS_Subset
<1>4. Cardinality(Before({})) <= Cardinality(Before(lag))
  BY <1>3, FS_Subset
<1>5. Rank(url, {}, k) = Cardinality(Before({})) /\ Rank(url, lag, k) = Cardinality(Before(lag))
  BY DEF Rank
<1> QED
  BY <1>1, <1>4, <1>5

LEMMA AheadKept ==
    ASSUME UNCHANGED feed, NEW url, NEW k
    PROVE  Ahead(url, k)' <=> Ahead(url, k)
BY DEF Ahead, Matching, Rank, Precedes, At

\* A fresh query over all keys has ahead of it what its filter lets through.
LEMMA AheadOfQuery ==
    ASSUME NEW ge \in Times, NEW view \in BOOLEAN, NEW k \in Keys
    PROVE  Ahead(Query(ge, view, Keys), k) <=>
             feed[k].listed /\ (view => feed[k].view) /\ feed[k].ts >= ge
<1>1. PICK url \in URLs : url = Query(ge, view, Keys)
  BY QueryTyped
<1>2. url.ge = ge /\ url.view = view /\ url.keys = Keys /\ url.skip = 0
  BY <1>1 DEF Query
<1>3. Rank(url, {}, k) >= url.skip
  BY <1>2, RankTyped
<1>4. k \in Matching(url, {}) <=> feed[k].listed /\ (view => feed[k].view) /\ feed[k].ts >= ge
  BY <1>2 DEF Matching
<1> QED
  BY <1>1, <1>3, <1>4 DEF Ahead

\* A page request answered: the next link goes on where the page ends, and
\* what was ahead of the URL is ahead of it, or has its place on the page.
LEMMA FetchDelivers ==
    ASSUME TypeOK, NEW url \in URLs, LinkOK(url),
           NEW lag, NEW next, next = NextLink(url, lag)
    PROVE  /\ next # NoURL =>
                 /\ LinkOK(next) /\ next.view = url.view
                 /\ \A j \in PageKeys(url, lag) : Reaches(next, feed[j].ts)
                 /\ \A t : Reaches(url, t) => Reaches(next, t)
           /\ \A k \in Keys : Ahead(url, k) =>
                 \/ k \in PageKeys(url, {})
                 \/ next # NoURL /\ Ahead(next, k)
<1>1. /\ url.skip \in Nat /\ PageSize \in Nat \ {0}
      /\ \A k, l : Rank(url, l, k) \in Nat
      /\ Matching(url, {}) \subseteq Matching(url, lag)
      /\ \A k : Rank(url, {}, k) <= Rank(url, lag, k)
  BY RankTyped, LagPushesBack, FeedConstants DEF URLs
<1>2. CASE ~HasMore(url, lag)
  <2>1. next = NoURL
    BY <1>2 DEF NextLink
  <2>2. ASSUME NEW k \in Keys, Ahead(url, k) PROVE k \in PageKeys(url, {})
    <3>1. k \in Matching(url, {}) /\ Rank(url, {}, k) >= url.skip
      BY <2>2 DEF Ahead
    <3>2. ~(Rank(url, lag, k) >= url.skip + PageSize)
      BY <1>1, <1>2, <3>1 DEF HasMore
    <3>3. Rank(url, {}, k) \in Nat /\ Rank(url, lag, k) \in Nat /\ Rank(url, {}, k) <= Rank(url, lag, k)
      BY <1>1
    <3>4. Rank(url, {}, k) \in url.skip .. (url.skip + PageSize - 1)
      BY <1>1, <3>1, <3>2, <3>3
    <3> QED
      BY <3>1, <3>4 DEF PageKeys
  <2> QED
    BY <2>1, <2>2
<1>3. CASE HasMore(url, lag)
  <2>1. /\ next.ge = url.ge /\ next.view = url.view /\ next.keys = url.keys
        /\ next.skip = url.skip + PageSize
    BY <1>3 DEF NextLink, URLs
  <2>2. next # NoURL /\ LinkOK(next)
    BY <2>1, FeedConstants DEF LinkOK, NoURL, Keys
  <2>3. /\ Matching(next, {}) = Matching(url, {})
        /\ \A k : Rank(next, {}, k) = Rank(url, {}, k)
    BY <2>1 DEF Matching, Rank
  <2>4. ASSUME NEW k \in Keys
        PROVE  Ahead(next, k) <=> k \in Matching(url, {}) /\ Rank(url, {}, k) >= url.skip + PageSize
    BY <2>1, <2>3 DEF Ahead
  <2>5. ASSUME NEW j \in PageKeys(url, lag), NEW k \in Keys, Ahead(next, k)
        PROVE  feed[j].ts <= feed[k].ts
    <3>1. j \in Matching(url, lag) /\ Rank(url, lag, j) <= url.skip + PageSize - 1
      BY <1>1 DEF PageKeys
    <3>2. k \in Matching(url, lag) /\ Rank(url, {}, k) >= url.skip + PageSize
      BY <1>1, <2>4, <2>5
    <3>3. /\ Rank(url, lag, j) \in Nat /\ Rank(url, lag, k) \in Nat
          /\ Rank(url, {}, k) \in Nat /\ Rank(url, {}, k) <= Rank(url, lag, k)
      BY <1>1
    <3>4. Rank(url, lag, j) < Rank(url, lag, k)
      BY <1>1, <3>1, <3>2, <3>3
    <3> QED
      BY <3>1, <3>2, <3>4, RankOrders
  <2>6. \A j \in PageKeys(url, lag) : Reaches(next, feed[j].ts)
    BY <2>5 DEF Reaches
  <2>7. ASSUME NEW k \in Keys, Ahead(next, k) PROVE Ahead(url, k)
    <3>1. Rank(url, {}, k) \in Nat
      BY <1>1
    <3> QED
      BY <1>1, <2>4, <2>7, <3>1 DEF Ahead
  <2>8. \A t : Reaches(url, t) => Reaches(next, t)
    BY <2>7 DEF Reaches
  <2>9. ASSUME NEW k \in Keys, Ahead(url, k), k \notin PageKeys(url, {}) PROVE Ahead(next, k)
    <3>1. k \in Matching(url, {}) /\ Rank(url, {}, k) >= url.skip /\ Rank(url, {}, k) \in Nat
      BY <1>1, <2>9 DEF Ahead
    <3>2. ~(Rank(url, {}, k) \in url.skip .. (url.skip + PageSize - 1))
      BY <2>9, <3>1 DEF PageKeys
    <3> QED
      BY <1>1, <2>4, <3>1, <3>2
  <2> QED
    BY <2>1, <2>2, <2>6, <2>8, <2>9
<1> QED
  BY <1>2, <1>3

-----------------------------------------------------------------------------
(* The steps.                                                               *)

LEMMA GapInit == OffsetInit => GapInv
<1> SUFFICES ASSUME OffsetInit PROVE GapInv
  OBVIOUS
<1> USE DEF OffsetInit
<1>1. \A k \in Keys : feed[k].ts <= now
  <2> TAKE k \in Keys
  <2>1. now = InitTime /\ (feed[k] = Unlisted \/ feed[k].ts \in 1..InitTime)
    BY DEF Init, FeedInit
  <2> QED
    BY <2>1, FeedConstants DEF Unlisted
<1>2. syncState.wm = 0 /\ ~Resuming
  BY DEF Init, EngineInit, NoState, Resuming
<1>3. Bounded(syncState.wm)
  BY <1>2, FeedConstants DEF Init, FeedInit, Bounded
<1>4. NoGap
  BY <1>2, InitTyped, FeedConstants DEF NoGap, TypeOK, FeedRecord, Times
<1>5. \A p \in Procs : run[p].op = "none"
  BY DEF Init, EngineInit, Idle
<1> QED
  BY <1>1, <1>2, <1>3, <1>4, <1>5 DEF GapInv

-----------------------------------------------------------------------------
(* A change of the feed.                                                    *)

\* What a change of the feed makes of slid.
FeedSlides == slid' = {k \in slid : feed'[k] = feed[k]} \cup SlidByFeed

\* What stays in scope unchanged was in scope, what changed is later than
\* everything known before.
LEMMA FeedChange ==
    ASSUME TypeOK, FeedNext, \A k \in Keys : feed[k].ts <= now
    PROVE  /\ now' \in Times /\ now <= now'
           /\ \A k \in Keys : feed'[k].ts <= now'
           /\ \A k \in Keys : \/ feed'[k] = feed[k]
                              \/ feed'[k].ts = now' /\ now' = now + 1
                              \/ ~feed'[k].listed
<1>0. now \in Nat /\ \A k \in Keys : feed[k].ts \in Nat
  BY FeedConstants DEF TypeOK, FeedRecord, Times
<1>1. ASSUME NEW S \in Batches, Modify(S) \/ Revoke(S)
      PROVE  /\ now' = now + 1
             /\ now' \in Times
             /\ \A k \in Keys : feed'[k] = feed[k] \/ feed'[k].ts = now'
  BY <1>1, FeedConstants DEF Modify, Revoke, TypeOK, Times
<1>2. ASSUME NEW e \in Keys, Expire(e)
      PROVE  /\ now' = now
             /\ now' \in Times
             /\ \A k \in Keys : feed'[k].ts = feed[k].ts
             /\ \A k \in Keys : feed'[k] = feed[k] \/ ~feed'[k].listed
  BY <1>2 DEF Expire, TypeOK, FeedRecord
<1>3. CASE \E S \in Batches : Modify(S) \/ Revoke(S)
  BY <1>0, <1>1, <1>3
<1>4. CASE \E k \in Keys : Expire(k)
  BY <1>0, <1>2, <1>4
<1> QED
  BY <1>3, <1>4 DEF FeedNext

LEMMA ScopeOfChange ==
    ASSUME TypeOK, FeedNext, FeedSlides, \A k \in Keys : feed[k].ts <= now, NEW k \in Keys,
           InScope(k)'
    PROVE  \/ feed'[k] = feed[k] /\ InScope(k)
           \/ feed'[k].ts = now' /\ now' = now + 1 /\ feed'[k].ts >= Since
<1>1. feed'[k] = feed[k] => k \notin slid
  BY DEF FeedSlides, InScope
<1> QED
  BY <1>1, FeedChange DEF InScope, Wanted, Viewable

\* No record comes to lie before one that the change leaves alone.
LEMMA RankFalls ==
    ASSUME TypeOK, FeedNext, \A l \in Keys : feed[l].ts <= now,
           NEW url \in URLs, NEW k \in Keys, feed'[k] = feed[k]
    PROVE  Rank(url, {}, k)' <= Rank(url, {}, k)
<1> DEFINE Before == {j \in Matching(url, {}) : Precedes(At(j), At(k))}
           After == {j \in Matching(url, {})' : Precedes(At(j), At(k))'}
<1>1. \A l \in Keys : feed[l].ts \in Nat /\ feed[l].ts <= now
  BY FeedConstants DEF TypeOK, FeedRecord, Times
<1>2. now \in Nat
  BY FeedConstants DEF TypeOK, Times
<1>3. ASSUME NEW j \in After PROVE j \in Before
  <2>1. j \in Keys /\ feed'[j].listed /\ Precedes(At(j), At(k))'
    BY DEF Matching, URLs
  <2>2. feed'[j].ts < feed[k].ts \/ feed'[j].ts = feed[k].ts
    BY <2>1 DEF Precedes, At
  <2>3. ~(feed'[j].ts = now' /\ now' = now + 1)
    BY <1>1, <1>2, <2>2
  <2>4. feed'[j] = feed[j]
    BY <2>1, <2>3, FeedChange
  <2> QED
    BY <2>1, <2>4 DEF Matching, Precedes, At
<1>4. IsFiniteSet(Keys) /\ Before \subseteq Keys
  BY FS_Interval, FeedConstants DEF Keys, Matching, URLs
<1>5. IsFiniteSet(Before) /\ After \subseteq Before
  BY <1>3, <1>4, FS_Subset
<1>6. Cardinality(After) <= Cardinality(Before)
  BY <1>5, FS_Subset
<1>7. Rank(url, {}, k)' = Cardinality(After) /\ Rank(url, {}, k) = Cardinality(Before)
  BY DEF Rank
<1> QED
  BY <1>6, <1>7

LEMMA UnchangedWasAhead ==
    ASSUME TypeOK, FeedNext, \A l \in Keys : feed[l].ts <= now,
           NEW url \in URLs, NEW k \in Keys, feed'[k] = feed[k], Ahead(url, k)'
    PROVE  Ahead(url, k)
<1>1. k \in Matching(url, {}) /\ Rank(url, {}, k)' >= url.skip
  BY DEF Ahead, Matching
<1>2. Rank(url, {}, k)' \in Nat /\ Rank(url, {}, k) \in Nat /\ url.skip \in Nat
  <2> DEFINE After == {j \in Matching(url, {})' : Precedes(At(j), At(k))'}
  <2>1. IsFiniteSet(Keys)
    BY FS_Interval, FeedConstants DEF Keys
  <2>2. After \subseteq Keys
    BY DEF Matching, URLs
  <2>3. Cardinality(After) \in Nat
    BY <2>1, <2>2, FS_Subset, FS_CardinalityType
  <2>4. Rank(url, {}, k)' = Cardinality(After)
    BY DEF Rank
  <2> QED
    BY <2>3, <2>4, RankTyped DEF URLs
<1>3. Rank(url, {}, k)' <= Rank(url, {}, k)
  BY RankFalls
<1> QED
  BY <1>1, <1>2, <1>3 DEF Ahead

LEMMA LaterBound ==
    ASSUME TypeOK, NEW t \in Times, Bounded(t), now <= now', now' \in Times
    PROVE  /\ Bounded(t)'
           /\ \A k \in Keys : now' = now + 1 /\ feed'[k].ts = now' /\ feed'[k].ts >= Since
                 => feed'[k].ts >= t
BY FeedConstants, EngineConstants DEF TypeOK, Times, Bounded

\* A link in use keeps what is ahead of it, and has ahead of it what changes
\* and passes its filter, but for what slides.
LEMMA LinkFollows ==
    ASSUME TypeOK, FeedNext, FeedSlides, \A l \in Keys : feed[l].ts <= now,
           NEW url \in URLs, url \in LinksInUse, LinkOK(url), NEW k \in Keys,
           k \notin slid', feed'[k].listed, feed'[k].ts >= Since, url.view => feed'[k].view
    PROVE  /\ feed'[k] = feed[k] /\ Ahead(url, k) => Ahead(url, k)'
           /\ feed'[k].ts = now' /\ now' = now + 1 => Ahead(url, k)'
<1>1. now' \in Times /\ now <= now' /\ now \in Nat /\ feed[k].ts \in Nat /\ feed[k].ts <= now
  BY FeedChange, FeedConstants DEF TypeOK, Times, FeedRecord
<1>2. k \in Matching(url, {})' /\ (feed'[k] = feed[k] => Ahead(url, k)) => Ahead(url, k)'
  BY DEF FeedSlides, SlidByFeed
<1>3. feed'[k] = feed[k] /\ Ahead(url, k) => k \in Matching(url, {})'
  BY DEF Ahead, Matching
<1>4. ASSUME feed'[k].ts = now', now' = now + 1 PROVE k \in Matching(url, {})' /\ feed'[k] # feed[k]
  <2>1. feed'[k].ts >= url.ge
    BY <1>1, <1>4, LaterBound DEF LinkOK, URLs
  <2> QED
    BY <1>1, <1>4, <2>1 DEF Matching, LinkOK
<1> QED
  BY <1>2, <1>3, <1>4

LEMMA LinkGoesOn ==
    ASSUME TypeOK, FeedNext, FeedSlides, \A l \in Keys : feed[l].ts <= now,
           NEW url \in URLs, url \in LinksInUse, LinkOK(url), NEW k \in Keys, InScope(k)'
    PROVE  /\ feed'[k] = feed[k] /\ Ahead(url, k) => Ahead(url, k)'
           /\ feed'[k].ts = now' /\ now' = now + 1 => Ahead(url, k)'
BY LinkFollows DEF InScope, Wanted, Viewable

LEMMA LinkKeepsOK ==
    ASSUME TypeOK, NEW url \in URLs, LinkOK(url), now <= now', now' \in Times
    PROVE  LinkOK(url)'
<1>1. Bounded(url.ge)'
  BY LaterBound DEF LinkOK, URLs
<1> QED
  BY <1>1 DEF LinkOK

LEMMA LinkStillReaches ==
    ASSUME TypeOK, FeedNext, \A l \in Keys : feed[l].ts <= now,
           NEW url \in URLs, NEW t \in Times, Bounded(t), Reaches(url, t)
    PROVE  Reaches(url, t)'
<1> SUFFICES ASSUME NEW k \in Keys, Ahead(url, k)', feed'[k].ts >= Since
             PROVE  t <= feed'[k].ts
  BY DEF Reaches
<1>1. feed'[k].listed
  BY DEF Ahead, Matching
<1>2. CASE feed'[k] = feed[k]
  BY <1>2, UnchangedWasAhead DEF Reaches
<1>3. CASE feed'[k].ts = now' /\ now' = now + 1
  BY <1>3, FeedChange, LaterBound
<1> QED
  BY <1>1, <1>2, <1>3, FeedChange

\* Where the feed has k after a change, the import wants it, or a sync has to
\* learn that it is revoked.
Passes(r, k) ==
    /\ k \notin slid
    /\ feed[k].listed
    /\ feed[k].ts >= Since
    /\ feed[k].view \/ (~Resuming /\ ~r.next.view)

\* What changes while the page is in hand overtakes the run.
LEMMA ChangedIsOvertaken ==
    ASSUME TypeOK, GapInv, FeedNext, FeedSlides, UNCHANGED syncState,
           NEW r \in Runs, r.next \in LinksInUse,
           Bounded(r.wm), r.started <= now, NextInv(r), PageInv(r),
           NEW k \in Keys, Passes(r, k)', feed'[k].ts = now', now' = now + 1
    PROVE  Overtaken(r, k)'
<1> USE DEF Resuming
<1>1. syncState.wm \in Times /\ syncState.inProgress \in URLs
  BY DEF TypeOK, SyncStates
<1>2. /\ r.wm \in Times /\ r.started \in Times /\ r.next \in URLs
      /\ now' \in Times /\ now <= now' /\ \A l \in Keys : feed[l].ts <= now
  BY FeedChange DEF Runs, GapInv
<1>3. r.page \in Pages /\ \A j \in DOMAIN r.page : r.page[j].ts \in Times /\ j \in Keys
  BY DEF Runs, Pages, FeedRecord
<1>4. feed'[k].ts >= syncState.wm /\ feed'[k].ts >= r.wm
  BY <1>1, <1>2, LaterBound DEF GapInv, Passes
<1>5. feed'[k].ts >= r.started
  BY <1>2, FeedConstants DEF TypeOK, Times
<1>6. Resuming => Ahead(syncState.inProgress, k)'
  BY <1>1, <1>2, LinkFollows DEF GapInv, LinksInUse, Passes
<1>7. r.next # NoURL => Ahead(r.next, k)'
  BY <1>2, LinkFollows DEF NextInv, Passes
<1>8. \A j \in DOMAIN r.page : feed'[k].ts > r.page[j].ts
  BY <1>3, FeedConstants DEF PageInv, TypeOK, Times
<1> QED
  BY <1>4, <1>5, <1>6, <1>7, <1>8 DEF Overtaken

LEMMA StillOvertaken ==
    ASSUME TypeOK, GapInv, FeedNext, FeedSlides, UNCHANGED syncState,
           NEW r \in Runs, r.next \in LinksInUse, NextInv(r),
           NEW k \in Keys, Passes(r, k)', feed'[k] = feed[k], Overtaken(r, k)
    PROVE  Overtaken(r, k)'
<1> USE DEF Resuming
<1>1. syncState.inProgress \in URLs /\ r.next \in URLs /\ \A l \in Keys : feed[l].ts <= now
  BY DEF TypeOK, SyncStates, Runs, GapInv
<1>2. Resuming => Ahead(syncState.inProgress, k)'
  BY <1>1, LinkFollows DEF GapInv, LinksInUse, Overtaken, Passes
<1>3. r.next # NoURL => Ahead(r.next, k)'
  BY <1>1, LinkFollows DEF NextInv, Overtaken, Passes
<1> QED
  BY <1>2, <1>3 DEF Overtaken

LEMMA FeedStepGap ==
    ASSUME TypeOK, GapInv, FeedNext, FeedSlides, UNCHANGED <<rows, syncState, run, faults>>
    PROVE  GapInv'
<1> USE DEF Resuming
<1>1. /\ now' \in Times /\ now <= now'
      /\ \A k \in Keys : feed'[k].ts <= now' /\ feed[k].ts <= now
      /\ \A k \in Keys : InScope(k)' =>
           \/ feed'[k] = feed[k] /\ InScope(k)
           \/ feed'[k].ts = now' /\ now' = now + 1 /\ feed'[k].ts >= Since
  BY FeedChange, ScopeOfChange DEF GapInv
<1>2. syncState.wm \in Times /\ syncState.inProgress \in URLs /\ syncState.inProgress \in LinksInUse
  BY DEF TypeOK, SyncStates, LinksInUse
<1>3. Bounded(syncState.wm)'
  BY <1>1, <1>2, LaterBound DEF GapInv, Bounded
<1>4. ASSUME NEW k \in Keys, InScope(k)' PROVE feed'[k].ts < syncState.wm => Stored(k)'
  <2>1. CASE feed'[k] = feed[k] /\ InScope(k)
    BY <2>1 DEF GapInv, NoGap, InScope, Wanted, Stored
  <2>2. CASE feed'[k].ts = now' /\ now' = now + 1 /\ feed'[k].ts >= Since
    <3>1. feed'[k].ts >= syncState.wm
      BY <1>1, <1>2, <2>2, LaterBound DEF GapInv
    <3> QED
      BY <1>1, <1>2, <2>2, <3>1, FeedConstants DEF Times
  <2> QED
    BY <1>1, <1>4, <2>1, <2>2
<1>5. NoGap'
  BY <1>4 DEF NoGap, InScope, Wanted, Stored
<1>6. ASSUME NEW url \in URLs, url \in LinksInUse, LinkOK(url)
      PROVE  LinkOK(url)' /\ (Covers(url) => Covers(url)')
  <2>1. LinkOK(url)'
    BY <1>1, <1>6, LinkKeepsOK
  <2>2. ASSUME Covers(url), NEW k \in Keys, InScope(k)' PROVE Stored(k)' \/ Ahead(url, k)'
    <3>1. CASE feed'[k] = feed[k] /\ InScope(k)
      <4>1. Ahead(url, k) => Ahead(url, k)'
        BY <1>1, <1>6, <2>2, <3>1, LinkGoesOn
      <4> QED
        BY <2>2, <3>1, <4>1 DEF Covers, Stored
    <3>2. CASE feed'[k].ts = now' /\ now' = now + 1
      BY <1>1, <1>6, <2>2, <3>2, LinkGoesOn
    <3> QED
      BY <1>1, <2>2, <3>1, <3>2
  <2> QED
    BY <2>1, <2>2 DEF Covers
<1>61. ASSUME NEW url \in URLs, NEW t \in Times, Bounded(t), Reaches(url, t)
       PROVE  Reaches(url, t)'
  BY <1>1, <1>61, LinkStillReaches
<1>7. Resuming' => /\ LinkOK(syncState.inProgress)'
                   /\ Covers(syncState.inProgress)'
                   /\ Reaches(syncState.inProgress, syncState.wm)'
  <2>1. PICK url : url = syncState.inProgress
    OBVIOUS
  <2>2. PICK t : t = syncState.wm
    OBVIOUS
  <2>3. Resuming => LinkOK(url) /\ Covers(url) /\ Reaches(url, t)
    BY <2>1, <2>2 DEF GapInv
  <2>4. Resuming => LinkOK(url)' /\ Covers(url)' /\ Reaches(url, t)'
    BY <1>2, <1>6, <1>61, <2>1, <2>2, <2>3 DEF GapInv
  <2> QED
    BY <2>1, <2>2, <2>4
<1>8. ASSUME NEW p \in Procs, run[p].op \in {"backfill", "sync"}, PagingInv(run[p])
      PROVE  PagingInv(run[p])'
  <2>1. PICK r : r = run[p]
    OBVIOUS
  <2>2. r \in Runs /\ r.wm \in Times /\ r.started \in Times /\ r.url \in URLs /\ r.next \in URLs
    BY <2>1 DEF TypeOK, Runs
  <2>3. r.page \in Pages /\ \A j \in DOMAIN r.page : r.page[j].ts \in Times /\ j \in Keys
    BY <2>2 DEF Runs, Pages, FeedRecord
  <2>4. PagingInv(r) /\ Bounded(r.wm) /\ r.started <= now
    BY <1>8, <2>1 DEF PagingInv
  <2>5. /\ r.pc = "fetch" => r.url \in LinksInUse
        /\ r.pc \in {"upsert", "delete", "persist"} => r.next \in LinksInUse
    BY <1>8, <2>1 DEF LinksInUse, LinkOf
  <2>6. Bounded(r.wm)' /\ r.started <= now'
    BY <1>1, <2>2, <2>4, LaterBound, FeedConstants DEF TypeOK, Times
  <2>7. r.pc = "fetch" => LinkOK(r.url)' /\ Covers(r.url)' /\ Reaches(r.url, r.wm)'
    BY <1>6, <1>61, <2>2, <2>4, <2>5 DEF PagingInv
  <2>8. r.pc \in {"upsert", "delete", "persist"} => NextInv(r) /\ PageInv(r)
    BY <2>4 DEF PagingInv
  <2>9. ASSUME NextInv(r), PageInv(r), r.next \in LinksInUse PROVE NextInv(r)'
    <3>1. \A j \in DOMAIN r.page : Bounded(r.page[j].ts)
      BY <2>9 DEF PageInv, Bounded
    <3>2. r.next # NoURL => LinkOK(r.next)'
      BY <1>6, <2>2, <2>9 DEF NextInv
    <3>3. r.next # NoURL => Reaches(r.next, r.wm)'
      BY <1>61, <2>2, <2>4, <2>9 DEF NextInv
    <3>4. ASSUME r.next # NoURL, NEW j \in DOMAIN r.page PROVE Reaches(r.next, r.page[j].ts)'
      BY <1>61, <2>2, <2>3, <2>9, <3>1, <3>4 DEF NextInv
    <3> QED
      BY <3>2, <3>3, <3>4 DEF NextInv
  <2>10. ASSUME NEW k \in Keys, InScope(k)', feed'[k].ts = now', now' = now + 1,
                NextInv(r), PageInv(r), r.next \in LinksInUse
         PROVE  Overtaken(r, k)'
    BY <2>2, <2>4, <2>10, ChangedIsOvertaken DEF Passes, InScope, Wanted, Viewable
  <2>11. ASSUME NEW k \in Keys, InScope(k)', feed'[k] = feed[k],
                NextInv(r), r.next \in LinksInUse, Overtaken(r, k)
         PROVE  Overtaken(r, k)'
    BY <2>2, <2>11, StillOvertaken DEF Passes, InScope, Wanted, Viewable
  <2>12. ASSUME NextInv(r), PageInv(r), r.next \in LinksInUse PROVE PageInv(r)'
    <3>1. \A j \in DOMAIN r.page : r.page[j].ts <= now'
      BY <1>1, <2>3, <2>12, FeedConstants DEF PageInv, TypeOK, Times
    <3>2. ASSUME NEW k \in DOMAIN r.page, InScope(k)'
          PROVE  r.page[k] = feed'[k] \/ Overtaken(r, k)'
      BY <1>1, <2>3, <2>10, <2>11, <2>12, <3>2 DEF PageInv
    <3> QED
      BY <3>1, <3>2 DEF PageInv
  <2>13. ASSUME NEW k \in Keys, InScope(k)', NextInv(r), PageInv(r), r.next \in LinksInUse
         PROVE  /\ InScope(k) /\ (Stored(k) \/ Beyond(r, k)) => (Stored(k) \/ Beyond(r, k))'
                /\ InScope(k) /\ Delivered(r, k) => (Delivered(r, k) \/ Beyond(r, k))'
                /\ ~InScope(k) => Beyond(r, k)'
    <3>1. CASE feed'[k] = feed[k] /\ InScope(k)
      <4>1. Stored(k) => Stored(k)'
        BY <3>1 DEF Stored
      <4>2. Delivered(r, k) => Delivered(r, k)'
        BY <3>1 DEF Delivered
      <4>3. r.next # NoURL /\ Ahead(r.next, k) => Ahead(r.next, k)'
        BY <1>1, <2>2, <2>13, <3>1, LinkGoesOn DEF NextInv
      <4>4. Overtaken(r, k) => Overtaken(r, k)'
        BY <2>11, <2>13, <3>1
      <4> QED
        BY <3>1, <4>1, <4>2, <4>3, <4>4 DEF Beyond
    <3>2. CASE feed'[k].ts = now' /\ now' = now + 1
      <4>1. Overtaken(r, k)'
        BY <2>10, <2>13, <3>2
      <4> QED
        BY <4>1 DEF Beyond
    <3> QED
      BY <1>1, <2>13, <3>1, <3>2
  <2>14. r.pc = "complete" =>
            \A k \in Keys : InScope(k)' =>
               Stored(k)' \/ (feed'[k].ts >= r.wm /\ feed'[k].ts >= r.started)
    <3> SUFFICES ASSUME r.pc = "complete", NEW k \in Keys, InScope(k)'
                 PROVE  Stored(k)' \/ (feed'[k].ts >= r.wm /\ feed'[k].ts >= r.started)
      OBVIOUS
    <3>1. CASE feed'[k] = feed[k] /\ InScope(k)
      BY <2>4, <3>1 DEF PagingInv, Stored
    <3>2. CASE feed'[k].ts = now' /\ now' = now + 1 /\ feed'[k].ts >= Since
      BY <1>1, <2>2, <2>4, <3>2, LaterBound, FeedConstants DEF TypeOK, Times
    <3> QED
      BY <1>1, <3>1, <3>2
  <2>15. r.pc = "upsert" =>
           /\ NextInv(r)'
           /\ PageInv(r)'
           /\ \A k \in Keys : InScope(k)' => (Stored(k) \/ Delivered(r, k) \/ Beyond(r, k))'
    BY <2>4, <2>5, <2>8, <2>9, <2>12, <2>13 DEF PagingInv
  <2>16. r.pc \in {"delete", "persist"} =>
           /\ NextInv(r)'
           /\ PageInv(r)'
           /\ \A k \in Keys : InScope(k)' => (Stored(k) \/ Beyond(r, k))'
    BY <2>4, <2>5, <2>8, <2>9, <2>12, <2>13 DEF PagingInv
  <2>17. PagingInv(r)'
    BY <2>6, <2>7, <2>14, <2>15, <2>16 DEF PagingInv
  <2> QED
    BY <2>1, <2>17
<1>9. ASSUME NEW p \in Procs, run[p].op = "reconcile", SweepingInv(run[p])
      PROVE  SweepingInv(run[p])'
  <2>1. PICK r : r = run[p]
    OBVIOUS
  <2>2. r.url \in URLs /\ r.purge \subseteq Keys /\ DOMAIN r.page \subseteq Keys
    BY <2>1 DEF TypeOK, Runs, Pages
  <2>3. SweepingInv(r) /\ (r.pc = "sweep" => r.url \in LinksInUse)
    BY <1>9, <2>1 DEF LinksInUse, LinkOf
  <2>4. ASSUME NEW k \in Keys
        PROVE  /\ feed'[k] = feed[k] /\ Safe(k) => Safe(k)'
               /\ now' = now + 1 /\ feed'[k].ts = now' /\ feed'[k].ts >= Since => Safe(k)'
    BY <1>1, <1>2, LaterBound DEF GapInv, Safe
  <2>5. ASSUME r.pc = "sweep", NEW k \in Keys, InScope(k)'
        PROVE  k \in DOMAIN r.remote \/ Ahead(r.url, k)'
    <3>1. LinkOK(r.url)
      BY <2>3, <2>5 DEF SweepingInv
    <3>2. CASE feed'[k] = feed[k] /\ InScope(k)
      <4>1. Ahead(r.url, k) => Ahead(r.url, k)'
        BY <1>1, <2>2, <2>3, <2>5, <3>1, <3>2, LinkGoesOn
      <4> QED
        BY <2>3, <2>5, <3>2, <4>1 DEF SweepingInv
    <3>3. CASE feed'[k].ts = now' /\ now' = now + 1
      BY <1>1, <2>2, <2>3, <2>5, <3>1, <3>3, LinkGoesOn
    <3> QED
      BY <1>1, <2>5, <3>2, <3>3
  <2>6. r.pc = "sweep" => LinkOK(r.url)'
    BY <1>6, <2>2, <2>3 DEF SweepingInv
  <2>7. ASSUME NEW k \in Keys, InScope(k)'
        PROVE  (feed'[k] = feed[k] /\ InScope(k) /\ (Safe(k) => Safe(k)')) \/ Safe(k)'
    BY <1>1, <2>4, <2>7
  <2>8. r.pc = "diff" => \A k \in Keys : InScope(k)' => k \in DOMAIN r.remote \/ Safe(k)'
    BY <2>3, <2>7 DEF SweepingInv
  <2>9. \A k \in r.purge : InScope(k)' => Safe(k)'
    BY <2>2, <2>3, <2>7 DEF SweepingInv
  <2>10. r.pc \in {"upsert", "delete"} =>
          \A k \in DOMAIN r.page : InScope(k)' => r.page[k] = feed'[k] \/ Safe(k)'
    BY <2>2, <2>3, <2>7 DEF SweepingInv
  <2>11. SweepingInv(r)'
    BY <2>3, <2>5, <2>6, <2>8, <2>9, <2>10 DEF SweepingInv
  <2> QED
    BY <2>1, <2>11
<1> QED
  BY <1>1, <1>3, <1>5, <1>7, <1>8, <1>9 DEF GapInv

-----------------------------------------------------------------------------
(* The steps of a run.                                                      *)

\* What a step of the run makes of slid.
Slides(p) == slid' = {k \in slid \cup Displaced(p) : ~(AllIdle /\ Settled(k))'}

\* A record comes into scope only when a run ends with it stored.
LEMMA ScopeShrinks ==
    ASSUME TypeOK, NEW p, Procs = {p}, NEW r, Becomes(p, r), UNCHANGED feed,
           Slides(p) \/ UNCHANGED slid, NEW k \in Keys, InScope(k)'
    PROVE  /\ InScope(k) \/ Stored(k)'
           /\ r.op # "none" => InScope(k)
<1>1. run'[p] = r
  BY DEF Becomes, TypeOK
<1>2. Wanted(k) /\ k \notin slid'
  BY DEF InScope, Wanted, Viewable
<1>3. CASE k \notin slid
  BY <1>2, <1>3 DEF InScope
<1>4. CASE k \in slid
  <2>1. (AllIdle /\ Settled(k))'
    BY <1>2, <1>4 DEF Slides
  <2>2. r = Idle
    BY <1>1, <2>1 DEF AllIdle
  <2> QED
    BY <1>2, <2>1, <2>2 DEF Settled, Stored, Wanted, Viewable, Idle
<1> QED
  BY <1>3, <1>4

LEMMA PagingStays ==
    ASSUME UNCHANGED <<feed, now, rows, syncState>>, NEW r, PagingInv(r),
           \A k \in Keys : InScope(k)' => InScope(k),
           \A k \in DOMAIN r.page : InScope(k)' => InScope(k)
    PROVE  PagingInv(r)'
<1>1. \A url, k : Ahead(url, k)' <=> Ahead(url, k)
  BY AheadKept
<1> QED
  BY <1>1
     DEF PagingInv, Bounded, LinkOK, Covers, Reaches, NextInv, PageInv, Delivered, Beyond, Overtaken,
         Stored, Resuming

LEMMA SweepingStays ==
    ASSUME UNCHANGED <<feed, now, rows, syncState>>, NEW r, SweepingInv(r),
           \A k \in Keys : InScope(k)' => InScope(k),
           r.purge \subseteq Keys, DOMAIN r.page \subseteq Keys
    PROVE  SweepingInv(r)'
<1>1. \A url, k : Ahead(url, k)' <=> Ahead(url, k)
  BY AheadKept
<1> QED
  BY <1>1 DEF SweepingInv, Bounded, LinkOK, Safe, Resuming

\* A step of the only process: a current row it takes away was no longer
\* promised by the cursor.
LEMMA GapRows ==
    ASSUME TypeOK, GapInv, NEW p, Procs = {p}, NEW r, Becomes(p, r),
           Slides(p) \/ UNCHANGED slid,
           UNCHANGED <<feed, now, syncState>>,
           \A k \in Keys : InScope(k) /\ Stored(k) =>
              \/ rows'[k] = feed[k].ts
              \/ Safe(k) /\ (Resuming => Ahead(syncState.inProgress, k)),
           r.op \in {"backfill", "sync"} => PagingInv(r)',
           r.op = "reconcile" => SweepingInv(r)'
    PROVE  GapInv'
<1>1. run'[p] = r
  BY DEF Becomes, TypeOK
<1>2. /\ run'[p].op \in {"backfill", "sync"} => PagingInv(run[p])'
      /\ run'[p].op = "reconcile" => SweepingInv(run[p])'
  BY <1>1
<1>3. Bounded(syncState.wm)' /\ \A k \in Keys : feed'[k].ts <= now'
  BY DEF GapInv, Bounded
<1>4. syncState.wm \in Nat /\ \A k \in Keys : feed[k].ts \in Nat
  BY FeedConstants DEF TypeOK, SyncStates, FeedRecord, Times
<1>5. \A k \in Keys : InScope(k)' => InScope(k) \/ Stored(k)'
  BY ScopeShrinks
<1>6. \A url, k : Ahead(url, k)' <=> Ahead(url, k)
  BY AheadKept
<1>7. ASSUME NEW k \in Keys, InScope(k)', feed[k].ts < syncState.wm PROVE Stored(k)'
  BY <1>4, <1>5, <1>7 DEF GapInv, NoGap, InScope, Wanted, Stored, Safe
<1>8. NoGap'
  BY <1>7 DEF NoGap, InScope, Wanted, Stored
<1>9. Resuming' => /\ LinkOK(syncState.inProgress)'
                   /\ Covers(syncState.inProgress)'
                   /\ Reaches(syncState.inProgress, syncState.wm)'
  <2> SUFFICES ASSUME Resuming
               PROVE  /\ LinkOK(syncState.inProgress)'
                      /\ Covers(syncState.inProgress)'
                      /\ Reaches(syncState.inProgress, syncState.wm)'
    BY DEF Resuming
  <2>1. LinkOK(syncState.inProgress)' /\ Reaches(syncState.inProgress, syncState.wm)'
    BY <1>6 DEF GapInv, LinkOK, Reaches, Bounded
  <2>2. Covers(syncState.inProgress)'
    BY <1>5, <1>6 DEF GapInv, Covers, Stored
  <2> QED
    BY <2>1, <2>2
<1> QED
  BY <1>2, <1>3, <1>8, <1>9 DEF GapInv

\* A step that changes the run and nothing else.
LEMMA GapMoves ==
    ASSUME TypeOK, GapInv, NEW p, Procs = {p}, NEW r, Becomes(p, r),
           Slides(p) \/ UNCHANGED slid,
           UNCHANGED <<feed, now, rows, syncState>>,
           r.op \in {"backfill", "sync"} => PagingInv(r)',
           r.op = "reconcile" => SweepingInv(r)'
    PROVE  GapInv'
BY GapRows DEF Stored

LEMMA GapKept ==
    ASSUME TypeOK, TypeOK', GapInv, NEW p, Procs = {p}, NEW r, Becomes(p, r),
           Slides(p) \/ UNCHANGED slid,
           UNCHANGED <<feed, now, rows, syncState>>,
           r.op \in {"backfill", "sync"} => PagingInv(r),
           r.op = "reconcile" => SweepingInv(r)
    PROVE  GapInv'
<1>1. DOMAIN r.page \subseteq Keys /\ r.purge \subseteq Keys
  <2>1. r \in Runs
    BY DEF Becomes, TypeOK
  <2> QED
    BY <2>1 DEF Runs, Pages
<1>2. r.op # "none" => \A k \in Keys : InScope(k)' => InScope(k)
  BY ScopeShrinks
<1>3. r.op \in {"backfill", "sync"} => PagingInv(r)'
  BY <1>1, <1>2, PagingStays
<1>4. r.op = "reconcile" => SweepingInv(r)'
  BY <1>1, <1>2, SweepingStays
<1> QED
  BY <1>3, <1>4, GapMoves

LEMMA GapEnds ==
    ASSUME TypeOK, GapInv, NEW p, Procs = {p}, Becomes(p, Idle), Slides(p),
           UNCHANGED <<feed, now, rows, syncState>>
    PROVE  GapInv'
BY EmptyValuesTyped, GapMoves DEF Idle

LEMMA QueryLinkOK ==
    ASSUME TypeOK, NEW ge \in Times, Bounded(ge), NEW view
    PROVE  LinkOK(Query(ge, view, Keys))
<1>1. Keys # {}
  BY FeedConstants DEF Keys
<1> QED
  BY <1>1 DEF LinkOK, Query, NoURL

\* A query from t on reaches t.
LEMMA QueryReaches ==
    ASSUME NEW t \in Times, NEW view \in BOOLEAN
    PROVE  Reaches(Query(t, view, Keys), t)
BY AheadOfQuery, FeedConstants DEF Reaches, Times

\* A run that starts on, or falls back to, a query that covers.
LEMMA PagingStarts ==
    ASSUME TypeOK, NEW r \in Runs, r.pc = "fetch", Bounded(r.wm), r.started <= now,
           LinkOK(r.url), Covers(r.url), Reaches(r.url, r.wm)
    PROVE  PagingInv(r)
BY DEF PagingInv

\* What has its place on the page but is not there has slid.
LEMMA PageHasScope ==
    ASSUME TypeOK, NEW p, Procs = {p}, NEW r, Becomes(p, r), r.op # "none", Slides(p), Answered(p),
           NEW k \in Keys, k \notin slid', k \in PageKeys(run[p].url, {})
    PROVE  k \in Held(r)
<1>1. run'[p] = r
  BY DEF Becomes, TypeOK
<1>2. ~AllIdle'
  BY <1>1 DEF AllIdle, Idle
<1>3. k \notin Displaced(p)
  BY <1>2 DEF Slides
<1> QED
  BY <1>1, <1>3 DEF Displaced

LEMMA PagingFetch ==
    ASSUME TypeOK, GapInv, NEW p, Procs = {p}, Slides(p),
           run[p].op \in {"backfill", "sync"}, run[p].pc = "fetch", FetchPage(p),
           UNCHANGED <<feed, now, rows, syncState>>
    PROVE  GapInv'
<1>1. PICK o : o = run[p]
  OBVIOUS
<1>2. o \in Runs /\ o.url \in URLs /\ o.wm \in Times /\ PagingInv(o)
  BY <1>1 DEF TypeOK, Runs, GapInv
<1>3. PICK lag \in Lags :
         Becomes(p, [o EXCEPT !.pc = "upsert", !.page = PageOf(o.url, lag),
                              !.next = NextLink(o.url, lag)])
  BY <1>1 DEF FetchPage
<1>4. PICK next : next = NextLink(o.url, lag)
  OBVIOUS
<1>5. PICK r : r = [o EXCEPT !.pc = "upsert", !.page = PageOf(o.url, lag), !.next = next]
  OBVIOUS
<1>6. /\ r.op = o.op /\ r.pc = "upsert" /\ r.wm = o.wm /\ r.started = o.started
      /\ r.next = next /\ DOMAIN r.page = PageKeys(o.url, lag)
      /\ \A k \in PageKeys(o.url, lag) : r.page[k] = feed[k]
      /\ Becomes(p, r)
  BY <1>2, <1>3, <1>4, <1>5 DEF Runs, PageOf
<1>7. LinkOK(o.url) /\ Covers(o.url) /\ Reaches(o.url, o.wm) /\ Bounded(o.wm) /\ o.started <= now
  BY <1>1, <1>2 DEF PagingInv
<1>8. PageKeys(o.url, lag) \subseteq Keys
  BY <1>2 DEF PageKeys, Matching, URLs
<1>9. NextInv(r)
  BY <1>2, <1>4, <1>6, <1>7, FetchDelivers DEF NextInv
<1>10. PageInv(r)
  BY <1>6, <1>8 DEF PageInv, GapInv
<1>11. ASSUME NEW k \in Keys, InScope(k)'
       PROVE  Stored(k) \/ Delivered(r, k) \/ Beyond(r, k)
  <2>1. InScope(k) /\ Answered(p) /\ r.op # "none"
    <3>1. run'[p] = r
      BY <1>6 DEF Becomes, TypeOK
    <3> QED
      BY <1>1, <1>6, <1>11, <3>1, ScopeShrinks DEF Answered
  <2>2. CASE Ahead(o.url, k)
    <3>1. k \in PageKeys(o.url, {}) \/ (next # NoURL /\ Ahead(next, k))
      BY <1>2, <1>4, <1>7, <2>2, FetchDelivers
    <3>2. k \in PageKeys(o.url, {}) => k \in DOMAIN r.page
      BY <1>1, <1>6, <1>11, <2>1, PageHasScope DEF Held, InScope
    <3> QED
      BY <1>6, <3>1, <3>2 DEF Delivered, Beyond
  <2> QED
    BY <1>7, <2>1, <2>2 DEF Covers
<1>12. \A k \in Keys : InScope(k)' => InScope(k)
  BY <1>1, <1>6, ScopeShrinks
<1>13. PagingInv(r)'
  <2>1. \A url, k : Ahead(url, k)' <=> Ahead(url, k)
    BY AheadKept
  <2>2. NextInv(r)' /\ PageInv(r)'
    BY <1>6, <1>8, <1>9, <1>10, <1>12, <2>1
       DEF NextInv, PageInv, LinkOK, Bounded, Reaches, Overtaken, Resuming
  <2>3. \A k \in Keys : InScope(k)' => (Stored(k) \/ Delivered(r, k) \/ Beyond(r, k))'
    BY <1>11, <2>1 DEF Stored, Delivered, Beyond, Overtaken, Resuming
  <2> QED
    BY <1>6, <1>7, <2>2, <2>3 DEF PagingInv, Bounded
<1>14. r.op # "reconcile"
  BY <1>1, <1>6
<1> QED
  BY <1>6, <1>13, <1>14, GapMoves

\* The rows of a page, or of its revoked keys, are written.
LEMMA PagingStore ==
    ASSUME TypeOK, GapInv, NEW p, Procs = {p}, Slides(p), run[p].op \in {"backfill", "sync"},
           \/ run[p].pc = "upsert" /\ UpsertPage(p, "persist")
           \/ run[p].pc = "delete" /\ DeletePage(p, "persist"),
           UNCHANGED <<feed, now, syncState>>
    PROVE  GapInv'
<1>1. PICK o : o = run[p]
  OBVIOUS
<1>2. PICK r : Becomes(p, r) /\ \E pc \in {"delete", "persist"} : r = [o EXCEPT !.pc = pc]
  BY <1>1 DEF UpsertPage, DeletePage
<1>3. o \in Runs
  BY <1>1 DEF TypeOK
<1>4. /\ r.op = o.op /\ r.pc \in {"delete", "persist"} /\ r.wm = o.wm
      /\ r.started = o.started /\ r.next = o.next /\ r.page = o.page
  BY <1>2, <1>3 DEF Runs
<1>5. PagingInv(o)
  BY <1>1 DEF GapInv
<1>6. NextInv(r) /\ PageInv(r) /\ Bounded(r.wm) /\ r.started <= now
  BY <1>1, <1>4, <1>5 DEF PagingInv, NextInv, PageInv, Overtaken
<1>7. \A k : Overtaken(r, k) => Safe(k) /\ (Resuming => Ahead(syncState.inProgress, k))
  BY DEF Overtaken, Safe
<1>8. ASSUME NEW k \in Keys, InScope(k)
      PROVE  \/ rows'[k] = feed[k].ts
             \/ Overtaken(r, k)
             \/ rows'[k] = rows[k] /\ ~Delivered(r, k)
             \/ rows'[k] = rows[k] /\ o.pc = "delete"
  <2>1. CASE o.pc = "upsert" /\ k \in DOMAIN o.page /\ o.page[k].view
    <3>1. rows'[k] = o.page[k].ts
      BY <1>1, <2>1 DEF UpsertPage, DeletePage, Upserted
    <3> QED
      BY <1>4, <1>6, <1>8, <2>1, <3>1 DEF PageInv
  <2>2. CASE o.pc = "upsert" /\ k \in DOMAIN o.page /\ ~o.page[k].view
    BY <1>4, <1>6, <1>8, <2>2 DEF PageInv, InScope, Wanted, Viewable
  <2>3. CASE o.pc = "upsert" /\ k \notin DOMAIN o.page
    BY <1>1, <1>4, <2>3 DEF UpsertPage, DeletePage, Upserted, Delivered
  <2>4. CASE o.pc = "delete" /\ k \in RevokedKeys(o.page)
    BY <1>4, <1>6, <1>8, <2>4 DEF PageInv, InScope, Wanted, Viewable, RevokedKeys
  <2>5. CASE o.pc = "delete" /\ k \notin RevokedKeys(o.page)
    BY <1>1, <2>5 DEF UpsertPage, DeletePage, Deleted
  <2> QED
    BY <1>1, <2>1, <2>2, <2>3, <2>4, <2>5
<1>9. ASSUME NEW k \in Keys, InScope(k)
      PROVE  Stored(k)' \/ Beyond(r, k)
  <2>1. o.pc = "upsert" => Stored(k) \/ Delivered(r, k) \/ Beyond(r, k)
    BY <1>4, <1>5, <1>9 DEF PagingInv, Delivered, Beyond, Overtaken
  <2>2. o.pc = "delete" => Stored(k) \/ Beyond(r, k)
    BY <1>4, <1>5, <1>9 DEF PagingInv, Beyond, Overtaken
  <2>3. /\ rows'[k] = feed[k].ts => Stored(k)'
        /\ rows'[k] = rows[k] /\ Stored(k) => Stored(k)'
    BY DEF Stored
  <2>4. Overtaken(r, k) => Beyond(r, k)
    BY DEF Beyond
  <2> QED
    BY <1>1, <1>8, <1>9, <2>1, <2>2, <2>3, <2>4
<1>10. PagingInv(r)'
  <2>1. \A k \in Keys : InScope(k)' => InScope(k)
    <3>1. Becomes(p, r) /\ r.op # "none"
      BY <1>1, <1>2, <1>4
    <3> QED
      BY <3>1, ScopeShrinks
  <2>2. \A url, k : Ahead(url, k)' <=> Ahead(url, k)
    BY AheadKept
  <2>3. DOMAIN r.page \subseteq Keys
    BY <1>3, <1>4 DEF Runs, Pages
  <2>4. NextInv(r)' /\ PageInv(r)'
    BY <1>6, <2>1, <2>2, <2>3
       DEF NextInv, PageInv, LinkOK, Bounded, Reaches, Overtaken, Resuming
  <2>5. \A k \in Keys : InScope(k)' => (Stored(k) \/ Beyond(r, k))'
    BY <1>9, <2>1, <2>2 DEF Beyond, Overtaken, Resuming
  <2> QED
    BY <1>4, <1>6, <2>4, <2>5 DEF PagingInv, Bounded
<1>11. \A k \in Keys : InScope(k) /\ Stored(k) =>
          \/ rows'[k] = feed[k].ts
          \/ Safe(k) /\ (Resuming => Ahead(syncState.inProgress, k))
  BY <1>7, <1>8 DEF Stored
<1>12. r.op # "reconcile"
  BY <1>1, <1>4
<1> QED
  BY <1>2, <1>10, <1>11, <1>12, GapRows

\* The watermark and the link that a page leads to.
LEMMA PersistAdvances ==
    ASSUME TypeOK, GapInv, NEW o \in Runs, PagingInv(o), o.pc = "persist",
           NEW wm, wm = MaxModificationTS(o.wm, o.page)
    PROVE  /\ wm \in Times /\ Bounded(wm) /\ wm >= o.wm
           /\ o.next # NoURL => LinkOK(o.next) /\ Covers(o.next) /\ Reaches(o.next, wm)
           /\ \A k \in Keys : InScope(k) =>
                \/ Stored(k)
                \/ feed[k].ts >= wm /\ (o.next = NoURL => feed[k].ts >= o.started)
<1>1. o.page \in Pages /\ o.wm \in Times /\ o.next \in URLs
  BY DEF Runs
<1>2. /\ wm \in {o.wm} \cup {o.page[k].ts : k \in DOMAIN o.page}
      /\ wm \in Times /\ wm >= o.wm
  BY <1>1, MaxModificationTSIsLatest
<1>3. Bounded(wm)
  BY <1>2 DEF PagingInv, PageInv, Bounded
<1>4. o.next # NoURL => LinkOK(o.next) /\ Reaches(o.next, wm)
  BY <1>2 DEF PagingInv, NextInv
<1>5. wm \in Nat /\ \A k \in Keys : feed[k].ts \in Nat
  BY <1>2, FeedConstants DEF TypeOK, FeedRecord, Times
<1>6. ASSUME NEW k \in Keys, InScope(k), o.next # NoURL, Ahead(o.next, k)
      PROVE  feed[k].ts >= wm
  BY <1>4, <1>5, <1>6 DEF Reaches, InScope, Wanted
<1>7. ASSUME NEW k \in Keys, Overtaken(o, k)
      PROVE  feed[k].ts >= wm /\ feed[k].ts >= o.started
  <2>1. \A j \in DOMAIN o.page : feed[k].ts >= o.page[j].ts
    BY <1>1, <1>5, <1>7, FeedConstants DEF Overtaken, Pages, FeedRecord, Times
  <2> QED
    BY <1>2, <1>7, <2>1 DEF Overtaken
<1>8. \A k \in Keys : InScope(k) => Stored(k) \/ Beyond(o, k)
  BY DEF PagingInv
<1>9. o.next # NoURL => Covers(o.next)
  BY <1>8 DEF Covers, Beyond, Overtaken
<1> QED
  BY <1>2, <1>3, <1>4, <1>6, <1>7, <1>8, <1>9 DEF Beyond

\* The cursor is saved, with the run on the next page or done.
LEMMA CursorSaved ==
    ASSUME TypeOK, GapInv, NEW p, Procs = {p}, Slides(p), UNCHANGED <<feed, now, rows>>,
           NEW r, Becomes(p, r), NEW st \in SyncStates, syncState' = st,
           Bounded(st.wm),
           \A k \in Keys : InScope(k) => Stored(k) \/ feed[k].ts >= st.wm,
           st.inProgress # NoURL => /\ LinkOK(st.inProgress)
                                    /\ Covers(st.inProgress)
                                    /\ Reaches(st.inProgress, st.wm),
           r.op \in {"backfill", "sync"} => PagingInv(r)',
           r.op # "reconcile"
    PROVE  GapInv'
<1>1. run'[p] = r
  BY DEF Becomes, TypeOK
<1>2. Bounded(syncState.wm)' /\ \A k \in Keys : feed'[k].ts <= now'
  BY DEF GapInv, Bounded
<1>3. st.wm \in Nat /\ \A k \in Keys : feed[k].ts \in Nat
  BY FeedConstants DEF TypeOK, SyncStates, FeedRecord, Times
<1>4. \A k \in Keys : InScope(k)' => InScope(k) \/ Stored(k)'
  BY ScopeShrinks
<1>5. \A url, k : Ahead(url, k)' <=> Ahead(url, k)
  BY AheadKept
<1>6. ASSUME NEW k \in Keys, InScope(k)', feed[k].ts < st.wm PROVE Stored(k)'
  BY <1>3, <1>4, <1>6 DEF Stored
<1>7. NoGap'
  BY <1>6 DEF NoGap, InScope, Wanted, Stored
<1>8. Resuming' => /\ LinkOK(syncState.inProgress)'
                   /\ Covers(syncState.inProgress)'
                   /\ Reaches(syncState.inProgress, syncState.wm)'
  BY <1>4, <1>5 DEF Resuming, LinkOK, Covers, Reaches, Bounded, Stored
<1> QED
  BY <1>1, <1>2, <1>7, <1>8 DEF GapInv

LEMMA BackfillGap ==
    ASSUME TypeOK, TypeOK', GapInv, NEW p, Procs = {p}, Slides(p), BackfillNext(p)
    PROVE  GapInv'
<1>0. run[p] \in Runs /\ now \in Nat /\ syncState.wm \in Times /\ Since \in Times
  BY FeedConstants, EngineConstants DEF TypeOK, SyncStates, Times
<1>1. ASSUME NEW force \in BOOLEAN, BackfillStart(p, force) PROVE GapInv'
  <2> DEFINE r == [Begin("backfill", "fetch") EXCEPT
                     !.wm = IF Resuming THEN syncState.wm ELSE Since,
                     !.url = IF Resuming THEN syncState.inProgress ELSE BackfillQuery(Since)]
  <2>1. BackfillQuery(Since) \in URLs
    BY QueryTyped, EngineConstants DEF BackfillQuery
  <2>2. r \in Runs
    BY <2>1, BeginTyped, EngineConstants DEF TypeOK, SyncStates, Runs
  <2>3. /\ r.op = "backfill" /\ r.pc = "fetch" /\ r.started = now
        /\ r.wm = IF Resuming THEN syncState.wm ELSE Since
        /\ r.url = IF Resuming THEN syncState.inProgress ELSE BackfillQuery(Since)
    BY DEF Begin, Idle
  <2>4. Becomes(p, r)
    BY <1>1 DEF BackfillStart
  <2> HIDE DEF r
  <2>5. Bounded(Since)
    BY <1>0 DEF Bounded, Times
  <2>6. LinkOK(BackfillQuery(Since)) /\ Reaches(BackfillQuery(Since), Since)
    BY <1>0, <2>5, QueryLinkOK, QueryReaches DEF BackfillQuery
  <2>7. Covers(BackfillQuery(Since))
    BY <1>0, AheadOfQuery DEF BackfillQuery, Covers, InScope, Wanted, Viewable
  <2>8. Bounded(r.wm) /\ LinkOK(r.url) /\ Covers(r.url) /\ Reaches(r.url, r.wm)
    BY <2>3, <2>5, <2>6, <2>7 DEF GapInv
  <2>9. PagingInv(r)
    BY <1>0, <2>2, <2>3, <2>8, PagingStarts
  <2> QED
    BY <1>1, <2>3, <2>4, <2>9, GapKept DEF BackfillStart
<1>2. CASE BackfillCap(p)
  BY <1>2, GapEnds DEF BackfillCap
<1>3. CASE BackfillFetch(p)
  BY <1>3, PagingFetch DEF BackfillFetch, Running
<1>4. CASE BackfillReject(p)
  <2> DEFINE o == run[p]
             r == [o EXCEPT !.rebuilt = TRUE, !.url = BackfillQuery(o.wm)]
  <2>1. PagingInv(o) /\ o.pc = "fetch" /\ o.op = "backfill" /\ o.wm \in Times
    BY <1>0, <1>4 DEF BackfillReject, BackfillRebuild, Running, GapInv, Runs
  <2>2. BackfillQuery(o.wm) \in URLs
    BY <2>1, QueryTyped DEF BackfillQuery
  <2>3. r \in Runs /\ r.op = o.op /\ r.pc = o.pc /\ r.wm = o.wm /\ r.started = o.started
        /\ r.url = BackfillQuery(o.wm)
    BY <1>0, <2>2 DEF Runs
  <2>4. Becomes(p, r)
    BY <1>4 DEF BackfillReject, BackfillRebuild
  <2> HIDE DEF r
  <2>5. LinkOK(BackfillQuery(o.wm)) /\ Reaches(BackfillQuery(o.wm), o.wm)
    BY <2>1, QueryLinkOK, QueryReaches DEF BackfillQuery, PagingInv
  <2>6. ASSUME NEW k \in Keys, InScope(k), Ahead(o.url, k) PROVE feed[k].ts >= o.wm
    <3>1. o.wm \in Nat /\ feed[k].ts \in Nat
      BY <2>1, FeedConstants DEF TypeOK, FeedRecord, Times
    <3> QED
      BY <2>1, <2>6, <3>1 DEF PagingInv, Reaches, InScope, Wanted
  <2>7. Covers(BackfillQuery(o.wm))
    BY <2>1, <2>6, AheadOfQuery DEF BackfillQuery, Covers, PagingInv, InScope, Wanted, Viewable
  <2>8. PagingInv(r)
    BY <2>1, <2>3, <2>5, <2>7, PagingStarts DEF PagingInv
  <2> QED
    BY <1>4, <2>1, <2>3, <2>4, <2>8, GapKept DEF BackfillReject, BackfillRebuild
<1>5. CASE BackfillUpsert(p)
  BY <1>5, PagingStore DEF BackfillUpsert, Running
<1>6. CASE BackfillDelete(p)
  BY <1>6, PagingStore DEF BackfillDelete, Running
<1>7. CASE BackfillPersist(p)
  <2>1. PICK o : o = run[p]
    OBVIOUS
  <2>2. PICK wm : wm = MaxModificationTS(o.wm, o.page)
    OBVIOUS
  <2>3. o \in Runs /\ PagingInv(o) /\ o.pc = "persist" /\ o.op = "backfill"
    BY <1>0, <1>7, <2>1 DEF GapInv, BackfillPersist, Running, Checkpoint
  <2>4. /\ wm \in Times /\ Bounded(wm) /\ wm >= o.wm
        /\ o.next # NoURL => LinkOK(o.next) /\ Covers(o.next) /\ Reaches(o.next, wm)
        /\ \A k \in Keys : InScope(k) =>
             \/ Stored(k)
             \/ feed[k].ts >= wm /\ (o.next = NoURL => feed[k].ts >= o.started)
    BY <2>2, <2>3, PersistAdvances
  <2>5. PICK st : st = [wm |-> wm, inProgress |-> o.next, completedAt |-> 0,
                        reconciledAt |-> o.st.reconciledAt]
    OBVIOUS
  <2>6. st \in SyncStates /\ syncState' = st /\ st.wm = wm /\ st.inProgress = o.next
    BY <1>7, <2>1, <2>2, <2>3, <2>4, <2>5, EmptyValuesTyped
       DEF BackfillPersist, Runs, SyncStates, Checkpoint
  <2>7. PICK r : /\ Becomes(p, r)
                 /\ r.op = "backfill" /\ r.wm = wm /\ r.started = o.started /\ r.url = o.next
                 /\ r.pc = IF o.next = NoURL THEN "complete" ELSE "fetch"
    <3> DEFINE e == [run[p] EXCEPT
                       !.pc = IF run[p].next = NoURL THEN "complete" ELSE "fetch",
                       !.wm = MaxModificationTS(run[p].wm, run[p].page),
                       !.url = run[p].next,
                       !.page = EmptyPage,
                       !.next = NoURL,
                       !.rebuilt = FALSE,
                       !.pages = IF MaxPages > 0 THEN @ + 1 ELSE @]
    <3>1. Becomes(p, e)
      BY <1>7 DEF BackfillPersist, Checkpoint
    <3>2. /\ e.op = "backfill" /\ e.wm = wm /\ e.started = o.started /\ e.url = o.next
          /\ e.pc = IF o.next = NoURL THEN "complete" ELSE "fetch"
      BY <1>0, <2>1, <2>2, <2>3 DEF Runs
    <3> QED
      BY <3>1, <3>2
  <2>8. PagingInv(r)'
    <3>1. Bounded(r.wm) /\ r.started <= now
      BY <2>3, <2>4, <2>7 DEF PagingInv
    <3>2. \A k \in Keys : InScope(k)' => InScope(k)
      BY <1>7, <2>7, ScopeShrinks DEF BackfillPersist
    <3>3. \A url, k : Ahead(url, k)' <=> Ahead(url, k)
      BY <1>7, AheadKept DEF BackfillPersist
    <3> QED
      BY <1>7, <2>4, <2>7, <3>1, <3>2, <3>3
         DEF BackfillPersist, PagingInv, Bounded, LinkOK, Covers, Reaches, Stored
  <2> QED
    BY <1>7, <2>4, <2>6, <2>7, <2>8, CursorSaved DEF BackfillPersist, Checkpoint
<1>8. CASE BackfillComplete(p)
  <2> DEFINE st == [wm |-> IF run[p].wm = 0 THEN run[p].started ELSE run[p].wm,
                    inProgress |-> NoURL, completedAt |-> now,
                    reconciledAt |-> run[p].st.reconciledAt]
  <2>1. PagingInv(run[p]) /\ run[p].pc = "complete"
    BY <1>8 DEF GapInv, BackfillComplete, Running, FinalWatermark
  <2>2. st \in SyncStates
    BY <1>0, EmptyValuesTyped DEF Runs, SyncStates, TypeOK
  <2>3. syncState' = st /\ st.inProgress = NoURL
    BY <1>8 DEF BackfillComplete, FinalWatermark
  <2>4. Bounded(st.wm)
    BY <2>1 DEF PagingInv, Bounded
  <2>5. \A k \in Keys : InScope(k) => Stored(k) \/ feed[k].ts >= st.wm
    BY <2>1 DEF PagingInv
  <2>6. Becomes(p, Idle) /\ Idle.op = "none"
    BY <1>8 DEF BackfillComplete, Idle, FinalWatermark
  <2> HIDE DEF st
  <2> QED
    BY <1>8, <2>2, <2>3, <2>4, <2>5, <2>6, CursorSaved DEF BackfillComplete, FinalWatermark
<1> QED
  BY <1>1, <1>2, <1>3, <1>4, <1>5, <1>6, <1>7, <1>8 DEF BackfillNext, BackfillStep

LEMMA SyncGap ==
    ASSUME TypeOK, TypeOK', GapInv, NEW p, Procs = {p}, Slides(p), SyncNext(p)
    PROVE  GapInv'
<1>0. run[p] \in Runs /\ now \in Nat /\ syncState.wm \in Times
  BY FeedConstants DEF TypeOK, SyncStates, Times
<1>1. CASE SyncStart(p)
  <2> DEFINE r == [Begin("sync", "fetch") EXCEPT !.wm = syncState.wm,
                                                 !.url = SyncQuery(syncState.wm)]
  <2>1. SyncQuery(syncState.wm) \in URLs
    BY <1>0, QueryTyped DEF SyncQuery
  <2>2. r \in Runs
    BY <1>0, <2>1, BeginTyped DEF Runs
  <2>3. /\ r.op = "sync" /\ r.pc = "fetch" /\ r.started = now /\ r.wm = syncState.wm
        /\ r.url = SyncQuery(syncState.wm)
    BY DEF Begin, Idle
  <2>4. Becomes(p, r)
    BY <1>1 DEF SyncStart
  <2> HIDE DEF r
  <2>5. LinkOK(r.url) /\ Reaches(r.url, r.wm) /\ Bounded(r.wm)
    BY <1>0, <2>3, QueryLinkOK, QueryReaches DEF GapInv, SyncQuery
  <2>6. \A k \in Keys : feed[k].ts \in Nat /\ syncState.wm \in Nat
    BY <1>0, FeedConstants DEF TypeOK, FeedRecord, Times
  <2>7. ASSUME NEW k \in Keys, InScope(k), ~Stored(k)
        PROVE  Ahead(r.url, k)
    <3>1. feed[k].ts >= syncState.wm
      BY <2>6, <2>7 DEF GapInv, NoGap, InScope, Wanted, Stored
    <3>2. Ahead(SyncQuery(syncState.wm), k)
      BY <1>0, <2>7, <3>1, AheadOfQuery DEF SyncQuery, InScope, Wanted, Viewable
    <3> QED
      BY <2>3, <3>2
  <2>8. Covers(r.url)
    BY <2>7 DEF Covers
  <2>9. PagingInv(r)
    BY <1>0, <2>2, <2>3, <2>5, <2>8, PagingStarts
  <2> QED
    BY <1>1, <2>3, <2>4, <2>9, GapKept DEF SyncStart
<1>2. CASE SyncFetch(p)
  BY <1>2, PagingFetch DEF SyncFetch, Running
<1>3. CASE SyncReject(p)
  <2> DEFINE o == run[p]
             r == [o EXCEPT !.rebuilt = TRUE, !.url = SyncQuery(o.wm)]
  <2>1. PagingInv(o) /\ o.pc = "fetch" /\ o.op = "sync" /\ o.wm \in Times
    BY <1>0, <1>3 DEF SyncReject, SyncRebuild, Running, GapInv, Runs
  <2>2. SyncQuery(o.wm) \in URLs
    BY <2>1, QueryTyped DEF SyncQuery
  <2>3. r \in Runs /\ r.op = o.op /\ r.pc = o.pc /\ r.wm = o.wm /\ r.started = o.started
        /\ r.url = SyncQuery(o.wm)
    BY <1>0, <2>2 DEF Runs
  <2>4. Becomes(p, r)
    BY <1>3 DEF SyncReject, SyncRebuild
  <2> HIDE DEF r
  <2>5. LinkOK(SyncQuery(o.wm)) /\ Reaches(SyncQuery(o.wm), o.wm)
    BY <2>1, QueryLinkOK, QueryReaches DEF SyncQuery, PagingInv
  <2>6. ASSUME NEW k \in Keys, InScope(k), Ahead(o.url, k) PROVE feed[k].ts >= o.wm
    <3>1. o.wm \in Nat /\ feed[k].ts \in Nat
      BY <2>1, FeedConstants DEF TypeOK, FeedRecord, Times
    <3> QED
      BY <2>1, <2>6, <3>1 DEF PagingInv, Reaches, InScope, Wanted
  <2>7. Covers(SyncQuery(o.wm))
    BY <2>1, <2>6, AheadOfQuery DEF SyncQuery, Covers, PagingInv, InScope, Wanted, Viewable
  <2>8. PagingInv(r)
    BY <2>1, <2>3, <2>5, <2>7, PagingStarts DEF PagingInv
  <2> QED
    BY <1>3, <2>1, <2>3, <2>4, <2>8, GapKept DEF SyncReject, SyncRebuild
<1>4. CASE SyncUpsert(p)
  BY <1>4, PagingStore DEF SyncUpsert, Running
<1>5. CASE SyncDelete(p)
  BY <1>5, PagingStore DEF SyncDelete, Running
<1>6. CASE SyncPersist(p)
  <2>1. PICK o : o = run[p]
    OBVIOUS
  <2>2. PICK wm : wm = MaxModificationTS(o.wm, o.page)
    OBVIOUS
  <2>3. o \in Runs /\ PagingInv(o) /\ o.pc = "persist" /\ o.op = "sync"
    BY <1>0, <1>6, <2>1 DEF GapInv, SyncPersist, Running, Saved
  <2>4. /\ wm \in Times /\ Bounded(wm) /\ wm >= o.wm
        /\ o.next # NoURL => LinkOK(o.next) /\ Covers(o.next) /\ Reaches(o.next, wm)
        /\ \A k \in Keys : InScope(k) =>
             \/ Stored(k)
             \/ feed[k].ts >= wm /\ (o.next = NoURL => feed[k].ts >= o.started)
    BY <2>2, <2>3, PersistAdvances
  <2>5. PICK st : st = [o.st EXCEPT !.wm = wm, !.inProgress = NoURL]
    OBVIOUS
  <2>6. st \in SyncStates /\ syncState' = st /\ st.wm = wm /\ st.inProgress = NoURL
    BY <1>6, <2>1, <2>2, <2>3, <2>4, <2>5, EmptyValuesTyped
       DEF SyncPersist, Runs, SyncStates, Saved
  <2>7. PICK r : /\ Becomes(p, r)
                 /\ \/ r.op = "none"
                    \/ /\ r.op = "sync" /\ r.wm = wm /\ r.started = o.started /\ r.url = o.next
                       /\ r.pc = "fetch" /\ o.next # NoURL
    <3> DEFINE e == [run[p] EXCEPT !.pc = "fetch",
                                   !.wm = MaxModificationTS(run[p].wm, run[p].page),
                                   !.url = run[p].next,
                                   !.page = EmptyPage,
                                   !.next = NoURL,
                                   !.rebuilt = FALSE]
    <3>1. Becomes(p, IF run[p].next = NoURL THEN Idle ELSE e)
      BY <1>6 DEF SyncPersist, Saved
    <3>2. /\ e.op = "sync" /\ e.wm = wm /\ e.started = o.started /\ e.url = o.next
          /\ e.pc = "fetch"
      BY <1>0, <2>1, <2>2, <2>3 DEF Runs
    <3>3. Idle.op = "none"
      BY DEF Idle
    <3> HIDE DEF e
    <3>4. CASE run[p].next = NoURL
      BY <3>1, <3>3, <3>4
    <3>5. CASE run[p].next # NoURL
      BY <2>1, <3>1, <3>2, <3>5
    <3> QED
      BY <3>4, <3>5
  <2>8. r.op = "sync" => PagingInv(r)'
    <3>1. r.op = "sync" => Bounded(r.wm) /\ r.started <= now
      BY <2>3, <2>4, <2>7 DEF PagingInv
    <3>2. r.op = "sync" => \A k \in Keys : InScope(k)' => InScope(k)
      BY <1>6, <2>7, ScopeShrinks DEF SyncPersist
    <3>3. \A url, k : Ahead(url, k)' <=> Ahead(url, k)
      BY <1>6, AheadKept DEF SyncPersist
    <3> QED
      BY <1>6, <2>4, <2>7, <3>1, <3>2, <3>3
         DEF SyncPersist, PagingInv, Bounded, LinkOK, Covers, Reaches, Stored
  <2>9. r.op \in {"none", "sync"}
    BY <2>7
  <2> QED
    BY <1>6, <2>4, <2>6, <2>7, <2>8, <2>9, CursorSaved DEF SyncPersist, Saved
<1> QED
  BY <1>1, <1>2, <1>3, <1>4, <1>5, <1>6 DEF SyncNext, SyncStep

\* The rows of a page, or of its revoked keys, written by a reconcile.
LEMMA SweepingStore ==
    ASSUME TypeOK, GapInv, NEW p, Procs = {p}, Slides(p), run[p].op = "reconcile",
           \/ run[p].pc = "upsert" /\ UpsertPage(p, "advance")
           \/ run[p].pc = "delete" /\ DeletePage(p, "advance"),
           UNCHANGED <<feed, now, syncState>>
    PROVE  GapInv'
<1>1. PICK o : o = run[p]
  OBVIOUS
<1>2. PICK r : Becomes(p, r) /\ \E pc \in {"delete", "advance"} : r = [o EXCEPT !.pc = pc]
  BY <1>1 DEF UpsertPage, DeletePage
<1>3. o \in Runs
  BY <1>1 DEF TypeOK
<1>4. /\ r.op = o.op /\ r.pc \in {"delete", "advance"} /\ r.st = o.st
      /\ r.page = o.page /\ r.purge = o.purge
  BY <1>2, <1>3 DEF Runs
<1>5. SweepingInv(o)
  BY <1>1 DEF GapInv
<1>6. ASSUME NEW k \in Keys, InScope(k), Stored(k)
      PROVE  rows'[k] = feed[k].ts \/ Safe(k)
  <2>1. CASE o.pc = "upsert"
    <3>1. rows' = Upserted(o.page)
      BY <1>1, <2>1 DEF UpsertPage, DeletePage
    <3>2. k \in DOMAIN o.page => o.page[k] = feed[k] \/ Safe(k)
      BY <1>5, <1>6, <2>1 DEF SweepingInv
    <3> QED
      BY <1>6, <3>1, <3>2 DEF Upserted, Stored
  <2>2. CASE o.pc = "delete"
    <3>1. rows' = Deleted(RevokedKeys(o.page))
      BY <1>1, <2>2 DEF UpsertPage, DeletePage
    <3>2. k \in DOMAIN o.page => o.page[k] = feed[k] \/ Safe(k)
      BY <1>5, <1>6, <2>2 DEF SweepingInv
    <3>3. feed[k].view
      BY <1>6 DEF InScope, Wanted, Viewable
    <3> QED
      BY <1>6, <3>1, <3>2, <3>3 DEF Deleted, RevokedKeys, Stored
  <2> QED
    BY <1>1, <2>1, <2>2
<1>7. SweepingInv(r)'
  <2>1. \A k \in Keys : InScope(k)' => InScope(k)
    <3>1. Becomes(p, r) /\ r.op # "none"
      BY <1>1, <1>2, <1>4
    <3> QED
      BY <3>1, ScopeShrinks
  <2>2. DOMAIN r.page \subseteq Keys /\ r.purge \subseteq Keys
    BY <1>3, <1>4 DEF Runs, Pages
  <2> QED
    BY <1>1, <1>4, <1>5, <2>1, <2>2 DEF SweepingInv, Safe, Resuming
<1>8. ~Resuming
  BY <1>5 DEF SweepingInv
<1> QED
  BY <1>1, <1>2, <1>4, <1>6, <1>7, <1>8, GapRows

LEMMA ReconcileGap ==
    ASSUME TypeOK, TypeOK', GapInv, CursorInv, NEW p, Procs = {p}, Slides(p), ReconcileNext(p)
    PROVE  GapInv'
<1>0. run[p] \in Runs /\ (run[p].op = "reconcile" => SweepingInv(run[p]))
  BY DEF TypeOK, GapInv
<1>1. CASE ReconcileStart(p)
  <2> DEFINE r == [Begin("reconcile", "sweep") EXCEPT !.url = Query(0, TRUE, Keys)]
  <2>1. /\ r.op = "reconcile" /\ r.pc = "sweep" /\ r.st = syncState /\ r.purge = {}
        /\ r.url = Query(0, TRUE, Keys)
    BY DEF Begin, Idle
  <2>2. Becomes(p, r)
    BY <1>1 DEF ReconcileStart, SweepQuery
  <2> HIDE DEF r
  <2>3. ~Resuming
    BY <1>1 DEF ReconcileStart, CursorInv, CursorWellFormed, Resuming, SweepQuery
  <2>4. Bounded(0) /\ 0 \in Times /\ \A k \in Keys : feed[k].ts >= 0
    BY FeedConstants DEF Bounded, TypeOK, FeedRecord, Times
  <2>5. LinkOK(r.url) /\ \A k \in Keys : InScope(k) => Ahead(r.url, k)
    BY <2>1, <2>4, QueryLinkOK, AheadOfQuery DEF InScope, Wanted, Viewable
  <2>6. SweepingInv(r)
    BY <2>1, <2>3, <2>5 DEF SweepingInv
  <2> QED
    BY <1>1, <2>1, <2>2, <2>6, GapKept DEF ReconcileStart, SweepQuery
<1>2. CASE ReconcileSweep(p)
  <2>1. PICK o : o = run[p]
    OBVIOUS
  <2>2. PICK lag, next :
          /\ lag \in Lags
          /\ next = NextLink(o.url, lag)
          /\ Becomes(p, [o EXCEPT !.remote = MergeSwept(@, PageOf(o.url, lag)),
                                  !.url = next,
                                  !.pc = IF next = NoURL THEN "diff" ELSE "sweep"])
    BY <1>2, <2>1 DEF ReconcileSweep
  <2>3. PICK r : r = [o EXCEPT !.remote = MergeSwept(@, PageOf(o.url, lag)), !.url = next,
                               !.pc = IF next = NoURL THEN "diff" ELSE "sweep"]
    OBVIOUS
  <2>4. SweepingInv(o) /\ o.pc = "sweep" /\ o.op = "reconcile" /\ o.url \in URLs /\ o \in Runs
    BY <1>0, <1>2, <2>1 DEF ReconcileSweep, Running, Runs
  <2>5. /\ r.op = "reconcile" /\ r.st = o.st /\ r.purge = o.purge /\ r.url = next
        /\ r.pc = IF next = NoURL THEN "diff" ELSE "sweep"
        /\ DOMAIN r.remote = DOMAIN o.remote \cup PageKeys(o.url, lag)
        /\ Becomes(p, r)
    BY <2>2, <2>3, <2>4 DEF Runs, MergeSwept, PageOf
  <2>6. LinkOK(o.url) /\ \A k \in Keys : InScope(k) => k \in DOMAIN o.remote \/ Ahead(o.url, k)
    BY <2>4 DEF SweepingInv
  <2>7. Answered(p) /\ \A k \in Keys : InScope(k)' => InScope(k)
    <3>1. run'[p] = r
      BY <2>5 DEF Becomes, TypeOK
    <3> QED
      BY <1>2, <2>1, <2>4, <2>5, <3>1, ScopeShrinks DEF Answered, ReconcileSweep
  <2>8. ASSUME NEW k \in Keys, InScope(k)'
        PROVE  k \in DOMAIN r.remote \/ (next # NoURL /\ Ahead(next, k))
    <3>1. CASE Ahead(o.url, k)
      <4>1. k \in PageKeys(o.url, {}) \/ (next # NoURL /\ Ahead(next, k))
        BY <2>2, <2>4, <2>6, <3>1, FetchDelivers
      <4>2. k \in PageKeys(o.url, {}) => k \in DOMAIN r.remote
        BY <2>1, <2>5, <2>7, <2>8, PageHasScope DEF Held, InScope
      <4> QED
        BY <4>1, <4>2
    <3> QED
      BY <2>5, <2>6, <2>7, <2>8, <3>1
  <2>9. next # NoURL => LinkOK(next)
    BY <2>2, <2>4, <2>6, FetchDelivers
  <2>10. SweepingInv(r)'
    <3>1. \A url, k : Ahead(url, k)' <=> Ahead(url, k)
      BY <1>2, AheadKept DEF ReconcileSweep
    <3>2. o.purge \subseteq Keys
      BY <2>4 DEF Runs
    <3> QED
      BY <1>2, <2>4, <2>5, <2>7, <2>8, <2>9, <3>1, <3>2
         DEF SweepingInv, ReconcileSweep, LinkOK, Bounded, Safe, Resuming
  <2> QED
    BY <1>2, <2>5, <2>10, GapMoves DEF ReconcileSweep
<1>3. CASE ReconcileDiff(p)
  <2> DEFINE o == run[p]
             purge == {k \in Keys : rows[k] # 0 /\ k \notin Swept(p)}
             refetch == {k \in Swept(p) : IF rows[k] = 0 THEN IncludeMissing
                                          ELSE run[p].remote[k] > rows[k]}
             r == [o EXCEPT !.pc = "purge", !.remote = EmptyPage,
                            !.purge = purge, !.refetch = refetch]
  <2>1. r.op = o.op /\ r.st = o.st /\ r.purge = purge /\ r.pc = "purge"
    BY <1>0 DEF Runs
  <2>2. Becomes(p, r)
    BY <1>3 DEF ReconcileDiff, Withdrawn, Stale
  <2> HIDE DEF r
  <2>3. SweepingInv(o) /\ o.pc = "diff" /\ o.op = "reconcile"
    BY <1>0, <1>3 DEF ReconcileDiff, Running, Withdrawn, Stale
  <2>4. SweepingInv(r)
    BY <2>1, <2>3 DEF SweepingInv, Swept
  <2> QED
    BY <1>3, <2>1, <2>2, <2>3, <2>4, GapKept DEF ReconcileDiff, Withdrawn, Stale
<1>4. CASE ReconcilePurge(p)
  <2>1. PICK o : o = run[p]
    OBVIOUS
  <2>2. PICK chunk \in Chunks(o.purge, PurgeChunk) :
          rows' = Deleted(chunk) /\ Becomes(p, [o EXCEPT !.purge = @ \ chunk])
    BY <1>4, <2>1 DEF ReconcilePurge
  <2>3. PICK r : r = [o EXCEPT !.purge = @ \ chunk]
    OBVIOUS
  <2>4. /\ r.op = "reconcile" /\ r.st = o.st /\ r.pc = "purge" /\ r.purge \subseteq o.purge
        /\ chunk \subseteq o.purge /\ SweepingInv(o)
    BY <1>0, <1>4, <2>1, <2>3 DEF ReconcilePurge, Running, Runs, Chunks
  <2>5. ~Resuming /\ \A k \in chunk : InScope(k) => Safe(k)
    BY <2>4 DEF SweepingInv
  <2>6. SweepingInv(r)'
    <3>1. \A k \in Keys : InScope(k)' => InScope(k)
      BY <1>4, <2>2, <2>3, <2>4, ScopeShrinks DEF ReconcilePurge
    <3>2. r.purge \subseteq Keys
      BY <1>0, <2>1, <2>4 DEF Runs
    <3> QED
      BY <1>4, <2>4, <3>1, <3>2 DEF ReconcilePurge, SweepingInv, Safe, Resuming
  <2>7. \A k \in Keys : InScope(k) /\ Stored(k) => rows'[k] = feed[k].ts \/ Safe(k)
    BY <2>2, <2>5 DEF Deleted, Stored
  <2> QED
    BY <1>4, <2>2, <2>3, <2>4, <2>5, <2>6, <2>7, GapRows DEF ReconcilePurge
<1>5. CASE ReconcilePick(p)
  <2>1. PICK chunk : Becomes(p, [run[p] EXCEPT !.pc = "fetch", !.url = Query(0, TRUE, chunk),
                                               !.refetch = @ \ chunk])
    BY <1>5 DEF ReconcilePick
  <2> DEFINE r == [run[p] EXCEPT !.pc = "fetch", !.url = Query(0, TRUE, chunk),
                                 !.refetch = @ \ chunk]
  <2>2. r.op = "reconcile" /\ r.st = run[p].st /\ r.purge = run[p].purge /\ r.pc = "fetch"
    BY <1>0, <1>5 DEF ReconcilePick, Running, Runs
  <2>3. Becomes(p, r) /\ SweepingInv(run[p])
    BY <1>0, <1>5, <2>1 DEF ReconcilePick, Running
  <2> HIDE DEF r
  <2>4. SweepingInv(r)
    BY <2>2, <2>3 DEF SweepingInv
  <2> QED
    BY <1>5, <2>2, <2>3, <2>4, GapKept DEF ReconcilePick
<1>6. CASE ReconcileFetch(p)
  <2>1. PICK lag, next : Becomes(p, [run[p] EXCEPT !.pc = "upsert",
                                                   !.page = PageOf(run[p].url, lag),
                                                   !.next = next])
    BY <1>6 DEF ReconcileFetch, FetchPage
  <2> DEFINE r == [run[p] EXCEPT !.pc = "upsert", !.page = PageOf(run[p].url, lag), !.next = next]
  <2>2. /\ r.op = "reconcile" /\ r.st = run[p].st /\ r.purge = run[p].purge /\ r.pc = "upsert"
        /\ \A k \in DOMAIN r.page : r.page[k] = feed[k]
    BY <1>0, <1>6 DEF ReconcileFetch, Running, Runs, PageOf
  <2>3. Becomes(p, r) /\ SweepingInv(run[p])
    BY <1>0, <1>6, <2>1 DEF ReconcileFetch, Running
  <2> HIDE DEF r
  <2>4. SweepingInv(r)
    BY <2>2, <2>3 DEF SweepingInv
  <2> QED
    BY <1>6, <2>2, <2>3, <2>4, GapKept DEF ReconcileFetch
<1>7. CASE ReconcileUpsert(p)
  BY <1>7, SweepingStore DEF ReconcileUpsert, Running
<1>8. CASE ReconcileDelete(p)
  BY <1>8, SweepingStore DEF ReconcileDelete, Running
<1>9. CASE ReconcileAdvance(p)
  <2> DEFINE r == [run[p] EXCEPT !.pc = IF run[p].next = NoURL THEN "purge" ELSE "fetch",
                                 !.url = run[p].next, !.page = EmptyPage, !.next = NoURL]
  <2>1. /\ r.op = "reconcile" /\ r.st = run[p].st /\ r.purge = run[p].purge
        /\ r.pc \in {"purge", "fetch"}
    BY <1>0, <1>9 DEF ReconcileAdvance, Running, Runs
  <2>2. Becomes(p, r) /\ SweepingInv(run[p])
    BY <1>0, <1>9 DEF ReconcileAdvance, Running
  <2> HIDE DEF r
  <2>3. SweepingInv(r)
    BY <2>1, <2>2 DEF SweepingInv
  <2> QED
    BY <1>9, <2>1, <2>2, <2>3, GapKept DEF ReconcileAdvance
<1>10. CASE ReconcileStamp(p)
  <2>1. PICK st : st = [run[p].st EXCEPT !.reconciledAt = now]
    OBVIOUS
  <2>2. run[p].st = syncState /\ ~Resuming
    BY <1>0, <1>10 DEF ReconcileStamp, Running, SweepingInv, Stamped
  <2>3. /\ st \in SyncStates /\ syncState' = st /\ st.wm = syncState.wm
        /\ st.inProgress = NoURL
    BY <1>10, <2>1, <2>2 DEF ReconcileStamp, SyncStates, TypeOK, Resuming, Stamped
  <2>4. \A k \in Keys : InScope(k) => Stored(k) \/ feed[k].ts >= st.wm
    <3>1. \A k \in Keys : feed[k].ts \in Nat /\ syncState.wm \in Nat
      BY FeedConstants DEF TypeOK, FeedRecord, SyncStates, Times
    <3> QED
      BY <2>3, <3>1 DEF GapInv, NoGap, InScope, Wanted, Stored
  <2>5. Becomes(p, Idle) /\ Idle.op = "none" /\ Bounded(st.wm)
    BY <1>10, <2>3 DEF ReconcileStamp, Idle, GapInv, Stamped
  <2> QED
    BY <1>10, <2>3, <2>4, <2>5, CursorSaved DEF ReconcileStamp, Stamped
<1> QED
  BY <1>1, <1>2, <1>3, <1>4, <1>5, <1>6, <1>7, <1>8, <1>9, <1>10
     DEF ReconcileNext, ReconcileStep

\* The steps of Offsets are steps of Replication.
LEMMA OffsetIsStep ==
    ASSUME NEW p, Procs = {p}, [OffsetNext]_offsetVars
    PROVE  /\ [Next]_vars
           /\ \/ FeedNext /\ FeedSlides /\ UNCHANGED <<rows, syncState, run, faults>>
              \/ Slides(p) /\ (BackfillNext(p) \/ SyncNext(p) \/ ReconcileNext(p) \/ Abort(p))
              \/ UNCHANGED <<vars, slid>>
BY DEF OffsetNext, offsetVars, Next, FeedSlides, Slides

LEMMA GapNext ==
    ASSUME NEW p, Procs = {p}
    PROVE  TypeOK /\ CursorInv /\ GapInv /\ [OffsetNext]_offsetVars => GapInv'
<1> SUFFICES ASSUME TypeOK, CursorInv, GapInv, [OffsetNext]_offsetVars PROVE GapInv'
  OBVIOUS
<1>0. TypeOK'
  BY OffsetIsStep, NextTyped
<1>1. CASE FeedNext /\ FeedSlides /\ UNCHANGED <<rows, syncState, run, faults>>
  BY <1>1, FeedStepGap
<1>2. CASE Slides(p) /\ (BackfillNext(p) \/ SyncNext(p) \/ ReconcileNext(p))
  BY <1>0, <1>2, BackfillGap, SyncGap, ReconcileGap
<1>3. CASE Slides(p) /\ Abort(p)
  BY <1>3, GapEnds DEF Abort
<1>4. CASE UNCHANGED <<vars, slid>>
  <2>1. UNCHANGED <<feed, now, rows, syncState, run, slid>>
    BY <1>4 DEF vars
  <2>2. Becomes(p, run[p])
    BY <2>1 DEF Becomes, TypeOK
  <2> QED
    BY <1>0, <2>1, <2>2, GapKept DEF GapInv
<1> QED
  BY <1>1, <1>2, <1>3, <1>4, OffsetIsStep

LEMMA GapImplies == GapInv => NoGap /\ ResumeLosesNothing
BY DEF GapInv, ResumeLosesNothing, Covers, InScope, Wanted, Stored

\* What holds of Replication holds with slid beside it.
LEMMA OffsetsTyped ==
    ASSUME NEW p, Procs = {p}
    PROVE  OffsetSpec => [](TypeOK /\ CursorInv)
<1>1. OffsetInit => TypeOK /\ CursorInv
  BY InitTyped, CursorInit DEF OffsetInit
<1>2. TypeOK /\ CursorInv /\ [OffsetNext]_offsetVars => TypeOK' /\ CursorInv'
  BY OffsetIsStep, NextTyped, CursorNext
<1> QED
  BY <1>1, <1>2, PTL DEF OffsetSpec

LEMMA GapInvariant ==
    ASSUME NEW p, Procs = {p}
    PROVE  OffsetSpec => [](TypeOK /\ CursorInv /\ GapInv)
<1>1. OffsetInit => GapInv
  BY GapInit
<1>2. TypeOK /\ CursorInv /\ GapInv /\ [OffsetNext]_offsetVars => GapInv'
  BY GapNext
<1> QED
  BY <1>1, <1>2, OffsetsTyped, PTL DEF OffsetSpec

\* With one process on the store, everything in scope before the watermark is
\* stored in its current version, through any changes of the feed, 400s,
\* crashes and re-runs, but for what slid past the offset of a link.
THEOREM NoGapSingleProcess ==
    ASSUME NEW p, Procs = {p}
    PROVE  OffsetSpec => []NoGap
<1>1. OffsetSpec => [](TypeOK /\ CursorInv /\ GapInv)
  BY GapInvariant
<1>2. GapInv => NoGap
  BY GapImplies
<1> QED
  BY <1>1, <1>2, PTL

\* Likewise a persisted resume cursor loses nothing but what slid: the rest of
\* what an interrupted backfill has not stored, the saved link still leads to.
THEOREM ResumeSingleProcess ==
    ASSUME NEW p, Procs = {p}
    PROVE  OffsetSpec => []ResumeLosesNothing
<1>1. OffsetSpec => [](TypeOK /\ CursorInv /\ GapInv)
  BY GapInvariant
<1>2. GapInv => ResumeLosesNothing
  BY GapImplies
<1> QED
  BY <1>1, <1>2, PTL

-----------------------------------------------------------------------------
(* RevokedGone, likewise: the invariant says where a record revoked since   *)
(* the import, and still stored, can be.                                    *)

RevokedLately(k) ==
    /\ feed[k].listed
    /\ ~feed[k].view
    /\ syncState.completedAt # 0
    /\ feed[k].ts > syncState.completedAt
    /\ k \notin slid

Gone(k) == rows[k] = 0

\* A sync asks for revoked records too; no other run stores one it knows to be
\* revoked.
RevokedRun(r) ==
    /\ r.op = "sync" =>
         /\ r.wm = syncState.wm
         /\ r.st.completedAt = syncState.completedAt
         /\ r.pc = "fetch" =>
              /\ ~r.url.view
              /\ \A k \in Keys : RevokedLately(k) => Gone(k) \/ Ahead(r.url, k)
         /\ r.pc \in {"upsert", "delete", "persist"} => ~r.next.view
         /\ r.pc \in {"upsert", "delete"} =>
              /\ \A k \in DOMAIN r.page :
                    RevokedLately(k) => r.page[k] = feed[k] \/ Overtaken(r, k)
              /\ \A k \in Keys : RevokedLately(k) => Gone(k) \/ Delivered(r, k) \/ Beyond(r, k)
         /\ r.pc = "persist" =>
              \A k \in Keys : RevokedLately(k) => Gone(k) \/ Beyond(r, k)
    /\ r.op # "sync" /\ r.pc = "upsert" =>
         \A k \in DOMAIN r.page : RevokedLately(k) /\ r.page[k].view => Safe(k)

RevokedInv ==
    /\ InitTime <= now
    /\ syncState.completedAt # 0 => InitTime <= syncState.completedAt
    /\ \A k \in Keys : RevokedLately(k) => Gone(k) \/ Safe(k)
    /\ \A p \in Procs : RevokedRun(run[p])

LEMMA RevokedInit == OffsetInit => RevokedInv
<1> SUFFICES ASSUME OffsetInit PROVE RevokedInv
  OBVIOUS
<1>1. now = InitTime /\ syncState.completedAt = 0
  BY DEF OffsetInit, Init, FeedInit, EngineInit, NoState
<1>2. \A p \in Procs : run[p].op = "none" /\ run[p].pc = "idle"
  BY DEF OffsetInit, Init, EngineInit, Idle
<1> QED
  BY <1>1, <1>2, FeedConstants DEF RevokedInv, RevokedLately, RevokedRun

LEMMA LatelyWanted ==
    ASSUME TypeOK, RevokedInv, Since <= InitTime, NEW k \in Keys, RevokedLately(k)
    PROVE  feed[k].ts >= Since
<1>1. /\ InitTime \in Nat /\ Since \in Nat /\ syncState.completedAt \in Nat /\ feed[k].ts \in Nat
  BY FeedConstants, EngineConstants DEF TypeOK, Times, SyncStates, FeedRecord
<1> QED
  BY <1>1 DEF RevokedInv, RevokedLately

\* A revocation is later than everything known before it.
LEMMA RevokedFeed ==
    ASSUME TypeOK, CursorInv, GapInv, RevokedInv, Since <= InitTime,
           FeedNext, FeedSlides, UNCHANGED <<rows, syncState, run, faults>>
    PROVE  RevokedInv'
<1>0. now \in Nat /\ \A k \in Keys : feed[k].ts \in Nat /\ feed[k].ts <= now
  BY FeedConstants DEF TypeOK, FeedRecord, Times, GapInv
<1>1. now' \in Times /\ now <= now'
  BY <1>0, FeedChange
<1>2. InitTime \in Nat /\ Since \in Nat /\ MaxTime \in Nat /\ now' \in Nat
  BY <1>1, FeedConstants, EngineConstants DEF Times
<1>3. Since <= now /\ InitTime <= now'
  BY <1>0, <1>1, <1>2 DEF RevokedInv
<1>4. ASSUME NEW k \in Keys, RevokedLately(k)'
      PROVE  /\ \/ feed'[k] = feed[k] /\ RevokedLately(k)
                \/ feed'[k].ts = now' /\ now' = now + 1
             /\ feed'[k].ts >= Since /\ feed'[k].listed /\ k \notin slid'
             /\ ~Resuming
  <2>1. feed'[k].listed /\ k \notin slid' /\ ~Resuming
    BY <1>4 DEF RevokedLately, CursorInv, CursorWellFormed, Resuming
  <2>2. feed'[k] = feed[k] => RevokedLately(k)
    BY <1>4 DEF RevokedLately, FeedSlides
  <2>3. CASE feed'[k] = feed[k]
    BY <2>1, <2>2, <2>3, LatelyWanted
  <2>4. CASE feed'[k].ts = now' /\ now' = now + 1
    BY <1>0, <1>2, <1>3, <2>1, <2>4
  <2> QED
    BY <1>0, <2>1, <2>3, <2>4, FeedChange
<1>5. ASSUME NEW k \in Keys, feed'[k].ts = now', now' = now + 1 PROVE Safe(k)'
  <2>1. syncState.wm \in Times
    BY DEF TypeOK, SyncStates
  <2>2. syncState.wm <= now
    BY <1>0, <1>2, <1>3, <2>1 DEF GapInv, Bounded, Times
  <2> QED
    BY <1>0, <1>5, <2>1, <2>2 DEF Safe, Times
<1>6. \A k \in Keys : RevokedLately(k)' => (Gone(k) \/ Safe(k))'
  BY <1>4, <1>5 DEF RevokedInv, Gone, Safe
<1>7. ASSUME NEW p \in Procs PROVE RevokedRun(run[p])'
  <2>1. PICK r : r = run[p]
    OBVIOUS
  <2>2. run'[p] = r /\ r \in Runs /\ RevokedRun(r)
    BY <2>1 DEF TypeOK, RevokedInv
  <2>3. r.op = "sync" => PagingInv(r)
    BY <2>1 DEF GapInv
  <2>4. r.url \in URLs /\ r.next \in URLs /\ DOMAIN r.page \subseteq Keys
    BY <2>2 DEF Runs, Pages
  <2>5. ASSUME r.op = "sync", NEW k \in Keys, RevokedLately(k)',
               r.pc \in {"upsert", "delete", "persist"}
        PROVE  \/ feed'[k] = feed[k] /\ RevokedLately(k) /\ (Overtaken(r, k) => Overtaken(r, k)')
                  /\ (Beyond(r, k) => Beyond(r, k)')
               \/ Overtaken(r, k)'
    <3>1. Passes(r, k)'
      BY <1>4, <2>2, <2>5 DEF Passes, RevokedRun, Resuming
    <3>2. /\ NextInv(r) /\ PageInv(r) /\ Bounded(r.wm) /\ r.started <= now
          /\ r.next \in LinksInUse
      BY <2>1, <2>3, <2>5 DEF PagingInv, LinksInUse, LinkOf
    <3>3. CASE feed'[k] = feed[k] /\ RevokedLately(k)
      <4>1. Overtaken(r, k) => Overtaken(r, k)'
        BY <2>2, <3>1, <3>2, <3>3, StillOvertaken
      <4>2. r.next # NoURL /\ Ahead(r.next, k) => Ahead(r.next, k)'
        BY <1>0, <2>2, <2>4, <2>5, <3>1, <3>2, <3>3, LinkFollows DEF NextInv, Passes, RevokedRun
      <4> QED
        BY <3>3, <4>1, <4>2 DEF Beyond
    <3>4. CASE feed'[k].ts = now' /\ now' = now + 1
      BY <2>2, <3>1, <3>2, <3>4, ChangedIsOvertaken
    <3> QED
      BY <1>4, <2>5, <3>3, <3>4
  <2>6. ASSUME r.op = "sync", r.pc = "fetch", NEW k \in Keys, RevokedLately(k)'
        PROVE  Gone(k) \/ Ahead(r.url, k)'
    <3>1. LinkOK(r.url) /\ r.url \in LinksInUse /\ ~r.url.view
      BY <2>1, <2>2, <2>3, <2>6 DEF PagingInv, LinksInUse, LinkOf, RevokedRun
    <3>2. /\ feed'[k] = feed[k] /\ Ahead(r.url, k) => Ahead(r.url, k)'
          /\ feed'[k].ts = now' /\ now' = now + 1 => Ahead(r.url, k)'
      BY <1>0, <1>4, <2>4, <2>6, <3>1, LinkFollows
    <3> QED
      BY <1>4, <2>2, <2>6, <3>2 DEF RevokedRun
  <2>7. r.op = "sync" /\ r.pc \in {"upsert", "delete"} =>
          /\ \A k \in DOMAIN r.page :
                RevokedLately(k)' => r.page[k] = feed'[k] \/ Overtaken(r, k)'
          /\ \A k \in Keys :
                RevokedLately(k)' => Gone(k) \/ (k \in DOMAIN r.page /\ r.page[k] = feed'[k])
                                             \/ Beyond(r, k)'
    BY <2>2, <2>4, <2>5 DEF RevokedRun, Delivered, Beyond
  <2>8. r.op = "sync" /\ r.pc = "persist" =>
          \A k \in Keys : RevokedLately(k)' => Gone(k) \/ Beyond(r, k)'
    BY <2>2, <2>5 DEF RevokedRun, Beyond
  <2>9. r.op # "sync" /\ r.pc = "upsert" =>
          \A k \in DOMAIN r.page : RevokedLately(k)' /\ r.page[k].view => Safe(k)'
    BY <1>4, <1>5, <2>2, <2>4 DEF RevokedRun, Safe
  <2>10. RevokedRun(r)'
    BY <2>2, <2>6, <2>7, <2>8, <2>9 DEF RevokedRun, Gone, Delivered
  <2> QED
    BY <2>2, <2>10
<1>8. syncState.completedAt # 0 => InitTime <= syncState.completedAt
  BY DEF RevokedInv
<1> QED
  BY <1>3, <1>6, <1>7, <1>8 DEF RevokedInv

\* A step of the only process: what it leaves for it and for the store.
LEMMA RevokedStep ==
    ASSUME TypeOK, RevokedInv, NEW p, Procs = {p}, NEW r, Becomes(p, r),
           UNCHANGED <<feed, now>>,
           syncState'.completedAt = syncState.completedAt,
           \A k \in Keys : RevokedLately(k)' => (Gone(k) \/ Safe(k))',
           RevokedRun(r)'
    PROVE  RevokedInv'
<1>1. run'[p] = r
  BY DEF Becomes, TypeOK
<1>2. RevokedRun(run[p])'
  BY <1>1
<1> QED
  BY <1>2 DEF RevokedInv

\* A revoked record comes to be watched only when a run ends with it gone.
LEMMA LatelyShrinks ==
    ASSUME TypeOK, NEW p, Procs = {p}, NEW r, Becomes(p, r), UNCHANGED feed,
           syncState'.completedAt = syncState.completedAt,
           Slides(p) \/ UNCHANGED slid, NEW k \in Keys, RevokedLately(k)'
    PROVE  /\ RevokedLately(k) \/ Gone(k)'
           /\ r.op # "none" => RevokedLately(k)
<1>1. run'[p] = r
  BY DEF Becomes, TypeOK
<1>2. CASE k \notin slid
  BY <1>2 DEF RevokedLately
<1>3. CASE k \in slid
  <2>1. (AllIdle /\ Settled(k))'
    BY <1>3 DEF Slides, RevokedLately
  <2>2. r = Idle
    BY <1>1, <2>1 DEF AllIdle
  <2> QED
    BY <2>1, <2>2 DEF Settled, Gone, RevokedLately, Viewable, Idle
<1> QED
  BY <1>2, <1>3

\* A step that changes a run and nothing else.
LEMMA RevokedMoves ==
    ASSUME TypeOK, RevokedInv, NEW p, Procs = {p}, NEW r, Becomes(p, r),
           Slides(p) \/ UNCHANGED slid,
           UNCHANGED <<feed, now, rows, syncState>>, RevokedRun(r)'
    PROVE  RevokedInv'
<1>1. ASSUME NEW k \in Keys, RevokedLately(k)' PROVE (Gone(k) \/ Safe(k))'
  <2>1. RevokedLately(k) \/ Gone(k)'
    BY <1>1, LatelyShrinks
  <2> QED
    BY <2>1 DEF RevokedInv, Gone, Safe
<1> QED
  BY <1>1, RevokedStep

LEMMA RevokedKept ==
    ASSUME TypeOK, TypeOK', RevokedInv, NEW p, Procs = {p}, NEW r, Becomes(p, r),
           Slides(p) \/ UNCHANGED slid, r.op = "none" => r.pc # "upsert",
           UNCHANGED <<feed, now, rows, syncState>>, RevokedRun(r)
    PROVE  RevokedInv'
<1>1. r.op # "none" => \A k \in Keys : RevokedLately(k)' => RevokedLately(k)
  BY LatelyShrinks
<1>2. \A url, k : Ahead(url, k)' <=> Ahead(url, k)
  BY AheadKept
<1>3. DOMAIN r.page \subseteq Keys
  <2>1. r \in Runs
    BY DEF Becomes, TypeOK
  <2> QED
    BY <2>1 DEF Runs, Pages
<1>4. CASE r.op # "none"
  <2>1. RevokedRun(r)'
    BY <1>1, <1>2, <1>3, <1>4 DEF RevokedRun, Gone, Safe, Delivered, Beyond, Overtaken, Resuming
  <2> QED
    BY <2>1, RevokedMoves
<1>5. CASE r.op = "none"
  <2>1. RevokedRun(r)'
    BY <1>5 DEF RevokedRun
  <2> QED
    BY <2>1, RevokedMoves
<1> QED
  BY <1>4, <1>5

\* A page fetched.
LEMMA RevokedFetch ==
    ASSUME TypeOK, TypeOK', GapInv, RevokedInv, NEW p, Procs = {p}, Slides(p),
           run[p].op \in {"backfill", "sync", "reconcile"},
           run[p].pc = "fetch", FetchPage(p), UNCHANGED <<feed, now, rows, syncState>>
    PROVE  RevokedInv'
<1>1. PICK o : o = run[p]
  OBVIOUS
<1>2. PICK lag \in Lags :
         Becomes(p, [o EXCEPT !.pc = "upsert", !.page = PageOf(o.url, lag),
                              !.next = NextLink(o.url, lag)])
  BY <1>1 DEF FetchPage
<1>3. PICK next : next = NextLink(o.url, lag)
  OBVIOUS
<1>4. PICK r : r = [o EXCEPT !.pc = "upsert", !.page = PageOf(o.url, lag), !.next = next]
  OBVIOUS
<1>5. o \in Runs /\ o.url \in URLs /\ RevokedRun(o)
  BY <1>1 DEF TypeOK, Runs, RevokedInv
<1>6. /\ r.op = o.op /\ r.pc = "upsert" /\ r.wm = o.wm /\ r.st = o.st
      /\ r.next = next /\ DOMAIN r.page = PageKeys(o.url, lag)
      /\ \A k \in PageKeys(o.url, lag) : r.page[k] = feed[k]
      /\ Becomes(p, r) /\ r.op # "none"
  BY <1>1, <1>2, <1>3, <1>4, <1>5 DEF Runs, PageOf
<1>7. \A k \in Keys : RevokedLately(k)' => RevokedLately(k)
  BY <1>6, LatelyShrinks
<1>8. PageKeys(o.url, lag) \subseteq Keys
  BY <1>5 DEF PageKeys, Matching, URLs
<1>9. \A url, k : Ahead(url, k)' <=> Ahead(url, k)
  BY AheadKept
<1>10. CASE o.op = "sync"
  <2>1. LinkOK(o.url) /\ ~o.url.view
    BY <1>1, <1>5, <1>10 DEF GapInv, PagingInv, RevokedRun
  <2>2. ~next.view
    BY <1>3, <1>5, <2>1, FetchDelivers DEF NoURL
  <2>3. Answered(p)
    <3>1. run'[p] = r
      BY <1>6 DEF Becomes, TypeOK
    <3> QED
      BY <1>1, <1>6, <1>10, <3>1 DEF Answered
  <2>4. ASSUME NEW k \in Keys, RevokedLately(k)'
        PROVE  Gone(k) \/ Delivered(r, k) \/ Beyond(r, k)
    <3>1. Gone(k) \/ Ahead(o.url, k)
      BY <1>1, <1>5, <1>7, <1>10, <2>4 DEF RevokedRun
    <3>2. k \in PageKeys(o.url, {}) => k \in DOMAIN r.page
      BY <1>1, <1>6, <1>10, <2>3, <2>4, PageHasScope DEF Held, RevokedLately
    <3>3. Ahead(o.url, k) => k \in PageKeys(o.url, {}) \/ (next # NoURL /\ Ahead(next, k))
      BY <1>3, <1>5, <2>1, FetchDelivers
    <3> QED
      BY <1>6, <3>1, <3>2, <3>3 DEF Delivered, Beyond
  <2>5. \A k \in Keys : RevokedLately(k)' => (Gone(k) \/ Delivered(r, k) \/ Beyond(r, k))'
    BY <1>9, <2>4 DEF Gone, Delivered, Beyond, Overtaken, Resuming
  <2>6. RevokedRun(r)'
    BY <1>1, <1>5, <1>6, <1>10, <2>2, <2>5 DEF RevokedRun
  <2> QED
    BY <1>6, <2>6, RevokedMoves
<1>11. CASE o.op # "sync"
  <2>1. RevokedRun(r)'
    BY <1>6, <1>8, <1>11 DEF RevokedRun, RevokedLately
  <2> QED
    BY <1>6, <2>1, RevokedMoves
<1> QED
  BY <1>10, <1>11

\* The rows of a page, or of its revoked keys, written.
LEMMA RevokedStore ==
    ASSUME TypeOK, GapInv, RevokedInv, NEW p, Procs = {p}, Slides(p), run[p].op # "none",
           NEW done \in {"persist", "advance"},
           run[p].op = "sync" => done = "persist",
           \/ run[p].pc = "upsert" /\ UpsertPage(p, done)
           \/ run[p].pc = "delete" /\ DeletePage(p, done),
           UNCHANGED <<feed, now, syncState>>
    PROVE  RevokedInv'
<1>1. PICK o : o = run[p]
  OBVIOUS
<1>2. PICK r : /\ Becomes(p, r)
               /\ \E pc \in {"delete", done} :
                     /\ r = [o EXCEPT !.pc = pc]
                     /\ o.pc = "delete" => pc = done
                     /\ o.pc = "upsert" /\ RevokedKeys(o.page) # {} => pc = "delete"
  BY <1>1 DEF UpsertPage, DeletePage
<1>3. o \in Runs /\ RevokedRun(o) /\ DOMAIN o.page \subseteq Keys
  BY <1>1 DEF TypeOK, RevokedInv, Runs, Pages
<1>4. /\ r.op = o.op /\ r.pc \in {"delete", done} /\ r.wm = o.wm /\ r.st = o.st
      /\ r.next = o.next /\ r.page = o.page /\ r.started = o.started
      /\ o.pc = "delete" => r.pc = done
      /\ o.pc = "upsert" /\ RevokedKeys(o.page) # {} => r.pc = "delete"
  BY <1>2, <1>3 DEF Runs
<1>5. \A k : Overtaken(o, k) => Safe(k)
  BY DEF Overtaken, Safe
<1>6. ASSUME NEW k \in Keys, RevokedLately(k)
      PROVE  \/ rows'[k] = 0
             \/ rows'[k] = rows[k] /\ (o.pc = "delete" => k \notin RevokedKeys(o.page))
             \/ Safe(k) /\ (o.op = "sync" => Overtaken(o, k))
  <2>1. CASE o.pc = "upsert" /\ k \in DOMAIN o.page /\ o.page[k].view
    <3>1. o.page[k] # feed[k]
      BY <1>6, <2>1 DEF RevokedLately
    <3> QED
      BY <1>3, <1>5, <1>6, <2>1, <3>1 DEF RevokedRun
  <2>2. CASE o.pc = "upsert" /\ ~(k \in DOMAIN o.page /\ o.page[k].view)
    BY <1>1, <2>2 DEF UpsertPage, DeletePage, Upserted
  <2>3. CASE o.pc = "delete"
    BY <1>1, <2>3 DEF UpsertPage, DeletePage, Deleted
  <2> QED
    BY <1>1, <2>1, <2>2, <2>3
<1>7. \A k \in Keys : RevokedLately(k)' => (Gone(k) \/ Safe(k))'
  <2>1. Becomes(p, r) /\ r.op # "none"
    BY <1>1, <1>2, <1>4
  <2>2. \A k \in Keys : RevokedLately(k)' => RevokedLately(k)
    BY <2>1, LatelyShrinks
  <2> QED
    BY <1>6, <2>2 DEF RevokedInv, Gone, Safe
<1>8. ASSUME o.op = "sync", NEW k \in Keys, RevokedLately(k)
      PROVE  rows'[k] = 0 \/ (Delivered(o, k) /\ r.pc = "delete") \/ Beyond(o, k)
  <2>1. Gone(k) \/ Delivered(o, k) \/ Beyond(o, k)
    BY <1>1, <1>3, <1>8 DEF RevokedRun
  <2>2. Delivered(o, k) => k \in RevokedKeys(o.page)
    BY <1>8 DEF Delivered, RevokedKeys, RevokedLately
  <2>3. CASE Gone(k)
    BY <1>6, <1>8, <2>3 DEF Gone, Beyond
  <2>4. CASE Delivered(o, k) /\ o.pc = "upsert"
    BY <1>4, <2>2, <2>4
  <2>5. CASE Delivered(o, k) /\ o.pc = "delete"
    BY <1>1, <2>2, <2>5 DEF UpsertPage, DeletePage, Deleted
  <2> QED
    BY <1>1, <2>1, <2>3, <2>4, <2>5
<1>9. o.op = "sync" =>
        /\ r.wm = syncState.wm /\ r.st.completedAt = syncState.completedAt /\ ~r.next.view
        /\ \A k \in DOMAIN r.page : RevokedLately(k) => r.page[k] = feed[k] \/ Overtaken(r, k)
  BY <1>1, <1>3, <1>4 DEF RevokedRun, Overtaken
<1>10. \A k \in Keys : /\ RevokedLately(k)' => RevokedLately(k)
                       /\ Overtaken(r, k)' <=> Overtaken(o, k)
                       /\ Overtaken(r, k) <=> Overtaken(o, k)
                       /\ Beyond(r, k)' <=> Beyond(o, k)
                       /\ Delivered(r, k)' <=> Delivered(o, k)
                       /\ Delivered(r, k) <=> Delivered(o, k)
  <2>1. \A url, k : Ahead(url, k)' <=> Ahead(url, k)
    BY AheadKept
  <2>2. Becomes(p, r) /\ r.op # "none"
    BY <1>1, <1>2, <1>4
  <2>3. \A k \in Keys : RevokedLately(k)' => RevokedLately(k)
    BY <2>2, LatelyShrinks
  <2> QED
    BY <1>4, <2>1, <2>3 DEF Overtaken, Beyond, Delivered, Resuming
<1>11. RevokedRun(r)'
  <2>1. CASE o.op = "sync"
    BY <1>3, <1>4, <1>8, <1>9, <1>10, <2>1 DEF RevokedRun, Gone
  <2>2. CASE o.op # "sync"
    BY <1>4, <2>2 DEF RevokedRun
  <2> QED
    BY <2>1, <2>2
<1> QED
  BY <1>2, <1>7, <1>11, RevokedStep

\* A command that is not a sync takes a step with no page to write.
LEMMA RevokedIdle ==
    ASSUME TypeOK, RevokedInv, NEW p, Procs = {p}, Slides(p), NEW r, Becomes(p, r),
           r.op # "sync", r.pc # "upsert", UNCHANGED <<feed, now, rows, syncState>>
    PROVE  RevokedInv'
<1>1. RevokedRun(r)'
  BY DEF RevokedRun
<1> QED
  BY <1>1, RevokedMoves

LEMMA RevokedBackfill ==
    ASSUME TypeOK, TypeOK', GapInv, RevokedInv, Since <= InitTime,
           NEW p, Procs = {p}, Slides(p), BackfillNext(p)
    PROVE  RevokedInv'
<1>0. run[p] \in Runs /\ Idle.op = "none" /\ Idle.pc = "idle"
  BY DEF TypeOK, Idle
<1>1. ASSUME NEW force \in BOOLEAN, BackfillStart(p, force) PROVE RevokedInv'
  <2> DEFINE r == [Begin("backfill", "fetch") EXCEPT
                     !.wm = IF Resuming THEN syncState.wm ELSE Since,
                     !.url = IF Resuming THEN syncState.inProgress ELSE BackfillQuery(Since)]
  <2>1. r.op = "backfill" /\ r.pc = "fetch"
    BY DEF Begin, Idle
  <2>2. Becomes(p, r) /\ UNCHANGED <<feed, now, rows, syncState>>
    BY <1>1 DEF BackfillStart
  <2> HIDE DEF r
  <2> QED
    BY <2>1, <2>2, RevokedIdle
<1>2. CASE BackfillCap(p)
  BY <1>0, <1>2, RevokedIdle DEF BackfillCap
<1>3. CASE BackfillFetch(p)
  BY <1>3, RevokedFetch DEF BackfillFetch, Running
<1>4. CASE BackfillReject(p)
  <2> DEFINE r == [run[p] EXCEPT !.rebuilt = TRUE, !.url = BackfillQuery(run[p].wm)]
  <2>1. run[p].op = "backfill" /\ run[p].pc = "fetch"
    BY <1>4 DEF BackfillReject, BackfillRebuild, Running
  <2>2. r.op = "backfill" /\ r.pc = "fetch"
    BY <1>0, <2>1 DEF Runs
  <2>3. Becomes(p, r) /\ UNCHANGED <<feed, now, rows, syncState>>
    BY <1>4 DEF BackfillReject, BackfillRebuild
  <2> HIDE DEF r
  <2> QED
    BY <2>2, <2>3, RevokedIdle
<1>5. CASE BackfillUpsert(p)
  BY <1>5, RevokedStore DEF BackfillUpsert, Running
<1>6. CASE BackfillDelete(p)
  BY <1>6, RevokedStore DEF BackfillDelete, Running
<1>7. CASE BackfillPersist(p)
  <2>1. syncState'.completedAt = 0 /\ UNCHANGED <<feed, now, rows>>
    BY <1>7 DEF BackfillPersist, Checkpoint
  <2>2. run'[p].op = "backfill" /\ run'[p].pc # "upsert"
    <3>1. run[p].op = "backfill"
      BY <1>7 DEF BackfillPersist, Running
    <3> DEFINE r == [run[p] EXCEPT
                       !.pc = IF run[p].next = NoURL THEN "complete" ELSE "fetch",
                       !.wm = MaxModificationTS(run[p].wm, run[p].page),
                       !.url = run[p].next,
                       !.page = EmptyPage,
                       !.next = NoURL,
                       !.rebuilt = FALSE,
                       !.pages = IF MaxPages > 0 THEN @ + 1 ELSE @]
    <3>2. Becomes(p, r)
      BY <1>7 DEF BackfillPersist
    <3>3. r.op = "backfill" /\ r.pc # "upsert"
      BY <1>0, <3>1 DEF Runs
    <3> HIDE DEF r
    <3> QED
      BY <3>2, <3>3 DEF Becomes, TypeOK
  <2> QED
    BY <2>1, <2>2 DEF RevokedInv, RevokedRun, RevokedLately
<1>8. CASE BackfillComplete(p)
  <2>1. syncState'.completedAt = now /\ UNCHANGED <<feed, now, rows>>
    BY <1>8 DEF BackfillComplete
  <2>2. run'[p] = Idle
    BY <1>8 DEF BackfillComplete, Becomes, TypeOK
  <2>3. \A k \in Keys : ~(feed[k].ts > now)
    BY FeedConstants DEF GapInv, TypeOK, FeedRecord, Times
  <2>4. \A k \in Keys : ~RevokedLately(k)'
    BY <2>1, <2>3 DEF RevokedLately
  <2> QED
    BY <1>0, <2>1, <2>2, <2>4 DEF RevokedInv, RevokedRun
<1> QED
  BY <1>1, <1>2, <1>3, <1>4, <1>5, <1>6, <1>7, <1>8 DEF BackfillNext, BackfillStep

\* A sync that starts on, or falls back to, the watermark has ahead of it the
\* revoked records that are still stored.
LEMMA RevokedAhead ==
    ASSUME TypeOK, RevokedInv
    PROVE  /\ ~SyncQuery(syncState.wm).view
           /\ \A k \in Keys : RevokedLately(k) => Gone(k) \/ Ahead(SyncQuery(syncState.wm), k)
<1>1. syncState.wm \in Times
  BY DEF TypeOK, SyncStates
<1> QED
  BY <1>1, AheadOfQuery DEF SyncQuery, Query, RevokedInv, RevokedLately, Safe

\* What is still to come when a page has been stored is not before its mark.
LEMMA BeyondIsLater ==
    ASSUME TypeOK, NEW o \in Runs, PagingInv(o), o.pc = "persist",
           NEW wm, wm = MaxModificationTS(o.wm, o.page),
           NEW k \in Keys, feed[k].ts >= Since, Beyond(o, k)
    PROVE  feed[k].ts >= wm
<1>1. o.page \in Pages /\ o.wm \in Times /\ o.next \in URLs
  BY DEF Runs
<1>2. wm \in {o.wm} \cup {o.page[j].ts : j \in DOMAIN o.page} /\ wm \in Times
  BY <1>1, MaxModificationTSIsLatest
<1>3. wm \in Nat /\ feed[k].ts \in Nat
  BY <1>2, FeedConstants DEF TypeOK, FeedRecord, Times
<1>4. CASE o.next # NoURL /\ Ahead(o.next, k)
  <2>1. Reaches(o.next, wm)
    BY <1>2, <1>4 DEF PagingInv, NextInv
  <2> QED
    BY <1>3, <1>4, <2>1 DEF Reaches
<1>5. CASE Overtaken(o, k)
  <2>1. \A j \in DOMAIN o.page : feed[k].ts >= o.page[j].ts
    BY <1>1, <1>3, <1>5, FeedConstants DEF Overtaken, Pages, FeedRecord, Times
  <2> QED
    BY <1>2, <1>5, <2>1 DEF Overtaken
<1> QED
  BY <1>4, <1>5 DEF Beyond

LEMMA RevokedSync ==
    ASSUME TypeOK, TypeOK', GapInv, RevokedInv, Since <= InitTime,
           NEW p, Procs = {p}, Slides(p), SyncNext(p)
    PROVE  RevokedInv'
<1>0. run[p] \in Runs /\ RevokedRun(run[p])
  BY DEF TypeOK, RevokedInv
<1>1. CASE SyncStart(p)
  <2> DEFINE r == [Begin("sync", "fetch") EXCEPT !.wm = syncState.wm,
                                                 !.url = SyncQuery(syncState.wm)]
  <2>1. /\ r.op = "sync" /\ r.pc = "fetch" /\ r.wm = syncState.wm
        /\ r.st = syncState /\ r.url = SyncQuery(syncState.wm)
    BY DEF Begin, Idle
  <2>2. Becomes(p, r) /\ UNCHANGED <<feed, now, rows, syncState>>
    BY <1>1 DEF SyncStart
  <2> HIDE DEF r
  <2>3. RevokedRun(r)
    BY <2>1, RevokedAhead DEF RevokedRun
  <2> QED
    BY <2>1, <2>2, <2>3, RevokedKept
<1>2. CASE SyncFetch(p)
  BY <1>2, RevokedFetch DEF SyncFetch, Running
<1>3. CASE SyncReject(p)
  <2> DEFINE r == [run[p] EXCEPT !.rebuilt = TRUE, !.url = SyncQuery(run[p].wm)]
  <2>1. run[p].op = "sync" /\ run[p].pc = "fetch"
    BY <1>3 DEF SyncReject, SyncRebuild, Running
  <2>2. /\ r.op = "sync" /\ r.pc = "fetch" /\ r.wm = run[p].wm
        /\ r.st = run[p].st /\ r.url = SyncQuery(run[p].wm)
    BY <1>0, <2>1 DEF Runs
  <2>3. Becomes(p, r) /\ UNCHANGED <<feed, now, rows, syncState>>
    BY <1>3 DEF SyncReject, SyncRebuild
  <2> HIDE DEF r
  <2>4. RevokedRun(r)
    BY <1>0, <2>1, <2>2, RevokedAhead DEF RevokedRun
  <2> QED
    BY <2>2, <2>3, <2>4, RevokedKept
<1>4. CASE SyncUpsert(p)
  BY <1>4, RevokedStore DEF SyncUpsert, Running
<1>5. CASE SyncDelete(p)
  BY <1>5, RevokedStore DEF SyncDelete, Running
<1>6. CASE SyncPersist(p)
  <2>1. PICK o : o = run[p]
    OBVIOUS
  <2>2. PICK wm : wm = MaxModificationTS(o.wm, o.page)
    OBVIOUS
  <2>3. o \in Runs /\ PagingInv(o) /\ RevokedRun(o) /\ o.pc = "persist" /\ o.op = "sync"
    BY <1>0, <1>6, <2>1 DEF GapInv, SyncPersist, Running
  <2>4. /\ syncState'.wm = wm /\ syncState'.completedAt = o.st.completedAt
        /\ UNCHANGED <<feed, now, rows>>
    BY <1>6, <2>1, <2>2, <2>3 DEF SyncPersist, Saved, Runs, SyncStates
  <2>5. o.st.completedAt = syncState.completedAt /\ ~o.next.view
    BY <2>3 DEF RevokedRun
  <2>6. ASSUME NEW k \in Keys, RevokedLately(k)
        PROVE  Gone(k) \/ (feed[k].ts >= wm /\ (o.next # NoURL => Ahead(o.next, k)))
    <3>1. Gone(k) \/ Beyond(o, k)
      BY <2>3, <2>6 DEF RevokedRun
    <3>2. Beyond(o, k) => feed[k].ts >= wm
      BY <2>2, <2>3, <2>6, BeyondIsLater, LatelyWanted
    <3> QED
      BY <3>1, <3>2 DEF Beyond, Overtaken
  <2>7. \A k : Ahead(o.next, k)' <=> Ahead(o.next, k)
    BY <2>4, AheadKept
  <2>8. ASSUME NEW r, Becomes(p, r), NEW k \in Keys, RevokedLately(k)' PROVE (Gone(k) \/ Safe(k))'
    <3>1. RevokedLately(k) \/ Gone(k)'
      BY <2>4, <2>5, <2>8, LatelyShrinks
    <3> QED
      BY <2>4, <2>6, <3>1 DEF Gone, Safe
  <2>9. CASE o.next = NoURL
    <3>1. Becomes(p, Idle)
      BY <1>6, <2>1, <2>9 DEF SyncPersist
    <3>2. RevokedRun(Idle)'
      BY DEF RevokedRun, Idle
    <3> QED
      BY <2>4, <2>5, <2>8, <3>1, <3>2, RevokedStep
  <2>10. CASE o.next # NoURL
    <3>1. PICK r : r = [o EXCEPT !.pc = "fetch", !.wm = wm, !.url = o.next,
                                 !.page = EmptyPage, !.next = NoURL, !.rebuilt = FALSE]
      OBVIOUS
    <3>2. /\ r.op = "sync" /\ r.pc = "fetch" /\ r.wm = wm /\ r.url = o.next
          /\ r.st = o.st /\ Becomes(p, r)
      BY <1>6, <2>1, <2>2, <2>3, <2>10, <3>1 DEF Runs, SyncPersist
    <3>3. \A k \in Keys : RevokedLately(k)' => RevokedLately(k)
      BY <2>4, <2>5, <3>2, LatelyShrinks
    <3>4. RevokedRun(r)'
      BY <2>4, <2>5, <2>6, <2>7, <2>10, <3>2, <3>3 DEF RevokedRun, Gone
    <3> QED
      BY <2>4, <2>5, <2>8, <3>2, <3>4, RevokedStep
  <2> QED
    BY <2>9, <2>10
<1> QED
  BY <1>1, <1>2, <1>3, <1>4, <1>5, <1>6 DEF SyncNext, SyncStep

LEMMA RevokedReconcile ==
    ASSUME TypeOK, TypeOK', GapInv, RevokedInv, Since <= InitTime,
           NEW p, Procs = {p}, Slides(p), ReconcileNext(p)
    PROVE  RevokedInv'
<1>0. run[p] \in Runs /\ Idle.op = "none" /\ Idle.pc = "idle"
  BY DEF TypeOK, Idle
<1>1. CASE ReconcileStart(p)
  <2> DEFINE r == [Begin("reconcile", "sweep") EXCEPT !.url = SweepQuery]
  <2>1. r.op = "reconcile" /\ r.pc = "sweep"
    BY DEF Begin, Idle
  <2>2. Becomes(p, r) /\ UNCHANGED <<feed, now, rows, syncState>>
    BY <1>1 DEF ReconcileStart
  <2> HIDE DEF r
  <2> QED
    BY <2>1, <2>2, RevokedIdle
<1>2. CASE ReconcileSweep(p)
  <2>2. PICK lag, next :
          /\ lag \in Lags
          /\ Becomes(p, [run[p] EXCEPT !.remote = MergeSwept(@, PageOf(run[p].url, lag)),
                                       !.url = next,
                                       !.pc = IF next = NoURL THEN "diff" ELSE "sweep"])
    BY <1>2 DEF ReconcileSweep
  <2> DEFINE r == [run[p] EXCEPT !.remote = MergeSwept(@, PageOf(run[p].url, lag)),
                                 !.url = next,
                                 !.pc = IF next = NoURL THEN "diff" ELSE "sweep"]
  <2>3. r.op = "reconcile" /\ r.pc # "upsert"
    BY <1>0, <1>2 DEF Runs, ReconcileSweep, Running
  <2>4. Becomes(p, r) /\ UNCHANGED <<feed, now, rows, syncState>>
    BY <1>2, <2>2 DEF ReconcileSweep
  <2> HIDE DEF r
  <2> QED
    BY <2>3, <2>4, RevokedIdle
<1>3. CASE ReconcileDiff(p)
  <2> DEFINE r == [run[p] EXCEPT !.pc = "purge", !.remote = EmptyPage,
                                 !.purge = Withdrawn(p), !.refetch = Stale(p)]
  <2>1. r.op = "reconcile" /\ r.pc = "purge"
    BY <1>0, <1>3 DEF Runs, ReconcileDiff, Running
  <2>2. Becomes(p, r) /\ UNCHANGED <<feed, now, rows, syncState>>
    BY <1>3 DEF ReconcileDiff
  <2> HIDE DEF r
  <2> QED
    BY <2>1, <2>2, RevokedIdle
<1>4. CASE ReconcilePurge(p)
  <2>1. PICK chunk \in Chunks(run[p].purge, PurgeChunk) :
           rows' = Deleted(chunk) /\ Becomes(p, [run[p] EXCEPT !.purge = @ \ chunk])
    BY <1>4 DEF ReconcilePurge
  <2>2. PICK r : r = [run[p] EXCEPT !.purge = @ \ chunk]
    OBVIOUS
  <2>3. r.op = "reconcile" /\ r.pc = "purge" /\ Becomes(p, r)
    BY <1>0, <1>4, <2>1, <2>2 DEF Runs, ReconcilePurge, Running
  <2>4. UNCHANGED <<feed, now, syncState>>
    BY <1>4 DEF ReconcilePurge
  <2>5. ASSUME NEW k \in Keys, RevokedLately(k)' PROVE (Gone(k) \/ Safe(k))'
    <3>1. RevokedLately(k)
      BY <2>3, <2>4, <2>5, LatelyShrinks
    <3>2. Gone(k) \/ Safe(k)
      BY <3>1 DEF RevokedInv
    <3>3. rows'[k] = 0 \/ rows'[k] = rows[k]
      BY <2>1 DEF Deleted
    <3> QED
      BY <2>4, <3>2, <3>3 DEF Gone, Safe
  <2>6. RevokedRun(r)'
    BY <2>3 DEF RevokedRun
  <2> QED
    BY <2>3, <2>4, <2>5, <2>6, RevokedStep
<1>5. CASE ReconcilePick(p)
  <2>1. PICK chunk : Becomes(p, [run[p] EXCEPT !.pc = "fetch", !.url = Query(0, TRUE, chunk),
                                               !.refetch = @ \ chunk])
    BY <1>5 DEF ReconcilePick
  <2> DEFINE r == [run[p] EXCEPT !.pc = "fetch", !.url = Query(0, TRUE, chunk),
                                 !.refetch = @ \ chunk]
  <2>2. r.op = "reconcile" /\ r.pc = "fetch"
    BY <1>0, <1>5 DEF Runs, ReconcilePick, Running
  <2>3. Becomes(p, r) /\ UNCHANGED <<feed, now, rows, syncState>>
    BY <1>5, <2>1 DEF ReconcilePick
  <2> HIDE DEF r
  <2> QED
    BY <2>2, <2>3, RevokedIdle
<1>6. CASE ReconcileFetch(p)
  BY <1>6, RevokedFetch DEF ReconcileFetch, Running
<1>7. CASE ReconcileUpsert(p)
  BY <1>7, RevokedStore DEF ReconcileUpsert, Running
<1>8. CASE ReconcileDelete(p)
  BY <1>8, RevokedStore DEF ReconcileDelete, Running
<1>9. CASE ReconcileAdvance(p)
  <2> DEFINE pc == IF run[p].next = NoURL THEN "purge" ELSE "fetch"
             r == [run[p] EXCEPT !.pc = pc, !.url = run[p].next,
                                 !.page = EmptyPage, !.next = NoURL]
  <2>1. r.op = "reconcile" /\ r.pc # "upsert"
    BY <1>0, <1>9 DEF Runs, ReconcileAdvance, Running
  <2>2. Becomes(p, r) /\ UNCHANGED <<feed, now, rows, syncState>>
    BY <1>9 DEF ReconcileAdvance
  <2> HIDE DEF r
  <2> QED
    BY <2>1, <2>2, RevokedIdle
<1>10. CASE ReconcileStamp(p)
  <2>1. run[p].st = syncState
    BY <1>10 DEF ReconcileStamp, Running, GapInv, SweepingInv
  <2>2. /\ syncState'.wm = syncState.wm /\ syncState'.completedAt = syncState.completedAt
        /\ UNCHANGED <<feed, now, rows>> /\ Becomes(p, Idle)
    BY <1>10, <2>1 DEF ReconcileStamp, Stamped, TypeOK, SyncStates
  <2>3. ASSUME NEW k \in Keys, RevokedLately(k)' PROVE (Gone(k) \/ Safe(k))'
    <3>1. RevokedLately(k) \/ Gone(k)'
      BY <2>2, <2>3, LatelyShrinks
    <3> QED
      BY <2>2, <3>1 DEF RevokedInv, Gone, Safe
  <2>4. RevokedRun(Idle)'
    BY <1>0 DEF RevokedRun
  <2> QED
    BY <2>2, <2>3, <2>4, RevokedStep
<1> QED
  BY <1>1, <1>2, <1>3, <1>4, <1>5, <1>6, <1>7, <1>8, <1>9, <1>10
     DEF ReconcileNext, ReconcileStep

LEMMA RevokedNext ==
    ASSUME TypeOK, CursorInv, GapInv, RevokedInv, Since <= InitTime,
           NEW p, Procs = {p}, [OffsetNext]_offsetVars
    PROVE  RevokedInv'
<1>0. TypeOK'
  BY OffsetIsStep, NextTyped
<1>1. CASE FeedNext /\ FeedSlides /\ UNCHANGED <<rows, syncState, run, faults>>
  BY <1>1, RevokedFeed
<1>2. CASE Slides(p) /\ (BackfillNext(p) \/ SyncNext(p) \/ ReconcileNext(p))
  BY <1>0, <1>2, RevokedBackfill, RevokedSync, RevokedReconcile
<1>3. CASE Slides(p) /\ Abort(p)
  BY <1>3, RevokedIdle DEF Abort, Idle
<1>4. CASE UNCHANGED <<vars, slid>>
  <2>1. UNCHANGED <<feed, now, rows, syncState, run, slid>>
    BY <1>4 DEF vars
  <2>2. \A url, k : Ahead(url, k)' <=> Ahead(url, k)
    BY <2>1, AheadKept
  <2>3. ASSUME NEW r, RevokedRun(r) PROVE RevokedRun(r)'
    BY <2>1, <2>2, <2>3
       DEF RevokedRun, RevokedLately, Gone, Safe, Delivered, Beyond, Overtaken, Resuming
  <2> QED
    BY <2>1, <2>3 DEF RevokedInv, RevokedLately, Gone, Safe
<1> QED
  BY <1>1, <1>2, <1>3, <1>4, OffsetIsStep

\* With one process at a time and a --since that is not in the future, a record
\* revoked after the import is gone once the watermark has passed its
\* revocation, unless it slid past the offset of a link.
THEOREM RevokedRecordsGo ==
    ASSUME NEW p, Procs = {p}, Since <= InitTime
    PROVE  OffsetSpec => []RevokedGone
<1>1. OffsetInit => RevokedInv
  BY RevokedInit
<1>2. TypeOK /\ CursorInv /\ GapInv /\ RevokedInv /\ [OffsetNext]_offsetVars => RevokedInv'
  BY RevokedNext
<1>3. TypeOK /\ RevokedInv => RevokedGone
  <2>1. TypeOK => syncState.wm \in Nat /\ \A k \in Keys : feed[k].ts \in Nat
    BY FeedConstants DEF TypeOK, SyncStates, FeedRecord, Times
  <2> QED
    BY <2>1 DEF RevokedInv, RevokedGone, RevokedLately, Gone, Safe
<1> QED
  BY <1>1, <1>2, <1>3, GapInvariant, PTL DEF OffsetSpec

-----------------------------------------------------------------------------
(* PurgesOnlyWithdrawn, under the same hypothesis: what a pass is about to   *)
(* delete is not the current version of a licensed record, or it slid.      *)

Current(k) == rows[k] # 0 /\ Viewable(k) /\ rows[k] = feed[k].ts /\ k \notin slid

\* Nothing in the store or in hand is later than the clock: a record that
\* changes is not current before it is fetched again.
PastInv ==
    /\ \A k \in Keys : feed[k].ts <= now /\ rows[k] <= now
    /\ \A p \in Procs : \A k \in DOMAIN run[p].page : run[p].page[k].ts <= now

\* A current record has been swept or is ahead of the sweep; from the diff on
\* the pass does not mean to delete it, and it fetches again only when it has
\* nothing left to delete.
PurgingRun(r) ==
    r.op = "reconcile" =>
      /\ r.pc = "sweep" =>
           /\ LinkOK(r.url)
           /\ \A k \in Keys : Current(k) => k \in DOMAIN r.remote \/ Ahead(r.url, k)
      /\ r.pc = "diff" => \A k \in Keys : Current(k) => k \in DOMAIN r.remote
      /\ r.pc = "purge" => \A k \in r.purge : ~Current(k)
      /\ r.pc \notin {"sweep", "diff", "purge"} => r.purge = {}

PurgingInv == PastInv /\ \A p \in Procs : PurgingRun(run[p])

LEMMA PurgingInit == OffsetInit => PurgingInv
<1> SUFFICES ASSUME OffsetInit PROVE PurgingInv
  OBVIOUS
<1> USE DEF OffsetInit
<1>1. \A p \in Procs : run[p] = Idle /\ Idle.op = "none" /\ DOMAIN Idle.page = {}
  BY DEF Init, EngineInit, Idle, EmptyPage
<1>2. \A k \in Keys : feed[k].ts <= now /\ rows[k] <= now
  <2>1. \A k \in Keys : feed[k].ts <= now
    BY GapInit DEF GapInv
  <2>2. \A k \in Keys : rows[k] = 0
    BY DEF Init, EngineInit
  <2>3. now = InitTime
    BY DEF Init, FeedInit
  <2> QED
    BY <2>1, <2>2, <2>3, FeedConstants
<1> QED
  BY <1>1, <1>2 DEF PurgingInv, PastInv, PurgingRun

\* A step that leaves the feed alone writes what is in hand, and takes in hand
\* what the feed holds.
LEMMA PastKept ==
    ASSUME TypeOK, PastInv, NEW p \in Procs, NEW r, Becomes(p, r), UNCHANGED <<feed, now>>,
           \A k \in Keys : \/ rows'[k] \in {0, rows[k]}
                           \/ k \in DOMAIN run[p].page /\ rows'[k] = run[p].page[k].ts,
           \A k \in DOMAIN r.page :
              \/ k \in Keys /\ r.page[k] = feed[k]
              \/ k \in DOMAIN run[p].page /\ r.page[k] = run[p].page[k]
    PROVE  PastInv'
<1>1. now \in Nat
  BY FeedConstants DEF TypeOK, Times
<1>2. \A k \in Keys : feed'[k].ts <= now' /\ rows'[k] <= now'
  BY <1>1 DEF PastInv
<1>3. \A k \in DOMAIN r.page : r.page[k].ts <= now'
  BY DEF PastInv
<1>4. \A q \in Procs : run'[q] = IF q = p THEN r ELSE run[q]
  BY DEF Becomes, TypeOK
<1> QED
  BY <1>2, <1>3, <1>4 DEF PastInv

LEMMA PastFetch ==
    ASSUME TypeOK, PastInv, NEW p \in Procs, FetchPage(p), UNCHANGED <<feed, now, rows>>
    PROVE  PastInv'
<1>0. run[p] \in Runs
  BY DEF TypeOK
<1>1. PICK lag, next : Becomes(p, [run[p] EXCEPT !.pc = "upsert",
                                                 !.page = PageOf(run[p].url, lag),
                                                 !.next = next])
  BY DEF FetchPage
<1>2. PICK page : page = PageOf(run[p].url, lag)
  OBVIOUS
<1>3. PICK r : r = [run[p] EXCEPT !.pc = "upsert", !.page = page, !.next = next]
  OBVIOUS
<1>4. r.page = page
  BY <1>0, <1>3 DEF Runs
<1>5. \A k \in DOMAIN page : k \in Keys /\ page[k] = feed[k]
  BY <1>0, <1>2 DEF PageOf, PageKeys, Matching, Runs, URLs
<1> QED
  BY <1>1, <1>2, <1>3, <1>4, <1>5, PastKept

LEMMA PastStore ==
    ASSUME TypeOK, PastInv, NEW p \in Procs, NEW done,
           UpsertPage(p, done) \/ DeletePage(p, done), UNCHANGED <<feed, now>>
    PROVE  PastInv'
<1>0. run[p] \in Runs
  BY DEF TypeOK
<1>1. PICK pc : Becomes(p, [run[p] EXCEPT !.pc = pc])
  BY DEF UpsertPage, DeletePage
<1>2. PICK r : r = [run[p] EXCEPT !.pc = pc]
  OBVIOUS
<1>3. r.page = run[p].page
  BY <1>0, <1>2 DEF Runs
<1>4. \A k \in Keys : \/ rows'[k] \in {0, rows[k]}
                      \/ k \in DOMAIN run[p].page /\ rows'[k] = run[p].page[k].ts
  BY DEF UpsertPage, DeletePage, Upserted, Deleted
<1> QED
  BY <1>1, <1>2, <1>3, <1>4, PastKept

\* A step that keeps the rows and keeps or drops the page.
LEMMA PastAside ==
    ASSUME TypeOK, PastInv, NEW p \in Procs, NEW r, Becomes(p, r),
           UNCHANGED <<feed, now, rows>>, r.page \in {EmptyPage, run[p].page}
    PROVE  PastInv'
<1>1. DOMAIN EmptyPage = {}
  BY DEF EmptyPage
<1> QED
  BY <1>1, PastKept

LEMMA PastNext ==
    ASSUME TypeOK, PastInv, NEW p \in Procs,
           BackfillNext(p) \/ SyncNext(p) \/ ReconcileNext(p) \/ Abort(p)
    PROVE  PastInv'
<1>0. run[p] \in Runs /\ Idle.page = EmptyPage
  BY DEF TypeOK, Idle
<1> DEFINE Aside == \E r : Becomes(p, r) /\ r.page \in {EmptyPage, run[p].page}
<1>1. Aside /\ UNCHANGED <<feed, now, rows>> => PastInv'
  BY PastAside
<1>2. Becomes(p, Idle) => Aside
  BY <1>0
<1>3. ASSUME NEW force \in BOOLEAN, BackfillStart(p, force) PROVE PastInv'
  <2> DEFINE r == [Begin("backfill", "fetch") EXCEPT
                     !.wm = IF Resuming THEN syncState.wm ELSE Since,
                     !.url = IF Resuming THEN syncState.inProgress ELSE BackfillQuery(Since)]
  <2>1. r.page = EmptyPage
    BY DEF Begin, Idle
  <2>2. Becomes(p, r) /\ UNCHANGED <<feed, now, rows>>
    BY <1>3 DEF BackfillStart
  <2> HIDE DEF r
  <2> QED
    BY <1>1, <2>1, <2>2
<1>4. CASE SyncStart(p)
  <2> DEFINE r == [Begin("sync", "fetch") EXCEPT !.wm = syncState.wm,
                                                 !.url = SyncQuery(syncState.wm)]
  <2>1. r.page = EmptyPage
    BY DEF Begin, Idle
  <2>2. Becomes(p, r) /\ UNCHANGED <<feed, now, rows>>
    BY <1>4 DEF SyncStart
  <2> HIDE DEF r
  <2> QED
    BY <1>1, <2>1, <2>2
<1>5. CASE ReconcileStart(p)
  <2> DEFINE r == [Begin("reconcile", "sweep") EXCEPT !.url = SweepQuery]
  <2>1. r.page = EmptyPage
    BY DEF Begin, Idle
  <2>2. Becomes(p, r) /\ UNCHANGED <<feed, now, rows>>
    BY <1>5 DEF ReconcileStart
  <2> HIDE DEF r
  <2> QED
    BY <1>1, <2>1, <2>2
<1>6. CASE BackfillCap(p) \/ BackfillComplete(p) \/ ReconcileStamp(p) \/ Abort(p)
  BY <1>1, <1>2, <1>6 DEF BackfillCap, BackfillComplete, ReconcileStamp, Abort
<1>7. CASE BackfillReject(p) \/ SyncReject(p)
  <2>1. PICK url : Becomes(p, [run[p] EXCEPT !.rebuilt = TRUE, !.url = url])
    BY <1>7 DEF BackfillReject, BackfillRebuild, SyncReject, SyncRebuild
  <2>2. PICK r : r = [run[p] EXCEPT !.rebuilt = TRUE, !.url = url]
    OBVIOUS
  <2>3. r.page = run[p].page
    BY <1>0, <2>2 DEF Runs
  <2>4. UNCHANGED <<feed, now, rows>>
    BY <1>7 DEF BackfillReject, BackfillRebuild, SyncReject, SyncRebuild
  <2> QED
    BY <1>1, <2>1, <2>2, <2>3, <2>4
<1>8. CASE BackfillFetch(p) \/ SyncFetch(p) \/ ReconcileFetch(p)
  BY <1>8, PastFetch DEF BackfillFetch, SyncFetch, ReconcileFetch
<1>9. CASE \/ BackfillUpsert(p) \/ SyncUpsert(p) \/ ReconcileUpsert(p)
           \/ BackfillDelete(p) \/ SyncDelete(p) \/ ReconcileDelete(p)
  BY <1>9, PastStore DEF BackfillUpsert, SyncUpsert, ReconcileUpsert,
                         BackfillDelete, SyncDelete, ReconcileDelete
<1>10. CASE BackfillPersist(p)
  <2> DEFINE wm == MaxModificationTS(run[p].wm, run[p].page)
             next == run[p].next
             r == [run[p] EXCEPT !.pc = IF next = NoURL THEN "complete" ELSE "fetch",
                                 !.wm = wm, !.url = next, !.page = EmptyPage,
                                 !.next = NoURL, !.rebuilt = FALSE,
                                 !.pages = IF MaxPages > 0 THEN @ + 1 ELSE @]
  <2>1. r.page = EmptyPage
    BY <1>0 DEF Runs
  <2>2. Becomes(p, r) /\ UNCHANGED <<feed, now, rows>>
    BY <1>10 DEF BackfillPersist
  <2> HIDE DEF r
  <2> QED
    BY <1>1, <2>1, <2>2
<1>11. CASE SyncPersist(p)
  <2> DEFINE wm == MaxModificationTS(run[p].wm, run[p].page)
             next == run[p].next
             r == [run[p] EXCEPT !.pc = "fetch", !.wm = wm, !.url = next,
                                 !.page = EmptyPage, !.next = NoURL, !.rebuilt = FALSE]
  <2>1. r.page = EmptyPage
    BY <1>0 DEF Runs
  <2>2. Becomes(p, IF next = NoURL THEN Idle ELSE r) /\ UNCHANGED <<feed, now, rows>>
    BY <1>11 DEF SyncPersist
  <2> HIDE DEF r
  <2> QED
    BY <1>1, <1>2, <2>1, <2>2
<1>12. CASE ReconcileSweep(p)
  <2>1. PICK remote, next, pc :
          Becomes(p, [run[p] EXCEPT !.remote = remote, !.url = next, !.pc = pc])
    BY <1>12 DEF ReconcileSweep
  <2>2. PICK r : r = [run[p] EXCEPT !.remote = remote, !.url = next, !.pc = pc]
    OBVIOUS
  <2>3. r.page = run[p].page
    BY <1>0, <2>2 DEF Runs
  <2> QED
    BY <1>1, <1>12, <2>1, <2>2, <2>3 DEF ReconcileSweep
<1>13. CASE ReconcileDiff(p)
  <2>1. PICK remote, purge, refetch :
          Becomes(p, [run[p] EXCEPT !.pc = "purge", !.remote = remote, !.purge = purge,
                                    !.refetch = refetch])
    BY <1>13 DEF ReconcileDiff
  <2>2. PICK r : r = [run[p] EXCEPT !.pc = "purge", !.remote = remote, !.purge = purge,
                                    !.refetch = refetch]
    OBVIOUS
  <2>3. r.page = run[p].page
    BY <1>0, <2>2 DEF Runs
  <2> QED
    BY <1>1, <1>13, <2>1, <2>2, <2>3 DEF ReconcileDiff
<1>14. CASE ReconcilePurge(p)
  <2>1. PICK chunk : rows' = Deleted(chunk) /\ Becomes(p, [run[p] EXCEPT !.purge = @ \ chunk])
    BY <1>14 DEF ReconcilePurge
  <2>2. PICK r : r = [run[p] EXCEPT !.purge = @ \ chunk]
    OBVIOUS
  <2>3. r.page = run[p].page
    BY <1>0, <2>2 DEF Runs
  <2>4. \A k \in Keys : rows'[k] \in {0, rows[k]}
    BY <2>1 DEF Deleted
  <2> QED
    BY <1>14, <2>1, <2>2, <2>3, <2>4, PastKept DEF ReconcilePurge
<1>15. CASE ReconcilePick(p)
  <2>1. PICK chunk : Becomes(p, [run[p] EXCEPT !.pc = "fetch", !.url = Query(0, TRUE, chunk),
                                               !.refetch = @ \ chunk])
    BY <1>15 DEF ReconcilePick
  <2>2. PICK r : r = [run[p] EXCEPT !.pc = "fetch", !.url = Query(0, TRUE, chunk),
                                    !.refetch = @ \ chunk]
    OBVIOUS
  <2>3. r.page = run[p].page
    BY <1>0, <2>2 DEF Runs
  <2> QED
    BY <1>1, <1>15, <2>1, <2>2, <2>3 DEF ReconcilePick
<1>16. CASE ReconcileAdvance(p)
  <2> DEFINE r == [run[p] EXCEPT !.pc = IF run[p].next = NoURL THEN "purge" ELSE "fetch",
                                 !.url = run[p].next, !.page = EmptyPage, !.next = NoURL]
  <2>1. r.page = EmptyPage
    BY <1>0 DEF Runs
  <2>2. Becomes(p, r) /\ UNCHANGED <<feed, now, rows>>
    BY <1>16 DEF ReconcileAdvance
  <2> HIDE DEF r
  <2> QED
    BY <1>1, <2>1, <2>2
<1> QED
  BY <1>3, <1>4, <1>5, <1>6, <1>7, <1>8, <1>9, <1>10, <1>11, <1>12, <1>13, <1>14, <1>15, <1>16
     DEF BackfillNext, BackfillStep, SyncNext, SyncStep, ReconcileNext, ReconcileStep

\* What stays as it is and ahead of the sweep remains so, unless it slides.
LEMMA SweepFollows ==
    ASSUME FeedSlides, NEW url \in LinksInUse, NEW k \in Keys, Current(k)',
           feed'[k] = feed[k], Ahead(url, k)
    PROVE  Ahead(url, k)'
<1>1. k \in Matching(url, {})'
  BY DEF Ahead, Matching
<1> QED
  BY <1>1 DEF FeedSlides, SlidByFeed, Current

\* While the run goes on, what has slid stays.
LEMMA CurrentShrinks ==
    ASSUME TypeOK, NEW p, Procs = {p}, NEW r, Becomes(p, r), r.op # "none", Slides(p),
           UNCHANGED feed, NEW k \in Keys, Current(k)', rows'[k] \in {0, rows[k]}
    PROVE  Current(k)
<1>1. run'[p] = r
  BY DEF Becomes, TypeOK
<1>2. ~AllIdle'
  BY <1>1 DEF AllIdle, Idle
<1>3. k \notin slid
  BY <1>2 DEF Slides, Current
<1> QED
  BY <1>3 DEF Current, Viewable

\* What the feed does may end a version, and makes none of the store current.
LEMMA PurgingFeed ==
    ASSUME TypeOK, PurgingInv, FeedNext, FeedSlides, UNCHANGED <<rows, syncState, run, faults>>
    PROVE  PurgingInv'
<1>1. /\ now' \in Times /\ now <= now'
      /\ \A k \in Keys : feed'[k].ts <= now'
  BY FeedChange DEF PurgingInv, PastInv
<1>2. now \in Nat /\ now' \in Nat /\ \A k \in Keys : rows[k] \in Nat
  BY <1>1, FeedConstants DEF TypeOK, Times
<1>3. \A p \in Procs : \A k \in DOMAIN run[p].page : run[p].page[k].ts \in Nat
  BY FeedConstants DEF TypeOK, Runs, Pages, FeedRecord, Times
<1>4. PastInv'
  BY <1>1, <1>2, <1>3 DEF PurgingInv, PastInv
<1>5. ASSUME NEW k \in Keys, Current(k)' PROVE Current(k) /\ feed'[k] = feed[k]
  <2>1. rows[k] # 0 /\ rows[k] <= now /\ feed'[k].listed /\ rows[k] = feed'[k].ts
    BY <1>5 DEF Current, Viewable, PurgingInv, PastInv
  <2>2. \/ now' = now + 1 /\ feed'[k].ts = now'
        \/ feed'[k] = feed[k]
        \/ ~feed'[k].listed
    BY <2>1, <1>2 DEF FeedNext, Modify, Revoke, Expire, TypeOK, FeedRecord
  <2>3. feed'[k] = feed[k]
    BY <1>2, <2>1, <2>2
  <2> QED
    BY <1>5, <2>3 DEF Current, Viewable, FeedSlides
<1>6. ASSUME NEW p \in Procs PROVE PurgingRun(run[p])'
  <2>1. PurgingRun(run[p]) /\ run[p].url \in URLs /\ run[p].purge \subseteq Keys
    BY DEF PurgingInv, TypeOK, Runs
  <2>2. LinkOK(run[p].url) => LinkOK(run[p].url)'
    BY <1>1, <2>1, LinkKeepsOK
  <2>3. ASSUME run[p].op = "reconcile", run[p].pc = "sweep", NEW k \in Keys, Current(k)'
        PROVE  k \in DOMAIN run[p].remote \/ Ahead(run[p].url, k)'
    <3>1. k \in DOMAIN run[p].remote \/ Ahead(run[p].url, k)
      BY <1>5, <2>1, <2>3 DEF PurgingRun
    <3>2. run[p].url \in LinksInUse
      BY <2>3 DEF LinksInUse, LinkOf
    <3> QED
      BY <1>5, <2>3, <3>1, <3>2, SweepFollows
  <2> QED
    BY <1>5, <2>1, <2>2, <2>3 DEF PurgingRun
<1> QED
  BY <1>4, <1>6 DEF PurgingInv

LEMMA PurgingStep ==
    ASSUME NEW p, Procs = {p}, TypeOK, PastInv', NEW r, Becomes(p, r), PurgingRun(r)'
    PROVE  PurgingInv'
<1>1. run'[p] = r
  BY DEF Becomes, TypeOK
<1> QED
  BY <1>1 DEF PurgingInv, PurgingRun

\* A step of a pass that has no more to delete.
LEMMA PurgingGoesOn ==
    ASSUME NEW p, Procs = {p}, TypeOK, PastInv', NEW r, Becomes(p, r),
           r.pc \notin {"sweep", "diff"}, r.purge = {}
    PROVE  PurgingInv'
<1>1. PurgingRun(r)'
  BY DEF PurgingRun
<1> QED
  BY <1>1, PurgingStep

LEMMA PurgingReconcile ==
    ASSUME TypeOK, PurgingInv, NEW p, Procs = {p}, Slides(p), ReconcileNext(p)
    PROVE  PurgingInv'
<1>0. /\ run[p] \in Runs /\ run[p].url \in URLs /\ Idle.op = "none"
      /\ PurgingRun(run[p]) /\ PastInv
  BY DEF TypeOK, Runs, Idle, PurgingInv
<1>p. PastInv'
  BY <1>0, PastNext
<1>1. CASE ReconcileStart(p)
  <2>1. PICK r : r = [Begin("reconcile", "sweep") EXCEPT !.url = SweepQuery]
    OBVIOUS
  <2>2. r.op = "reconcile" /\ r.pc = "sweep" /\ r.url = SweepQuery
    BY <2>1 DEF Begin, Idle
  <2>3. Becomes(p, r) /\ UNCHANGED <<feed, now, rows>>
    BY <1>1, <2>1 DEF ReconcileStart
  <2>4. 0 \in Times /\ Bounded(0)
    BY FeedConstants DEF TypeOK, Times, Bounded
  <2>5. LinkOK(SweepQuery)
    BY <2>4, QueryLinkOK DEF SweepQuery
  <2>6. \A k \in Keys : feed[k].ts >= 0
    BY FeedConstants DEF TypeOK, FeedRecord, Times
  <2>7. \A k \in Keys : Current(k)' => Ahead(SweepQuery, k)'
    <3>1. \A k \in Keys : Viewable(k) => Ahead(SweepQuery, k)
      BY <2>4, <2>6, AheadOfQuery DEF SweepQuery, Viewable
    <3>2. \A k : Ahead(SweepQuery, k)' <=> Ahead(SweepQuery, k)
      BY <2>3, AheadKept
    <3> QED
      BY <2>3, <3>1, <3>2 DEF Current, Viewable
  <2>8. PurgingRun(r)'
    BY <2>2, <2>3, <2>5, <2>7 DEF PurgingRun, LinkOK, Bounded
  <2> QED
    BY <1>p, <2>3, <2>8, PurgingStep
<1>2. CASE ReconcileSweep(p)
  <2>1. PICK lag, next :
           /\ lag \in Lags
           /\ next = NextLink(run[p].url, lag)
           /\ Becomes(p, [run[p] EXCEPT !.remote = MergeSwept(@, PageOf(run[p].url, lag)),
                                        !.url = next,
                                        !.pc = IF next = NoURL THEN "diff" ELSE "sweep"])
    BY <1>2 DEF ReconcileSweep
  <2>3. PICK remote : remote = MergeSwept(run[p].remote, PageOf(run[p].url, lag))
    OBVIOUS
  <2>4. PICK r : r = [run[p] EXCEPT !.remote = remote, !.url = next,
                                    !.pc = IF next = NoURL THEN "diff" ELSE "sweep"]
    OBVIOUS
  <2>5. /\ run[p].op = "reconcile" /\ run[p].pc = "sweep" /\ UNCHANGED <<feed, now, rows>>
    BY <1>2 DEF ReconcileSweep, Running
  <2>6. /\ r.op = "reconcile" /\ r.pc = IF next = NoURL THEN "diff" ELSE "sweep"
        /\ r.url = next /\ r.remote = remote
    BY <1>0, <2>4, <2>5 DEF Runs
  <2>7. Becomes(p, r) /\ r.op # "none" /\ Answered(p)
    <3>1. Becomes(p, r)
      BY <2>1, <2>3, <2>4
    <3>2. run'[p] = r
      BY <3>1 DEF Becomes, TypeOK
    <3> QED
      BY <2>5, <2>6, <3>1, <3>2 DEF Answered
  <2>8. DOMAIN remote = DOMAIN run[p].remote \cup PageKeys(run[p].url, lag)
    BY <2>3 DEF MergeSwept, PageOf
  <2>9. LinkOK(run[p].url)
    BY <1>0, <2>5 DEF PurgingRun
  <2>10. /\ next # NoURL => LinkOK(next)
         /\ \A k \in Keys : Ahead(run[p].url, k) =>
              k \in PageKeys(run[p].url, {}) \/ (next # NoURL /\ Ahead(next, k))
    BY <1>0, <2>1, <2>9, FetchDelivers
  <2>11. ASSUME NEW k \in Keys, Current(k)'
         PROVE  k \in DOMAIN remote \/ (next # NoURL /\ Ahead(next, k))
    <3>1. Current(k)
      BY <2>5, <2>7, <2>11, CurrentShrinks
    <3>2. k \in DOMAIN run[p].remote \/ Ahead(run[p].url, k)
      BY <1>0, <2>5, <3>1 DEF PurgingRun
    <3>3. k \in PageKeys(run[p].url, {}) => k \in DOMAIN remote
      BY <2>6, <2>7, <2>11, PageHasScope DEF Held, Current
    <3> QED
      BY <2>8, <2>10, <3>2, <3>3
  <2>12. /\ \A k : Ahead(next, k)' <=> Ahead(next, k)
         /\ LinkOK(next)' <=> LinkOK(next)
    BY <2>5, AheadKept DEF LinkOK, Bounded
  <2>13. PurgingRun(r)'
    <3>1. CASE next = NoURL
      BY <2>6, <2>11, <2>12, <3>1 DEF PurgingRun
    <3>2. CASE next # NoURL
      BY <2>6, <2>10, <2>11, <2>12, <3>2 DEF PurgingRun
    <3> QED
      BY <3>1, <3>2
  <2> QED
    BY <1>p, <2>7, <2>13, PurgingStep
<1>3. CASE ReconcileDiff(p)
  <2>1. PICK purge, refetch : /\ purge = Withdrawn(p)
                              /\ Becomes(p, [run[p] EXCEPT !.pc = "purge",
                                                           !.remote = EmptyPage,
                                                           !.purge = purge,
                                                           !.refetch = refetch])
    BY <1>3 DEF ReconcileDiff
  <2>2. PICK r : r = [run[p] EXCEPT !.pc = "purge", !.remote = EmptyPage, !.purge = purge,
                                    !.refetch = refetch]
    OBVIOUS
  <2>3. run[p].op = "reconcile" /\ run[p].pc = "diff" /\ UNCHANGED <<feed, now, rows>>
    BY <1>3 DEF ReconcileDiff, Running
  <2>4. r.op = "reconcile" /\ r.pc = "purge" /\ r.purge = purge /\ Becomes(p, r)
    BY <1>0, <2>1, <2>2, <2>3 DEF Runs
  <2>5. \A k \in purge : ~Current(k) /\ k \in Keys
    BY <1>0, <2>1, <2>3 DEF PurgingRun, Withdrawn, Swept
  <2>51. \A k \in Keys : Current(k)' => Current(k)
    BY <2>3, <2>4, CurrentShrinks
  <2>6. PurgingRun(r)'
    BY <2>4, <2>5, <2>51 DEF PurgingRun
  <2> QED
    BY <1>p, <2>1, <2>2, <2>6, PurgingStep
<1>4. CASE ReconcilePurge(p)
  <2>1. PICK chunk : rows' = Deleted(chunk) /\ Becomes(p, [run[p] EXCEPT !.purge = @ \ chunk])
    BY <1>4 DEF ReconcilePurge
  <2>2. PICK r : r = [run[p] EXCEPT !.purge = @ \ chunk]
    OBVIOUS
  <2>3. run[p].op = "reconcile" /\ run[p].pc = "purge" /\ UNCHANGED <<feed, now>>
    BY <1>4 DEF ReconcilePurge, Running
  <2>4. /\ r.op = "reconcile" /\ r.pc = "purge"
        /\ r.purge = run[p].purge \ chunk /\ r.purge \subseteq Keys
    BY <1>0, <2>2, <2>3 DEF Runs
  <2>5. ASSUME NEW k \in r.purge PROVE ~Current(k)'
    <3>1. ~Current(k) /\ k \in Keys
      BY <1>0, <2>3, <2>4 DEF PurgingRun
    <3>2. rows'[k] \in {0, rows[k]} /\ Becomes(p, r)
      BY <2>1, <2>2, <3>1 DEF Deleted
    <3> QED
      BY <2>3, <2>4, <3>1, <3>2, CurrentShrinks
  <2>6. PurgingRun(r)'
    BY <2>4, <2>5 DEF PurgingRun
  <2> QED
    BY <1>p, <2>1, <2>2, <2>6, PurgingStep
<1>5. CASE ReconcilePick(p)
  <2>1. PICK chunk : Becomes(p, [run[p] EXCEPT !.pc = "fetch", !.url = Query(0, TRUE, chunk),
                                               !.refetch = @ \ chunk])
    BY <1>5 DEF ReconcilePick
  <2>2. PICK r : r = [run[p] EXCEPT !.pc = "fetch", !.url = Query(0, TRUE, chunk),
                                    !.refetch = @ \ chunk]
    OBVIOUS
  <2>3. r.pc = "fetch" /\ r.purge = {}
    BY <1>0, <1>5, <2>2 DEF Runs, ReconcilePick
  <2> QED
    BY <1>p, <2>1, <2>2, <2>3, PurgingGoesOn
<1>6. CASE ReconcileFetch(p)
  <2>1. PICK page, next : Becomes(p, [run[p] EXCEPT !.pc = "upsert", !.page = page,
                                                    !.next = next])
    BY <1>6 DEF ReconcileFetch, FetchPage
  <2>2. PICK r : r = [run[p] EXCEPT !.pc = "upsert", !.page = page, !.next = next]
    OBVIOUS
  <2>3. r.pc = "upsert" /\ r.purge = {}
    BY <1>0, <1>6, <2>2 DEF Runs, ReconcileFetch, Running, PurgingRun
  <2> QED
    BY <1>p, <2>1, <2>2, <2>3, PurgingGoesOn
<1>7. CASE ReconcileUpsert(p) \/ ReconcileDelete(p)
  <2>1. PICK pc \in {"advance", "delete"} : Becomes(p, [run[p] EXCEPT !.pc = pc])
    BY <1>7 DEF ReconcileUpsert, ReconcileDelete, UpsertPage, DeletePage
  <2>2. PICK r : r = [run[p] EXCEPT !.pc = pc]
    OBVIOUS
  <2>3. run[p].op = "reconcile" /\ run[p].pc \in {"upsert", "delete"}
    BY <1>7 DEF ReconcileUpsert, ReconcileDelete, Running
  <2>4. r.pc = pc /\ r.purge = {}
    BY <1>0, <2>2, <2>3 DEF Runs, PurgingRun
  <2> QED
    BY <1>p, <2>1, <2>2, <2>4, PurgingGoesOn
<1>8. CASE ReconcileAdvance(p)
  <2>1. PICK pc \in {"purge", "fetch"}, url \in {run[p].next} :
          Becomes(p, [run[p] EXCEPT !.pc = pc, !.url = url, !.page = EmptyPage,
                                    !.next = NoURL])
    BY <1>8 DEF ReconcileAdvance
  <2>2. PICK r : r = [run[p] EXCEPT !.pc = pc, !.url = url, !.page = EmptyPage,
                                    !.next = NoURL]
    OBVIOUS
  <2>3. run[p].op = "reconcile" /\ run[p].pc = "advance"
    BY <1>8 DEF ReconcileAdvance, Running
  <2>4. r.pc = pc /\ r.purge = {}
    BY <1>0, <2>2, <2>3 DEF Runs, PurgingRun
  <2> QED
    BY <1>p, <2>1, <2>2, <2>4, PurgingGoesOn
<1>9. CASE ReconcileStamp(p)
  <2>1. PurgingRun(Idle)'
    BY <1>0 DEF PurgingRun
  <2> QED
    BY <1>9, <1>p, <2>1, PurgingStep DEF ReconcileStamp
<1> QED
  BY <1>1, <1>2, <1>3, <1>4, <1>5, <1>6, <1>7, <1>8, <1>9 DEF ReconcileNext, ReconcileStep

LEMMA PurgingNext ==
    ASSUME TypeOK, PurgingInv, NEW p, Procs = {p}, [OffsetNext]_offsetVars
    PROVE  PurgingInv'
<1>0. PastInv /\ Idle.op = "none"
  BY DEF PurgingInv, Idle
<1>1. CASE FeedNext /\ FeedSlides /\ UNCHANGED <<rows, syncState, run, faults>>
  BY <1>1, PurgingFeed
<1>2. CASE BackfillNext(p) \/ SyncNext(p)
  <2>1. PastInv' /\ run'[p].op # "reconcile"
    BY <1>0, <1>2, PastNext, OtherEngines
  <2> QED
    BY <2>1 DEF PurgingInv, PurgingRun
<1>3. CASE Slides(p) /\ ReconcileNext(p)
  BY <1>3, PurgingReconcile
<1>4. CASE Abort(p)
  <2>1. PastInv' /\ Becomes(p, Idle)
    BY <1>0, <1>4, PastNext DEF Abort
  <2>2. PurgingRun(Idle)'
    BY <1>0 DEF PurgingRun
  <2> QED
    BY <2>1, <2>2, PurgingStep
<1>5. CASE UNCHANGED <<vars, slid>>
  <2>1. UNCHANGED <<feed, now, rows, run, slid>>
    BY <1>5 DEF vars
  <2>2. \A url, k : Ahead(url, k)' <=> Ahead(url, k)
    BY <2>1, AheadKept
  <2> QED
    BY <2>1, <2>2 DEF PurgingInv, PastInv, PurgingRun, Current, Viewable, LinkOK, Bounded
<1> QED
  BY <1>1, <1>2, <1>3, <1>4, <1>5, OffsetIsStep

\* With one process at a time, a purge never deletes the current version of a
\* licensed record, unless it slid past an offset of the sweep: whatever the
\* feed did between the sweep, the diff and the last chunk.
THEOREM PurgesSpareTheLicensed ==
    ASSUME NEW only, Procs = {only}
    PROVE  OffsetSpec => PurgesOnlyWithdrawn
<1>1. OffsetInit => PurgingInv
  BY PurgingInit
<1>2. TypeOK /\ PurgingInv /\ [OffsetNext]_offsetVars => PurgingInv'
  BY PurgingNext
<1>3. TypeOK /\ PurgingInv =>
        [\A p \in Procs, k \in Keys :
          Running(p, "reconcile", "purge") /\ ReconcilePurge(p) /\ rows[k] # 0 /\ rows'[k] = 0
              => ~(Viewable(k) /\ rows[k] = feed[k].ts) \/ k \in slid]_offsetVars
  <2>1. ASSUME TypeOK, PurgingInv, NEW p \in Procs, NEW k \in Keys,
               Running(p, "reconcile", "purge"), ReconcilePurge(p),
               rows[k] # 0, rows'[k] = 0
        PROVE  ~(Viewable(k) /\ rows[k] = feed[k].ts) \/ k \in slid
    <3>1. PICK chunk \in Chunks(run[p].purge, PurgeChunk) : rows' = Deleted(chunk)
      BY <2>1 DEF ReconcilePurge
    <3>2. k \in run[p].purge
      BY <2>1, <3>1 DEF Deleted, Chunks
    <3>3. ~Current(k)
      BY <2>1, <3>2 DEF PurgingInv, PurgingRun, Running
    <3> QED
      BY <2>1, <3>3 DEF Current
  <2> QED
    BY <2>1
<1>4. OffsetSpec => [](TypeOK /\ CursorInv)
  BY OffsetsTyped
<1> QED
  BY <1>1, <1>2, <1>3, <1>4, PTL DEF OffsetSpec, PurgesOnlyWithdrawn

-----------------------------------------------------------------------------
(* WholeFeedImported, for any number of processes, where a query is cut at  *)
(* an offset.  As long as the feed is as it was, a page is what it holds    *)
(* and a link names the same place whenever it is followed: a query has     *)
(* left to deliver what its offset has not passed.                          *)

\* All that the feed lists is licensed, as when it was first looked at.
Untouched == \A k \in Keys : feed[k].listed => feed[k].view

\* What the query of the link has left to deliver.
Remaining(url) == {k \in Matching(url, {}) : Rank(url, {}, k) >= url.skip}

Whole == \A k \in Keys : Wanted(k) => Stored(k)

\* The watermark is not past what the link has left to deliver.
Late(url, t) == \A k \in Remaining(url) : t <= feed[k].ts

\* An import that goes on from the link, or from the watermark, is complete
\* once it ends.
GoesOn(url, t) ==
    /\ Late(url, t)
    /\ \A k \in Keys : Wanted(k) => Stored(k) \/ k \in Remaining(url)

ImportRun(r) ==
    /\ r.pc = "fetch" => GoesOn(r.url, r.wm)
    /\ r.pc \in {"upsert", "delete", "persist"} =>
         /\ Late(r.next, r.wm)
         /\ \A j \in DOMAIN r.page : Late(r.next, r.page[j].ts)
         /\ \A k \in Keys : Wanted(k) => \/ Stored(k) \/ k \in Remaining(r.next)
                                         \/ r.pc = "upsert" /\ k \in DOMAIN r.page
    /\ r.pc = "complete" => Whole

\* A pass that begins after the import deletes nothing that is licensed.
PassRun(r) ==
    /\ r.pc = "sweep" =>
         \A k \in Keys : Viewable(k) => k \in DOMAIN r.remote \/ k \in Remaining(r.url)
    /\ r.pc = "diff" => \A k \in Keys : Viewable(k) => k \in DOMAIN r.remote
    /\ \A k \in r.purge : ~Viewable(k)

RestRun(r) ==
    /\ r.op = "backfill" => ImportRun(r)
    /\ r.op = "reconcile" => PassRun(r)
    /\ r.op \in {"sync", "reconcile"} => Whole /\ r.st.inProgress = NoURL
    /\ \A k \in DOMAIN r.page : k \in Keys /\ feed[k].listed /\ r.page[k] = feed[k]

CursorRests ==
    /\ Resuming => GoesOn(syncState.inProgress, syncState.wm)
    /\ syncState.completedAt # 0 => Whole /\ ~Resuming

RestInv ==
    /\ now >= InitTime
    /\ now = InitTime => /\ Untouched
                         /\ CursorRests
                         /\ \A p \in Procs : RestRun(run[p])

LEMMA NothingRemains == Remaining(NoURL) = {}
BY DEF Remaining, Matching, NoURL

\* A page and its link: the page is what comes next, the link has the rest.
LEMMA RestingPage ==
    ASSUME TypeOK, Untouched, NEW url \in URLs,
           NEW lag \in Lags, NEW next, next = NextLink(url, lag)
    PROVE  /\ Remaining(url) = PageKeys(url, lag) \cup Remaining(next)
           /\ \A j \in PageKeys(url, lag) : Late(next, feed[j].ts)
           /\ \A k \in PageKeys(url, lag) : k \in Keys /\ feed[k].listed
<1>1. lag = {}
  <2>1. {k \in Keys : feed[k].listed /\ ~feed[k].view} = {}
    BY DEF Untouched
  <2> QED
    BY <2>1 DEF Lags
<1>2. /\ url.skip \in Nat /\ PageSize \in Nat \ {0}
      /\ \A k : Rank(url, lag, k) \in Nat
  BY RankTyped, FeedConstants DEF URLs
<1>3. \A k \in PageKeys(url, lag) : k \in Matching(url, lag) /\ k \in Keys /\ feed[k].listed
  BY DEF PageKeys, Matching, URLs
<1>4. CASE HasMore(url, lag)
  <2>1. next = [url EXCEPT !.skip = @ + PageSize]
    BY <1>4 DEF NextLink
  <2>2. /\ next.ge = url.ge /\ next.view = url.view /\ next.keys = url.keys
        /\ next.skip = url.skip + PageSize
    BY <2>1 DEF URLs
  <2>3. Matching(next, lag) = Matching(url, lag)
    BY <2>2 DEF Matching
  <2>4. \A k : Rank(next, lag, k) = Rank(url, lag, k)
    BY <2>3 DEF Rank
  <2>5. Remaining(next) = {k \in Matching(url, lag) : Rank(url, lag, k) >= url.skip + PageSize}
    BY <1>1, <2>2, <2>3, <2>4 DEF Remaining
  <2>6. Remaining(url) = PageKeys(url, lag) \cup Remaining(next)
    BY <1>1, <1>2, <2>5 DEF Remaining, PageKeys
  <2>7. ASSUME NEW j \in PageKeys(url, lag), NEW k \in Remaining(next)
        PROVE  feed[j].ts <= feed[k].ts
    <3>1. Rank(url, lag, j) < Rank(url, lag, k)
      BY <1>2, <2>5 DEF PageKeys
    <3> QED
      BY <1>3, <2>5, <3>1, RankOrders
  <2> QED
    BY <1>3, <2>6, <2>7 DEF Late
<1>5. CASE ~HasMore(url, lag)
  <2>1. Remaining(next) = {}
    BY <1>5, NothingRemains DEF NextLink
  <2>2. \A k \in Matching(url, lag) : ~(Rank(url, lag, k) >= url.skip + PageSize)
    BY <1>5 DEF HasMore
  <2>3. Remaining(url) = PageKeys(url, lag)
    BY <1>1, <1>2, <2>2 DEF Remaining, PageKeys
  <2> QED
    BY <1>3, <2>1, <2>3 DEF Late
<1> QED
  BY <1>4, <1>5

\* A query has left to deliver all that it lets through.
LEMMA QueryRemains ==
    ASSUME TypeOK, Untouched, NEW ge \in Times, NEW view \in BOOLEAN
    PROVE  Remaining(Query(ge, view, Keys)) = {k \in Keys : feed[k].listed /\ feed[k].ts >= ge}
<1>1. PICK url \in URLs : url = Query(ge, view, Keys)
  BY QueryTyped
<1>2. url.ge = ge /\ url.keys = Keys /\ url.skip = 0
  BY <1>1 DEF Query
<1>4. Matching(url, {}) = {k \in Keys : feed[k].listed /\ feed[k].ts >= ge}
  BY <1>2 DEF Matching, Untouched
<1>5. Remaining(url) = Matching(url, {})
  BY <1>2, RankTyped DEF Remaining
<1> QED
  BY <1>1, <1>4, <1>5

-----------------------------------------------------------------------------
(* A step while the feed is as it was.                                      *)

\* No row is lost.
Grows == \A k \in Keys : Wanted(k) /\ Stored(k) => rows'[k] = feed[k].ts

LEMMA RemainingKept ==
    ASSUME UNCHANGED feed, NEW url
    PROVE  Remaining(url)' = Remaining(url)
BY DEF Remaining, Matching, Rank, Precedes, At

LEMMA GoesOnKept ==
    ASSUME UNCHANGED feed, Grows, NEW url, NEW t, GoesOn(url, t)
    PROVE  GoesOn(url, t)'
<1>1. Remaining(url)' = Remaining(url)
  BY RemainingKept
<1> QED
  BY <1>1 DEF GoesOn, Late, Grows, Wanted, Viewable, Stored

LEMMA WholeKept ==
    ASSUME UNCHANGED feed, Grows, Whole
    PROVE  Whole'
BY DEF Whole, Grows, Wanted, Viewable, Stored

LEMMA RestRunKept ==
    ASSUME UNCHANGED feed, Grows, NEW r, RestRun(r)
    PROVE  RestRun(r)'
<1>1. Remaining(r.url)' = Remaining(r.url) /\ Remaining(r.next)' = Remaining(r.next)
  <2>1. PICK url, next : url = r.url /\ next = r.next
    OBVIOUS
  <2> QED
    BY <2>1, RemainingKept
<1>2. Whole => Whole'
  BY WholeKept
<1>3. ImportRun(r) => ImportRun(r)'
  BY <1>1, <1>2 DEF ImportRun, GoesOn, Late, Grows, Wanted, Viewable, Stored
<1>4. PassRun(r) => PassRun(r)'
  BY <1>1 DEF PassRun, Viewable
<1> QED
  BY <1>2, <1>3, <1>4 DEF RestRun

LEMMA CursorKeeps ==
    ASSUME UNCHANGED <<feed, syncState>>, Grows, CursorRests
    PROVE  CursorRests'
<1>1. Whole => Whole'
  BY WholeKept
<1>2. Resuming' <=> Resuming
  BY DEF Resuming
<1>3. PICK url, t : url = syncState.inProgress /\ t = syncState.wm
  OBVIOUS
<1>4. Resuming => GoesOn(url, t)'
  BY <1>3, GoesOnKept DEF CursorRests
<1> QED
  BY <1>1, <1>2, <1>3, <1>4 DEF CursorRests

LEMMA RestStep ==
    ASSUME TypeOK, RestInv, now = InitTime, UNCHANGED <<feed, now>>, Grows, CursorRests',
           NEW p \in Procs, NEW r, Becomes(p, r), RestRun(r)'
    PROVE  RestInv'
<1>1. \A q \in Procs : run'[q] = IF q = p THEN r ELSE run[q]
  BY DEF Becomes, TypeOK
<1>2. ASSUME NEW q \in Procs PROVE RestRun(run[q])'
  <2>1. PICK o : o = run[q]
    OBVIOUS
  <2>2. RestRun(o)'
    BY <2>1, RestRunKept DEF RestInv
  <2> QED
    BY <1>1, <2>1, <2>2
<1>3. Untouched'
  BY DEF RestInv, Untouched
<1> QED
  BY <1>2, <1>3 DEF RestInv

\* A step that only moves the run.
LEMMA RestMoves ==
    ASSUME TypeOK, RestInv, now = InitTime, UNCHANGED <<feed, now, rows, syncState>>,
           NEW p \in Procs, NEW r, Becomes(p, r), RestRun(r)
    PROVE  RestInv'
<1>1. Grows
  BY DEF Grows, Stored
<1>2. CursorRests'
  BY <1>1, CursorKeeps DEF RestInv
<1> QED
  BY <1>1, <1>2, RestStep, RestRunKept

LEMMA RestEnds ==
    ASSUME TypeOK, RestInv, now = InitTime, UNCHANGED <<feed, now, rows, syncState>>,
           NEW p \in Procs, Becomes(p, Idle)
    PROVE  RestInv'
<1>1. RestRun(Idle)
  BY DEF RestRun, Idle, EmptyPage
<1> QED
  BY <1>1, RestMoves

LEMMA RestFetch ==
    ASSUME TypeOK, RestInv, now = InitTime,
           UNCHANGED <<feed, now, rows, syncState>>,
           NEW p \in Procs, run[p].op # "none", run[p].pc = "fetch", FetchPage(p)
    PROVE  RestInv'
<1> DEFINE o == run[p]
<1>0. o \in Runs /\ RestRun(o) /\ Untouched /\ o.url \in URLs
  BY DEF TypeOK, RestInv, Runs
<1>2. PICK lag, next :
        /\ lag \in Lags
        /\ next = NextLink(o.url, lag)
        /\ Becomes(p, [o EXCEPT !.pc = "upsert", !.page = PageOf(o.url, lag), !.next = next])
  BY DEF FetchPage
<1>3. PICK page, r : /\ page = PageOf(o.url, lag)
                     /\ r = [o EXCEPT !.pc = "upsert", !.page = page, !.next = next]
  OBVIOUS
<1>4. /\ r.op = o.op /\ r.pc = "upsert" /\ r.page = page /\ r.next = next /\ r.wm = o.wm
      /\ r.st = o.st /\ r.purge = o.purge
  BY <1>0, <1>3 DEF Runs
<1>5. PICK url \in URLs : url = o.url
  BY <1>0
<1>6. /\ Remaining(url) = PageKeys(url, lag) \cup Remaining(next)
      /\ \A j \in PageKeys(url, lag) : Late(next, feed[j].ts)
      /\ \A k \in PageKeys(url, lag) : k \in Keys /\ feed[k].listed
  BY <1>0, <1>2, <1>5, RestingPage
<1>7. DOMAIN page = PageKeys(url, lag) /\ \A k \in DOMAIN page : page[k] = feed[k]
  BY <1>3, <1>5 DEF PageOf
<1>8. ASSUME o.op = "backfill" PROVE ImportRun(r)
  <2>1. GoesOn(url, o.wm)
    BY <1>0, <1>5, <1>8 DEF RestRun, ImportRun
  <2>2. Late(next, o.wm)
    BY <1>6, <2>1 DEF GoesOn, Late
  <2>3. \A k \in Keys : Wanted(k) => Stored(k) \/ k \in DOMAIN page \/ k \in Remaining(next)
    BY <1>6, <1>7, <2>1 DEF GoesOn
  <2>4. \A j \in DOMAIN page : Late(next, page[j].ts)
    BY <1>6, <1>7
  <2> QED
    BY <1>4, <2>2, <2>3, <2>4 DEF ImportRun
<1>9. o.op = "reconcile" => PassRun(r)
  BY <1>0, <1>4 DEF RestRun, PassRun
<1>10. RestRun(r)
  BY <1>0, <1>4, <1>6, <1>7, <1>8, <1>9 DEF RestRun
<1> QED
  BY <1>2, <1>3, <1>10, RestMoves

LEMMA RestStore ==
    ASSUME TypeOK, RestInv, now = InitTime, UNCHANGED <<feed, now, syncState>>,
           NEW p \in Procs, run[p].op # "none", run[p].pc \in {"upsert", "delete"},
           NEW done \in {"persist", "advance"},
           \/ run[p].pc = "upsert" /\ UpsertPage(p, done)
           \/ run[p].pc = "delete" /\ DeletePage(p, done)
    PROVE  RestInv'
<1> DEFINE o == run[p]
<1>0. o \in Runs /\ RestRun(o) /\ Untouched
  BY DEF TypeOK, RestInv
<1>1. \A k \in DOMAIN o.page : /\ k \in Keys /\ feed[k].listed /\ o.page[k] = feed[k]
                               /\ o.page[k].view
  BY <1>0 DEF RestRun, Untouched
<1>2. RevokedKeys(o.page) = {}
  BY <1>1 DEF RevokedKeys
<1>3. /\ \A k \in Keys : Wanted(k) /\ Stored(k) => rows'[k] = feed[k].ts
      /\ o.pc = "upsert" => \A k \in DOMAIN o.page : rows'[k] = feed[k].ts
  <2>1. CASE UpsertPage(p, done) /\ o.pc = "upsert"
    BY <1>1, <2>1 DEF UpsertPage, Upserted, Stored
  <2>2. CASE DeletePage(p, done) /\ o.pc = "delete"
    BY <1>2, <2>2 DEF DeletePage, Deleted, Stored
  <2> QED
    BY <2>1, <2>2
<1>4. PICK r : Becomes(p, r) /\ r = [o EXCEPT !.pc = done]
  BY <1>2 DEF UpsertPage, DeletePage
<1>5. /\ r.op = o.op /\ r.pc = done /\ r.page = o.page /\ r.next = o.next /\ r.wm = o.wm
      /\ r.st = o.st /\ r.purge = o.purge
  BY <1>0, <1>4 DEF Runs
<1>6. Grows
  BY <1>3 DEF Grows
<1>7. ASSUME o.op = "backfill" PROVE ImportRun(r)'
  <2>1. /\ Late(o.next, o.wm) /\ \A j \in DOMAIN o.page : Late(o.next, o.page[j].ts)
        /\ \A k \in Keys : Wanted(k) => \/ Stored(k) \/ k \in Remaining(o.next)
                                        \/ o.pc = "upsert" /\ k \in DOMAIN o.page
    BY <1>0, <1>7 DEF RestRun, ImportRun
  <2>2. \A k \in Keys : Wanted(k) => rows'[k] = feed[k].ts \/ k \in Remaining(o.next)
    BY <1>3, <2>1
  <2>3. Remaining(r.next)' = Remaining(o.next)
    <3>1. PICK next : next = o.next
      OBVIOUS
    <3> QED
      BY <1>5, <3>1, RemainingKept
  <2>4. /\ (\A k \in Keys : Wanted(k) => Stored(k) \/ k \in Remaining(r.next))'
        /\ (Late(r.next, r.wm) /\ \A j \in DOMAIN r.page : Late(r.next, r.page[j].ts))'
    BY <1>5, <2>1, <2>2, <2>3 DEF Late, Wanted, Viewable, Stored
  <2> QED
    BY <1>5, <2>4 DEF ImportRun
<1>8. o.op = "reconcile" => PassRun(r)'
  BY <1>0, <1>5 DEF RestRun, PassRun, Viewable
<1>9. Whole => Whole'
  BY <1>6, WholeKept
<1>10. RestRun(r)'
  BY <1>0, <1>5, <1>7, <1>8, <1>9 DEF RestRun
<1>11. CursorRests'
  BY <1>6, CursorKeeps DEF RestInv
<1> QED
  BY <1>4, <1>6, <1>10, <1>11, RestStep

\* The cursor written, the rows as they are.
LEMMA RestSaves ==
    ASSUME TypeOK, RestInv, now = InitTime, UNCHANGED <<feed, now, rows>>,
           NEW s, syncState' = s,
           s.inProgress # NoURL => GoesOn(s.inProgress, s.wm),
           s.completedAt # 0 => Whole /\ s.inProgress = NoURL,
           NEW p \in Procs, NEW r, Becomes(p, r), RestRun(r)
    PROVE  RestInv'
<1>1. Grows
  BY DEF Grows, Stored
<1>2. RestRun(r)'
  BY <1>1, RestRunKept
<1>3. s.inProgress # NoURL => GoesOn(s.inProgress, s.wm)'
  <2>1. PICK url, t : url = s.inProgress /\ t = s.wm
    OBVIOUS
  <2> QED
    BY <1>1, <2>1, GoesOnKept
<1>4. CursorRests'
  BY <1>1, <1>3, WholeKept DEF CursorRests, Resuming
<1> QED
  BY <1>1, <1>2, <1>4, RestStep

LEMMA IdleRests == RestRun(Idle)
BY DEF RestRun, Idle, EmptyPage

\* An import goes on from its watermark as well as from its link.
LEMMA RestRebuild ==
    ASSUME TypeOK, RestInv, now = InitTime, NEW p \in Procs, BackfillRebuild(p)
    PROVE  RestInv'
<1> DEFINE o == run[p]
<1>0. o \in Runs /\ RestRun(o) /\ Untouched /\ o.op = "backfill" /\ o.pc = "fetch"
  BY DEF TypeOK, RestInv, BackfillRebuild, Running
<1>1. PICK url, r : /\ url = BackfillQuery(o.wm)
                    /\ r = [o EXCEPT !.rebuilt = TRUE, !.url = url]
  OBVIOUS
<1>2. /\ r.op = "backfill" /\ r.pc = "fetch" /\ r.wm = o.wm /\ r.url = url
      /\ r.page = o.page
  BY <1>0, <1>1 DEF Runs
<1>3. Remaining(url) = {k \in Keys : feed[k].listed /\ feed[k].ts >= o.wm}
  BY <1>0, <1>1, QueryRemains DEF BackfillQuery, Runs
<1>4. GoesOn(o.url, o.wm)
  BY <1>0 DEF RestRun, ImportRun
<1>5. o.wm \in Nat /\ \A k \in Keys : feed[k].ts \in Nat
  BY <1>0, FeedConstants DEF Runs, TypeOK, FeedRecord, Times
<1>6. GoesOn(url, o.wm)
  BY <1>3, <1>4, <1>5 DEF GoesOn, Late, Wanted, Viewable
<1>7. RestRun(r)
  BY <1>0, <1>2, <1>6 DEF RestRun, ImportRun
<1> QED
  BY <1>1, <1>7, RestMoves DEF BackfillRebuild

LEMMA RestBackfill ==
    ASSUME TypeOK, RestInv, now = InitTime, NEW p \in Procs, BackfillNext(p)
    PROVE  RestInv'
<1> DEFINE o == run[p]
<1>0. o \in Runs /\ RestRun(o) /\ Untouched /\ CursorRests
  BY DEF TypeOK, RestInv
<1>1. ASSUME NEW force \in BOOLEAN, BackfillStart(p, force) PROVE RestInv'
  <2> DEFINE r == [Begin("backfill", "fetch") EXCEPT
                     !.wm = IF Resuming THEN syncState.wm ELSE Since,
                     !.url = IF Resuming THEN syncState.inProgress ELSE BackfillQuery(Since)]
  <2>1. /\ r.op = "backfill" /\ r.pc = "fetch" /\ r.page = EmptyPage
        /\ r.wm = IF Resuming THEN syncState.wm ELSE Since
        /\ r.url = IF Resuming THEN syncState.inProgress ELSE BackfillQuery(Since)
    BY DEF Begin, Idle
  <2>2. Becomes(p, r)
    BY <1>1 DEF BackfillStart
  <2> HIDE DEF r
  <2>3. Remaining(BackfillQuery(Since)) = {k \in Keys : feed[k].listed /\ feed[k].ts >= Since}
    BY <1>0, QueryRemains, EngineConstants DEF BackfillQuery
  <2>4. Since \in Nat /\ \A k \in Keys : feed[k].ts \in Nat
    BY FeedConstants, EngineConstants DEF TypeOK, FeedRecord, Times
  <2>5. GoesOn(BackfillQuery(Since), Since)
    BY <2>3, <2>4 DEF GoesOn, Late, Wanted, Viewable
  <2>6. GoesOn(r.url, r.wm)
    BY <1>0, <2>1, <2>5 DEF CursorRests
  <2>7. RestRun(r)
    BY <2>1, <2>6 DEF RestRun, ImportRun, EmptyPage
  <2> QED
    BY <1>1, <2>2, <2>7, RestMoves DEF BackfillStart
<1>2. CASE BackfillCap(p)
  BY <1>2, RestEnds DEF BackfillCap
<1>3. CASE BackfillFetch(p)
  BY <1>3, RestFetch DEF BackfillFetch, Running
<1>4. CASE BackfillReject(p)
  BY <1>4, RestRebuild DEF BackfillReject
<1>5. CASE BackfillUpsert(p)
  BY <1>5, RestStore DEF BackfillUpsert, Running
<1>6. CASE BackfillDelete(p)
  BY <1>6, RestStore DEF BackfillDelete, Running
<1>7. CASE BackfillPersist(p)
  <2>0. o.op = "backfill" /\ o.pc = "persist"
    BY <1>7 DEF BackfillPersist, Running
  <2>1. PICK wm, next : wm = MaxModificationTS(o.wm, o.page) /\ next = o.next
    OBVIOUS
  <2>2. wm \in {o.wm} \cup {o.page[k].ts : k \in DOMAIN o.page}
    BY <1>0, <2>1, MaxModificationTSIsLatest DEF Runs
  <2>3. PICK r, s :
          /\ s = Checkpoint(o, wm) /\ syncState' = s /\ Becomes(p, r)
          /\ r = [o EXCEPT !.pc = IF next = NoURL THEN "complete" ELSE "fetch",
                           !.wm = wm, !.url = next, !.page = EmptyPage, !.next = NoURL,
                           !.rebuilt = FALSE, !.pages = IF MaxPages > 0 THEN @ + 1 ELSE @]
    BY <1>7, <2>1 DEF BackfillPersist
  <2>4. /\ r.op = "backfill" /\ r.pc = IF next = NoURL THEN "complete" ELSE "fetch"
        /\ r.wm = wm /\ r.url = next /\ r.page = EmptyPage
    BY <1>0, <2>0, <2>3 DEF Runs
  <2>5. s.wm = wm /\ s.inProgress = next /\ s.completedAt = 0
    BY <2>1, <2>3 DEF Checkpoint
  <2>6. GoesOn(next, wm)
    BY <1>0, <2>0, <2>1, <2>2 DEF RestRun, ImportRun, GoesOn, Late
  <2>7. next = NoURL => Whole
    BY <2>6, NothingRemains DEF GoesOn, Whole
  <2>8. RestRun(r)
    BY <2>4, <2>6, <2>7 DEF RestRun, ImportRun, EmptyPage
  <2> QED
    BY <1>7, <2>3, <2>5, <2>6, <2>8, RestSaves DEF BackfillPersist
<1>8. CASE BackfillComplete(p)
  <2>1. PICK s : /\ s = [wm |-> FinalWatermark(o), inProgress |-> NoURL, completedAt |-> now,
                         reconciledAt |-> o.st.reconciledAt]
                 /\ syncState' = s
    BY <1>8 DEF BackfillComplete
  <2>2. s.inProgress = NoURL /\ Whole
    BY <1>0, <1>8, <2>1 DEF BackfillComplete, Running, RestRun, ImportRun
  <2> QED
    BY <1>8, <2>1, <2>2, IdleRests, RestSaves DEF BackfillComplete
<1> QED
  BY <1>1, <1>2, <1>3, <1>4, <1>5, <1>6, <1>7, <1>8 DEF BackfillNext, BackfillStep

LEMMA RestSync ==
    ASSUME TypeOK, RestInv, now = InitTime, NEW p \in Procs,
           SyncNext(p) \/ SyncRebuild(p)
    PROVE  RestInv'
<1> DEFINE o == run[p]
<1>0. o \in Runs /\ RestRun(o) /\ Untouched /\ CursorRests
  BY DEF TypeOK, RestInv
<1>1. CASE SyncStart(p)
  <2> DEFINE r == [Begin("sync", "fetch") EXCEPT !.wm = syncState.wm,
                                                 !.url = SyncQuery(syncState.wm)]
  <2>1. r.op = "sync" /\ r.page = EmptyPage /\ r.st = syncState
    BY DEF Begin, Idle
  <2>2. Becomes(p, r)
    BY <1>1 DEF SyncStart
  <2> HIDE DEF r
  <2>3. RestRun(r)
    BY <1>0, <1>1, <2>1 DEF RestRun, SyncStart, CursorRests, Resuming, EmptyPage
  <2> QED
    BY <1>1, <2>2, <2>3, RestMoves DEF SyncStart
<1>2. CASE SyncFetch(p)
  BY <1>2, RestFetch DEF SyncFetch, Running
<1>3. CASE SyncRebuild(p)
  <2>1. PICK url, r : /\ url = SyncQuery(o.wm) /\ Becomes(p, r)
                      /\ r = [o EXCEPT !.rebuilt = TRUE, !.url = url]
    BY <1>3 DEF SyncRebuild
  <2>2. r.op = "sync" /\ r.page = o.page /\ r.st = o.st
    BY <1>0, <1>3, <2>1 DEF Runs, SyncRebuild, Running
  <2>3. RestRun(r)
    BY <1>0, <1>3, <2>2 DEF RestRun, SyncRebuild, Running
  <2> QED
    BY <1>3, <2>1, <2>3, RestMoves DEF SyncRebuild
<1>4. CASE SyncReject(p)
  BY <1>3, <1>4 DEF SyncReject
<1>5. CASE SyncUpsert(p)
  BY <1>5, RestStore DEF SyncUpsert, Running
<1>6. CASE SyncDelete(p)
  BY <1>6, RestStore DEF SyncDelete, Running
<1>7. CASE SyncPersist(p)
  <2>0. o.op = "sync" /\ Whole
    BY <1>0, <1>7 DEF SyncPersist, Running, RestRun
  <2>1. PICK wm, next, s :
          /\ wm = MaxModificationTS(o.wm, o.page) /\ next = o.next
          /\ s = Saved(o, wm) /\ syncState' = s
    BY <1>7 DEF SyncPersist
  <2>2. s.inProgress = NoURL
    BY <1>0, <2>1 DEF Saved, Runs, SyncStates
  <2>3. PICK moved : moved = [o EXCEPT !.pc = "fetch", !.wm = wm, !.url = next,
                                       !.page = EmptyPage, !.next = NoURL, !.rebuilt = FALSE]
    OBVIOUS
  <2>4. moved.op = "sync" /\ moved.page = EmptyPage /\ moved.st = o.st
    BY <1>0, <2>0, <2>3 DEF Runs
  <2>5. RestRun(moved)
    BY <1>0, <2>0, <2>4 DEF RestRun, EmptyPage
  <2>6. Becomes(p, Idle) \/ Becomes(p, moved)
    BY <1>7, <2>1, <2>3 DEF SyncPersist
  <2> QED
    BY <1>7, <2>0, <2>1, <2>2, <2>5, <2>6, IdleRests, RestSaves DEF SyncPersist
<1> QED
  BY <1>1, <1>2, <1>3, <1>4, <1>5, <1>6, <1>7 DEF SyncNext, SyncStep

\* A pass that goes on as it is, but for its rows.
LEMMA RestPass ==
    ASSUME TypeOK, RestInv, now = InitTime, UNCHANGED <<feed, now, rows, syncState>>,
           NEW p \in Procs, run[p].op = "reconcile", NEW r, Becomes(p, r),
           r.op = "reconcile", r.st = run[p].st, r.page \in {EmptyPage, run[p].page},
           PassRun(r)
    PROVE  RestInv'
<1>1. RestRun(run[p])
  BY DEF RestInv
<1>2. RestRun(r)
  BY <1>1 DEF RestRun, EmptyPage
<1> QED
  BY <1>2, RestMoves

LEMMA RestReconcile ==
    ASSUME TypeOK, RestInv, now = InitTime, NEW p \in Procs, ReconcileNext(p)
    PROVE  RestInv'
<1> DEFINE o == run[p]
<1>0. o \in Runs /\ RestRun(o) /\ Untouched /\ CursorRests
  BY DEF TypeOK, RestInv
<1>1. CASE ReconcileStart(p)
  <2> DEFINE r == [Begin("reconcile", "sweep") EXCEPT !.url = SweepQuery]
  <2>1. /\ r.op = "reconcile" /\ r.pc = "sweep" /\ r.page = EmptyPage /\ r.st = syncState
        /\ r.url = SweepQuery /\ r.purge = {}
    BY DEF Begin, Idle
  <2>2. Becomes(p, r)
    BY <1>1 DEF ReconcileStart
  <2> HIDE DEF r
  <2>3. 0 \in Times /\ \A k \in Keys : feed[k].ts >= 0
    BY FeedConstants DEF TypeOK, FeedRecord, Times
  <2>4. \A k \in Keys : Viewable(k) => k \in Remaining(SweepQuery)
    BY <1>0, <2>3, QueryRemains DEF SweepQuery, Viewable
  <2>5. RestRun(r)
    BY <1>0, <1>1, <2>1, <2>4
       DEF RestRun, PassRun, ReconcileStart, CursorRests, Resuming, EmptyPage
  <2> QED
    BY <1>1, <2>2, <2>5, RestMoves DEF ReconcileStart
<1>2. CASE ReconcileSweep(p)
  <2>0. o.op = "reconcile" /\ o.pc = "sweep" /\ PassRun(o)
    BY <1>0, <1>2 DEF ReconcileSweep, Running, RestRun
  <2>2. PICK lag, next :
          /\ lag \in Lags
          /\ next = NextLink(o.url, lag)
          /\ Becomes(p, [o EXCEPT !.remote = MergeSwept(@, PageOf(o.url, lag)),
                                  !.url = next,
                                  !.pc = IF next = NoURL THEN "diff" ELSE "sweep"])
    BY <1>2 DEF ReconcileSweep
  <2>3. PICK remote, r : /\ remote = MergeSwept(o.remote, PageOf(o.url, lag))
                         /\ r = [o EXCEPT !.remote = remote,
                                          !.url = next,
                                          !.pc = IF next = NoURL THEN "diff" ELSE "sweep"]
    OBVIOUS
  <2>4. /\ r.op = "reconcile" /\ r.st = o.st /\ r.page = o.page /\ r.purge = o.purge
        /\ r.remote = remote /\ r.url = next /\ r.pc = IF next = NoURL THEN "diff" ELSE "sweep"
    BY <1>0, <2>0, <2>3 DEF Runs
  <2>5. PICK url \in URLs : url = o.url
    BY <1>0 DEF Runs
  <2>6. DOMAIN remote = DOMAIN o.remote \cup PageKeys(url, lag)
    BY <2>3, <2>5 DEF MergeSwept, PageOf
  <2>7. Remaining(url) = PageKeys(url, lag) \cup Remaining(next)
    BY <1>0, <2>2, <2>5, RestingPage
  <2>8. \A k \in Keys : Viewable(k) => k \in DOMAIN remote \/ k \in Remaining(next)
    BY <2>0, <2>5, <2>6, <2>7 DEF PassRun
  <2>9. PassRun(r)
    BY <2>0, <2>4, <2>8, NothingRemains DEF PassRun
  <2> QED
    BY <1>2, <2>0, <2>2, <2>3, <2>4, <2>9, RestPass DEF ReconcileSweep
<1>3. CASE ReconcileDiff(p)
  <2>0. o.op = "reconcile" /\ o.pc = "diff" /\ PassRun(o)
    BY <1>0, <1>3 DEF ReconcileDiff, Running, RestRun
  <2>1. PICK purge, refetch, r :
          /\ purge = Withdrawn(p) /\ Becomes(p, r)
          /\ r = [o EXCEPT !.pc = "purge", !.remote = EmptyPage, !.purge = purge,
                           !.refetch = refetch]
    BY <1>3 DEF ReconcileDiff
  <2>2. /\ r.op = "reconcile" /\ r.st = o.st /\ r.page = o.page /\ r.purge = purge
        /\ r.pc = "purge"
    BY <1>0, <2>0, <2>1 DEF Runs
  <2>3. \A k \in purge : ~Viewable(k)
    BY <2>0, <2>1 DEF Withdrawn, Swept, PassRun
  <2>4. PassRun(r)
    BY <2>2, <2>3 DEF PassRun
  <2> QED
    BY <1>3, <2>0, <2>1, <2>2, <2>4, RestPass DEF ReconcileDiff
<1>4. CASE ReconcilePurge(p)
  <2>0. o.op = "reconcile" /\ o.pc = "purge" /\ PassRun(o)
    BY <1>0, <1>4 DEF ReconcilePurge, Running, RestRun
  <2>1. PICK chunk, purge, r :
          /\ chunk \in Chunks(o.purge, PurgeChunk) /\ rows' = Deleted(chunk)
          /\ purge = o.purge \ chunk /\ Becomes(p, r)
          /\ r = [o EXCEPT !.purge = purge]
    BY <1>4 DEF ReconcilePurge
  <2>2. /\ r.op = "reconcile" /\ r.st = o.st /\ r.page = o.page /\ r.purge = purge
        /\ r.pc = "purge"
    BY <1>0, <2>0, <2>1 DEF Runs
  <2>3. chunk \subseteq o.purge
    BY <2>1 DEF Chunks
  <2>4. Grows
    BY <2>0, <2>1, <2>3 DEF Grows, Deleted, PassRun, Wanted, Stored
  <2>5. RestRun(r)
    BY <1>0, <2>0, <2>1, <2>2 DEF RestRun, PassRun
  <2>6. RestRun(r)' /\ CursorRests'
    BY <1>0, <1>4, <2>4, <2>5, RestRunKept, CursorKeeps DEF ReconcilePurge
  <2> QED
    BY <1>4, <2>1, <2>4, <2>6, RestStep DEF ReconcilePurge
<1>5. CASE ReconcilePick(p)
  <2>0. o.op = "reconcile" /\ o.pc = "purge" /\ PassRun(o)
    BY <1>0, <1>5 DEF ReconcilePick, Running, RestRun
  <2>1. PICK url, refetch, r :
          Becomes(p, r) /\ r = [o EXCEPT !.pc = "fetch", !.url = url, !.refetch = refetch]
    BY <1>5 DEF ReconcilePick
  <2>2. /\ r.op = "reconcile" /\ r.st = o.st /\ r.page = o.page /\ r.purge = o.purge
        /\ r.pc = "fetch"
    BY <1>0, <2>0, <2>1 DEF Runs
  <2>3. PassRun(r)
    BY <2>0, <2>2 DEF PassRun
  <2> QED
    BY <1>5, <2>0, <2>1, <2>2, <2>3, RestPass DEF ReconcilePick
<1>6. CASE ReconcileFetch(p)
  BY <1>6, RestFetch DEF ReconcileFetch, Running
<1>7. CASE ReconcileUpsert(p)
  BY <1>7, RestStore DEF ReconcileUpsert, Running
<1>8. CASE ReconcileDelete(p)
  BY <1>8, RestStore DEF ReconcileDelete, Running
<1>9. CASE ReconcileAdvance(p)
  <2>0. o.op = "reconcile" /\ PassRun(o)
    BY <1>0, <1>9 DEF ReconcileAdvance, Running, RestRun
  <2>1. PICK pc, url, r :
          /\ pc \in {"purge", "fetch"} /\ Becomes(p, r)
          /\ r = [o EXCEPT !.pc = pc, !.url = url, !.page = EmptyPage, !.next = NoURL]
    BY <1>9 DEF ReconcileAdvance
  <2>2. /\ r.op = "reconcile" /\ r.st = o.st /\ r.page = EmptyPage /\ r.purge = o.purge
        /\ r.pc = pc
    BY <1>0, <2>0, <2>1 DEF Runs
  <2>3. PassRun(r)
    BY <2>0, <2>1, <2>2 DEF PassRun
  <2> QED
    BY <1>9, <2>0, <2>1, <2>2, <2>3, RestPass DEF ReconcileAdvance
<1>10. CASE ReconcileStamp(p)
  <2>1. o.op = "reconcile" /\ Whole /\ o.st.inProgress = NoURL
    BY <1>0, <1>10 DEF ReconcileStamp, Running, RestRun
  <2>2. PICK s : s = Stamped(o) /\ syncState' = s
    BY <1>10 DEF ReconcileStamp
  <2>3. s.inProgress = NoURL
    BY <1>0, <2>1, <2>2 DEF Stamped, Runs, SyncStates
  <2> QED
    BY <1>10, <2>1, <2>2, <2>3, IdleRests, RestSaves DEF ReconcileStamp
<1> QED
  BY <1>1, <1>2, <1>3, <1>4, <1>5, <1>6, <1>7, <1>8, <1>9, <1>10
     DEF ReconcileNext, ReconcileStep

-----------------------------------------------------------------------------

LEMMA RestInit == Init => RestInv
<1> SUFFICES ASSUME Init PROVE RestInv
  OBVIOUS
<1>1. \A k \in Keys : feed[k] \in {Unlisted} \cup [ts : 1..InitTime, view : {TRUE}, listed : {TRUE}]
  BY DEF Init, FeedInit
<1>2. Untouched
  <2>1. ASSUME NEW k \in Keys, feed[k].listed PROVE feed[k].view
    <3>1. CASE feed[k] = Unlisted
      BY <2>1, <3>1 DEF Unlisted
    <3>2. CASE feed[k] \in [ts : 1..InitTime, view : {TRUE}, listed : {TRUE}]
      BY <3>2
    <3> QED
      BY <1>1, <3>1, <3>2
  <2> QED
    BY <2>1 DEF Untouched
<1>3. CursorRests
  BY DEF Init, EngineInit, CursorRests, Resuming, NoState
<1>4. \A p \in Procs : RestRun(run[p])
  BY IdleRests DEF Init, EngineInit
<1>5. now >= InitTime
  BY FeedConstants DEF Init, FeedInit
<1> QED
  BY <1>2, <1>3, <1>4, <1>5 DEF RestInv

\* The wall is a rejected request without a fault to count.
LEMMA WallTyped ==
    ASSUME TypeOK, NEW p \in Procs, HitsWall(p)
    PROVE  TypeOK'
<1>0. run[p] \in Runs
  BY DEF TypeOK
<1>1. CASE GivesUp(p)
  BY <1>1, EmptyValuesTyped, BecomesTyped DEF GivesUp, HitsWall, TypeOK
<1>2. CASE BackfillRebuild(p)
  <2>1. BackfillQuery(run[p].wm) \in URLs
    BY <1>0, QueryTyped DEF BackfillQuery, Runs
  <2>2. [run[p] EXCEPT !.rebuilt = TRUE, !.url = BackfillQuery(run[p].wm)] \in Runs
    BY <1>0, <2>1 DEF Runs
  <2> QED
    BY <1>2, <2>2, BecomesTyped DEF BackfillRebuild, HitsWall, TypeOK
<1>3. CASE SyncRebuild(p)
  <2>1. SyncQuery(run[p].wm) \in URLs
    BY <1>0, QueryTyped DEF SyncQuery, Runs
  <2>2. [run[p] EXCEPT !.rebuilt = TRUE, !.url = SyncQuery(run[p].wm)] \in Runs
    BY <1>0, <2>1 DEF Runs
  <2> QED
    BY <1>3, <2>2, BecomesTyped DEF SyncRebuild, HitsWall, TypeOK
<1> QED
  BY <1>1, <1>2, <1>3 DEF HitsWall

LEMMA DeepTyped == TypeOK /\ [DeepNext]_vars => TypeOK'
<1> SUFFICES ASSUME TypeOK, [DeepNext]_vars PROVE TypeOK'
  OBVIOUS
<1>1. ASSUME NEW p \in Procs, HitsWall(p) PROVE TypeOK'
  BY <1>1, WallTyped
<1>2. CASE [Next]_vars
  BY <1>2, NextTyped
<1> QED
  BY <1>1, <1>2 DEF DeepNext, Next

LEMMA RestNext ==
    ASSUME TypeOK, RestInv, [DeepNext]_vars
    PROVE  RestInv'
<1>0. now \in Nat /\ InitTime \in Nat /\ now >= InitTime
  BY FeedConstants DEF TypeOK, Times, RestInv
<1>1. CASE now # InitTime
  <2>1. now' = now \/ now' = now + 1
    BY DEF DeepNext, FeedNext, Modify, Revoke, Expire, HitsWall, GivesUp, BackfillRebuild,
           SyncRebuild, BackfillNext, SyncNext, ReconcileNext, Abort, BackfillStart,
           BackfillStep, BackfillReject, BackfillCap, BackfillFetch, BackfillUpsert,
           BackfillDelete, BackfillPersist, BackfillComplete, SyncStart, SyncStep, SyncReject,
           SyncFetch, SyncUpsert, SyncDelete, SyncPersist, ReconcileStart, ReconcileStep,
           ReconcileSweep, ReconcileDiff, ReconcilePurge, ReconcilePick, ReconcileFetch,
           ReconcileUpsert, ReconcileDelete, ReconcileAdvance, ReconcileStamp, vars
  <2> QED
    BY SMTT(40), <1>0, <1>1, <2>1 DEF RestInv
<1>2. CASE now = InitTime
  <2>1. CASE FeedNext
    <3>1. ASSUME NEW S \in Batches, Modify(S) \/ Revoke(S) PROVE RestInv'
      BY <1>0, <1>2, <3>1 DEF RestInv, Modify, Revoke
    <3>2. ASSUME NEW k \in Keys, Expire(k) PROVE FALSE
      BY <1>2, <3>2 DEF RestInv, Untouched, Expire
    <3> QED
      BY <2>1, <3>1, <3>2 DEF FeedNext
  <2>2. ASSUME NEW p \in Procs, HitsWall(p) PROVE RestInv'
    <3>1. CASE GivesUp(p)
      BY <1>2, <3>1, RestEnds DEF GivesUp
    <3>2. CASE BackfillRebuild(p)
      BY <1>2, <3>2, RestRebuild
    <3>3. CASE SyncRebuild(p)
      BY <1>2, <3>3, RestSync
    <3> QED
      BY <2>2, <3>1, <3>2, <3>3 DEF HitsWall
  <2>3. ASSUME NEW p \in Procs, BackfillNext(p) \/ SyncNext(p) \/ ReconcileNext(p)
        PROVE  RestInv'
    BY <1>2, <2>3, RestBackfill, RestSync, RestReconcile
  <2>4. ASSUME NEW p \in Procs, Abort(p) PROVE RestInv'
    BY <1>2, <2>4, RestEnds DEF Abort
  <2>5. CASE UNCHANGED vars
    <3>1. Grows
      BY <2>5 DEF vars, Grows, Stored
    <3>2. CursorRests'
      BY <1>2, <2>5, <3>1, CursorKeeps DEF vars, RestInv
    <3>3. ASSUME NEW p \in Procs PROVE RestRun(run[p])'
      <4>1. PICK r : r = run[p]
        OBVIOUS
      <4>2. RestRun(r)'
        BY <1>2, <2>5, <3>1, <4>1, RestRunKept DEF vars, RestInv
      <4> QED
        BY <2>5, <4>1, <4>2 DEF vars
    <3> QED
      BY <1>2, <2>5, <3>2, <3>3 DEF vars, RestInv, Untouched
  <2> QED
    BY <2>1, <2>2, <2>3, <2>4, <2>5 DEF DeepNext
<1> QED
  BY <1>1, <1>2

\* Nothing is lost where the service cuts a query and the next one begins from
\* the watermark: for every depth of the wall, page size and number of records
\* that share a timestamp, and any number of processes that import, sync,
\* reconcile and fail beside each other, a cursor that says the import is
\* complete has, while the feed does not change, all that it lists in the store.
THEOREM WallLosesNothing == DeepSpec => []WholeFeedImported
<1>1. DeepInit => TypeOK /\ RestInv
  BY InitTyped, RestInit DEF DeepInit
<1>2. TypeOK /\ [DeepNext]_vars => TypeOK'
  BY DeepTyped
<1>3. TypeOK /\ RestInv /\ [DeepNext]_vars => RestInv'
  BY RestNext
<1>4. RestInv => WholeFeedImported
  BY DEF RestInv, CursorRests, Whole, Wanted, Stored, WholeFeedImported
<1> QED
  BY <1>1, <1>2, <1>3, <1>4, PTL DEF DeepSpec

=============================================================================
