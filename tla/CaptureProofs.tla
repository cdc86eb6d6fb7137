--------------------------- MODULE CaptureProofs ---------------------------
(***************************************************************************)
(* Proofs about ChangeCapture: its types and what a row holds, for every    *)
(* number of listings and writers and every set of records; for one writer, *)
(* that a page written again adds no event, that the log gives the store    *)
(* back, and that the events of a listing are linked.                       *)
(***************************************************************************)
EXTENDS ChangeCapture, Greatest, FiniteSetTheorems, SequenceTheorems, TLAPS

-----------------------------------------------------------------------------
(* The response to a request under a scope.                                 *)

Kept(s) ==
    (IF NarrowSelect(s) THEN CorePropertyFields(s) ELSE Fields \ ExpandedChildren) \cup Expands(s)

LEMMA KeptFields ==
    ASSUME NEW s, NEW rec, NEW f \in Kept(s)
    PROVE  /\ f \in DOMAIN Response(s, rec) <=> f \in DOMAIN rec
           /\ f \in DOMAIN rec => Response(s, rec)[f] = rec[f]
BY DEF Kept, Response, Restrict

LEMMA KeptRead ==
    ASSUME NEW s, NEW rec, NEW f \in Kept(s)
    PROVE  /\ Has(Response(s, rec), f) = Has(rec, f)
           /\ \A type : Scalar(Response(s, rec), f, type) = Scalar(rec, f, type)
           /\ String(Response(s, rec), f) = String(rec, f)
           /\ Children(Response(s, rec), f) = Children(rec, f)
<1> DEFINE R == Response(s, rec)
<1>1. /\ f \in DOMAIN R <=> f \in DOMAIN rec
      /\ f \in DOMAIN rec => R[f] = rec[f]
  BY KeptFields
<1> HIDE DEF R
<1>2. Has(R, f) = Has(rec, f)
  BY <1>1 DEF Has
<1>3. \A type : Scalar(R, f, type) = Scalar(rec, f, type)
  BY <1>1 DEF Scalar
<1>4. String(R, f) = String(rec, f)
  BY <1>1, <1>2 DEF String, Has
<1>5. Children(R, f) = Children(rec, f)
  BY <1>1, <1>2 DEF Children, Has
<1> QED
  BY <1>2, <1>3, <1>4, <1>5 DEF R

\* What a column is read from is requested under every scope.
LEMMA CandidatesKept ==
    ASSUME NEW s, NEW c \in CoreColumns, NEW i \in DOMAIN Candidates(c)
    PROVE  Candidates(c)[i] \in Kept(s)
<1>1. CASE NarrowSelect(s)
  BY <1>1 DEF Kept, CorePropertyFields, ToSet
<1>2. CASE ~NarrowSelect(s)
  <2>1. CASE c = "PropertyAttachedYN"
    <3>1. c \in DOMAIN Aliases /\ Aliases[c] = <<"MRD_RENTAL_PROPERTY_TYPE">>
      BY <2>1 DEF Aliases
    <3>2. Candidates(c) = <<c>> \o <<"MRD_RENTAL_PROPERTY_TYPE">>
      BY <3>1 DEF Candidates
    <3>3. Candidates(c)[i] \in {c, "MRD_RENTAL_PROPERTY_TYPE"}
      BY <3>2
    <3> QED
      BY <1>2, <2>1, <3>3 DEF Kept, Fields, ExpandedChildren
  <2>2. CASE c # "PropertyAttachedYN"
    <3>1. Candidates(c) = <<c>>
      BY <2>2 DEF Candidates, Aliases
    <3>2. Candidates(c)[i] = c
      BY <3>1
    <3> QED
      BY <1>2, <2>2, <3>2 DEF Kept, Fields, ExpandedChildren, CoreColumns
  <2> QED
    BY <2>1, <2>2
<1> QED
  BY <1>1, <1>2

LEMMA CandidateIndices == \A c \in CoreColumns : DOMAIN Candidates(c) \subseteq Nat
BY DEF Candidates, Aliases

\* A request under any scope gives the columns that the whole record gives.
LEMMA ResponseColumns ==
    ASSUME NEW s, NEW rec
    PROVE  ExtractArgs(Response(s, rec)) = ExtractArgs(rec)
<1> DEFINE R == Response(s, rec)
<1>1. ASSUME NEW c \in CoreColumns PROVE ExtractValue(R, c) = ExtractValue(rec, c)
  <2> DEFINE cands == Candidates(c)
             good(x) == {i \in DOMAIN cands : Has(x, cands[i]) /\ Parsed(x, cands[i], c) # NULL}
  <2>1. ASSUME NEW i \in DOMAIN cands
        PROVE  Has(R, cands[i]) = Has(rec, cands[i]) /\ Parsed(R, cands[i], c) = Parsed(rec, cands[i], c)
    <3>1. cands[i] \in Kept(s)
      BY CandidatesKept
    <3> QED
      BY <3>1, KeptRead DEF Parsed, Float, Bool
  <2> HIDE DEF R, cands
  <2>2. good(R) = good(rec)
    BY <2>1
  <2>3. CASE good(rec) = {}
    BY <2>2, <2>3 DEF ExtractValue, cands
  <2>4. CASE good(rec) # {}
    <3>1. Min(good(rec)) \in DOMAIN cands
      <4>1. DOMAIN cands \subseteq Nat
        BY CandidateIndices DEF cands
      <4>2. \E t \in good(rec) : \A y \in good(rec) : t <= y
        BY <2>4, <4>1, LeastExists
      <4> QED
        BY <4>2 DEF Min
    <3>2. ExtractValue(R, c) = Parsed(R, cands[Min(good(R))], c)
      BY <2>2, <2>4 DEF ExtractValue, cands
    <3>3. ExtractValue(rec, c) = Parsed(rec, cands[Min(good(rec))], c)
      BY <2>4 DEF ExtractValue, cands
    <3> QED
      BY <2>1, <2>2, <3>1, <3>2, <3>3
  <2> QED
    BY <2>3, <2>4
<1> QED
  BY <1>1 DEF ExtractArgs

LEMMA ResponseViewable ==
    ASSUME NEW s, NEW rec
    PROVE  CanView(Response(s, rec)) <=> CanView(rec)
<1>1. "MlgCanView" \in Kept(s)
  BY DEF Kept, CorePropertyFields, Fields, ExpandedChildren
<1> QED
  BY <1>1, KeptRead DEF CanView, Bool

LEMMA ResponseChildren ==
    ASSUME NEW s, NEW rec, NEW c \in ExpandedChildren, c = "Media" \/ s # "minimal"
    PROVE  Children(Response(s, rec), c) = Children(rec, c)
<1>1. c \in Kept(s)
  BY DEF Kept, Expands, ExpandedChildren
<1> QED
  BY <1>1, KeptRead

LEMMA ResponseWhole ==
    ASSUME NEW rec, DOMAIN rec \subseteq Fields
    PROVE  DOMAIN Response("full", rec) = DOMAIN rec
BY DEF Response, Restrict, NarrowSelect, Expands, ExpandedChildren

-----------------------------------------------------------------------------
(* The inductive invariant: what is fetched or stored is no later than the  *)
(* clock, and a page in hand is what the feed delivered, as long as the     *)
(* listing has not changed since.                                           *)

IsRun(r) ==
    r = [pc |-> r.pc, page |-> r.page, revoked |-> r.revoked, prior |-> r.prior,
         done |-> r.done, events |-> r.events]

PageInv(r) ==
    /\ IsRun(r)
    /\ DOMAIN r.page \subseteq Listings
    /\ \A k \in DOMAIN r.page :
         /\ r.page[k].ts \in 1..now
         /\ r.page[k].ts = feed[k].ts => r.page[k] = Delivered(k)
    /\ r.done \subseteq Items(r.page)

ClockInv ==
    /\ now \in Nat
    /\ feed \in [Listings -> [ts : Nat, rec : Versions \cup {Empty}]]
    /\ DOMAIN writer = Writers
    /\ \A k \in Listings : feed[k].ts \in 0..now /\ rows[k].ts \in 0..now

PagesInv == \A w \in Writers : PageInv(writer[w])

CaptureInv == ClockInv /\ PagesInv /\ ColumnsComplete /\ ChildrenCurrent

\* Between pages, and with keys to delete.
LEMMA IdlePage ==
    ASSUME NEW pc, NEW S, NEW r, r = [Idle EXCEPT !.pc = pc, !.revoked = S] \/ r = Idle
    PROVE  PageInv(r) /\ PageInv(r)'
<1>1. IsRun(r) /\ DOMAIN r.page = {} /\ r.done = {}
  <2>1. IsRun(r) /\ r.page = Empty /\ r.done = {}
    <3>1. CASE r = Idle
      BY <3>1 DEF IsRun, Idle
    <3>2. CASE r = [Idle EXCEPT !.pc = pc, !.revoked = S]
      BY <3>2 DEF IsRun, Idle
    <3> QED
      BY <3>1, <3>2
  <2>2. DOMAIN Empty = {}
    BY DEF Empty
  <2> QED
    BY <2>1, <2>2
<1>2. PageInv(r)
  BY <1>1 DEF PageInv
<1>3. PageInv(r)'
  BY <1>1 DEF PageInv, IsRun
<1> QED
  BY <1>2, <1>3

LEMMA CaptureInvInit == CaptureInit => CaptureInv
<1> SUFFICES ASSUME CaptureInit PROVE CaptureInv
  OBVIOUS
<1>1. ClockInv
  BY DEF CaptureInit, ClockInv, NoRow
<1>2. PagesInv
  BY IdlePage DEF CaptureInit, PagesInv
<1>3. \A k \in Listings : ~Stored(k)
  BY DEF CaptureInit, Stored, NoRow
<1> QED
  BY <1>1, <1>2, <1>3 DEF CaptureInv, ColumnsComplete, ChildrenCurrent

\* The steps of a writer leave the feed alone.
LEMMA WriterPages ==
    ASSUME ClockInv, PagesInv, UNCHANGED <<scope, feed, now>>,
           NEW w \in Writers, NEW r, Becomes(w, r), PageInv(r)'
    PROVE  PagesInv' /\ DOMAIN writer' = Writers
<1>1. ASSUME NEW v \in Writers, v # w PROVE PageInv(writer[v])'
  <2>1. PageInv(writer[v]) /\ writer'[v] = writer[v]
    BY <1>1 DEF PagesInv, Becomes, ClockInv
  <2> QED
    BY <2>1 DEF PageInv, IsRun, Items, Viewable, Delivered
<1>2. writer'[w] = r /\ DOMAIN writer' = Writers
  BY DEF Becomes, ClockInv
<1> QED
  BY <1>1, <1>2 DEF PagesInv

\* A writer that changes no row.
LEMMA ReaderKeeps ==
    ASSUME CaptureInv, UNCHANGED <<scope, feed, now, rows>>,
           NEW w \in Writers, NEW r, Becomes(w, r), PageInv(r)'
    PROVE  CaptureInv'
<1>1. PagesInv' /\ DOMAIN writer' = Writers
  BY WriterPages DEF CaptureInv
<1>2. ClockInv'
  BY <1>1 DEF CaptureInv, ClockInv
<1>3. ColumnsComplete' /\ ChildrenCurrent'
  BY DEF CaptureInv, ColumnsComplete, ChildrenCurrent, Stored
<1> QED
  BY <1>1, <1>2, <1>3 DEF CaptureInv

LEMMA EditKeeps ==
    ASSUME CaptureInv, NEW k \in Listings, Edit(k)
    PROVE  CaptureInv'
<1>1. PICK v \in Versions : feed' = [feed EXCEPT ![k] = [ts |-> now + 1, rec |-> v]]
  BY DEF Edit
<1>2. /\ now' = now + 1 /\ now \in Nat
      /\ UNCHANGED <<scope, rows, writer>>
      /\ feed'[k].ts = now + 1
      /\ \A l \in Listings : l # k => feed'[l] = feed[l]
  BY <1>1 DEF Edit, CaptureInv, ClockInv
<1>3. ClockInv'
  BY <1>1, <1>2 DEF CaptureInv, ClockInv
<1>4. PagesInv'
  <2> SUFFICES ASSUME NEW w \in Writers PROVE PageInv(writer[w])'
    BY DEF PagesInv
  <2>1. PageInv(writer[w])
    BY DEF CaptureInv, PagesInv
  <2>2. ASSUME NEW l \in DOMAIN writer[w].page
        PROVE  /\ writer[w].page[l].ts \in 1..now'
               /\ writer[w].page[l].ts = feed'[l].ts => writer[w].page[l] = Delivered(l)'
    <3>1. /\ l \in Listings
          /\ writer[w].page[l].ts \in 1..now
          /\ writer[w].page[l].ts = feed[l].ts => writer[w].page[l] = Delivered(l)
      BY <2>1, <2>2 DEF PageInv
    <3>2. CASE l = k
      BY <1>2, <3>1, <3>2
    <3>3. CASE l # k
      BY <1>2, <3>1, <3>3 DEF Delivered
    <3> QED
      BY <3>2, <3>3
  <2> QED
    BY <1>2, <2>1, <2>2 DEF PageInv, IsRun, Items, Viewable
<1>5. \A l \in Listings : rows'[l].ts = feed'[l].ts => l # k
  BY <1>2 DEF CaptureInv, ClockInv
<1>6. ColumnsComplete' /\ ChildrenCurrent'
  BY ZenonT(60), <1>2, <1>5 DEF CaptureInv, ColumnsComplete, ChildrenCurrent, Stored
<1> QED
  BY <1>3, <1>4, <1>6 DEF CaptureInv

LEMMA FetchKeeps ==
    ASSUME CaptureInv, NEW w \in Writers, Fetch(w)
    PROVE  CaptureInv'
<1> DEFINE page(S) == [k \in S |-> Delivered(k)]
           after(S) == [Idle EXCEPT !.pc = IF Items(page(S)) # {} THEN "begin" ELSE "delete",
                                    !.page = page(S),
                                    !.revoked = S \ Viewable(page(S))]
<1>1. PICK S \in SUBSET {k \in Listings : feed[k].ts # 0} : Becomes(w, after(S))
  BY DEF Fetch
<1>2. PICK r : r = after(S)
  OBVIOUS
<1>3. IsRun(r) /\ r.page = page(S) /\ r.done = {}
  BY <1>2 DEF IsRun, Idle
<1>4. \A k \in S : k \in Listings /\ Delivered(k).ts \in 1..now /\ Delivered(k).ts = feed[k].ts
  BY DEF Delivered, CaptureInv, ClockInv
<1>5. UNCHANGED <<scope, feed, now, rows>>
  BY DEF Fetch
<1>6. PageInv(r)
  BY <1>3, <1>4 DEF PageInv
<1>7. PageInv(r)'
  BY <1>5, <1>6 DEF PageInv, Delivered, IsRun, Items, Viewable
<1> QED
  BY <1>1, <1>2, <1>5, <1>7, ReaderKeeps

LEMMA PurgeKeeps ==
    ASSUME CaptureInv, NEW w \in Writers, Purge(w)
    PROVE  CaptureInv'
<1>1. PICK S : Becomes(w, [Idle EXCEPT !.pc = "delete", !.revoked = S])
  BY DEF Purge
<1>2. UNCHANGED <<scope, feed, now, rows>>
  BY DEF Purge
<1>3. PICK r : r = [Idle EXCEPT !.pc = "delete", !.revoked = S]
  OBVIOUS
<1>4. PageInv(r)'
  BY <1>3, IdlePage
<1> QED
  BY <1>1, <1>2, <1>3, <1>4, ReaderKeeps

\* The read of the prior rows, and the statements of an item.
LEMMA ReadKeeps ==
    ASSUME CaptureInv, NEW w \in Writers, Begin(w) \/ Execute(w)
    PROVE  CaptureInv'
<1> DEFINE old == writer[w]
<1>1. PageInv(old)
  BY DEF CaptureInv, PagesInv
<1>2. PICK r : Becomes(w, r) /\ IsRun(r) /\ r.page = old.page /\ r.done \subseteq Items(old.page)
  <2>1. CASE Begin(w)
    <3>1. PICK r : /\ \E prior : r = [old EXCEPT !.pc = "batch", !.prior = prior]
                   /\ Becomes(w, r)
      BY <2>1 DEF Begin
    <3>2. IsRun(r) /\ r.page = old.page /\ r.done = old.done
      BY <1>1, <3>1 DEF PageInv, IsRun
    <3> QED
      BY <1>1, <3>1, <3>2 DEF PageInv
  <2>2. CASE Execute(w)
    <3>1. PICK k, events, r :
            /\ k \in Pending(w)
            /\ r = [old EXCEPT !.done = @ \cup {k}, !.events = events]
            /\ Becomes(w, r)
      BY <2>2 DEF Execute
    <3>2. IsRun(r) /\ r.page = old.page /\ r.done = old.done \cup {k}
      BY <1>1, <3>1 DEF PageInv, IsRun
    <3> QED
      BY <1>1, <3>1, <3>2 DEF PageInv, Pending
  <2> QED
    BY <2>1, <2>2
<1>5. PageInv(r)
  BY <1>1, <1>2 DEF PageInv
<1>6. UNCHANGED <<scope, feed, now, rows>>
  BY DEF Begin, Execute
<1>7. PageInv(r)'
  BY <1>5, <1>6 DEF PageInv, Delivered, IsRun, Items, Viewable
<1> QED
  BY <1>2, <1>6, <1>7, ReaderKeeps

LEMMA RollbackKeeps ==
    ASSUME CaptureInv, NEW w \in Writers, Rollback(w)
    PROVE  CaptureInv'
<1>1. PageInv(Idle)'
  BY IdlePage DEF Idle
<1> QED
  BY <1>1, ReaderKeeps DEF Rollback

\* Rows that go.
LEMMA DeleteKeeps ==
    ASSUME CaptureInv, NEW w \in Writers, Delete(w)
    PROVE  CaptureInv'
<1>1. PageInv(Idle)'
  BY IdlePage DEF Idle
<1>2. PagesInv' /\ DOMAIN writer' = Writers
  BY <1>1, WriterPages DEF CaptureInv, Delete
<1>3. \A k \in Listings : rows'[k] = NoRow \/ rows'[k] = rows[k]
  BY DEF Delete
<1>4. NoRow.ts = 0
  BY DEF NoRow
<1>5. ClockInv'
  BY <1>2, <1>3, <1>4 DEF Delete, CaptureInv, ClockInv
<1>6. \A k \in Listings : Stored(k)' => rows'[k] = rows[k] /\ Stored(k)
  BY <1>3, <1>4 DEF Stored
<1>7. ColumnsComplete'
  BY <1>6 DEF Delete, CaptureInv, ColumnsComplete
<1>8. ChildrenCurrent'
  BY ZenonT(60), <1>6 DEF Delete, CaptureInv, ChildrenCurrent
<1> QED
  BY <1>2, <1>5, <1>7, <1>8 DEF CaptureInv

\* The row an item leaves, when its listing has not changed since the fetch.
LEMMA UpsertedCurrent ==
    ASSUME CaptureInv, NEW k \in Listings, NEW page,
           k \in Items(page), page[k] = Delivered(k)
    PROVE  /\ CanView(feed[k].rec)
           /\ UpsertedRow(k, page[k]).cols = ExtractArgs(feed[k].rec)
           /\ scope = "full" => UpsertedRow(k, page[k]).raw = DOMAIN feed[k].rec
           /\ \A c \in ExpandedChildren :
                /\ Children(feed[k].rec, c) # {}
                /\ c = "Media" \/ scope # "minimal"
                => UpsertedRow(k, page[k]).kids[c] = Children(feed[k].rec, c) \ {0}
<1>1. page[k].rec = Response(scope, feed[k].rec)
  BY DEF Delivered
<1>2. CanView(feed[k].rec)
  BY <1>1, ResponseViewable DEF Items, Viewable
<1>3. UpsertedRow(k, page[k]).cols = ExtractArgs(feed[k].rec)
  BY <1>1, ResponseColumns DEF UpsertedRow
<1>4. DOMAIN feed[k].rec \subseteq Fields
  BY CaptureConstants DEF CaptureInv, ClockInv, Empty
<1>5. ASSUME scope = "full" PROVE UpsertedRow(k, page[k]).raw = DOMAIN feed[k].rec
  BY <1>1, <1>4, <1>5, ResponseWhole DEF UpsertedRow, FilterRaw
<1>6. ASSUME NEW c \in ExpandedChildren, Children(feed[k].rec, c) # {},
             c = "Media" \/ scope # "minimal"
      PROVE  UpsertedRow(k, page[k]).kids[c] = Children(feed[k].rec, c) \ {0}
  <2>1. Children(page[k].rec, c) = Children(feed[k].rec, c)
    BY <1>1, <1>6, ResponseChildren
  <2> QED
    BY <1>6, <2>1 DEF UpsertedRow, Replaced
<1> QED
  BY <1>2, <1>3, <1>5, <1>6

\* Rows that a page puts in place.
LEMMA CommitKeeps ==
    ASSUME CaptureInv, NEW w \in Writers, Commit(w)
    PROVE  CaptureInv'
<1> DEFINE page == writer[w].page
           done == writer[w].done
<1>1. PageInv(writer[w]) /\ done \subseteq DOMAIN page
  BY DEF CaptureInv, PagesInv, PageInv, Items, Viewable
<1>2. PICK r : Becomes(w, r) /\ PageInv(r)'
  <2>1. PICK S : S = writer[w].revoked
    OBVIOUS
  <2>2. PICK r : /\ r = Idle \/ r = [Idle EXCEPT !.pc = "delete", !.revoked = S]
                 /\ Becomes(w, r)
    BY <2>1 DEF Commit
  <2>3. PageInv(r)'
    BY <2>2, IdlePage
  <2> QED
    BY <2>2, <2>3
<1>3. UNCHANGED <<scope, feed, now>>
  BY DEF Commit
<1>4. PagesInv' /\ DOMAIN writer' = Writers
  BY <1>2, <1>3, WriterPages DEF CaptureInv
<1>5. \A k \in Listings : rows'[k] = IF k \in done THEN UpsertedRow(k, page[k]) ELSE rows[k]
  BY DEF Commit
<1>6. \A k \in done : UpsertedRow(k, page[k]).ts = page[k].ts
  BY DEF UpsertedRow
<1>7. ClockInv'
  BY <1>1, <1>3, <1>4, <1>5, <1>6 DEF CaptureInv, ClockInv, PageInv
<1>8. \A k \in Listings : k \in done /\ rows'[k].ts = feed[k].ts => page[k] = Delivered(k)
  BY <1>1, <1>5, <1>6 DEF PageInv
<1>9. ColumnsComplete'
  <2> SUFFICES ASSUME NEW k \in Listings, rows'[k].ts # 0, rows'[k].ts = feed[k].ts
               PROVE  /\ CanView(feed[k].rec)
                      /\ rows'[k].cols = ExtractArgs(feed[k].rec)
                      /\ scope = "full" => rows'[k].raw = DOMAIN feed[k].rec
    BY <1>3 DEF ColumnsComplete, Stored
  <2>1. CASE k \in done
    BY <1>1, <1>5, <1>8, <2>1, UpsertedCurrent DEF PageInv
  <2>2. CASE k \notin done
    BY <1>5, <2>2 DEF CaptureInv, ColumnsComplete, Stored
  <2> QED
    BY <2>1, <2>2
<1>10. ChildrenCurrent'
  <2> SUFFICES ASSUME NEW k \in Listings, NEW c \in ExpandedChildren,
                      rows'[k].ts # 0, rows'[k].ts = feed[k].ts,
                      Children(feed[k].rec, c) # {}, c = "Media" \/ scope # "minimal"
               PROVE  rows'[k].kids[c] = Children(feed[k].rec, c) \ {0}
    BY <1>3 DEF ChildrenCurrent, Stored
  <2>1. CASE k \in done
    <3>1. k \in Items(page) /\ page[k] = Delivered(k) /\ rows'[k] = UpsertedRow(k, page[k])
      BY <1>1, <1>5, <1>8, <2>1 DEF PageInv
    <3> QED
      BY <3>1, UpsertedCurrent
  <2>2. CASE k \notin done
    BY <1>5, <2>2 DEF CaptureInv, ChildrenCurrent, Stored
  <2> QED
    BY <2>1, <2>2
<1> QED
  BY <1>4, <1>7, <1>9, <1>10 DEF CaptureInv

LEMMA CaptureInvNext == CaptureInv /\ [CaptureNext]_captureVars => CaptureInv'
<1> SUFFICES ASSUME CaptureInv, [CaptureNext]_captureVars PROVE CaptureInv'
  OBVIOUS
<1>1. CASE UNCHANGED captureVars
  BY ZenonT(60), <1>1 DEF captureVars, CaptureInv, ClockInv, PagesInv, PageInv, IsRun, Items, Viewable,
              Delivered, ColumnsComplete, ChildrenCurrent, Stored
<1>2. ASSUME NEW k \in Listings, Edit(k) PROVE CaptureInv'
  BY <1>2, EditKeeps
<1>3. ASSUME NEW w \in Writers,
             Fetch(w) \/ Purge(w) \/ Begin(w) \/ Execute(w) \/ Commit(w) \/ Delete(w) \/ Rollback(w)
      PROVE  CaptureInv'
  BY <1>3, FetchKeeps, PurgeKeeps, ReadKeeps, CommitKeeps, DeleteKeeps, RollbackKeeps
<1> QED
  BY <1>1, <1>2, <1>3 DEF CaptureNext

LEMMA CaptureInvariant == CaptureSpec => []CaptureInv
BY CaptureInvInit, CaptureInvNext, PTL DEF CaptureSpec

\* For any number of writers, whichever order their transactions take: a row in
\* the version the feed has now holds every core column the whole record
\* gives, whatever the scope left out of the request, and no revoked version is
\* stored.
THEOREM ColumnsAreComplete == CaptureSpec => []ColumnsComplete
<1>1. CaptureInv => ColumnsComplete
  BY DEF CaptureInv
<1> QED
  BY <1>1, CaptureInvariant, PTL

\* The same of its children, where the record lists any and the scope expands
\* them.
THEOREM ChildrenAreCurrent == CaptureSpec => []ChildrenCurrent
<1>1. CaptureInv => ChildrenCurrent
  BY DEF CaptureInv
<1> QED
  BY <1>1, CaptureInvariant, PTL

-----------------------------------------------------------------------------
(* The log is a sequence, and stays one.                                    *)

IsSeq(s) == s \in Seq({s[i] : i \in DOMAIN s})

LEMMA ConcatIsSeq ==
    ASSUME NEW s, NEW t, IsSeq(s), IsSeq(t)
    PROVE  IsSeq(s \o t)
<1> DEFINE A == {s[i] : i \in DOMAIN s} \cup {t[i] : i \in DOMAIN t}
           u == s \o t
<1>1. s \in Seq(A) /\ t \in Seq(A)
  BY SeqMonotonic DEF IsSeq
<1>2. u \in Seq(A)
  BY <1>1, ConcatProperties
<1> HIDE DEF A, u
<1>3. u \in [1..Len(u) -> A] /\ Len(u) \in Nat
  BY <1>2, LenProperties
<1>4. u \in [1..Len(u) -> {u[i] : i \in DOMAIN u}]
  BY <1>3
<1>5. u \in Seq({u[i] : i \in DOMAIN u})
  BY <1>3, <1>4, SeqDef
<1> QED
  BY <1>5 DEF IsSeq, u

\* What one transaction adds to what another has left.
LEMMA ConcatEvents ==
    ASSUME NEW s, NEW t, IsSeq(s), IsSeq(t)
    PROVE  /\ DOMAIN s = 1..Len(s) /\ Len(s) \in Nat
           /\ DOMAIN t = 1..Len(t) /\ Len(t) \in Nat
           /\ DOMAIN (s \o t) = 1..(Len(s) + Len(t))
           /\ \A i \in DOMAIN s : (s \o t)[i] = s[i]
           /\ \A i \in DOMAIN (s \o t) :
                i \notin DOMAIN s => i - Len(s) \in DOMAIN t /\ (s \o t)[i] = t[i - Len(s)]
<1> DEFINE A == {s[i] : i \in DOMAIN s} \cup {t[i] : i \in DOMAIN t}
           u == s \o t
<1>1. s \in Seq(A) /\ t \in Seq(A)
  BY SeqMonotonic DEF IsSeq
<1> HIDE DEF A
<1>2. /\ DOMAIN s = 1..Len(s) /\ Len(s) \in Nat
      /\ DOMAIN t = 1..Len(t) /\ Len(t) \in Nat
  BY <1>1, LenProperties
<1>3. /\ u \in Seq(A) /\ Len(u) = Len(s) + Len(t)
      /\ \A i \in 1..(Len(s) + Len(t)) : u[i] = IF i <= Len(s) THEN s[i] ELSE t[i - Len(s)]
  BY <1>1, ConcatProperties
<1> HIDE DEF u
<1>4. DOMAIN u = 1..(Len(s) + Len(t))
  BY <1>3, LenProperties
<1>5. /\ \A i \in DOMAIN s : u[i] = s[i]
      /\ \A i \in DOMAIN u : i \notin DOMAIN s => i - Len(s) \in DOMAIN t /\ u[i] = t[i - Len(s)]
  BY <1>2, <1>3, <1>4
<1> QED
  BY <1>2, <1>4, <1>5 DEF u

LEMMA TuplesAreSeqs == IsSeq(<<>>) /\ \A x : IsSeq(<<x>>)
BY DEF IsSeq

LEMMA ClassifiedIsSeq ==
    ASSUME NEW k, NEW prior, NEW item
    PROVE  IsSeq(ClassifyEvents(k, prior, item))
<1>1. PICK s, t : /\ s = <<>> \/ \E x : s = <<x>>
                  /\ t = <<>> \/ \E x : t = <<x>>
                  /\ ClassifyEvents(k, prior, item) = s \/ ClassifyEvents(k, prior, item) = s \o t
  BY DEF ClassifyEvents
<1>2. IsSeq(s) /\ IsSeq(t)
  BY <1>1, TuplesAreSeqs
<1> QED
  BY <1>1, <1>2, ConcatIsSeq

LEMMA DelistedIsSeq ==
    ASSUME IsFiniteSet(Listings), NEW keys \in SUBSET Listings
    PROVE  IsSeq(Delisted(keys))
<1> DEFINE there == {l \in keys : Stored(l)}
           event(k) == Event(k, "delisted", rows[k].cols["StandardStatus"], NULL, 0)
           T == {event(k) : k \in there}
<1>1. IsFiniteSet(there)
  BY FS_Subset
<1>2. [k \in there |-> event(k)] \in Surjection(there, T)
  BY DEF Surjection
<1>3. IsFiniteSet(T)
  BY <1>1, <1>2, FS_Surjection
<1>6. Delisted(keys) = SetToSeq(T)
  BY DEF Delisted, there
<1> HIDE DEF T
<1>7. Cardinality(T) \in Nat /\ ExistsBijection(1..Cardinality(T), T)
  BY <1>3, FS_CardinalityType
<1>8. \E s \in [1..Cardinality(T) -> T] : IsInjective(s)
  BY <1>7 DEF ExistsBijection, Bijection, Injection
<1>9. SetToSeq(T) \in [1..Cardinality(T) -> T]
  BY <1>8 DEF SetToSeq
<1>10. PICK s : s = SetToSeq(T)
  OBVIOUS
<1>11. s \in [1..Cardinality(T) -> {s[i] : i \in DOMAIN s}]
  BY <1>9, <1>10
<1>12. IsSeq(s)
  BY <1>7, <1>11, SeqDef DEF IsSeq
<1> QED
  BY <1>6, <1>10, <1>12

LogInv == IsSeq(log) /\ \A w \in Writers : IsSeq(writer[w].events)

LEMMA LogNext ==
    ASSUME IsFiniteSet(Listings), CaptureInv, LogInv, [CaptureNext]_captureVars,
           \A w \in Writers : writer[w].revoked \subseteq Listings
    PROVE  LogInv'
<1>1. CASE UNCHANGED captureVars
  BY <1>1 DEF captureVars, LogInv
<1>2. ASSUME NEW k \in Listings, Edit(k) PROVE LogInv'
  BY <1>2 DEF Edit, LogInv
<1>3. ASSUME NEW w \in Writers, NEW r, Becomes(w, r), IsSeq(r.events), IsSeq(log') PROVE LogInv'
  BY <1>3 DEF LogInv, Becomes, CaptureInv, ClockInv
<1>4. IsSeq(log) /\ \A w \in Writers : IsSeq(writer[w].events) /\ PageInv(writer[w])
  BY DEF LogInv, CaptureInv, PagesInv
<1>5. ASSUME NEW pc, NEW page, NEW S, NEW r,
             r = Idle \/ r = [Idle EXCEPT !.pc = pc, !.page = page, !.revoked = S]
                      \/ r = [Idle EXCEPT !.pc = pc, !.revoked = S]
      PROVE  IsSeq(r.events)
  <2>1. r.events = <<>>
    <3>1. CASE r = Idle
      BY <3>1 DEF Idle
    <3>2. CASE r = [Idle EXCEPT !.pc = pc, !.page = page, !.revoked = S]
      BY <3>2 DEF Idle
    <3>3. CASE r = [Idle EXCEPT !.pc = pc, !.revoked = S]
      BY SMTT(40), <3>3 DEF Idle
    <3> QED
      BY <1>5, <3>1, <3>2, <3>3
  <2> QED
    BY <2>1, TuplesAreSeqs
<1>6. ASSUME NEW w \in Writers, Fetch(w) \/ Purge(w) \/ Rollback(w) PROVE LogInv'
  <2>1. PICK pc, page, S, r :
          /\ Becomes(w, r)
          /\ r = Idle \/ r = [Idle EXCEPT !.pc = pc, !.page = page, !.revoked = S]
                      \/ r = [Idle EXCEPT !.pc = pc, !.revoked = S]
    BY <1>6 DEF Fetch, Purge, Rollback
  <2>2. log' = log
    BY <1>6 DEF Fetch, Purge, Rollback
  <2> QED
    BY ZenonT(60), <1>3, <1>4, <1>5, <2>1, <2>2
<1>7. ASSUME NEW w \in Writers, Begin(w) PROVE LogInv'
  <2>1. PICK prior, r : Becomes(w, r) /\ r = [writer[w] EXCEPT !.pc = "batch", !.prior = prior]
    BY <1>7 DEF Begin
  <2>2. r.events = writer[w].events
    BY <1>4, <2>1 DEF PageInv, IsRun
  <2> QED
    BY <1>3, <1>4, <1>7, <2>1, <2>2 DEF Begin
<1>8. ASSUME NEW w \in Writers, Execute(w) PROVE LogInv'
  <2> DEFINE old == writer[w]
  <2>1. PICK k, r :
          /\ Becomes(w, r)
          /\ r = [old EXCEPT !.done = @ \cup {k},
                             !.events = @ \o ClassifyEvents(k, old.prior, old.page[k])]
    BY <1>8 DEF Execute
  <2>2. r.events = old.events \o ClassifyEvents(k, old.prior, old.page[k])
    <3>1. PICK events : events = old.events \o ClassifyEvents(k, old.prior, old.page[k])
      OBVIOUS
    <3>2. r = [old EXCEPT !.done = @ \cup {k}, !.events = events]
      BY <2>1, <3>1
    <3>3. IsRun(old)
      BY <1>4 DEF PageInv
    <3>4. r.events = events
      BY <3>2, <3>3 DEF IsRun
    <3> QED
      BY <3>1, <3>4
  <2>3. IsSeq(r.events)
    BY SMTT(40), <1>4, <2>2, ClassifiedIsSeq, ConcatIsSeq
  <2> QED
    BY <1>3, <1>4, <1>8, <2>1, <2>3 DEF Execute
<1>9. ASSUME NEW w \in Writers, Commit(w) PROVE LogInv'
  <2>1. PICK S, r : Becomes(w, r) /\ (r = Idle \/ r = [Idle EXCEPT !.pc = "delete", !.revoked = S])
    BY <1>9 DEF Commit
  <2>2. IsSeq(log')
    BY SMTT(40), <1>4, <1>9, ConcatIsSeq DEF Commit
  <2> QED
    BY <1>3, <1>5, <2>1, <2>2
<1>10. ASSUME NEW w \in Writers, Delete(w) PROVE LogInv'
  <2>1. IsSeq(Delisted(writer[w].revoked))
    BY DelistedIsSeq
  <2>2. IsSeq(log')
    BY <1>4, <1>10, <2>1, ConcatIsSeq DEF Delete
  <2> QED
    BY <1>3, <1>5, <1>10, <2>2 DEF Delete
<1> QED
  BY <1>1, <1>2, <1>6, <1>7, <1>8, <1>9, <1>10 DEF CaptureNext

RevokedInv == \A w \in Writers : writer[w].revoked \subseteq Listings

LEMMA RevokedNext ==
    ASSUME CaptureInv, RevokedInv, [CaptureNext]_captureVars
    PROVE  RevokedInv'
<1>1. CASE UNCHANGED captureVars
  BY <1>1 DEF captureVars, RevokedInv
<1>2. ASSUME NEW w \in Writers, NEW r, Becomes(w, r), r.revoked \subseteq Listings
      PROVE  RevokedInv'
  BY <1>2 DEF RevokedInv, Becomes, CaptureInv, ClockInv
<1>3. \A w \in Writers : writer[w].revoked \subseteq Listings /\ IsRun(writer[w])
  BY DEF RevokedInv, CaptureInv, PagesInv, PageInv
<1>4. ASSUME NEW k \in Listings, Edit(k) PROVE RevokedInv'
  BY <1>4 DEF Edit, RevokedInv
<1>5. ASSUME NEW w \in Writers, Begin(w) \/ Execute(w) PROVE RevokedInv'
  <2>1. PICK prior, done, events, r :
          /\ Becomes(w, r)
          /\ \/ r = [writer[w] EXCEPT !.pc = "batch", !.prior = prior]
             \/ r = [writer[w] EXCEPT !.done = done, !.events = events]
    BY <1>5 DEF Begin, Execute
  <2>2. r.revoked = writer[w].revoked
    BY <1>3, <2>1 DEF IsRun
  <2> QED
    BY <1>2, <1>3, <2>1, <2>2
<1>6. ASSUME NEW w \in Writers, Fetch(w) PROVE RevokedInv'
  <2> DEFINE pages(T) == [k \in T |-> Delivered(k)]
             after(T) == [Idle EXCEPT !.pc = IF Items(pages(T)) # {} THEN "begin" ELSE "delete",
                                      !.page = pages(T),
                                      !.revoked = T \ Viewable(pages(T))]
  <2>0. PICK T \in SUBSET {k \in Listings : feed[k].ts # 0} : Becomes(w, after(T))
    BY <1>6 DEF Fetch
  <2>1. PICK S, r : Becomes(w, r) /\ r = after(T) /\ S = T \ Viewable(pages(T))
    BY <2>0
  <2>2. r.revoked = S
    BY <2>1 DEF Idle
  <2> QED
    BY <1>2, <2>1, <2>2
<1>7. ASSUME NEW w \in Writers, Purge(w) \/ Commit(w) \/ Delete(w) \/ Rollback(w) PROVE RevokedInv'
  <2>1. PICK S, r :
          /\ S \subseteq Listings
          /\ Becomes(w, r) /\ (r = Idle \/ r = [Idle EXCEPT !.pc = "delete", !.revoked = S])
    BY <1>3, <1>7 DEF Purge, Commit, Delete, Rollback
  <2>2. r.revoked \in {{}, S}
    <3>1. CASE r = Idle
      BY <3>1 DEF Idle
    <3>2. CASE r = [Idle EXCEPT !.pc = "delete", !.revoked = S]
      BY <3>2 DEF Idle
    <3> QED
      BY <2>1, <3>1, <3>2
  <2> QED
    BY SMTT(40), <1>2, <2>1, <2>2
<1> QED
  BY <1>1, <1>4, <1>5, <1>6, <1>7 DEF CaptureNext

-----------------------------------------------------------------------------
(* A page written again, by one writer.  What it compares the page with is  *)
(* what it replaces, since nobody else writes rows in between.              *)

\* Events that only say that records of the page have a null price.
Repriced(r, events) ==
    \A i \in DOMAIN events : /\ events[i].type = "price_change"
                             /\ NullPriced(r.page[events[i].key].rec)

\* A record compared with the row it left is no change, unless its price is null:
\* Float reads it as 0, and the column is NULL.
LEMMA SameRecordEvents ==
    ASSUME NEW k, NEW prior, NEW r, k \in DOMAIN prior,
           prior[k].cols = ExtractArgs(r.page[k].rec)
    PROVE  Repriced(r, ClassifyEvents(k, prior, r.page[k]))
<1> DEFINE item == r.page[k]
           rec == item.rec
           event == Event(k, "price_change", prior[k].cols["ListPrice"], FeedPrice(rec), item.ts)
<1>1. ASSUME NEW c \in {"ListPrice", "StandardStatus"}, Has(rec, c), Parsed(rec, c, c) # NULL
      PROVE  prior[k].cols[c] = Parsed(rec, c, c)
  <2>0. c # "PropertyAttachedYN"
    OBVIOUS
  <2>1. Candidates(c) = <<c>>
    BY <2>0 DEF Candidates, Aliases
  <2> DEFINE good == {i \in DOMAIN <<c>> : /\ Has(rec, <<c>>[i])
                                           /\ Parsed(rec, <<c>>[i], c) # NULL}
  <2>2. good = {1}
    BY <1>1
  <2>3. Min(good) = 1
    BY <2>2 DEF Min
  <2>4. ExtractValue(rec, c) = Parsed(rec, c, c)
    BY <2>1, <2>2, <2>3 DEF ExtractValue
  <2> QED
    BY <2>4 DEF ExtractArgs, CoreColumns
<1>2. FeedPrice(rec) # NULL /\ prior[k].cols["ListPrice"] # FeedPrice(rec) => NullPriced(rec)
  <2>1. FeedPrice(rec) = Parsed(rec, "ListPrice", "ListPrice")
    BY DEF FeedPrice, Parsed
  <2>2. FeedPrice(rec) # NULL => Has(rec, "ListPrice") \/ NullPriced(rec)
    BY DEF FeedPrice, Float, Scalar, Has, NullPriced
  <2> QED
    BY <1>1, <2>1, <2>2
<1>3. FeedStatus(rec) # NULL => prior[k].cols["StandardStatus"] = FeedStatus(rec)
  <2>1. FeedStatus(rec) = Parsed(rec, "StandardStatus", "StandardStatus")
    BY DEF FeedStatus, Parsed
  <2>2. FeedStatus(rec) # NULL => Has(rec, "StandardStatus")
    BY DEF FeedStatus, String
  <2> QED
    BY <1>1, <2>1, <2>2
<1>4. event.key = k /\ event.type = "price_change"
  BY DEF Event
<1>5. \/ ClassifyEvents(k, prior, item) = <<event>> \o <<>> /\ NullPriced(rec)
      \/ ClassifyEvents(k, prior, item) = <<>> \o <<>>
  BY <1>2, <1>3 DEF ClassifyEvents
<1> HIDE DEF event
<1> QED
  BY <1>4, <1>5 DEF Repriced

\* r is the run of the only writer.
ReplayInv(r) ==
    /\ r.pc \in {"begin", "batch"} =>
         \A k \in Items(r.page) :
            rows[k].ts = r.page[k].ts => rows[k].cols = ExtractArgs(r.page[k].rec)
    /\ r.pc = "begin" => r.done = {} /\ r.events = <<>>
    /\ r.pc = "batch" =>
         /\ \A k \in Items(r.page) :
              Stored(k) => k \in DOMAIN r.prior /\ r.prior[k].cols = rows[k].cols
         /\ (\A k \in r.done : rows[k].ts = r.page[k].ts) => Repriced(r, r.events)

LEMMA ReplayNext ==
    ASSUME NEW w, Writers = {w}, CaptureInv, LogInv, ReplayInv(writer[w]), [CaptureNext]_captureVars
    PROVE  ReplayInv(writer[w])'
<1> DEFINE old == writer[w]
<1>0. PageInv(old) /\ DOMAIN writer = {w}
  BY DEF CaptureInv, ClockInv, PagesInv
<1>1. CASE UNCHANGED captureVars
  BY <1>1 DEF captureVars, ReplayInv, Items, Viewable, Stored
<1>2. ASSUME NEW k \in Listings, Edit(k) PROVE ReplayInv(writer[w])'
  BY <1>2 DEF Edit, ReplayInv, Items, Viewable, Stored
<1>3. ASSUME Fetch(w) PROVE ReplayInv(writer[w])'
  <2> DEFINE page(S) == [k \in S |-> Delivered(k)]
             after(S) == [Idle EXCEPT !.pc = IF Items(page(S)) # {} THEN "begin" ELSE "delete",
                                      !.page = page(S),
                                      !.revoked = S \ Viewable(page(S))]
  <2>1. PICK S \in SUBSET {k \in Listings : feed[k].ts # 0} : Becomes(w, after(S))
    BY <1>3 DEF Fetch
  <2>2. PICK r : r = after(S)
    OBVIOUS
  <2>3. r.page = page(S) /\ r.done = {} /\ r.events = <<>> /\ r.pc \in {"begin", "delete"}
    BY <2>2 DEF Idle
  <2>4. writer'[w] = r
    BY <1>0, <2>1, <2>2 DEF Becomes
  <2>5. ASSUME NEW k \in S
        PROVE  rows[k].ts = page(S)[k].ts => rows[k].cols = ExtractArgs(page(S)[k].rec)
    <3>1. page(S)[k].ts = feed[k].ts /\ page(S)[k].rec = Response(scope, feed[k].rec)
          /\ feed[k].ts # 0
      BY DEF Delivered
    <3>2. rows[k].ts = feed[k].ts => rows[k].cols = ExtractArgs(feed[k].rec)
      BY <3>1 DEF CaptureInv, ColumnsComplete, Stored
    <3> QED
      BY <3>1, <3>2, ResponseColumns
  <2>6. ReplayInv(r)
    BY <2>3, <2>5 DEF ReplayInv, Items, Viewable
  <2>7. UNCHANGED rows
    BY <1>3 DEF Fetch
  <2> QED
    BY <2>4, <2>6, <2>7 DEF ReplayInv, Repriced, Items, Viewable, Stored
<1>4. ASSUME Begin(w) PROVE ReplayInv(writer[w])'
  <2>1. PICK r : /\ r = [old EXCEPT !.pc = "batch",
                                    !.prior = [k \in {l \in Items(old.page) : Stored(l)} |-> rows[k]]]
                 /\ Becomes(w, r)
    BY <1>4 DEF Begin
  <2>2. /\ r.pc = "batch" /\ r.page = old.page /\ r.done = old.done /\ r.events = old.events
        /\ r.prior = [k \in {l \in Items(old.page) : Stored(l)} |-> rows[k]]
    BY <1>0, <2>1 DEF PageInv, IsRun
  <2>3. writer'[w] = r /\ old.pc = "begin"
    BY <1>0, <1>4, <2>1 DEF Becomes, Begin
  <2>4. ReplayInv(r)
    <3>1. r.events = <<>> /\ r.done = {}
      BY <2>2, <2>3 DEF ReplayInv
    <3>2. Repriced(r, r.events)
      BY <3>1 DEF Repriced
    <3> QED
      BY <2>2, <2>3, <3>2 DEF ReplayInv
  <2>5. UNCHANGED rows
    BY <1>4 DEF Begin
  <2> QED
    BY <2>3, <2>4, <2>5 DEF ReplayInv, Repriced, Items, Viewable, Stored
<1>5. ASSUME Execute(w) PROVE ReplayInv(writer[w])'
  <2>1. PICK k, r :
          /\ k \in Pending(w)
          /\ r = [old EXCEPT !.done = @ \cup {k},
                             !.events = @ \o ClassifyEvents(k, old.prior, old.page[k])]
          /\ Becomes(w, r)
    BY <1>5 DEF Execute
  <2>2. /\ r.pc = old.pc /\ r.page = old.page /\ r.prior = old.prior
        /\ r.done = old.done \cup {k}
        /\ r.events = old.events \o ClassifyEvents(k, old.prior, old.page[k])
    BY <1>0, <2>1 DEF PageInv, IsRun
  <2>3. writer'[w] = r /\ old.pc = "batch"
    BY <1>0, <1>5, <2>1 DEF Becomes, Execute
  <2>4. k \in Items(old.page) /\ k \in Listings /\ old.page[k].ts \in 1..now
    BY <1>0, <2>1 DEF Pending, Items, Viewable, PageInv
  <2>5. ASSUME \A l \in r.done : rows[l].ts = r.page[l].ts PROVE Repriced(r, r.events)
    <3>1. rows[k].ts = old.page[k].ts /\ Stored(k)
      BY <2>2, <2>4, <2>5 DEF CaptureInv, ClockInv, Stored
    <3>2. k \in DOMAIN old.prior /\ old.prior[k].cols = ExtractArgs(old.page[k].rec)
      BY <2>3, <2>4, <3>1 DEF ReplayInv
    <3> DEFINE s == old.events
               t == ClassifyEvents(k, old.prior, old.page[k])
    <3>3. Repriced(r, t)
      BY <2>2, <3>2, SameRecordEvents
    <3>4. Repriced(r, s)
      BY <2>2, <2>3, <2>5 DEF ReplayInv, Repriced
    <3>5. IsSeq(s) /\ IsSeq(t) /\ r.events = s \o t
      BY <2>2, ClassifiedIsSeq DEF LogInv
    <3> HIDE DEF s, t
    <3>6. \A i \in DOMAIN (s \o t) : \/ i \in DOMAIN s /\ (s \o t)[i] = s[i]
                                     \/ i - Len(s) \in DOMAIN t /\ (s \o t)[i] = t[i - Len(s)]
      BY <3>5, ConcatEvents
    <3> QED
      BY <3>3, <3>4, <3>5, <3>6 DEF Repriced
  <2>6. ReplayInv(r)
    BY <2>2, <2>3, <2>5 DEF ReplayInv
  <2>7. UNCHANGED rows
    BY <1>5 DEF Execute
  <2> QED
    BY <2>3, <2>6, <2>7 DEF ReplayInv, Repriced, Items, Viewable, Stored
<1>6. ASSUME Purge(w) \/ Commit(w) \/ Delete(w) \/ Rollback(w) PROVE ReplayInv(writer[w])'
  <2>1. PICK S, r : Becomes(w, r) /\ (r = Idle \/ r = [Idle EXCEPT !.pc = "delete", !.revoked = S])
    BY <1>6 DEF Purge, Commit, Delete, Rollback
  <2>2. r.pc \in {"idle", "delete"}
    <3>1. CASE r = Idle
      BY <3>1 DEF Idle
    <3>2. CASE r = [Idle EXCEPT !.pc = "delete", !.revoked = S]
      BY <3>2 DEF Idle
    <3> QED
      BY <2>1, <3>1, <3>2
  <2>3. writer'[w].pc \in {"idle", "delete"}
    BY <1>0, <2>1, <2>2 DEF Becomes
  <2> QED
    BY SMTT(40), <2>3 DEF ReplayInv
<1> QED
  BY <1>1, <1>2, <1>3, <1>4, <1>5, <1>6 DEF CaptureNext

\* The only writer, whoever it is.
ReplaysInv == \A w \in Writers : ReplayInv(writer[w])

\* With one writer, a page whose records are stored already in these versions
\* adds no event, whatever the scope, the aliases and the types of the fields,
\* but for the price changes of records whose price is null (UpsertProperties and
\* classifyEvents in store/postgres/upsert.go, Record.Float, extractValue).
THEOREM ReplaysAreSilent ==
    ASSUME NEW CONSTANT only, Writers = {only}, IsFiniteSet(Listings)
    PROVE  CaptureSpec => ReplaySilent
<1>1. CaptureInit => ReplaysInv /\ RevokedInv /\ LogInv
  BY TuplesAreSeqs DEF CaptureInit, ReplaysInv, ReplayInv, RevokedInv, LogInv, Idle
<1>2. CaptureInv /\ LogInv /\ ReplaysInv /\ [CaptureNext]_captureVars => ReplaysInv'
  BY ReplayNext DEF ReplaysInv
<1>3. CaptureInv /\ RevokedInv /\ [CaptureNext]_captureVars => RevokedInv'
  BY RevokedNext
<1>4. CaptureInv /\ RevokedInv /\ LogInv /\ [CaptureNext]_captureVars => LogInv'
  BY LogNext DEF RevokedInv
<1>5. CaptureInv /\ ReplaysInv /\ LogInv /\ [CaptureNext]_captureVars
      => [\A w \in Writers :
            Commit(w) /\ (\A k \in writer[w].done : rows[k].ts = writer[w].page[k].ts)
              => \A i \in (DOMAIN log') \ DOMAIN log :
                    /\ log'[i].type = "price_change"
                    /\ NullPriced(writer[w].page[log'[i].key].rec)]_captureVars
  <2> SUFFICES ASSUME CaptureInv, ReplaysInv, LogInv, NEW v \in Writers, Commit(v),
                      \A k \in writer[v].done : rows[k].ts = writer[v].page[k].ts,
                      NEW i \in (DOMAIN log') \ DOMAIN log
               PROVE  /\ log'[i].type = "price_change"
                      /\ NullPriced(writer[v].page[log'[i].key].rec)
    OBVIOUS
  <2> DEFINE events == writer[v].events
  <2>1. Repriced(writer[v], events)
    BY DEF ReplaysInv, ReplayInv, Commit
  <2>2. log' = log \o events /\ IsSeq(log) /\ IsSeq(events)
    BY DEF Commit, LogInv
  <2> HIDE DEF events
  <2>3. i - Len(log) \in DOMAIN events /\ (log \o events)[i] = events[i - Len(log)]
    BY <2>2, ConcatEvents
  <2> QED
    BY <2>1, <2>2, <2>3 DEF Repriced
<1> QED
  BY <1>1, <1>2, <1>3, <1>4, <1>5, CaptureInvariant, PTL DEF CaptureSpec, ReplaySilent

-----------------------------------------------------------------------------
(* The type invariant, for every number of writers.                         *)

EventTypes == {"new_listing", "price_change", "status_change", "back_on_market", "delisted"}

EventsOK(s) == \A i \in DOMAIN s : s[i].key \in Listings /\ s[i].type \in EventTypes

LEMMA ConcatEventsOK ==
    ASSUME NEW s, NEW t, IsSeq(s), IsSeq(t), EventsOK(s), EventsOK(t)
    PROVE  EventsOK(s \o t)
<1>1. PICK u : u = s \o t
  OBVIOUS
<1>2. \A i \in DOMAIN u : \/ i \in DOMAIN s /\ u[i] = s[i]
                          \/ i - Len(s) \in DOMAIN t /\ u[i] = t[i - Len(s)]
  BY <1>1, ConcatEvents
<1>3. EventsOK(u)
  BY <1>2 DEF EventsOK
<1> QED
  BY <1>1, <1>3

LEMMA OneEventOK ==
    ASSUME NEW x, x.key \in Listings, x.type \in EventTypes
    PROVE  EventsOK(<<x>>)
BY DEF EventsOK

LEMMA NoEventOK == EventsOK(<<>>)
BY DEF EventsOK

LEMMA ClassifiedOK ==
    ASSUME NEW k \in Listings, NEW prior, NEW item
    PROVE  EventsOK(ClassifyEvents(k, prior, item))
<1>1. PICK s, t :
        /\ s = <<>> \/ \E x : s = <<x>> /\ x.key \in Listings /\ x.type \in EventTypes
        /\ t = <<>> \/ \E x : t = <<x>> /\ x.key \in Listings /\ x.type \in EventTypes
        /\ ClassifyEvents(k, prior, item) = s \/ ClassifyEvents(k, prior, item) = s \o t
  <2> DEFINE price == FeedPrice(item.rec)
             status == FeedStatus(item.rec)
             listed == Event(k, "new_listing", NULL, price, item.ts)
             priced == Event(k, "price_change", prior[k].cols["ListPrice"], price, item.ts)
             turned == Event(k, StatusType(prior[k].cols["StandardStatus"], status),
                             prior[k].cols["StandardStatus"], status, item.ts)
             priceEvents == IF price # NULL /\ prior[k].cols["ListPrice"] # price
                            THEN <<priced>> ELSE <<>>
             statusEvents == IF status # NULL /\ prior[k].cols["StandardStatus"] # status
                             THEN <<turned>> ELSE <<>>
  <2>1. /\ listed.key = k /\ listed.type \in EventTypes
        /\ priced.key = k /\ priced.type \in EventTypes
        /\ turned.key = k /\ turned.type \in EventTypes
    BY DEF Event, EventTypes, StatusType
  <2>2. ClassifyEvents(k, prior, item) = IF k \notin DOMAIN prior THEN <<listed>>
                                         ELSE priceEvents \o statusEvents
    BY DEF ClassifyEvents
  <2> HIDE DEF listed, priced, turned, price, status
  <2>3. priceEvents = <<>> \/ priceEvents = <<priced>>
    OBVIOUS
  <2>4. statusEvents = <<>> \/ statusEvents = <<turned>>
    OBVIOUS
  <2> HIDE DEF priceEvents, statusEvents
  <2>5. CASE k \notin DOMAIN prior
    BY <2>1, <2>2, <2>5
  <2>6. CASE k \in DOMAIN prior
    BY <2>1, <2>2, <2>3, <2>4, <2>6
  <2> QED
    BY <2>5, <2>6
<1>2. IsSeq(s) /\ IsSeq(t) /\ EventsOK(s) /\ EventsOK(t)
  BY <1>1, TuplesAreSeqs, OneEventOK, NoEventOK
<1> QED
  BY <1>1, <1>2, ConcatEventsOK

\* One delisted event for every stored listing among the keys, in some order.
LEMMA DelistedEvents ==
    ASSUME IsFiniteSet(Listings), NEW keys \in SUBSET Listings, NEW t, t = Delisted(keys)
    PROVE  /\ \A i \in DOMAIN t : t[i].key \in keys /\ Stored(t[i].key) /\ t[i].type = "delisted"
           /\ \A k \in keys : Stored(k) => \E i \in DOMAIN t : t[i].key = k
           /\ \A i, j \in DOMAIN t : t[i].key = t[j].key => i = j
<1> DEFINE there == {l \in keys : Stored(l)}
           event(k) == Event(k, "delisted", rows[k].cols["StandardStatus"], NULL, 0)
           T == {event(k) : k \in there}
<1>1. IsFiniteSet(there)
  BY FS_Subset
<1>2. [k \in there |-> event(k)] \in Surjection(there, T)
  BY DEF Surjection
<1>3. IsFiniteSet(T)
  BY <1>1, <1>2, FS_Surjection
<1>4. t = SetToSeq(T)
  BY DEF Delisted, there
<1>5. \A x \in T : x.key \in keys /\ Stored(x.key) /\ x.type = "delisted" /\ x = event(x.key)
  BY DEF Event
<1>6. \A k \in keys : Stored(k) => event(k) \in T /\ event(k).key = k
  BY DEF Event
<1> HIDE DEF T, event
<1>7. Cardinality(T) \in Nat /\ ExistsBijection(1..Cardinality(T), T)
  BY <1>3, FS_CardinalityType
<1>8. \E s \in [1..Cardinality(T) -> T] : IsInjective(s)
  BY <1>7 DEF ExistsBijection, Bijection, Injection
<1>9. t \in [1..Cardinality(T) -> T] /\ IsInjective(t)
  BY <1>4, <1>8 DEF SetToSeq
<1>10. t \in Injection(1..Cardinality(T), T)
  BY <1>9 DEF Injection
<1>11. Cardinality(1..Cardinality(T)) = Cardinality(T)
  BY <1>7, FS_Interval
<1>12. t \in Surjection(1..Cardinality(T), T)
  BY <1>3, <1>10, <1>11, FS_Injection
<1>13. \A i \in DOMAIN t : t[i] \in T
  BY <1>9
<1>14. \A k \in keys : Stored(k) => \E i \in DOMAIN t : t[i].key = k
  BY <1>6, <1>12 DEF Surjection
<1>15. \A i, j \in DOMAIN t : t[i].key = t[j].key => i = j
  <2>1. \A i, j \in DOMAIN t : t[i] = t[j] => i = j
    BY <1>9 DEF IsInjective
  <2>2. \A i \in DOMAIN t : t[i] = event(t[i].key)
    BY <1>5, <1>13
  <2> QED
    BY <2>1, <2>2
<1> QED
  BY <1>5, <1>13, <1>14, <1>15

LEMMA DelistedOK ==
    ASSUME IsFiniteSet(Listings), NEW keys \in SUBSET Listings
    PROVE  EventsOK(Delisted(keys))
<1>1. PICK t : t = Delisted(keys)
  OBVIOUS
<1>2. \A i \in DOMAIN t : t[i].key \in Listings /\ t[i].type = "delisted"
  BY <1>1, DelistedEvents
<1>3. EventsOK(t)
  BY <1>2 DEF EventsOK, EventTypes
<1> QED
  BY <1>1, <1>3

RowOK(row) ==
    /\ DOMAIN row.cols = CoreColumns
    /\ row.raw \subseteq Fields
    /\ DOMAIN row.kids = ExpandedChildren

\* Nobody holds an event, a record or a row of another shape.
WriterOK(r) ==
    /\ r.pc \in {"idle", "begin", "batch", "delete"}
    /\ EventsOK(r.events)
    /\ \A k \in DOMAIN r.page : DOMAIN r.page[k].rec \subseteq Fields

TypeInv ==
    /\ scope \in ScopesUsed
    /\ now <= MaxTime
    /\ \A k \in Listings : RowOK(rows[k])
    /\ EventsOK(log)
    /\ \A w \in Writers : WriterOK(writer[w])

\* A run that holds no page and no event.
LEMMA IdleOK ==
    ASSUME NEW pc, NEW S, NEW r, r = [Idle EXCEPT !.pc = pc, !.revoked = S] \/ r = Idle,
           pc \in {"begin", "delete"}
    PROVE  WriterOK(r)
<1>1. r.pc \in {"idle", "begin", "delete"} /\ r.page = Empty /\ r.events = <<>>
  <2>1. CASE r = Idle
    BY <2>1 DEF Idle
  <2>2. CASE r = [Idle EXCEPT !.pc = pc, !.revoked = S]
    BY <2>2 DEF Idle
  <2> QED
    BY <2>1, <2>2
<1>2. DOMAIN Empty = {}
  BY DEF Empty
<1> QED
  BY <1>1, <1>2, NoEventOK DEF WriterOK

LEMMA TypeInvInit == CaptureInit => TypeInv
<1> SUFFICES ASSUME CaptureInit PROVE TypeInv
  OBVIOUS
<1>1. RowOK(NoRow)
  BY DEF RowOK, NoRow, ExtractArgs
<1>2. WriterOK(Idle)
  BY IdleOK
<1> QED
  BY <1>1, <1>2, NoEventOK, CaptureConstants DEF CaptureInit, TypeInv

\* A writer that changes neither rows nor log.
LEMMA TypeInvReader ==
    ASSUME CaptureInv, TypeInv, NEW w \in Writers, NEW r, Becomes(w, r), WriterOK(r),
           UNCHANGED <<scope, now, rows, log>>
    PROVE  TypeInv'
<1>1. \A v \in Writers : writer'[v] = IF v = w THEN r ELSE writer[v]
  BY DEF Becomes, CaptureInv, ClockInv
<1>2. \A v \in Writers : WriterOK(writer'[v])
  BY <1>1 DEF TypeInv
<1> QED
  BY <1>2 DEF TypeInv, WriterOK, EventsOK

LEMMA TypeInvNext ==
    ASSUME IsFiniteSet(Listings), CaptureInv, RevokedInv, LogInv, TypeInv,
           [CaptureNext]_captureVars
    PROVE  TypeInv'
<1>0. \A w \in Writers : WriterOK(writer[w]) /\ PageInv(writer[w]) /\ IsSeq(writer[w].events)
  BY DEF CaptureInv, PagesInv, TypeInv, LogInv
<1>1. CASE UNCHANGED captureVars
  BY <1>1 DEF captureVars, TypeInv
<1>2. ASSUME NEW k \in Listings, Edit(k) PROVE TypeInv'
  BY <1>2, CaptureConstants DEF Edit, TypeInv, CaptureInv, ClockInv
<1>3. ASSUME NEW w \in Writers, Fetch(w) PROVE TypeInv'
  <2> DEFINE page(S) == [k \in S |-> Delivered(k)]
             after(S) == [Idle EXCEPT !.pc = IF Items(page(S)) # {} THEN "begin" ELSE "delete",
                                      !.page = page(S),
                                      !.revoked = S \ Viewable(page(S))]
  <2>1. PICK S \in SUBSET {k \in Listings : feed[k].ts # 0} : Becomes(w, after(S))
    BY <1>3 DEF Fetch
  <2>2. PICK r : r = after(S)
    OBVIOUS
  <2>3. r.page = page(S) /\ r.events = <<>> /\ r.pc \in {"begin", "delete"}
    BY <2>2 DEF Idle
  <2>4. ASSUME NEW k \in S PROVE DOMAIN Delivered(k).rec \subseteq Fields
    <3>1. DOMAIN feed[k].rec \subseteq Fields
      BY CaptureConstants DEF CaptureInv, ClockInv, Empty
    <3>2. DOMAIN Response(scope, feed[k].rec) \subseteq DOMAIN feed[k].rec
      BY DEF Response, Restrict
    <3> QED
      BY <3>1, <3>2 DEF Delivered
  <2>5. WriterOK(r)
    BY <2>3, <2>4, NoEventOK DEF WriterOK
  <2> QED
    BY <1>3, <2>1, <2>2, <2>5, TypeInvReader DEF Fetch
<1>4. ASSUME NEW w \in Writers, Purge(w) \/ Rollback(w) PROVE TypeInv'
  <2>1. PICK S, r : Becomes(w, r) /\ (r = Idle \/ r = [Idle EXCEPT !.pc = "delete", !.revoked = S])
    BY <1>4 DEF Purge, Rollback
  <2>2. WriterOK(r)
    BY <2>1, IdleOK
  <2> QED
    BY <1>4, <2>1, <2>2, TypeInvReader DEF Purge, Rollback
<1>5. ASSUME NEW w \in Writers, Begin(w) PROVE TypeInv'
  <2>1. PICK prior, r : Becomes(w, r) /\ r = [writer[w] EXCEPT !.pc = "batch", !.prior = prior]
    BY <1>5 DEF Begin
  <2>2. r.pc = "batch" /\ r.events = writer[w].events /\ r.page = writer[w].page
    BY <1>0, <2>1 DEF PageInv, IsRun
  <2>3. WriterOK(r)
    BY <1>0, <2>2 DEF WriterOK
  <2> QED
    BY <1>5, <2>1, <2>3, TypeInvReader DEF Begin
<1>6. ASSUME NEW w \in Writers, Execute(w) PROVE TypeInv'
  <2> DEFINE old == writer[w]
  <2>1. PICK k, events, r :
          /\ k \in Pending(w)
          /\ events = old.events \o ClassifyEvents(k, old.prior, old.page[k])
          /\ Becomes(w, r)
          /\ r = [old EXCEPT !.done = @ \cup {k}, !.events = events]
    BY <1>6 DEF Execute
  <2>2. r.pc = old.pc /\ r.events = events /\ r.page = old.page
    <3>1. IsRun(old) /\ r = [old EXCEPT !.done = @ \cup {k}, !.events = events]
      BY <1>0, <2>1 DEF PageInv
    <3> HIDE DEF old
    <3> QED
      BY <3>1 DEF IsRun
  <2>3. k \in Listings
    BY <1>0, <2>1 DEF PageInv, Pending, Items, Viewable
  <2>4. EventsOK(events)
    BY <1>0, <2>1, <2>3, ClassifiedOK, ClassifiedIsSeq, ConcatEventsOK DEF WriterOK
  <2>5. WriterOK(r)
    BY <1>0, <2>2, <2>4 DEF WriterOK
  <2> QED
    BY SMTT(40), <1>6, <2>1, <2>5, TypeInvReader DEF Execute
<1>7. ASSUME NEW w \in Writers, NEW r, Becomes(w, r), WriterOK(r), UNCHANGED <<scope, now>>,
             \A k \in Listings : RowOK(rows'[k]), EventsOK(log')
      PROVE  TypeInv'
  <2>1. \A v \in Writers : writer'[v] = IF v = w THEN r ELSE writer[v]
    BY <1>7 DEF Becomes, CaptureInv, ClockInv
  <2>2. \A v \in Writers : WriterOK(writer'[v])
    BY <1>0, <1>7, <2>1
  <2> QED
    BY <1>7, <2>2 DEF TypeInv, WriterOK, EventsOK, RowOK
<1>8. ASSUME NEW w \in Writers, Commit(w) PROVE TypeInv'
  <2> DEFINE old == writer[w]
  <2>1. PICK S, r : Becomes(w, r) /\ (r = Idle \/ r = [Idle EXCEPT !.pc = "delete", !.revoked = S])
    BY <1>8 DEF Commit
  <2>2. WriterOK(r)
    BY <2>1, IdleOK
  <2>3. EventsOK(log')
    BY <1>0, <1>8, ConcatEventsOK DEF Commit, LogInv, TypeInv, WriterOK
  <2>4. ASSUME NEW k \in Listings PROVE RowOK(rows'[k])
    <3>1. CASE k \in old.done
      <4>1. DOMAIN old.page[k].rec \subseteq Fields
        BY <1>0, <3>1 DEF WriterOK, PageInv, Items, Viewable
      <4>2. rows'[k] = UpsertedRow(k, old.page[k])
        BY <1>8, <3>1 DEF Commit
      <4>3. FilterRaw(scope, old.page[k].rec) \subseteq Fields
        BY <4>1 DEF FilterRaw
      <4> QED
        BY <4>2, <4>3 DEF RowOK, UpsertedRow, ExtractArgs
    <3>2. CASE k \notin old.done
      BY <1>8, <3>2 DEF Commit, TypeInv
    <3> QED
      BY <3>1, <3>2
  <2>5. UNCHANGED <<scope, now>>
    BY <1>8 DEF Commit
  <2> QED
    BY <1>7, <2>1, <2>2, <2>3, <2>4, <2>5
<1>9. ASSUME NEW w \in Writers, Delete(w) PROVE TypeInv'
  <2>1. WriterOK(Idle) /\ Becomes(w, Idle) /\ UNCHANGED <<scope, now>>
    BY <1>9, IdleOK DEF Delete
  <2>2. EventsOK(log')
    BY <1>0, <1>9, ConcatEventsOK, DelistedOK, DelistedIsSeq
       DEF Delete, LogInv, TypeInv, RevokedInv
  <2>3. \A k \in Listings : RowOK(rows'[k])
    <3>1. RowOK(NoRow)
      BY DEF RowOK, NoRow, ExtractArgs
    <3> QED
      BY <1>9, <3>1 DEF Delete, TypeInv
  <2> QED
    BY <1>7, <2>1, <2>2, <2>3
<1> QED
  BY <1>1, <1>2, <1>3, <1>4, <1>5, <1>6, <1>8, <1>9 DEF CaptureNext

\* Every transaction leaves rows with all the core columns and events of the
\* types the table admits about listings of the feed, for any finite number of
\* listings and any number of writers.
THEOREM CaptureTypeCorrect ==
    ASSUME IsFiniteSet(Listings)
    PROVE  CaptureSpec => []CaptureTypeOK
<1>1. CaptureInit => RevokedInv /\ LogInv /\ TypeInv
  BY TuplesAreSeqs, TypeInvInit DEF CaptureInit, RevokedInv, LogInv, Idle
<1>2. CaptureInv /\ RevokedInv /\ [CaptureNext]_captureVars => RevokedInv'
  BY RevokedNext
<1>3. CaptureInv /\ RevokedInv /\ LogInv /\ [CaptureNext]_captureVars => LogInv'
  BY LogNext DEF RevokedInv
<1>4. CaptureInv /\ RevokedInv /\ LogInv /\ TypeInv /\ [CaptureNext]_captureVars => TypeInv'
  BY TypeInvNext
<1>5. CaptureInv /\ TypeInv => CaptureTypeOK
  <2> SUFFICES ASSUME CaptureInv, TypeInv PROVE CaptureTypeOK
    OBVIOUS
  <2>1. now \in 0..MaxTime /\ MaxTime \in Nat
    BY CaptureConstants DEF CaptureInv, ClockInv, TypeInv
  <2>2. \A k \in Listings : feed[k].ts \in 0..MaxTime /\ rows[k].ts \in 0..MaxTime
    BY <2>1 DEF CaptureInv, ClockInv
  <2>3. feed \in [Listings -> FeedEntries]
    BY <2>2 DEF CaptureInv, ClockInv, FeedEntries
  <2> QED
    BY <2>1, <2>2, <2>3 DEF TypeInv, CaptureTypeOK, RowOK, EventsOK, EventTypes, WriterOK
<1> QED
  BY <1>1, <1>2, <1>3, <1>4, <1>5, CaptureInvariant, PTL DEF CaptureSpec

-----------------------------------------------------------------------------
(* The log gives the store back, and its events are linked, for one writer. *)
(* What holds of the log and the rows is stated of any sequence of events   *)
(* and any rows, so that it can be said of a transaction under way too: of  *)
(* the log with the events it holds, and the rows it would leave.           *)

EntryTypes == {"new_listing", "delisted"}
PriceTypes == {"new_listing", "price_change", "delisted"}
StatusTypes == {"new_listing", "status_change", "back_on_market"}

\* Where the events of a listing are.
Where(s, k, types) == {i \in DOMAIN s : s[i].key = k /\ s[i].type \in types}

IsLast(i, S) == i \in S /\ \A j \in S : j <= i

Next2(i, j, S) == i \in S /\ j \in S /\ i < j /\ \A l \in S : l <= i \/ l >= j

Links(s, i, j) == s[j].old = s[i].new \/ s[j].old = NULL

History(s, k) ==
    /\ \A i, j \in DOMAIN s : Next2(i, j, Where(s, k, PriceTypes)) =>
         /\ s[j].type = "price_change" => s[i].type # "delisted" /\ Links(s, i, j)
         /\ s[j].type = "new_listing" <=> s[i].type = "delisted"
    /\ \A i, j \in DOMAIN s : Next2(i, j, Where(s, k, StatusTypes)) =>
         \/ "new_listing" \in {s[i].type, s[j].type}
         \/ Links(s, i, j)

\* What the last events about a listing say of its row: the listings stored
\* are here, and this one has these columns.
Told(s, k, here, cols) ==
    /\ k \in here => \E e \in DOMAIN s : /\ IsLast(e, Where(s, k, EntryTypes))
                                         /\ s[e].type = "new_listing"
    /\ k \notin here =>
         \A i \in DOMAIN s :
            IsLast(i, Where(s, k, EntryTypes)) \/ IsLast(i, Where(s, k, PriceTypes))
              => s[i].type = "delisted"
    /\ k \in here /\ cols["ListPrice"] # NULL =>
         \E i \in DOMAIN s : /\ IsLast(i, Where(s, k, PriceTypes))
                             /\ s[i].new = cols["ListPrice"]
    /\ k \in here /\ cols["StandardStatus"] # NULL =>
         \A i \in DOMAIN s :
            IsLast(i, Where(s, k, StatusTypes))
              => s[i].type = "new_listing" \/ s[i].new = cols["StandardStatus"]

Life(s, k, here, cols) == History(s, k) /\ Told(s, k, here, cols)

Here == {k \in Listings : Stored(k)}

Lives == \A k \in Listings : Life(log, k, Here, rows[k].cols)

\* The columns of k once the transaction r commits.
After(r, k) == IF k \in r.done THEN ExtractArgs(r.page[k].rec) ELSE rows[k].cols

LifeRun(r) ==
    /\ r.pc = "begin" => r.done = {} /\ r.events = <<>>
    /\ r.pc = "batch" =>
         /\ \A k \in Items(r.page) :
              /\ k \in DOMAIN r.prior <=> Stored(k)
              /\ Stored(k) => r.prior[k].cols = rows[k].cols
         /\ \A k \in Listings : Life(log \o r.events, k, Here \cup r.done, After(r, k))

LivesInv == Lives /\ \A w \in Writers : LifeRun(writer[w])

\* u goes on where s ends.
Grown(s, u) ==
    /\ DOMAIN s \subseteq DOMAIN u
    /\ DOMAIN u \subseteq Nat
    /\ \A i \in DOMAIN s : u[i] = s[i] /\ \A j \in DOMAIN u \ DOMAIN s : i < j

\* Of what is new, n is the one event about k.
Tells(s, u, k, n) ==
    /\ n \in DOMAIN u \ DOMAIN s
    /\ \A j \in DOMAIN u \ DOMAIN s : u[j].key = k <=> j = n

\* Nothing new about k, whose columns stay or become NULL.
LEMMA LifeSilent ==
    ASSUME NEW s, NEW u, Grown(s, u), NEW k, \A j \in DOMAIN u \ DOMAIN s : u[j].key # k,
           NEW here, NEW cols, NEW h, NEW c, Life(s, k, here, cols), k \in h <=> k \in here,
           c["ListPrice"] \in {NULL, cols["ListPrice"]},
           c["StandardStatus"] \in {NULL, cols["StandardStatus"]}
    PROVE  Life(u, k, h, c)
<1>1. \A types : Where(u, k, types) = Where(s, k, types)
  BY DEF Grown, Where
<1>2. \A i \in DOMAIN s : u[i] = s[i] /\ i \in DOMAIN u
  BY DEF Grown
<1>3. \A types : \A i, j : Next2(i, j, Where(s, k, types)) => i \in DOMAIN s /\ j \in DOMAIN s
  BY DEF Next2, Where
<1>4. \A types : \A i : IsLast(i, Where(s, k, types)) => i \in DOMAIN s
  BY DEF IsLast, Where
<1>5. History(u, k)
  BY <1>1, <1>2, <1>3 DEF Life, History, Links
<1>6. Told(u, k, h, c)
  BY <1>1, <1>2, <1>4 DEF Life, Told
<1> QED
  BY <1>5, <1>6 DEF Life

\* The events about k of some types, and which follow which.
LEMMA WhereTells ==
    ASSUME NEW s, NEW u, Grown(s, u), NEW k, NEW n, Tells(s, u, k, n), NEW types
    PROVE  /\ u[n].type \notin types => Where(u, k, types) = Where(s, k, types)
           /\ u[n].type \in types =>
                \A i : IsLast(i, Where(u, k, types)) <=> i = n
           /\ \A i, j : Next2(i, j, Where(u, k, types)) =>
                /\ i \in DOMAIN s /\ u[i] = s[i]
                /\ \/ j \in DOMAIN s /\ u[j] = s[j] /\ Next2(i, j, Where(s, k, types))
                   \/ j = n /\ u[n].type \in types /\ IsLast(i, Where(s, k, types))
<1>1. /\ \A i \in DOMAIN s : u[i] = s[i] /\ i \in DOMAIN u /\ i \in Nat /\ i < n
      /\ n \in Nat /\ n \in DOMAIN u /\ n \notin DOMAIN s
  BY DEF Grown, Tells
<1>2. \A i : i \in Where(u, k, types) <=>
         i \in Where(s, k, types) \/ (i = n /\ u[n].type \in types)
  BY <1>1 DEF Where, Tells
<1>3. Where(s, k, types) \subseteq DOMAIN s
  BY DEF Where
<1>4. u[n].type \notin types => Where(u, k, types) = Where(s, k, types)
  BY <1>2
<1>5. ASSUME u[n].type \in types PROVE \A i : IsLast(i, Where(u, k, types)) <=> i = n
  BY <1>1, <1>2, <1>3, <1>5 DEF IsLast
<1>6. ASSUME NEW i, NEW j, Next2(i, j, Where(u, k, types))
      PROVE  /\ i \in DOMAIN s /\ u[i] = s[i]
             /\ \/ j \in DOMAIN s /\ u[j] = s[j] /\ Next2(i, j, Where(s, k, types))
                \/ j = n /\ u[n].type \in types /\ IsLast(i, Where(s, k, types))
  <2>1. /\ i \in Where(u, k, types) /\ j \in Where(u, k, types) /\ i < j
        /\ \A l \in Where(u, k, types) : l <= i \/ l >= j
    BY <1>6 DEF Next2
  <2>2. i # n
    BY <1>1, <1>2, <1>3, <2>1
  <2>3. i \in Where(s, k, types)
    BY <1>2, <2>1, <2>2
  <2>4. CASE j = n
    <3>1. \A l \in Where(s, k, types) : l <= i
      BY <1>1, <1>2, <1>3, <2>1, <2>4
    <3> QED
      BY <1>1, <1>2, <1>3, <2>1, <2>3, <2>4, <3>1 DEF IsLast
  <2>5. CASE j # n
    BY <1>1, <1>2, <1>3, <2>1, <2>3, <2>5 DEF Next2
  <2> QED
    BY <2>4, <2>5
<1> QED
  BY <1>4, <1>5, <1>6

\* The history goes on linked when the new event is linked to the last ones.
LEMMA HistoryTells ==
    ASSUME NEW s, NEW u, Grown(s, u), NEW k, NEW n, Tells(s, u, k, n), History(s, k),
           u[n].type \in PriceTypes =>
              \A i \in DOMAIN s : IsLast(i, Where(s, k, PriceTypes)) =>
                /\ u[n].type = "price_change" =>
                     s[i].type # "delisted" /\ (u[n].old = s[i].new \/ u[n].old = NULL)
                /\ u[n].type = "new_listing" <=> s[i].type = "delisted",
           u[n].type \in StatusTypes =>
              \A i \in DOMAIN s : IsLast(i, Where(s, k, StatusTypes)) =>
                \/ "new_listing" \in {s[i].type, u[n].type}
                \/ u[n].old = s[i].new \/ u[n].old = NULL
    PROVE  History(u, k)
<1>1. ASSUME NEW i \in DOMAIN u, NEW j \in DOMAIN u, Next2(i, j, Where(u, k, PriceTypes))
      PROVE  /\ u[j].type = "price_change" => u[i].type # "delisted" /\ Links(u, i, j)
             /\ u[j].type = "new_listing" <=> u[i].type = "delisted"
  <2>1. /\ i \in DOMAIN s /\ u[i] = s[i]
        /\ \/ j \in DOMAIN s /\ u[j] = s[j] /\ Next2(i, j, Where(s, k, PriceTypes))
           \/ j = n /\ u[n].type \in PriceTypes /\ IsLast(i, Where(s, k, PriceTypes))
    BY <1>1, WhereTells
  <2>2. CASE j \in DOMAIN s /\ u[j] = s[j] /\ Next2(i, j, Where(s, k, PriceTypes))
    BY <2>1, <2>2 DEF History, Links
  <2>3. CASE j = n /\ u[n].type \in PriceTypes /\ IsLast(i, Where(s, k, PriceTypes))
    BY <2>1, <2>3 DEF Links
  <2> QED
    BY <2>1, <2>2, <2>3
<1>2. ASSUME NEW i \in DOMAIN u, NEW j \in DOMAIN u, Next2(i, j, Where(u, k, StatusTypes))
      PROVE  "new_listing" \in {u[i].type, u[j].type} \/ Links(u, i, j)
  <2>1. /\ i \in DOMAIN s /\ u[i] = s[i]
        /\ \/ j \in DOMAIN s /\ u[j] = s[j] /\ Next2(i, j, Where(s, k, StatusTypes))
           \/ j = n /\ u[n].type \in StatusTypes /\ IsLast(i, Where(s, k, StatusTypes))
    BY <1>2, WhereTells
  <2>2. CASE j \in DOMAIN s /\ u[j] = s[j] /\ Next2(i, j, Where(s, k, StatusTypes))
    BY <2>1, <2>2 DEF History, Links
  <2>3. CASE j = n /\ u[n].type \in StatusTypes /\ IsLast(i, Where(s, k, StatusTypes))
    BY <2>1, <2>3 DEF Links
  <2> QED
    BY <2>1, <2>2, <2>3
<1> QED
  BY <1>1, <1>2 DEF History

\* What follows the last entry of a listing is no exit.
LEMMA LastEntryIsLate ==
    ASSUME NEW s, DOMAIN s \subseteq Nat, NEW k,
           NEW e \in DOMAIN s, IsLast(e, Where(s, k, EntryTypes)), s[e].type = "new_listing",
           NEW i \in DOMAIN s, IsLast(i, Where(s, k, PriceTypes))
    PROVE  s[i].type # "delisted"
<1> SUFFICES ASSUME s[i].type = "delisted" PROVE FALSE
  OBVIOUS
<1>1. i \in Where(s, k, EntryTypes) /\ e \in Where(s, k, PriceTypes)
  BY DEF IsLast, Where, EntryTypes, PriceTypes
<1>2. i <= e /\ e <= i
  BY <1>1 DEF IsLast
<1> QED
  BY <1>2

\* A listing enters the store.
LEMMA LifeListed ==
    ASSUME NEW s, NEW u, Grown(s, u), NEW k, NEW n, Tells(s, u, k, n),
           NEW here, NEW cols, NEW h, NEW c, Life(s, k, here, cols),
           k \notin here, k \in h, u[n].type = "new_listing",
           c["ListPrice"] \in {NULL, u[n].new}
    PROVE  Life(u, k, h, c)
<1>1. u[n].type \in PriceTypes /\ u[n].type \in StatusTypes /\ u[n].type \in EntryTypes
  BY DEF PriceTypes, StatusTypes, EntryTypes
<1>2. /\ \A i : IsLast(i, Where(u, k, EntryTypes)) <=> i = n
      /\ \A i : IsLast(i, Where(u, k, PriceTypes)) <=> i = n
      /\ \A i : IsLast(i, Where(u, k, StatusTypes)) <=> i = n
  BY <1>1, WhereTells
<1>3. n \in DOMAIN u
  BY DEF Tells
<1>4. \A i \in DOMAIN s : IsLast(i, Where(s, k, PriceTypes)) => s[i].type = "delisted"
  BY DEF Life, Told
<1>5. History(u, k)
  BY <1>4, HistoryTells DEF Life
<1>6. Told(u, k, h, c)
  BY <1>2, <1>3 DEF Told
<1> QED
  BY <1>5, <1>6 DEF Life

\* It leaves the store.
LEMMA LifeDelisted ==
    ASSUME NEW s, NEW u, Grown(s, u), NEW k, NEW n, Tells(s, u, k, n),
           NEW here, NEW cols, NEW h, NEW c, Life(s, k, here, cols),
           k \in here, k \notin h, u[n].type = "delisted"
    PROVE  Life(u, k, h, c)
<1>1. u[n].type \in PriceTypes /\ u[n].type \notin StatusTypes /\ u[n].type \in EntryTypes
  BY DEF PriceTypes, StatusTypes, EntryTypes
<1>2. /\ \A i : IsLast(i, Where(u, k, EntryTypes)) <=> i = n
      /\ \A i : IsLast(i, Where(u, k, PriceTypes)) <=> i = n
  BY <1>1, WhereTells
<1>3. PICK e \in DOMAIN s : IsLast(e, Where(s, k, EntryTypes)) /\ s[e].type = "new_listing"
  BY DEF Life, Told
<1>4. ASSUME NEW i \in DOMAIN s, IsLast(i, Where(s, k, PriceTypes))
      PROVE  s[i].type # "delisted"
  BY <1>3, <1>4, LastEntryIsLate DEF Grown
<1>5. History(u, k)
  BY <1>1, <1>4, HistoryTells DEF Life
<1>6. Told(u, k, h, c)
  BY <1>2 DEF Told
<1> QED
  BY <1>5, <1>6 DEF Life

\* Its price changes while it is there.
LEMMA LifePriced ==
    ASSUME NEW s, NEW u, Grown(s, u), NEW k, NEW n, Tells(s, u, k, n),
           NEW here, NEW cols, NEW h, NEW c, Life(s, k, here, cols),
           k \in here, k \in h, u[n].type = "price_change", u[n].old = cols["ListPrice"],
           c["ListPrice"] \in {NULL, u[n].new},
           c["StandardStatus"] \in {NULL, cols["StandardStatus"]}
    PROVE  Life(u, k, h, c)
<1>0. DOMAIN s \subseteq Nat /\ \A i \in DOMAIN s : u[i] = s[i] /\ i \in DOMAIN u
  BY DEF Grown
<1>1. u[n].type \in PriceTypes /\ u[n].type \notin StatusTypes /\ u[n].type \notin EntryTypes
  BY DEF PriceTypes, StatusTypes, EntryTypes
<1>2. /\ Where(u, k, EntryTypes) = Where(s, k, EntryTypes)
      /\ \A i : IsLast(i, Where(u, k, PriceTypes)) <=> i = n
      /\ Where(u, k, StatusTypes) = Where(s, k, StatusTypes)
  BY <1>1, WhereTells
<1>3. PICK e \in DOMAIN s : IsLast(e, Where(s, k, EntryTypes)) /\ s[e].type = "new_listing"
  BY DEF Life, Told
<1>4. ASSUME NEW i \in DOMAIN s, IsLast(i, Where(s, k, PriceTypes))
      PROVE  s[i].type # "delisted" /\ (u[n].old = s[i].new \/ u[n].old = NULL)
  <2>1. s[i].type # "delisted"
    BY <1>0, <1>3, <1>4, LastEntryIsLate
  <2>2. ASSUME u[n].old # NULL PROVE u[n].old = s[i].new
    <3>1. PICK l \in DOMAIN s : IsLast(l, Where(s, k, PriceTypes)) /\ s[l].new = u[n].old
      BY <2>2 DEF Life, Told
    <3>2. l = i
      BY <1>0, <1>4, <3>1 DEF IsLast
    <3> QED
      BY <3>1, <3>2
  <2> QED
    BY <2>1, <2>2
<1>5. History(u, k)
  BY <1>1, <1>4, HistoryTells DEF Life
<1>6. n \in DOMAIN u
  BY DEF Tells
<1>7. \A i : IsLast(i, Where(s, k, StatusTypes)) => i \in DOMAIN s
  BY DEF IsLast, Where
<1>8. Told(u, k, h, c)
  <2>1. \E x \in DOMAIN u : IsLast(x, Where(u, k, EntryTypes)) /\ u[x].type = "new_listing"
    BY <1>0, <1>2, <1>3
  <2>2. c["ListPrice"] # NULL =>
          \E i \in DOMAIN u : IsLast(i, Where(u, k, PriceTypes)) /\ u[i].new = c["ListPrice"]
    BY <1>2, <1>6
  <2>3. c["StandardStatus"] # NULL =>
          \A i \in DOMAIN u : IsLast(i, Where(u, k, StatusTypes))
             => u[i].type = "new_listing" \/ u[i].new = c["StandardStatus"]
    BY <1>0, <1>2, <1>7 DEF Life, Told
  <2> QED
    BY <2>1, <2>2, <2>3 DEF Told
<1> QED
  BY <1>5, <1>8 DEF Life

\* Its status changes while it is there.
LEMMA LifeTurned ==
    ASSUME NEW s, NEW u, Grown(s, u), NEW k, NEW n, Tells(s, u, k, n),
           NEW here, NEW cols, NEW h, NEW c, Life(s, k, here, cols),
           k \in here, k \in h, u[n].type \in {"status_change", "back_on_market"},
           u[n].old = cols["StandardStatus"],
           c["StandardStatus"] \in {NULL, u[n].new},
           c["ListPrice"] \in {NULL, cols["ListPrice"]}
    PROVE  Life(u, k, h, c)
<1>0. DOMAIN s \subseteq Nat /\ \A i \in DOMAIN s : u[i] = s[i] /\ i \in DOMAIN u
  BY DEF Grown
<1>1. u[n].type \notin PriceTypes /\ u[n].type \in StatusTypes /\ u[n].type \notin EntryTypes
  BY DEF PriceTypes, StatusTypes, EntryTypes
<1>2. /\ Where(u, k, EntryTypes) = Where(s, k, EntryTypes)
      /\ Where(u, k, PriceTypes) = Where(s, k, PriceTypes)
      /\ \A i : IsLast(i, Where(u, k, StatusTypes)) <=> i = n
  BY <1>1, WhereTells
<1>4. ASSUME NEW i \in DOMAIN s, IsLast(i, Where(s, k, StatusTypes))
      PROVE  s[i].type = "new_listing" \/ u[n].old = s[i].new \/ u[n].old = NULL
  BY <1>4 DEF Life, Told
<1>5. History(u, k)
  BY <1>1, <1>4, HistoryTells DEF Life
<1>8. Told(u, k, h, c)
  <2>1. \E x \in DOMAIN u : IsLast(x, Where(u, k, EntryTypes)) /\ u[x].type = "new_listing"
    BY <1>0, <1>2 DEF Life, Told
  <2>2. c["ListPrice"] # NULL =>
          \E i \in DOMAIN u : IsLast(i, Where(u, k, PriceTypes)) /\ u[i].new = c["ListPrice"]
    BY <1>0, <1>2 DEF Life, Told
  <2>3. c["StandardStatus"] # NULL =>
          \A i \in DOMAIN u : IsLast(i, Where(u, k, StatusTypes))
             => u[i].type = "new_listing" \/ u[i].new = c["StandardStatus"]
    BY <1>2
  <2> QED
    BY <2>1, <2>2, <2>3 DEF Told
<1> QED
  BY <1>5, <1>8 DEF Life

-----------------------------------------------------------------------------
(* The events of an item.                                                   *)

LEMMA ConcatAssoc ==
    ASSUME NEW s, NEW t, NEW u, IsSeq(s), IsSeq(t), IsSeq(u)
    PROVE  (s \o t) \o u = s \o (t \o u)
<1> DEFINE A == {s[i] : i \in DOMAIN s} \cup {t[i] : i \in DOMAIN t} \cup {u[i] : i \in DOMAIN u}
<1>1. s \in Seq(A) /\ t \in Seq(A) /\ u \in Seq(A)
  BY SeqMonotonic DEF IsSeq
<1> HIDE DEF A
<1> QED
  BY <1>1, ConcatAssociative

LEMMA ConcatNothing ==
    ASSUME NEW s, IsSeq(s)
    PROVE  s \o <<>> = s /\ <<>> \o s = s
BY ConcatEmptySeq DEF IsSeq

LEMMA ConcatGrows ==
    ASSUME NEW s, NEW t, IsSeq(s), IsSeq(t)
    PROVE  Grown(s, s \o t)
<1>1. PICK u : u = s \o t
  OBVIOUS
<1>2. /\ DOMAIN s = 1..Len(s) /\ Len(s) \in Nat /\ Len(t) \in Nat
      /\ DOMAIN u = 1..(Len(s) + Len(t))
      /\ \A i \in DOMAIN s : u[i] = s[i]
  BY <1>1, ConcatEvents
<1>3. Grown(s, u)
  BY <1>2 DEF Grown
<1> QED
  BY <1>1, <1>3

\* One event added.
LEMMA AppendTells ==
    ASSUME NEW s, IsSeq(s), NEW x
    PROVE  /\ Grown(s, s \o <<x>>) /\ IsSeq(s \o <<x>>)
           /\ \E n : Tells(s, s \o <<x>>, x.key, n) /\ (s \o <<x>>)[n] = x
<1>0. PICK u : u = s \o <<x>>
  OBVIOUS
<1>1. IsSeq(<<x>>) /\ Len(<<x>>) = 1
  BY TuplesAreSeqs
<1>2. Grown(s, u) /\ IsSeq(u)
  BY <1>0, <1>1, ConcatGrows, ConcatIsSeq
<1>3. /\ DOMAIN s = 1..Len(s) /\ Len(s) \in Nat
      /\ DOMAIN u = 1..(Len(s) + 1)
      /\ \A i \in DOMAIN u :
           i \notin DOMAIN s => i - Len(s) \in DOMAIN <<x>> /\ u[i] = <<x>>[i - Len(s)]
  BY <1>0, <1>1, ConcatEvents
<1>4. \A j : j \in DOMAIN u \ DOMAIN s <=> j = Len(s) + 1
  BY <1>3
<1>5. Len(s) + 1 \in DOMAIN u \ DOMAIN s /\ (Len(s) + 1) - Len(s) = 1
  BY <1>3, <1>4
<1>6. u[Len(s) + 1] = x
  BY <1>3, <1>5
<1>7. Tells(s, u, x.key, Len(s) + 1)
  BY <1>4, <1>6 DEF Tells
<1> QED
  BY <1>0, <1>2, <1>6, <1>7

\* A column is what change capture reads from the field, or NULL.
LEMMA CapturedColumns ==
    ASSUME NEW rec
    PROVE  /\ ExtractArgs(rec)["ListPrice"] \in {NULL, FeedPrice(rec)}
           /\ ExtractArgs(rec)["StandardStatus"] \in {NULL, FeedStatus(rec)}
<1>1. ASSUME NEW c \in {"ListPrice", "StandardStatus"}
      PROVE  ExtractArgs(rec)[c] \in {NULL, Parsed(rec, c, c)}
  <2>0. c # "PropertyAttachedYN"
    OBVIOUS
  <2>1. Candidates(c) = <<c>>
    BY <2>0 DEF Candidates, Aliases
  <2> DEFINE good == {i \in DOMAIN <<c>> : /\ Has(rec, <<c>>[i])
                                           /\ Parsed(rec, <<c>>[i], c) # NULL}
  <2>2. good = {} \/ good = {1}
    OBVIOUS
  <2>3. good = {1} => Min(good) = 1
    BY DEF Min
  <2>4. ExtractValue(rec, c) = NULL \/ ExtractValue(rec, c) = Parsed(rec, c, c)
    BY <2>1, <2>2, <2>3 DEF ExtractValue
  <2> QED
    BY <2>4 DEF ExtractArgs, CoreColumns
<1>2. FeedPrice(rec) = Parsed(rec, "ListPrice", "ListPrice")
  BY DEF FeedPrice, Parsed
<1>3. FeedStatus(rec) = Parsed(rec, "StandardStatus", "StandardStatus")
  BY DEF FeedStatus, Parsed
<1> QED
  BY <1>1, <1>2, <1>3

\* The events of a listing that enters the store, of a price and of a status
\* that an item gives one that is there.
EntryEvents(t, k, price) ==
    \E x : t = <<x>> /\ x.key = k /\ x.type = "new_listing" /\ x.new = price

PriceEvents(t, k, old, price) ==
    \/ t = <<>> /\ price \in {NULL, old}
    \/ \E x : t = <<x>> /\ x.key = k /\ x.type = "price_change" /\ x.old = old /\ x.new = price

StatusEvents(t, k, old, status) ==
    \/ t = <<>> /\ status \in {NULL, old}
    \/ \E x : /\ t = <<x>> /\ x.key = k /\ x.type \in {"status_change", "back_on_market"}
              /\ x.old = old /\ x.new = status

LEMMA ClassifiedShape ==
    ASSUME NEW k, NEW prior, NEW item
    PROVE  /\ k \notin DOMAIN prior =>
                EntryEvents(ClassifyEvents(k, prior, item), k, FeedPrice(item.rec))
           /\ k \in DOMAIN prior =>
                \E a, b :
                  /\ ClassifyEvents(k, prior, item) = a \o b
                  /\ PriceEvents(a, k, prior[k].cols["ListPrice"], FeedPrice(item.rec))
                  /\ StatusEvents(b, k, prior[k].cols["StandardStatus"], FeedStatus(item.rec))
<1> DEFINE price == FeedPrice(item.rec)
           status == FeedStatus(item.rec)
           oldPrice == prior[k].cols["ListPrice"]
           oldStatus == prior[k].cols["StandardStatus"]
           listed == Event(k, "new_listing", NULL, price, item.ts)
           priced == Event(k, "price_change", oldPrice, price, item.ts)
           turned == Event(k, StatusType(oldStatus, status), oldStatus, status, item.ts)
           a == IF price # NULL /\ oldPrice # price THEN <<priced>> ELSE <<>>
           b == IF status # NULL /\ oldStatus # status THEN <<turned>> ELSE <<>>
<1>1. /\ listed.key = k /\ listed.type = "new_listing" /\ listed.new = price
      /\ priced.key = k /\ priced.type = "price_change"
      /\ priced.old = oldPrice /\ priced.new = price
      /\ turned.key = k /\ turned.type \in {"status_change", "back_on_market"}
      /\ turned.old = oldStatus /\ turned.new = status
  BY DEF Event, StatusType
<1>2. ClassifyEvents(k, prior, item) = IF k \notin DOMAIN prior THEN <<listed>> ELSE a \o b
  BY DEF ClassifyEvents
<1> HIDE DEF listed, priced, turned, price, status, oldPrice, oldStatus
<1>3. (a = <<>> /\ price \in {NULL, oldPrice}) \/ a = <<priced>>
  OBVIOUS
<1>4. (b = <<>> /\ status \in {NULL, oldStatus}) \/ b = <<turned>>
  OBVIOUS
<1> HIDE DEF a, b
<1>5. ASSUME k \notin DOMAIN prior
      PROVE  EntryEvents(ClassifyEvents(k, prior, item), k, price)
  BY <1>1, <1>2, <1>5 DEF EntryEvents
<1>6. PriceEvents(a, k, oldPrice, price)
  BY <1>1, <1>3 DEF PriceEvents
<1>7. StatusEvents(b, k, oldStatus, status)
  BY <1>1, <1>4 DEF StatusEvents
<1> QED
  BY <1>2, <1>5, <1>6, <1>7 DEF price, status, oldPrice, oldStatus

LEMMA ItemEventKeys ==
    ASSUME NEW t, NEW k, NEW old, NEW new,
           EntryEvents(t, k, new) \/ PriceEvents(t, k, old, new) \/ StatusEvents(t, k, old, new)
    PROVE  IsSeq(t) /\ \A j \in DOMAIN t : t[j].key = k
<1>1. t = <<>> \/ \E x : t = <<x>> /\ x.key = k
  BY DEF EntryEvents, PriceEvents, StatusEvents
<1> QED
  BY <1>1, TuplesAreSeqs

LEMMA ClassifiedKeys ==
    ASSUME NEW k, NEW prior, NEW item, NEW j \in DOMAIN ClassifyEvents(k, prior, item)
    PROVE  ClassifyEvents(k, prior, item)[j].key = k
<1>1. PICK t : t = ClassifyEvents(k, prior, item)
  OBVIOUS
<1>2. CASE k \notin DOMAIN prior
  <2>1. EntryEvents(t, k, FeedPrice(item.rec))
    BY <1>1, <1>2, ClassifiedShape
  <2> QED
    BY <1>1, <2>1, ItemEventKeys
<1>3. CASE k \in DOMAIN prior
  <2>1. PICK a, b :
          /\ t = a \o b
          /\ PriceEvents(a, k, prior[k].cols["ListPrice"], FeedPrice(item.rec))
          /\ StatusEvents(b, k, prior[k].cols["StandardStatus"], FeedStatus(item.rec))
    BY <1>1, <1>3, ClassifiedShape
  <2>2. IsSeq(a) /\ IsSeq(b)
    BY <2>1, ItemEventKeys
  <2>3. (\A i \in DOMAIN a : a[i].key = k) /\ (\A i \in DOMAIN b : b[i].key = k)
    BY <2>1, ItemEventKeys
  <2>4. j \in DOMAIN t /\ (\/ j \in DOMAIN a /\ t[j] = a[j]
                           \/ j - Len(a) \in DOMAIN b /\ t[j] = b[j - Len(a)])
    BY <1>1, <2>1, <2>2, ConcatEvents
  <2> QED
    BY <1>1, <2>3, <2>4
<1> QED
  BY <1>2, <1>3

\* The events of an item carry the life of its listing over to the columns the
\* item leaves, when they come from comparing it with the row that is there.
LEMMA LifeClassified ==
    ASSUME NEW s, IsSeq(s), NEW k, NEW prior, NEW item, NEW here, NEW cols, NEW h,
           Life(s, k, here, cols), k \in h,
           k \in DOMAIN prior <=> k \in here,
           k \in here => prior[k].cols = cols
    PROVE  Life(s \o ClassifyEvents(k, prior, item), k, h, ExtractArgs(item.rec))
<1>0. PICK rec, c : /\ rec = item.rec /\ c = ExtractArgs(rec)
                    /\ c["ListPrice"] \in {NULL, FeedPrice(rec)}
                    /\ c["StandardStatus"] \in {NULL, FeedStatus(rec)}
  BY CapturedColumns
<1>1. CASE k \notin here
  <2>0. EntryEvents(ClassifyEvents(k, prior, item), k, FeedPrice(rec))
    BY <1>0, <1>1, ClassifiedShape
  <2>1. PICK x : /\ ClassifyEvents(k, prior, item) = <<x>>
                 /\ x.key = k /\ x.type = "new_listing" /\ x.new = FeedPrice(rec)
    BY <2>0 DEF EntryEvents
  <2>2. PICK u : u = s \o <<x>>
    OBVIOUS
  <2>3. Grown(s, u) /\ \E n : Tells(s, u, k, n) /\ u[n] = x
    <3>1. /\ Grown(s, s \o <<x>>)
          /\ \E n : Tells(s, s \o <<x>>, x.key, n) /\ (s \o <<x>>)[n] = x
      BY AppendTells
    <3> QED
      BY <2>1, <2>2, <3>1
  <2>4. Life(u, k, h, c)
    <3>1. PICK n : Tells(s, u, k, n) /\ u[n] = x
      BY <2>3
    <3> QED
      BY <1>0, <1>1, <2>1, <2>3, <3>1, LifeListed
  <2> QED
    BY <1>0, <2>1, <2>2, <2>4
<1>2. CASE k \in here
  <2>1. PICK a, b :
          /\ ClassifyEvents(k, prior, item) = a \o b
          /\ PriceEvents(a, k, cols["ListPrice"], FeedPrice(rec))
          /\ StatusEvents(b, k, cols["StandardStatus"], FeedStatus(rec))
    BY <1>0, <1>2, ClassifiedShape
  <2>2. PICK mid : mid["ListPrice"] = c["ListPrice"]
                   /\ mid["StandardStatus"] = cols["StandardStatus"]
    <3>1. PICK m : m = [x \in {"ListPrice", "StandardStatus"} |->
                          IF x = "ListPrice" THEN c[x] ELSE cols[x]]
      OBVIOUS
    <3>2. m["ListPrice"] = c["ListPrice"] /\ m["StandardStatus"] = cols["StandardStatus"]
      BY <3>1
    <3> QED
      BY <3>2
  <2>3. PICK v : v = s \o a
    OBVIOUS
  <2>4. IsSeq(v) /\ Life(v, k, here, mid)
    <3>1. CASE a = <<>> /\ FeedPrice(rec) \in {NULL, cols["ListPrice"]}
      <4>1. v = s
        BY <2>3, <3>1, ConcatNothing
      <4>2. Grown(s, s)
        BY <3>1, <2>3, <4>1, ConcatGrows, TuplesAreSeqs
      <4>3. mid["ListPrice"] \in {NULL, cols["ListPrice"]}
        BY <1>0, <2>2, <3>1
      <4>4. Life(s, k, here, mid)
        BY <2>2, <4>2, <4>3, LifeSilent
      <4> QED
        BY <4>1, <4>4
    <3>2. CASE \E x : /\ a = <<x>> /\ x.key = k /\ x.type = "price_change"
                      /\ x.old = cols["ListPrice"] /\ x.new = FeedPrice(rec)
      <4>1. PICK x : /\ a = <<x>> /\ x.key = k /\ x.type = "price_change"
                     /\ x.old = cols["ListPrice"] /\ x.new = FeedPrice(rec)
        BY <3>2
      <4>0. IsSeq(v) /\ Grown(s, v) /\ \E n : Tells(s, v, k, n) /\ v[n] = x
        <5>1. /\ IsSeq(s \o <<x>>) /\ Grown(s, s \o <<x>>)
              /\ \E n : Tells(s, s \o <<x>>, x.key, n) /\ (s \o <<x>>)[n] = x
          BY AppendTells
        <5> QED
          BY <2>3, <4>1, <5>1
      <4>2. PICK n : Tells(s, v, k, n) /\ v[n] = x
        BY <4>0
      <4>3. Life(v, k, here, mid)
        BY <1>0, <1>2, <2>2, <4>0, <4>1, <4>2, LifePriced
      <4> QED
        BY <4>0, <4>3
    <3> QED
      BY <2>1, <3>1, <3>2 DEF PriceEvents
  <2>5. PICK u : u = v \o b
    OBVIOUS
  <2>6. Life(u, k, h, c)
    <3>1. CASE b = <<>> /\ FeedStatus(rec) \in {NULL, cols["StandardStatus"]}
      <4>1. u = v
        BY <2>4, <2>5, <3>1, ConcatNothing
      <4>2. Grown(v, v)
        BY <2>4, <2>5, <3>1, <4>1, ConcatGrows, TuplesAreSeqs
      <4>3. c["StandardStatus"] \in {NULL, mid["StandardStatus"]}
        BY <1>0, <2>2, <3>1
      <4>4. Life(v, k, h, c)
        BY <1>2, <2>2, <2>4, <4>2, <4>3, LifeSilent
      <4> QED
        BY <4>1, <4>4
    <3>2. CASE \E x : /\ b = <<x>> /\ x.key = k
                      /\ x.type \in {"status_change", "back_on_market"}
                      /\ x.old = cols["StandardStatus"] /\ x.new = FeedStatus(rec)
      <4>1. PICK x : /\ b = <<x>> /\ x.key = k
                     /\ x.type \in {"status_change", "back_on_market"}
                     /\ x.old = cols["StandardStatus"] /\ x.new = FeedStatus(rec)
        BY <3>2
      <4>0. Grown(v, u) /\ \E n : Tells(v, u, k, n) /\ u[n] = x
        <5>1. /\ Grown(v, v \o <<x>>)
              /\ \E n : Tells(v, v \o <<x>>, x.key, n) /\ (v \o <<x>>)[n] = x
          BY <2>4, AppendTells
        <5> QED
          BY <2>5, <4>1, <5>1
      <4>2. PICK n : Tells(v, u, k, n) /\ u[n] = x
        BY <4>0
      <4> QED
        BY <1>0, <1>2, <2>2, <2>4, <4>0, <4>1, <4>2, LifeTurned
    <3> QED
      BY <2>1, <3>1, <3>2 DEF StatusEvents
  <2>7. u = s \o (a \o b)
    <3>1. IsSeq(a) /\ IsSeq(b)
      BY <2>1, ItemEventKeys
    <3> QED
      BY <2>3, <2>5, <3>1, ConcatAssoc
  <2> QED
    BY <1>0, <2>1, <2>6, <2>7
<1> QED
  BY <1>1, <1>2

-----------------------------------------------------------------------------
(* The steps of the only writer.                                            *)

LEMMA LivesInit == CaptureInit => LivesInv
<1> SUFFICES ASSUME CaptureInit PROVE LivesInv
  OBVIOUS
<1>1. log = <<>> /\ Here = {} /\ \A w \in Writers : writer[w] = Idle
  BY DEF CaptureInit, Here, Stored, NoRow
<1>2. PICK s : s = <<>>
  OBVIOUS
<1>3. DOMAIN s = {}
  BY <1>2
<1>4. \A k, cols : Life(s, k, {}, cols)
  BY <1>3 DEF Life, History, Told
<1>5. Lives
  BY <1>1, <1>2, <1>4 DEF Lives
<1>6. LifeRun(Idle)
  BY DEF LifeRun, Idle
<1> QED
  BY <1>1, <1>5, <1>6 DEF LivesInv

\* A step that changes neither rows nor log.
LEMMA LivesKept ==
    ASSUME CaptureInv, Lives, UNCHANGED <<rows, log>>, NEW w, Writers = {w},
           NEW r, Becomes(w, r), LifeRun(r)
    PROVE  LivesInv'
<1>1. writer'[w] = r
  BY DEF Becomes, CaptureInv, ClockInv
<1>2. Here' = Here
  BY DEF Here, Stored
<1>3. Lives'
  BY <1>2 DEF Lives
<1>4. LifeRun(r)'
  BY <1>2 DEF LifeRun, After, Stored, Items, Viewable
<1> QED
  BY <1>1, <1>3, <1>4 DEF LivesInv

\* A transaction that ends.
LEMMA LivesEnd ==
    ASSUME CaptureInv, Lives', NEW w, Writers = {w},
           NEW r, Becomes(w, r), r.pc \in {"idle", "delete"}
    PROVE  LivesInv'
<1>1. writer'[w] = r
  BY DEF Becomes, CaptureInv, ClockInv
<1>2. LifeRun(r)'
  BY DEF LifeRun
<1> QED
  BY <1>1, <1>2 DEF LivesInv

LEMMA LivesExecute ==
    ASSUME CaptureInv, LogInv, LivesInv, NEW w, Writers = {w}, Execute(w)
    PROVE  LivesInv'
<1> DEFINE old == writer[w]
<1>0. /\ PageInv(old) /\ IsSeq(log) /\ IsSeq(old.events)
      /\ LifeRun(old) /\ Lives /\ old.pc = "batch"
  BY SMTT(40) DEF CaptureInv, PagesInv, LogInv, LivesInv, Execute
<1>1. PICK k, new, events, r :
        /\ k \in Pending(w)
        /\ new = ClassifyEvents(k, old.prior, old.page[k])
        /\ events = old.events \o new
        /\ Becomes(w, r)
        /\ r = [old EXCEPT !.done = @ \cup {k}, !.events = events]
  BY DEF Execute
<1>2. /\ r.pc = "batch" /\ r.page = old.page /\ r.prior = old.prior
      /\ r.done = old.done \cup {k} /\ r.events = events
  <2>1. IsRun(old) /\ r = [old EXCEPT !.done = @ \cup {k}, !.events = events]
        /\ old.pc = "batch"
    BY SMTT(40), <1>0, <1>1 DEF PageInv
  <2> HIDE DEF old
  <2> QED
    BY <2>1 DEF IsRun
<1>3. /\ k \in Items(old.page) /\ k \notin old.done /\ k \in Listings
  BY <1>0, <1>1 DEF PageInv, Pending, Items, Viewable
<1>4. PICK s : s = log \o old.events
  OBVIOUS
<1>5. IsSeq(s) /\ IsSeq(new)
  BY <1>0, <1>1, <1>4, ConcatIsSeq, ClassifiedIsSeq
<1>6. log \o events = s \o new
  <2>1. PICK e : e = old.events
    OBVIOUS
  <2>2. IsSeq(e) /\ s = log \o e /\ events = e \o new
    BY <1>0, <1>1, <1>4, <2>1
  <2>3. (log \o e) \o new = log \o (e \o new)
    BY SMTT(40), <1>0, <1>5, <2>2, ConcatAssoc
  <2> QED
    BY <2>2, <2>3
<1>7. \A l \in Listings : Life(s, l, Here \cup old.done, After(old, l))
  BY <1>0, <1>4 DEF LifeRun
<1>8. Life(s \o new, k, Here \cup r.done, After(r, k))
  <2>1. After(old, k) = rows[k].cols /\ After(r, k) = ExtractArgs(old.page[k].rec)
    BY <1>2, <1>3 DEF After
  <2>2. /\ k \in DOMAIN old.prior <=> k \in Here \cup old.done
        /\ k \in Here \cup old.done => old.prior[k].cols = rows[k].cols
    BY <1>0, <1>3 DEF LifeRun, Here
  <2>3. k \in Here \cup r.done
    BY <1>2
  <2>4. Life(s, k, Here \cup old.done, rows[k].cols)
    BY <1>3, <1>7, <2>1
  <2>5. PICK prior, item, here, h, cols :
          /\ prior = old.prior /\ item = old.page[k] /\ here = Here \cup old.done
          /\ h = Here \cup r.done /\ cols = rows[k].cols
    OBVIOUS
  <2>6. Life(s \o ClassifyEvents(k, prior, item), k, h, ExtractArgs(item.rec))
    BY <1>5, <2>2, <2>3, <2>4, <2>5, LifeClassified
  <2> QED
    BY <1>1, <2>1, <2>5, <2>6
<1>9. ASSUME NEW l \in Listings, l # k
      PROVE  Life(s \o new, l, Here \cup r.done, After(r, l))
  <2>1. After(r, l) = After(old, l) /\ (l \in Here \cup r.done <=> l \in Here \cup old.done)
    BY <1>2, <1>9 DEF After
  <2>2. PICK u : u = s \o new
    OBVIOUS
  <2>3. Grown(s, u)
    BY <1>5, <2>2, ConcatGrows
  <2>4. \A j \in DOMAIN new : new[j].key = k
    BY <1>1, ClassifiedKeys
  <2>5. \A j \in DOMAIN u \ DOMAIN s : u[j].key # l
    BY <1>5, <1>9, <2>2, <2>4, ConcatEvents
  <2>6. PICK here, h, cols :
          here = Here \cup old.done /\ h = Here \cup r.done /\ cols = After(old, l)
    OBVIOUS
  <2>7. Life(s, l, here, cols)
    BY <1>7, <2>6
  <2>8. Life(u, l, h, cols)
    BY <2>1, <2>3, <2>5, <2>6, <2>7, LifeSilent
  <2> QED
    BY <2>1, <2>2, <2>6, <2>8
<1>10. LifeRun(r)
  <2>1. \A l \in Listings : Life(log \o r.events, l, Here \cup r.done, After(r, l))
    BY <1>2, <1>6, <1>8, <1>9
  <2>2. \A l \in Items(r.page) : /\ l \in DOMAIN r.prior <=> Stored(l)
                                 /\ Stored(l) => r.prior[l].cols = rows[l].cols
    BY <1>0, <1>2 DEF LifeRun
  <2> QED
    BY <1>2, <2>1, <2>2 DEF LifeRun
<1>11. UNCHANGED <<rows, log>>
  BY DEF Execute
<1> QED
  BY <1>0, <1>1, <1>10, <1>11, LivesKept

LEMMA LivesCommit ==
    ASSUME CaptureInv, LogInv, LivesInv, NEW w, Writers = {w}, Commit(w)
    PROVE  LivesInv'
<1> DEFINE old == writer[w]
<1>0. PageInv(old) /\ LifeRun(old) /\ old.pc = "batch"
  BY DEF CaptureInv, PagesInv, LivesInv, Commit
<1>1. \A k \in Listings : rows'[k] = IF k \in old.done THEN UpsertedRow(k, old.page[k]) ELSE rows[k]
  BY DEF Commit
<1>2. \A k \in old.done : k \in Listings /\ old.page[k].ts # 0
  BY <1>0 DEF PageInv, Items, Viewable
<1>3. Here' = Here \cup old.done
  <2>1. \A k \in old.done : UpsertedRow(k, old.page[k]).ts = old.page[k].ts
    BY DEF UpsertedRow
  <2>2. \A k \in Listings : rows'[k].ts # 0 <=> k \in old.done \/ rows[k].ts # 0
    BY <1>1, <1>2, <2>1
  <2> QED
    BY <1>2, <2>2 DEF Here, Stored
<1>4. \A k \in Listings : rows'[k].cols = After(old, k)
  <2>1. \A k \in old.done : UpsertedRow(k, old.page[k]).cols = ExtractArgs(old.page[k].rec)
    BY DEF UpsertedRow
  <2> QED
    BY <1>1, <2>1 DEF After
<1>5. log' = log \o old.events
  BY DEF Commit
<1>6. Lives'
  BY <1>0, <1>3, <1>4, <1>5 DEF Lives, LifeRun
<1>7. PICK S, r : Becomes(w, r) /\ (r = Idle \/ r = [Idle EXCEPT !.pc = "delete", !.revoked = S])
  <2>1. PICK S : S = old.revoked
    OBVIOUS
  <2> QED
    BY <2>1 DEF Commit
<1>8. r.pc \in {"idle", "delete"}
  <2>1. CASE r = Idle
    BY <2>1 DEF Idle
  <2>2. CASE r = [Idle EXCEPT !.pc = "delete", !.revoked = S]
    BY <2>2 DEF Idle
  <2> QED
    BY <1>7, <2>1, <2>2
<1> QED
  BY <1>6, <1>7, <1>8, LivesEnd

LEMMA LivesDelete ==
    ASSUME IsFiniteSet(Listings), CaptureInv, RevokedInv, LogInv, LivesInv,
           NEW w, Writers = {w}, Delete(w)
    PROVE  LivesInv'
<1>1. PICK keys \in SUBSET Listings : keys = writer[w].revoked
  BY DEF RevokedInv
<1>2. PICK new : new = Delisted(keys)
  OBVIOUS
<1>3. /\ \A i \in DOMAIN new : /\ new[i].key \in keys /\ Stored(new[i].key)
                               /\ new[i].type = "delisted"
      /\ \A k \in keys : Stored(k) => \E i \in DOMAIN new : new[i].key = k
      /\ \A i, j \in DOMAIN new : new[i].key = new[j].key => i = j
  BY <1>2, DelistedEvents
<1>4. IsSeq(log) /\ IsSeq(new)
  BY <1>2, DelistedIsSeq DEF LogInv
<1>5. PICK u : u = log \o new
  OBVIOUS
<1>6. /\ DOMAIN log = 1..Len(log) /\ Len(log) \in Nat
      /\ DOMAIN new = 1..Len(new) /\ Len(new) \in Nat
      /\ DOMAIN u = 1..(Len(log) + Len(new))
      /\ \A i \in DOMAIN u :
           i \notin DOMAIN log => i - Len(log) \in DOMAIN new /\ u[i] = new[i - Len(log)]
  BY <1>4, <1>5, ConcatEvents
<1>7. Grown(log, u)
  BY <1>4, <1>5, ConcatGrows
<1>8. /\ \A k \in Listings : rows'[k] = IF k \in keys THEN NoRow ELSE rows[k]
      /\ log' = u /\ Becomes(w, Idle)
  BY <1>1, <1>2, <1>5 DEF Delete
<1>9. Here' = Here \ keys
  BY <1>8 DEF Here, Stored, NoRow
<1>10. ASSUME NEW k \in Listings PROVE Life(u, k, Here \ keys, rows'[k].cols)
  <2>1. PICK here, h, cols, c : /\ here = Here /\ h = Here \ keys
                                /\ cols = rows[k].cols /\ c = rows'[k].cols
    OBVIOUS
  <2>2. Life(log, k, here, cols)
    BY <2>1 DEF LivesInv, Lives
  <2>3. CASE k \in keys /\ Stored(k)
    <3>1. PICK i \in DOMAIN new : new[i].key = k
      BY <1>3, <2>3
    <3>2. PICK n : n = Len(log) + i
      OBVIOUS
    <3>3. n \in DOMAIN u \ DOMAIN log /\ n - Len(log) = i /\ u[n] = new[i]
      BY <1>6, <3>2
    <3>4. ASSUME NEW j \in DOMAIN u \ DOMAIN log, u[j].key = k PROVE j = n
      <4>1. j - Len(log) \in DOMAIN new /\ u[j] = new[j - Len(log)]
        BY <1>6
      <4>2. j - Len(log) = i
        BY <1>3, <3>1, <3>4, <4>1
      <4> QED
        BY <1>6, <3>2, <4>2
    <3>5. Tells(log, u, k, n)
      BY <3>1, <3>3, <3>4 DEF Tells
    <3>6. u[n].type = "delisted" /\ k \in here /\ k \notin h
      BY <1>3, <2>1, <2>3, <3>3 DEF Here
    <3>7. Life(u, k, h, c)
      BY <1>7, <2>2, <3>5, <3>6, LifeDelisted
    <3> QED
      BY <2>1, <3>7
  <2>4. CASE ~(k \in keys /\ Stored(k))
    <3>1. \A j \in DOMAIN u \ DOMAIN log : u[j].key # k
      BY <1>3, <1>6, <2>4
    <3>2. k \in h <=> k \in here
      BY <2>1, <2>4 DEF Here
    <3>3. /\ c["ListPrice"] \in {NULL, cols["ListPrice"]}
          /\ c["StandardStatus"] \in {NULL, cols["StandardStatus"]}
      <4>1. CASE k \notin keys
        BY <1>8, <2>1, <4>1
      <4>2. CASE k \in keys
        <5>1. c = ExtractArgs(Empty)
          BY <1>8, <2>1, <4>2 DEF NoRow
        <5>2. FeedPrice(Empty) = NULL /\ FeedStatus(Empty) = NULL
          BY DEF FeedPrice, FeedStatus, Float, Scalar, String, Has, Empty
        <5> QED
          BY <5>1, <5>2, CapturedColumns
      <4> QED
        BY <4>1, <4>2
    <3>4. Life(u, k, h, c)
      BY <1>7, <2>2, <3>1, <3>2, <3>3, LifeSilent
    <3> QED
      BY <2>1, <3>4
  <2> QED
    BY <2>3, <2>4
<1>11. Lives'
  BY <1>8, <1>9, <1>10 DEF Lives
<1>12. Idle.pc = "idle"
  BY DEF Idle
<1> QED
  BY <1>8, <1>11, <1>12, LivesEnd

LEMMA LivesNext ==
    ASSUME IsFiniteSet(Listings), CaptureInv, RevokedInv, LogInv, LivesInv,
           NEW w, Writers = {w}, [CaptureNext]_captureVars
    PROVE  LivesInv'
<1> DEFINE old == writer[w]
<1>0. PageInv(old) /\ Lives /\ LifeRun(old)
  BY DEF CaptureInv, PagesInv, LivesInv
<1>1. CASE UNCHANGED <<rows, log, writer>>
  <2>1. Here' = Here
    BY <1>1 DEF Here, Stored
  <2> QED
    BY <1>1, <2>1 DEF LivesInv, Lives, LifeRun, After, Stored, Items, Viewable
<1>2. ASSUME Fetch(w) PROVE LivesInv'
  <2>1. PICK T :
          LET page == [k \in T |-> Delivered(k)] IN
          Becomes(w, [Idle EXCEPT !.pc = IF Items(page) # {} THEN "begin" ELSE "delete",
                                  !.page = page,
                                  !.revoked = T \ Viewable(page)])
    BY <1>2 DEF Fetch
  <2>2. PICK pc, page, S, r :
          /\ page = [k \in T |-> Delivered(k)]
          /\ pc = IF Items(page) # {} THEN "begin" ELSE "delete"
          /\ S = T \ Viewable(page)
          /\ r = [Idle EXCEPT !.pc = pc, !.page = page, !.revoked = S]
    OBVIOUS
  <2>3. r.pc \in {"begin", "delete"} /\ r.done = {} /\ r.events = <<>>
    BY <2>2 DEF Idle
  <2>4. LifeRun(r)
    BY <2>3 DEF LifeRun
  <2> QED
    BY <1>0, <1>2, <2>1, <2>2, <2>4, LivesKept DEF Fetch
<1>3. ASSUME Purge(w) \/ Rollback(w) PROVE LivesInv'
  <2>1. PICK S, r : Becomes(w, r) /\ (r = Idle \/ r = [Idle EXCEPT !.pc = "delete", !.revoked = S])
    BY <1>3 DEF Purge, Rollback
  <2>2. r.pc \in {"idle", "delete"}
    <3>1. CASE r = Idle
      BY <3>1 DEF Idle
    <3>2. CASE r = [Idle EXCEPT !.pc = "delete", !.revoked = S]
      BY <3>2 DEF Idle
    <3> QED
      BY <2>1, <3>1, <3>2
  <2>3. LifeRun(r)
    BY <2>2 DEF LifeRun
  <2> QED
    BY <1>0, <1>3, <2>1, <2>3, LivesKept DEF Purge, Rollback
<1>4. ASSUME Begin(w) PROVE LivesInv'
  <2>1. PICK r : /\ r = [old EXCEPT !.pc = "batch",
                                    !.prior = [k \in {l \in Items(old.page) : Stored(l)} |-> rows[k]]]
                 /\ Becomes(w, r)
    BY <1>4 DEF Begin
  <2>2. /\ r.pc = "batch" /\ r.page = old.page /\ r.done = old.done /\ r.events = old.events
        /\ r.prior = [k \in {l \in Items(old.page) : Stored(l)} |-> rows[k]]
    BY <1>0, <2>1 DEF PageInv, IsRun
  <2>3. r.done = {} /\ r.events = <<>>
    BY <1>0, <1>4, <2>2 DEF LifeRun, Begin
  <2>4. log \o r.events = log
    BY <2>3, ConcatNothing DEF LogInv
  <2>5. \A k \in Listings : After(r, k) = rows[k].cols
    BY <2>3 DEF After
  <2>6. Here \cup r.done = Here
    BY <2>3
  <2>7. \A k \in Listings : Life(log \o r.events, k, Here \cup r.done, After(r, k))
    BY <1>0, <2>4, <2>5, <2>6 DEF Lives
  <2>8. LifeRun(r)
    BY <2>2, <2>7 DEF LifeRun
  <2> QED
    BY <1>0, <1>4, <2>1, <2>8, LivesKept DEF Begin
<1> QED
  BY <1>1, <1>2, <1>3, <1>4, LivesExecute, LivesCommit, LivesDelete
     DEF CaptureNext, captureVars, Edit

LEMMA MaxIsLast ==
    ASSUME NEW S \in SUBSET Nat, NEW i, IsLast(i, S)
    PROVE  Max(S) = i
<1>1. \E x \in S : \A y \in S : x >= y
  BY DEF IsLast
<1>2. PICK m : m = Max(S)
  OBVIOUS
<1>3. m \in S /\ \A y \in S : m >= y
  BY <1>1, <1>2 DEF Max
<1>4. m \in Nat /\ i \in Nat /\ m >= i /\ m <= i
  BY <1>3 DEF IsLast
<1>5. m = i
  BY <1>4
<1> QED
  BY <1>2, <1>5

LEMMA LastExists ==
    ASSUME NEW n \in Nat, NEW S \in SUBSET (1..n), S # {}
    PROVE  \E i \in S : IsLast(i, S)
<1>1. S \in SUBSET (0..n)
  OBVIOUS
<1> QED
  BY <1>1, GreatestExists DEF IsLast

\* The last event about a price is in the present life of a listing, when the
\* last entry or exit is an entry.
LEMMA LivePrice ==
    ASSUME DOMAIN log = 1..Len(log), Len(log) \in Nat, NEW k,
           NEW e \in DOMAIN log, IsLast(e, Entries(k)), log[e].type = "new_listing",
           NEW i \in DOMAIN log, IsLast(i, Where(log, k, PriceTypes))
    PROVE  Max(PresentLife(k, {"new_listing", "price_change"})) = i
<1> DEFINE S == PresentLife(k, {"new_listing", "price_change"})
<1>1. e \in Where(log, k, PriceTypes) /\ e <= i
  BY DEF IsLast, Where, PriceTypes, Entries, EventsOf
<1>2. log[i].type # "delisted"
  <2> SUFFICES ASSUME log[i].type = "delisted" PROVE FALSE
    OBVIOUS
  <2>1. i \in Entries(k)
    BY DEF IsLast, Where, Entries, EventsOf
  <2>2. i = e
    BY <1>1, <2>1 DEF IsLast
  <2> QED
    BY <2>2
<1>3. i \in S
  <2>1. i \in EventsOf(k, {"new_listing", "price_change"})
    BY <1>2 DEF IsLast, Where, PriceTypes, EventsOf
  <2>2. ASSUME NEW j \in Entries(k) PROVE j <= i
    <3>1. j <= e /\ j \in Nat
      BY DEF IsLast, Entries, EventsOf
    <3> QED
      BY <1>1, <3>1
  <2> QED
    BY <2>1, <2>2 DEF PresentLife
<1>4. S \subseteq Where(log, k, PriceTypes) /\ S \subseteq Nat
  BY DEF Where, PriceTypes, PresentLife, EventsOf
<1>5. IsLast(i, S)
  BY <1>3, <1>4 DEF IsLast
<1> QED
  BY <1>4, <1>5, MaxIsLast

\* The last event about a status in the present life is the last of all.
LEMMA LiveStatus ==
    ASSUME DOMAIN log = 1..Len(log), Len(log) \in Nat, NEW k,
           NEW e \in DOMAIN log, IsLast(e, Entries(k)),
           PresentLife(k, {"status_change", "back_on_market"}) # {}
    PROVE  LET i == Max(PresentLife(k, {"status_change", "back_on_market"})) IN
           /\ i \in DOMAIN log
           /\ IsLast(i, Where(log, k, StatusTypes))
           /\ log[i].type # "new_listing"
<1> DEFINE S == PresentLife(k, {"status_change", "back_on_market"})
<1>1. S \subseteq 1..Len(log)
  BY DEF PresentLife, EventsOf
<1>2. PICK i \in S : IsLast(i, S)
  BY <1>1, LastExists
<1>3. Max(S) = i
  BY <1>1, <1>2, MaxIsLast
<1>4. e <= i /\ i \in Where(log, k, StatusTypes) /\ log[i].type # "new_listing"
  BY DEF IsLast, PresentLife, EventsOf, Where, StatusTypes
<1>5. ASSUME NEW j \in Where(log, k, StatusTypes) PROVE j <= i
  <2>1. CASE log[j].type = "new_listing"
    <3>1. j \in Entries(k)
      BY <2>1 DEF Where, Entries, EventsOf
    <3> QED
      BY <1>1, <1>4, <3>1 DEF IsLast, Entries, EventsOf
  <2>2. CASE log[j].type # "new_listing"
    <3>1. CASE j \in S
      BY <1>2, <3>1 DEF IsLast
    <3>2. CASE j \notin S
      <4>1. j \in EventsOf(k, {"status_change", "back_on_market"})
        BY <2>2 DEF Where, StatusTypes, EventsOf
      <4>2. PICK l \in Entries(k) : ~(l <= j)
        BY <3>2, <4>1 DEF PresentLife
      <4>3. l \in Nat /\ j \in Nat /\ e \in Nat /\ i \in Nat /\ l <= e
        BY <1>1, <4>1, <4>2 DEF IsLast, Entries, EventsOf
      <4> QED
        BY <1>4, <4>2, <4>3
    <3> QED
      BY <3>1, <3>2
  <2> QED
    BY <2>1, <2>2
<1>6. IsLast(i, Where(log, k, StatusTypes)) /\ i \in DOMAIN log
  BY <1>1, <1>4, <1>5 DEF IsLast
<1> HIDE DEF S
<1> QED
  BY <1>3, <1>4, <1>6 DEF S

LEMMA LivesReplay ==
    ASSUME LogInv, Lives
    PROVE  LogReplays
<1>1. DOMAIN log = 1..Len(log) /\ Len(log) \in Nat
  BY DEF LogInv, IsSeq
<1> SUFFICES ASSUME NEW k \in Listings
             PROVE
        /\ Stored(k) <=> Entries(k) # {} /\ log[Max(Entries(k))].type = "new_listing"
        /\ LET prices == PresentLife(k, {"new_listing", "price_change"}) IN
           Stored(k) /\ rows[k].cols["ListPrice"] # NULL
             => rows[k].cols["ListPrice"] = log[Max(prices)].new
        /\ LET statuses == PresentLife(k, {"status_change", "back_on_market"}) IN
           Stored(k) /\ rows[k].cols["StandardStatus"] # NULL /\ statuses # {}
             => rows[k].cols["StandardStatus"] = log[Max(statuses)].new
  BY DEF LogReplays
<1>2. PICK cols : cols = rows[k].cols
  OBVIOUS
<1>3. Told(log, k, Here, cols) /\ (k \in Here <=> Stored(k))
  BY <1>2 DEF Lives, Life, Here
<1>4. Entries(k) = Where(log, k, EntryTypes) /\ Entries(k) \subseteq 1..Len(log)
  BY <1>1 DEF Entries, EventsOf, Where, EntryTypes
<1>5. CASE ~Stored(k)
  <2>1. ASSUME Entries(k) # {} PROVE log[Max(Entries(k))].type # "new_listing"
    <3>1. PICK i \in Entries(k) : IsLast(i, Entries(k))
      BY <1>1, <1>4, <2>1, LastExists
    <3>2. i \in DOMAIN log /\ Max(Entries(k)) = i
      BY <1>1, <1>4, <3>1, MaxIsLast
    <3>3. log[i].type = "delisted"
      BY <1>3, <1>4, <1>5, <3>1, <3>2 DEF Told
    <3> QED
      BY <3>2, <3>3
  <2> QED
    BY <1>5, <2>1
<1>6. CASE Stored(k)
  <2>1. PICK e \in DOMAIN log : IsLast(e, Entries(k)) /\ log[e].type = "new_listing"
    BY <1>3, <1>4, <1>6 DEF Told
  <2>2. Entries(k) # {} /\ Max(Entries(k)) = e
    BY <1>4, <2>1, MaxIsLast DEF IsLast
  <2>3. ASSUME cols["ListPrice"] # NULL
        PROVE  log[Max(PresentLife(k, {"new_listing", "price_change"}))].new = cols["ListPrice"]
    <3>1. PICK i \in DOMAIN log :
            IsLast(i, Where(log, k, PriceTypes)) /\ log[i].new = cols["ListPrice"]
      BY <1>3, <1>6, <2>3 DEF Told
    <3> QED
      BY <1>1, <2>1, <3>1, LivePrice
  <2>4. ASSUME cols["StandardStatus"] # NULL,
               PresentLife(k, {"status_change", "back_on_market"}) # {}
        PROVE  log[Max(PresentLife(k, {"status_change", "back_on_market"}))].new
                 = cols["StandardStatus"]
    <3>1. PICK i : i = Max(PresentLife(k, {"status_change", "back_on_market"}))
      OBVIOUS
    <3>2. /\ i \in DOMAIN log /\ IsLast(i, Where(log, k, StatusTypes))
          /\ log[i].type # "new_listing"
      BY <1>1, <2>1, <2>4, <3>1, LiveStatus
    <3> QED
      BY <1>3, <1>6, <2>4, <3>1, <3>2 DEF Told
  <2> QED
    BY <1>2, <1>6, <2>1, <2>2, <2>3, <2>4
<1> QED
  BY <1>5, <1>6

LEMMA LivesLinked ==
    ASSUME LogInv, Lives
    PROVE  HistoryLinked
<1> SUFFICES ASSUME NEW k \in Listings
             PROVE
        /\ \A p \in Consecutive(k, {"new_listing", "price_change", "delisted"}) :
             LET old == log[p[1]]
                 new == log[p[2]]
             IN  /\ new.type = "price_change" => old.type # "delisted" /\ Linked(p[1], p[2])
                 /\ new.type = "new_listing" <=> old.type = "delisted"
        /\ \A p \in Consecutive(k, {"new_listing", "status_change", "back_on_market"}) :
             "new_listing" \notin {log[p[1]].type, log[p[2]].type} => Linked(p[1], p[2])
  BY DEF HistoryLinked
<1>1. History(log, k)
  BY DEF Lives, Life
<1>2. ASSUME NEW types, NEW p \in Consecutive(k, types)
      PROVE  /\ Next2(p[1], p[2], Where(log, k, types))
             /\ p[1] \in DOMAIN log /\ p[2] \in DOMAIN log
  BY DEF Consecutive, EventsOf, Where, Next2
<1>3. \A i, j : Links(log, i, j) <=> Linked(i, j)
  BY DEF Links, Linked
<1>4. ASSUME NEW p \in Consecutive(k, {"new_listing", "price_change", "delisted"})
      PROVE  /\ log[p[2]].type = "price_change" =>
                  log[p[1]].type # "delisted" /\ Linked(p[1], p[2])
             /\ log[p[2]].type = "new_listing" <=> log[p[1]].type = "delisted"
  <2>1. Next2(p[1], p[2], Where(log, k, PriceTypes))
    BY <1>2, <1>4 DEF PriceTypes
  <2> QED
    BY <1>1, <1>2, <1>3, <1>4, <2>1 DEF History
<1>5. ASSUME NEW p \in Consecutive(k, {"new_listing", "status_change", "back_on_market"}),
             "new_listing" \notin {log[p[1]].type, log[p[2]].type}
      PROVE  Linked(p[1], p[2])
  <2>1. Next2(p[1], p[2], Where(log, k, StatusTypes))
    BY <1>2, <1>5 DEF StatusTypes
  <2> QED
    BY <1>1, <1>2, <1>3, <1>5, <2>1 DEF History
<1> QED
  BY <1>4, <1>5

LEMMA LivesInvariant ==
    ASSUME NEW CONSTANT only, Writers = {only}, IsFiniteSet(Listings)
    PROVE  CaptureSpec => [](LogInv /\ LivesInv)
<1>1. CaptureInit => RevokedInv /\ LogInv /\ LivesInv
  BY TuplesAreSeqs, LivesInit DEF CaptureInit, RevokedInv, LogInv, Idle
<1>2. CaptureInv /\ RevokedInv /\ [CaptureNext]_captureVars => RevokedInv'
  BY RevokedNext
<1>3. CaptureInv /\ RevokedInv /\ LogInv /\ [CaptureNext]_captureVars => LogInv'
  BY LogNext DEF RevokedInv
<1>4. CaptureInv /\ RevokedInv /\ LogInv /\ LivesInv /\ [CaptureNext]_captureVars => LivesInv'
  BY LivesNext
<1> QED
  BY <1>1, <1>2, <1>3, <1>4, CaptureInvariant, PTL DEF CaptureSpec

\* With one process writing the store, the events alone give it back: what is
\* stored is what was listed and not delisted since, and the price and status
\* of a row are those of the last event about them.  The events of a page come
\* from comparing it with the rows that were there (classifyEvents), and are
\* written with the rows in one transaction; a rollback leaves neither.
THEOREM TheLogReplays ==
    ASSUME NEW CONSTANT only, Writers = {only}, IsFiniteSet(Listings)
    PROVE  CaptureSpec => []LogReplays
<1>1. LogInv /\ LivesInv => LogReplays
  BY LivesReplay DEF LivesInv
<1> QED
  BY <1>1, LivesInvariant, PTL

\* With one process writing the store, consecutive events of a listing are
\* linked: a change starts from the value the one before left, or from NULL
\* when the feed left the field out in between (an upsert overwrites the column
\* with NULL and classifyEvents logs nothing); a listing is never entered
\* twice, and no price changes between an exit and the next entry.
THEOREM TheHistoryIsLinked ==
    ASSUME NEW CONSTANT only, Writers = {only}, IsFiniteSet(Listings)
    PROVE  CaptureSpec => []HistoryLinked
<1>1. LogInv /\ LivesInv => HistoryLinked
  BY LivesLinked DEF LivesInv
<1> QED
  BY <1>1, LivesInvariant, PTL

=============================================================================
