----------------------------- MODULE MediaProofs -----------------------------
(***************************************************************************)
(* Theorems about MediaPipeline, for every number of images, workers,       *)
(* batch sizes and failure budgets.                                         *)
(***************************************************************************)
EXTENDS MediaPipeline, Greatest, FiniteSetTheorems, TLAPS

-----------------------------------------------------------------------------
(* Type correctness.                                                        *)

LEMMA MediaInitTyped == MediaInit => MediaTypeOK
BY MediaConstants
   DEF MediaInit, MediaTypeOK, Media, Pool, Rows, NoRow, Feeds, Ready, Passes, NoPass,
       Items, Jobs, NoJob

\* What a pass claims is finite and, if there is any, has a last row.
LEMMA ClaimTyped ==
    ASSUME NEW d \in Downloaders
    PROVE  /\ Cardinality(Claimed(d)) \in Nat
           /\ Claimed(d) \subseteq Media
           /\ Claimed(d) # {} => CursorAfter(Claimed(d)) \in Media
           /\ \A m \in Claimed(d) : m <= CursorAfter(Claimed(d))
<1>1. Claimed(d) \subseteq Media
  BY DEF Claimed, PendingAfter
<1>2. IsFiniteSet(Media)
  BY FS_Interval, MediaConstants DEF Media
<1>3. Cardinality(Claimed(d)) \in Nat
  BY <1>1, <1>2, FS_Subset, FS_CardinalityType
<1>4. ASSUME Claimed(d) # {}
      PROVE  /\ CursorAfter(Claimed(d)) \in Media
             /\ \A m \in Claimed(d) : m <= CursorAfter(Claimed(d))
  <2> DEFINE S == Claimed(d)
  <2>1. S \in SUBSET (0..NumMedia)
    BY <1>1, MediaConstants DEF Media
  <2>2. \E m \in S : \A x \in S : x <= m
    BY <1>4, <2>1, GreatestExists, MediaConstants
  <2>3. CursorAfter(S) \in S /\ \A x \in S : x <= CursorAfter(S)
    BY <2>2 DEF CursorAfter
  <2> QED
    BY <1>1, <2>3
<1> QED
  BY <1>1, <1>3, <1>4

LEMMA BoundsTyped ==
    ASSUME MediaTypeOK
    PROVE  /\ Change => changes' \in 0..MaxChanges
           /\ MediaFault => faults' \in 0..MaxFaults
BY MediaConstants DEF MediaTypeOK, Change, MediaFault

LEMMA FeedTyped ==
    ASSUME MediaTypeOK, NEW e \in Feeders, Feed(e) \/ FeederFails(e)
    PROVE  MediaTypeOK'
<1> USE DEF MediaTypeOK, Feeds, Ready
<1>1. CASE Upsert(e)
  <2>1. NoRow \in Rows /\ Queued \in Rows
    BY DEF NoRow, Queued, Rows
  <2>2. PICK S \in SUBSET Media : rows' = UpsertedMedia(S)
    BY <1>1 DEF Upsert
  <2>3. rows' \in [Media -> Rows]
    BY <2>1, <2>2 DEF UpsertedMedia
  <2> QED
    BY <1>1, <2>3, MediaConstants DEF Upsert, Change
<1>2. CASE DeleteCollect(e)
  BY <1>2, MediaConstants DEF DeleteCollect, Change
<1>3. CASE DeleteRows(e)
  BY <1>3 DEF DeleteRows, Rows, NoRow
<1>4. CASE DeleteFile(e)
  BY <1>4 DEF DeleteFile
<1>5. CASE DeleteDone(e)
  BY <1>5 DEF DeleteDone
<1>6. CASE FeederFails(e)
  BY <1>6, MediaConstants DEF FeederFails, MediaFault
<1> QED
  BY <1>1, <1>2, <1>3, <1>4, <1>5, <1>6 DEF Feed

LEMMA RequeueTyped == MediaTypeOK /\ Requeue => MediaTypeOK'
<1> SUFFICES ASSUME MediaTypeOK, Requeue PROVE MediaTypeOK'
  OBVIOUS
<1>1. rows' \in [Media -> Rows]
  BY DEF MediaTypeOK, Requeue, Rows, Queued, NoRow
<1>2. changes' \in 0..MaxChanges
  BY BoundsTyped DEF Requeue
<1> QED
  BY <1>1, <1>2 DEF MediaTypeOK, Requeue

LEMMA PassTyped ==
    ASSUME MediaTypeOK, NEW d \in Downloaders,
           RunStart(d) \/ Claim(d) \/ RunEnd(d) \/ DownloadCrash(d)
    PROVE  MediaTypeOK'
<1> USE DEF MediaTypeOK
<1>1. CASE RunStart(d)
  BY <1>1 DEF RunStart, Passes
<1>2. CASE Claim(d)
  <2> DEFINE items == {[key |-> m, failures |-> rows[m].failures] : m \in Claimed(d)}
  <2>1. items \in SUBSET Items
    BY ClaimTyped DEF Items, Rows
  <2>2. CursorAfter(Claimed(d)) \in 0..NumMedia
    <3>1. Claimed(d) # {}
      BY <1>2 DEF Claim
    <3>2. CursorAfter(Claimed(d)) \in Media
      BY <3>1, ClaimTyped
    <3> QED
      BY <3>2, MediaConstants DEF Media
  <2>3. Cardinality(Claimed(d)) \in Nat
    BY ClaimTyped
  <2> DEFINE claimed == [pc |-> "running",
                         after |-> CursorAfter(Claimed(d)),
                         items |-> items,
                         attempted |-> pass[d].attempted + Cardinality(Claimed(d)),
                         broken |-> FALSE,
                         tried |-> pass[d].tried]
  <2>4. claimed \in Passes
    BY <2>1, <2>2, <2>3 DEF Passes
  <2>5. pass' = [pass EXCEPT ![d] = claimed]
    BY <1>2, Zenon DEF Claim
  <2> HIDE DEF claimed
  <2>6. pass' \in [Downloaders -> Passes]
    BY <2>4, <2>5
  <2> QED
    BY <1>2, <2>6 DEF Claim
<1>3. CASE RunEnd(d)
  BY <1>3, MediaConstants DEF RunEnd, Passes, NoPass
<1>4. CASE DownloadCrash(d)
  BY <1>4, MediaConstants
     DEF DownloadCrash, MediaFault, Passes, NoPass, Jobs, NoJob, Items, Media
<1> QED
  BY <1>1, <1>2, <1>3, <1>4

LEMMA NoJobTyped == NoJob \in Jobs
BY MediaConstants DEF NoJob, Jobs, Items, Media

LEMMA WorkTyped ==
    ASSUME MediaTypeOK, NEW d \in Downloaders, NEW w \in Pool, Work(d, w) \/ Systemic(d, w)
    PROVE  MediaTypeOK'
<1> USE DEF MediaTypeOK
<1>1. CASE Assign(d, w)
  <2>1. PICK it \in pass[d].items :
            /\ pass' = [pass EXCEPT ![d].items = @ \ {it}, ![d].tried = @ \cup {it.key}]
            /\ job' = [job EXCEPT ![d][w] = [pc |-> "fetch", item |-> it]]
    BY <1>1 DEF Assign
  <2> DEFINE items == pass[d].items \ {it}
             tried == pass[d].tried \cup {it.key}
  <2>2. it \in Items /\ it.key \in Media /\ items \in SUBSET Items /\ tried \in SUBSET Media
    BY DEF Passes, Items
  <2> HIDE DEF items, tried
  <2>3. [pc |-> "fetch", item |-> it] \in Jobs
    BY <2>2 DEF Jobs
  <2>4. pass' \in [Downloaders -> Passes]
    <3>1. [pass[d] EXCEPT !.items = items, !.tried = tried] \in Passes
      BY <2>2 DEF Passes
    <3>2. pass' = [pass EXCEPT ![d] = [pass[d] EXCEPT !.items = items, !.tried = tried]]
      BY <2>1 DEF items, tried, Passes
    <3> QED
      BY <3>1, <3>2
  <2>5. job' \in [Downloaders -> [Pool -> Jobs]]
    BY <2>1, <2>3
  <2> QED
    BY <1>1, <2>4, <2>5 DEF Assign
<1>2. CASE StoreFile(d, w)
  <2>1. job[d][w] \in Jobs
    OBVIOUS
  <2>2. [job[d][w] EXCEPT !.pc = "mark"] \in Jobs /\ job[d][w].item.key \in Media
    BY <2>1 DEF Jobs, Items
  <2>3. job' \in [Downloaders -> [Pool -> Jobs]]
    BY <1>2, <2>2 DEF StoreFile
  <2> QED
    BY <1>2, <2>2, <2>3 DEF StoreFile
<1>3. CASE MarkDownloaded(d, w)
  <2>1. job' \in [Downloaders -> [Pool -> Jobs]]
    BY SMTT(40), <1>3, NoJobTyped DEF MarkDownloaded, Finish
  <2>2. rows' \in [Media -> Rows]
    BY <1>3 DEF MarkDownloaded, Rows
  <2> QED
    BY <1>3, <2>1, <2>2 DEF MarkDownloaded
<1>4. CASE MarkFailed(d, w)
  <2>1. job' \in [Downloaders -> [Pool -> Jobs]]
    BY <1>4, NoJobTyped DEF MarkFailed, Finish
  <2> DEFINE it == job[d][w].item
  <2>2. it.key \in Media
    BY DEF Jobs, Items
  <2>3. rows' \in [Media -> Rows]
    BY <1>4, <2>2 DEF MarkFailed, Rows
  <2> QED
    BY <1>4, <2>1, <2>3 DEF MarkFailed
<1>5. CASE Abandon(d, w)
  BY <1>5, NoJobTyped DEF Abandon, Finish
<1>6. CASE Systemic(d, w)
  <2> DEFINE ended == [pass[d] EXCEPT !.broken = TRUE]
  <2>1. ended \in Passes
    BY DEF Passes
  <2>2. pass' = [pass EXCEPT ![d] = ended]
    BY <1>6, Zenon DEF Systemic
  <2> HIDE DEF ended
  <2>4. pass' \in [Downloaders -> Passes]
    BY <2>1, <2>2
  <2>3. job' \in [Downloaders -> [Pool -> Jobs]]
    BY <1>6, NoJobTyped DEF Systemic, Finish
  <2> QED
    BY <1>6, <2>3, <2>4, BoundsTyped DEF Systemic
<1> QED
  BY SMTT(40), <1>1, <1>2, <1>3, <1>4, <1>5, <1>6 DEF Work

LEMMA MediaNextTyped == MediaTypeOK /\ [MediaNext]_mvars => MediaTypeOK'
<1> SUFFICES ASSUME MediaTypeOK, [MediaNext]_mvars PROVE MediaTypeOK'
  OBVIOUS
<1>1. CASE UNCHANGED mvars
  BY <1>1 DEF MediaTypeOK, mvars
<1> QED
  BY <1>1, RequeueTyped, FeedTyped, PassTyped, WorkTyped DEF MediaNext, Download

\* Rows, files, deletions and the state of every worker keep their types, and
\* the cursor of a pass is always the key of a row (store/postgres/media.go,
\* media/downloader.go).
THEOREM MediaTypeCorrect == MediaSpec => []MediaTypeOK
BY MediaInitTyped, MediaNextTyped, PTL DEF MediaSpec

-----------------------------------------------------------------------------
(* The inductive invariant.                                                 *)

Active(d, w, m) == ~Free(d, w) /\ job[d][w].item.key = m

\* m has been claimed and the attempt has not ended.
UnderWay(d, m) ==
    \/ \E it \in pass[d].items : it.key = m
    \/ \E w \in Pool : Active(d, w, m)

RowsInv ==
    \A m \in Media : /\ rows[m].path => rows[m].status = "downloaded"
                     /\ rows[m].status = "downloaded" => rows[m].path /\ m \in files

\* A deletion removes files of rows that are gone, and that nobody downloads.
DeleteInv(e) ==
    /\ feeder[e].pc = "collected" =>
          \A m \in feeder[e].paths : rows[m].status = "downloaded"
    /\ feeder[e].pc = "remove" => \A m \in Media : ~Exists(m)
    /\ feeder[e].pc # "ready" =>
          \A m \in feeder[e].paths, d \in Downloaders : ~UnderWay(d, m)

\* What is under way is not downloaded yet, and one attempt at a time.
AttemptInv(d) ==
    /\ \A m \in Media : UnderWay(d, m) => rows[m].status # "downloaded"
    /\ \A w \in Pool : job[d][w].pc = "mark" => job[d][w].item.key \in files
    /\ \A i, j \in pass[d].items : i.key = j.key => i = j
    /\ \A w \in Pool, it \in pass[d].items : ~Active(d, w, it.key)
    /\ \A v, w \in Pool : ~Free(d, v) /\ Active(d, w, job[d][v].item.key) => v = w

FilesInv ==
    /\ RowsInv
    /\ \A e \in Feeders : DeleteInv(e)
    /\ \A d \in Downloaders : AttemptInv(d)

LEMMA FilesInit == MediaInit => FilesInv
BY DEF MediaInit, FilesInv, RowsInv, DeleteInv, AttemptInv, UnderWay, Active, Free, NoJob,
       NoRow, NoPass, Ready

LEMMA FeedFiles ==
    ASSUME NEW e, NEW d, Feeders = {e}, Downloaders = {d}, MediaTypeOK, FilesInv,
           Feed(e) \/ FeederFails(e)
    PROVE  FilesInv'
<1> USE DEF MediaTypeOK, Rows, Feeds, Jobs, Passes, Items,
            RowsInv, DeleteInv, AttemptInv, UnderWay, Active, Free, Exists
<1>0. RowsInv /\ DeleteInv(e) /\ AttemptInv(d)
  BY DEF FilesInv
<1>1. CASE Upsert(e)
  <2>1. RowsInv'
    BY <1>0, <1>1 DEF Upsert, UpsertedMedia, NoRow, Queued
  <2>2. DeleteInv(e)'
    BY <1>0, <1>1 DEF Upsert, UpsertedMedia, NoRow, Queued
  <2>3. AttemptInv(d)'
    BY <1>0, <1>1 DEF Upsert, UpsertedMedia, NoRow, Queued
  <2> QED
    BY <2>1, <2>2, <2>3 DEF FilesInv
<1>2. CASE DeleteCollect(e)
  <2>1. RowsInv'
    BY <1>0, <1>2 DEF DeleteCollect
  <2>2. DeleteInv(e)'
    BY <1>0, <1>2 DEF DeleteCollect
  <2>3. AttemptInv(d)'
    BY <1>0, <1>2 DEF DeleteCollect
  <2> QED
    BY <2>1, <2>2, <2>3 DEF FilesInv
<1>3. CASE DeleteRows(e)
  <2>1. RowsInv'
    BY <1>0, <1>3 DEF DeleteRows, NoRow
  <2>2. DeleteInv(e)'
    BY <1>0, <1>3 DEF DeleteRows, NoRow
  <2>3. AttemptInv(d)'
    BY <1>0, <1>3 DEF DeleteRows, NoRow
  <2> QED
    BY <2>1, <2>2, <2>3 DEF FilesInv
<1>4. CASE DeleteFile(e)
  <2>1. RowsInv'
    BY <1>0, <1>4 DEF DeleteFile
  <2>2. DeleteInv(e)'
    BY <1>0, <1>4 DEF DeleteFile
  <2>3. AttemptInv(d)'
    BY <1>0, <1>4 DEF DeleteFile
  <2> QED
    BY <2>1, <2>2, <2>3 DEF FilesInv
<1>5. CASE DeleteDone(e)
  <2>1. RowsInv'
    BY <1>0, <1>5 DEF DeleteDone, Ready
  <2>2. DeleteInv(e)'
    BY <1>0, <1>5 DEF DeleteDone, Ready
  <2>3. AttemptInv(d)'
    BY <1>0, <1>5 DEF DeleteDone, Ready
  <2> QED
    BY <2>1, <2>2, <2>3 DEF FilesInv
<1>6. CASE FeederFails(e)
  <2>1. RowsInv'
    BY <1>0, <1>6 DEF FeederFails, Ready
  <2>2. DeleteInv(e)'
    BY <1>0, <1>6 DEF FeederFails, Ready
  <2>3. AttemptInv(d)'
    BY <1>0, <1>6 DEF FeederFails, Ready
  <2> QED
    BY <2>1, <2>2, <2>3 DEF FilesInv
<1> QED
  BY <1>1, <1>2, <1>3, <1>4, <1>5, <1>6 DEF Feed

\* A step on the rows that neither marks nor deletes one.
LEMMA RowsKept ==
    ASSUME FilesInv, UNCHANGED <<files, feeder>>,
           \A m \in Media : /\ rows'[m].path = rows[m].path
                            /\ rows'[m].status = "downloaded" <=> rows[m].status = "downloaded"
                            /\ Exists(m)' <=> Exists(m),
           \A d \in Downloaders : /\ pass'[d].items = pass[d].items
                                  /\ \A w \in Pool : job'[d][w] \in {job[d][w], NoJob},
           MediaTypeOK
    PROVE  FilesInv'
<1> USE DEF MediaTypeOK, Feeds, Jobs, Passes, Items, NoJob, Active, Free, UnderWay, FilesInv
<1>1. RowsInv'
  BY DEF RowsInv
<1>2. \A d \in Downloaders, m \in Media : UnderWay(d, m)' => UnderWay(d, m)
  OBVIOUS
<1>3. ASSUME NEW e \in Feeders PROVE DeleteInv(e)'
  BY <1>2 DEF DeleteInv
<1>4. ASSUME NEW d \in Downloaders PROVE AttemptInv(d)'
  <2>1. AttemptInv(d)
    OBVIOUS
  <2>2. \A m \in Media : UnderWay(d, m)' => rows'[m].status # "downloaded"
    BY ZenonT(60), <1>2, <2>1 DEF AttemptInv
  <2>3. \A w \in Pool : job'[d][w].pc # "none" => job'[d][w] = job[d][w]
    OBVIOUS
  <2> HIDE DEF UnderWay, MediaTypeOK
  <2> QED
    BY <2>1, <2>2, <2>3 DEF AttemptInv
<1> QED
  BY <1>1, <1>3, <1>4

LEMMA RequeueFiles == MediaTypeOK /\ FilesInv /\ Requeue => FilesInv'
<1> SUFFICES ASSUME MediaTypeOK, FilesInv, Requeue PROVE FilesInv'
  OBVIOUS
<1>1. \A m \in Media : /\ rows'[m].path = rows[m].path
                       /\ rows'[m].status = "downloaded" <=> rows[m].status = "downloaded"
                       /\ Exists(m)' <=> Exists(m)
  BY DEF Requeue, Queued, NoRow, Exists
<1> QED
  BY <1>1, RowsKept DEF Requeue

\* What a pass claims is queued, and nothing else is under way.
LEMMA ClaimsQueued ==
    ASSUME MediaTypeOK, NEW d \in Downloaders, Claim(d)
    PROVE  /\ UNCHANGED <<rows, files, feeder, job>>
           /\ \A w \in Pool : Free(d, w)
           /\ \A it \in pass'[d].items : /\ it.key \in Media
                                        /\ it = [key |-> it.key, failures |-> rows[it.key].failures]
                                        /\ rows[it.key].status = "pending"
           /\ \A m \in Media : UnderWay(d, m)' => rows[m].status = "pending"
<1>1. UNCHANGED <<rows, files, feeder, job>> /\ \A w \in Pool : Free(d, w)
  BY DEF Claim, Quiet
<1>2. pass'[d].items = {[key |-> m, failures |-> rows[m].failures] : m \in Claimed(d)}
  BY DEF Claim, MediaTypeOK
<1>3. ASSUME NEW it \in pass'[d].items
      PROVE  /\ it.key \in Media
             /\ it = [key |-> it.key, failures |-> rows[it.key].failures]
             /\ rows[it.key].status = "pending"
  <2>1. PICK m \in Claimed(d) : it = [key |-> m, failures |-> rows[m].failures]
    BY <1>2
  <2>2. it.key = m /\ m \in Media /\ rows[m].status = "pending"
    BY <2>1 DEF Claimed, PendingAfter
  <2> QED
    BY <2>1, <2>2
<1>4. \A m \in Media : UnderWay(d, m)' => rows[m].status = "pending"
  BY <1>1, <1>3 DEF UnderWay, Active, Free
<1> QED
  BY <1>1, <1>3, <1>4

LEMMA PassFiles ==
    ASSUME NEW e, NEW d, Feeders = {e}, Downloaders = {d}, MediaTypeOK, FilesInv,
           RunStart(d) \/ Claim(d) \/ RunEnd(d) \/ DownloadCrash(d)
    PROVE  FilesInv'
<1> USE DEF MediaTypeOK, Rows, Feeds, Jobs, Passes, Items,
            RowsInv, DeleteInv, AttemptInv, UnderWay, Active, Free, Exists
<1>0. RowsInv /\ DeleteInv(e) /\ AttemptInv(d)
  BY DEF FilesInv
<1>1. CASE RunStart(d)
  <2>1. RowsInv'
    BY <1>0, <1>1 DEF RunStart
  <2>2. DeleteInv(e)'
    BY <1>0, <1>1 DEF RunStart
  <2>3. AttemptInv(d)'
    BY <1>0, <1>1 DEF RunStart
  <2> QED
    BY <2>1, <2>2, <2>3 DEF FilesInv
<1>2. CASE Claim(d)
  <2> HIDE DEF RowsInv, DeleteInv, AttemptInv, UnderWay, Active, Free, Exists
  <2> HIDE DEF MediaTypeOK
  <2>1. UNCHANGED <<rows, files, feeder, job>> /\ \A w \in Pool : Free(d, w)
    BY <1>2, ClaimsQueued
  <2>3. \A it \in pass'[d].items : it = [key |-> it.key, failures |-> rows[it.key].failures]
    BY <1>2, ClaimsQueued
  <2>4. \A m \in Media : UnderWay(d, m)' => rows[m].status = "pending"
    BY <1>2, ClaimsQueued
  <2>5. DeleteInv(e)'
    <3>1. feeder[e].pc = "collected" => \A m \in feeder[e].paths : rows[m].status = "downloaded"
      BY <1>0 DEF DeleteInv
    <3>2. feeder[e].pc = "remove" => \A m \in Media : ~Exists(m)
      BY <1>0 DEF DeleteInv
    <3>3. feeder[e].pc \in {"ready", "collected", "remove"} /\ feeder[e].paths \subseteq Media
      BY DEF MediaTypeOK
    <3>4. feeder[e].pc # "ready" => \A m \in feeder[e].paths : ~UnderWay(d, m)'
      BY <2>4, <3>1, <3>2, <3>3 DEF Exists
    <3> QED
      BY <2>1, <3>1, <3>2, <3>4 DEF DeleteInv, Exists
  <2>6. AttemptInv(d)'
    <3>1. \A m \in Media : UnderWay(d, m)' => rows'[m].status # "downloaded"
      BY <2>1, <2>4
    <3>2. \A i, j \in pass'[d].items : i.key = j.key => i = j
      BY <2>3
    <3> QED
      BY <2>1, <3>1, <3>2 DEF AttemptInv, Active, Free
  <2> QED
    BY <1>0, <2>1, <2>5, <2>6 DEF FilesInv, RowsInv
<1>3. CASE RunEnd(d)
  <2>1. RowsInv'
    BY <1>0, <1>3 DEF RunEnd, Quiet, NoPass
  <2>2. DeleteInv(e)'
    BY <1>0, <1>3 DEF RunEnd, Quiet, NoPass
  <2>3. AttemptInv(d)'
    BY <1>0, <1>3 DEF RunEnd, Quiet, NoPass
  <2> QED
    BY <2>1, <2>2, <2>3 DEF FilesInv
<1>4. CASE DownloadCrash(d)
  <2>1. RowsInv'
    BY <1>0, <1>4 DEF DownloadCrash, NoPass, NoJob
  <2>2. DeleteInv(e)'
    BY <1>0, <1>4 DEF DownloadCrash, NoPass, NoJob
  <2>3. AttemptInv(d)'
    BY <1>0, <1>4 DEF DownloadCrash, NoPass, NoJob
  <2> QED
    BY <2>1, <2>2, <2>3 DEF FilesInv
<1> QED
  BY <1>1, <1>2, <1>3, <1>4

LEMMA WorkFiles ==
    ASSUME NEW e, NEW d, Feeders = {e}, Downloaders = {d}, MediaTypeOK, FilesInv,
           NEW w \in Pool, Work(d, w) \/ Systemic(d, w)
    PROVE  FilesInv'
<1> USE DEF MediaTypeOK, Rows, Feeds, Jobs, Passes, Items,
            RowsInv, DeleteInv, AttemptInv, UnderWay, Active, Free, Exists
<1>0. RowsInv /\ DeleteInv(e) /\ AttemptInv(d)
  BY DEF FilesInv
<1>1. CASE Assign(d, w)
  <2>1. RowsInv'
    BY <1>0, <1>1 DEF Assign
  <2>2. DeleteInv(e)'
    BY <1>0, <1>1 DEF Assign
  <2>3. AttemptInv(d)'
    BY <1>0, <1>1 DEF Assign
  <2> QED
    BY <2>1, <2>2, <2>3 DEF FilesInv
<1>2. CASE StoreFile(d, w)
  <2>1. RowsInv'
    BY <1>0, <1>2 DEF StoreFile
  <2>2. DeleteInv(e)'
    BY <1>0, <1>2 DEF StoreFile
  <2>3. AttemptInv(d)'
    BY SMTT(40), <1>0, <1>2 DEF StoreFile
  <2> QED
    BY <2>1, <2>2, <2>3 DEF FilesInv
<1>3. CASE MarkDownloaded(d, w)
  <2> HIDE DEF RowsInv, DeleteInv, AttemptInv, UnderWay, Active, Free, Exists
  <2>1. PICK key \in Media : key = job[d][w].item.key
    OBVIOUS
  <2>2. /\ rows' = rows \/ rows' = [rows EXCEPT ![key].status = "downloaded", ![key].path = TRUE]
        /\ Exists(key) \/ rows' = rows
        /\ UNCHANGED <<files, feeder, pass>>
    BY <1>3, <2>1 DEF MarkDownloaded
  <2>3. \A m \in Media : \/ rows'[m] = rows[m]
                        \/ /\ m = key /\ Exists(key)
                           /\ rows'[m].status = "downloaded" /\ rows'[m].path
    BY <2>2
  <2>4. job[d][w].pc = "mark" /\ Active(d, w, key) /\ ~Free(d, w)
    BY <1>3, <2>1 DEF MarkDownloaded, Active, Free
  <2>5. \A v \in Pool : job'[d][v] = IF v = w THEN NoJob ELSE job[d][v]
    BY <1>3 DEF MarkDownloaded, Finish
  <2> HIDE DEF MediaTypeOK
  <2>6. \A v \in Pool, m \in Media : Active(d, v, m)' => v # w /\ Active(d, v, m)
    BY SMTT(40), <2>5 DEF Active, Free, NoJob
  <2>7. \A m \in Media : UnderWay(d, m)' => UnderWay(d, m) /\ m # key
    BY ZenonT(60), <1>0, <2>1, <2>2, <2>4, <2>6 DEF AttemptInv, UnderWay, Active
  <2>8. \A m \in Media : Exists(m)' <=> Exists(m)
    BY <2>3 DEF Exists
  <2>9. RowsInv'
    BY ZenonT(60), <1>0, <2>1, <2>2, <2>3, <2>4 DEF RowsInv, AttemptInv
  <2>10. DeleteInv(e)'
    <3>1. feeder[e].paths \subseteq Media
      BY DEF MediaTypeOK
    <3> QED
      BY <1>0, <2>2, <2>3, <2>7, <2>8, <3>1 DEF DeleteInv
  <2>11. AttemptInv(d)'
    <3>1. \A m \in Media : UnderWay(d, m)' => rows'[m].status # "downloaded"
      BY <1>0, <2>3, <2>7 DEF AttemptInv
    <3>2. \A v \in Pool : job[d][v].item.key \in Media
      BY DEF MediaTypeOK
    <3>3. \A it \in pass[d].items : it.key \in Media
      BY DEF MediaTypeOK
    <3> QED
      BY <1>0, <2>2, <2>5, <2>6, <3>1, <3>2, <3>3 DEF AttemptInv, Free, NoJob
  <2> QED
    BY <2>9, <2>10, <2>11 DEF FilesInv
<1>4. CASE MarkFailed(d, w)
  <2> HIDE DEF RowsInv, DeleteInv, AttemptInv, UnderWay, Active, Free, Exists
  <2>1. rows[job[d][w].item.key].status # "downloaded"
    BY <1>0, <1>4 DEF MarkFailed, AttemptInv, UnderWay, Active, Free
  <2>2. \A m \in Media : /\ rows'[m].path = rows[m].path
                         /\ rows'[m].status = "downloaded" <=> rows[m].status = "downloaded"
                         /\ Exists(m)' <=> Exists(m)
    BY <1>4, <2>1 DEF MarkFailed, Exists
  <2>3. \A v \in Pool : job'[d][v] \in {job[d][v], NoJob}
    BY <1>4 DEF MarkFailed, Finish
  <2> HIDE DEF MediaTypeOK
  <2> QED
    BY <1>4, <2>2, <2>3, RowsKept DEF MarkFailed
<1>5. CASE Abandon(d, w)
  <2>1. RowsInv'
    BY <1>0, <1>5 DEF Abandon, Finish, NoJob
  <2>2. DeleteInv(e)'
    BY <1>0, <1>5 DEF Abandon, Finish, NoJob
  <2>3. AttemptInv(d)'
    BY <1>0, <1>5 DEF Abandon, Finish, NoJob
  <2> QED
    BY <2>1, <2>2, <2>3 DEF FilesInv
<1>6. CASE Systemic(d, w)
  <2>1. RowsInv'
    BY <1>0, <1>6 DEF Systemic, Finish, NoJob
  <2>2. DeleteInv(e)'
    BY <1>0, <1>6 DEF Systemic, Finish, NoJob
  <2>3. AttemptInv(d)'
    BY <1>0, <1>6 DEF Systemic, Finish, NoJob
  <2> QED
    BY <2>1, <2>2, <2>3 DEF FilesInv
<1> QED
  BY <1>1, <1>2, <1>3, <1>4, <1>5, <1>6 DEF Work

LEMMA FilesNext ==
    ASSUME NEW e, NEW d, Feeders = {e}, Downloaders = {d}
    PROVE  MediaTypeOK /\ FilesInv /\ [MediaNext]_mvars => FilesInv'
<1> SUFFICES ASSUME MediaTypeOK, FilesInv, [MediaNext]_mvars PROVE FilesInv'
  OBVIOUS
<1>1. CASE UNCHANGED mvars
  BY <1>1 DEF FilesInv, RowsInv, DeleteInv, AttemptInv, UnderWay, Active, Free, Exists, mvars
<1> QED
  BY <1>1, RequeueFiles, FeedFiles, PassFiles, WorkFiles DEF MediaNext, Download

\* With one process that writes the listing and one download, a row marked
\* downloaded has its file: through deletions of the listing and its return,
\* crashes between the sink and the mark, broken runs and retries
\* (media/downloader.go, store/postgres/upsert.go).
THEOREM DownloadsHaveFiles ==
    ASSUME NEW e, NEW d, Feeders = {e}, Downloaders = {d}
    PROVE  MediaSpec => []DownloadedHasFile
<1>1. MediaTypeOK /\ FilesInv /\ [MediaNext]_mvars => FilesInv'
  BY FilesNext
<1>2. FilesInv => DownloadedHasFile
  BY DEF FilesInv, RowsInv, DownloadedHasFile
<1> QED
  BY <1>1, <1>2, FilesInit, MediaTypeCorrect, PTL DEF MediaSpec

-----------------------------------------------------------------------------
(* The failure budget.                                                      *)

\* The failure count that decides whether an attempt is the last is never
\* behind the row's: a row that comes back after a deletion starts from 0.
CountInv(d) ==
    /\ \A m \in Media : UnderWay(d, m) => rows[m].status \in {"none", "pending"}
    /\ \A it \in pass[d].items : Exists(it.key) => rows[it.key].failures <= it.failures
    /\ \A w \in Pool : LET it == job[d][w].item
                      IN  ~Free(d, w) /\ Exists(it.key) => rows[it.key].failures <= it.failures

BudgetInv == BudgetKept /\ \A d \in Downloaders : CountInv(d)

LEMMA BudgetInitially == MediaInit => BudgetInv
BY MediaConstants
   DEF MediaInit, BudgetInv, BudgetKept, CountInv, UnderWay, Active, Free, NoJob, NoRow, NoPass

\* The end of an attempt concerns one row.
LEMMA AttemptEnds ==
    ASSUME MediaTypeOK, FilesInv, NEW d \in Downloaders, CountInv(d),
           NEW w \in Pool, ~Free(d, w), Finish(d, w), UNCHANGED pass,
           \A m \in Media \ {job[d][w].item.key} : rows'[m] = rows[m]
    PROVE  CountInv(d)'
<1> DEFINE k == job[d][w].item.key
<1>1. AttemptInv(d)
  BY DEF FilesInv
<1>2. /\ \A it \in pass[d].items : it.key \in Media
      /\ \A v \in Pool : job[d][v].item.key \in Media
      /\ \A v \in Pool : job'[d][v] = IF v = w THEN NoJob ELSE job[d][v]
  BY DEF MediaTypeOK, Passes, Items, Jobs, Finish
<1>3. \A v \in Pool : job'[d][v].pc # "none" => job'[d][v] = job[d][v] /\ job[d][v].item.key # k
  BY <1>1, <1>2 DEF AttemptInv, Active, Free, NoJob
<1>4. \A it \in pass'[d].items : it.key # k
  BY <1>1 DEF AttemptInv, Active
<1>5. \A m \in Media : UnderWay(d, m)' => UnderWay(d, m) /\ m # k
  BY <1>3, <1>4 DEF UnderWay, Active, Free
<1> HIDE DEF k
<1>6. \A m \in Media : UnderWay(d, m)' => rows'[m].status \in {"none", "pending"}
  BY <1>5 DEF CountInv, k
<1>7. \A it \in pass'[d].items : Exists(it.key)' => rows'[it.key].failures <= it.failures
  BY <1>2, <1>4 DEF CountInv, Exists, k
<1>8. ASSUME NEW v \in Pool, job'[d][v].pc # "none", Exists(job[d][v].item.key)'
      PROVE  rows'[job'[d][v].item.key].failures <= job'[d][v].item.failures
  <2>1. job'[d][v] = job[d][v] /\ job[d][v].item.key \in Media /\ job[d][v].item.key # k
    BY <1>2, <1>3, <1>8
  <2>2. rows'[job[d][v].item.key] = rows[job[d][v].item.key]
    BY <2>1 DEF k
  <2>3. Exists(job[d][v].item.key) /\ ~Free(d, v)
    BY <1>8, <2>1, <2>2 DEF Exists, Free
  <2>4. rows[job[d][v].item.key].failures <= job[d][v].item.failures
    BY <2>3 DEF CountInv
  <2> QED
    BY <2>1, <2>2, <2>4
<1>9. \A v \in Pool : ~(job'[d][v].pc = "none") /\ Exists(job[d][v].item.key)' =>
          rows'[job'[d][v].item.key].failures <= job'[d][v].item.failures
  BY <1>8
<1> QED
  BY <1>6, <1>7, <1>9 DEF CountInv, Free, Exists

LEMMA FeedBudget ==
    ASSUME NEW e, NEW d, Feeders = {e}, Downloaders = {d}, MediaTypeOK, FilesInv, BudgetInv,
           Feed(e) \/ FeederFails(e) \/ Requeue
    PROVE  BudgetInv'
<1> USE MediaConstants DEF MediaTypeOK, Rows, Feeds, Jobs, Passes, Items, BudgetKept, CountInv,
                            UnderWay, Active, Free, Exists
<1>0. BudgetKept /\ CountInv(d)
  BY DEF BudgetInv
<1>1. CASE Upsert(e)
  <2>1. BudgetKept'
    BY <1>0, <1>1 DEF Upsert, UpsertedMedia, NoRow, Queued
  <2>2. CountInv(d)'
    BY <1>0, <1>1 DEF Upsert, UpsertedMedia, NoRow, Queued
  <2> QED
    BY <2>1, <2>2 DEF BudgetInv
<1>2. CASE DeleteCollect(e)
  <2>1. BudgetKept'
    BY <1>0, <1>2 DEF DeleteCollect
  <2>2. CountInv(d)'
    BY <1>0, <1>2 DEF DeleteCollect
  <2> QED
    BY <2>1, <2>2 DEF BudgetInv
<1>3. CASE DeleteRows(e)
  <2>1. BudgetKept'
    BY <1>0, <1>3 DEF DeleteRows, NoRow
  <2>2. CountInv(d)'
    BY <1>0, <1>3 DEF DeleteRows, NoRow
  <2> QED
    BY <2>1, <2>2 DEF BudgetInv
<1>4. CASE DeleteFile(e)
  <2>1. BudgetKept'
    BY <1>0, <1>4 DEF DeleteFile
  <2>2. CountInv(d)'
    BY <1>0, <1>4 DEF DeleteFile
  <2> QED
    BY <2>1, <2>2 DEF BudgetInv
<1>5. CASE DeleteDone(e)
  <2>1. BudgetKept'
    BY <1>0, <1>5 DEF DeleteDone
  <2>2. CountInv(d)'
    BY <1>0, <1>5 DEF DeleteDone
  <2> QED
    BY <2>1, <2>2 DEF BudgetInv
<1>6. CASE FeederFails(e)
  <2>1. BudgetKept'
    BY <1>0, <1>6 DEF FeederFails
  <2>2. CountInv(d)'
    BY <1>0, <1>6 DEF FeederFails
  <2> QED
    BY <2>1, <2>2 DEF BudgetInv
<1>7. CASE Requeue
  <2>1. BudgetKept'
    <3>1. \A m \in Media : \/ rows'[m] = rows[m]
                           \/ rows'[m].failures = 0
      BY <1>7 DEF Requeue, Queued, NoRow
    <3> QED
      BY <1>0, <3>1
  <2> HIDE DEF MediaTypeOK, UnderWay
  <2>2. \A m \in Media : rows[m].status # "failed" => rows'[m] = rows[m]
    BY <1>7 DEF Requeue
  <2>3. \A m \in Media : UnderWay(d, m)' => UnderWay(d, m) /\ rows'[m] = rows[m]
    BY <1>0, <1>7, <2>2 DEF Requeue, UnderWay
  <2>4. \A it \in pass[d].items : it.key \in Media /\ UnderWay(d, it.key)
    BY DEF MediaTypeOK, UnderWay
  <2>5. \A w \in Pool : ~Free(d, w) => /\ job[d][w].item.key \in Media
                                      /\ UnderWay(d, job[d][w].item.key)
    BY DEF MediaTypeOK, UnderWay
  <2>6. UNCHANGED <<pass, job>>
    BY <1>7 DEF Requeue
  <2>7. CountInv(d)'
    BY <1>0, <2>2, <2>3, <2>4, <2>5, <2>6
  <2> QED
    BY <2>1, <2>7 DEF BudgetInv
<1> QED
  BY <1>1, <1>2, <1>3, <1>4, <1>5, <1>6, <1>7 DEF Feed

LEMMA PassBudget ==
    ASSUME NEW d, Downloaders = {d}, MediaTypeOK, FilesInv, BudgetInv,
           RunStart(d) \/ Claim(d) \/ RunEnd(d) \/ DownloadCrash(d)
    PROVE  BudgetInv'
<1> USE MediaConstants DEF MediaTypeOK, Rows, Feeds, Jobs, Passes, Items, BudgetKept, CountInv,
                            UnderWay, Active, Free, Exists
<1>0. BudgetKept /\ CountInv(d)
  BY DEF BudgetInv
<1>1. CASE RunStart(d)
  <2>1. BudgetKept'
    BY <1>0, <1>1 DEF RunStart
  <2>2. CountInv(d)'
    BY <1>0, <1>1 DEF RunStart
  <2> QED
    BY <2>1, <2>2 DEF BudgetInv
<1>2. CASE Claim(d)
  <2> HIDE DEF MediaTypeOK, UnderWay
  <2>1. BudgetKept'
    BY <1>0, <1>2, ClaimsQueued
  <2>2. CountInv(d)'
    <3>1. \A it \in pass'[d].items : rows[it.key].failures <= it.failures
      <4> TAKE it \in pass'[d].items
      <4>1. it.failures = rows[it.key].failures /\ it.key \in Media
        BY <1>2, ClaimsQueued
      <4> QED
        BY <4>1 DEF MediaTypeOK
    <3> QED
      BY <1>2, <3>1, ClaimsQueued
  <2> QED
    BY <2>1, <2>2 DEF BudgetInv
<1>3. CASE RunEnd(d)
  <2>1. BudgetKept'
    BY <1>0, <1>3 DEF RunEnd, Quiet, NoPass
  <2>2. CountInv(d)'
    BY <1>0, <1>3 DEF RunEnd, Quiet, NoPass
  <2> QED
    BY <2>1, <2>2 DEF BudgetInv
<1>4. CASE DownloadCrash(d)
  <2>1. BudgetKept'
    BY <1>0, <1>4 DEF DownloadCrash, NoPass, NoJob
  <2>2. CountInv(d)'
    BY <1>0, <1>4 DEF DownloadCrash, NoPass, NoJob
  <2> QED
    BY <2>1, <2>2 DEF BudgetInv
<1> QED
  BY <1>1, <1>2, <1>3, <1>4

LEMMA WorkBudget ==
    ASSUME NEW d, Downloaders = {d}, MediaTypeOK, FilesInv, BudgetInv,
           NEW w \in Pool, Work(d, w) \/ Systemic(d, w)
    PROVE  BudgetInv'
<1> USE MediaConstants DEF MediaTypeOK, Rows, Feeds, Jobs, Passes, Items, BudgetKept, CountInv,
                            UnderWay, Active, Free, Exists
<1>0. BudgetKept /\ CountInv(d)
  BY DEF BudgetInv
<1>1. CASE Assign(d, w)
  <2>1. BudgetKept'
    BY <1>0, <1>1 DEF Assign
  <2>2. CountInv(d)'
    BY <1>0, <1>1 DEF Assign
  <2> QED
    BY <2>1, <2>2 DEF BudgetInv
<1>2. CASE StoreFile(d, w)
  <2>1. BudgetKept'
    BY <1>0, <1>2 DEF StoreFile
  <2>2. CountInv(d)'
    BY <1>0, <1>2 DEF StoreFile
  <2> QED
    BY <2>1, <2>2 DEF BudgetInv
<1>3. CASE MarkDownloaded(d, w)
  <2>1. BudgetKept'
    <3>1. PICK key : key = job[d][w].item.key
      OBVIOUS
    <3>2. rows' = rows \/ rows' = [rows EXCEPT ![key].status = "downloaded", ![key].path = TRUE]
      BY <1>3, <3>1 DEF MarkDownloaded
    <3>3. \A m \in Media : \/ rows'[m] = rows[m]
                          \/ /\ rows'[m].status = "downloaded"
                             /\ rows'[m].failures = rows[m].failures
      BY <3>2
    <3> QED
      BY SMTT(40), <1>0, <3>3
  <2>2. \A m \in Media \ {job[d][w].item.key} : rows'[m] = rows[m]
    BY <1>3 DEF MarkDownloaded
  <2>3. ~Free(d, w) /\ Finish(d, w) /\ UNCHANGED pass
    BY <1>3 DEF MarkDownloaded
  <2> HIDE DEF MediaTypeOK, CountInv, Free
  <2>4. CountInv(d)'
    BY <1>0, <2>2, <2>3, AttemptEnds
  <2> QED
    BY <2>1, <2>4 DEF BudgetInv
<1>4. CASE MarkFailed(d, w)
  <2>1. BudgetKept'
    BY <1>0, <1>4 DEF MarkFailed, Spent
  <2>2. \A m \in Media \ {job[d][w].item.key} : rows'[m] = rows[m]
    BY <1>4 DEF MarkFailed
  <2>3. ~Free(d, w) /\ Finish(d, w) /\ UNCHANGED pass
    BY <1>4 DEF MarkFailed
  <2> HIDE DEF MediaTypeOK, CountInv, Free
  <2>4. CountInv(d)'
    BY <1>0, <2>2, <2>3, AttemptEnds
  <2> QED
    BY <2>1, <2>4 DEF BudgetInv
<1>5. CASE Abandon(d, w)
  <2>1. BudgetKept'
    BY <1>0, <1>5 DEF Abandon, Finish, NoJob
  <2>2. CountInv(d)'
    BY <1>0, <1>5 DEF Abandon, Finish, NoJob
  <2> QED
    BY <2>1, <2>2 DEF BudgetInv
<1>6. CASE Systemic(d, w)
  <2>1. BudgetKept'
    BY <1>0, <1>6 DEF Systemic, Finish, NoJob
  <2>2. CountInv(d)'
    BY <1>0, <1>6 DEF Systemic, Finish, NoJob
  <2> QED
    BY <2>1, <2>2 DEF BudgetInv
<1> QED
  BY <1>1, <1>2, <1>3, <1>4, <1>5, <1>6 DEF Work

LEMMA BudgetNext ==
    ASSUME NEW e, NEW d, Feeders = {e}, Downloaders = {d}
    PROVE  MediaTypeOK /\ FilesInv /\ BudgetInv /\ [MediaNext]_mvars => BudgetInv'
<1> SUFFICES ASSUME MediaTypeOK, FilesInv, BudgetInv, [MediaNext]_mvars PROVE BudgetInv'
  OBVIOUS
<1>1. CASE UNCHANGED mvars
  BY <1>1 DEF BudgetInv, BudgetKept, CountInv, UnderWay, Active, Free, Exists, mvars
<1> QED
  BY <1>1, FeedBudget, PassBudget, WorkBudget DEF MediaNext, Download

\* With one process that writes the listing and one download, a row leaves the
\* queue with the attempt that spends its failure budget, although the budget
\* is judged by the count read when the row was claimed (media/downloader.go).
THEOREM AttemptsBudgeted ==
    ASSUME NEW e, NEW d, Feeders = {e}, Downloaders = {d}
    PROVE  MediaSpec => []BudgetKept
<1>1. MediaTypeOK /\ FilesInv /\ [MediaNext]_mvars => FilesInv'
  BY FilesNext
<1>2. MediaTypeOK /\ FilesInv /\ BudgetInv /\ [MediaNext]_mvars => BudgetInv'
  BY BudgetNext
<1>3. BudgetInv => BudgetKept
  BY DEF BudgetInv
<1> QED
  BY <1>1, <1>2, <1>3, FilesInit, BudgetInitially, MediaTypeCorrect, PTL DEF MediaSpec

-----------------------------------------------------------------------------
(* Steps on downloaded rows, and the order of a pass.                       *)

LEMMA DownloadsKept ==
    ASSUME MediaTypeOK, FilesInv, [MediaNext]_mvars, NEW m \in Media,
           rows[m].status = "downloaded"
    PROVE  rows'[m].status \in {"downloaded", "none"}
<1>1. CASE Requeue
  BY <1>1 DEF Requeue
<1>2. CASE \E e \in Feeders : Feed(e) \/ FeederFails(e)
  BY <1>2 DEF Feed, Upsert, UpsertedMedia, DeleteCollect, DeleteRows, DeleteFile, DeleteDone,
             FeederFails, NoRow, Exists
<1>3. ASSUME NEW d \in Downloaders,
             RunStart(d) \/ Claim(d) \/ RunEnd(d) \/ DownloadCrash(d)
      PROVE  rows'[m].status \in {"downloaded", "none"}
  BY <1>3 DEF RunStart, Claim, RunEnd, DownloadCrash
<1>4. ASSUME NEW d \in Downloaders, NEW w \in Pool, Work(d, w) \/ Systemic(d, w)
      PROVE  rows'[m].status \in {"downloaded", "none"}
  <2>1. CASE MarkDownloaded(d, w)
    BY <2>1 DEF MarkDownloaded, MediaTypeOK, Rows
  <2>2. CASE MarkFailed(d, w)
    <3>1. ~Free(d, w)
      BY <2>2 DEF MarkFailed, Free
    <3>2. job[d][w].item.key # m
      BY <3>1 DEF FilesInv, AttemptInv, UnderWay, Active
    <3> QED
      BY <2>2, <3>2 DEF MarkFailed
  <2> QED
    BY SMTT(40), <1>4, <2>1, <2>2 DEF Work, Assign, StoreFile, Abandon, Systemic
<1>5. CASE UNCHANGED mvars
  BY <1>5 DEF mvars
<1> QED
  BY <1>1, <1>2, <1>3, <1>4, <1>5 DEF MediaNext, Download

\* With one process that writes the listing and one download, a downloaded row
\* is never queued again: neither an upsert of the listing nor a late failure
\* touches its status (store/store.go, store/postgres/fieldmap.go).
THEOREM DownloadsStay ==
    ASSUME NEW e, NEW d, Feeders = {e}, Downloaders = {d}
    PROVE  MediaSpec => DownloadedForGood
<1>1. MediaTypeOK /\ FilesInv /\ [MediaNext]_mvars => FilesInv'
  BY FilesNext
<1>2. MediaTypeOK /\ FilesInv /\ [MediaNext]_mvars
      => [\A m \in Media : rows[m].status = "downloaded" =>
             rows'[m].status \in {"downloaded", "none"}]_mvars
  BY DownloadsKept
<1> QED
  BY <1>1, <1>2, FilesInit, MediaTypeCorrect, PTL DEF MediaSpec, DownloadedForGood

\* A pass has not started on what it has claimed, and what lies behind the
\* cursor is still to be claimed.
OrderInv ==
    \A d \in Downloaders :
        /\ \A i, j \in pass[d].items : i.key = j.key => i = j
        /\ \A it \in pass[d].items : it.key <= pass[d].after /\ it.key \notin pass[d].tried
        /\ \A m \in pass[d].tried : m <= pass[d].after

LEMMA OrderNext == MediaTypeOK /\ OrderInv /\ [MediaNext]_mvars => OrderInv'
<1> SUFFICES ASSUME MediaTypeOK, OrderInv, [MediaNext]_mvars PROVE OrderInv'
  OBVIOUS
<1>1. ASSUME \A d \in Downloaders : /\ pass'[d].items = pass[d].items
                                    /\ pass'[d].after = pass[d].after
                                    /\ pass'[d].tried = pass[d].tried
      PROVE  OrderInv'
  BY <1>1 DEF OrderInv
<1>2. CASE Requeue \/ \E e \in Feeders : Feed(e) \/ FeederFails(e)
  BY <1>1, <1>2 DEF Requeue, Feed, Upsert, DeleteCollect, DeleteRows, DeleteFile, DeleteDone,
             FeederFails
<1>3. ASSUME NEW d \in Downloaders, Claim(d) PROVE OrderInv'
  <2>1. /\ pass'[d].items = {[key |-> m, failures |-> rows[m].failures] : m \in Claimed(d)}
        /\ pass'[d].after = CursorAfter(Claimed(d))
        /\ pass'[d].tried = pass[d].tried
        /\ \A c \in Downloaders \ {d} : pass'[c] = pass[c]
        /\ Claimed(d) # {}
    BY <1>3 DEF Claim, MediaTypeOK
  <2>2. /\ pass[d].after \in Nat /\ pass[d].tried \subseteq Nat /\ Claimed(d) \subseteq Nat
        /\ CursorAfter(Claimed(d)) \in Nat
    BY <2>1, ClaimTyped, MediaConstants DEF MediaTypeOK, Passes, Media
  <2>3. \A m \in Claimed(d) : pass[d].after < m /\ m <= CursorAfter(Claimed(d))
    BY ClaimTyped DEF Claimed, PendingAfter
  <2>4. \A it \in pass'[d].items :
            it.key \in Claimed(d) /\ it = [key |-> it.key, failures |-> rows[it.key].failures]
    BY <2>1
  <2>5. \A m \in pass[d].tried : m <= pass[d].after
    BY DEF OrderInv
  <2>6. \A m \in pass[d].tried : m <= CursorAfter(Claimed(d))
    BY <2>1, <2>2, <2>3, <2>5
  <2>7. \A it \in pass'[d].items : it.key \notin pass[d].tried
    BY <2>2, <2>3, <2>4, <2>5
  <2> QED
    BY <2>1, <2>3, <2>4, <2>6, <2>7 DEF OrderInv
<1>4. ASSUME NEW d \in Downloaders, RunEnd(d) \/ DownloadCrash(d) PROVE OrderInv'
  <2>1. pass'[d] = NoPass /\ \A c \in Downloaders \ {d} : pass'[c] = pass[c]
    BY <1>4 DEF RunEnd, DownloadCrash, MediaTypeOK
  <2> QED
    BY <2>1 DEF OrderInv, NoPass
<1>5. ASSUME NEW d \in Downloaders, RunStart(d) PROVE OrderInv'
  BY <1>1, <1>5 DEF RunStart, MediaTypeOK, Passes
<1>6. ASSUME NEW d \in Downloaders, NEW w \in Pool, Assign(d, w) PROVE OrderInv'
  <2>1. PICK it \in pass[d].items :
            pass' = [pass EXCEPT ![d].items = @ \ {it}, ![d].tried = @ \cup {it.key}]
    BY <1>6 DEF Assign
  <2>2. /\ pass'[d].items = pass[d].items \ {it}
        /\ pass'[d].tried = pass[d].tried \cup {it.key}
        /\ pass'[d].after = pass[d].after
        /\ \A c \in Downloaders \ {d} : pass'[c] = pass[c]
    BY <2>1 DEF MediaTypeOK, Passes
  <2> QED
    BY <2>2 DEF OrderInv
<1>7. ASSUME NEW d \in Downloaders, NEW w \in Pool, Systemic(d, w) PROVE OrderInv'
  <2>1. pass' = [pass EXCEPT ![d].broken = TRUE]
    BY <1>7 DEF Systemic
  <2> QED
    BY <1>1, <2>1 DEF MediaTypeOK, Passes
<1>8. ASSUME NEW d \in Downloaders, NEW w \in Pool,
             StoreFile(d, w) \/ MarkDownloaded(d, w) \/ MarkFailed(d, w) \/ Abandon(d, w)
      PROVE  OrderInv'
  BY <1>1, <1>8 DEF StoreFile, MarkDownloaded, MarkFailed, Abandon
<1>9. CASE UNCHANGED mvars
  BY <1>1, <1>9 DEF mvars
<1> QED
  BY <1>2, <1>3, <1>4, <1>5, <1>6, <1>7, <1>8, <1>9 DEF MediaNext, Download, Work

\* A worker starts only on a row that the pass has claimed and not yet started on.
LEMMA StartsOnce ==
    ASSUME MediaTypeOK, OrderInv, [MediaNext]_mvars,
           NEW d \in Downloaders, NEW w \in Pool, Free(d, w), ~Free(d, w)'
    PROVE  job'[d][w].item.key \notin pass[d].tried
<1>1. ASSUME NEW c \in Downloaders, NEW v \in Pool, Assign(c, v)
      PROVE  job'[d][w].item.key \notin pass[d].tried
  <2>1. PICK it \in pass[c].items : job' = [job EXCEPT ![c][v] = [pc |-> "fetch", item |-> it]]
    BY <1>1 DEF Assign
  <2>2. c = d /\ v = w
    BY <2>1 DEF Free, MediaTypeOK
  <2>3. job'[d][w].item = it
    BY <2>1, <2>2 DEF MediaTypeOK
  <2> QED
    BY <2>1, <2>2, <2>3 DEF OrderInv
<1>2. ASSUME \A c \in Downloaders, v \in Pool : ~Assign(c, v)
      PROVE  FALSE
  <2>1. CASE UNCHANGED job
    BY <2>1 DEF Free
  <2>2. ASSUME NEW c \in Downloaders, NEW v \in Pool, Finish(c, v)
        PROVE  FALSE
    BY <2>2 DEF Finish, Free, NoJob, MediaTypeOK
  <2>3. ASSUME NEW c \in Downloaders, DownloadCrash(c)
        PROVE  FALSE
    BY <2>3 DEF DownloadCrash, Free, NoJob, MediaTypeOK
  <2>4. ASSUME NEW c \in Downloaders, NEW v \in Pool, StoreFile(c, v)
        PROVE  FALSE
    BY <2>4 DEF StoreFile, Free, MediaTypeOK, Jobs
  <2>5. CASE Requeue \/ \E e \in Feeders : Feed(e) \/ FeederFails(e)
    BY <2>1, <2>5 DEF Requeue, Feed, Upsert, DeleteCollect, DeleteRows, DeleteFile, DeleteDone,
                      FeederFails
  <2>6. ASSUME NEW c \in Downloaders, RunStart(c) \/ Claim(c) \/ RunEnd(c)
        PROVE  FALSE
    BY SMTT(40), <2>1, <2>6 DEF RunStart, Claim, RunEnd
  <2>7. ASSUME NEW c \in Downloaders, NEW v \in Pool,
               MarkDownloaded(c, v) \/ MarkFailed(c, v) \/ Abandon(c, v) \/ Systemic(c, v)
        PROVE  FALSE
    BY <2>2, <2>7 DEF MarkDownloaded, MarkFailed, Abandon, Systemic
  <2>8. CASE UNCHANGED mvars
    BY <2>1, <2>8 DEF mvars
  <2> QED
    BY <1>2, <2>3, <2>4, <2>5, <2>6, <2>7, <2>8 DEF MediaNext, Download, Work
<1> QED
  BY <1>1, <1>2

\* A pass starts on a row once, however the row gets back into the queue in the
\* meantime: by a failed attempt, `media retry`, or a new import of its listing
\* (Downloader.Run, PendingMedia in store/postgres/media.go).
THEOREM PassAttemptsOnce == MediaSpec => OncePerPass
<1>1. MediaInit => OrderInv
  BY DEF MediaInit, OrderInv, NoPass
<1>2. MediaTypeOK /\ OrderInv /\ [MediaNext]_mvars => OrderInv'
  BY OrderNext
<1>3. MediaTypeOK /\ OrderInv /\ [MediaNext]_mvars
      => [\A d \in Downloaders, w \in Pool :
             Free(d, w) /\ ~Free(d, w)' => job'[d][w].item.key \notin pass[d].tried]_mvars
  BY StartsOnce
<1> QED
  BY <1>1, <1>2, <1>3, MediaTypeCorrect, PTL DEF MediaSpec, OncePerPass

=============================================================================
