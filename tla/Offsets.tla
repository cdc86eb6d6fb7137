------------------------------ MODULE Offsets ------------------------------
(***************************************************************************)
(* What the offsets of the next links cost.  A link names a place in the    *)
(* result of a query, and the result is computed again when the link is     *)
(* followed: a record that is changed moves to the end, one that is revoked *)
(* or expires leaves it, and those behind it move up, past the offset,      *)
(* unread.  The history variable slid holds the records this happened to;   *)
(* the properties say that nothing else is lost, by any interleaving of     *)
(* pages, checkpoints, failures and changes of the feed.                    *)
(***************************************************************************)
EXTENDS Replication

VARIABLE
    slid    \* the records, in their present version, that lie before the
            \* offset of a link without having been read

offsetVars == <<vars, slid>>

-----------------------------------------------------------------------------

\* The link will still deliver k, if the feed stays as it is.
Ahead(url, k) == k \in Matching(url, {}) /\ Rank(url, {}, k) >= url.skip

\* The link that an import, a sync or a sweep goes on from.
LinkOf(r) ==
    IF r.op \in {"backfill", "sync"}
    THEN IF r.pc \in {"upsert", "delete", "persist"} THEN r.next ELSE r.url
    ELSE IF r.pc = "sweep" THEN r.url
    ELSE NoURL

LinksInUse == {LinkOf(run[p]) : p \in Procs} \cup {syncState.inProgress}

\* The feed changes: k moves up past the offset of a link, or is changed itself
\* and comes to lie before it, as the result has become shorter.
SlidByFeed ==
    {k \in Keys : \E url \in LinksInUse :
        /\ k \in Matching(url, {})'
        /\ ~Ahead(url, k)'
        /\ feed'[k] = feed[k] => Ahead(url, k)}

\* Run p has got the page it asked for.
Answered(p) ==
    \/ /\ run[p].op \in {"backfill", "sync"}
       /\ run[p].pc = "fetch"
       /\ run'[p].pc = "upsert"
    \/ run[p].pc = "sweep" /\ run'[p].pc \in {"sweep", "diff"}

\* The keys that the answers have brought so far.
Held(r) == IF r.op = "reconcile" THEN DOMAIN r.remote ELSE DOMAIN r.page

\* A page comes with a revoked record that slipped through the filter, and k
\* has lost its place on the page to it.
Displaced(p) == {k \in PageKeys(run[p].url, {}) : Answered(p) /\ k \notin Held(run'[p])}

\* Stored as the feed has it, or not at all if that is right.
Settled(k) == rows[k] = IF Viewable(k) THEN feed[k].ts ELSE 0

OffsetInit == Init /\ slid = {}

\* A change of the record ends the matter, and so does a run that ends with the
\* record right in the store.
OffsetNext ==
    \/ /\ FeedNext /\ UNCHANGED <<rows, syncState, run, faults>>
       /\ slid' = {k \in slid : feed'[k] = feed[k]} \cup SlidByFeed
    \/ \E p \in Procs :
         /\ BackfillNext(p) \/ SyncNext(p) \/ ReconcileNext(p) \/ Abort(p)
         /\ slid' = {k \in slid \cup Displaced(p) : ~(AllIdle /\ Settled(k))'}

OffsetSpec == OffsetInit /\ [][OffsetNext]_offsetVars

OffsetFairSpec == OffsetSpec /\ Fairness

-----------------------------------------------------------------------------

\* A record the feed licenses, in the scope of the import and older than the
\* watermark, is stored in its current version, unless it slid past an offset.
NoGap ==
    \A k \in Keys :
        /\ Viewable(k)
        /\ feed[k].ts >= Since
        /\ feed[k].ts < syncState.wm
        /\ k \notin slid
        => rows[k] = feed[k].ts

\* A record revoked after the import completed is gone from the store by the
\* time the watermark has passed its revocation, unless it slid past an offset.
RevokedGone ==
    \A k \in Keys :
        /\ feed[k].listed
        /\ ~feed[k].view
        /\ syncState.completedAt # 0
        /\ feed[k].ts > syncState.completedAt
        /\ feed[k].ts < syncState.wm
        /\ k \notin slid
        => rows[k] = 0

\* A resume cursor loses nothing but what slid past its offset: the rest of what
\* is not stored yet will be delivered from there.
ResumeLosesNothing ==
    Resuming =>
        \A k \in Keys :
            Viewable(k) /\ feed[k].ts >= Since /\ k \notin slid =>
                rows[k] = feed[k].ts \/ Ahead(syncState.inProgress, k)

\* A purge deletes the current version of a licensed record only if the record
\* slid past an offset of the sweep.
PurgesOnlyWithdrawn ==
    [][\A p \in Procs, k \in Keys :
          Running(p, "reconcile", "purge") /\ ReconcilePurge(p) /\ rows[k] # 0 /\ rows'[k] = 0
              => ~(Viewable(k) /\ rows[k] = feed[k].ts) \/ k \in slid]_offsetVars

\* Once the feed rests, the store becomes, and stays, the licensed feed, but for
\* records that slid past an offset and are not stored: they stay away until a
\* reconcile is told to include what is missing.
Converges ==
    <>[](\A k \in Keys : Settled(k) \/ (~IncludeMissing /\ rows[k] = 0 /\ k \in slid))

=============================================================================
