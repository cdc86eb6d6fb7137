-------------------------------- MODULE Feed --------------------------------
(***************************************************************************)
(* The MLS Grid OData feed, as the replication engine sees it.  The service *)
(* is not part of the repository: this module models what the code in       *)
(* internal/mlsgrid and internal/engine asks of it and relies on.           *)
(*                                                                          *)
(*  - Every record carries a ModificationTimestamp and the MlgCanView flag. *)
(*  - A query filters on the timestamp (ge), on MlgCanView and on a key set *)
(*    (mlsgrid.Query); the matching records come ordered by timestamp, a    *)
(*    page at a time, each page with the link of the next one.              *)
(*  - A change is stamped with a timestamp later than every timestamp       *)
(*    already visible; several records may change under one timestamp.      *)
(*                                                                          *)
(* Timestamps are natural numbers and 0 stands for NULL (no timestamp).     *)
(***************************************************************************)
EXTENDS Naturals, FiniteSets

CONSTANTS
    NumKeys,     \* the records of the resource have the keys 1..NumKeys
    InitTime,    \* the feed has already reached this time when we first look
    MaxTime,     \* bound: the feed stops changing at this time
    MaxBatch,    \* bound: how many records one feed change touches
    PageSize,    \* $top
    Slips        \* TRUE: a MlgCanView filter may let a revoked record through

ASSUME FeedConstants ==
    /\ NumKeys \in Nat \ {0}
    /\ InitTime \in Nat \ {0}
    /\ MaxTime \in Nat
    /\ InitTime <= MaxTime
    /\ MaxBatch \in Nat \ {0}
    /\ PageSize \in Nat \ {0}
    /\ Slips \in BOOLEAN

VARIABLES
    feed,   \* feed[k]: the record k as the service would return it now
    now     \* the clock; the latest timestamp the service has handed out

-----------------------------------------------------------------------------

Keys == 1..NumKeys
Times == 0..MaxTime

FeedRecord == [ts : Times, view : BOOLEAN, listed : BOOLEAN]

\* A record the service does not return: never created, or gone for good.
Unlisted == [ts |-> 0, view |-> FALSE, listed |-> FALSE]

\* Licensed to be held locally: MlgCanView is true and the feed returns it.
Viewable(k) == feed[k].listed /\ feed[k].view

-----------------------------------------------------------------------------
(* Queries.  A URL is the query it denotes plus the place a next link       *)
(* continues from: how many of the matching records to leave out ($skip).   *)

Precedes(p, q) == p.ts < q.ts \/ (p.ts = q.ts /\ p.key < q.key)

At(k) == [ts |-> feed[k].ts, key |-> k]

URLs == [ge : Times, view : BOOLEAN, keys : SUBSET Keys, skip : Nat]

\* The empty string, where the code keeps a URL: no link, nothing in progress.
NoURL == [ge |-> 0, view |-> FALSE, keys |-> {}, skip |-> 0]

\* Query.URL: ge = 0 leaves the timestamp unbounded, view asks for
\* MlgCanView eq true, keys = Keys puts no bound on the key.
Query(ge, view, keys) == [ge |-> ge, view |-> view, keys |-> keys, skip |-> 0]

\* The revoked records a MlgCanView filter may still take for viewable when
\* the query is evaluated ("a revocation mid-pagination can slip through").
Lags == IF Slips THEN SUBSET {k \in Keys : feed[k].listed /\ ~feed[k].view} ELSE {{}}

Matching(url, lag) ==
    {k \in url.keys : /\ feed[k].listed
                      /\ url.view => feed[k].view \/ k \in lag
                      /\ feed[k].ts >= url.ge}

\* How many matching records come before k.
Rank(url, lag, k) == Cardinality({j \in Matching(url, lag) : Precedes(At(j), At(k))})

PageKeys(url, lag) ==
    {k \in Matching(url, lag) : Rank(url, lag, k) \in url.skip .. (url.skip + PageSize - 1)}

HasMore(url, lag) == \E k \in Matching(url, lag) : Rank(url, lag, k) >= url.skip + PageSize

\* The records of the response, as they are now.
PageOf(url, lag) == [k \in PageKeys(url, lag) |-> feed[k]]

Pages == UNION {[S -> FeedRecord] : S \in SUBSET Keys}

EmptyPage == [k \in {} |-> Unlisted]

\* The link the service puts on the response: an offset into a result that is
\* computed again when the link is followed.
NextLink(url, lag) ==
    IF HasMore(url, lag) THEN [url EXCEPT !.skip = @ + PageSize] ELSE NoURL

-----------------------------------------------------------------------------

FeedInit ==
    /\ now = InitTime
    /\ feed \in [Keys -> {Unlisted} \cup
                         [ts : 1..InitTime, view : {TRUE}, listed : {TRUE}]]

\* Records are created, edited or licensed again, under one timestamp.
Modify(S) ==
    /\ now < MaxTime
    /\ now' = now + 1
    /\ feed' = [k \in Keys |->
                  IF k \in S THEN [ts |-> now + 1, view |-> TRUE, listed |-> TRUE]
                  ELSE feed[k]]

\* MlgCanView turns false, which counts as a modification.
Revoke(S) ==
    /\ now < MaxTime
    /\ \A k \in S : Viewable(k)
    /\ now' = now + 1
    /\ feed' = [k \in Keys |->
                  IF k \in S THEN [ts |-> now + 1, view |-> FALSE, listed |-> TRUE]
                  ELSE feed[k]]

\* The feed stops returning a record whose license was revoked.
Expire(k) ==
    /\ feed[k].listed
    /\ ~feed[k].view
    /\ feed' = [feed EXCEPT ![k].listed = FALSE]
    /\ UNCHANGED now

Batches == {S \in SUBSET Keys : S # {} /\ Cardinality(S) <= MaxBatch}

FeedNext ==
    \/ \E S \in Batches : Modify(S) \/ Revoke(S)
    \/ \E k \in Keys : Expire(k)

=============================================================================
