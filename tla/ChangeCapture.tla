--------------------------- MODULE ChangeCapture ---------------------------
(***************************************************************************)
(* The property rows and the append-only listing_event table, as the two    *)
(* transactions of internal/store/postgres/upsert.go write them: a page's   *)
(* upserts, whose events come from comparing the page with the rows that    *)
(* were there, and the hard delete of revoked listings.                     *)
(*                                                                          *)
(* A transaction reads what is committed; a row it has written is locked    *)
(* for the others until it ends; it ends by a commit, or by a rollback that *)
(* leaves nothing (an error, a cancelled context, a crash, the victim of a  *)
(* deadlock).                                                               *)
(***************************************************************************)
EXTENDS FieldMap, Sequences

CONSTANTS
    Listings,    \* listing keys
    Writers,     \* processes that write the store
    Versions,    \* the records a listing may have in the feed
    ScopesUsed,  \* the profile's field_scope is one of these
    MaxTime,     \* bound: the feed stops changing at this time
    MaxEvents    \* bound: no page is fetched once there are so many events

ASSUME CaptureConstants ==
    /\ \A r \in Versions : DOMAIN r \subseteq Fields
    /\ ScopesUsed \subseteq Scopes
    /\ MaxTime \in Nat
    /\ MaxEvents \in Nat

VARIABLES
    scope,   \* the field scope of the profile
    feed,    \* feed[k]: the current record of the listing and its timestamp
    now,     \* the feed's clock
    rows,    \* rows[k]: the property row with its child rows
    log,     \* listing_event, in the order of its ids
    writer   \* writer[w]: what the process is doing

captureVars == <<scope, feed, now, rows, log, writer>>

-----------------------------------------------------------------------------

\* Numbers of the model that stand for statuses.
Active == 1
BackOnMarketFrom == {2}

Empty == [f \in {} |-> JSONNull]

\* A listing the feed has not returned yet has timestamp 0.
FeedEntries == [ts : 0..MaxTime, rec : Versions \cup {Empty}]

NoRow == [ts |-> 0, cols |-> ExtractArgs(Empty), raw |-> {},
          kids |-> [c \in ExpandedChildren |-> {}]]

Stored(k) == rows[k].ts # 0

Idle == [pc |-> "idle", page |-> Empty, revoked |-> {}, prior |-> Empty,
         done |-> {}, events |-> <<>>]

Becomes(w, r) == writer' = [writer EXCEPT ![w] = r]

CaptureInit ==
    /\ scope \in ScopesUsed
    /\ feed = [k \in Listings |-> [ts |-> 0, rec |-> Empty]]
    /\ now = 0
    /\ rows = [k \in Listings |-> NoRow]
    /\ log = <<>>
    /\ writer = [w \in Writers |-> Idle]

\* A listing is entered, edited, revoked or licensed again.
Edit(k) ==
    /\ now < MaxTime
    /\ now' = now + 1
    /\ \E v \in Versions : feed' = [feed EXCEPT ![k] = [ts |-> now + 1, rec |-> v]]
    /\ UNCHANGED <<scope, rows, log, writer>>

-----------------------------------------------------------------------------
(* A page.                                                                  *)

\* What the page holds of a listing: the response to a query under the scope.
Delivered(k) == [ts |-> feed[k].ts, rec |-> Response(scope, feed[k].rec)]

\* resourceOps.split: revoked keys apart.
Viewable(page) == {k \in DOMAIN page : CanView(page[k].rec)}

\* UpsertProperties skips a record without what the NOT NULL columns need.
Items(page) == {k \in Viewable(page) : String(page[k].rec, "ListingId") # NULL}

Fetch(w) ==
    /\ writer[w].pc = "idle"
    /\ Len(log) < MaxEvents
    /\ \E S \in SUBSET {k \in Listings : feed[k].ts # 0} :
         LET page == [k \in S |-> Delivered(k)] IN
         /\ S # {}
         /\ Becomes(w, [Idle EXCEPT !.pc = IF Items(page) # {} THEN "begin" ELSE "delete",
                                    !.page = page,
                                    !.revoked = S \ Viewable(page)])
    /\ UNCHANGED <<scope, feed, now, rows, log>>

\* A reconcile purges listings the feed no longer licenses.
Purge(w) ==
    /\ writer[w].pc = "idle"
    /\ \E S \in SUBSET {k \in Listings : Stored(k) /\ ~CanView(feed[k].rec)} :
         /\ S # {}
         /\ Becomes(w, [Idle EXCEPT !.pc = "delete", !.revoked = S])
    /\ UNCHANGED <<scope, feed, now, rows, log>>

-----------------------------------------------------------------------------
(* UpsertProperties.                                                        *)

Event(k, type, old, new, ts) ==
    [key |-> k, type |-> type, old |-> old, new |-> new, ts |-> ts]

\* Mutant: an absent price is rendered as 0.
FeedPriceOrZero(rec) == IF Float(rec, "ListPrice") = NULL THEN {0} ELSE Float(rec, "ListPrice")

\* feedPrice and feedStatus read the feed's name only, whatever the aliases.
FeedPrice(rec) == Float(rec, "ListPrice")

FeedStatus(rec) == String(rec, "StandardStatus")

\* Mutant: a type the table's CHECK constraint does not know.
StatusTypeOff(old, new) ==
    IF new \cap BackOnMarketFrom # {} THEN "off_market" ELSE "status_change"

StatusType(old, new) ==
    IF old \cap BackOnMarketFrom # {} /\ new = {Active} THEN "back_on_market"
    ELSE "status_change"

\* Mutant: a price without a predecessor is not a change.
ClassifyKnown(k, prior, item) ==
    LET price == FeedPrice(item.rec)
        old == prior[k].cols["ListPrice"]
    IN  IF k \notin DOMAIN prior THEN <<Event(k, "new_listing", NULL, price, item.ts)>>
        ELSE IF price # NULL /\ old # NULL /\ old # price
             THEN <<Event(k, "price_change", old, price, item.ts)>>
             ELSE <<>>

\* classifyEvents: the events of one item, given the rows that were there.
ClassifyEvents(k, prior, item) ==
    LET price == FeedPrice(item.rec)
        status == FeedStatus(item.rec)
        old == prior[k].cols
    IN  IF k \notin DOMAIN prior THEN <<Event(k, "new_listing", NULL, price, item.ts)>>
        ELSE (IF price # NULL /\ old["ListPrice"] # price
              THEN <<Event(k, "price_change", old["ListPrice"], price, item.ts)>>
              ELSE <<>>)
             \o (IF status # NULL /\ old["StandardStatus"] # status
                 THEN <<Event(k, StatusType(old["StandardStatus"], status),
                              old["StandardStatus"], status, item.ts)>>
                 ELSE <<>>)

\* Mutant: the children that are new are added, none is removed.
AddedOnly(old, incoming) == old \cup (incoming \ {0})

\* Mutant: an absent or empty expansion deletes, too.
ReplacedAlways(old, incoming) == incoming \ {0}

\* Children are replaced by a non-empty expansion (an item without a key, 0
\* here, is left out, but counts); an absent or empty one leaves them alone.
Replaced(old, incoming) == IF incoming = {} THEN old ELSE incoming \ {0}

\* The row after the upsert of an item over what is committed.
UpsertedRow(k, item) ==
    [ts |-> item.ts,
     cols |-> ExtractArgs(item.rec),
     raw |-> FilterRaw(scope, item.rec),
     kids |-> [c \in ExpandedChildren |->
                 Replaced(rows[k].kids[c], Children(item.rec, c))]]

\* loadPrior: the rows as committed now.
Begin(w) ==
    /\ writer[w].pc = "begin"
    /\ LET there == {k \in Items(writer[w].page) : Stored(k)} IN
       Becomes(w, [writer[w] EXCEPT !.pc = "batch", !.prior = [k \in there |-> rows[k]]])
    /\ UNCHANGED <<scope, feed, now, rows, log>>

Locked(w, k) == \E v \in Writers \ {w} : k \in writer[v].done

Pending(w) == Items(writer[w].page) \ writer[w].done

\* The statements of one item.
Execute(w) ==
    /\ writer[w].pc = "batch"
    /\ \E k \in Pending(w) :
         /\ ~Locked(w, k)
         /\ Becomes(w, [writer[w] EXCEPT
                          !.done = @ \cup {k},
                          !.events = @ \o ClassifyEvents(k, writer[w].prior, writer[w].page[k])])
    /\ UNCHANGED <<scope, feed, now, rows, log>>

Commit(w) ==
    /\ writer[w].pc = "batch"
    /\ Pending(w) = {}
    /\ rows' = [k \in Listings |-> IF k \in writer[w].done THEN UpsertedRow(k, writer[w].page[k])
                                   ELSE rows[k]]
    /\ log' = log \o writer[w].events
    /\ Becomes(w, IF writer[w].revoked = {} THEN Idle
                  ELSE [Idle EXCEPT !.pc = "delete", !.revoked = writer[w].revoked])
    /\ UNCHANGED <<scope, feed, now>>

-----------------------------------------------------------------------------
(* DeleteProperties: one statement deletes the rows, their children with    *)
(* them, and logs the ones that were there.                                 *)

\* Mutant: an event for every key of the call.
DelistedAll(keys) ==
    SetToSeq({Event(k, "delisted", rows[k].cols["StandardStatus"], NULL, 0) : k \in keys})

Delisted(keys) ==
    SetToSeq({Event(k, "delisted", rows[k].cols["StandardStatus"], NULL, 0) :
                k \in {l \in keys : Stored(l)}})

Delete(w) ==
    /\ writer[w].pc = "delete"
    /\ \A k \in writer[w].revoked : ~Locked(w, k)
    /\ rows' = [k \in Listings |-> IF k \in writer[w].revoked THEN NoRow ELSE rows[k]]
    /\ log' = log \o Delisted(writer[w].revoked)
    /\ Becomes(w, Idle)
    /\ UNCHANGED <<scope, feed, now>>

\* The transaction is rolled back, and the run ends.
Rollback(w) ==
    /\ writer[w].pc # "idle"
    /\ Becomes(w, Idle)
    /\ UNCHANGED <<scope, feed, now, rows, log>>

CaptureNext ==
    \/ \E k \in Listings : Edit(k)
    \/ \E w \in Writers : \/ Fetch(w) \/ Purge(w)
                          \/ Begin(w) \/ Execute(w) \/ Commit(w)
                          \/ Delete(w) \/ Rollback(w)

CaptureSpec == CaptureInit /\ [][CaptureNext]_captureVars

-----------------------------------------------------------------------------

\* The type invariant.
CaptureTypeOK ==
    /\ scope \in ScopesUsed
    /\ feed \in [Listings -> FeedEntries]
    /\ now \in 0..MaxTime
    /\ \A k \in Listings :
         /\ rows[k].ts \in 0..MaxTime
         /\ DOMAIN rows[k].cols = CoreColumns
         /\ rows[k].raw \subseteq Fields
         /\ DOMAIN rows[k].kids = ExpandedChildren
    /\ \A i \in DOMAIN log :
         /\ log[i].key \in Listings
         /\ log[i].type \in {"new_listing", "price_change", "status_change",
                             "back_on_market", "delisted"}
    /\ \A w \in Writers : writer[w].pc \in {"idle", "begin", "batch", "delete"}

\* Where the listing's events of some types are in the log.
EventsOf(k, types) == {i \in DOMAIN log : log[i].key = k /\ log[i].type \in types}

Entries(k) == EventsOf(k, {"new_listing", "delisted"})

\* The events of its present life.
PresentLife(k, types) ==
    {i \in EventsOf(k, types) : \A j \in Entries(k) : j <= i}

\* The events alone give the store back: a listing is stored exactly when its
\* last entry or exit was an entry, and a price or status it holds is the one
\* the last event about it gave it.
LogReplays ==
    \A k \in Listings :
        /\ Stored(k) <=> Entries(k) # {} /\ log[Max(Entries(k))].type = "new_listing"
        /\ LET prices == PresentLife(k, {"new_listing", "price_change"}) IN
           Stored(k) /\ rows[k].cols["ListPrice"] # NULL
             => rows[k].cols["ListPrice"] = log[Max(prices)].new
        /\ LET statuses == PresentLife(k, {"status_change", "back_on_market"}) IN
           Stored(k) /\ rows[k].cols["StandardStatus"] # NULL /\ statuses # {}
             => rows[k].cols["StandardStatus"] = log[Max(statuses)].new

\* Consecutive events about one value of a listing are linked: the later one
\* starts from what the earlier one left (or from NULL, when the feed left the
\* field out in between).  An entry begins, and an exit ends, a life.
Linked(i, j) == log[j].old = log[i].new \/ log[j].old = NULL

Consecutive(k, types) ==
    {p \in EventsOf(k, types) \X EventsOf(k, types) :
       p[1] < p[2] /\ \A l \in EventsOf(k, types) : l <= p[1] \/ l >= p[2]}

HistoryLinked ==
    \A k \in Listings :
        /\ \A p \in Consecutive(k, {"new_listing", "price_change", "delisted"}) :
             LET old == log[p[1]]
                 new == log[p[2]]
             IN  /\ new.type = "price_change" => old.type # "delisted" /\ Linked(p[1], p[2])
                 /\ new.type = "new_listing" <=> old.type = "delisted"
        /\ \A p \in Consecutive(k, {"new_listing", "status_change", "back_on_market"}) :
             "new_listing" \notin {log[p[1]].type, log[p[2]].type} => Linked(p[1], p[2])

\* A record whose price is null.
NullPriced(rec) == "ListPrice" \in DOMAIN rec /\ rec["ListPrice"].t = "null"

\* "upserts are idempotent, so re-processing boundary records is harmless"
\* (schema-contract.md), but for one thing: a page of records that are stored
\* in just these versions adds no event, unless a record has a null price.  That
\* is compared as 0 with a column that holds NULL, and a price change is logged
\* every time.
ReplaySilent ==
    [][\A w \in Writers :
          Commit(w) /\ (\A k \in writer[w].done : rows[k].ts = writer[w].page[k].ts)
              => \A i \in (DOMAIN log') \ DOMAIN log :
                    /\ log'[i].type = "price_change"
                    /\ NullPriced(writer[w].page[log'[i].key].rec)]_captureVars

\* The same without the exception.
ReplayHarmless ==
    [][\A w \in Writers :
          Commit(w) /\ (\A k \in writer[w].done : rows[k].ts = writer[w].page[k].ts)
              => log' = log]_captureVars

\* "Core columns (always populated when the feed provides them, regardless of
\* field-scope preset)": a row in the current version of its listing holds
\* what the whole record gives, whatever the scope made of the request, and
\* no revoked version is ever stored.
ColumnsComplete ==
    \A k \in Listings :
        Stored(k) /\ rows[k].ts = feed[k].ts
        => /\ CanView(feed[k].rec)
           /\ rows[k].cols = ExtractArgs(feed[k].rec)
           /\ scope = "full" => rows[k].raw = DOMAIN feed[k].rec

\* A row in the current version of its listing has the children the record
\* lists, when it lists any and the scope asks for them.
ChildrenCurrent ==
    \A k \in Listings, c \in ExpandedChildren :
        LET incoming == Children(feed[k].rec, c) IN
        Stored(k) /\ rows[k].ts = feed[k].ts /\ incoming # {}
            /\ (c = "Media" \/ scope # "minimal")
        => rows[k].kids[c] = incoming \ {0}

\* A row that stays keeps its children through a record that does not list them:
\* the expansion was not asked for, or is empty ("an absent expansion means 'not
\* requested', never 'delete'", upsert.go).
ChildrenSurvive ==
    [][\A w \in Writers, k \in Listings, c \in ExpandedChildren :
          /\ Commit(w)
          /\ k \in writer[w].done => Children(writer[w].page[k].rec, c) = {}
          => rows'[k].kids[c] = rows[k].kids[c]]_captureVars

\* The version of a row moves forward as long as the row is there.
VersionsAdvance ==
    [][\A k \in Listings : Stored(k) /\ rows'[k].ts # 0 => rows'[k].ts >= rows[k].ts]_captureVars

=============================================================================
