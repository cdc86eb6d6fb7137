------------------------------ MODULE FieldMap ------------------------------
(***************************************************************************)
(* From a feed record to a property row: the accessors of mlsgrid.Record,   *)
(* the alias map and the field scope (internal/fieldscope), the field map   *)
(* of internal/store/postgres/fieldmap.go.                                  *)
(*                                                                          *)
(* A record is a function from the names of the fields it carries to JSON   *)
(* values.  A value is its type and the set of the scalars it holds: none   *)
(* for null and for the empty string, one for any other scalar, the members *)
(* for a list.  Scalars are numbers; false is 0 and true is 1.              *)
(*                                                                          *)
(* A Go pointer, an (x, ok) pair or a column that may be NULL is a set of   *)
(* at most one scalar: {} is nil, not ok, NULL.                             *)
(***************************************************************************)
EXTENDS Naturals, FiniteSetsExt, SequencesExt

JSON(type, scalars) == [t |-> type, v |-> scalars]

JSONNull == JSON("null", {})

NULL == {}

\* The fields of the model: two that change capture compares, one that was
\* renamed (with its old name), the expanded children, and what decides
\* whether a record is stored at all.
Fields == {"ListingId", "MlgCanView", "ListPrice", "StandardStatus",
           "PropertyAttachedYN", "MRD_RENTAL_PROPERTY_TYPE", "Media", "Rooms"}

-----------------------------------------------------------------------------
(* mlsgrid.Record: what the accessors make of a field.                      *)

\* Present and not null.
Has(rec, f) == f \in DOMAIN rec /\ rec[f].t # "null"

\* Unmarshalling null into a Go value leaves its zero and is no error.
Scalar(rec, f, type) ==
    IF f \notin DOMAIN rec THEN NULL
    ELSE IF rec[f].t = "null" THEN {0}
    ELSE IF rec[f].t = type THEN rec[f].v
    ELSE NULL

Float(rec, f) == Scalar(rec, f, "number")

Bool(rec, f) == Scalar(rec, f, "bool")

\* NULL is the empty string here: absent, null, no string, or empty.
String(rec, f) == IF Has(rec, f) /\ rec[f].t = "text" THEN rec[f].v ELSE NULL

Children(rec, f) == IF Has(rec, f) /\ rec[f].t = "list" THEN rec[f].v ELSE {}

\* A missing field counts as viewable.
CanView(rec) == Bool(rec, "MlgCanView") # {0}

-----------------------------------------------------------------------------
(* Aliases: the canonical name first, then the legacy spellings.            *)

\* builtin:mred, as far as the fields of the model go.
Aliases == [f \in {"PropertyAttachedYN"} |-> <<"MRD_RENTAL_PROPERTY_TYPE">>]

Candidates(f) == <<f>> \o (IF f \in DOMAIN Aliases THEN Aliases[f] ELSE <<>>)

\* The field map: the core columns and how each is parsed.
CoreColumns == {"ListingId", "ListPrice", "StandardStatus", "PropertyAttachedYN"}

Parsed(rec, f, column) ==
    IF column = "ListPrice" THEN Float(rec, f)
    ELSE IF column = "PropertyAttachedYN" THEN Bool(rec, f)
    ELSE String(rec, f)

\* The first candidate that is there and parses.
ExtractValue(rec, column) ==
    LET cands == Candidates(column)
        good == {i \in DOMAIN cands : /\ Has(rec, cands[i])
                                      /\ Parsed(rec, cands[i], column) # NULL}
    IN  IF good = {} THEN NULL ELSE Parsed(rec, cands[Min(good)], column)

ExtractArgs(rec) == [c \in CoreColumns |-> ExtractValue(rec, c)]

-----------------------------------------------------------------------------
(* Field scopes: minimal keeps no raw record and asks for the core fields   *)
(* alone, full keeps everything, the others keep what their globs match.    *)

Scopes == {"minimal", "standard", "analytics", "full"}

\* The fields of the model the globs of the two lists match.
Include(scope) ==
    IF scope = "analytics" THEN {"ListPrice", "Rooms", "MRD_RENTAL_PROPERTY_TYPE"}
    ELSE {"ListPrice", "Rooms"}

Expands(scope) == IF scope = "minimal" THEN {"Media"} ELSE {"Media", "Rooms"}

NarrowSelect(scope) == scope = "minimal"

ExpandedChildren == {"Media", "Rooms"}

\* The field names FilterRaw leaves in the raw column; none of them is NULL.
FilterRaw(scope, rec) ==
    IF scope = "full" THEN DOMAIN rec
    ELSE IF scope = "minimal" THEN {}
    ELSE (DOMAIN rec \cap Include(scope)) \ ExpandedChildren

\* Mutant: MlgCanView has no column, so it is not selected.
CoreFieldsOfColumns(scope) ==
    (UNION {ToSet(Candidates(c)) : c \in CoreColumns}) \cup {"ListingKey"}

\* The $select list of a narrowed request.
CorePropertyFields(scope) ==
    (UNION {ToSet(Candidates(c)) : c \in CoreColumns}) \cup {"ListingKey", "MlgCanView"}

\* The response to a request under a scope: $select and $expand applied.
Response(scope, rec) ==
    LET selected == IF NarrowSelect(scope) THEN CorePropertyFields(scope)
                    ELSE Fields \ ExpandedChildren
    IN  Restrict(rec, (selected \cup Expands(scope)) \cap DOMAIN rec)

=============================================================================
