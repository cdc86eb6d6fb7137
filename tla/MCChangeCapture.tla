-------------------------- MODULE MCChangeCapture --------------------------
(* Small instances of ChangeCapture for the model checker.                  *)
EXTENDS ChangeCapture, TLC

Num(n) == JSON("number", {n})
Text(n) == JSON("text", {n})
Flag(b) == JSON("bool", {b})
List(S) == JSON("list", S)

Id == "ListingId" :> Text(9)

\* Priced, on the market, with children.
Listed == Id @@ [MlgCanView |-> Flag(1), ListPrice |-> Num(3), StandardStatus |-> Text(1),
                 Media |-> List({1, 2}), Rooms |-> List({1})]

\* Off the market at another price; the renamed field in its old spelling; one
\* image replaced, another without a key; no rooms.
Revised == Id @@ [MlgCanView |-> Flag(1), ListPrice |-> Num(4), StandardStatus |-> Text(2),
                  MRD_RENTAL_PROPERTY_TYPE |-> Flag(1), Media |-> List({0, 2})]

\* The same price, the status left out, both spellings, an empty expansion.
Sparse == Id @@ [ListPrice |-> Num(4), PropertyAttachedYN |-> JSONNull,
                 MRD_RENTAL_PROPERTY_TYPE |-> Flag(0), Media |-> List({})]

\* No price, and a status that is no string.
Unpriced == Id @@ [StandardStatus |-> Num(2), Rooms |-> List({2})]

Revoked == Id @@ [MlgCanView |-> Flag(0), StandardStatus |-> Text(2)]

\* A record UpsertProperties skips.
Nameless == [ListPrice |-> Num(3), StandardStatus |-> Text(1)]

\* The price is null.
NullPrice == Id @@ [ListPrice |-> JSONNull, StandardStatus |-> Text(1)]

CaptureVersions == {Listed, Revised, Sparse, Unpriced, Revoked, Nameless, NullPrice}

NullVersions == {Listed, NullPrice}

=============================================================================
