--------------------------- MODULE MCNativeStorage ---------------------------
(***************************************************************************)
(* A query of one document, a query of all, an insertion and a deletion, of *)
(* two profiles that differ in a set and in an absent variable.            *)
(***************************************************************************)
EXTENDS NativeStorage, TLC

CONSTANTS scopedQuery, openQuery, insert, delete, host, workspace, x, y, d1, d2

MCQueries == {scopedQuery, openQuery}
MCInserts == {insert}
MCDeletes == {delete}
MCKeys == {host, workspace}
MCValues == {x, y}
MCDocs == {d1, d2}

ProfileX == host :> x @@ workspace :> x
ProfileY == host :> Unset @@ workspace :> y

MCSettings == scopedQuery :> ProfileX @@ openQuery :> ProfileY
              @@ insert :> ProfileY @@ delete :> ProfileX
MCSelected == scopedQuery :> {d1} @@ openQuery :> {}
=============================================================================
