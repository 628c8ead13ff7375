------------------------------- MODULE MCAssets -------------------------------
(***************************************************************************)
(* The delivery of assets, for TLC: the requests of the client, the worker *)
(* of the client that loads faces, and the streams of the server.  A       *)
(* behaviour runs one of them, chosen at the start, and the others stay as *)
(* they were.  Faces are interchangeable, and so are loads.                *)
(***************************************************************************)
EXTENDS AssetRequests, FaceLoader, AssetService

VARIABLE part   \* "faces", "mixed", "loader" or "service"

MCInit == part \in {"faces", "mixed", "loader", "service"} /\ Init /\ LoaderInit /\ ServiceInit

\* The faces that are or will be requested.
Wanted == {p \in Faces : Exists(p) \/ main.path = p}

\* Requests of faces alone, and of generic assets and at most two faces.
MCNext ==
    /\ UNCHANGED part
    /\ \/ part = "faces" /\ Next /\ main'.path \notin Generics
       \/ part = "mixed" /\ Next /\ Cardinality(Wanted') <= 2
       \/ part \in {"loader", "service"} /\ UNCHANGED vars
    /\ IF part = "loader" THEN LoaderNext ELSE UNCHANGED loader_vars
    /\ IF part = "service" THEN ServiceNext ELSE UNCHANGED service_vars

MCSpec == MCInit /\ [][MCNext]_<<vars, loader_vars, service_vars, part>>

\* Generic assets may have two users, faces one.
GenericsShared(p) == IF p \in Generics THEN 2 ELSE 1

Interchangeable == Permutations(Faces \cup Tokens)

=============================================================================
