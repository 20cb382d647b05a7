------------------------------ MODULE MCIngest ------------------------------
(***************************************************************************)
(* Small instances of Ingest for TLC: the cards, files and paths of each   *)
(* run, as the constants the .cfg files name.                              *)
(***************************************************************************)
EXTENDS Ingest, TLC

CONSTANTS s1, s2, c1, c2, f1, f2, f3, f4, k1, k2, h1, h2, p1, p2, p3

MCHash == k1 :> h1 @@ k2 :> h2

\* Two slots reading two cards at once, one file each.  The files hold the
\* same bytes and may be placed at the same path; k2 is what a corrupted copy
\* leaves.
RaceCardOf == f1 :> c1 @@ f2 :> c2
RaceContent == f1 :> k1 @@ f2 :> k1
RaceDestPaths == f1 :> {p1} @@ f2 :> {p1, p2}

\* One slot, two cards, the second one after the first: c1 holds two different
\* files, c2 a duplicate of f1 and a file the rules skip.
CardCardOf == f1 :> c1 @@ f2 :> c1 @@ f3 :> c2 @@ f4 :> c2
CardContent == f1 :> k1 @@ f2 :> k2 @@ f3 :> k1 @@ f4 :> k2
CardDestPaths == f1 :> {p1} @@ f2 :> {p2} @@ f3 :> {p1, p3} @@ f4 :> {p2}

\* One card with two different files of the same name and date: the same
\* final path.
ClashCardOf == f1 :> c1 @@ f2 :> c1
ClashContent == f1 :> k1 @@ f2 :> k2
ClashDestPaths == f1 :> {p1} @@ f2 :> {p1}

=============================================================================
