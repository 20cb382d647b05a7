---------------------------- MODULE MCPlacement -----------------------------
(***************************************************************************)
(* An instance of Placement for TLC: every list of up to three entries     *)
(* from a stock that has each kind of criterion, conflicting actions,      *)
(* defaults and an action that does not exist; and for the videos among    *)
(* the files, which need the dates, the empty list.                        *)
(***************************************************************************)
EXTENDS Placement

CONSTANTS jpg, thm, mov, media, thumbs, photos, other

Rule(exts, glob, max, min, action) ==
    [default |-> "", exts |-> exts, glob |-> glob, max |-> max, min |-> min,
     action |-> action]

Default(action) ==
    [default |-> action, exts |-> {}, glob |-> Any, max |-> Any, min |-> Any,
     action |-> ""]

Stock ==
    { Rule({thm}, {thumbs}, Any, Any, "skip"),
      Rule({jpg}, Any, Any, Any, "keep"),
      Rule({}, Any, 1, Any, "skip"),
      Rule({}, {media}, Any, 1, "keep"),
      Rule({}, Any, Any, Any, "rename"),
      Default("keep"), Default("skip"), Default("delete") }

MCPolicies == UNION {[1 .. n -> Stock] : n \in 0 .. 3}

\* One category for photos, and a catch-all that may list photos as well.
MCCategoryMaps ==
    { [c \in Categories |-> IF c = photos THEN {jpg} ELSE {Any}],
      [c \in Categories |-> IF c = photos THEN {jpg} ELSE {jpg, Any}],
      [c \in Categories |-> IF c = photos THEN {jpg} ELSE {}] }

MCKind == [e \in Exts |-> CASE e = jpg -> "still" [] e = mov -> "video"
                            [] OTHER -> "other"]

MCExtended == {-Half, -16, -8, -1, 0, 8, 15, 16, 24, 32, Half - 1}

MCInit ==
    /\ PlacementInit
    /\ file.ext = mov => rules = <<>> /\ file.dir = media /\ file.size = 1

MCSpec == MCInit /\ [][Select \/ Dated]_placement /\ PlacementFairness

=============================================================================
