----------------------------- MODULE Selection ------------------------------
(***************************************************************************)
(* Which files of a card are kept: Compile and Decide of internal/rules    *)
(* and categorize of internal/pipeline/pipeline.go, as the loops they are. *)
(* Ingest.tla takes the outcome as its constant Kept.                      *)
(*                                                                         *)
(* A path is an extension and a directory; a glob is the set of the        *)
(* directories it accepts.  The categories are a Go map: the loop meets    *)
(* them in any order, another one every time.                              *)
(***************************************************************************)
EXTENDS Naturals, Sequences

CONSTANTS
    Policies,       \* lists of rules
    Categories,     \* names of categories
    CategoryMaps,   \* what may be configured for them: sets of extensions
    Exts, Dirs, Sizes,
    Any,            \* a criterion that is not given; also the extension "*"
    None            \* not (yet) determined

\* An entry of the list, in full or with its criteria left out.
RuleEntries ==
    [default : STRING, action : STRING, exts : SUBSET Exts,
     glob : SUBSET Dirs \cup {Any}, max : Sizes \cup {Any},
     min : Sizes \cup {Any}]

ASSUME PoliciesTyped == Policies \subseteq Seq(RuleEntries)

FileEntries == [ext : Exts, dir : Dirs, size : Sizes]

VARIABLES
    rules,          \* the list of the policy
    cats,           \* the category map of the policy
    file,           \* the file to be decided about
    step,
    i,              \* the loop variable of Compile and of Decide
    engine,         \* the compiled rules and the action for all other files
    decision,
    left,           \* categories the loop of categorize has not met
    catchAll,
    category

vars == <<rules, cats, file, step, i, engine, decision, left, catchAll,
          category>>

given == <<rules, cats, file>>

Init ==
    /\ rules \in Policies
    /\ cats \in CategoryMaps
    /\ file \in FileEntries
    /\ step = "compile"
    /\ i = 1
    /\ engine = [rules |-> <<>>, default |-> "skip"]
    /\ decision = None
    /\ left = Categories
    /\ catchAll = None
    /\ category = None

-----------------------------------------------------------------------------
(* Compile.                                                                *)

ParseAction(a) == IF a \in {"keep", "skip"} THEN a ELSE "error"

\* No rules at all: KeepAll.
KeepAll ==
    /\ step = "compile"
    /\ rules = <<>>
    /\ engine' = [engine EXCEPT !.default = "keep"]
    /\ step' = "decide"
    /\ UNCHANGED <<given, i, decision, left, catchAll, category>>

\* An entry with a default sets the action for what no rule matches, wherever
\* it stands; the last one counts.
CompileDefault ==
    /\ step = "compile"
    /\ i <= Len(rules)
    /\ rules[i].default # ""
    /\ IF ParseAction(rules[i].default) = "error"
       THEN step' = "rejected" /\ UNCHANGED <<i, engine>>
       ELSE /\ engine' = [engine EXCEPT !.default = rules[i].default]
            /\ i' = i + 1
            /\ UNCHANGED step
    /\ UNCHANGED <<given, decision, left, catchAll, category>>

CompileRule ==
    /\ step = "compile"
    /\ i <= Len(rules)
    /\ rules[i].default = ""
    /\ IF ParseAction(rules[i].action) = "error"
       THEN step' = "rejected" /\ UNCHANGED <<i, engine>>
       ELSE /\ engine' = [engine EXCEPT !.rules = Append(@, rules[i])]
            /\ i' = i + 1
            /\ UNCHANGED step
    /\ UNCHANGED <<given, decision, left, catchAll, category>>

Compiled ==
    /\ step = "compile"
    /\ rules # <<>>
    /\ i > Len(rules)
    /\ step' = "decide"
    /\ i' = 1
    /\ UNCHANGED <<given, engine, decision, left, catchAll, category>>

-----------------------------------------------------------------------------
(* Decide, and what the pipeline makes of it.                              *)

\* matcher.matches: every criterion that is given has to hold, and both size
\* bounds are inclusive.
Matches(r, f) ==
    /\ r.exts # {} => f.ext \in r.exts
    /\ r.glob # Any => f.dir \in r.glob
    /\ r.max # Any => f.size <= r.max
    /\ r.min # Any => f.size >= r.min

\* Mutant of Decide: the action of the last rule that matches.
DecideLast ==
    /\ step = "decide"
    /\ LET hits == {k \in DOMAIN engine.rules : Matches(engine.rules[k], file)}
       IN  decision' = IF hits = {} THEN engine.default
                       ELSE engine.rules[CHOOSE k \in hits :
                                \A l \in hits : l <= k].action
    /\ step' = IF decision' = "keep" THEN "categorize" ELSE "done"
    /\ UNCHANGED <<given, i, engine, left, catchAll, category>>

\* Decide's loop ends at the first rule that matches, or with the default.
Decide ==
    /\ step = "decide"
    /\ LET here == i <= Len(engine.rules)
           hit == here /\ Matches(engine.rules[i], file)
           action == IF hit THEN engine.rules[i].action ELSE engine.default
       IN  IF here /\ ~hit
           THEN i' = i + 1 /\ UNCHANGED <<step, decision>>
           ELSE /\ decision' = action
                /\ step' = IF action = "keep" THEN "categorize" ELSE "done"
                /\ UNCHANGED i
    /\ UNCHANGED <<given, engine, left, catchAll, category>>

\* Mutant of Categorize: the catch-all ends the loop like any other match.
CategorizeFirst ==
    /\ step = "categorize"
    /\ \E c \in left :
          /\ left' = left \ {c}
          /\ IF cats[c] \cap {file.ext, Any} # {}
             THEN category' = c /\ step' = "done"
             ELSE UNCHANGED <<category, step>>
    /\ UNCHANGED <<given, i, engine, decision, catchAll>>

\* categorize: one category of the map.  An extension that is listed ends the
\* loop; a catch-all is only remembered.
Categorize ==
    /\ step = "categorize"
    /\ \E c \in left :
          /\ left' = left \ {c}
          /\ catchAll' = IF Any \in cats[c] THEN c ELSE catchAll
          /\ IF file.ext \in cats[c]
             THEN category' = c /\ step' = "done"
             ELSE UNCHANGED <<category, step>>
    /\ UNCHANGED <<given, i, engine, decision>>

\* The loop is over: the catch-all, or the file is skipped.
CategorizeEnds ==
    /\ step = "categorize"
    /\ left = {}
    /\ category' = catchAll
    /\ step' = "done"
    /\ UNCHANGED <<given, i, engine, decision, left, catchAll>>

Next ==
    \/ KeepAll \/ CompileDefault \/ CompileRule \/ Compiled
    \/ Decide \/ Categorize \/ CategorizeEnds

Spec == Init /\ [][Next]_vars

-----------------------------------------------------------------------------
(* What the comments and the configuration's own notes promise, said       *)
(* without a loop.                                                         *)

TypeOK ==
    /\ step \in {"compile", "rejected", "decide", "categorize", "done"}
    /\ i \in 1 .. Len(rules) + 1
    /\ Len(engine.rules) <= Len(rules)
    /\ engine.default \in {"keep", "skip"}
    /\ decision \in {"keep", "skip", None}
    /\ left \subseteq Categories
    /\ catchAll \in Categories \cup {None}
    /\ category \in Categories \cup {None}

Hits == {k \in DOMAIN rules : rules[k].default = "" /\ Matches(rules[k], file)}
Defaults == {k \in DOMAIN rules : rules[k].default # ""}

First(S) == CHOOSE k \in S : \A l \in S : k <= l
Last(S) == CHOOSE k \in S : \A l \in S : l <= k

\* "Rules are evaluated in order, first match wins", the fallback is the
\* default entry's, skip without one, and keep when there are no rules.
FirstMatchWins ==
    decision # None =>
        decision =
            IF rules = <<>> THEN "keep"
            ELSE IF Hits # {} THEN rules[First(Hits)].action
            ELSE IF Defaults # {} THEN rules[Last(Defaults)].default
            ELSE "skip"

\* "An explicit extension match wins; otherwise a category listing '*' catches
\* everything": in whatever order the map is met, no file that has a category
\* of its own ends up in the catch-all, and none is skipped that has either.
ExplicitCategoryWins ==
    step = "done" /\ decision = "keep" =>
        LET own == {c \in Categories : file.ext \in cats[c]}
            all == {c \in Categories : Any \in cats[c]}
        IN  category \in IF own # {} THEN own
                         ELSE IF all # {} THEN all ELSE {None}

=============================================================================
