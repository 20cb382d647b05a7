---------------------------- MODULE MCJobReport -----------------------------
(***************************************************************************)
(* An instance of JobReport for TLC.                                       *)
(***************************************************************************)
EXTENDS JobReport

Texts == {"pulsar", " Pulsar", "ntfy", "start", "complete", "Complete",
          "error"}

MCCanon == [t \in Texts |->
    CASE t = " Pulsar" -> "pulsar" [] t = "Complete" -> "complete"
      [] OTHER -> t]

Notifier(type, on, priority, tokenEnv) ==
    [type |-> type, url |-> "url", userKey |-> "key", on |-> on,
     priority |-> priority, tokenEnv |-> tokenEnv]

\* Two that work, with one that is unknown and one without its token between.
MCNotifierLists ==
    { <<>>,
      << Notifier(" Pulsar", {}, 7, ""),
         Notifier("ntfy", {}, 0, ""),
         Notifier("pulsar", {}, 0, "OTHER_TOKEN"),
         Notifier("pulsar", {"Complete", "error"}, -3, "") >> }

MCPolicies == {[ingested |-> b, skipped |-> b] : b \in BOOLEAN}

\* The first two files are the same picture.
MCHash == [f \in Files |-> IF f = 2 THEN 1 ELSE f]

=============================================================================
