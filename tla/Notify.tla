------------------------------- MODULE Notify -------------------------------
(***************************************************************************)
(* The notifiers of internal/notify: which of the configured ones Build    *)
(* gets to work, which events each wants, and what is posted to the        *)
(* writer.  A text is modelled by its length.                              *)
(***************************************************************************)
EXTENDS Integers, Sequences

CONSTANTS
    Canon,          \* strings.ToLower(strings.TrimSpace(_)), as a function
    Tokens,         \* environment variables that hold a bearer token
    MaxBody         \* pushover's limit (1024 in pulsar.go)

ASSUME LimitPositive == MaxBody \in Nat \ {0}

Events == {"start", "complete", "error"}

-----------------------------------------------------------------------------
(* Building the configured notifiers.                                      *)

TokenEnv(c) == IF c.tokenEnv = "" THEN "NOTIFY_PULSAR_TOKEN" ELSE c.tokenEnv

NewPulsar(c) == c.url # "" /\ c.userKey # "" /\ TokenEnv(c) \in Tokens

Construct(c) == Canon[c.type] = "pulsar" /\ NewPulsar(c)

WithEvents(c, event) == c.on = {} \/ event \in {Canon[e] : e \in c.on}

\* The positions of those that work.  Without any, Build returns a Logger or
\* a Noop, and neither sends anything.
Build(cfgs) ==
    LET ns[i \in 0 .. Len(cfgs)] ==
          IF i = 0 THEN <<>>
          ELSE IF Construct(cfgs[i]) THEN Append(ns[i - 1], i) ELSE ns[i - 1]
    IN  ns[Len(cfgs)]

-----------------------------------------------------------------------------
(* What the writer is sent.                                                *)

ClampPriority(p) == IF p < -2 THEN -2 ELSE IF p > 2 THEN 2 ELSE p

\* body: the summary of a completed job, an error's text, or the message.
Body(n) ==
    CASE n.event = "complete"              -> 1
      [] n.event = "error" /\ n.err > 0    -> n.err
      [] OTHER                             -> 1

Clip(length) ==
    IF length = 0 THEN 1 ELSE IF length <= MaxBody THEN length ELSE MaxBody

DataMap(n) == IF n.event = "complete" THEN n.counts ELSE <<>>

Payload(c, n) ==
    [event    |-> n.event,
     body     |-> Clip(Body(n)),
     priority |-> ClampPriority(c.priority),
     data     |-> DataMap(n)]

=============================================================================
