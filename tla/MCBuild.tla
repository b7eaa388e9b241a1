------------------------------- MODULE MCBuild -------------------------------
(***************************************************************************)
(* A build for TLC: a graph of four nodes that depend on each other and    *)
(* compete for paths, a group and the executor, whose process crashes and  *)
(* whose run is cancelled and resumed; or the delivery of one of six kinds *)
(* of project.                                                             *)
(***************************************************************************)
EXTENDS GraphExecutorProofs

CONSTANTS
  Explored,        \* the halves that behaviours may be of
  MaxDisturbances  \* bound: cancellations, aborted drives and crashes together

\* d, then b; a and d feed c, which may be tried twice; b writes below the directory a
\* declares, and b and c share a group that runs one at a time.
Crowd       == {"a", "b", "c", "d"}
CrowdDeps   == [n \in Crowd |-> CASE n = "b" -> {"d"} [] n = "c" -> {"a", "d"} [] OTHER -> {}]
CrowdTries  == [n \in Crowd |-> IF n = "c" THEN 1 ELSE 0]
Paths       == [n \in Crowd |-> CASE n = "a" -> {<<"src">>}
                                   [] n = "b" -> {<<"src", "app">>, <<"docs">>}
                                   [] OTHER   -> {}]
Groups      == [n \in Crowd |-> IF n \in {"b", "c"} THEN "specialists" ELSE ""]
GroupLimits == [n \in Crowd |-> IF n \in {"b", "c"} THEN 1 ELSE 0]

\* a, then b, then c, and nothing that they compete for.
Three     == {"a", "b", "c"}
ChainDeps == [n \in Three |-> CASE n = "a" -> {} [] n = "b" -> {"a"} [] n = "c" -> {"b"}]
NoRetry   == [n \in Three |-> 0]
NoWrites  == [n \in Three |-> {}]
NoGroups  == [n \in Three |-> ""]
NoLimits  == [n \in Three |-> 0]

\* The half that is not looked at.
NoDelivery ==
  /\ pc = "" /\ stack = "" /\ bound = "" /\ live = "" /\ posture = "" /\ tree = ""
  /\ condition = "" /\ proof = "" /\ review = "" /\ asked = "" /\ verdict = ""
  /\ findings = "" /\ flipped = "" /\ repaired = "" /\ fixed = "" /\ rounds = ""
  /\ mcp = "" /\ trace = "" /\ delivered = "" /\ recorded = "" /\ won = ""
  /\ drifts = "" /\ switches = ""

MCInit ==
  /\ part \in Explored
  /\ Init
  /\ \/ part = "graph" /\ NoDelivery
     \/ part = "delivery" /\ Delivering!Init /\ cache = {} /\ Fresh

MCNext ==
  /\ UNCHANGED part
  /\ \/ part = "graph" /\ Next /\ UNCHANGED deliveryVars
        /\ cancels' + aborts' + crashes' <= MaxDisturbances
     \/ part = "delivery" /\ Delivering!Next /\ UNCHANGED vars
        /\ drifts' + switches' <= 1

MCSpec == MCInit /\ [][MCNext]_buildVars
=============================================================================
