---------------------------- MODULE MCChecklist ----------------------------
(* One base with a host candidate; the peer's host candidate r1 may show up *)
(* as the peer reflexive candidate x1 before it is signalled.               *)
EXTENDS Checklist

CONSTANTS b1, h1, r1, r2, x1

MCBaseOf == [l \in Local |-> b1]
MCAddress == [r \in Signalled \cup Reflexive |-> IF r = r2 THEN "B" ELSE "A"]
MCCompatible == Local \X Signalled
\* A peer reflexive candidate ranks between the two signalled ones.
MCPriority ==
  [p \in Local \X (Signalled \cup Reflexive) |->
     IF p[2] = r1 THEN 3 ELSE IF p[2] = x1 THEN 2 ELSE 1]
============================================================================
