------------------------------- MODULE MCRtp -------------------------------
(* An instance of Rtp.                                                     *)
EXTENDS Rtp

Param(n) == [kind |-> "param", size |-> n]
Slice(n) == [kind |-> "slice", size |-> n]

\* A parameter unit, an exact fit of two fragments, a fragment that is not
\* full, and a single packet.
Clip == <<Param(1), Slice(5), Slice(4), Slice(3)>>
Short == <<Param(1), Slice(5), Slice(4)>>

\* The aggregate is larger than a buffer, or leaves no room for the rollover
\* counter, or for the tag.
Large(n) == <<Param(n), Slice(1)>>

MCVideos == {Clip, Short} \cup {Large(n) : n \in {6, 5, 3}}
MCScenarios ==
  {[video |-> v, network |-> "lossy"] : v \in MCVideos \ {Clip}}
  \cup {[video |-> Clip, network |-> "orderly"], [video |-> Short, network |-> "nacks"]}
MCStarts == {0, 3}

============================================================================
