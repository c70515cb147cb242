----------------------------- MODULE MCWebClient -----------------------------
EXTENDS WebClient

\* A warning of one instant, and an observation that is always in force.
SomeAdvisories ==
  {[name |-> 1, feed |-> "weather", from |-> 1, until |-> 2, placed |-> TRUE],
   [name |-> 3, feed |-> "air_quality", from |-> 0, until |-> 9, placed |-> TRUE]}

\* One event that moves, another one at its place, a camera whose stream
\* changes, and an aircraft. A stream of a host that is not approved is refused
\* like one that the browser cannot play, so that both of these are approved.
Place(id, layer, place, url) == [id |-> id, layer |-> layer, place |-> place, url |-> url]
Nowhere == Place("none", "none", "none", "none")
SomePlaces ==
  {Place("e1", "events", "p1", "none"), Place("e1", "events", "p2", "none"),
   Place("e2", "events", "p1", "none"), Place("c1", "cctv", "none", "u1"),
   Place("c1", "cctv", "none", "u2"), Place("a1", "aircraft", "none", "none")}
=============================================================================
