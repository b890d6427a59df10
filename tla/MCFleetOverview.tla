-------------------------- MODULE MCFleetOverview --------------------------
(* A fleet with no summary, one, two lists of two and one of three; the    *)
(* hash of one run tells them apart, that of the other confuses two.       *)
EXTENDS FleetOverview

MCHeadlines == {"none", "one", "two", "twoMoved", "three"}

MCSize == [h \in MCHeadlines |-> CASE h = "none"  -> 0
                                   [] h = "one"   -> 1
                                   [] h = "three" -> 3
                                   [] OTHER       -> 2]

MCHash == [h \in MCHeadlines |-> h]

MCCollidingHash == [MCHash EXCEPT !["twoMoved"] = "two"]
=============================================================================
