------------------------------- MODULE MCLive --------------------------------
(***************************************************************************)
(* The parts of the live page for TLC.  They share no variable that a      *)
(* property relates, so they are checked side by side and not as a         *)
(* product: part says which one runs, the others stay as they begin.       *)
(***************************************************************************)
EXTENDS LiveVcr, LiveAnim, LiveFeed, LivePage

VARIABLE part

LiveAreas == [a |-> {"k1"}, b |-> {"k2"}]
liveVars == <<vcrVars, animVars, feedVars, pageVars, nodeVars, part>>

LiveInit ==
    /\ part \in {"vcr", "anim", "feed", "page", "nodes"}
    /\ VcrInit /\ AnimInit /\ FeedInit /\ PageInit /\ NodesInit

LiveNext ==
    /\ UNCHANGED part
    /\ \/ part = "vcr" /\ VcrNext /\ UNCHANGED <<animVars, feedVars, pageVars, nodeVars>>
       \/ part = "anim" /\ AnimNext /\ UNCHANGED <<vcrVars, feedVars, pageVars, nodeVars>>
       \/ part = "feed" /\ FeedNext /\ UNCHANGED <<vcrVars, animVars, pageVars, nodeVars>>
       \/ part = "page" /\ PageNext /\ UNCHANGED <<vcrVars, animVars, feedVars, nodeVars>>
       \/ part = "nodes" /\ NodesNext /\ UNCHANGED <<vcrVars, animVars, feedVars, pageVars>>

(* The fairness of each part, while it is the one that runs. *)
LiveFairness ==
    /\ WF_vcrVars(part = "vcr" /\ TimerFires) /\ WF_vcrVars(part = "vcr" /\ Answer)
    /\ WF_animVars(part = "anim" /\ AnimFrame)
    /\ \A p \in Paths : WF_animVars(part = "anim" /\ MatrixTick(p))
    /\ WF_pageVars(part = "page" /\ \E v \in Visits, ok \in BOOLEAN : AfterConfig(v, ok))
    /\ WF_pageVars(part = "page" /\ \E v \in Visits : AfterNodes(v))

LiveSpec == LiveInit /\ [][LiveNext]_liveVars /\ LiveFairness

(* The variables of every part have their types. *)
LiveTypeOK == VcrTypeOK /\ AnimTypeOK /\ FeedTypeOK /\ PageTypeOK /\ NodesTypeOK

(* Replays and paths end, the page gets ready, and no step makes the feed
   overflow or hides an infrastructure node. *)
LiveProgress ==
    /\ ReplayEnds
    /\ PathsEnd
    /\ PageGetsReady
    /\ FeedBounded
    /\ InfraOnlyDimmed
==============================================================================
