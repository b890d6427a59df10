----------------------------- MODULE MCSidebar -----------------------------
(* Three agents, two in one repository and one in a workspace without.     *)
EXTENDS Sidebar, TLC

CONSTANTS p1, p2, p3

MCRepoOf    == p1 :> "api" @@ p2 :> None @@ p3 :> "api"
MCNameRank  == "api" :> 0 @@ None :> 1
MCLabelRank == p1 :> 2 @@ p2 :> 1 @@ p3 :> 0
=============================================================================
