--------------------------- MODULE MCMountRequests ---------------------------
(***************************************************************************)
(* An instance of MountRequests for TLC: two modes, so that the wrong one  *)
(* could come back, and two keys, so that a save has a middle.             *)
(***************************************************************************)
EXTENDS MountRequests

\* Long histories of one kind, and short ones of both.
Budget(m, s) == [k \in {"motion", "settings"} |-> IF k = "motion" THEN m ELSE s]
MCBudgets == {Budget(4, 0), Budget(0, 2), Budget(1, 1)}

MCSiteKeys == <<"lat", "lon">>
MCLimitKeys == <<"ra_min", "ra_max">>
=============================================================================
