----------------------- MODULE MCScheduledDeployments -----------------------
(***************************************************************************)
(* Three scheduled deployments, two of them for the same minute.           *)
(***************************************************************************)
EXTENDS ScheduledDeployments, TLC

CONSTANTS s1, s2, s3

MCAt == s1 :> 0 @@ s2 :> 0 @@ s3 :> 1
=============================================================================
