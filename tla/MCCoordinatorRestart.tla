----------------------- MODULE MCCoordinatorRestart -----------------------
(***************************************************************************)
(* Two tasks, of which one carries a credential and may be leased once and *)
(* the other may be leased twice, through restarts of either kind.         *)
(***************************************************************************)
EXTENDS CoordinatorRestart, TLC

CONSTANTS plain, secret

MCMaxAttempts == plain :> 2 @@ secret :> 1
=============================================================================
