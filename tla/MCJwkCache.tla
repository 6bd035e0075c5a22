------------------------------- MODULE MCJwkCache -------------------------------
(***************************************************************************)
(* Two providers.  The endpoint of google always answers in the end, the   *)
(* one of apple need not.                                                  *)
(***************************************************************************)
EXTENDS JwkCache

CONSTANTS google, apple

FairSpec == JwkSpec /\ TasksRun /\ Answered({google})

\* The refresh loop of google does its work whatever the endpoint of apple does: each
\* loop awaits its own fetches only (start_jwk_refresh_loop).
HealthyRefreshed == Refreshed(google)
================================================================================
