--------------------------- MODULE MCFaucetClient ---------------------------
(***************************************************************************)
(* TLC instances of FaucetClient.  MaxRetries is set in the configuration  *)
(* files; 0 gives the default of four attempts.                            *)
(***************************************************************************)
EXTENDS FaucetClient
=============================================================================
