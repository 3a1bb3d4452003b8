----------------------------- MODULE MCHistory ------------------------------
(***************************************************************************)
(* The instances of MCAccount with the history of AccountHistory.          *)
(***************************************************************************)
EXTENDS MCAccount, AccountHistory
=============================================================================
