------------------------------ MODULE MCWebClient ------------------------------
(***************************************************************************)
(* Bounds under which a tab, its requests and its events meet a refresh, a *)
(* submission, a lost socket, a failed request and a restart.              *)
(***************************************************************************)
EXTENDS WebClientProperties
=============================================================================
