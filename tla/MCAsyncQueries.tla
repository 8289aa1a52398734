---------------------------- MODULE MCAsyncQueries ----------------------------
(* Instances of AsyncQueries for TLC. *)
EXTENDS AsyncQueries
==============================================================================
