------------------------------- MODULE MCAppServer -------------------------------
(* Instances of AppServer for TLC; the bounds are in the .cfg files. *)
EXTENDS AppServer
=============================================================================
