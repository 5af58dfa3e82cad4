----------------------------- MODULE MCSession -----------------------------
(***************************************************************************)
(* One strength setting of each kind, with values on both sides of the     *)
(* minimum of strict mode; both bounds of an interval, so that they cross. *)
(***************************************************************************)
EXTENDS Session

MCChangeable ==
  {"session_access_level", "default_access_level", "strict",
   "noise_layer_sd", "outlier_count_min", "outlier_count_max"}
MCValues ==
  [session_access_level |-> Levels, default_access_level |-> Levels, strict |-> BOOLEAN,
   noise_layer_sd |-> {0, 1}, outlier_count_min |-> {0, 1, 2}, outlier_count_max |-> {1, 2, 3}]
=============================================================================
