-------------------------- MODULE MCCliArgsDefault --------------------------
(* Three in-tree plugin directories, so that an append can fail before,  *)
(* between and after them, and one value a user may have set beforehand. *)
EXTENDS CliArgsDefault

MCNPluginDirs == 3
=============================================================================
