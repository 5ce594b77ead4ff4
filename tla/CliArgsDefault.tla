--------------------------- MODULE CliArgsDefault ---------------------------
(***************************************************************************)
(* bt_config_cli_args_create_with_default of the babeltrace2 CLI (bundled *)
(* in src/cli/babeltrace2-query.h, lines 19-92).  In a build configured   *)
(* to run from the source tree (BT_SET_DEFAULT_IN_TREE_CONFIGURATION) it  *)
(* creates an array value, appends the in-tree plugin directories to it,  *)
(* points LIBBABELTRACE2_PLUGIN_PROVIDER_DIR at the in-tree Python plugin *)
(* provider (or at a nonexistent directory when the provider is disabled) *)
(* unless the variable is already set, calls bt_config_cli_args_create    *)
(* and releases its own reference to the array on every exit.  In other   *)
(* builds it only forwards with no initial plugin paths.                  *)
(*                                                                         *)
(* bt_value_array_create, bt_config_append_plugin_paths and               *)
(* bt_config_cli_args_create are not in this repository: each may fail,   *)
(* the second after appending some of the directories, and the last may   *)
(* keep a reference to the array in the configuration it returns.         *)
(***************************************************************************)
EXTENDS Naturals

CONSTANTS
    NPluginDirs,        \* directories in CONFIG_IN_TREE_PLUGIN_PATH
    UserDirs,           \* values a user may give the variable beforehand
    InTreeProviderDir,  \* CONFIG_IN_TREE_PROVIDER_DIR
    Nonexistent,        \* the literal "/nonexistent" of line 67
    UNSET,              \* the variable is not in the environment
    NULL

(* enum bt_config_cli_args_status *)
CliArgsStatuses == {"OK", "ERROR", "INFO_ONLY"}

VARIABLES
    in_tree,        \* BT_SET_DEFAULT_IN_TREE_CONFIGURATION is defined
    provider_dir,   \* CONFIG_IN_TREE_PROVIDER_DIR is defined
    env,            \* LIBBABELTRACE2_PLUGIN_PROVIDER_DIR
    user_env,       \* its value when the call began
    paths,          \* initial_plugin_paths: NULL or [refs, len]
    cfg,            \* *cfg: NULL or [plugin_paths_ref]
    status,
    pc

vars == <<in_tree, provider_dir, env, user_env, paths, cfg, status, pc>>

(* The configuration bt_config_cli_args_create returns: OK returns one,  *)
(* which may hold its own reference to the initial plugin paths; the    *)
(* callee releases whatever it does not keep.                           *)
cli_args_create(st, with_paths) ==
    \E keep \in IF st = "OK" /\ with_paths THEN BOOLEAN ELSE {FALSE} :
        /\ status' = st
        /\ cfg' = IF st = "OK" THEN [plugin_paths_ref |-> keep] ELSE NULL
        /\ paths' = IF keep THEN [paths EXCEPT !.refs = @ + 1] ELSE paths

(* Lines 43-46: bt_value_array_create. *)
Create ==
    /\ pc = "create"
    /\ \/ /\ paths' = [refs |-> 1, len |-> 0]
          /\ pc' = "append"
       \/ /\ pc' = "error"
          /\ UNCHANGED paths
    /\ UNCHANGED <<in_tree, provider_dir, env, user_env, cfg, status>>

(* Lines 48-52: bt_config_append_plugin_paths appends the directories one *)
(* by one and may fail after any of them.                                  *)
Append ==
    /\ pc = "append"
    /\ \E k \in 0..NPluginDirs, ok \in BOOLEAN :
          /\ ok => k = NPluginDirs
          /\ paths' = [paths EXCEPT !.len = k]
          /\ pc' = IF ok THEN "setenv" ELSE "error"
    /\ UNCHANGED <<in_tree, provider_dir, env, user_env, cfg, status>>

(* Lines 54-68: g_setenv(..., 0) sets the variable only when it is unset. *)
SetEnv ==
    /\ pc = "setenv"
    /\ env' = IF env # UNSET THEN env
              ELSE IF provider_dir THEN InTreeProviderDir ELSE Nonexistent
    /\ pc' = "args"
    /\ UNCHANGED <<in_tree, provider_dir, user_env, paths, cfg, status>>

(* Lines 70-72: bt_config_cli_args_create with the initial plugin paths. *)
ArgsCreate ==
    /\ pc = "args"
    /\ \E st \in CliArgsStatuses : cli_args_create(st, TRUE)
    /\ pc' = "end"
    /\ UNCHANGED <<in_tree, provider_dir, env, user_env>>

(* Seeded fault: the error path returns at once, skipping `end`. *)
Error_return ==
    /\ pc = "error"
    /\ status' = "ERROR"
    /\ pc' = "done"
    /\ UNCHANGED <<in_tree, provider_dir, env, user_env, paths, cfg>>

(* Lines 74-75. *)
Error ==
    /\ pc = "error"
    /\ status' = "ERROR"
    /\ pc' = "end"
    /\ UNCHANGED <<in_tree, provider_dir, env, user_env, paths, cfg>>

(* Lines 77-79: bt_value_put_ref, a no-op on NULL. *)
End ==
    /\ pc = "end"
    /\ paths' = IF paths = NULL THEN NULL ELSE [paths EXCEPT !.refs = @ - 1]
    /\ pc' = "done"
    /\ UNCHANGED <<in_tree, provider_dir, env, user_env, cfg, status>>

(* Lines 84-90: the build without the in-tree configuration forwards. *)
Forward ==
    /\ pc = "forward"
    /\ \E st \in CliArgsStatuses : cli_args_create(st, FALSE)
    /\ pc' = "done"
    /\ UNCHANGED <<in_tree, provider_dir, env, user_env>>

(* The call has returned; the CLI goes on with the configuration. *)
Returned ==
    /\ pc = "done"
    /\ UNCHANGED vars

Init ==
    /\ in_tree \in BOOLEAN
    /\ provider_dir \in BOOLEAN
    /\ env \in {UNSET} \cup UserDirs
    /\ user_env = env
    /\ paths = NULL
    /\ cfg = NULL
    /\ status = "OK"
    /\ pc = IF in_tree THEN "create" ELSE "forward"

Next ==
    \/ Create \/ Append \/ SetEnv \/ ArgsCreate \/ Error \/ End
    \/ Forward \/ Returned

Spec == Init /\ [][Next]_vars

(***************************************************************************)
(* Properties                                                              *)
(***************************************************************************)

(* When the call returns, by any of its three exits (allocation failure,  *)
(* a failed append, or bt_config_cli_args_create's own status), the       *)
(* initial plugin path array is referenced exactly by the configuration   *)
(* that kept it, and freed otherwise: the put at `end` is neither skipped *)
(* nor doubled.                                                            *)
PathsReferencedOnlyByCfg ==
    pc = "done" /\ paths # NULL =>
        paths.refs = IF cfg # NULL /\ cfg.plugin_paths_ref THEN 1 ELSE 0
=============================================================================
