---------------------------- MODULE IrTraceConfig ----------------------------
(***************************************************************************)
(* ctf_trace_class_configure_ir_trace() (ctf-meta-configure-ir-trace.cpp): *)
(* copies the trace class's UUID, when it has one, and its environment     *)
(* entries, in order, into a new IR trace, and returns the status of the   *)
(* first setter that fails, leaving the entries before it in place.       *)
(*                                                                         *)
(* bt_trace_set_environment_entry_integer/_string are library calls this   *)
(* repository does not carry: each one either replaces the entry of its   *)
(* name (or adds it) and returns 0, or fails with a memory error and       *)
(* leaves the environment as it was, a choice at every call.  The entry    *)
(* type is one of the two the parser creates, so the abort of line 40 is   *)
(* not reachable and has no action.                                        *)
(***************************************************************************)
EXTENDS Integers, Sequences, TLC

CONSTANTS
    Names,        \* environment entry names
    Values,       \* entry values (an integer or a string, per type)
    Uuids,        \* trace class UUIDs
    NONE,         \* an IR trace attribute that has not been set
    MaxEntries    \* environment entries per trace class

BT_FUNC_STATUS_MEMORY_ERROR == -12

EnvEntries == [name : Names, type : {"INT", "STR"}, value : Values]

TraceClasses ==
    [is_uuid_set : BOOLEAN, uuid : Uuids,
     env_entries : UNION {[1..n -> EnvEntries] : n \in 0..MaxEntries}]

VARIABLES
    tc,        \* the trace class
    ir_uuid,   \* the IR trace's UUID
    ir_env,    \* the IR trace's environment: name -> [type, value]
    i,         \* entries handled so far (the loop counter of line 26)
    ret,       \* the status the call will return
    pc         \* "uuid", "env" or "done"

vars == <<tc, ir_uuid, ir_env, i, ret, pc>>

Init ==
    /\ tc \in TraceClasses
    /\ ir_uuid = NONE
    /\ ir_env = <<>>
    /\ i = 0 /\ ret = 0
    /\ pc = "uuid"

(* Lines 22-24. *)
SetUuid ==
    /\ pc = "uuid"
    /\ ir_uuid' = IF tc.is_uuid_set THEN tc.uuid ELSE ir_uuid
    /\ pc' = "env"
    /\ UNCHANGED <<tc, ir_env, i, ret>>

(* The environment entry of one successful setter call. *)
EnvValue(e) == [type |-> e.type, value |-> e.value]

(* Seeded fault: the `if (ret) goto end` of lines 43-45 is lost. *)
SetEnvEntry_no_check ==
    /\ pc = "env" /\ i < Len(tc.env_entries)
    /\ LET e == tc.env_entries[i + 1]
       IN  \/ /\ ir_env' = (e.name :> EnvValue(e)) @@ ir_env
              /\ ret' = 0
           \/ /\ ret' = BT_FUNC_STATUS_MEMORY_ERROR
              /\ UNCHANGED ir_env
    /\ i' = i + 1
    /\ UNCHANGED <<tc, ir_uuid, pc>>

(* Lines 26-45, one turn of the loop: the setter of the entry's type,     *)
(* then on failure the jump to `end`.                                      *)
SetEnvEntry ==
    /\ pc = "env" /\ i < Len(tc.env_entries)
    /\ LET e == tc.env_entries[i + 1]
       IN  \/ /\ ir_env' = (e.name :> EnvValue(e)) @@ ir_env
              /\ ret' = 0
              /\ i' = i + 1
              /\ UNCHANGED pc
           \/ /\ ret' = BT_FUNC_STATUS_MEMORY_ERROR
              /\ pc' = "done"
              /\ UNCHANGED <<ir_env, i>>
    /\ UNCHANGED <<tc, ir_uuid>>

(* Line 26: the loop ends after the last entry. *)
EnvDone ==
    /\ pc = "env" /\ i = Len(tc.env_entries)
    /\ pc' = "done"
    /\ UNCHANGED <<tc, ir_uuid, ir_env, i, ret>>

(* Line 49: the call has returned. *)
Returned == pc = "done" /\ UNCHANGED vars

Next == SetUuid \/ SetEnvEntry \/ EnvDone \/ Returned

Spec == Init /\ [][Next]_vars

(***************************************************************************)
(* Properties                                                              *)
(***************************************************************************)

(* The reference: each name of `entries` bound to its last entry. *)
LastWins(entries) ==
    LET named == {entries[k].name : k \in DOMAIN entries}
        last(n) == CHOOSE k \in DOMAIN entries :
                      /\ entries[k].name = n
                      /\ \A k2 \in DOMAIN entries : entries[k2].name = n => k2 =< k
    IN  [n \in named |-> EnvValue(entries[last(n)])]

(* When the call returns 0 the IR trace carries the trace class's UUID,   *)
(* if it has one, and every environment entry, a name given twice bound to *)
(* its later entry; when it fails, the IR trace holds exactly the entries  *)
(* before the one whose setter failed.  The loop (lines 26-46) must stop   *)
(* at the first failure and never report success over a missing entry.    *)
ConfiguredOnSuccess ==
    pc = "done" =>
        /\ ir_uuid = IF tc.is_uuid_set THEN tc.uuid ELSE NONE
        /\ ir_env = LastWins(SubSeq(tc.env_entries, 1, i))
        /\ (ret = 0) = (i = Len(tc.env_entries))
=============================================================================
