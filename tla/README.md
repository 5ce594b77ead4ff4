# TLA+ models of libbtrace

This directory holds TLA+ models of the parts of this babeltrace excerpt whose
behaviour can be checked with the TLC model checker. It also holds the TLC
configurations that check them.

`PROJECT.json` records the following:

- every component and its status;
- every run and what it shows;
- the seeded faults (mutants) that each passing property must catch;
- the source lines each definition translates;
- the findings;
- the hazards of the code.

## The system and its parts

| Part | Source | Modelled by | Status |
|---|---|---|---|
| CTF metadata field-class reference resolver | `src/src/plugins/ctf/common/src/metadata/tsdl/ctf-meta-resolve.cpp` | `CtfMeta`, `CtfResolve`, `CtfResolveSpec`, `MCCtfResolve` | modelled |
| CTF metadata declarations (`ctf-meta.hpp`, not in the excerpt) | — | `CtfMeta` (from spec.md §3) | partly |
| Text array/sequence update pass | `src/src/plugins/ctf/common/metadata/ctf-meta-update-text-array-sequence.cpp` | `CtfTextArraySequence`, `MCCtfTextArraySequence` | modelled |
| Object stack (arena) allocator | `src/unnamed/part_005` | `Objstack`, `MCObjstack` | modelled |
| Intrusive doubly linked list | `src/src/common/list.h` (+ zephyr `dlist.h`, not in the repository) | `DList`, `DListSeq` | modelled |
| CTF writer clock | `src/src/ctf-writer/clock.c` | `WriterClock`, `MCWriterClock` | modelled (the getters only read; destroy only frees) |
| IR trace configuration | `src/src/plugins/ctf/common/src/metadata/tsdl/ctf-meta-configure-ir-trace.cpp` | `IrTraceConfig`, `MCIrTraceConfig` | modelled |
| UTC conversion fallback `bt_timegm` (`compat/utc.h`) | `src/src/bindings/python/bt2/bt2/native_bt_mip.i.h`, which bundles it | `BtTimegm`, `MCBtTimegm` | modelled |
| CLI default configuration `bt_config_cli_args_create_with_default` | `src/src/cli/babeltrace2-query.h`, which bundles it | `CliArgsDefault`, `MCCliArgsDefault` | modelled |
| Clock correlation validator | `src/unnamed/part_004` | — | not modelled: only the header is present, and `_validate` is defined elsewhere |
| Logging level, version and format-error helpers, SWIG typemaps, `py-common`, headers, test scripts | see `PROJECT.json` | — | not modelled: plumbing with no state machine and nothing a model checker adds |

The resolver runs once per trace class, after the TSDL parser has built the
metadata tree and before the IR translator consumes it. It interacts with
the rest of the metadata pipeline only through the tree:

- it reads the structure and the `is_translated` flags;
- it writes the length/tag path and class of each sequence and variant.

## Modules

- **`CtfMeta`**: the metadata tree. It covers the field-class kinds, the
  six scopes with their TSDL prefixes (`absolute_path_prefixes`), and the
  compound accessors the resolver calls. It also defines the layers (trace
  class `<<>>`, stream class `<<s>>`, event class `<<s, e>>`) that own the
  scope roots. A node of the tree is a location `[owner, scope, path]`,
  which stands for the `struct ctf_field_class *` at that place.
- **`CtfResolve`**: `ctf_trace_class_resolve_field_classes()`, one action per
  step that changes the resolving context. Its state is:
  - `ctx`: `struct resolve_context`, holding `sc`, `ec`, the six scope
    slots, `root_scope` and `cur_fc`;
  - `stack`: the field-class stack, whose frames hold `fc` and `index`,
    plus the loop counter `i` of the activation that pushed the frame;
  - `next`: the node `resolve_field_class()` is about to be called on, or
    `NULL` while it returns;
  - `pc` and `cont`: where the driver is, and where it resumes when the
    current root is done;
  - `si` and `ei`: the loop counters of the driver;
  - `ret`;
  - `resolved`: what the call has written on each sequence or variant.

  The driver actions are `Start`, `StreamClasses`, `StreamClassBegin`,
  `StreamClassEventHeader`, `StreamClassEventCommonContext`,
  `StreamClassEventClasses`, `StreamClassEnd`, `StreamClassesDone`,
  `EventClassBegin`, `EventClassSkip`, `EventClassPayload` and
  `EventClassEnd`. Each translates a stretch of the driver functions
  between two calls of `resolve_root_class()`, with the scope-slot
  assignments and resets of that stretch.

  The stack operations `field_class_stack_push`, `_pop`, `_peek`, `_at`
  and `_empty` are operators on a sequence of frames, used by the walk
  actions as the code calls them.

  The recursion of `resolve_field_class()` is unrolled into four actions:
  - `Enter`: `cur_fc`, resolve a sequence or variant, push and descend;
  - `ResolveFails`: the `goto end` on a failed resolution;
  - `NextChild`: the loop sets the top index and resolves the next child;
  - `Pop`: the loop ends and `field_class_stack_pop` runs.

  `RootDone` is the end of `resolve_root_class()`.

  Resolving one path string is a pure function of the context, written as
  operators that keep the code's names and structure:
  - `pathstr_to_ptokens`;
  - `get_root_scope_from_absolute_pathstr`;
  - `ptokens_to_field_path` (with its causality test `child_is_after_source`);
  - `absolute_ptokens_to_field_path` and `relative_ptokens_to_field_path`;
  - `pathstr_to_field_path` and `field_path_to_field_class`;
  - `get_field_paths_lca_index` and `validate_target_field_path`;
  - `resolve_sequence_or_variant_field_class`.
- **`CtfResolveSpec`**: the abstract promise of spec.md §4–§5. It is defined
  over the static tree, not over the resolver's stack, and takes one step
  from `running` to `ok` or `failed`. On `ok`, every sequence and variant of
  every untranslated layer has the target the rules designate:
  - `Locate`: §4.4;
  - `AbsoluteTarget`: §4.5;
  - `RelativeTarget`: §4.6, the innermost enclosing compound that locates
    the tokens;
  - `PathPrecedes` and `TargetTypeOk`: §4.7.

  `CtfResolve` instantiates it with a refinement mapping (`outcome` from
  `pc`/`ret`, `targets` from `resolved`) and checks
  `ImplementsResolveSpec == ResolveSpec!SafetySpec`.
- **`MCCtfResolve`**: the input trace classes for TLC. Path strings are
  sequences of dot-separated tokens, and `""` stands for the empty token of
  `"a..b"`.

- **`CtfTextArraySequence`**: `ctf_trace_class_update_text_array_sequence()`.
  The driver is five actions, one per stretch of the code between calls of
  the walk: `TraceClassStep`, `StreamClassStep`, `StreamClassesDone`,
  `EventClassStep` (including the `continue` for a translated event class)
  and `EventClassesDone`. `Returned` is the end of the call. The walk of one
  root, `set_text_array_sequence_field_class`, is a RECURSIVE operator: it
  reads only element attributes it never writes, so the order of its writes
  does not matter. The writes are the sets `is_text` (arrays and sequences)
  and `unsigned` (their elements). `TextReference` is the declarative
  answer: every array or sequence of an open layer whose element passes the
  text test. The walk's error returns are dead code (it always returns 0).
- **`Objstack`**: the metadata arena. `objstack_create`, `Alloc` (the
  whole `objstack_alloc` call) and `objstack_destroy` are the actions.
  - `BT_ALIGN` is computed on a `size_t` of `SIZE_WIDTH` bits (the
    callers' lengths stay far below its wrap).
  - `AppendChain` is the loop of `objstack_append_node` calls, each node
    `len << 1` of the one before.
  - A `calloc` failure can happen at any append. The nodes appended before
    it stay on the list, as in the code.
  - The node list is a sequence; `DList` justifies this abstraction.
- **`DList`**: the intrusive list at pointer level. A head and a node are
  the same two-pointer cell (`head`/`tail` alias `next`/`prev`).
  - Each operation is written as the code's assignments in order, each one
    reading what the previous one left. This matters: on an empty list,
    `list->head->prev` is the list's own `tail`.
  - The actions are the babeltrace macros of `list.h` (`BT_INIT_LIST_HEAD`,
    `bt_list_add`, `bt_list_add_tail`, `bt_list_del`, `bt_list_empty`,
    `bt_list_splice`). These take the element first, the reverse of the
    zephyr functions they expand to.
  - `sys_dlist_splice` is translated from `list.h`. `init`, `append`,
    `prepend` and `dequeue` come from zephyr's `dlist.h`, which the
    repository includes but does not carry.
  - The ghost `spliced` records the heads passed as `add`. The code leaves
    them stale, and the model allows only re-initialisation on them.
  - `DListSeq` is the sequence-level list. `DList` instantiates it with
    `lists <- ListOf`, the chain each head's `next` pointers visit.
- **`WriterClock`**: all of `clock.c` that changes state:
  - `bt_ctf_clock_create()`: value 0, 1 GHz, and a generated UUID;
  - `bt_ctf_clock_set_time()`;
  - every forwarding setter: frequency, description, precision,
    `offset_s`, `offset`, `is_absolute` and `uuid`;
  - The frequency conversion of lines 185-190 truncates toward zero.
  - Casting a negative `double` to `uint64_t` is undefined behaviour. The
    model takes either outcome the builds produce: x86-64 keeps the
    truncated negative value, AArch64 stores 0.
  - The monotonicity precondition aborts in developer builds and is
    skipped in release builds. Both builds are initial states.
  - Each setter forwards to the clock class, whose code is not in the
    repository. The class either takes the new value or refuses it (for
    example when it is frozen), a choice at every call. The attributes
    other than the frequency live in the record `cc`.
  - The product and quotient of line 188 are computed exactly. The
    `double` computation gives the same truncated value while
    `|time * freq|` stays below 2^53; every product the model forms is
    below 2^31.
  - The ghosts `timed` and `rescaled` record a `set_time` call, and a
    frequency change after one.
- **`IrTraceConfig`**: `ctf_trace_class_configure_ir_trace()`.
  - `SetUuid` copies the UUID if the class has one.
  - `SetEnvEntry` is one turn of the environment loop, and `EnvDone`
    ends it.
  - The two `bt_trace_set_environment_entry_*` setters are library code.
    Each either replaces (or adds) the entry of its name, or fails with a
    memory error and changes nothing.
  - The `default: bt_common_abort()` is unreachable for the two entry
    types the parser creates.
  - `LastWins` is the declarative reference: each name bound to its last
    entry.

- **`BtTimegm`**: the `bt_timegm` fallback of `compat/utc.h`, for
  platforms without `timegm(3)`. It is one `Call` action. The call either
  refuses an out-of-range `struct tm` with `-1` and `errno = EOVERFLOW`, or
  returns `seconds(total_days(tm), tm)`. These operators follow the code's
  loops: the leap days from 1970 up to `tm_year`, then the months before
  `tm_mon`, read with the year the first loop left in `year`. The last
  multiplication is done in `int`: a result past `INT_MAX` is undefined
  behaviour, and the model returns the distinct value `INT_OVERFLOW` for
  it. The reference `DaysFromEpoch` is the proleptic Gregorian day count,
  written with the closed form `LeapsBefore` for the leap years.
- **`CliArgsDefault`**: `bt_config_cli_args_create_with_default`. Each
  labelled stretch is an action: `Create`, `Append`, `SetEnv`,
  `ArgsCreate`, `Error`, `End`, plus `Forward` for the build without the
  in-tree configuration. The build options
  (`BT_SET_DEFAULT_IN_TREE_CONFIGURATION` and
  `CONFIG_IN_TREE_PROVIDER_DIR`) and the provider directory variable's
  value before the call are initial choices. The callees are not in the
  repository, and each one's outcome is a free choice:
  - `bt_value_array_create` may fail;
  - `bt_config_append_plugin_paths` may fail after any directory;
  - `bt_config_cli_args_create` returns any status, and a configuration
    it returns may keep a reference to the array.

A path string is represented by its tokens. This abstraction is exact for
what the code does with it: `pathstr_to_ptokens` splits at `.`, and the
prefix test of `get_root_scope_from_absolute_pathstr` is a `strncmp` with
prefixes that end in `.`, which is the same as comparing the leading
tokens.

## Runs

| Run | Inputs | Checks | Expect |
|---|---|---|---|
| `resolve_walk` | 2 049 trace classes, in two families. (1) One stream and one event class whose payload nests leaves, structures, arrays of structures, sequences and variants, with relative, malformed (`a.`), absolute and shadowing paths. Paths whose first name is a member on the source's own ancestor chain are excluded. (2) Two stream classes, with the trace, first stream class and first event class each translated or not, absolute paths to every scope, and a second event and stream class that look up roots their layers lack. Translated stream classes have no sequence in their event common context (that case is `resolve_translated_stream`) | `TypeOK`, `ScopesOfCurrentLayers`, `ResolvedReferenceSound`, `ImplementsResolveSpec` | pass (51 798 states, about 30 s) |
| `text_array_sequence` | 248 trace classes. Every layer is translated or not. Payloads cover six element kinds (UTF-8 `char`, unsigned, enumeration, unencoded, 16-bit, bit-packed) in arrays, sequences, nested arrays, arrays of structures of sequences, and variant options | `TextOnlyInOpenLayers`, `TextComplete` | pass (1 736 states) |
| `ir_trace_config` | 1 170 trace classes: with or without a UUID, up to three environment entries over two names, two types and two values; any setter may fail | `ConfiguredOnSuccess` | pass (10 198 states) |
| `timegm_epoch` | dates in 1970-1972, 1999-2001, 2004 and 2037 (months 0, 1, 2, 11; days 1, 28, 29, 31; 12-31 23:59:59 and :60) and five out-of-range `struct tm` | `AgreesWithTimegm` | pass (298 states) |
| `timegm_outer` | the same dates in 1960, 1968, 1969, 2038 and 2100 | `AgreesWithTimegm` | violation |
| `cli_args_default` | both builds, both provider configurations, the variable unset or set by the user, three plugin directories, every callee failure and status | `PathsReferencedOnlyByCfg` | pass (120 states) |
| `writer_clock_rescale` | a clock created at 10^9 Hz and set to 1, 2 or 10^9 Hz at any point; seven times from −1 s to 1 s; both builds; two values for each other attribute | `MonotoneTimesNeverAbort` | violation |
| `objstack` | lengths 0, 1, 8, 13, 120, 200, 600; up to 4 nodes and 3 allocations; create/destroy cycles; `calloc` failure at any append | `BlocksDisjointInNodes` | pass (2 503 states) |
| `dlist` | two heads and three nodes, any sequence of init, append, prepend, dequeue and splice | `DListWellFormed`, `ImplementsDListSeq` | pass (8 672 states) |
| `resolve_spec_context` | an event specific context holding a sequence | `EveryReferenceResolved` | violation |
| `resolve_translated_stream` | a translated stream class whose event common context holds a sequence, above one untranslated event class | `TranslatedLayersFrozen` | violation |
| `resolve_shadowing` | all payloads of the first `resolve_walk` family, self-named paths included | `NoSpuriousFailure` | violation |

### What the properties say

- `ResolvedReferenceSound`: at every step, including the partial results a
  failing call leaves behind, each stored path designates the stored class
  in a layer visible from the source. That class lies before the source,
  and it is an unsigned integer or enumeration (for a sequence) or an
  enumeration (for a variant).
- `ScopesOfCurrentLayers`: the context never exposes a scope root of a
  stream or event class other than the current one.
- `ImplementsResolveSpec`: the call succeeds exactly when the abstract
  resolution does, with the same targets.
- `EveryReferenceResolved`: success means every sequence and variant of
  every untranslated layer was resolved.
- `TranslatedLayersFrozen`: nothing is written into a translated layer
  (violated: finding 1).
- `NoSpuriousFailure`: failure means some path has no valid target under
  spec.md §4.

- `TextOnlyInOpenLayers`: at every step, the text pass has written only
  into layers that are not translated, and only on arrays of text elements.
- `TextComplete`: when the pass returns, it has marked every text array of
  every open layer. This includes nested arrays and the event classes of a
  translated stream class.
- `ConfiguredOnSuccess`: when the call returns, the IR trace carries the
  UUID (if any). It also carries exactly the environment entries the loop
  got through, with the later entry winning for a repeated name. The call
  returns 0 exactly when it got through all of them.
- `BlocksDisjointInNodes`: every block `objstack_alloc` returns is aligned,
  lies inside its node's used bytes, and overlaps no other block. This
  holds even when a `calloc` fails partway through a chain of appends.
- `DListWellFormed`: every usable list is a ring that comes back to its
  head, with `prev` mirroring `next`, and no node is on two lists.
- `ImplementsDListSeq`: the pointer operations are the sequence
  operations. A splice puts `add`'s nodes in front of `list`'s, in order.
- `MonotoneTimesNeverAbort`: a caller whose times never go back never
  trips the precondition of `clock.c:192`, whatever else it calls on the
  clock (violated: finding 3).
- `AgreesWithTimegm`: for every valid `struct tm` (fields in range, not
  refused), `bt_timegm` returns the seconds since the epoch of the
  proleptic Gregorian calendar, as `timegm(3)` does.
- `PathsReferencedOnlyByCfg`: when the CLI default call returns, by any
  exit, the plugin path array is referenced only by the configuration
  that kept it, and is freed otherwise.

### Findings

1. **ctf-meta-resolve.cpp:1105.** After setting the event specific context,
   `resolve_event_class_field_classes` resolves
   `CTF_SCOPE_EVENT_COMMON_CONTEXT` instead of
   `CTF_SCOPE_EVENT_SPECIFIC_CONTEXT`. This has two effects:
   - The sequences and variants of an event specific context are never
     resolved, yet the call succeeds (`resolve_spec_context`).
   - The stream's common context is walked again for every untranslated
     event class. If the stream class is translated, its already-resolved
     paths are rewritten, which breaks `TranslatedLayersFrozen`.

   `resolve_translated_stream` shows the second effect. The passing runs
   keep sequences and variants out of specific contexts, and out of the
   common contexts of translated stream classes, so that their other
   checks are not masked by this bug.
2. **ctf-meta-resolve.cpp:388.** The first name is refused only when
   `child_index > src_index`, while spec.md §4.4 requires the index to be
   strictly less than the source's. Take the payload
   `{a: uint, b: {a: seq<uint>[a]}}`:
   - The code takes the inner `a`, which is the sequence itself, and fails.
   - The spec falls through to the outer `a` and resolves.

   In the other direction, `a.a` from a sequence in `a` is accepted by
   the code through its own ancestor, and refused by the spec
   (`resolve_shadowing`).
3. **clock.c:192 (a spec gap).** `set_time` compares `clock->value`, kept
   in cycles of the frequency in force when it was stored, with a value in
   cycles of the current frequency. A caller whose times never go back
   aborts after lowering the frequency between two calls, for example:
   - `set_time(0.3 s)` at 1 GHz;
   - `set_frequency(1)`;
   - `set_time(0.3 s)` again.

   A release build moves the clock back instead. Nothing in the code says
   the frequency must not change once a time is set
   (`writer_clock_rescale`).
4. **native_bt_mip.i.h:162-179 (`compat/utc.h`).** The `bt_timegm`
   fallback is wrong outside 1970-2037 (`timegm_outer`):
   - Before 1970, the leap-day loop counts nothing, so a date lands one
     day late for each leap year between it and 1970.
   - In a leap year before 1970, the month loop reads `year` as left by
     that loop (70), so it gives February 28 days.
   - From 2038-01-19T03:14:08, `total_days * 24 * 60 * 60` overflows `int`
     before the conversion to `time_t`.

## Bounds

Each input set contains these cases:

- **Nesting:** structures two levels deep, and an array of structures, so
  that the stack holds frames with index −1.
- **Shadowing:** two members named `a` and `b` at every level, so a name
  can shadow another across levels.
- **Leaf types:** signed and unsigned integers, enumerations and strings,
  so every type rule can pass or fail.
- **Layers:** two stream classes and two event classes, so a root left
  over from the previous layer would be visible to the next.
- **Paths:** one path per prefix, plus the malformed ones.

Larger trees repeat these shapes.

The other components have their own bounds:

- **`objstack`:** `SIZE_WIDTH = 16` bits and 4 nodes make the node lengths
  128, 256, 512 and 1024. The lengths include:
  - 0 and lengths that need rounding (1, 13);
  - a length that exactly fills what is left of a node (8 after 120);
  - lengths that need one append (200) or two (600).
- **`dlist`:** two heads make splicing possible in both directions, and
  three nodes let a splice join two non-empty lists.
- **`writer_clock_rescale`:** the times are on both sides of 0 and of a
  cycle boundary, and any of the three frequencies can be set before or
  between times, so both a lowering and a raising change happen.
- **`ir_trace_config`:** three entries over two names cover both kinds of
  repeated name, one entry apart and adjacent. A failure can fall before,
  between or after them.
- **`timegm`:** the years cover both sides of the leap-year exceptions
  (1900, 2000, 2100), the leap years 1972 and 2004, and both ends of the
  `int` range (2037, 2038). The days cover the ends of February in leap
  and common years. The refused inputs include one past every range test.
- **`cli_args_default`:** the state is one call. Three directories let an
  append fail before, between and after them.

In the resolver the lookup is a pure function of the stack and the tokens,
and each additional level only repeats one of the cases above.

## Fairness and what is not checked

No run checks a liveness property, and no specification assumes
fairness. Every modelled call is single-threaded and runs to its end on
the caller's thread. Its loops are counted `for` loops over finite
arrays, or the resolver's structural recursion over a finite tree, so
their termination is not in question. Deadlock checking is on in every
run, so no state short of the end is left without a step.

Logging, error-cause messages and the `g_new0` failure path of
`field_class_stack_push` are not modelled: glib aborts on exhaustion
instead of returning NULL.

Three more things are not checked:

- `bt_ctf_clock_class_serialize` prints the `int64_t` offsets with
  `PRIu64` (clock.c:257), and the description without escaping
  (clock.c:249). It is not modelled: no property could say what the text
  should be, because that depends on the TSDL reader, which is not in the
  repository.
- The SWIG typemaps of `native_bt_mip.i.h` depend on the order in which
  the SWIG generator emits them.
- The clock correlation validator's state machine is not in the
  repository.


## Not modelled

Each remaining component is left out for a stated reason:

- **`lib/logging.c`:** one global integer. A constructor sets it from
  `LIBBABELTRACE2_INIT_LOG_LEVEL` at load time, a setter writes it, and
  getters read it. No sequence of these calls can reach a wrong state
  that a single assignment does not already show.
- **Clock correlation validator (`part_004`):** only the class
  declaration is present. `_validate`, the state machine, is defined in
  a file this excerpt does not carry, and spec.md does not describe it.
- **SWIG glue (`native_bt.i`, the typemaps of `native_bt_mip.i.h`):**
  what they do depends on the code SWIG generates around them. One
  example is the order of the argout typemaps, which decides whether
  `$result` is still the status when the user-data typemap reads it.
- **Declaration-only files:** `py-common.h`, `ctf-meta-visitors.hpp`,
  `fs-src/metadata.hpp`, the public logging and version headers and the
  compiler and zephyr helpers declare functions and macros, with no body
  to translate.
- **Test scripts:** not part of the implementation.

## Further work

1. **`WriterClock`:** a statement on negative times, if one can be
   justified from the code's callers.
2. **`BtTimegm`:** the `-1` return is ambiguous with 1969-12-31T23:59:59,
   which only the callers (not in the repository) can resolve.
