# TLA+ for wirespec

wirespec compiles a description of binary formats and protocol state machines
(`.wspec`) into C, Rust and TLA+. The modules here model the compiler, from the
search for the modules of a project to the files it writes, the code it
generates, which parses, serializes and runs state machines, the TLA+
specification generated for the same machines, and the offsets the language
server works with. All paths below are relative to `src/`.

## 1. Inventory

| Component | State | Operations | Talks to |
|---|---|---|---|
| Module resolution, `crates/wirespec-driver/src/resolve.rs` | `resolved`, `in_progress`, `order`, the recursion of `visit` | `resolve`, `visit`, `find_module`, `get_exportable_names` | file system; the pipeline consumes `order` |
| Pipeline and type registry, `driver.rs`, `pipeline.rs`, `wirespec-sema/src/resolve.rs` | `ExternalTypes`, a flat map from a type name to its kind; the modules compiled | compile a module, register its types | resolution; the analyzer |
| `wirespec compile`, `cli.rs`, header of the C backend | the module being emitted, its artifacts, the output directory | select, order the structs, emit, write | pipeline; file system |
| Analyzer, `wirespec-sema/src/analyzer/` | type registry, collected errors | registration, lowering of types, expressions, machines; delegate acyclicity | code generators |
| Rust state machines, `wirespec-backend-rust/src/emit.rs` | the machine: a state, its fields, its child machines | `new`, `dispatch` | application; child machines |
| C state machines, `wirespec-backend-c/src/{source,header}.rs` | the same, as a tagged union | `_init`, `_dispatch` | application; child machines |
| TLA+ backend, `wirespec-backend-tlaplus/src/emit.rs` | variable `sm` of the emitted specification | one action per (state, event) | `wirespec verify`, TLC |
| Codec lowering and layout, `wirespec-codec`, `wirespec-layout` | none that outlives a call | field strategies, bit groups, checksum plans | code generators |
| Generated parsers and serializers, Rust and C | cursor, partly built value, bytes written | `parse`, `serialize`, `serialized_len`, variable-length integers, bit groups, checksums | the runtime; each other over the wire |
| Runtime, `wirespec-rt/src/lib.rs`, `runtime/wirespec_runtime.h` | `Cursor` (data, position), `Writer` (buffer, position) | reads, writes, sub-cursors, checksum verify and compute | generated code |
| Language server, `wirespec-lsp` | map from a document to its text; what is shown | open, change, close, requests | editor; the lexer |
| Lexer and parser, `wirespec-syntax` | position in the text | tokenize, parse | everything above |
| `check`, `verify`, ASN.1, backend interface | none that outlives a call | | an external process |

What is hard:

* **One dispatch is many steps.** A delegating transition copies the machine,
  forwards an event to a child, and may dispatch `child_state_changed` on the
  copy before committing it. Each step can fail. The application must see
  either the whole effect or none, and the child's move must not go unnoticed.
* **Order decides.** Transitions of one state and event are tried in source
  order; wildcards are expanded into the same list; actions run in one order in
  C and in another in Rust.
* **Several translations of one declaration.** The Rust machine, the C machine
  and the emitted specification are written by three code generators, each
  format by two with three functions each. What was verified is only worth
  something if it covers what runs, and what one end writes the other must read.
* **Scopes inside scopes.** Sub-cursors, lengths read from the input, bit
  groups, optional fields and checksums combine freely, in declarations nobody
  wrote a test for.
* **Depth-first search with shared state.** `visit` recurses while it edits
  three collections; cycles, diamonds, two names for one file and errors deep
  in the recursion all have to leave the right order or the right error.
* **One flat registry.** All modules compiled so far share one namespace, looked
  up by the bare name; only the order of compilation and the duplicate checks
  keep an import pointing at the module it names.
* **Hash order.** Kahn's algorithm takes its nodes and edges from hash maps.

`PROJECT.json` lists each hazard at the line where it bites, and the properties
that watch it; the few without a property say why.

What makes each component correct: for the machines, errors are atomic,
terminal states final, concrete transitions beat wildcards, no field is left to
chance, a forwarded event reaches exactly its child, and the parent reacts to
the child's move exactly once. For the two targets, the same calls succeed and
lead to the same state. For the emitted specification, it allows everything the
code does. For the codec, what is serialized is read back as the same value by
either language, the length is what is written, and no read leaves its scope.
For resolution, each needed module appears once and after its imports, cycles
are errors, and every error has its cause. For compilation, an imported name is
the imported module's type, containment is well founded, and what lands on disk
fits together even when a write fails. For the server, no offset lies inside a
character and the places it reports are those it answers for.

## 2. Modules

```
SmSema            machines: declarations, lowering, the analyzer's checks
  SmRust          the Rust machine            SmPrograms   machines to check on
    SmTargets     Rust and C side by side     (INSTANCE SmC)
    SmVerified    Rust implements SmTlaplus   (INSTANCE SmTlaplus)
      SmProofs    theorems about the machine and both comparisons
  SmC             the C machine
  SmTlaplus       the emitted specification

Runtime           cursor, writer, checksums
  Layout          bit groups
    CodecIR       declarations and their lowering
      RustParser, CParser           the generated parse functions   (over Varint)
      RustSerializer, CSerializer   the generated serializers       (over Varint)
      Sema        what the analyzer accepts
        Typing    what rustc and the C compiler ask of the generated code
  Varint          variable-length integers
Codec             the round trip              (EXTENDS Sema, INSTANCE RustParser, CParser)
  ParserProofs    theorems about the Rust parser; the reads of both  (EXTENDS Typing)
    CodecProofs   theorems about both parsers
Folding           what a fold over a sequence keeps, for the proofs

Imports           a project on disk and its import graph
  ImportOrder     what resolution promises (abstract)
  Resolve         the search (INSTANCE ImportOrder)
    Pipeline      the modules compiled in that order (EXTENDS Kahn)
      Cli         the files written
    ResolveProofs theorems
      PipelineProofs    theorems about the composition and the files written
Kahn              Kahn's algorithm
NatSets           least and greatest elements, for the proofs

Lexer             tokens of a text
  Editor          documents, positions, comments, semantic tokens
    EditorProofs  theorems about every text
MCSmRust, MCSmTargets, MCSmVerified, MCCodec, MCCompile, MCEditor   instances for TLC
```

**SmSema** is `lower_state_machine`. A program is a record with the declared
states, fields, defaults, child slots and transitions in source order. `Covers`
is the expansion of a declaration into (state, event) pairs with the wildcard
rule; `FirstArm` is the arm of the generated `match` or `if` chain that decides
a pair. `Accepted` collects the analyzer's rejections, one named operator per
check. Guards and right-hand sides are the forms the examples use: comparison of
a field or parameter with a literal, `in_state`, `all(...)`; literals, a field
plus a literal, a parameter. Scalars are integers modulo `W`, as a fixed-width
unsigned integer is in a release build.

**SmRust** has the machine `m`, the result `ok` of the last `dispatch` and the
call. `PlainCall` is an arm that builds a new state (guard, fields from actions,
source, defaults or 0, child slots, slot stores, commit); `DelegateCall` is a
delegating arm (guard, slot, ordinal-to-event table, child dispatch, change
test, nested `child_state_changed`, commit). Each is one action, because
`dispatch` holds `&mut self`: nothing observes the machine in between, and the
steps inside are operators (`Forwards`, `WithChild`, `AfterNotify`) in the order
of the code.

**SmC** is the same for the C backend. The destination is an uninitialised
local, so a dispatch has a *set* of outcomes, one per content of the stack. The
two ways in which it reports a false guard are kept apart (`GuardCode`), as is
the one error the delegate code forgives (`NotifyCode`). The caller of the C
code initialises child machines; `CInit` assumes it calls their init helpers.

**SmTargets** feeds Rust and C the same calls. It is restricted to declarations
whose meaning does not depend on the target (`Portable`); the conditions list
where the two generators differ: fields no action assigns, a compound operator,
slot stores before the array or outside it, a filled or copied array of another
length than the destination's, `all()` guards, child events with parameters.

**SmTlaplus** is the specification the TLA+ backend writes, as a TLA+
specification: `Mk`, `TlaInit`, one disjunct per guarded transition,
`ChildDispatch` without the child's guards, parameters and ordinals from
`0..Bound-1`. **SmVerified** is the refinement: `Abs` maps a Rust machine to a
value of `sm`, and `CodeIsModelled` says that every call is a step, a stutter,
or, when a forward raises `child_state_changed`, two steps. `Emittable` and
`ReadAlike` restrict it to declarations for which the backend emits a
well-formed specification and reads the actions as the other backends do.

**Imports** is the disk: directories, relative paths, `find_module` with its
search order and its `a/a.wspec` fallback, `get_exportable_names`, and the graph
these define (`Dep`, `Reachable`, `Cyclic`, `Sound`), the reference against
which the search is judged. **Resolve** makes the recursion of `visit` explicit:
a frame per activation, an action per stretch between two calls.
**ImportOrder** is the abstract specification: any order in which modules follow
their imports, ending with the entry, or an error for which some reachable file
gives cause.

**Runtime** has bytes of `ByteBits` bits. A cursor is a window of the input
with a position in it, a writer the bytes so far and a capacity; a slice is kept
as where it lies, so that a property can ask whether it left its window.
**Layout** is the detection of bit groups and the container they are read in,
**CodecIR** the lowering: an item is a field with its strategy, a `let` or a
`require`; an expression is about one field read before. Integers have the width
of the field they come from: a difference wraps there (`Less`), as it does in a
release build of the Rust code. **Varint** holds the prefix and the continuation-bit
encoding: parse, serialize and length of either language.

**RustParser**, **CParser**, **RustSerializer** and **CSerializer** are the
functions the two backends generate. Each
strategy of `parse_emit.rs`, `serialize_emit.rs` and the functions around them
(`emit.rs`, `source.rs`) has its operator, and a packet folds them over its
items in the order of the generated statements, with the error of the first
failing one. They are written separately, because they are generated by separate
code: the C code, for instance, reads into the output object, checks for trailing data in a capsule's payload and rewrites the
cursor's name in generated text; it computes what is narrower than its `int`
(`IntBits` wide) without wrapping (`Promoted`) and casts to `size_t` (`SizeOf`) or,
a count, to 32 bits (`CountOf`). A state of a parse has, besides the cursor and the variables, the functions of the
other declarations (`calls`): a call passes a cursor and gets one back, so the
parsers of types nested n deep are a function built from those nested n - 1 deep
(`Generated`), up to `MaxNesting`, and nothing here is a `RECURSIVE` operator. The
serializers are, and are kept apart for that reason: `Codec` takes them as operator
constants (`SerializeBy`, `LengthBy`), which `MCCodec` gives. **Sema** says which
declarations are accepted, **Typing** what the target compilers ask beyond that.
**Codec** composes them: an accepted declaration, any short input, a parse,
a serialize, a parse and a serialize, the second half in either language. Its
steps are the phases of the fuzz harness the C backend generates.

**Kahn** is one run of the algorithm, `[deg, queue, done]`, with every order the
hash maps can give; the analyzer's and the C backend's loops are both it.
**Pipeline** continues `Resolve`: for each module of `order` the analysis
(duplicate names, types of fields, aliases to a depth), one `PopMachine` per
turn of the delegate loop, and `CompileModule`, which judges it and registers the
module's types. **Cli** continues with `cmd_compile`: the directory, then for
each module the skip or the emission, the structs of a C header one
`PopStruct` at a time, and one `Write` per file, any of which may fail. A run of
`CSpec` is thus a whole `wirespec compile`, and the properties of `Resolve` are
checked in the same run. Of a file only what the properties need is kept: the
includes of a header, the order of its structs, and the names of types in them.

**Lexer** is `lexer.rs` over a text as a sequence of bytes: kind and span of each
token, comments skipped, the place of an error. **Editor** is the document of the
language server, with text typed at its end character by character (so every
text is reached), the diagnostic shown for a text that does not lex, and what
the handlers compute of a text: positions, words, comments, delta encoding.

## 3. Runs

| Run | Instance | What it shows |
|---|---|---|
| `sm_rust` | `MCSmRust` | the eight properties of a generated Rust machine |
| `sm_targets` | `MCSmTargets` | Rust and C agree on portable declarations |
| `sm_verified` | `MCSmVerified` | the Rust machine implements the emitted specification |
| `codec` | `MCCodec` | round trip within and across the languages, equal verdicts, exact lengths, reads confined to their scope |
| `compile` | `MCCompile` | `wirespec compile` from the first `visit` to the last write: resolution, the refinement of `ImportOrder`, registry, delegates, headers, termination |
| `editor` | `MCEditor` | offsets, comments and semantic tokens on every short text |
| `sm_retry` | `RetryOnly` | violation: only the first guarded transition is tried |
| `sm_csc_verdict` | `ConnectionOnly` | violation: C reports an error for an event it committed |
| `sm_ticker` | `TickerOnly` | violation: liveness of the emitted specification does not carry over |
| `codec_sums` | `MCCodecSums.cfg` | violation: C writes a bit group once per member in a packet with a checksum |
| `codec_forward` | `MCCodecForward.cfg` | violation: a `require` on a later field is accepted |
| `compile_names` | `MCCompileNames.cfg` | violation: a C type name no header declares |

**Machines checked.** `SmPrograms` has nine: the guarded retry machine of the
backend's tests, a level with a parameter, raised by `=` or by `+=`, a parent
with one child in three variants (parameters, a counting
`child_state_changed`), and the two connections and the container of
`examples/mpquic` with two slots each. To these `MCSmRust` adds every
declaration of a grammar with three states, two events, wildcards, two guards
and up to one action per transition, two transitions each, that the analyzer
accepts. Two transitions are the least for which order, wildcard against
concrete and guarded groups matter; the longer ones come from the examples.
`W = 4`: counters reach their guards (2 or 3), wrap, and ordinals 0..3 include
one that no child event has (a child has three). `MaxIndex = 2` (1 in
`MCSmVerified`): two slots and an index outside. `Bound = 4` covers all ordinals.

**Formats checked.** Bytes have two bits, words eight (`ByteBits = 2`,
`WordBits = 8` for the code's 8 and 64), so that a word is four bytes, one more
than the widest field, and every input can be tried. Every declaration of up to
three items from an alphabet of fifteen that the analyzer accepts, on every
input of up to three bytes: three items are the least for a group of bits
between two others, or a length, its bytes and what follows. Eighteen chosen
declarations, on every input of up to four bytes, have what the alphabet cannot
build: frames, capsules, nested packets, arrays within a length, optional
fields, both checksums, variable-length integers of both encodings. An `int` has
half a word's bits (`IntBits = 4` for 32 of 64), two bytes, so that there are fields
narrower than it, as wide and wider, and counts that it cuts; a chosen declaration
subtracts from a field as wide as it, with no `require`, and wraps. Of the words over
the alphabet the run keeps those whose `let`s and `require`s stand behind the field
they read (`Late`), because the analyzer does not ask for that: what happens without
it is `codec_forward`, and `ReadsAreBound` in `codec` is about all other reads.
`MaxNesting = 2` is more than the declarations nest; that they do not nest deeper is
an assumption TLC evaluates (`NestingAssumption`), as is that each accepted one
whose reads are bound (`ReadsAreBound` says that all are) is `Typed` and
`Portable`, the hypotheses of the theorems (`SoundIsPortable`). `MaxCases = 2` (4096 in the code) lets a range be tested in the `default` of a C
switch, `MaxOutput = 16` is larger than any output.

**Projects checked.** All graphs on three files with up to two imports each, one
file readable or malformed, which has every cycle length up to three, diamonds,
self-imports and repeated imports. For one importer, every subset of three
places for a file in two directories, two of them the same file, with every
include list, export set and pair of imports. What a name can be: a packet,
integer, machine, alias or const, declared, imported, imported from the wrong
module, aliased twice, in a circle, beyond the depth (`AliasDepth = 2` for 32).
Module names that collide as paths, both targets, `--recursive`, the fuzz
harness and a disk that may be full. Every graph of three machines, and of three
structs. Three files suffice for a path, a cycle beside it and a shared module.

**Texts checked.** Every text of up to five of eight characters: a letter and a
digit (both hexadecimal, `0b` a prefix), a quote, a backslash, both comment
signs, a newline, and a character of two bytes. Five make an escaped quote in a
string with something behind it, or a comment between two lines.

**Fairness.** Safety runs use none. `compile` has weak fairness of `CNext`: the
command is one sequential process without input, run to its end, and each step
is either enabled forever or taken. `sm_ticker` assumes that the caller keeps
raising every event it can raise (`child_state_changed` is raised by the machine
only); the machine itself takes no step unasked, so this is what liveness of the
emitted specification (`WF_sm(Next)`) has to mean for the application. Deadlock
is checked where the system never ends; the codec runs end with the round trip
and the compile runs with the command.

`CodeIsModelled` is stated with the two-step action in its box, so it is a safety
refinement; the fairness of the emitted specification is exactly what
`sm_ticker` shows not to follow.

## 4. Proofs

All theorems hold for every value of the constants, under the assumptions named
in the modules: `W` and `Bound` positive, programs `Compilable`, projects
`WellFormed` (what a disk and a parsed file always are) and `Described` (each
file has finitely many declarations), `AliasDepth` a natural number, module names
sequences (`CliAssumption`), characters typed in UTF-8 (`EditorAssumption`),
no type that holds itself (`NestingAssumption`). Three groups of theorems have a
hypothesis more, which the run beside them satisfies: the comparison with C holds
for `Portable` declarations; the refinement of the emitted specification for
`Verifiable` ones and value domains that hold the scalars (`W <= Bound`; with a
smaller bound the emitted specification lacks values the code has); the theorems
about the parsers for declarations that are `Typed`, those about both of them
also `Portable`. The last two are about declarations and say nothing of a parse:
a size, a condition or a tag is computed from integers read before it, without
which the generated code does not compile; and the declaration avoids the places,
listed in section 6, where the two generators give it different meanings.

*`SmProofs`, the Rust machine.* The inductive invariant is `TypeOK` with `prog \in Programs`.
It is stronger than it looks: that the machine is a value of its enum depends on
the analyzer's check that every lowered arm assigns the fields it enters, and on
slot stores and forwards staying in range. The lemmas go bottom-up: a right-hand
side is in range, a field, the children, a new state, `PlainDispatch`, the
child's result, `DelegateDispatch`. From it follow the seven action properties:
`ErrorAtomic`, `TerminalFinal`, `WildcardPriority`, `NoUnassignedField`,
`OneSlot`, `ParentFollowsChild` and `NotificationDelivered`.

*`ResolveProofs`.* `TypeOK`, `EachModuleOnce` and `CallsFollowImports` are not
inductive alone. `IInv` adds that a frame's earlier imports are resolved and
visible and its file reachable (`FramesDone`), and that `in_progress` is the set
of files on the stack (`StackIsInProgress`), which is what makes the cycle test
complete. Each kind of step (fail, push, advance, finish) has its lemma. The
refinement `ResolveStepsAreAllowed` rests on two facts: a finished frame has all
its imports in `order` (`FinishAdds`), and a file met again on the stack closes
a circle of reachable files (`CircleFound`). `VerdictIsCorrect` adds to the
invariant (`VInv`) that modules stand behind their imports, are sound and
reachable, and that an error has a cause. When the entry is in `order`, the set
of resolved files is closed under imports and so holds all reachable ones, and
positions in `order` rank them: a circle would have a member before itself.

*`PipelineProofs`, Kahn's algorithm.* `KahnIsRight`: on a finite graph, every run that ends has popped
all nodes exactly when the graph has no circle, and each node after its
predecessors. The invariant `KInv` is the algorithm's bookkeeping: an in-degree
counts the predecessors not yet done, the queue holds the nodes that are not done
and whose predecessors are, `done` is ordered. Both steps keep it whatever order
the hash maps give.
If nodes are left, each has a predecessor that is left, so a circle exists; a
circle has no node whose predecessors can all be done before it.

*`PipelineProofs`, the registry.* The composition's invariant `PInv` is the `IInv` of
resolution together with: each module stands behind its imports (`DepsFirst`,
which the refinement gives when resolution has ended), `PipelineTypeOK`, between
a module's analysis and its registration none of its names is taken
(`NamesAreFree`), the types of compiled modules are registered as theirs
(`TypesRegistered`), and `ImportsMeanTheirModule`. The last is not inductive
alone: that the flat registry gives an import its own module's type needs that
the module was compiled before, and that nobody replaced the entry since.
`RegistryOnlyGrows` follows from `NamesAreFree`.

`ImportsSuffice` turns a name's registration into acceptance: in a project whose
modules declare distinct names and import what they use, no module is refused.
`WInv` adds that the registry has each type with its declared kind, and that a
refusal has its cause. `MachinesAreWellFounded`: no machine is its own
descendant, over all modules. Within a module that is `KahnIsRight`. Across
modules: a compiled machine and its children are registered, and no later module
declares such a name, so a circle through several modules would, at the one
compiled last, be a circle within it.

*`PipelineProofs`, the files written.* The four invariants of the output directory. None is inductive
alone, because what is on disk was decided when it was emitted, steps before it
was written, and any `Write` may fail in between. `CliInv` therefore follows an
artifact from emission on: every pending or written file is one of its module's
(`ToWrite`, `OnDisk`), a header's structs are in the order the struct sort gave
(`SortBooks` is Kahn's invariant while it runs), its includes are the imports
recorded at compilation and a name gets another module's prefix exactly if it was
imported (`NamesDeclared`), and imports are of earlier modules
(`EarlierImports`), whose headers with `--recursive` are there (`EarlierHeaders`).
`IncludesAreThere` is about the names a module declares or imports: one it has
only from the flat registry gets its own prefix, and no header declares that.

*`SmProofs`, Rust and C.* They stay the same machine (`MachinesAgree`), accept
the same calls (`VerdictsAgree`), and C's errors are atomic
(`CErrorKeepsMachine`), whatever the fresh destination of a C dispatch holds.
The invariant is `SameMachine` and `SameVerdict` with the type invariant and the
child array at its full length (`Full`), without which a slot store or a forward
could be in range for one and not for the other. The heart is `SameDestination`:
after the first k assignments of the C code the fields and children they name
are those Rust builds (`Progress`, by least counterexample over k), and a
portable transition names all of them. `SameNotify` shows why C, which commits
before `child_state_changed`, still ends in Rust's state with Rust's verdict.

*`SmProofs`, the emitted specification.* `CodeRefinesSpecification`: the step simulation. `new()` is
one of the initial states of the emitted specification, a plain dispatch one of
its transitions, a forward one of its delegate steps, and the notification the
`child_state_changed` step after it. A guard may ask after a child, so the
invariant says that a state with a place for children has one (`KidsThere`);
that no right-hand side wraps around is where the guards of `ReadAlike` enter
(`SameValue`).

*`EditorProofs`.* The inductive invariant is `EditorTypeOK`; it makes the text a
sequence of bytes in which those that continue a character follow its first
(`Encoded`), and the other four invariants hold of every such sequence. The
lexer and the scan for comments are recursive functions that jump ahead in the
text by as much as a token or a comment is long. Two lemmas stand for induction:
`Backwards` (a set of offsets that holds each one behind which it holds all
others is everything, by the greatest counterexample) and `ScanExists` (such a
function is defined everywhere), from which each function gets a lemma that
unfolds it once. With them:

* `SlicesAreWhole`: tokens begin and end between characters (`TokenFacts`), and
  so do errors, also one found behind a backslash, since an escape is ASCII.
* `RoundTripsAlways`: lines and their starts grow with the offset, so that no
  earlier character has the line and the column of a later one.
* `DeltasAlwaysDecode`: sorted offsets have positions that do not go backwards,
  and adding up the differences gives them back. It needs no error-free text.
* `CommentsAlwaysAgree`: from every place the lexer gets to, both scans find the
  same comments. A string ends at the same byte for both (`StringsAgree`), no
  other token holds a quote or the start of a comment (`TokenIsQuiet`), and a
  comment ends before any that begins in it (`LineEndsAgree`).

*`ParserProofs`.* A parse is a fold over items, which nests folds over arrays and
parses of other declarations. `Folding` makes induction along a fold a matter of
one step: the state after each element is a value of a function (`FoldRuns`),
and what every step keeps the whole fold keeps (`FoldKeeps`, by `Upwards`, least
counterexample). The step is a constant operator of `Folding`, so each fold of
the parser is an instance of it. What is kept is that a state is `Sane` (the
cursor is a window of the input, every slice handed out lies in its scope and
before the cursor, the parse functions it can call keep the same) and was reached
by moving forward (`Moves`, `Reads`). That this is inductive needs to know that
sizes are integers and no variable is missing: `Between` says what is known
between two items, that the variables of the earlier ones are there with values
of their kind, and that the members of a bit group met before are bound
(`GroupsKnown`). `GeneratedLeave` goes up the nesting of types. It follows that
the Rust parser uses no more than the input (`RustTypeOK`) and that no slice
leaves its scope (`RustViewsInScope`).

*`CodecProofs`.* One statement has the rest. Let the Rust code parse an input and
the C code what is left of it when it is cut off after m bytes; wherever the Rust
code is at m at most, the C code is at the same place with the same variables and
the same value (`Pair`, `Follows`), and if nothing was cut off they fail with the
same error. The operators of the two parsers are different definitions that fold
over the same items, so the two folds are run in step: `NumberFollows`,
`ValueFollows` and so on to the arrays (these are at the end of `ParserProofs`),
then the fields, up to `FrameFollows` and `CapsuleFollows`, then through
the nesting (`GeneratedAgree`) and the checksums (`ParsersAgree`). Where they
part ways is where `Portable` is used: C switches on ranks of patterns and Rust
takes the first (`ArmsAgree`), C forgets bit groups in a payload and measures
what remains there on the outer cursor (`InnerItemsFollow`), C demands that the
payload is used up (`PayloadFollows`), C promotes (`PromotedAlike`). For the last
the induction carries the `require` that stands directly before an item: it has
held when the item is read (`Held`), so that a size that is a narrow difference is
not below zero. With m the length of the input it is
`CodecBackendsAgree`: same verdict, error, value, number of bytes and slices. With
m the number of bytes consumed, once against either language, it is
`CodecNothingBehindIsRead`. As the languages do not differ, the two theorems about
the Rust parser become `CodecTypeOK` and `CodecViewsInScope`. Why the input is cut
off at any m, and not where the parse ends, is that a scope in the middle of it
must be kept when the parse goes on behind.
`CodecReadsAreBound`: what the analyzer accepts reads no variable too early, if
its `let`s and `require`s do not; the run `codec_forward` is the counterexample
without this hypothesis.

*Only model-checked.* Liveness (`ExitsAtLast`; `ImplementsImportOrder` includes
termination, its safety half is proved), because the prover has no ENABLED.
`RoundTrips`, `ValueSurvives` and `LengthIsExact`: what a serializer writes for a
value that nests values of other types is defined by `RECURSIVE` operators over
the value, which the SMT backend does not take. The parsers could do without,
because the depth of the calls is bounded and their arguments are finite; the
arguments of a serializer are values.

## 5. Findings

* `sm_retry`: the analyzer admits several guarded transitions of one state and
  event ("All guarded -- allowed. TLC will verify exclusivity.") and the TLA+
  backend emits them as alternatives, but the Rust and C code return an error as
  soon as the first guard is false.
* `sm_csc_verdict`: with an `all()` guard on `child_state_changed`, C commits
  the child's move and then returns `WIRESPEC_ERR_CONSTRAINT`; Rust returns Ok.
* `sm_ticker`: the emitted specification fires `child_state_changed` on its own;
  a comment calls that sound for liveness. A parent waiting for a child that
  never changes state is verified to finish, and never does.
* `codec_sums`: in a packet with a checksum, C and Rust both write a whole bit
  group once for each of its members; the parser and the length count it once.
  `examples/ip/ipv4.wspec` has this shape. The harness generated beside the code
  says "Re-parse our own output -- must succeed".
* `codec_forward`: `require` and `let` may read a field declared after them; a
  comment says that forward references are caught earlier. The C code then tests
  a member it has not assigned.
* `compile_names`: a packet's field of an imported packet type is declared with
  the importing module's prefix, a type no header declares;
  `build_import_prefix_map` exists to avoid this but only state machines use it.

Where the generators differ without a document saying otherwise is written into
`Portable`, `Emittable` and `ReadAlike` rather than reported: C leaves an
unassigned default field uninitialised on a transition, the emitted specification ignores compound
operators and the width of integers, Rust's `new()` leaves an array of children
empty where the specification has all its slots.

Met while modelling, and without a run of their own:

* The comment "Register exported types" (`driver.rs`) stands over code that
  registers types that are not exported too. Aliases and consts can be imported
  but are never registered, so using them is an error.
* `wirespec-sema/src/resolve.rs:46` says that external types do not conflict with
  local declarations because of the order; a local declaration with the name of
  a type of any earlier module, related or not, is refused as a duplicate.
* `check`, `verify` and the language server analyze a file without the registry,
  so a file with imports that `compile` accepts is refused there.
* A machine may use a type its module neither declares nor imports, if a module
  compiled before has it. Its header then names the type with its own prefix
  (`unwrap_or(prefix)`, `header.rs:304-325`), which no header declares.
* A size or count `f - n` with no `require` before it is wrapped to the width of `f`
  by Rust (or panics, in a debug build) and promoted to `int` by C: where `f` has 8
  or 16 bits the two read a different number of bytes. All examples have the
  `require`. A count wider than 32 bits, such as `ack_range_count` in
  `examples/quic/frames.wspec`, is cut to 32 by C, and by Rust only where `usize` is.
* The type of a state's field that does not resolve silently becomes one byte.
* `verify --run-tlc` succeeds when TLC fails or cannot be started.
* The lexer turns each byte of a string literal into a character of its own.
* The search for a declaration's name (`goto_definition.rs`,
  `document_symbols.rs`) starts at its keyword: the name `a` of `packet a` is
  found inside the keyword. The length of a string's semantic token is that of its
  unescaped value.

## 6. Left out, and abstractions

* Children of children: `child` programs are flat. The code recurses through the
  same `dispatch`; the parent's view of a child is the same at every level.
* A state has at most one child field, scalar or array. Constructor arguments
  are 0. Of the compound operators only `+=`. Transitions read one parameter; a second one is the index.
* Debug-build overflow panics; arithmetic wraps at the width of its integers. Of
  the formats' expressions those the examples use: no negative literals, and no
  operators besides those listed in `CodecIR`.
* In C, indeterminate storage is any value of its type; an uninitialised tag
  inside a child is any state. Writing `fill` or a slot store past the array is
  excluded by `Portable` and by the machines chosen.
* A path that cannot be canonicalised is an unreadable file; nothing changes the
  disk during resolution; parse errors are one kind.
* Codec: signed integers, flags, ASN.1 payloads and CRC-32 (accepted as a name
  only); continuation-bit integers as wide as the word.
* What the runs' declarations avoid, because the generated code does not compile,
  or because Rust and C differ and no document says which is meant: bit fields
  in a packet with a checksum (kept for `codec_sums`), groups that fill their
  container only in part, fields of the same name, several checksums or
  `bytes[remaining]` in a capsule's header, bytes with a condition, an optional
  field as a plain length, a capsule's payload that is not read to its end (C
  refuses the rest), overlapping tag patterns, a packet with a checksum inside
  another (C does not verify it), continuation-bit integers declared big, arrays
  without a count in a capsule's payload. `Portable`, and with it the theorems about
  both parsers, leaves them out too, and a narrow difference that no `require`
  directly before it keeps from wrapping, and counts wider than an `int`. `Typing` admits more than the
  target compilers do (an optional enum, for instance): the theorems are then about
  code that does not exist.
* Registration of ASN.1 paths; how an error is worded, and which of several is
  reported. Writes fail only as a whole.
* Lexer: integer literals have no value, so none is too large; keywords are
  names; no NUL and no carriage return. The document is never edited in the
  middle, since the client sends it whole.

Not modelled:

* *The parser.* A recursive descent with no state but its position; its inputs
  are token sequences too long to enumerate, and its output is the declarations the
  other modules start from.
* *The order of notifications in the language server.* Each handler stores the
  text and analyses it before its only `await`; in which order two are run is
  decided by `tower-lsp`. Hover, completion, definitions and symbols are pure
  functions of the parsed text.
* *`check` and `verify`.* One file, no registry; an external process whose result
  does not reach the exit code.
* *ASN.1 compilation*, a call of an external compiler behind a feature flag, and
  *the backend interface*, traits and data without behaviour.
* *Expression typing and layering warnings* of the analyzer.

## 7. Plan

The order is by how much a wrong behaviour would cost a user and how hard it is
to test.

1. *(done)* State machines: `SmSema`, `SmRust`, `SmC`, `SmTlaplus`, the two
   comparisons, proofs about each.
2. *(done)* Module resolution: `Imports`, `Resolve`, `ImportOrder`, proofs.
3. *(done)* Runtime and codec: `Runtime`, `Layout`, `Varint`, `CodecIR`,
   `RustParser`, `CParser`, `RustSerializer`, `CSerializer`, `Sema`, `Codec`.
4. *(done)* Compilation: `Kahn`, `Pipeline`, `Cli`, proofs about the registry,
   the imports and the delegates.
5. *(done)* Lexer and language server: `Lexer`, `Editor`.
6. *(done)* Proofs about the verdict of resolution, what compiles, the files
   written, Rust against C, Rust against the emitted specification,
   every text a client can type, and the parsers of both languages.
   Next: a serializer writes what its parser reads, along the same folds; for it
   the serializers have to be functions of the depth of a value.
7. Further models: structural reachability of states, groups of 24 to 56 bits,
   a second level of children.
