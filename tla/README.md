# TLA+ models of the Nutanix v4 API MCP server

This directory holds TLA+ specifications of the program in `src/`, TLC
configurations that check them on small instances, and proofs that TLAPS checks
for instances of every size. `PROJECT.json` maps each definition to the lines it
models and each property to a mutation of the model that breaks it.

## The system

`nutanix-mcp` serves the Nutanix v4 REST API to language-model clients over the
Model Context Protocol. It downloads OpenAPI documents ("artifacts"), turns their
operations into tools, and executes tool calls against Prism Central.

| component | state it keeps | operations | correct when |
|---|---|---|---|
| artifact download (`src/pull_from_developers_api.py`) | the files of `artifacts_dir`, and of `artifacts_dir/.refresh_backup` | `init` adds what is missing, `refresh` replaces; per namespace: version, skip or download, write, validate; restore and clean up | no failure and no crash loses a namespace's last good artifact; what was not refreshed is as it was; no old version stays beside a new one |
| command line (`src/cli.py`) | `.env`, exit status | `init`, `refresh`, `run`, `serve-stdio`, `serve-http`, `--validate-only` | the exit status says whether a server could start |
| container entrypoint, service unit (`docker-entrypoint.sh`, `docs/deployment.md`) | none | `init` when the directory is empty, then the server; a unit restarts on failure | a started container has artifacts; a unit that failed ends up serving a healthy directory |
| artifact selection and loading (`src/server.py`) | chosen directory, files parsed | choose runtime or bundled, list, parse, build tools | nothing that can be served is passed over, or the start fails |
| operation catalog (`src/parsers/yaml_parser.py`, `src/generators/tool_generator.py`) | the list of operations, with unique names | name variants, list and rank, look up | every listed operation can be found and executed, under a name that is its own and stays |
| schema resolver (`src/generators/schema_resolver.py`) | `_cache`, the recursion's `seen` sets | `resolve` | it ends on cyclic schemas and answers the same whoever asked before |
| dispatch and execution (`src/tools/runtime_dispatcher.py`, `src/handlers/api_handler.py`) | none between calls | refuse, build the request, send, answer, time out | read-only means read-only; an update replaces what was read; a retry under one id happens once; every call is answered |
| transports (`src/mcp_stdio_server.py`, `src/mcp_http_server.py`) | the event loop's order | `call_tool`, `/health` | a call that blocks the loop does not block it for ever |
| startup readiness (`src/auth/readiness.py`) | none | probe Prism Central up to three times, classify the failure | each failure has its class and exit path |
| settings (`src/config/settings.py`) | the merged settings | environment, `.env`, file, command line | what is saved comes back, and a switch thrown once does not stick; credentials stay with their host |

How they meet: a command and a server share the artifact directory, with no lock;
the server loads it once, when it starts. The catalog, the resolver and the
dispatcher are built from what was loaded and live as long as the process. All
clients share one event loop, and `call_tool` runs on it without awaiting, so the
calls are served strictly one after the other. Prism Central is shared by all
clients, and may execute a request after the server stopped waiting for it.

What is hard to test: a crash or failure between any two file operations of a
refresh; a command writing while a server lists and parses; cyclic schemas asked
for in different orders; a write that is executed after its timeout, while the
client retries; operations and schemas that share a name across files. The full
list, at its lines, is under `hazards` in `PROJECT.json`.

## Modules

**ArtifactStore** (with **ArtifactPromise**) models `download_yamls`. The two
directories are functions from files to contents; a file is a namespace and a version.
A content is absent, a mapping, another validated document ("scalar"), the beginning
of a document that parses to a mapping itself ("partial"), or bytes no loader takes.
Every step that touches the disk is an action: `Purge`/`Stash` are
`_prepare_refresh_backup`, file by file; `Discover` is `get_namespaces`; `FetchFails`,
`SkipExisting`, `Download`, `Open`, `Write`, `Validate*` are an iteration of the loop
with all its `continue`s and handlers; `Restore` and `Cleanup` end a refresh.
`write_text` is two steps, so that what is on the disk in between can be read by a
server, be left by a `Crash`, which may happen between any two steps, or by a write
that raises (`WriteFails`). Tallies, timings and the HTTP exchanges (tenacity retries
included) are abstracted to their outcome. `Label` is
`_namespace_from_artifact_filename`: the text before the first dash, which is not the
namespace if that has a dash itself. ArtifactPromise says what an operator relies on:
a namespace in stock stays in stock, except in two named exposures, a refresh that
starts over the backup of an interrupted one, and `--force` with a namespace listed
twice. ArtifactStore implements it.

**ServerLifecycle** extends ArtifactStore with a server process: the entrypoint
(`serve-http` in a container) or a service unit launches it, `Select` and `List` are
its two looks at the directory, `Load` parses one file, and all of it interleaves with
the steps of a command. `Load` takes what `OpenAPIParser.load` takes, any mapping, the
beginning of a document included (`Loadable`). A failure ends a container (`docker run
--rm`, `deployment.md:141`); systemd restarts a unit after it (`Restart=on-failure`,
`deployment.md:293`), and after nothing else. `changed` records which files a command
changed since the process started.

**SchemaResolver** models `resolve` with its stack written out. A schema is the
sequence of its `$ref`s; a frame of the stack has what is still ahead and the `seen`
set. Of a result the model keeps its *loose ends*: the `_circular_ref` markers that
no enclosing node explains.

**OperationCatalog** models the naming of operations that share an operationId
(`_derive_discriminators`: tag without the common suffix, first distinguishing path
segment, position), the merge of several files into one list and of their schemas
into one dictionary (of which it keeps the file each schema is from), and the two
look-ups, by namespace and name (`<namespace>_execute`) and by name alone (the discovery
tools). A text is the sequence of its letters, so that the suffix, case and snake
conversions are what they are in the code. Path segments are single letters.

**ToolSession** models `<namespace>_execute`: clients, the inbox of the event loop,
the refusals in their order, the headers, the request under way, timeouts, and
Prism Central with ETags, If-Match and request ids. Clients and Prism Central are
external: clients follow the If-Match and retry advice of `_build_instructions`, or
not; Prism Central executes a request at any time after it was sent, or never, and
answers it before that (`Respond`: a queued job or task, a 5xx, which `_as_result`
passes on like any other answer), with it (`Receive`), or not at all.

**Discovery** extends OperationCatalog with `listOperations` over the loaded
catalog: the score of an operation for the words of a search (`Points`, `Bonus`),
the conjunction of words, the sort keys, and the slice a page is. A client takes
pages until one is not full; every page is a call of its own that scores and sorts
again. The words of a camel-case operationId, a tier of their own in the code, are
substrings of it and never decide. Descriptions and tags are one text.

**Settings** has the layers of `load_settings` (flags, config file, environment,
`.env`, defaults), the lines `_save_config_dotenv` writes, what an interrupted write
leaves of them, and the credentials `build_auth_context` picks. **CommandLine**
extends it with `main()`: commands one after another, in any working directory, each
loading its settings, downloading, saving `.env`, probing Prism Central, building
and serving, and leaving an exit status; the operator edits `.env` at any time, and a
command may be killed between any two steps. The download and the start of a
server are single steps here; ArtifactStore and ServerLifecycle have what is inside
them. `origin` is a history variable: who wrote `.env` last, and which settings it
meant.

Each `MC*` module gives the constants of its module, each `.cfg` is a run.

## Runs

| run | question | instance |
|---|---|---|
| `artifact_store` | do init and refresh keep what they should, under failures and crashes? | two namespaces, two versions, three kinds of body, discovery returning none, one, both, or an override list with a duplicate; unlimited commands |
| `server_lifecycle` | what does a server load beside a running command, and does a unit that failed serve in the end? | two namespaces, one version, bodies that are fine or raise, both launchers, with and without bundled specifications |
| `schema_resolver` | does resolve end, how deep, and what does it cache? | all 9261 dictionaries of three schemas with at most two `$ref`s each, dangling ones included, asked in any order |
| `operation_catalog` | are operations told apart, under names no order of the document changes, found, and ranked on every page? | one file with up to three variants of an operation, in all its orders, or two files of one or two namespaces; no word, one word or two, pages of two |
| `tool_session` | are calls answered, and writes safe? | two clients, three calls, four operations of which two share a name across namespaces |
| `command_line` | what does a command inherit from `.env`, what does its status say, how does the probe end? | any sequence of commands, six inputs, three hand-written `.env` files, writes torn after 0, 3 or 4 lines |
| `failed_refresh`, `kept_files`, `empty_server`, `schema_order`, `catalog_schema`, `saved_settings` | does the code do what a document says? No, see below | the same, smaller |

Why the bounds are enough. `Bodies` names the kinds of body a download may return. To
a refresh, a document that is no mapping is like one that is, so `artifact_store` goes
without; to a server it is one more file it cannot load, as is what a body that raises
leaves, so `server_lifecycle` has that one. Two versions of a namespace are the old
and the new one of a refresh, and a third only repeats either; two namespaces allow
one to fail and the other to succeed, and the only thing the code asks of all
namespaces together is whether any was processed. The proofs below remove these bounds
for the artifact store, as for every safety property of the other modules. Three
schemas give self loops, cycles of two and three, diamonds, and a cycle reached from
outside; depth and finality are proved for all sizes. Three variants are what it takes
for two labels to collide while the third does not, and two files for a name to be
shared. In `tool_session` the interesting history is a read, a write that times out,
another client's write or a retry, and the late execution of the first: three calls
(`MaxCalls`, the only counter bound; a GET that gave the tag may be one of them). In
`artifact_store` a listing may name a namespace twice beside another one, so that a
failure of the second occurrence meets both a file of its own and one of a neighbour.
In `command_line` the inputs (`MCInputs`) give a field by no layer, by one, by one
over another, as an empty string that masks the layers below, and a value pydantic
rejects; the edits (`MCEdits`) are an empty `.env`, one with credentials, and one with
fields `init` does not write; `Breaks` cuts a write in its host, its password or its
API key, the places where a prefix means something else than the whole. In
`operation_catalog` pages of two (`Limit`) split catalogs of up to three operations,
and the two words of the longest query are where the points of summary and path can
add up to those of a name.

Deadlock is checked except in `tool_session`, where all calls may have been made
and answered, and everything stops. Symmetry is used for the versions of
`artifact_store` only, whose properties are all safety properties and treat the
versions alike.

Fairness. In CommandLine a command is a single process whose waits all have timeouts,
so it proceeds (`WF(Proceed)`); nothing obliges an operator to start, stop, kill or
edit anything, and a server serves until it is stopped. In ServerLifecycle the
command, the server and systemd's restart of a failed unit are weakly fair: processes
run on, and `RestartSec=5s` keeps a unit below the rate at which systemd gives up.
Nothing obliges an operator to launch or stop a server or to start a command, and
nothing starts a container again. `HealthyDirectoryIsServed` needs this, and supposes
that commands stop for good, leaving only files that can be loaded. In SchemaResolver
only the recursion itself is fair, not the questions. In ToolSession the event loop is
fair, and a request ends by a response or by the timeout httpx was given, which is per
read: the fairness is about a silent server, not one that sends a byte now and then.
Prism Central and the clients are not fair.

### What the runs show of the code

These properties hold: a completed refresh keeps every namespace but one that
`--force` downloaded twice, whatever happened to the others
(`RefreshKeepsEveryNamespace`), keeps every file a namespace it did not process had
and adds no validated one (`UnprocessedIsUntouched`; what a write that raised left of
a new file may be there), leaves one version of what it did process
(`ProcessedHasOneVersion`); `init` never changes a file (`InitOnlyAdds`); nothing is
ever lost outside the named exposures (`ImplementsPromise`). The first three are about
namespaces without a dash in their names (`OwnLabel`): the restore takes one with a
dash for another. Whatever a command does to other files while a server starts, a file
it left alone is served if it is there, or the start fails
(`UntouchedFilesAreServed`); behind the entrypoint a server lacks artifacts only if a
command changed the directory meanwhile (`EntrypointFindsArtifacts`); a unit whose
server failed ends up serving the whole directory once it can be loaded
(`HealthyDirectoryIsServed`). "Can be loaded" is what the parser makes of it: a
document cut short where it still is a mapping is served like a whole one, and no
property says otherwise. `resolve` ends, nests no deeper than there are schemas, never
changes an answer it cached, and leaves markers only for real cycles. Variants get
names of their own which no order of the document changes, unless only the position
tells them apart. A tool call is answered, a read-only server sends no write, a
refused call never has an effect and any other writes once at most, whatever it was
answered and when (`CallsWriteAtMostOnce`), a guarded update replaces the version its
client read, and a retry under the same declared request id is executed once. Without
an id of the client's own every call has a fresh one, and a retry is a second write;
an answer does not say that a write has happened, nor an error that it has not.

A search of one or two words never puts an operation that mentions them before one
named by them; with two words they may tie (`NamedOperationsRankFirst`). The pages of
a search, sorted anew for each, hold every match once (`PagesCoverTheMatches`).

What an `init` or `refresh` in the project root resolved comes back at a start that is
given nothing, for every line of it that is saved (`SavedLinesComeBack`), except values
python-dotenv reads differently unquoted. In any other directory nothing comes back:
the save goes to the working directory (`cli.py:27`), while `settings.py:26` names the
`.env` of the project root. README.md:91 says the latter, `docs/configuration.md`, at
lines 10-11, 120 and 219, that the working directory's `.env` is loaded, which it is not.

`READ_ONLY_MODE=false` does not come back unless the operator wrote it
(`WritesNeedOptIn`); after an interrupted save, a start that is given nothing sends no
credentials to another host (`CredentialsFollowTheirHost`, which rests on `PC_HOST`
being the first line; a start that has credentials from its environment and its host
from the cut line is not covered); the status of `init` tells whether there are
artifacts, whatever became of the save (`InitStatusTellsArtifacts`); the probe blames
the network only after three attempts and accepts only an accepted answer
(`ProbeIsConclusive`); every command but a server ends (`CommandsEnd`).

Six statements of the documentation do not hold, each with a run that finds the
history (`findings` in `PROJECT.json`):

- `failed_refresh`: `get_namespaces` is called after the artifacts were moved away
  and outside any handler. A refresh that cannot reach the discovery endpoint leaves
  the directory empty, and the next refresh deletes the stash.
- `kept_files`: a file is written to its final name before it is validated, and
  stays if the loader raises something other than `YAMLError`.
- `empty_server`: the second listing of the directory is not checked, so a server
  that starts during a refresh can come up with no operation at all.
- `schema_order`: what is resolved inside a cycle is cached with the markers of the
  outer call, so the answer for a schema depends on what was asked before.
- `catalog_schema`: the discovery tools look operations up by name only, so the
  schema shown may be that of another namespace's operation.
- `saved_settings`: `init` and `refresh` rewrite `.env` from ten settings; an override
  list or source URL the operator had written there, and they have just used, is gone.

## Proofs

All proofs are for arbitrary constants under the named assumptions of the modules
(listings are sequences of namespaces, labels have the namespaces as domain, the
schemas are finitely many and `Unknown` is none of them, the characters and the
namespaces have an order, and so on). Every safety invariant and action property
that a passing run checks is proved, and TLC checked each strengthening before it was
proved.

**NaturalsLemmas** has what the others need of induction: a set of numbers that holds
0 and the successor of each member holds all; a set of numbers has a least member;
what holds of `f[0]` and carries over from `f[n - 1]` to `f[n]` holds up to a bound;
and a function defined by recursion over `0..n` exists. All are about sets, not about
predicates, which the library's theorems would take as parameters.

**ArtifactStore_proofs**: `TypeCorrect`, `RefreshSafe`, `UnprocessedSafe`,
`ProcessedSingle`, `InitSafe` and `Refinement`. None of the invariants is inductive
alone: what a finished refresh leaves depends on where every artifact was in every
phase. `IInv` says it phase by phase: `Stashing` (each artifact of `before` is
unmoved or in the backup while stashing, all in the backup during the loop, in
exactly one place while restoring), `NoStray` and `NotYetMet` (during the loop the
directory holds validated files of processed namespaces only, and no file of one
not yet met), `ProcessedHolds` and `OneVersion` (what is processed has its file,
and one), `ProcessedEarlier`, `FreshOutput`, `Writing`, `Written`, `Modes`, `Leftover`
(what the clean-up deletes has been replaced). One lemma per conjunct that needs
the others shows that each action preserves it. The refinement follows: a step
either keeps or adds to the stock, or is a step of an exposure; the clean-up is
safe by `Leftover` and `ProcessedHolds`.

**ServerLifecycle_proofs**: `ServiceImplementsStore` (a step of the lifecycle is one
of ArtifactStore or leaves its state alone), from which the theorems above hold beside
servers too (`RefreshSafeBesideServer` is one of them). `ServiceTypeCorrect`,
`StartServesUntouched` and `EntrypointStart` come from `ServiceIInv`: from the second
listing on, a file no command changed is still to load or loaded exactly if it is in
the directory, and loaded only if it can be (`Loading`); the entrypoint hands over a
directory with an artifact, unless a command changed one since (`HandedOver`). What a
command writes beside a server is added to `changed` (`CommandBeside`), so it disturbs
neither.

**SchemaResolver_proofs**: `TypeCorrect`, `RecursionBounded`, `CacheFinal`,
`LooseEndsCyclic`. `StackInv` says of the k-th call on the stack that its schema is not
cached, that its `seen` set has the schemas of all calls below, that no two calls have
the same schema, and that a waiting call still has its `$ref` ahead. Bounded depth is
then an injection of the stack into the finite set of schemas; finality, that what
returns was not cached. `LooseInv` adds that each call's schema leads to the next
one's, that `seen` has nothing but schemas of the stack, and that a marker collected
so far names a schema that leads to the collecting one and back. `Leads` is a walk along
`$ref`s of any length; the property's `Reaches` allows at most as many steps as there
are schemas, and `Shortened` closes the gap: the shortest walk visits no schema
twice, or a shorter one would leave out the loop. All four are about the `Spec` with
its fairness, of which they use the safety part.

**OperationCatalog_proofs**: `DiscriminatorsDiffer`, that `_derive_discriminators`
labels the members of any group differently (positions differ, since the initial
segments of a finite set have different cardinalities). `IInv` says that each listed
operation is what `Named` made of one declaration of a parsed document (`Origin`), and
that each declaration is listed once (`Once`). `Distinguished` follows, as a joined name
determines its label; so does `Reached`: with no underscore in an id, the last
underscore of a name tells where the id begins, so two names of one file are equal
only if ids and labels are. `Stable` is about any
permutation: `Shuffled` relates a document to one that has its declarations in other
places, and the lemmas show step by step that suffix length, tag label and path label of
an operation do not depend on its place, and that which of them is chosen does not
either. It assumes `NoLetterIsAPosition`: that
no letter of a tag or path is written like the `variant` of a positional label. Without
it the names are not stable: when a tag spells `variant_1`, whether it meets the
position of an operation that has nothing else depends on the order, and if it does, all
fall back to their position. TLC's letters satisfy it as well.

**Discovery_proofs**: `SearchingKeepsTheCatalog`, by which the theorems on
OperationCatalog hold of Discovery; `PagingInvariance`, `PagesCover` and `NamedFirst`.
The sort keys order the matches strictly and totally (`OrderIsStrict`; texts by the
first place where they differ), so the rank of a match, the number of those before it,
is an injection into the numbers below their count, hence onto them
(`RankIsBijection`): the sorted list has each match once (`SortedLists`). `Paging`
says that what a client has seen is the beginning of this list up to its offset, and
that a search begins only once the list is complete. A page then continues it
(`NextPage`). `NamesWeighMost` bounds the scores: with one word 70 at least against 40
at most, with two 120 against 120.

**ToolSession_proofs**: `TypeCorrect`, `WritesAtMostOnce`, `ReadOnly`, `GuardedWrites`,
`ChosenIdsOnce`. `IInv`: a call in the inbox is open, waits once, is not the one in
progress and has sent nothing (`Waiting`, `Awaited`); a response belongs to the call in
progress, whose request is no longer under way (`Responded`); what is under way is the
request its call's arguments amount to, permitted, and not yet executed (`Asked`); what
was executed was permitted, was no GET, had the version it was guarded by, and its id is
remembered (`Logged`), each id once (`ExecutedOnce`); for a refused call there is nothing
under way and nothing executed (`Refused`); the version counts what was
executed (`Versions`). `GuardedWrites` uses that the request carries the If-Match of its
call, whenever it is executed.

**CommandLine_proofs**: `TypeCorrect`, `OptIn`, `SavesComeBack`, `HostFirst`,
`StatusTells`, `Conclusive`. `Control` ties the program counter to the command,
`Probing` the answers collected to the state of the probe, and `Provenance` says that
the root's `.env` is what its last writer left (the operator's lines, a whole save, or
one cut somewhere), and that the settings of a running command are those of the `.env`
it read, which may have changed since. `HostFirst` rests on `HostIsFirst`: a torn save
that holds a credential holds the host, because the host is its first line.

Left to TLC: the four liveness properties, `HealthyDirectoryIsServed`, `AskEnds`,
`CallsAreAnswered` and `CommandsEnd`, which hold by fairness, out of this prover's
reach.

## Not modelled

- Building of tool descriptions, instructions and models: data without behaviour.
  `DownloadSummary`'s tallies, for the same reason.
- Extraction of parameters and permissions from a document, and how the dispatcher
  spreads arguments over path, query and headers: of an operation's parameters the
  model has those headers and that path parameter which its properties are about.
- The order of versions: files are parsed in the order of their names as text, so of
  two versions v4.9 and v4.10 of a namespace left beside each other the older one's
  schemas win. The catalog keeps which file a schema is from, and claims nothing of it.
- Edits of `.env` during a download: they are lost (`Save`), and nothing says they
  should not be.
- The compaction of schema annotations; OData aliases, query and path encoding: data
  no property here distinguishes. `getOperationSchema`'s own cache returns what the
  resolver answered first, and is within `Ask`.
- Of the settings: the paths `validate_paths` resolves and creates (its failure is
  CommandLine's `LoadFails`), the base URL and its scheme, the text of a rejected
  value. A relative `.env` is read at the project root and written in the working
  directory: `atRoot`.
- Which exception httpx raises for a certificate: the classes are what
  `validate_startup_readiness` tells apart.
- The entrypoint's rewriting of arguments, log configuration, packaging.
- Time: how long `/health` waits behind a call, how long the back-off of a probe is.
- Two commands running at once on one directory: nothing in the program or its
  documentation provides for it, so one process writes at a time.
- The MCP SDK, uvicorn, httpx, python-dotenv and Prism Central: external, modelled
  where the code relies on them.

## Plan

Done: ArtifactPromise, ArtifactStore, ServerLifecycle, SchemaResolver,
OperationCatalog, Discovery, ToolSession, Settings, CommandLine; proofs of every safety
invariant and action property. What is left:

1. A bound on the score of an operation for a search of any number of words, which says
   by how much a name leads where `NamedOperationsRankFirst` stops at two.
2. ArtifactStore's other theorems restated beside servers, as `RefreshSafeBesideServer`
   restates one; each follows from `ServiceImplementsStore` in a line.
3. What the catalog promises a client in one step, the whole sorted list, as an abstract
   specification that `listOperations`, page by page, implements.
4. The parameters of an operation, so that the hazard at `yaml_parser.py:461` can be
   stated as a property.
