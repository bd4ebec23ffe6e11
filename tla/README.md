# Formal model of the sales BI prototype

TLA+ specifications of the backend in `backend/app`: a FastAPI service that reads
the structure of SQL Server sources, asks a language model for a dimensional
proposal, lets people review it, and materializes approved proposals as data marts
in PostgreSQL. The frontend is a client of the same HTTP API and is not modelled.

TLC checks small instances of every specification. For all values of their constants, TLAPS
proves every safety property of the ETL, of the decisions on proposals, of the data
sources, of the LLM configurations, of the master key, of the access control and of a mart:
that its keys resolve, that its dashboards keep what the load computed and that its rankings
and answers agree. Of the generation of proposals they prove what a version rests on, that
its scope holds the evidence, that proven margins are computed and that the decisions of
people are kept. [Only model-checked](#only-model-checked) lists what is left.

## The system

The production image runs two uvicorn workers (`backend/Dockerfile`). Each request
is an asyncio task with one SQLAlchemy session, hence one PostgreSQL transaction at
READ COMMITTED, committed explicitly. Work that blocks (pyodbc, the mart's own
connection) runs in threads, and the language model is called over HTTP. So
requests interleave at every `await`, and really run in parallel across workers.

| Part | State it keeps | Operations | What is hard |
|---|---|---|---|
| ETL executions (`modules/etl/router.py`) | `etl_executions`: status, contract, metrics document | prepare, run, interpret, apply labels, verify currency | row locks held over minutes, two commits per load, a second database transaction in the mart, crashes between them |
| Materializer (`modules/etl/materializer.py`) | the schema `mart_ventas_e<id>` of each execution | load, publish labels, detect currency | its commit is not atomic with the record's |
| ETL rules (`modules/etl/service.py`) | none | coverage of a selection, readiness, KPI recipes, plan | they judge the whole snapshot, the compiler judged a scope |
| BI proposals (`modules/copilot/router.py`) | `bi_proposals`: status, documents, review | generate, revise, approve, reject, discard, invalidate, restore, verify | decisions are not locked; rules change between releases; a transaction stays open during provider calls |
| Compiler and validator (`modules/copilot/service.py`) | none | derive a scope, expand a blueprint, add what is proven, adjust, relate, validate, replay evidence | many interacting rules; positions and names that refer to what was left out; a second judgement by rules of its own |
| Need assessment (`copilot/needs.py`, `need_advisor.py`, `domains.py`, `entity_resolution.py`) | reviews, catalog per source | classify questions, coverage | text matching |
| Data connections (`modules/parameters/router.py`) | `data_connections`, `secrets` | create, edit, test, enable, disable, delete | a test runs on a copy of the settings |
| Metadata snapshots (`modules/metadata/router.py`) | `metadata_snapshots` | capture | advisory lock, unique constraint |
| LLM configurations (`modules/parameters/router.py`, `secrets.py`, `providers.py`) | `llm_configurations`, `secrets`, the key file | create, edit, credential, test, delete | one active row without a constraint; creation of the key |
| Users, roles, audit (`modules/security`) | users, roles, permissions, menus, audit | CRUD | somebody must always be able to recover access |
| Analytics and reports (`modules/analytics`, `modules/reports`) | none | dashboard, questions, export | the same KPI is computed three times, by three pieces of code |

How they interact: a capture needs an enabled, tested connection; a proposal needs
the latest snapshot of one and a tested, active LLM configuration; a preparation
needs an approved proposal whose source is enabled and tested, and locks its row;
the analytics read executions that succeeded. A snapshot keeps its connection and a
proposal its snapshot by foreign keys.

## Modules

| Module | What it models |
|---|---|
| `ExecutionLedger` | Abstract: what the ETL promises of its records. Opened for a contract no live record holds, begun once, settled once, then only reviewed. |
| `EtlExecutions` | The requests on executions with their locks, steps and commits, and the mart. Implements the ledger. |
| `EtlExecutionsProofs` | The inductive invariant and the theorems. |
| `ProposalLifecycle` | Versions and decisions, unlocked read and later commit, upgrades of the rules. |
| `ProposalLifecycleProofs` | Its inductive invariant and theorems. |
| `SourceGraph` | The structure of a source: tables, columns as sets of words, relations and the walks along them. |
| `SemanticScope` | Which tables a proposal may use: selected concepts, and what joins, names and proves them. |
| `ProposalCompiler` | From a provider's blueprint to measures, KPI, dimensions and joins. |
| `ProposalRequirements` | Measures and KPI that the source proves and the provider left out; coverage of a need. |
| `ProposalRevisions` | Adjustments by a person and the choice of a declared relation. |
| `ProposalValidator` | The second judgement of a document, from the beginning. |
| `MartPlan` | Readiness of an approved document and the plan of its load. |
| `ProposalGeneration` | The composition: reviews, the two calls of a generation, revisions, over all of the above. |
| `ProposalGenerationProofs` | Searches, scopes, documents and revisions for any source; the invariants on calls and versions, and the theorems. |
| `KpiRecipes` | KPI as formulas: compiled, evaluated by a load, evaluated by a dashboard. |
| `SalesMart` | A load from a source that changes, and the dashboards, rankings and answers read from its mart. |
| `SalesMartProofs` | Folds, sums and aggregates; the values of a load and the rounds of a dashboard; the invariants of a load in progress, of its types and of its record, and the theorems. |
| `DataSources` | Connections, tests, captures and the constraints of the tables. |
| `DataSourcesProofs` | The invariants of the snapshots and of the tests, and the theorems. |
| `MasterKey` | Workers that make, read and use the key file under its lock, and die. |
| `MasterKeyProofs` | Its inductive invariant and theorems. |
| `LlmConfigurations` | Configurations, their credentials and tests, and the generation that uses them. |
| `LlmConfigurationsProofs` | The invariant of the rows and of the calls, and the theorems. |
| `AccessControl` | Users, roles and menus, the commits of overlapping calls, the seed at every start. |
| `AccessControlProofs` | Its inductive invariant and theorems. |
| `MC...` | Instances for TLC (symmetry sets). |

### From code to model

A request is a record whose `step` says how far the handler has got. One action is
the handler from one point where others can act (an `await` that matters, a commit)
to the next; its guard collects the early returns in between. An early return that
changes nothing is a disabled action. A row is locked FOR UPDATE exactly while some
request is at a step that holds it, so a lock is released when the request ends for
whatever reason, as in PostgreSQL.

`EtlExecutions`: `approved` and `sourceReady` are the parts of `_candidate` that
change between calls; the validation of the proposal itself depends on documents that
never change while the service runs. `execution[e].metrics` keeps what the handlers compare: the verdict of the
reconciliation, the state and originals of the Spanish interpretation, whether a
currency is verified. `mart[e]` is what the mart really holds, kept apart so that the
record can be wrong about it. A handler that rewrites the metrics document does so
from the copy in its request. Failures of the provider, the source and the mart are
free choices.

`ProposalLifecycle`: `verdict[p]` is what `validate_proposal` says of the document
with the installed rules; `Upgrade` lets a release change it, and moves the version
numbers. A decision stores the status and confirmation it will write together with
the confirmation it read, because the ORM's UPDATE names only the columns that
changed. `OneAtATime` says whether decisions on one version may overlap; the code
does not prevent it.

`DataSources`: the same semantics of commits (`Merge`). `passed` is history, not
code: it says whether the present settings ever passed a test. `OneAtATime` concerns
administration only; captures overlap with everything. Captures are assumed to
take the advisory lock in the order their transactions began. The analysis catalog
of a connection, deleted with it, is left out.

`MasterKey`: a process is at one call of `SecretCipher` at most, because the calls are
synchronous. The temporary file is named after the process identifier, so a `Pids`
member is an identifier and not a life: after `Die` the same one can start again
and meet the file its predecessor left. `sealed` collects the keys that stored
secrets are encrypted with. `Mortal` are the identifiers whose process can be killed.

`LlmConfigurations`: `secret[s]` is not the key but the provider it was typed for, which
is all the properties ask of it. `passed` is history. A `Target` stands for what
`_llm_target` compares: provider, URL and model. Commits are merged column by column
as in `DataSources`. A generation reads the configuration twice and its
credential last; the row that its session has already is not refreshed
(`expire_on_commit=False`, no `populate_existing`), and that is in
`ConfirmDestination`. `OneAtATime` concerns administration only.

`AccessControl`: a call keeps the row it read and the row it wants. Its commit deletes
and inserts the associations that differ between the two (`Patched`), and fails when
one to insert is there or one to delete is gone (`Fits`), since the association
tables have primary keys and the ORM counts the rows it deletes. A deleted role
takes its assignments along, as the foreign key says. A `Restart` runs the seed in
one transaction, and the service starts only if it succeeds, as in `compose.yaml`. The
UPDATEs of the seed go out in the order of the primary keys, so that `PathsComeBack`
compares each menu with those after it.

`KpiRecipes`, `SalesMart`: a number is an exact fraction or `Null`, and a row of the fact is
an identity, a key for each dimension and a value for each measure. The source changes
between the reading of two dimensions and of the fact (each is one query at READ
COMMITTED, over a connection without a common snapshot), so that `read` keeps what
the query of the fact saw. `Clean` is `_clean_value`, which strips blanks; of several rows whose keys differ in blanks
only, the dimension keeps the one that the source returns first, and the source may
return them in any order (`Deduplications`). The readers
change nothing and are operators of the state. A dashboard starts from the recipes and
resolves them to a fixed point; a load goes through the selection once, in the order
in which it was sent. A selection holds a code once, and of recipes with one code the last
(`Available`, the dictionary in `prepare_execution`). Years and territories are the members of their dimensions.

`SourceGraph` and the modules of proposals: a name is the set of words that
`_search_tokens` finds in it, Spanish and English words of one meaning taken as one. That
is what every rule of the compiler and the validator looks at. A blueprint is what
`proposal_blueprint_schema` lets a provider answer (`InSchema`), under the present
`compilation_rules_version`. Where the code takes the first of several equal
choices in an order that a snapshot does not fix, the model takes any one. Of two
dimensions with one name a relation locks the first, as `apply_controlled_relationship` does,
while the compiler reads the one whose table suits best. A stage
whose result is used twice is bound with a one-element set, so that TLC computes it
once. The snapshots of one instance have one structure; their numbers say which is the
latest. Only one long call is in flight: generations share nothing but the rows that
they append, and a revision is one transaction.

`MartPlan` judges the document that `ProposalCompiler` builds with the whole snapshot, as
`assess_dimensional_readiness` and `build_materialization_plan` do, and
`ProposalGeneration` evaluates both on every version, together with
`KpiRecipes!Compile`: the version that a person approves and the load that it leads to
are compared in one state.

## Runs

| Run | Bounds | Shows |
|---|---|---|
| `etl_executions` | 1 proposal, 2 KPI (3 contracts), 2 executions, 1 category, 2 requests, calls may die | All safety properties and the refinement. Two executions and two requests are the least for a duplicate, a double run or a lost update; a third request could only wait for the same locks. |
| `etl_liveness` | 1 proposal, 1 KPI, 2 executions, 2 requests, no deaths, no symmetry | Loads settle, requests are answered. |
| `etl_interrupted` | 1 request that may die | Violation: a running execution whose call died stays running. |
| `etl_unreconciled` | 1 execution, 1 request | Violation: labels applied to a load that did not reconcile make it succeed. |
| `proposals` | 2 versions, 2 requests, `OneAtATime` | Approval rules across decisions, revisions and upgrades. |
| `sources` | 1 connection, 2 databases, 2 structures, 3 requests, `OneAtATime` | Tests, edits, deletions and captures. Connections share nothing, so one is enough. |
| `master_key` | 3 workers, 2 of which can be killed, 2 keys | One key is made and kept; the third worker serves. Two that can die are needed for a death during another's wait. |
| `llm_configurations` | 2 configurations, 2 secrets, 3 providers, 4 targets (two of one provider), 2 requests, `OneAtATime` | Activation, credentials, tests. Two configurations are the least for one to replace the other; one request administers while the other generates. |
| `access_control` | 2 accounts, 2 roles, 2 permissions of which 1 recovers, 1 menu, 2 requests | Recovery and assignments under overlapping calls and restarts. One protected and one ordinary of each kind. |
| `sales_mart` | 2 dimensions with keys that differ in blanks, 5 rows (a missing date, a missing key and a value missing among them), 4 measures (one of them counted), 3 proposals of 2 to 4 KPI, 2 changes of the source, every selection in every order | A row refers to its own entity or to none, and to none only when the source moved; a dashboard recalculates what a load would; rankings and answers agree. |
| `generation` | 6 tables, 5 relations, a scope of 3 tables (the code: 8), 2 needs, 2 answers at each stage, 3 adjustments, all declared relations, 3 versions, 2 snapshots, 1 review | What is compiled is valid in its structure, can be loaded when it may be approved, answers proven goals, keeps what people decided, and rests on what was reviewed. |
| `relation_grain` | the same source with the addresses of a customer, 1 version | Violation: a load that joins towards children multiplies its fact. |

The first six specifications are finite without bounds in the guards: identities are
finite sets that are used up, and every other field ranges over a finite set. Of the others,
`MaxChanges` bounds the changes of the source during a load, and `MaxSnapshots`,
`MaxReviews`, `MaxVersions` and `MaxCalls` the rows of a history that would grow for
ever. Three versions are a generation, a revision of it, and either a revision of the
revision or a generation that reuses its concepts; a revision reads only the version it
starts from, so that a longer history repeats these steps. The limit of a scope is lowered
to three because the source is small: with eight nothing would ever be cut.

The answers of the provider in `generation` are chosen for what they get wrong: an
average per document as a product of columns, a count of lines called transactions, a rate
called an amount, a key among operands, measures before others that are dropped, a
dimension on a table that does not suit it, an unknown table, a concept of low
confidence, and a source with a second cost in reach of the fact. The needs ask for
a margin, for something that is not there, and for a key that has to be preserved.

### What the assumptions of some properties exclude

- `ApprovableCanBeLoaded` assumes that the dimensions can be reached: the validator
  does not ask for it, and the plan then fails before anything is written.
- `ProvenGoalsAreAnswered` leaves alone a KPI that the provider already calls
  `margen_bruto`: the coverage of a goal goes by words, so that such a KPI suppresses the
  real difference.
- `DashboardKeepsTheLoad` speaks of proposals whose names are apart (`NamesApart`): no code
  twice, and a KPI called like a measure is that measure as it is declared. The schema of an
  answer (`copilot/service.py:594-624`) asks for neither. A KPI that is called like a
  measure and aggregates otherwise replaces it in formulas, in a dashboard always and in a
  load only once it has been computed. The cards have to show the measures as declared (`MeasuresShown`): an
  average that is the only card of a measure stands for it in formulas. Stored values are compared only when
  the selection lists a formula after its inputs (a load in another order leaves it
  `not_calculable`, while the dashboard computes it).
- `DecisionsAreKept` speaks of the table of a dimension only where the source version names
  its dimensions once (`NamedOnce`): of a name given twice, the one that is locked need not be
  the one that is read (see the findings). A calculation of a person is kept unless it
  takes a rate for an amount of money, which is mended (`Followed`), and unless it is for
  the average of a line, which the model computes as the code does and not from operands.
- `AnswersAgree` and the comparison without filter assume that every row has a date and
  a territory. A row without one is in the values of the load and in no dashboard.

### Fairness

`FairSpec` asks weak fairness of `Continue(r)`: a request that has begun takes its
next step. The event loop runs every ready task; provider calls have a timeout
(`LLM_TIMEOUT_SECONDS`), the connection to the source too; the mart is on the same
PostgreSQL server. The queries of a load over pyodbc have no timeout of their own, so
fairness assumes the source answers or drops the connection. Nothing is assumed of
people, of `Begin` or of `RequestDies`; with deaths allowed `RunningSettles` fails,
which is a finding and not a matter of fairness.

In `MasterKey`, weak fairness of `Start` and `Continue` says that the service restarts
its workers and that they run; strong fairness of `Lock` says that flock, which the
others release again and again, is granted in the end. Progress is promised to the
identifiers that do not die only: one that dies between creating its temporary
file and renaming it leaves a file that its successor of the same identifier
cannot create, and that one fails at every start while there is no key.

## Findings

1. **A stopped server leaves an execution running** (`etl_interrupted`). The commit
   of `running` (`etl/router.py:633`) has no counterpart at start-up (`main.py`), run
   accepts only `prepared` and prepare refuses the contract while it is `running`.
2. **Success without reconciliation** (`etl_unreconciled`). Categories are proposed
   for a load with differences as well, and applying them stores `succeeded`
   (`etl/router.py:908`) without looking at the verdict.
3. **A load can multiply its fact** (`relation_grain`). The plan joins along the shortest path of
   relations in either direction (`etl/materializer.py:391`); towards children it repeats
   each row, and readiness, plan and reconciliation all let it pass. SPR-05-06 promises
   one row for each identifier of the approved detail and a check that detects any
   multiplication. Choosing a declared relation does not help: it fixes the table that a
   dimension reads, not the path by which the load joins it.

Other observations have no run of their own:

- **Overlapping decisions**: the decision handlers of `copilot/router.py` (1788-2036) read
  without a lock and the last commit wins. With `OneAtATime = FALSE`,
  `OnlyWithdrawalEndsApproval` fails.
- **A structure that returns**: `capture_metadata_snapshot` (`metadata/router.py:240`)
  compares with the latest snapshot, the unique constraint with all of them, so that
  a structure that changed and changed back cannot be captured.
- **The seed cannot always be run again**: the protected role can be renamed and its name
  given to another role; the seed then violates the unique name and compose does not
  start the service (`security/service.py:359`).
- A revision whose calculation reads a tax makes `ROLE_AGGREGATIONS[role]` fail in the
  validator (`copilot/service.py:4038`): the request ends with an error and nothing is
  stored (`Judgeable`).
- A calculation of the provider cannot be removed by an adjustment, and a requested
  dimension that an adjustment removes comes back, without its locked relation.
- Of two aggregates that are the same, a compilation of recipes keeps the first; a
  formula that names the other is then not executable (`etl/service.py:220-424`).
- A relation chosen for a dimension that the provider named twice can be lost at once:
  `apply_controlled_relationship` locks the first of the name
  (`copilot/service.py:3112-3119`), `expand_proposal_blueprint` reads the one whose table
  suits best (2411-2424), the schema (575) lets the name come twice, and the version
  records `"validated": True` all the same (`copilot/router.py:1575`).
- Generating again from a version that is not reused word for word selects all its
  concepts, also those that were left out for low confidence.

`llm_configurations` needs `OneAtATime`. With overlapping administration TLC refutes each of its
safety properties: two calls activate different configurations, two register a
first credential, a test outlives the target it tried. The specifications
(SPR-02-03) ask for one active configuration and say nothing of overlap, so this is
recorded as an assumption and not as a finding.

## Proofs

`EtlExecutionsProofs` proves, for every set of proposals, KPI, executions, categories
and requests, the invariants and action properties of `etl_executions` and the
refinement of `ExecutionLedger`. The assumptions are the three named ones of
`EtlExecutions` (the null values are not values, a flag is Boolean).

The properties are not inductive by themselves. `IInv` adds what the code relies on:

- `OneWorker`: at most one request works on an execution. FOR UPDATE gives it while
  a row is locked; a load is past the lock, and there the status `running` keeps the
  others out. Neither alone is enough.
- `StepMatchesStatus`: the step of a request fits the status of its execution.
- `UnloadedIsEmpty`, `MartMatchesStatus`: what a mart holds for each status and step.
- `PreparationIsExclusive`: contracts under preparation are free and distinct, because
  the lock on the proposal spans the check and the commit.
- `CopyIsCurrent`: the copy a request holds is what is stored, so that writing
  the whole document back loses nothing.

Each action has a lemma that it preserves `IInv`; small lemmas describe the effect of
`Finish`, `Take` and `Store`, which several actions share. The action properties and
the refinement then hold step by step under `IInv`.

`ProposalLifecycleProofs`: the types hold in any case. The three safety properties
need `OneAtATime`, since they are false without it. `IInv` says what taking turns gives: a version that a
call is about belongs to that call (`CallsExcludeEachOther`), so that what a decision
read, and what its handler checked, still holds at the commit (`DecisionsAreFresh`). The
columns that the UPDATE leaves out are therefore harmless (`CommitStoresDecision`), and a change of
status is either a version that appears or a decision that was sound (`StatusChanges`), from which
both action properties follow. A new version needs no turn: its row is invisible until
its call ends (`PendingAreInvisible`).

`DataSourcesProofs` has two invariants. `SInv` needs no turns: snapshots keep their
connection and their order because the foreign key and the unique constraint refuse the
rest at the commit, however old the copy of a call is. It adds that an update
never writes a row away (`UpdatesKeepTheRow`) and that no structure is kept twice
(`NoneTwice`). `TInv`, for the results of tests, needs `OneAtATime`: whoever
administers a connection is alone with it and holds its row as it is (`TurnsAreTaken`,
`CopiesAreFresh`), and an edit keeps "ok" only with the settings it read
(`EditsWithdrawTests`). Captures take no turns in either.

`LlmConfigurationsProofs`: the types hold in any case, the four safety properties with
`OneAtATime`. `LInv` has a part for the rows (a credential has one owner, and it is a key of the
provider that the owner names) and a part for the calls: whoever administers holds
the row as it is, and what it is about to commit has been checked
(`EditsAreChecked`, `CredentialsAreTheirs`). Proposals take no turns and may hold copies of any age.
For those, `KnownKeys` is the step that is not obvious: an identity of a credential is
never given to another one, so that an old copy finds the key that it knew, a newer one of the same
provider, or nothing.

`SalesMartProofs` proves the four properties of `sales_mart`, for any dimensions,
keys, rows, KPI and changes of the source.

Keys resolve: `MInv` adds that the dimensions read so far have every key of the source,
blanks aside, as long as the source stood still (`Covered`), and that its facts refer to
keys it has (`Fits`, the foreign keys of the source).

The types (`TypeOK`) and `AnswersAgree` are about what folds compute. The community modules
define a fold as a choice among functions, so the first sections prove that the function
exists and is unique. The library's induction theorems cannot be cited with an operator;
where a claim needs induction, it is done on a SET of numbers (or of finite sets) for which the
claim holds, from the theorem that the numbers are well founded. On that rest sums that
do not depend on the order, the union of disjoint parts (the parts of a ranking add up to
what SQL says of all its rows), and recipes that are KPI of their own proposal with a
value for each code. `TInv` carries the types of the rows read, of the numbers given and
of the selection.

`DashboardKeepsTheLoad` compares two evaluations: a load goes through the recipes once, a
dashboard in rounds until nothing new is found, in whatever order the selection has. What connects
them is that a load in order is a fixed point: each formula has the value that the
values of its inputs give it (`LoadIsFixed`). A round starts with values of that fixed point,
adds only such values, and adds each formula whose inputs are there (`RoundIs`). So
after as many rounds as there are formulas every one is found that has a value
(`DashboardIs`). That the order of a proposal puts formulas after their inputs is what
compilation sees to (`CompileInPlace`, `ListedIs`). `EInv` says what the record has to do
with it: a selection names compiled recipes, each once, and a load stored the values of the rows that
it stored.

The assumptions are that `Clean` leaves what it has cleaned as it is, that rows have different
identities, that each dimension has its set of keys, that a proposal is a sequence of KPI
of two arguments each, that the territory is one of the dimensions or none, and that NULL
is no number.

`ProposalGenerationProofs` proves six of the seven properties of `generation`, for any source,
limit on tables, needs, answers, adjustments and length of history. It has three invariants.

- `GInv`, of what is rested on: a call in flight, and so the version that it leaves, has an
  acknowledged review of its own snapshot (`RestsOnTheReview`). Snapshots and reviews that
  appear while a provider answers change nothing that the call holds.
- `SInv`, of what is compiled: a version with a document has the scope of its own
  concepts (`Scoped`), which has its fact, was compiled over that scope from its own blueprint, and
  has the issues that the validator finds in that document (`CompiledFrom`), also
  after revisions. Four properties follow, and a part of `DecisionsAreKept`. `TypeOK`: a version is ready exactly when
  it was compiled without an issue. `ScopeHoldsTheEvidence`: a search in breadth finds a
  shortest chain, a shortest chain meets no table twice, so that the tables of a chain that
  is taken whole are joined within the scope, and cutting at the limit takes none
  that came before. `ProvenGoalsAreAnswered`: the measures and formulas that the source proves are
  added one at a time, and each is still there, with the operands it was given, when the next
  have been added. `ApprovableCanBeLoaded`: the validator and the recipes of the load both go through
  the KPI of a document in its order, each with its own record of what came before, and the
  proof takes them together step by step. No two aggregates of a compiled document read
  the same measure in the same role (`SaidOnce`), so that the recipes, which keep one of such two, drop
  none, and a formula finds the inputs that it found in the validator (`AllHaveRecipes`). A column
  of a document is in the scope, and what can be reached within a scope can be reached in
  the source (`ReachableGrows`), which is where the plan looks for it. The part is `KpisKeepTheirMeasure`: the place of a measure in the document is
  the number of measures kept up to it in the blueprint, which is how a KPI finds it.
- `RInv`, of revisions: a version was generated, or its blueprint is what its change makes of
  the blueprint of an earlier version that was compiled (`Follows`). With `SInv` it gives the other two
  parts of `DecisionsAreKept`: `AdjustmentsAreFollowed` (the choices of a person survive reordering
  and the rules that mend a calculation) and `DimensionsKeepTheirTable` (a lock decides
  the table, whatever suits better, and is copied by every later change).

`SInv` and `RInv` were checked with TLC on the instance of `generation` before they were proved. They
are needed because the properties speak of the newest version and of what it came from,
while a revision starts from any version and compiles again.

The assumptions are named in the modules: a source has finitely many tables and relations, and
a table a sequence of columns (`StructureAssumption`), each of one table, since a snapshot
knows a column by its table and its name (`ColumnsAssumption`); the limit is a number
(`LimitAssumption`); answers have the shape that `proposal_blueprint_schema` and the schema of
the concepts ask for, adjustments the shape of the request's body
(`SemanticsAssumption`, `AnswersAssumption`); there is a snapshot (`SnapshotsAssumption`). Nothing is
assumed of the words, the numbers of tables, the relations or the contents of an answer.

The proofs changed the model where it could not be reasoned about or said too much: selections
over sequences that only depend on single elements became comprehensions or folds, and
sets where the order does not matter.
`DashboardKeepsTheLoad` had no condition on names at first, and selections could
hold a code twice, which the handler excludes; both came up in the proof. `DecisionsAreKept` was first stated without `NamedOnce` and without the rates that are mended:
TLC found it true on its instance, and the attempt to prove it showed two answers of a provider
for which it is false.

`MasterKeyProofs` proves that every sealed secret can be opened with the file and that
the file is never replaced, for any workers and keys. `IInv` adds `MakersHoldLock`
(whoever is between looking for the key and replacing the file holds the lock),
`MakersFoundNone` (a key is only being made while there is none) and `LoadedIsFile`
(what a process has loaded is the file). `Die` preserves them because the kernel
releases the lock of the dead and of nobody else.

`AccessControlProofs` proves that recovery is always possible and that assignments name
roles that exist, for any users, roles, permissions and calls. Recovery rests on one
account and one role (`ProtectedAreIntact`); each call in flight has
promised to spare them when it began (`CallsSpareProtected`), and a commit that applies
the difference between a set it read and a set it wants takes away only what is
missing from the second. So what other calls committed in between does not matter.

### Only model-checked

- Liveness (`RunningSettles`, `RequestsAreAnswered`, `SurvivorsServe`): fairness is beyond the prover.
- `CompiledHoldsTogether`: what the compiler makes is judged by rules written separately, word by
  word, and whether it passes all of them depends on the words of the source. With a column whose words
  are those of an identifier and of an amount at once, for one, it does not; the code
  assumes of a source that this does not happen, and says so nowhere. What does not depend on words is
  proved: what is placed, added, adjusted and locked, and that what passes can be loaded.
- The violations: a counterexample needs one instance.

The proofs hold for what is written in the modules. `OneAtATime` is a hypothesis about people
that the code does not enforce; what goes wrong without it is under Findings.

## Not modelled

Formatting, paging and pure readers; the export of reports; introspection queries;
the vocabulary that classifies questions, suggestions of needs and the catalog of questions
per source; earlier versions of the compilation rules; the compaction of metadata for a
prompt and the wording of prompts; the types, labels and currency of a mart;
timelines and the comparison of periods; general parameters; the frontend; migrations; who may
call which handler; audit events, which are part of the transaction that they report. A
worker thread that goes on after its call died is covered for a load: committing the
mart and dying is a step before the death.

## Plan

Done: all the modules above, checked; every safety property proved, except the one under
[Only model-checked](#only-model-checked).

Left, in this order:

1. What names of a source have to satisfy for compiler and validator to agree, as a named
   assumption, and `CompiledHoldsTogether` under it, code by code.
2. Timelines and comparisons of periods in `SalesMart`.
3. The structural part of a review (`assess_business_need`) over `SourceGraph`, in place of a
   free choice among assessments.
4. The semantic advice on a version and the catalog of questions per source.
