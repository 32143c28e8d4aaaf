# A TLA+ verification of akash-github-runner

This directory holds TLA+ models of the code of this repository, the TLC
configurations that check them, theorems about them with proofs that TLAPS checks,
and `PROJECT.json`, which says for every definition which lines of the source it
translates.

The repository is the policy and the machinery of self-hosted GitHub runners that an
organisation rents on Akash: reusable workflows that clean up after runners, an
action and two dozen rules that every consumer repository runs in CI, a monitor,
and tools. Little of it is a long-running program. What makes it hard is what it
works on: a list of runner registrations, an API budget, an account and a branch
that several repositories share and change between any two of its calls.

* [The system](#the-system)
* [The modules](#the-modules)
* [The runs](#the-runs)
* [Fairness](#fairness)
* [The proofs](#the-proofs)
* [Where code and words part](#where-code-and-words-part)
* [What the models leave out](#what-the-models-leave-out)
* [The plan](#the-plan)

To repeat a check: `tlc -config reaper_sweep.cfg MCStaleRunnerReaper`, and so on
(`PROJECT.json`, `runs`); a proof: `tlapm StaleRunnerReaper_proofs.tla`.

## The system

| part | state it keeps or touches | operations | what is hard | what makes it correct |
|---|---|---|---|---|
| stale-runner reaper (`reusable-stale-runner-reaper.yml`) | the organisation's registrations; the core REST budget; files of one job: listing, owned list, count | guard credentials, check the floor, list page by page, read the total, select by prefix, recheck the budget, DELETE, summarise | every call may fail on its own; the list changes while it is paged; sweeps overlap (no concurrency group); the budget is the provisioner's too | removes only what is its caller's, offline and idle when listed; stops at the floor; never reads a failure as an empty organisation; says what it did |
| registration rules (`check_dereg_backstop`, `check_backstop_covers_producers`, `check_sibling_prefix_collisions`) | none; they judge workflow texts | a verdict on one repository, or on several checkouts | registrations outlive the workflows the verdict was about; prefixes overlap | a repository that passes drains what it creates, takes no runner that it saw at work, and spares its siblings |
| population monitor (`population-monitor.yml`, `baseline/check_population.py`) | one number in a cache entry | restore, list, count, compare, write, report, store | two runs hours apart joined by a file; evictions; reruns; a count that saturates | only measurements are kept; a run that judged nothing says so |
| pool handoff (`check_standard`, `check_pool_owns_teardown`, `check_teardown_can_identify`, `check_pool_not_before_consumers`) | a lease, its runners, the jobs of a run | provision, publish the identity, roll back, work, tear down | job order, conditions, failure and cancellation at every point | the lease outlives the work and not the run; whoever owns it closes it |
| escrow reaper (`reusable-akash-escrow-reaper.yml`, `check_escrow_reaper_is_adopted`) | deployments on one account that repositories share | install, guard, classify, close, count, report | partial sweeps, absent summaries, moving refs, an input that arrives as text | closes what carries its prefix and, where no prefixes overlap, what is its own; zero means zero |
| `merge_ready.py` | one report | some seven reads of GitHub, then a verdict | GitHub moves between the reads; two APIs for one context; pages; reruns | READY was true of each thing when it was read |
| conformance action (`akash-runner-conformance/action.yml`, its reusable workflow, `conformance_exit.py`) | exit statuses of the rules | run each rule of the scopes asked for, keep every status, announce what was not run, fail once | a swallowed status; a rule that never ran | a green job has judged something; nothing is silent |
| `_cli.py` | none | resolve what a rule judges | three resolvers, an abbreviated flag | a rule judges what it was given |
| gates and placement (`gate_registry`, `check_gate_is_not_re_derived`, `check_funding_gate_is_not_re_derived`, `check_funding_projection_is_quantised`, `check_unvalidated_default`, `check_standard` l. 230-541, 651-682) | none; they judge a job that deploys | a verdict on the gate of a lease and on the choice of its provider | others draw on the account between two looks and fill providers after the choice; a threshold that is no number | the same level gets the same verdict; a lease goes where it fits |
| runner image and updates (`check_runner_image_digest_floor`, `check_no_pre_emudhra_runner_digest`, `check_disable_auto_update_absent`, `check_auto_update_pump_has_a_bound`) | none; they judge the files a container is deployed from | a verdict on image, variable and restart policy | GitHub releases and deprecates versions while a container registers, updates, dies and restarts | starts current, outlives a deprecation, does not register again without end |
| clean-up workflows (`check_reaper_schedule`, `check_schedule_inputs_are_empty`, `check_listing_failure_is_loud`, `check_teardown_cannot_be_silenced`) | none; they judge a workflow | a verdict on its triggers, inputs and statuses | every step may fail and be swallowed; a schedule has no inputs | green means clean; live only by decision; what is left behind goes away |
| baseline and pins (`baseline/check_conformance.py`, `check_conformance_pin_agrees_with_checker_ref`) | none; they judge a checkout | five rules and a report; the two pins of a call | tags and branches move after the verdict | a pass is worth the same tomorrow; secrets are documented; releases ascend |
| four textual rules, `df-akash-gate.yml`, `ci.yml` | none, or a text | see `PROJECT.json`, components | | not modelled, see [below](#what-the-models-leave-out) |

How they meet: the conformance action runs the registration and handoff rules on a
consumer before a change merges (`SharedOrg.Edit` asks `Compliant`); what they
accept is what then runs against the organisation (`SharedOrg.Reap`, in detail
`StaleRunnerReaper`); the monitor watches what the reapers leave behind; the escrow
reaper is the backstop of the pool handoff; the resolvers of `_cli.py` decide which
file a rule has judged. A lease passes through three parts: a gate lets it be created
(`Provision`), a container works in it (`RunnerPump`), and if its run ends without
closing it a clean-up workflow has to (`CleanupRun`); `LeaseLife` is the three in a row.
A consumer takes all of this by a pin, and `Consumer` is what that pin is worth.

## The modules

| module | models | state and actions against the code |
|---|---|---|
| `OrgRunners` | GitHub's list of registrations, the budget, what `gh api` prints | external: translated from how the reaper uses it (offset pages of `per_page`, `rate_limit` free of charge, an error body on stdout when a call fails with 403 or 404) |
| `StaleRunnerReaper` | the job `reap` | one action per call of `gh api`; `pc` is the place in the step, `page`, `offline`, `listRc`, `total`, `owned`, `todo`, `D` are its files and variables; `reaped`, `attempts`, `wins`, `atFloor`, `steady`, `shifted` are history for the properties. A new budget window, the provisioner's polling and every move of a runner come between any two calls |
| `BackstopRules` | the three registration rules | a workflow is the record of what their patterns find in it; each rule is a predicate |
| `SharedOrg` | repositories that share an organisation | `Edit` merges only what passes the two enforced rules; `Audit` is the sibling rule; `List` puts a registration on a sweep's list (the reaper, l. 236), `Reap` deletes it later, by its number (l. 304), whatever has become of it or been merged meanwhile |
| `PopulationRules`, `ShrinkageWatch`, `PopulationMonitor` | the two rules; the shrinkage rule as its signature has it; the job with its cache | `Shrinks` is used by both machines: `ShrinkageWatch` hands it `{"count": n}`, `PopulationMonitor` what the workflow hands it |
| `HandoffRules` | the four rules of the handoff | a caller and a pool are records of needs, conditions and wires; each rule is a predicate |
| `LeaseOwnership` | the abstract specification | who owns the lease, who uses it, and who may close it when |
| `PoolHandoff` | every run GitHub may make of a caller and a pool that pass | jobs become due, run or are skipped by their conditions and needs; provisioning creates the lease, names it, succeeds, fails, falls back or is cancelled; implements `LeaseOwnership` (`OwnsUntilHandoff`) |
| `EscrowRules`, `EscrowReaper` | the adoption rule; sweeps of an account | a sweep is a record that goes from install to outputs; the classifier is external and does what the workflow asks of it |
| `MergeReady` | `inspect_pr` and `main` | one action per read, in the order of the code; GitHub moves in between |
| `Conformance` | the script of the action | `RunRule(r, s)` is a rule that exits with `s`, in any order within its scope; `JobInit`, `JobNext`, `JobSpec`, because the theorems about it stand beside the consumer's |
| `RuleTargets` | the resolvers of `_cli.py` | one resolution |
| `ProvisionRules`, `Provision` | five rules on gates and placement; a gate and a create at work | a gate is the record of what the rules read in it; `Sample`, `Decide`, `Select`, `Create` are the steps of the job, `Unmeasured` is a gate whose instrument failed, `Drift` and `Crowd` what others do in between |
| `RunnerImageRules`, `RunnerPump` | four rules on the files of a runner; the container | a file is the record of what the patterns find; `Register`, `Update`, `Refused`, `Restart` are the container's, `ReadVersions` is a landing gate, `Release` and `Deprecate` are GitHub's |
| `CleanupRules`, `CleanupRun` | four rules on a clean-up workflow; its runs | a workflow is the record of its triggers, its flag and the form of its list, install and close; one action per step, each of which may fail |
| `LeaseLife` | the three in a row | `HandOver` passes the lease from the job to the container, `Abandon` and `Forget` from the container to the clean-up |
| `BaselineRules`, `Consumer` | the baseline and the rule on pins; a consumer | `Run` resolves what a checkout names, `Move` is upstream, `Edit` a merge, `Publish` a release |
| `MC*` | instances | constants and catalogues of documents |
| `*_proofs` | theorems | see [the proofs](#the-proofs) |

Definitions headed "Bug:" or "Mutant:" are variants that no specification uses: each
one is what a plausible slip in the code would make of the definition after it, and
`PROJECT.json` (`mutants`) names the property that notices.

## The runs

| run | shows | bounds, and why they are enough |
|---|---|---|
| `reaper_sweep` | one sweep after another: `OnlyOwnedReaped`, `RecheckedOften`, `ListingComplete`, `StopsAtFloor`, `SilenceIsNoAnswer` | three registrations, two to a page: a full and a partial page, a registration that moves up a page, a prefix that extends another; recheck after every second deletion, so that one, two and three deletions fall on both sides of it; a budget of two with a floor of one crosses the floor in both directions; every way of getting the credential, a dry run, blank entries and a blank list |
| `reaper_two` | two sweeps, call by call: `HonestCount`; each ends: `SweepEnds` | one registration that both want, recheck after each deletion, failed reads of both kinds. The double count needs no second registration |
| `reaper_v_floor` | a violation: `StopsAtFloorAlways` | as `reaper_sweep`, with error bodies on stdout |
| `org_rules` | `BusyOnlySinceListed`, `SiblingsSpared`, `CoveredIsDrained` | two repositories, each with any of seventeen sets of workflows, one for each thing the rules tell apart; names of two letters over literals `a`, `ab`, `b`; one slot, because a deletion concerns one registration; it stands on one list at a time (`MaxLists`), which is listing, job and merge, and then the deletion: a second sweep that deletes first only shortens that. The theorems have no such bounds |
| `pop_monitor` | `StateWasMeasured`, `NeverSilentlyGreen` | three runs: one that stores, one that restores, one rerun or eviction in between |
| `pop_v_prior` | a violation: `PriorIsCompared` | as `pop_monitor` |
| `pool_handoff` | `NothingLeaksQuietly`, `OnlySiblingsStarve`, `OrderIsNoGate`, `RunEnds`, and the refinement `OwnsUntilHandoff` | two consumers, one teardown, one other job, two closing jobs inside the pool; the needs, conditions and wires of `MCPoolHandoff` in all combinations that say something to each other, most of which the rules refuse: what passes is what runs, with the pools that ask `cancelled()` or `!failure()` and the ones whose identity the rule does not see |
| `escrow_sweep` | `ClosesItsOwn`, `GreenIsSwept`, `AdoptionHolds` | two repositories, two leases (a partial sweep has closed one; they are interchangeable), one sweep, one release, every text an input of type boolean may arrive as; callers with a prefix they stamp, one they only mention and the default; three prefixes, `ci-`, `ci-e2e-` and `just-akash-`, one of which begins another, as a caller's and as a sibling's; summaries with either line, both or none |
| `merge_ready` | `ReadyIsNewest`, `FailuresAreSeen`, `ReadyHasNoOpenThread`, `ReadyHasRun` | one context with two records of two kinds on two commits, or threads and runs; times in half seconds, of which the odd ones are written with a fraction; threads and runs exceed their pages, so that what is on the second one is missed; records do not (`ChecksFit`) |
| `conf_action` | `GreenIsJudged`, `NothingIsSilent` | enforcing and advisory rules in both scopes, four exit statuses, every combination of inputs |
| `consumer` | `ContractIsChecked`, `SecretsAreDocumented`, `ReleasesAscend`, `PassIsRepeatable` | three revisions, of which the second brings the rule on pins, so that a pin may be older, equal and newer; two releases, because an order needs two; every form of a pin, a secret and an entry of the registry that the rules tell apart, one difference from a good checkout at a time; a release after any edit, among them those that revert a changelog or drop it |
| `lease_life` | `VerdictIsOfTheLevel`, `LandsWhereItFits`, `StartsCurrent`, `TrustedImage`, `GreenMeansClean`, `LiveByDecision`; under fairness `OutlivesDeprecation`, `PumpEnds`, `OrphansEnd` | two deposits: none, one and more than one; two providers, one preferred; four images: before and after the distrust, below the floor, newer than the list; three versions, so that one may be released and another deprecated after a container has started; a window of three lines. The three catalogues differ from a good gate, file or workflow in what one rule looks at, alone and next to another one; among them gates whose instrument fails and is taken for a yes or a no, deploys that are no command or cannot be split, files no scan reads and a directory that is no root |

The composition of `lease_life` is sequential: while a lease is created no container
runs, and what a clean-up finds is only that something was left. `Forget` and `HandOver`
drop what the next part cannot know, so that the run is the sum of the three and not
their product.

Deadlock is not checked where the thing modelled ends (`CHECK_DEADLOCK FALSE`: a job of
the action that is over does nothing; a lease that was refused, or was closed, has no
more to do; a consumer whose upstream has stopped moving may have nothing to change).

Some properties name the cases they do not hold in, and the instances contain those
cases:
`BusyOnlySinceListed` (a predicate that stands `elsewhere`), `SiblingsSpared` (`Blind`),
`CoveredIsDrained` (`AsCounted`), `NothingLeaksQuietly` (`Nameless`, `UnseenGate`),
`OrderIsNoGate` (`HoldCancelled`, and a condition of the pool's own), `ClosesItsOwn`
(`Overlap`), `GreenIsSwept` (a summary that was not `counted`), `AdoptionHolds` (`Evident`),
`VerdictIsOfTheLevel` (`Unrecognised`, `Collapses`), `LandsWhereItFits` (no `CallSite`, one
provider, a script, a ranking in `other` words), `StartsCurrent` (`TagIsHearsay`),
`TrustedImage` (not `Scanned`, `quoted`, allowed, a tag, newer than the list),
`OutlivesDeprecation` (`Unseen`), `PumpEnds` (`PumpsOn`), `GreenMeansClean` and `OrphansEnd`
(`UnseenList`, `UnseenClose`), `LiveByDecision` (`FalseIsLive`, `FallsThrough`, an `if:`),
`ReleasesAscend` (a section that was not `kept`). `ReadyHasNoOpenThread`, `PassIsRepeatable`,
`SecretsAreDocumented` and `JudgesWhatItWasGiven` have a clause
each, `ReadyHasRun` has `RunsFit`. `ReadyIsNewest` and `FailuresAreSeen` have `ChecksFit`, which
is never false in the instance: the theorems are what covers longer lists. The section
on [code and words](#where-code-and-words-part) says what the clauses stand for. `StopsAtFloor` and `SilenceIsNoAnswer` are about failed reads that leave
nothing on stdout, which is what the reaper's text assumes.

## Fairness

* `StaleRunnerReaper.FairSpec`: weak fairness of each sweep's own steps. GitHub keeps
  running the shell of a job; a call ends, with an answer or an error. Nothing is
  assumed of the budget, which may stay spent, or of the runners.
* `SharedOrg.FairSpec`: weak fairness of a listing and of a deletion, for each slot. Crons
  fire again and again, and a sweep gets to every line it has listed. It says nothing of
  which reaper it is; a registration nobody selects is never listed, and one that is
  taken off by somebody else is not deleted twice.
* `PoolHandoff.FairSpec`: GitHub schedules what is due, a runner that is online picks
  up its job, and every job, of the pool too, ends within its time limit. There is no
  fairness of `Cancel`, `Expire` or `CreateLease`: nobody needs to cancel, and runners
  may stay.

* `LeaseLife.LeaseSpec`: a container registers, updates, is refused and is restarted when
  it can (the runner's own loop and the provider's), a landing gate that exists is
  reached, a schedule fires again (GitHub), and a job that has started goes on
  (`CleanupFairness`). There is none of `Release`, `Deprecate`, `Abandon`, of a person's
  dispatch or of the success of any call: each step may fail for ever, which is why
  `OrphansEnd` ends in a run that says so.

The other specifications are checked for safety only.

## The proofs

Every safety invariant and every action property that a run checks is also a theorem,
and `OwnsUntilHandoff` a refinement. A theorem holds for all values of the constants
that satisfy the named assumptions of the modules (`OrgAssumption`, `ReaperAssumption`,
`NameAssumption`, `ConfigAssumption`, `CapAssumption`, `BoundAssumption`,
`JobAssumption`, `DocumentAssumption`, `RulesAssumption`, `ProviderAssumption`, `PrefixAssumption`,
`PlanAssumption`, `ImageAssumption`, `PumpAssumption`, `FlowsAssumption`,
`EscrowAssumption`, `BaselineAssumption`, `ConsumerAssumption`: types, finiteness,
disjointness; two modules call theirs `BoundAssumption`). TLC evaluates them in every run. Most of the invariants
are not inductive as they stand; each module names what has to be added.

* `StaleRunnerReaper_proofs`: type correctness, then six invariants, each with its own
  strengthening. `OwnedInv` follows the owned list from the listing to the loop.
  `CorroboratedInv` and `SummaryFollows` use that failed reads are silent, and are
  together `SilenceIsNoAnswer`.
  `BudgetInv` ties the deletions since the last look to the remainder of `D`, so that
  `RecheckedOften` holds for any interval: the lemmas on `D % RecheckEvery` say how a
  cycle begins, goes on and ends. `FloorInv` carries the look at the budget into the
  loop. `CountInv` says that what is counted was removed and that the removals of two
  sweeps are disjoint, because a registration that has gone does not come back; the
  cardinalities add up from that. `ListingInv` is about a listing in progress: what
  stood on the pages behind it is in the file (`PagesBehind`). A registration keeps its
  place while none before it leaves (`PlacesStay`), because ids are handed out in
  increasing order (`IdsAscend`): that the reaper is safe from what registers while it
  pages, and not from what leaves, is this lemma and the case it excludes.
* `SharedOrg_proofs`: the invariant says that every repository's workflows pass the
  rules (`Enforced`), that a standing audit is about the present ones (`Standing`), that
  names begin with their producer's literal, and that every line of a sweep's list, and so
  the last reap, is one that a merged workflow allowed when it was listed. That is all
  that can be said of a busy runner (`BusyIsARace`). `SiblingsSpared` then rests on a lemma about prefixes: two prefixes
  of one name are comparable.
* `PopulationMonitor_proofs`: a stored number is the reading of the population it was
  taken from; no other number is ever stored. At its end the shrinkage rule alone
  (`Watch`, an instance of `ShrinkageWatch`, which has no run): its verdicts are sound for
  every population and every cap.
* `PoolHandoff_proofs`: the invariant has six parts: the order of the jobs, the
  phases of the pool, where a consumer is, that a handed-over lease is open until a
  closer runs, that a closer is last, and that a runner goes only while its consumer
  waits for a sibling. From it follow `HandoffSurvives` and `OnlySiblingsStarve`, and
  that every step is a step of `LeaseOwnership` or a stutter (`HandoffIsOwned`). For
  `NothingLeaksQuietly` a second invariant, `LInv`, has one part for each place where a
  lease could be lost: the producer that made it and did not name it (`Writes`), the
  pool's job that ends before its closing jobs (`PoolEnds`), the rollback that stays out
  (`RolledBack`), the teardown that stays out (`TornDown`). `OrderIsNoGate` needs the
  first invariant only for types and documents.
* `EscrowReaper_proofs`: the invariant follows one sweep from its guards to its outputs:
  what was found of the account carries the sweep's prefix and is of a kind it was told
  to close, and no runner with that prefix was passed over (`SeenRight`); nothing was
  closed that was not found, or under a blank prefix (`ClosedRight`); the outputs of a
  green sweep are the classifier's numbers, or what the code puts where there is none
  (`Ending`); the prefix and the pin are those of the caller (`CalledRight`). Sweeps run
  beside each other and beside deployments, and what holds of one goes on holding
  because the account only moves forward (`Kept`, `SweepKept`). `ClosingIsOnesOwn` needs in
  addition that a deployment's name begins with a stamp of its owner (`Stamped`), and that
  of two beginnings of one name one begins the other (`PrefixAssumption`): hence a sibling's
  deployment is closed only where two prefixes overlap. `AdoptionIsWorthSomething` needs that
  an adopter's prefix begins its one stamp (`AdopterPasses`).
* `MergeReady_proofs`: the invariant carries what was true at a read to the verdict, past
  everything GitHub does in between. While the statuses are still to be read, a check-run
  that was seen is there or something dated since has taken its place (`ChecksKept`);
  then a context that is in no list has a passing record that supersedes what was there
  (`PassedNewest`, by `LatestIsNewest`), and one whose newest record is a failure is in a
  list (`FailedListed`); an open thread of the page is counted (`OpenListed`); a run that
  was asked and is not said to have no job has one (`RunsKept`), and one that is said to
  have none had none when the runs were listed, whatever was rerun since (`ZeroKept`). All of it rests on dates being given when a
  record is posted (`Dated`). `PageIsAll` and `FewRecords` are where `ChecksFit` and
  `RunsFit` are needed: without them the first page is some of the records.
* `Consumer_proofs`: three machines of one chain. The consumer: a run is one of this
  checkout (`RanHere`) and a pass names one commit twice, whose checker has the rule
  (`PassedHere`). A pass repeats
  because a fixed ref resolves to itself (`ResolvesType`), whatever `Move` does. That a
  release is above all earlier ones is `Descending`: the rule compares neighbours, and
  the theorem needs the top against any - of those the changelog still has, for nothing
  keeps the others there. The action (`JobInv`): statuses are kept, what
  ran was targeted, what did not run is announced before the exit. The command line
  (`Cli`, an instance of `RuleTargets`, which has no run): whatever a resolver judges is
  what it was given; the three are one lemma about an outcome that is not a usage error.
* `LeaseLife_proofs`: three invariants for the three parts. `ProvisionOK` says that since
  the last look at the account only others' draws have lowered the level, that a verdict
  is the level's where `Recognised` and the gate could see it (`Sighted`), and that nothing is
  created where it does not fit;
  the lemma `OwnArithmetic` is what the five rules leave of a gate that decides by
  itself, and `PassingIsExcused` why a gate that decides on what it could not measure passes only
  if `Collapses`. `PumpOK` ties the image of a container to the files that were judged: no
  update or restart changes the image, and a restart brings its version back.
  `CleanupOK` says why a run is live and by which form its list or close was silent.
  That the parts do not disturb each other is `passed # {} => orphan = "none"`: nothing
  counts as judged once only a name is left.

Two arguments go over data of any length without induction, which the prover cannot
instantiate: a set of numbers that is not empty has a least element (`Least`: finite sets
are well founded under inclusion), hence a set of dated records has a newest one and a
log whose neighbours descend has no section above its top.

Only model-checked: the liveness properties `SweepEnds`, `CoveredIsDrained`, `RunEnds`,
`OutlivesDeprecation`, `PumpEnds` and `OrphansEnd`, since liveness under fairness is beyond
the prover. The two properties of the runs that find a violation are not theorems, of
course.

## Where code and words part

Two disagreements have a run of their own: `reaper_v_floor` and `pop_v_prior`. The others
were met while modelling; each was confirmed by TLC on a variant of a run and is now
the clause, the instance or the assumption named with it.

Reaper, `.github/workflows/reusable-stale-runner-reaper.yml`
* l. 212 (`reaper_v_floor`): a `rate_limit` read that fails with an error body leaves the
  body and a 0 in `R`; the comparison is an error and the floor is not enforced,
  although "a failing `gh` makes the rate-limit read 0" (l. 193-195).
* l. 297: the budget is looked at when `D`, the count of *successful* deletions, is a
  multiple of 25; refused calls spend budget unseen. `RecheckedOften` therefore counts
  deletions and not calls.
* l. 253, 322: an error body in `TOTAL` or `AFTER` passes the guards, which ask whether
  they are empty; deletions follow, and the last `echo` fails, so that there is no
  summary. Hence `"text" \notin FailedRead` in `SilenceIsNoAnswer`.
* l. 304: "Reap offline, non-busy registrations" (l. 181) is true of the listing; a
  runner that connects between the listing and its DELETE is removed all the same, also
  from a job it has begun (`BusyOnlySinceListed`).

Backstop, `akash_runner/check_dereg_backstop.py`
* l. 438-445: "A dereg operation only counts ... if it is filtered" (l. 86); the safe
  predicate is looked for anywhere in the text, so that one in another command vouches
  for a DELETE that has none (`elsewhere`).

Sibling audit, `akash_runner/check_sibling_prefix_collisions.py` ("One repo's reaper must
not delete another repo's runners", l. 2); the clauses of `Blind`
* l. 183: a filter that continues the emitted literal still begins the names of some
  registrations, whose rest is interpolated.
* l. 161: the organisation is read from `env` and run text and not from `with:`, where
  adopters of the reaper pass it.
* l. 178: a reaper with no name filter has no filter to compare.
* l. 53: of `a-, b-` the audit reads the first entry; the reaper trims and uses both.

Coverage, `akash_runner/check_backstop_covers_producers.py` ("A backstop must reap what the
repo actually creates", l. 2); the clauses of `AsCounted`
* l. 149: a scheduled call with `dry-run: true` counts.
* l. 152: the filter of a per-run teardown counts, although "a teardown only ever cleans
  up after the run that invoked it" (l. 168-170).
* l. 156: `name-prefixes: ${{ vars.P }}` is taken for a reaper of everything, although "if
  it filters and we cannot read it, we do not know" (l. 163-166).

Monitor
* `population-monitor.yml` l. 109 (`pop_v_prior`): the previous observation is handed over
  as a number; the rule calls `.get` on it and every run after the first stored
  observation ends in a traceback.

Pool handoff
* `check_standard.py` l. 707, 142: a condition need only contain `always()`, so that
  `always() && !cancelled()` passes, and result gates are looked for in jobs whose name
  says teardown; `UnseenGate` is the rest.
* `check_teardown_can_identify.py` l. 87: only `exit`, `return`, `continue` and `break` count
  as ways out between the identity and its publication; a failing command is one too.
  l. 161-163: where no assignment of the identity is visible there is nothing to judge;
  l. 173-186: one good pair of assignment and publication is enough, whatever the others
  do; a way out nested in a branch is not one (`Nameless`).
* `check_pool_not_before_consumers.py` l. 82: a pool that calls `success()` itself passes the
  rule that is there against it (l. 76); l. 60, 83: so does one that calls `cancelled()` or
  `!failure()`, which its needs skip, or which provisions in a cancelled run, although
  that "can provision and leak" (l. 85-88) (`HoldCancelled`).

Escrow, `.github/workflows/reusable-akash-escrow-reaper.yml`
* l. 316: "ABSENT IS NOT ZERO" (l. 317) is kept for the verdict; a summary without its
  `closed=` line becomes a 0, and the job is green (`counted`).
* l. 34, 259-267: a blank prefix is refused because it "matches EVERY deployment on the
  account"; one that begins another repository's matches all of that repository's, and
  nobody compares them (`Overlap`).

Escrow, `akash_runner/check_escrow_reaper_is_adopted.py`; the clauses of `Evident`
* l. 296: the text of all tracked files includes the caller that declares the prefix, so
  in a git checkout the prefix is always found "SOMEWHERE ELSE in the repo" (l. 281).
* l. 85: of `placement-prefix: ${{ vars.P }}` the pattern captures `${{`.

Gates and placement; the clauses of `Unrecognised`, `Collapses` and `LandsWhereItFits`
* `gate_registry.py` l. 271: "every gate in this registry is checked" for collapsing a failed
  instrument into a verdict (l. 16); a block that reaches the primitive is left before that
  (`Collapses`).
* `check_standard.py` l. 279-281: a line that cannot be split is kept "so the caller fails
  closed"; l. 313 wants two tokens, finds one, and the deploy passes. l. 310-326: a deploy
  behind `if`, `!`, `then`, `timeout` and others is taken for data (`CallSite`); l. 63-68,
  377-440: a ranking by price in other words is not found.
* `check_unvalidated_default.py` l. 265: "any quoting form" of a variable does not include
  `${NAME}`; l. 221: the validation of any other variable passes for one "for `var`"; l. 152:
  a `run:` of one line is no script to it.
* `check_funding_gate_is_not_re_derived.py` exempts every block that mentions the primitive,
  whatever else the block computes; a gate that reads and decides in two blocks is not
  one. `check_gate_is_not_re_derived.py` is only asked for `--gate capacity`.
* `check_funding_projection_is_quantised.py` l. 20 is about "opposite verdicts" at "the same
  funded level": a projection of capacity, one that does not sleep, and one in other
  words are not found. It exits 0 on a directory that is not there.

Runner image and updates; `PumpsOn`, `Unseen`, `TagIsHearsay`
* `check_auto_update_pump_has_a_bound.py` l. 42: "a `restart:` policy that is not `always`, so
  the pump cannot run indefinitely"; `on-failure` and `unless-stopped` are not `always` and
  restart a container that keeps failing; any `restart:` of the file counts (l. 224).
* `check_no_pre_emudhra_runner_digest.py`: "no pre-fix digest is admissible" (l. 8) in a file
  with a suffix for code (l. 71, 219), in a directory that is not skipped, that can be
  decoded (l. 227-230), under a root that is known (l. 261-265) - a Dockerfile is none; what
  stands behind a quoted ` #` is a comment to it, as it says itself (l. 44-45).
* `check_disable_auto_update_absent.py` l. 40: "presence, not value - and that is the whole
  rule"; a quoted list item is present and not found (l. 88).

Clean-up; `UnseenClose`, `UnseenList`, `FalseIsLive`, `FallsThrough`
* `check_teardown_cannot_be_silenced.py` l. 19: a close "whose failure cannot change the
  step's exit status" may be piped, read and dropped, or followed by an unrelated `exit 1`.
* `check_listing_failure_is_loud.py` l. 54: of constant fallbacks `|| exit 0` and `|| printf` are
  not in the pattern, and leases are not a listing to it.
* `check_schedule_inputs_are_empty.py` l. 38: `inputs.X == true` is false on a schedule, and
  false is live for a flag that disarms; an `if:` without `${{ }}` is not read. l. 80-83: a
  guard that is "false on a cron -> short-circuits before the input" goes on to the
  default behind it: `github.event_name == 'workflow_dispatch' && inputs.execute || 'true'`
  is `'true'` on a schedule (`test_schedule_inputs_are_empty.py` l. 98 wants that form
  to pass).

Baseline, `baseline/check_conformance.py`
* l. 375: "branch refs are never acceptable"; those that are not called `main`, `master` or
  `HEAD` are (l. 409).
* l. 46: "everything else belongs in secrets/*.sops.env"; `secrets: inherit` and `secrets.*` are
  seen by no pattern of l. 60-71. l. 213-233: after `run: | # note` a `#` line of the block is
  blanked, which is no comment to GitHub (`Overlooked`).
* l. 467-518: the versions of a changelog must descend; that the sections of what was
  published stay, or that there is any section at all, is not asked (`kept`).

Others
* `merge_ready.py` l. 223, 196: one page of threads and one of check-runs are read.
* `action.yml` l. 79 says `not-judgeable: warn` "suits a repo that legitimately has nothing
  for a rule to judge"; an enforcing rule that judges nothing fails it nevertheless, as
  a comment at l. 125 says.
* `_cli.py` l. 50: argparse accepts an abbreviation of the flag, `_passed` does not see it,
  and of two different paths one is judged, against l. 106.
* `df-akash-gate.yml` l. 103 prints that the lease was reaped whether or not it was; its
  deploy is commented out.

## What the models leave out

* Texts. A regular expression is what it finds: a workflow is a record of literals,
  conditions and wires. A condition is a conjunction of terms; `success()` looks at the
  direct needs of a job and not at their ancestors. The safe selectors of a DELETE of
  one's own are two kinds, safe and not.
* In `StaleRunnerReaper` a registration's name is the set of prefixes it starts with, and
  the budget has one window at a time. In `SharedOrg` a sweep lists and deletes one
  registration at a time, and has the patience to finish; `StaleRunnerReaper` has the calls.
* In `PoolHandoff` a caller has one pool, a closer may fail, jobs without needs start with
  the run, and a force-cancel, which ignores conditions, is left out. A cancellation between the creation of
  a lease and the publication of its identity leaves a lease no job can name: the
  escrow reaper is there for it.
* In `EscrowReaper` the classifier is external: it closes what carries the prefix, is stale
  and is of a kind it was told to close. A name is known by the longest prefix that begins
  it, and `Begins` says which prefix begins which. What `--ownership-register` protects is
  not modelled.
* In `MergeReady` what has been read for the last time stands still, and wording is left
  out. The stamps are half seconds. Records, threads and runs may exceed the one page
  that is read; the properties speak of what one page holds (`ChecksFit`, `RunsFit`,
  `ThreadPage`).
* In `Conformance` a rule is its exit status.
* In `Provision` the account is a number of whole deposits and a provider has room on a
  node, room in pieces, or none; prices are not modelled, nor the bids of a market: the
  cheapest of the eligible is any of them. just-akash and akash-lease-core are external.
* In `RunnerPump` one container runs at a time and versions are small numbers. In
  `CleanupRun` one thing is left behind, once; a run sees all or nothing of it.
* In `Consumer` a checkout is edited from one member of a family to another, upstream has
  one tag and one branch, and the report of the baseline is its exit status.
* Not modelled: `check_provisioning_is_delegated`, `check_context_properties_exist`,
  `check_test_pins_a_literal` and `check_stale_runner_reaper_is_adopted` (one pattern in one
  file: no state, no order; what the last asks for is in `SharedOrg` at work);
  `df-akash-gate.yml` (its deploy is commented out, so there is no lease); `ci.yml`.

## The plan

1. *Done*: the reaper, with its proofs, as the part with the most concurrency and the most
   failure paths.
2. *Done*: the registration rules and the organisation they are for, with proofs.
3. *Done*: the monitor and its rules, with proofs.
4. *Done*: the pool handoff as a refinement of `LeaseOwnership`, with proofs.
5. *Done*: the escrow reaper and its rule; `merge_ready.py`; the conformance action, with
   proofs; the resolvers.
6. *Done*: the gates, the images and the clean-up workflows with the twelve rules about
   them, composed in `LeaseLife`, with proofs of all their invariants; the baseline and
   the pins in `Consumer`.
7. What `check_stale_runner_reaper_is_adopted` adds to `CoveredIsDrained`.
8. *Done*: proofs of every property of `EscrowReaper`, `MergeReady` and `Consumer`, and of
   `ListingComplete`.
9. Reads of mixed kinds in one sweep: the silence of failed reads as a fact about that
   sweep instead of an assumption on the constant.
