# A verification development of the novel assistant

The program is a writing studio that runs on the author's own machine: a
FastAPI backend (`backend/src/novel_harness`), one SQLite database per project
("vault"), a single executor thread that calls paid models, and a React
frontend. The text and the money are the author's, so the questions worth
asking are: is a paid request ever repeated without being asked for, is a
result lost or published twice, does a crash leave something that can no longer
be finished, and do two pages (or a page and the executor) overwrite each other.

This directory holds TLA+ modules of the parts where those questions are hard,
TLC configurations that check them, and TLAPS proofs.

## Inventory

| Part | State it keeps | Operations | What makes it correct |
| --- | --- | --- | --- |
| Durable AI jobs: `job_store`, `job_state`, `job_stages`, `job_executor`, `executor_lock` | `ai_jobs`, control rows, stage attempts, receipts; the executor's epoch and position | enqueue, cancel, resume, claim, begin/dispatch/finish/fail attempt, publish, pause, recover, reconcile | no unrequested repeat of a charged request; checkpoints reused; a cancelled job never published; every job comes to rest |
| Spending: `spending`, `ai/compatible_provider` | settings, ledger entries, the set `active` in memory | reserve, sent, not_sent, unknown, settle, configure, reconcile | limits hold under concurrent calls; nothing charged is released; reconciled amounts are final |
| Automatic backups: `automatic_backups` | policy, catalogue, intents, files, `run_lock` | run, report (recovers), configure, tick, prune | a success means an intact archive; nothing unnamed on the disk; the last good archive is kept |
| Vaults: `db/vault`, `backup_restore`, `import_commit` | registry, project directories, markers, frozen drafts | create, restore, commit an import, clean up | published once and whole, or not at all; repeatable after a crash |
| Import drafts and analysis: `import_drafts`, `import_analysis` | draft JSON, batches, units, fences | edit, reserve, claim, publish, pause, retry, recover | only the current fence publishes; pause and retry lose nothing |
| Memory: `memory_candidates`, `entity_states`, `memory_conflicts` | candidates, promoted records, state intervals | edit, reject, confirm, bulk confirm | promoted exactly once and from the text it quotes |
| Chapters: `pipeline.accept`, `versions`, `chapter_summaries`, `quality*` | document revision, versions, summaries, ledger file, reviews | accept, restore, complete, edit, project the ledger | a candidate replaces only the text it was made for; projections catch up |
| Conversations: `conversation_threads` | threads, status | create, rename, archive, restore | an unfinished job keeps its conversation |
| Search: `search_index`, `retrieval`, `local_vectors`, `chunks`, `context` | FTS rows, vectors | project, rebuild, query | the index follows the rows |
| Materials and plain records: `story`, `library`, `references`, `projects`, `project_todos`, `writing_goals`, settings, profiles | rows with a revision | create, edit, delete, export | compare-and-swap on the revision |
| HTTP API: `api/routes` | none | one service call per route | transactions end with the request |
| Frontend: `app`, `features`, `lib` | local drafts, pending submissions | submit, poll, adopt, discard | late answers do not clear newer text |

How they interact. Routes run in request threads and call one service method
inside one `BEGIN IMMEDIATE` transaction. The executor thread scans the
vaults, claims the oldest job, and runs its stages; between two transactions
everything else may happen. A stage calls a provider; the provider calls back
into `StageObserver` (attempt rows of the vault) and into `SpendingMeter` (the
ledger, a separate database). Backups read the vault and write files beside it.
Import units share the executor with jobs. The frontend polls.

Hard behaviours: crashes between two durable steps; a request that may have
been charged without an answer; a connection that was refused; guards that fail
because the author cancelled or edited; a locked database in an exception
handler; two pages acting on the same row; a file and a row that must agree.
`PROJECT.json` lists them as hazards, each at the line where it bites.

## Plan

| # | Module | Composes | Abstract specification | State |
| --- | --- | --- | --- | --- |
| 1 | `DurableJobs` | job rows, stage runner, executor, author | `CallBudget` | done, proved |
| 2 | `Spending` | ledger with `_send` | | done, proved |
| 3 | `AutomaticBackups` | run, report, scheduler, disk | | done, proved |
| 4 | `ImportDrafts`, `BookImports` | uploads, drafts, the wizard; directory, registry, frozen draft; import, restore and new project as clients of one vault | | done, proved |
| 5 | `Chapters` | text, versions, accept, summary jobs, the ledger file | | done, proved |
| 6 | `ImportAnalysis` | batches, units, executor epochs, pause and retry | | done, proved |
| 7 | `EntityStates`, `MemoryCandidates` | states over the story; candidates of two origins, promotion | | done, proved |
| 8 | `Quality` | partial results of a run, its replay and pauses, the order of adoption, the overview | | done, proved |
| 9 | `LocalDrafts` | two tabs, storage events, late answers | no text is dropped | next |
| 10 | `PaidStage` | `DurableJobs` with `Spending` around one request | attempt and entry agree | next |
| 11 | `SearchIndex` | rows, FTS rows and vectors | the index follows the rows | later |

"Proved" means every safety property of the module's runs, state or step, for
all values of the constants; liveness is checked on the small instances. What
the plan has left to prove belongs to the modules still to be written.

## DurableJobs

State. `job[j]` is the row of `ai_jobs` joined with `ai_job_control`: status,
`rev` (control_revision), cancel flag, worker epoch, recovery reason, the
authorised stage and attempt number. `latest[j][s]` is the attempt with the
highest number of a stage: the older ones are never read by a decision.
`receipt` holds the keys of accepted resumes. `w` is the executor thread: `pc`
names the next transaction or call, and the other fields are its Python locals
(the fence, the stage, the attempt number, the two rounds of the provider's
loop, the outcome an exception handler is about to record). `at` orders the
attempts as `created_at` does; two attempts of a job are taken to have
different timestamps.

Actions. One per `JobStore` method, which is one transaction, and one per call
between two of them. `Interrupt` is a guard that raises: any of the source,
provider and index checks may fail at any guard. `Busy` is a locked database;
where the `OperationalError` is caught decides what follows. `Crash` loses `w`;
`Restart` begins a new epoch and, with `Upgrades`, changes the prompt versions.
Exceptions go where Python sends them: `failHttp` is the handler of
`HTTPException` in the stage runner, `failing` the other one, `raised` the
handler of `run_once`.

`sends`, `granted`, `doubt` and `late` are history: requests that reached the
provider, resumes that authorised the stage, stages that may have been charged
without a recorded outcome and without a confirmation since, requests sent
after a cancellation. No guard reads them.

Properties (the text is at each definition): `CallsWithinPermits`,
`ResumeOnce`, `PublishedComplete`,
`AtMostOneLateRequest`, `UnfinishedHasConversation`; the action properties
`NoSilentResend`, `CheckpointsKept`, `ReplacementConfirmed`; the refinement
`ImplementsCallBudget`; the liveness `JobsSettle`, `CancellationCompletes`.

`CallBudget` is what the author is promised: each stage has an allowance of
requests that only the author raises, and a job is published or withdrawn once.
The mapping takes `sends` for the calls, `1 + granted` for the allowance and
the status for the fate.

Left out: the `context_embedding` stage and its `context_ready` shortcut, local
checkpoints, jobs without a control row, the rules that only
summaries have in `enqueue`, the executor's turn for import units.

| Run | Instance | Why it is enough | States, about |
| --- | --- | --- | --- |
| `durable_one_job` | 1 job, 3 stages (stage 2 repairs stage 1, stage 3 is skipped), 2 resume keys, 1 crash, upgrades | every path through a repair and a skip, two pages that resume, a crash at every step | 1.3 million |
| `durable_faults` | 1 job, 2 stages (repair), 1 key, 1 crash, 1 locked database | a lock error in every handler, before or after a crash | 0.4 million |
| `durable_two_jobs` | 2 jobs, 1 stage, no resume, 1 crash | a job that waits, is replaced, or replaces; the scan picks the oldest | 0.9 million |

The keys bound the resumes, and with them everything else the author repeats;
the counters of crashes and lock errors bound the faults. Nothing else is cut.

Fairness. `WF(Executor)`: the thread loops while the process lives, every
request has a deadline, and SQLite transactions end. `WF(Restart)`: the author
starts the program again. Author actions are not fair.

## Spending

One `entry` per request that reserved an amount, the settings, the set `active`
and the position of each caller inside `CompatibleProvider._send`. Each ledger
method is one transaction under one lock. The loop's two rounds, the release of
an entry when the observer raises or the connection is refused, the two calls of
`settle` and the `finally` that marks an entry unknown are steps of their own.
An amount stands for tokens times price; `Unknown` is NULL. `LedgerFails` is a
transaction that fails: no row changes, but an error at the commit comes after
the entry has left `active`.

`delivered` and `ceiling` are history: requests that arrived, and the largest
limit under which a call was ever granted (or what was committed while there was
no limit). `LimitKept` compares the committed sums with it, allowing only what
was charged above an estimate. `DeliveredCounted`, `ReconciledFinal` and
`Answerable` are described at their definitions. If the transaction in `finally`
fails, the entry stays in `active` without a call that works on it, and the
author cannot reconcile it until the next start. `Answerable` excepts such an
entry and nothing else: one for each ledger error, and no entry beside it.

Run `spending`: the executor works for a project, a request thread for none;
amounts 1 and 2, limits 2 and 3, two entries, one change of the settings, one
crash, one failing transaction; about 670 thousand states. Two entries are
enough for two calls that compete for one limit, or for a refused call that
takes its second round. The run does not check deadlock: when the entries are
used up nothing is left to do. Fairness: a call that has begun goes on, because
every request has a deadline.

## AutomaticBackups

One project: the policy row, the catalogue, the intents, the `.zip` and `.tmp`
of each backup, `run_lock`, and threads inside `run` or `report`. A
transaction or one call on a file is a step; any of them may fail (`Fail`), the
process may die between two (`Crash`), and an archive may be moved or damaged
from outside (`Lose`). Identifiers are numbered in the order of the rows, which
is the order pruning goes by. `report` of a page that finds the lock taken only
reads, and `run` then gives up: neither changes anything.

`NoLitter`, `NewestRestorable`, `SuccessProtects`, `LastGoodKept`
and `EventuallySaved` are described at their definitions. An intent whose archive
was damaged before it was catalogued stops every recovery and every later
backup until the author acts, as the code means it; `EventuallySaved` leaves that
case out, and no property covers it. Run `backups`: the
scheduler and one page, two edits, two requests, a change of the policy, two
crashes, one failing call, one lost archive, retention 1 or 2; about 750
thousand states. Two retained archives and three texts are enough to prune, to
lose the newest and to recover an intent in each order. Deadlock is not
checked: with the schedule off and the bounds used up nothing happens.
Fairness: a thread that holds the lock goes on, and the scheduler's loop ticks
for ever while the policy is enabled. A tick does not queue for the lock, so
`EventuallySaved` holds because requests are finitely many; pages that asked
without end could keep the scheduler out.

The model has deaths of the process and not of the machine: directory fsync is
not modelled, and the hazard about it in `PROJECT.json` has no property.

## ImportDrafts and BookImports

State. `drafts[d]` is the directory of a draft: absent, begun, or with its JSON
file, which is replaced as a whole. `request`, `staged` and `root` are the
upload under way and the directories below `.uploads`; `locks` are the lifecycle
locks a commit holds; `tombs` are discarded directories. `BookImports` adds the
registry, the final and the `.creating` directory of each project, and `work`,
the creation under way: the registry's lock lets one run at a time.

Actions. A creation is entered, filled aside, renamed, its draft frozen, and
registered; each of these is a step, each may fail, and the process may die
between any two. An import, a restore and a new project take the same steps
with the differences the code makes: whether an existing directory is accepted
and by which comparison, who freezes, who removes a directory whose
registration failed. A commit checks the draft as `commit_draft` does. The
author patches classes, the choice of files, the order of chapters and the
boundary; the wizard sends the chapters it shows, numbered from zero.

A path is its rank, a text what is found in it: its class and its number of
chapters. Two graphs are equal if their fingerprints are.

`ChaptersComplete`: a draft has every chapter of the chosen manuscripts once,
whatever was excluded, brought back, reclassified or moved before.
`FrozenAgrees`: a registered import has its draft frozen, and the draft, its
fingerprint and the directory say the same. `NeverTakenBack`: a registered
project stays and its directory stays in place.

Run `BookImports_publication`: one draft, eight uploads (two well-formed folders,
an archive with a manifest, and one for each reason to refuse), three backups of
one project (equal content under two hashes, and one whose database names a file
that is missing), one new project; three creations and one process death; about
790 thousand states. Three creations are enough for one that fails or dies, one
that repeats it, and one of another project between them. Deadlock is not
checked: with the bounds used up nothing is left to do. No fairness: all
properties are safety properties.

## Chapters

One chapter, the author's pages and the executor. `doc`, `versions`, `status`
and `live` are the rows of the chapter, `sums` its summaries, `jobs` its summary
jobs with their control rows, `draft` the candidate of a writing job, `recap` an
imported summary that waits for the author. `outbox` and `file` are the queue of
projections and the ledger file: a change commits with the queue, and the drain
after it is a transaction of its own around the replacement of the file, which
may fail, be late, or never run because the process died. `base` and `done` are
history: the revision the last writer had read and the text last completed.

A page, and a candidate, carry any revision the document has had; a guard of the
code, not of the model, refuses the old ones. The executor's steps are the
transactions of `generate_summary`; its paid stages are those of `DurableJobs`
and appear as one step that may succeed or pause the job.

`LedgerFollows`: the file lists what the tables say, or the tables remember that
it does not. `CompletedStands`: a chapter shown as completed has the text that
was completed. `NoLostText`: a text is only replaced by a writer who had read
it. `EditsKept`: a summary the author has edited is not replaced by a late job.

Run `Chapters`: two texts, four revisions, two summaries with two revisions each,
one job, three other acts of the author or process deaths; about 1.1 million
states. Two texts let a text change and change back, four revisions let it be
completed, left and come back to, two summaries let one replace the other. The
proofs cover any number of jobs and acts. Deadlock is not checked (bounds). No
fairness.

## ImportAnalysis

The batch, its units (chunks of sources, maps of a chapter, the tree of merges,
one consolidation for each identity), the candidates they write, the executor
with its fence and epoch, and the author's page. A unit is claimed, its source
read, the model called and the result published in separate steps; `FenceMatches`
stands before every write. `calls` and `consents` are history: requests sent, and
retries of a unit that the page showed as failed.

`CallsByConsent`: a unit is sent once and again only after such a retry.
`AnalyzedIsComplete`: a batch that says it is analyzed has every unit done,
every untouched candidate compared with the others of its identity, and one
summary. `UnitsSettle`: a unit under way comes to rest.

Run `ImportAnalysis_all`: two chunks that quote one fact in common, two facts of
one identity, one chapter, two providers, one edit, two acts, one fault; enough
for a collision of candidates, a consolidation that is overtaken by an edit, and
a retry behind a crash. Run `ImportAnalysis_rest` is the violation described
under Findings. Deadlock is not checked (bounds). Fairness: the executor's loop
goes on while the process lives, and the author starts the program again; no
page has to be used.

## MemoryCandidates and EntityStates

`cand` are the candidates of both origins with their revision and the record
they are bound to; `records` the records of the book; `document` the imported
source. `EntityStates` has the dated states of one entity, the order of the
story, and the undated state that is answered once. Every request is one
`BEGIN IMMEDIATE` transaction and one action; what overlaps is the reading of a
page and the requests sent from it, so a request carries any revision the
candidate has had. `Legacy` are imported candidates confirmed by a release that
wrote no fingerprint: what binds them has to be proved from the record. `Cites`
are the imported candidates that name a version of their chapter; most name
none, and less is asked of them.

An outline update writes its fields into the chapter. Only the place among them
matters here: `Promoted` moves the chapter (`Moved`) and with it every interval
that is measured by `position`. One chapter moves at a time; an update that moves
a volume with its chapters is left out.

A bulk confirmation looks at every entry in the database as it is (`Clean`, which
does not ask whether the entry can be promoted), and then confirms one after the
other with all the guards of a single confirmation (`Opened`), each in the
database that the earlier ones have left. The model has requests of two entries,
the code allows a hundred. A longer request writes what single confirmations in
the same order would write, with the same guards, so it reaches no other state;
what it might add is a step that `NoSilentTwin` and `ImportsAgree` judge as a
whole, and those are shown for two entries. A repeated entry may stand in either
place of the request: what the other one writes changes nothing that a
repetition looks at.

`PromotedOnce`: a confirmed candidate wrote one record, no other wrote any.
`AsShown`: what is confirmed is what the page showed. `NoSilentTwin`: an imported
candidate becomes the twin of a record in use only in a request about it alone
that asks for a separate record (`answer.separate`), which a plain, a repeated
and a bulk confirmation do not. `ImportsAgree`: where an imported state begins to
hold, the entity is in no contradiction, also if the same request moved chapters
before; it relates two functions of the code that compute an overlap
independently. It does not speak of a chapter that the request moves after it
wrote the state (see Observed). `AnsweredOnce`: one answer to what becomes of an
undated state.

Run `MemoryCandidates_records`: two imported candidates (one bound by an older
release, one that cites a version), five payloads, three of them with a conflict
between them and one an outline update, three records, two acts of the author;
about 550 thousand states. Run `MemoryCandidates_states`: one generated and two
imported candidates, three payloads of which one moves a chapter, three states
over two chapters, with two rows the author adds; about 570 thousand. Two
chapters that may change places are enough for intervals that meet, contain each
other or run backwards, and for a bulk request that moves a chapter before or
after it writes a state. A generated candidate and the kinds that share one rule
are not multiplied. Deadlock is not checked (bounds). No fairness.

## Quality

State. `doc` is the text, revision and version of each chapter; `material` one
revision of everything else a chapter is written from; `ours` says that the model
settings are those of the runs. `runs[r]` is the job of a run with its captured
sources, the result it has saved, the answers of its stages, the author's
approvals and adoptions. `w` is the executor inside `generate_quality`: its `pc`,
and the result it is rebuilding. `writing` are the writing jobs that compete for
a chapter, as far as a run looks at them.

Actions. A run is replayed from its first stage whenever it is claimed: a stage
that has an answer takes it, another one asks. `persist` is one transaction with
the guard that is repeated inside it, so each is one step; it keeps the saved
result if that is further. A stage may fail, a guard may raise, the author may
cancel, and the process may die between any two steps. The author edits, changes
the material or the settings, resumes, approves and adopts, each with the checks
the service makes. A review is good or not; a mixture of a candidate and the
text is any other text.

`SavedOnlyGrows`: what the page shows never goes back, and a decided candidate
keeps its text. `OneHand`: one open run in a project, and no open writing job on
its chapters. `AdoptedBehindHandover`: a chapter is adopted only behind the text
it was written after. `ConfirmedAsReviewed`: a chapter called confirmed reads as
it was reviewed.

Run `Quality`: two chapters in one run, two acts; about 1.4 million states. Two
chapters are enough for the first to be replaced, adopted in part or rewritten
behind the second one's back, two acts for a death or a pause and the resume
after it. The one run competes with writing jobs of its chapters; what several
runs do to each other is covered by the proofs, which hold for any number. Two
texts that are not blank are symmetric. Deadlock is not checked (bounds). No
fairness.

## What is proved

| Module | Theorems | State |
| --- | --- | --- |
| `DurableJobs_proofs` | `TypeCorrect`, `Invariant`, `OrderInvariant` | `[]TypeOK`, `[]IInv`, `[](IInv /\ OInv)` |
| | `CallsCovered`, `ConversationKept`, `ResumedOnce`, `PublishedWhole`, `OneLateRequest` | `[]CallsWithinPermits`, `[]UnfinishedHasConversation`, `[]ResumeOnce`, `[]PublishedComplete`, `[]AtMostOneLateRequest` |
| | `NoSilentResendHolds`, `CheckpointsAreKept`, `ReplacementIsConfirmed` | `NoSilentResend`, `CheckpointsKept`, `ReplacementConfirmed` |
| | `Refinement` | `ImplementsCallBudget` |
| `Spending_proofs` | `LedgerInvariant`, `DeliveredStaysCounted`, `FinalForEver`, `LimitIsKept` | `[]IInv`, `[]DeliveredCounted`, `ReconciledFinal`, `[]LimitKept` |
| `AutomaticBackups_proofs` | `Safe`, `LeavesNoLitter`, `KeepsNewestRestorable`, `SuccessIsProtected`, `KeepsLastGood` | `[]IInv`, `[]NoLitter`, `[]NewestRestorable`, `[]SuccessProtects`, `LastGoodKept` |
| `BookImports_proofs` | `VaultInvariant`, `RegisteredStays`, `FrozenDraftsAgree`, `ChaptersAreComplete` | `[]IInv`, `NeverTakenBack`, `[]FrozenAgrees`, `[]ChaptersComplete` |
| `Chapters_proofs` | `TypeCorrect`, `LedgerRemembered`, `CompletedTextStands`, `ReadBeforeWritten`, `AuthorsSummaryStays` | `[]TypeOK`, `[]LedgerFollows`, `[]CompletedStands`, `NoLostText`, `EditsKept` |
| `ImportAnalysis_proofs` | `SentByConsent`, `AnalyzedBatchIsComplete` | `[]CallsByConsent`, `[]AnalyzedIsComplete` |
| `MemoryCandidates_proofs` | `CandidatesInvariant`, `ConfirmedAsShown`, `PromotedExactlyOnce`, `LegacyAnsweredOnce` | `[](IInv /\ AsShown)`, `[]AsShown`, `[]PromotedOnce`, `[]AnsweredOnce` |
| | `NoTwinsUnasked`, `ImportedStatesAgree` | `NoSilentTwin`, `ImportsAgree` |
| `Quality_proofs` | `QualityInvariant`, `OneHandAtAChapter`, `ShownOnlyGrows`, `AdoptedInOrder`, `ConfirmedWasReviewed` | `[]IInv`, `[]OneHand`, `SavedOnlyGrows`, `AdoptedBehindHandover`, `[]ConfirmedAsReviewed` |

All have the form `Spec => ...`. They hold for every value of the constants that
the module's assumption allows, and need nothing else:

| Assumption | Beyond bounds being natural numbers |
| --- | --- |
| `ConstantsAssumption` (`DurableJobs`) | a repair follows its stage, and is not itself repaired or skipped |
| `SpendingAssumption` | amounts and limits are natural numbers; a caller works for a project or for none |
| `BackupsAssumption` | the scheduler is a thread; at least one archive is retained; `MaxBackups` exceeds edits and losses together, and `Safe` proves that this bound never stops a run |
| `ImportDraftsAssumption`, `BookImportsAssumption` | an upload has finitely many entries, ranks and numbers of chapters are natural numbers, the places of a manifest are integers; a draft's project is no other project |
| `ChaptersAssumption` | blank is a text |
| `AnalysisAssumption` | chunks are finitely many; every fact has an identity; there is a provider |
| `CandidatesAssumption`, `StatesAssumption`, `InputsAssumption` | chapters are numbered; generated and imported candidates are different; payloads have the fields of their kind |
| `QualityAssumption` | chapters are finitely many and ordered; blank is a text |

Each inductive invariant was checked by TLC on the instance of a run before it
was proved: `OInv` on the three of `DurableJobs` (`durable_one_job` with two
crashes, 6.4 million states; 0.9 and 0.4 million), `LInv` of the ledger (0.7
million), `IInv` of the backups (0.75 million), `AInv` and `BInv` of the imports
(0.8 million), `CInv` of the analysis (0.07 million, and 2.1 million on another instance), `IInv` of
the candidates (0.5 and 0.9 million).

### DurableJobs

Why `CallsWithinPermits` needs an invariant: it counts requests, while the code
counts nothing. The rows only say whether a stage may be sent. `MaySend` collects
every way in which a row or the thread is free to send once more (a prepared
attempt, a first attempt whose connection was refused, an authorised one, a
thread that has passed `begin_attempt`). The invariant bounds the requests by
the permits, strictly while `MaySend` holds; it has to know what the
latest attempt is at each position of the thread (`Position`), that only a
cancellation takes a claimed job away (`Owned`), and that a recorded outcome
means what it says (`Rows`). `NoSilentResend` uses the same invariant: where
a stage is in `doubt`, `MaySend` is false. The refinement needs in addition that
a cancelled flag and a cancelled status go together.

`OInv` is about the order of the stages, which the code keeps nowhere: a run
starts again at the first stage and walks past what has a checkpoint. `Reached`
says that a stage that was ever begun has every stage before it behind it, by a
checkpoint or by a failure its repair may take up. Then two stages cannot be
open at once, and a stage in doubt is the one the job began last (`made`), so
the confirmation that the code asks for the last attempt covers every doubt:
this is what `ReplacementConfirmed` needs. What lies behind stays there, because
no step touches a closed stage (`Firm`); that gives `CheckpointsKept` and lets
`Walk` carry the finished stages up to `publish`, which is `PublishedComplete`.
`ResumeOnce` needs that a receipt keeps a revision the row has left, and
`AtMostOneLateRequest` that a thread which sent late is no longer at the wire.

### Spending

Nothing in a row says who may still write it. `Apart`
says that an entry belongs to one caller, `Position` what its row holds at each
position of `_send` and that it is in `active` until it is closed; so neither the
author nor another caller can change it meanwhile.

`LimitKept` compares sums over the entries of a scope. Every step writes one
entry, so a sum changes by that entry's share (`SumChange`; the fold of the
library is unfolded over the parts of a finite set). Only a grant adds to the
sum, under the limit it was checked against; every other step eases its entry
(`Ease`), which commits no more than before but for its overrun. For
that, an entry with a cost has the status that shows it (`Costed`).

### AutomaticBackups

`run_lock` leaves one thread at work, so everything else is said of its position
(`Working`): which files of its backup exist, that its text is the newest, and
from pruning on that the newest row is `Intact`. Between two runs it must be
known that there is one intent at most and that it is newer than every row:
otherwise recovery could put an old archive on top and prune by it.
`NewestRestorable` follows because a row is written only for an archive that was
whole under the same lock, and `LastGoodKept` because the victims of pruning
never hold the newest one.

### BookImports

`NeverTakenBack` rests on what a creation knows past its entrance (`Positions`):
it works on a project without a row. A restore looks at the row and a new project
has a new id, but an import looks at the row only together with the frozen draft;
so the invariant has to say that a registered import has its draft frozen for
ever (`Sealed`).

`FrozenAgrees` needs what a commit carries (`Carried`): the graph of its draft,
which nobody writes while the commit holds the draft's lock. The hard step is a
repetition that fails behind a directory it has found: the directory may be
removed only while the draft is not frozen. An existing directory is accepted
after a comparison of its parts, which is shown to be equality of the graphs.

`ChaptersComplete` needs the chapters that are not shown: the inventory lists the
segments of a set of files that contains every manuscript, each once
(`Book`). A patch keeps that set and adds the manuscripts without a chapter. That
sorting and filtering lose nothing is proved and not assumed: `InSequence` puts
an element where as many others come before it, and on a finite set with a
strict order this rank is one to one, hence a bijection with the places
(`Ranks`, `Sequenced`). The model uses it in place of the library's sorts, whose
definitions the prover cannot expand.

### Chapters

Little is needed beside the types: a job has the version it was started
on, an imported summary that waits has a version, a busy executor has a job.
`LedgerFollows` and `CompletedStands` are then inductive as they stand, and the
two action properties follow from the guards of the writers.

### ImportAnalysis

`CallsByConsent` counts requests, as `CallsWithinPermits` does: a unit that may
still be sent (`Sendable`) was sent no more often than it was retried, and only a
retry makes a unit that was sent sendable again. A retry is the author's because
a page that is up to date shows every failed unit (`PageShows`).

`AnalyzedIsComplete` is about what is not there: the status is computed from the
units that exist, so a merge or a comparison that was never seeded must be
excluded. If some merge of the tree were missing, one on the lowest level with a
missing unit has all its parts done, and the publication that finished them
would have seeded it. A comparison is seeded only when every source is
read, after which no candidate joins its identity as the model wrote it
(`Manifested`); and the summary is written by the root of the tree alone
(`Recaps`).

### MemoryCandidates and EntityStates

`IInv` counts the rows that each candidate wrote and ties the number to its
status; a second promotion would be seen (`Once`). `OneAnswer` is inductive
because the gate lets such a row in only where no other is confirmed. A
candidate's history ends with what it says, twice for a confirmed one (`Told`),
which is why a repetition from the older page may be answered as well. One
promotion is described as a relation between two databases (`Promotes`) and used
once for a single request and for each entry of a bulk request in turn.

`NoSilentTwin` and `ImportsAgree` compare the rows after a step with those
before. What is in no conflict with a database has no twin there, and what a
bulk request has opened is in no conflict with what its first entry left. For the
states the two computations of the code have to be compared: two intervals that
apply at one chapter overlap in the sense of the gate, so a state that passed the
gate says of each chapter it applies to what is said there already. The places
are those at the moment of the look: either the request moved no chapter, or the
state is its last entry and was looked at behind the move. That a move keeps the
places within the story is a lemma of its own (`MovedKeeps`).

### Quality

Runs are replayed, so nothing may rest on what the executor remembers.
The invariant says everything by the answers alone: `Judged` is a text that a
good review has read, or that was written after a bad one and read again. There
is one answer for each stage of a chapter, hence one judged text (`JudgedOnce`);
what is decided, saved, handed over or adopted as a whole is that text (`RunOK`,
`HandOK`). `SavedOnlyGrows` follows because a decided chapter of the old result
is decided in one that is further; the other properties compare the judged text
with the chapter at the moment of the check.

### Only model-checked

The liveness properties `JobsSettle`, `CancellationCompletes`, `Answerable`,
`EventuallySaved` and `UnitsSettle`: they rest on fairness and ENABLED, which the
proof system does not reach. `AnalysisRests` is refuted (see Findings). Every
other property of a run has a theorem. That a module is faithful to the code, and
that the bounds of a run are large enough for its liveness, is not proved by
anything.

Induction over data is not available as a theorem to cite; where a proof
needed it (the levels of the merge tree, the parts of a sum, the ranks of a sort)
it argues by a least element or by the cardinality of finite sets.

## Findings

One run is expected to find a violation, of something the README of the program
says.

- `ImportAnalysis_rest`. Pausing a batch stops no unit that is running. The last
  one publishes into the paused batch, whose status stays `paused`;
  `continue_analysis` then sets `analyzing` although every unit is done. The
  status is computed by a publication, a failure or a recovery, and none is left
  to come: the batch stays under analysis, and a retry returns it unchanged.

Observed while modelling, without a run of its own:

- The place that an author or a candidate gives a chapter is compared with no
  dated state (`edit_item`; `_promote_node_update`,
  `memory_candidates.py:1697`). Two states that were apart may meet behind the
  move, and the entity then contradicts itself until the author settles it. A bulk
  request with a state and then an outline update that moves a chapter under it
  does this in one transaction, though its entries are looked at twice.
  `MemoryCandidates` reaches it.
- The wizard numbers the chapters it shows from zero. The chapters of an excluded
  file are not shown but keep their places in the inventory, so after a
  manuscript that stands before another one was excluded, the next patch with
  chapters is refused (`IMPORT_CHAPTER_ORDER_INVALID`). `ImportDrafts` has this
  refusal.
- A chapter of a quality run is saved as `needs_review` one transaction before
  the run is paused for the review. If the process dies between the two and the
  model settings differ when the run is replayed, it is paused with
  `PROVIDER_CHANGED`. With the settings restored, resuming is refused until the
  author approves (`QUALITY_REVIEW_REQUIRED`), and approving is refused because
  the run is not paused for a review (`QUALITY_NOT_AWAITING_REVIEW`). Only a
  cancellation ends this. `Quality` reaches this state.

## Not modelled

- The browser (the wizard excepted), search and retrieval: in the plan.
- Decoding, archive parsing, prompts, validation of replies, paths, the text of
  summaries: data. Where a guard depends on them, the model leaves the outcome
  open.
- Loss of power: the model has deaths of the process. fsync is not a step.
- Records with one row and a revision check (todos, goals, settings, wiki,
  materials), reports (drift, continuity, conflicts) and exports: they have one
  transaction and nothing to interleave with.
- Left out inside modelled parts: the status per component in `PROJECT.json` says
  what.

## Files

- `X.tla` is a component, `MCX.tla` and its `.cfg` files an instance for TLC,
  `X_proofs.tla` its proofs. `CallBudget.tla` is an abstract specification.
- Definitions whose comment begins with "mutant" are altered forms of the
  definition after them, with a plausible mistake; no run uses them, and each
  property fails when its mutant replaces the definition.
- `PROJECT.json` lists the components, the runs, the correspondence between
  definitions and source lines, the hazards and the theorems.
