# A specification of agent-alert-monitor

TLA+ models of the alert monitor, the TLC runs that check them on small
instances, and theorems about them that TLAPS checks for every instance.
Source paths below are relative to `src/agent_alert_monitor/` unless they start
with `docs/`, `tests/`, `systemd/` or `README.md`, which are those of the repository.

Contents: [the system](#the-system), [the modules](#the-modules-and-the-code),
[the runs](#the-runs), [fairness](#fairness), [what is proved](#what-is-proved),
[disagreements found](#disagreements-found), [what is not
modelled](#what-is-not-modelled), [the plan](#the-plan).

## The system

CloudWatch alarms reach an SQS queue per source. A long-running process,
`sqs-listen`, turns every state change into a row of a SQLite ledger and a card on
a Hermes Kanban board, and deletes the message. A debugger works on the card and
hands in a `debugger_result`; a coder works on the fix and reports on its pull
request (`lifecycle.py`, which nothing in the program itself calls yet, only the tests: it is
the interface the agents are given); a watchdog, started by a timer, posts on Telegram which incidents have
been silent for too long. An operator can also type in an alert (`manual-alert`)
and set a status (`incident-update`).

Before any of this runs, an operator answers the questions of a wizard, or writes
`config.yaml` and `.env` by hand; every command that is started finds its project in
these files, and brings the tables of the ledger file up to date when it opens it.

| Component | State | Operations | Talks to |
|---|---|---|---|
| Cloud ledger, `ledger.py` 138–729 | `alert_events`, `alert_transitions`, `alert_incidents`, `alert_event_incidents` | `process_cloud_alert` and what it calls | SQLite, shared by all projects and processes |
| Listener, `sqs_ingest.py` | the batch in memory; `alert_side_effects`, `kanban_task_id`, parse failures | `listen_for_sqs_messages`: receive, parse, process, side effects, delete; `sqs-peek`, `sqs-ingest --dry-run` | SQS, ledger, Kanban, Telegram (best effort) |
| Incident lifecycle, `lifecycle.py` | `status`, `last_channel_status`, `coder_task_id`, `pr_ref` of a cloud incident | `sync_debugger_result`, `record_pr_reference`, `mark_awaiting_pr`, `record_pr_feedback_if_unsuitable` | ledger, Kanban, Telegram |
| Watchdog, `watchdog.py`, `cli.py` 302–334, 440–445 | none of its own; `last_channel_post_at` and `last_channel_status` of the incidents | a round: scan, post, reread, store, for every project | ledger, Telegram |
| Manual coordinator, `coordinator.py`, `ledger.py` 731–968 | `alert_messages`, manual rows of `alert_incidents` | `handle_alert`, `incident-update` | ledger, Kanban |
| Parsers, `cloud_parsers.py`, `alert.py` | none | envelope to alert, keys, fingerprints | |
| Opening the ledger, `ledger.py` 124–325 | the shapes of the tables of one SQLite file | `_init_db` and what it calls, by every command | SQLite |
| Preflight, `sqs_ingest.py` 136–273; health, `health.py` | none | checks before every receive; a report | ledger file, Hermes, SQS, STS, Telegram |
| Configuration, `config.py`, `cli.py` 104–286 | `config.yaml`, the environment | `load_config`, the choice of project and source | every command |
| Setup wizard, `setup_wizard.py` | `config.yaml`, `.env`, the AWS files `credentials` and `config` | questions; snapshot, writes, validation, rollback | configuration, AWS |
| Cards and messages, `incident_cards.py`, `message_templates.py` | none | rendering | |

What is hard about it:

* **SQS** reorders, delivers again after the visibility timeout, and ends the
  redelivery after `maxReceiveCount`. Looking at the queue counts as a receive.
* **Partial failure.** A message takes a ledger transaction, up to two Kanban calls,
  three more ledger transactions and a `DeleteMessage`; the process can stop, or a
  call fail with or without its effect, between any two of them.
* **Interleaving.** Every command is a process of its own on one SQLite file. Only
  `process_cloud_alert` is one transaction. All the others read a row, make Kanban
  and Telegram calls that take up to half a minute, and write the row afterwards.
* **Files that several programs write.** The tables of an older program are replaced
  statement by statement while others open the file; four configuration files are
  written one after another, and taken back when one of the writes fails.
* **Names.** Fields are values or names of variables, one `.env` serves all projects,
  and a command that needs one project parses all of them.
* **Order and time.** An OK before its ALARM, an ALARM after its OK, equal
  timestamps, an age measured from the watchdog's own report.

What makes each component correct:

* *Ledger*: in every order and number of deliveries, the newest state change
  decides whether the alarm of a project has an open incident, which is one at most;
  a closed incident is never opened again; `last_event_id` names the newest evidence.
* *Listener*: a message is deleted only when its effects are complete; nothing is
  noted as done before it is; the queue drains; an incident gets its card.
* *Lifecycle*: no incident is blocked, closed or marked stalled in silence; closed
  means final evidence; the PR lifecycle means a coder's task; what is closed stays so.
* *Watchdog*: a silent incident is reported in the end; none is nagged about; one
  project at most reports an incident.
* *Manual coordinator*: no more open incidents of an alarm than alerts of it were handled
  at once, whatever is interrupted and repeated; no orphaned card; an answered alert is a
  handled alert.
* *Opening*: who has opened the ledger finds every table and the index; no message names
  an incident that was dropped; what is recorded in a current table stays; everybody gets
  through.
* *Preflight and health*: an outage the preflight looks for costs a message one receive,
  however long it is; a green health report means a green preflight.
* *Configuration*: a command gets the project it names, from that project's own variables,
  and nothing that was filled in is taken for real.
* *Wizard*: each project keeps what was given for it, and what is written can be loaded;
  all four files are written or none; secrets are never cut short.

## The modules and the code

One step of a model is what the code does without another process being able to come
between: one SQLite transaction, one Kanban, Telegram or SQS call. Names are those of
the source where TLA+ allows it; `PROJECT.json` names the lines of every definition.

Definitions under a comment that begins with **Mistake** model no code: each is a
plausible wrong version of the definition that follows it, kept to confirm that the
property it is aimed at notices the difference. No specification uses them.

**`CloudLedger`** — `process_cloud_alert` as one action `ProcessCloudAlert(p, e, r)`
with a disjunct for each of the nine results, `r` being the `CloudAlertProcessResult`
returned. It starts with an INSERT and so holds SQLite's write lock until it commits.
An alert is a record `[id, alarm, state, at]`; the incident id, a digest of project,
fingerprint and event id, is the pair of project and event. Rows that are only ever
inserted are sets and functions over the events.

**`AlarmRegister`** — the abstract specification of the ledger: per project and alarm a
register where the last writer, by the time of the alert and not of its arrival, wins.
Equal times that disagree leave the outcome open, and a neutral report decides nothing.
`CloudLedger!ImplementsRegister` states the refinement.

**`SqsListener`** — extends `CloudLedger`; a listener's `pc` walks through
`_process_live_sqs_message` and `_perform_required_side_effects`: `Receive`, `Process` or
`RecordParseFailure`, `CheckEffects`, then `NoEffect`, `ReadTask`, `ReadTaskOfRecovery`,
`CreateCard`, `AttachTask`, `Comment`, then `RecordEffects` and `Delete`; the calls that
can raise have a second action for that. `Crash` loses the batch. `Expire`, `DeadLetter`
are SQS; `Peek` is `sqs-peek` and `sqs-ingest --dry-run`. External, modelled from use:
SQS (any order, at least once, one receive count), Hermes (one card per idempotency key).

**`AlertIntake`** — the abstract specification of intake, without listeners, batches,
redeliveries or crashes: an alert is taken into the ledger, what it asks for is done, only
then noted, only then is the message released, and nothing is ever undone.
`SqsListener!ImplementsIntake` states the refinement: *done* is read off the board (`Done`),
*noted* is `alert_side_effects`, *released* is the deletion of the message.

**`IncidentLifecycle`** — extends `CloudLedger`; debuggers, coders and watchdogs at work
on the rows that the listener's transactions also change. `Sync` is the validation and
the check of the row that was read (`Valid`, `Syncable`); what follows works from memory,
as the code does. `Accepts` and `Write` are `update_incident_status`, including the
refusal to close without final evidence and the partial unique index. `Abort` is an
exception or a kill at any step; posts and cards stay.

**`Watchdog`** — time in ticks, the SLAs and `Threshold`, whose incident it is (`Watches`:
scopes, fingerprint namespaces), and the round over projects, with `EndRound` for the
exception that leaves all loops. A scan finds what is due in any order, as `last_seen_at` is not kept. `cut` says of a round
whether something will cut it short. Only the age since the last visible status is kept for
each incident, and it stops growing past the longest SLA, where nothing depends on it.

**`ManualAlerts`** — `handle_alert` in its steps: `Correlate` (the lookup, in its own
connection), `Insert` or `Duplicate`, `TakeSeed`, `CreateCard`, `Open`, `Answer`; and
`incident-update` as `CheckEvidence` and `WriteUpdate`. A task id is its idempotency key.
`watchdog-due` calls the same `update_incident_status` on these rows, so an `Operator` can be
that as well.
`End` is an exception or a kill, after which the operator may give the alert again. Any
number of handlers overlap. `crowd` is a history variable that no action reads: the most
alerts of an alarm that were in progress at once. The properties are stated relative to it,
because the code makes no promise to alerts that overlap beyond that they do no more harm
than there are of them.

**`LedgerSchema`** — `AlertLedger.__init__` in its statements. Python's `sqlite3` commits
DDL at once until the first UPDATE begins a transaction, which then holds the write lock and
takes in every later statement up to the commit of `_init_db`: `draft` is the file as that
writer sees it, and `Stop` is a kill or a wait for the lock that took five seconds. `ReadColumns`,
`ReadIndexes`, `ReadIncidents` are the PRAGMAs, `Drop…` and `Create…` what follows from them,
possibly stale by then. Commands that have opened the file record alerts and link them to
incidents. `Spec` is what the code does. `TurnSpec` is `Spec` without the steps that would let
two commands be at work on a file as long as it holds a table of the older program
(`TakeTurns`): nothing in the code sees to that, and without it what the run checks does not
hold; see the disagreements.

**`Readiness`** — one listener process with what it depends on: `Fail`, `Recover` and `Kill`
come between any two steps of the preflight (`CheckNext`, in the order of
`run_local_preflight`) and of the batch. Each dependency has its own ways to fail (`Faulty`),
by what the code makes of them: a ledger that is gone, unreadable, locked or read only, or on a
full disk; a board that is gone, hangs, or lists and takes no cards; a queue that is gone, is
another than the ARN names, or lets nothing be deleted. `Blind` are those that every check
passes and the work does not; `blind` remembers, for the properties, that there was one. A
Kanban call made while the board hangs (`WorkHangs`) need never return. `HealthReport` is
`build_health_report` over the same state.

**`ConfigFile`** — `load_config` as an operator: expansion, a chat given as `chat_id` (a value or
`${NAME}`) or through `chat_id_env` (`ChatId`), strict parsing of the selected
project and lenient parsing of the others, numbers, duplicate slugs, default project.
**`Configuration`** — how a command finds its project: by slug, by the name of a source looked
up in the raw file (`ConfigOfSource`, with the placeholder `0` for what the source does not
need, `Filled`), or all of them. **`SetupAnswers`** — the wizard's dialogue as what it stores
under which name: an action is an answer that is accepted; `config_data` is the file it makes
of them. **`Installation`** composes the three: a file comes from the wizard or by hand, and a
command is started on it.

**`SetupWizard`** — the other half of the wizard: the four files, changed by one system call
at a time, any of which can fail; `Rescue` is the `except` clauses in their order, `Restore`
and `Refill` the two system calls of `_restore_files`, which can fail as well; `Interrupt` is
Ctrl-C, `Kill` is a kill, `Edit` an editor that saves a local file during the questions. The
sections of an AWS file are per profile, and `found` records what others left in each file.

**`MC…`** modules hold the small instances, **`…Proofs`** the theorems.

## The runs

| Run | Instance | Shows |
|---|---|---|
| `ledger_orders` | 2 projects, 1 alarm, 7 alerts | the ledger's five properties in every order and repetition |
| `listener_pair` | 2 listeners on one queue, 3 messages (goes off, recovers, goes off again), batches of 2, 2 receives | deletes and notes follow the effects; the outcome is that of the newest message; together they implement `AlertIntake`, also for a message held twice |
| `listener_drains` | alarm, recovery, malformed message, `sqs-peek`; fairness | every message is deleted or dead, every incident carded or its message dead |
| `lifecycle_rows` | 1 debugger with 3 verdicts, 1 coder, 1 watchdog, the listener | no silence, final evidence, a coder's task, a channel status that is true, at every interleaving and stop |
| `watchdog_rounds` | 2 projects, 3 incidents, 2 of them of one project; fairness | silence ends; no nagging, also about what was found together with others |
| `manual_alerts` | 2 handlers, 1 operator, 3 alerts of one alarm | as many incidents as overlapping alerts, no orphaned card, true answers |
| `schema` | 3 commands, files in 6 states, 1 kill, 2 alerts; turns, fairness | complete tables, no vanished incident, everybody gets through |
| `readiness` | 2 messages in a batch, 2 receives, 2 faults; fairness | an outage that is looked for costs one receive; green health is green preflight; all leaves the queue in the end, and handled unless faults used up the receives |
| `wizard_run` | 2 profiles, files as found or as a killed run left them | all or nothing, whole secrets, local files last |
| `installation` | wizard for 2 projects with colliding names; files by hand with a chat as `chat_id: ${NAME}` and one as `chat_id_env`, one or two of 11 variables missing, empty or wrong | each its own settings, loadable; a command gets what it names, from its own variables |
| `shared_delete` | 2 projects that share an SNS event, a listener each | a disagreement, see below |
| `manual_closing` | 1 handler, 2 callers of `update_incident_status` | a disagreement, see below |

Why the bounds are enough. An alarm's history enters the ledger only through "is there
one of equal key", "is there a newer one" and "is an incident open"; the seven alerts of
`Flapping` go off, recover, go off again, with one change published under two ids, two
states of one time and neutral reports before and after, and all orders and repetitions
of them are explored: no bound is on the number of deliveries. Two projects are enough
for the tables they share; the theorems remove this bound and that of the alarms. Two
receives per message give every single redelivery, at any point of the first attempt; a
third would start from a state in which the first two left the same rows. A batch of two
has a message that waits for another. Of the three messages the third is received by one of
the two listeners only (`ThirdForOneListener`, a state constraint): every pair of deliveries of
the first two still overlaps in every way, and the third comes before, between and after them. In the lifecycle one worker of each kind, each of
which can repeat its operation for ever, gives every pair of overlapping operations of
different kinds; the theorems are about any number. The watchdog's three SLAs are
different and small, so that every order of ages and thresholds occurs; its three incidents are
two cloud incidents of one project, which a scan finds together and posts one after the other
while time passes, and a manual one of the default scope.

Manual alerts of different alarms share nothing in the code but the tables, so all three are
of one: two that go off and their recovery, each given any number of times by two handlers,
which gives every overlap of two. Three openers of the ledger are two in each other's way and
one that works on the result; one kill (`MaxCrashes`) leaves each half-done state once, and
the files a run starts from are those states again. `MaxFaults` equals `MaxReceive`, so the
runs where faults use up the receives are there next to those where they do not, and those
where one fault that no check looks for is enough. Of the
wizard's slugs two have the same variable names (`a-b`, `a--b`); two projects are enough for
one to take what the other has. A file by hand has two projects, each field once as a value
and once as a variable, and at most two variables that are not as they should be: a check
of the code looks at one field or compares two.

`CHECK_DEADLOCK FALSE` where it is given: an instance with finitely many messages stops
when all are deleted or dead, a lifecycle when all its incidents are closed, a wizard when it
has ended, an installation when its command has its outcome.

Type invariants are a run's property where the types are worth a run; the others are
theorems, or part of the inductive invariants, of the `…Proofs` modules.

## Fairness

`SqsListener!FairSpec`: weak fairness of each listener's `Step` — `Restart=always` in
`systemd/agent-alert-monitor-sqs-listen.service`, and a loop that sleeps and tries again
after a red preflight — and of SQS's own timeouts and redrive policy. Nothing forces a
call to succeed or a crash to stay away: that is why a message may end in the dead-letter
queue. What it does assume is that a call returns or raises; the Kanban subprocess has no
timeout (`kanban.py:167`), and a Hermes that hangs would stop the listener.

`Watchdog!FairSpec`: weak fairness of the round (the timer fires every minute, a round goes on
until it ends), and strong fairness of a round that starts without `cut`: again and again there
is one that no failing post and no kill cuts short, though it need not find the same things as
the rounds before it. No fairness is assumed of a single post or update. A channel that takes
no posts at all is not assumed away but the constant `Broken`.

`LedgerSchema!FairSpec`: strong fairness of each opener's next statement, in turns where the
file is an older one. Waiting for the
lock, SQLite tries every few milliseconds for five seconds, while others hold it for
milliseconds; a command that raised is started again by systemd or its timer.

`Readiness!FairSpec`: weak fairness of the process's steps and of the end of every outage but
that of Telegram (nothing the listener needs is down for ever, and what it only likes to have
may be), weak fairness of the visibility timeout and strong fairness of the redrive policy, which
acts when SQS is asked for messages. That a Kanban call which hangs returns, is not assumed:
`AllHandled` is about behaviours in which no call hangs for good, and its hypothesis says so.

## What is proved

TLAPS checks, for every set of projects, alarms, events, messages and files, and any number
of workers, listeners and commands:

* `CloudLedgerProofs`: `TypeCorrect`, `OneOpenIncident`, `OrderIndependence`,
  `ClosedStaysClosed`, `NewestEvidenceNamed`, and `Refinement`, that the ledger implements
  `AlarmRegister`.
* `SqsListenerProofs`: `ListenerTypes`, `MemoryInvariant`, `EffectsInvariant`, `DeletedLast`,
  `NotesAreTrue`, `OutcomeOfTheNewest`, and `IntakeRefinement`, that listeners and queue
  implement `AlertIntake`.
* `IncidentLifecycleProofs`: `LifecycleTypes`, `CoderAlwaysHasTask`, `NeverSilent`,
  `ClosedStaysFinal`, and with one debugger `HandOffsAreVisible`.
* `WatchdogProofs`: `WatchdogInvariant`, `NeverNags`, and `OneWatcher`.
* `ManualAlertsProofs`: `ManualTypes`, `ManualInvariant`, `OrphansAreReused`,
  `AnsweredAreServed`, `NoMoreOpenThanOverlapped`, and `NamedEvidenceSuffices`, that closing
  keeps its evidence if every closing update names its channel status.
* `LedgerSchemaProofs`: `SchemaTypes`; under `TurnSpec`, `SchemaInvariant`,
  `OpenLedgerIsComplete` and `IncidentsAreNamed`; and of `Spec`, that is of any number of commands
  at once, `OpenedTogether`: all of this, and that no recorded row is lost (`RecordsKept`), if the
  file has no table of the older program to begin with.
* `ReadinessProofs`: `ReadinessTypes`, `ReceivesArePaid`, `OutagesCostOneReceive`,
  `GreenHealthIsGreenPreflight`.
* `SetupProofs`: of the files, `WizardTypes`, `WritesAllOrNothing`, `SecretsStayWhole`,
  `LocalsAfterAws`; of the way from the answers to a command, `InstallInvariant`,
  `AnswersAreKept`, `WhatIsWrittenLoads`, `CommandsAreUsable`, `OthersMayBeMissing`,
  `NamedIsFound`, `PlaceholdersNeverShow`.

*The ledger.* "The newest transition decides" is not inductive: a step that inserts an
incident must know that the row is new, and one that finds a repeated transition must know
to which incident it leads. `LedgerInv` adds that transitions have their event rows
(`TransitionsRecorded`), that an incident exists only with its opening event recorded in
its own project (`IncidentsHaveEvents`), and that links lead to existing incidents of the
same project and alarm (`LinksMatch`). `DuplicateOrFirst` then splits a delivery into the
repeated, which change nothing that matters, and the first, which all record their
transition; what a first delivery does to the open incidents is said once for opening,
resolving and the rest. The refinement maps the rows to the set of reports and "an
incident is open", and needs `LatestDecides` to know that a late report changes nothing.
`NewestEvidenceNamed` has its own strengthening, on top of `LedgerInv`.

*The listener.* What a listener holds of a message was read several calls ago. `MemoryInv`
says that it still agrees with the tables and the board (`Carries`), and it does because
nothing is taken back there (`Grows`): a recorded alert keeps its project and its link, a
card stays a card. `EffectsInv` adds that a listener about to note an effect or to delete a
message has done what the alert asks for, for itself and for all deliveries of it
(`Announces`). For the refinement a step is taken to the step of `AlertIntake` that it
completes, if it completes one: a comment on the card of an incident completes an effect,
a second listener's comment does not.
Rows are keyed by the alert and not by the project, so these theorems need `OneProject`, an
alert reaches the queue of one project; `shared_delete` shows what happens without it.
`OutcomeOfTheNewest` speaks of an alarm's messages and needs the same of an alarm's alerts
(`OneOwner`). `MemoryInv` and the types need neither.

*The lifecycle.* Ledger invariants do not carry over: a watchdog's late update breaks
`LatestDecides` here. What holds rests on things that are never taken back: `Grows`, that posts and
coder tasks only accumulate. `LifecycleInv` says for each worker that what it carries in
memory was backed by a post or a task when it was read (`DebuggerWork`, `CoderWork`,
`WatchdogWork`); as these are never taken back, it still is when the worker writes, however
much the row has changed. `WorkKept` is this argument for the workers that do not move,
`RowsWritten` for the row that is written.
`HandOffInv` is about the one thing a debugger does not post before it stores it, the queued
code fix: whoever had an incident in hand (`Handled`) leaves it in a status from which no
debugger starts, so that what a debugger finds there is new to it, unless a watchdog has
written an old status back, and then the channel has heard (`Heard`). A second debugger
could queue the incident between the first one's read and write: hence `OneDebugger`.

*The schema.* `SchemaInv` says for each statement which tables its command has made sure of
so far, that no other command makes them worse (a table is dropped only as long as the file
is older, and then, by `TakeTurns`, one command is at work), how the uncommitted `draft` differs from the file, and
that a message's incident is in the table of incidents or the columns are still the old ones.
No step makes a table older than it is (`NothingGetsOlder`), so for a file without older tables
`TakeTurns` is no restriction, and `OpenedTogether` follows from the rest.

*The preflight.* `ReadinessInv` is a balance: every receive of a message was paid for with a
fault, and faults whose consequences are still to come (a ledger emptied under the process,
something that failed after its check had passed, a call that hangs) are not spent yet. In a batch
a message may be one receive ahead. The balance is claimed only as long as no fault was `Blind`
(`NoneBlind`): after one every loop receives, fails and pays nothing.

*The wizard.* `WizardInv` says where each file is at each step: until the first write as
others left it, then new or as it was, and in a rollback restored or still to be restored;
the snapshot is what others left (`SnapshotIsFound`), although an editor may save a file
until it is taken.

*Manual alerts.* The only step which closes an incident has checked its evidence; but between
check and write another update can change what is recorded, and `manual_closing` shows it does.
An update that closes and names `final` writes both together, and one that writes another channel
status to a closed incident opens it again, as its own status is not a closed one: hence
`NamedEvidenceSuffices`, for any number of operators. Cards and answers
rest on `ManualInv`: a handler with a key, or with a message that waits, still finds what it
read (`HandlerKnown`), because as long as `crowd` is 1 it is the only one that works on its
alarm (`Counted`), and only a handler of the alarm assigns waiting messages (`Frozen` for all
others); with overlaps only the weaker halves of the properties are claimed, which need that
nothing is taken back (`Grows`) and no more. Of two cards without an incident both would be
the first waiting message's, hence one (`OneFirst`). `ProcessStep` is this argument for the processes
that do not move, and each action has its lemma. A row keeps the alarm of its first alert, so
the theorems need `MessagesOfOneAlarm`, a message id names alerts of one alarm.
`OneOpenPerAlarm` counts incidents against handlers, and the incidents alone are no
invariant: a card that waits can become an incident when no handler of its alarm is left.
`CountInv` counts the contenders instead, the open incidents of an alarm, the cards its
waiting messages stand for, and the keys of the handlers that are on their way to one
(`Contenders`): as long as an incident is open there are no more of them than alerts were
handled at once, since a handler that begins then finds the incident and is no contender,
and an incident that opens only changes from one kind of contender into another. The first one
to open takes all waiting messages with it, which leaves the handlers at work (`FirstOpened`).
A report that opens a closed incident again would add one from nowhere, hence the hypothesis
`NoneOpenedAgain`; `incident-update` itself accepts
every incident status.

*The watchdog.* `NoNagging` needs to know of every incident found in a scan that the
watchdog has not reported it yet, also of those behind the one being posted: `WatchdogInv`
has the findings without repetition and each of them `Unreported` since its threshold.

*From answers to a command.* `InstallInv` has two parts. `DialogueInv` is about the wizard:
the variables of accepted answers are set, none is a name that AWS needs, and slugs differ;
so a variable that is still free (`MayName`) was named by nobody, and what is set stays
(`NamedAreSet`). `CommandInv` says that a command was given what `load_config` makes of the
file, environment and request at hand. The rest is about operators: `Loading` says of
`load_config` that it succeeds exactly if one entry can be selected (`Selects`), counting slugs
being the way the code tells that they differ (`CountingSlugs`); `RawExpansion`, that the
raw file and the parsed file agree wherever anything is expanded; `StaysExpanded`, that
filling in what is missing (`Fills`) changes nothing that was expanded; `LenientlyWithout`, that
variables of other projects may go. Hence a command loads the entry it names
(`LoadBySlug`, `LoadBySource`, `LoadByProjectAndSource`), and no other has its slug
(`OnlyOneSlug`). The theorems hold for every file with at least one project and every
environment, and for any number of projects the wizard is told of.

Assumptions on the constants, all checked by TLC on every instance: alerts are about known
alarms, one event id means one alert (`EventAssumption`, `EventIdAssumption`); the values for
"no project", "no incident", "no task", "no row", "nobody" are none (`NoProjectAssumption`,
`NoIncidentAssumption`, `NamesAssumption` and the like); a worker has one role; verdicts are the
six classifications; the ledger has finitely many rows (`FiniteAssumption`), and finitely many
processes handle alerts (`HandlerAssumption`); a listener polls
for a configured project, limits and bounds are natural numbers (`ListenerAssumption`,
`ReadinessAssumption`, `MaxCrashesAssumption`); no project has the empty slug
(`SlugAssumption`); the file is a file of this program or its predecessor (`StartAssumption`);
`WizardAssumption`; a round's projects are a list (`ProjectsAssumption`); no text is the name
of a variable (`${NAME}`) and no number is something else than a text (`FieldsAssumption`), a
file has a project and its fields are of their kinds (`ConfigurationAssumption`), and what the
wizard makes of accepted answers are names and texts like others (`AnswersAssumption`,
`TextsAssumption`). The hypotheses `OneProject`, `OneOwner`, `OneDebugger`, `MessagesOfOneAlarm`,
`NoneOpenedAgain`, that closing updates name a channel status, and that no table is an older one
are in the theorems' statements; `TurnSpec` is named where it is assumed.

Only model-checked: liveness, which is out of the prover's reach (`EveryIncidentCarded`,
`QueueDrains`, `NoSilentIncident`, `OpensInTheEnd`, `AllHandled`). Every other property of a
passing run is a theorem.

## Disagreements found

* `shared_delete` — `docs/architecture.md:48` has a message deleted only after its side
  effects. Event, transition and effect rows are keyed without the project. Two projects'
  queues carry one SNS message. The first listener commits its incident; the second finds its own
  copy a duplicate with nothing to do and notes the effects of the event as done
  (`ledger.py:201-207`); the first, which has no card yet, asks whether they are
  (`sqs_ingest.py:397`) and deletes its message. `DeletedAfterEffects` asks of each message for
  the effects due to the project of its queue (`EffectsDone`), so what violates it is the first
  project's message; no crash and no redelivery is needed.
* `manual_closing` — `README.md:497` has closing need final evidence, given or recorded. The
  recorded evidence is read in a SELECT and relied on in an UPDATE of its own
  (`ledger.py:916-928`), which leaves the channel status as it finds it. Between the two the
  watchdog, which found the incident open, stores `watchdog-stalled` (`cli.py:325-330`): the
  incident is closed, with a channel that last heard that it is stalled.

The models also show the following; each is seen by adding the named property to the run's
configuration with the change given.

| Statement | What the code does | Seen with |
|---|---|---|
| `tests/test_lifecycle_sync.py:447`: a stale result cannot reopen a terminal incident | the check is on the row read before the Kanban and Telegram calls | `lifecycle_rows`, `StaysClosed`, two debuggers |
| `docs/architecture.md:45`: the ledger follows the active ALARM/OK state | the watchdog writes back the status it read, and undoes a recovery (`cli.py:322-330`) | `lifecycle_rows`, `LatestDecides` |
| `README.md:31`: the watchdog is the no-silence guarantee | a post that fails ends the round for all projects behind it, every round again (`cli.py:321`) | `watchdog_rounds`, `NoSilentIncident` with a project in `Broken` |
| `docs/architecture.md:76`: an older ledger is brought up to date in place | of two commands that open it, one drops what the other has recreated and filled (`ledger.py:246`) | `schema`, `SPECIFICATION Spec` and `PROPERTY RecordsKept` |
| `README.md:77-78`, `docs/architecture.md:40`: messages are received only after a green preflight | the preflight is green with a full disk, a board that lists and takes no cards, a queue that deletes nothing: every loop costs each message a receive, up to the dead-letter queue (`sqs_ingest.py:213-215`, `282-297`, `426-430`) | `readiness`, `OutageCostsOneReceive` without `~blind` |
| `systemd/agent-alert-monitor-sqs-listen.service`: `Restart=always` keeps the listener at work | a Kanban call that never returns stops it for good, the process being alive (`kanban.py:167`) | `readiness`, `AllHandled` without `[]<>(pc # "hung")` |
| `health.py:166-168`: a channel whose variable is missing is reported | a chat written `chat_id: ${NAME}` (as in `tests/test_config.py:163`) has the placeholder `0` of `cli.py:228`, and no `chat_id_env` to tell that it is one: Telegram is asked about chat 0 | `installation`, `SourceIsReal` with `Resolved(env, entry.chat_id)` asked of a `chat_id` that is given |
| `README.md:209`: without `--force` nothing is overwritten | the files are looked for before the questions and written after them (`setup_wizard.py:94`, `432`) | `wizard_run`, `ExistingKept` |
| `setup_wizard.py:672`: a symbolic link is refused | a link that leads nowhere is removed by the rollback of the refusal (`setup_wizard.py:660`) | `wizard_run`, `LinksStay` |

Two debuggers, or a debugger and a watchdog, also break `HandOffVisible` as `README.md` would
have it (a status `progress` is written over a task that was never announced); the property
checked allows for the watchdog's own report. `docs/operations.md:185` has the services poll
the wizard's first source, but a queue variable that the operator names
`ALERT_MONITOR_SQS_SOURCE` is kept (`setup_wizard.py:344`, `setdefault`). The preflight takes
a placeholder for a Telegram token (`cli.py:228`, `sqs_ingest.py:255-258`), which health, for
tokens, does not. `incident-update` looks for the scope of a manual incident (`cli.py:422-433`) and never
finds a cloud one, so that "operator resolves" in `README.md` has no command for it.

## What is not modelled

* Text: envelope parsers, alert text, templates, cards, the wording of reports and questions.
  They keep no state. A message no parser accepts is `Malformed`; a transition key and a
  fingerprint are what they are built from. Slugs are taken to contain no `:` or `|`, which
  the configuration does not check.
* The digest in an incident id and the idempotency keys are taken to be injective.
* The listener's own Telegram posts: failures are swallowed and nothing reads them.
* `record_channel_delivery`: no caller outside the tests. `dlq-inspect`: another queue, and
  it only looks. `--max-messages`: it replaces one number.
* Several sources or sinks of one project, the types of raw YAML values, and the fields of the
  configuration that nothing branches on.
* A configuration that changes while incidents are open; an incident whose project is no
  longer configured is watched by nobody.
* Message ids given for manual alerts of different alarms (`cli.py:36` has a default).
* The calls to AWS behind the wizard's validation, which is taken to pass or fail.
* Saves by others while the wizard writes: `Edit` is possible until the snapshot is taken
  (`setup_wizard.py:385`). A save between the snapshot and the write (`setup_wizard.py:432`) is
  overwritten, or taken back by a rollback.
* A file that cannot be opened when an AWS file is merged: `RawConfigParser.read`
  (`setup_wizard.py:682`, `694`) skips it without a word, and its sections would be dropped. The
  model has it opened, as the snapshot has read it a moment before.

## The plan

Order of the modules, most important behaviour first; all of them are written.

1. `AlarmRegister`, `CloudLedger`, `CloudLedgerProofs` — the register and its refinement.
2. `SqsListener`, `AlertIntake`, `SqsListenerProofs` — composes the ledger with SQS, Kanban
   and crashes; what it promises, and the proof that it does.
3. `IncidentLifecycle`, `IncidentLifecycleProofs` — composes the ledger with its writers.
4. `Watchdog`, `WatchdogProofs` — clock, ownership, rounds.
5. `ManualAlerts`, `ManualAlertsProofs` — the manual path.
6. `LedgerSchema`, `LedgerSchemaProofs` — opening the ledger.
7. `Readiness`, `ReadinessProofs` — outages between preflight and delete.
8. `ConfigFile`, `Configuration`, `SetupAnswers`, `Installation` — from answers to a command.
9. `SetupWizard` — the files; `SetupProofs` — both.

Left: a second source and sink per project in `ConfigFile`.
