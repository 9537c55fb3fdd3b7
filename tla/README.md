# Cabot in TLA+

Cabot runs health checks on a schedule, derives the status of services and
instances from their checks, and alerts people about services that fail. This
directory holds TLA+ models of it, the TLC runs that check them on small
instances, and proofs, checked by TLAPS, that hold for every instance. A path
such as `base.py:301` is relative to `src/cabot/cabotapp/models/`; `views.py`,
`tasks.py`, `alert.py`, `graphite.py`, `jenkins.py` and `calendar.py` are in
`src/cabot/cabotapp/`, `celery.py` and `rest_urls.py` in `src/cabot/`.

## The system

| Component | State | Operations | Interacts with |
|---|---|---|---|
| Checks (`StatusCheck`) | row: `active`, `debounce`, `last_run`, `calculated_status`; results | `run()`, `save()`, edit, relink, duplicate, delete | `save()` queues an update of every service and instance it is linked to |
| Kinds of check | Graphite points, a site, a Jenkins job, an address | `_run()` of each kind, `calculate_debounced_passing()` | external servers |
| Services | row: `overall_status`, `last_alert_sent`, `alerts_enabled`; snapshots | `update_status()`, `alert()`, edit, delete | reads its checks; calls the dispatch |
| Instances | row, snapshots, no alerts | `update_status()`, create, `duplicate()`, `delete()` | reads its checks; owns and shares ping checks |
| Acknowledgements | time, cancelled | `acknowledge_alert()`, `remove_acknowledgement()` | read by `alert()` |
| Dispatch (`alert.py`) | plugins | `send_alert()`, `send_alert_update()` | duty officers, users |
| Duty rota and profiles | shifts, fallback user | `update_shifts()`, `UserProfile.save()`, `get_duty_officers()` | iCal feed; called by `alert()` |
| Scheduler and cleaning | broker queue | `run_all_checks`, `update_shifts`, `clean_db` | all of the above |
| Web, REST, reports, alert tests | none of their own | forms and viewsets that load a row and save it | all rows |

Sixteen celery workers (`Procfile`) and the web processes share a database in
autocommit mode. No request runs in a transaction, apart from alert tests, and no
row is locked. Every `save()` writes **every** column of a row that was loaded
earlier. A task message is acknowledged on receipt, so the task of a killed
worker is lost. The hard behaviour comes from this: updates of one service that
overlap, edits over stale copies, a check deleted during its own run, a worker
killed between two saves, `get_or_create()` without a unique constraint,
counts taken by one query and used by another. Time is the other source of it:
intervals measured from a stale moment, windows rounded to minutes, runs that are
late, lost or queued twice. `PROJECT.json` lists these hazards at their lines.

What makes each part correct:

- service: its status is the severity of its failing checks once things settle;
  its users learn of every failure, recovery and escalation; alerts repeat, but
  not before their interval;
- check: its status is what debounce makes of its stored results; its services
  hear of it; a deleted check stays deleted; what a user sets is not undone;
- kinds: no Graphite point is overlooked; an HTTP check follows its site; a
  Jenkins check fails when its job does;
- acknowledgement: it silences pages for a while, never for good;
- rota: the officer of a shift under way is on duty; `alert()` always gets its
  officers; shifts are not duplicated;
- scheduler: runs are on time unless messages are lost; cleaning leaves nothing;
- instance: links are sound; snapshots add up; its status is that of its checks;
- report: its problems are exactly the failed results;
- alert test: it alerts nobody but the tester.

## Modules

| Module | Models | Uses |
|---|---|---|
| `StatusRules` | `most_severe()` and the debounce rule, as operators | |
| `AlertRules` | the intervals, `more_important`, the early returns of `alert()`; ages | `StatusRules` |
| `AlertPolicy` | abstract: one service, each `update_status()` with its `alert()` as one action | `AlertRules` |
| `ServiceUpdate` | detailed: `update_service` on several workers query by query, kills, edits by form and API, acknowledgements | `AlertRules` |
| `ServiceUpdateAudit` | history variables for `ServiceUpdate`, its safety, refinement of `AlertPolicy` by updates that do not overlap | `ServiceUpdate`, `AlertPolicy` |
| `CheckRun` | one check: `run()` and `save()` query by query, edits, relinking, deletion, purge, the message to its service | `StatusRules` |
| `CheckRunAudit` | history variables for `CheckRun`, and the safety of `save()` | `CheckRun` |
| `GraphiteCheck` | the points of Graphite, the window a run asks for, the verdict | |
| `WebChecks` | HTTP and Jenkins `_run()`, debounce by kind, the report's list of problems | `StatusRules` |
| `CheckKinds` | a check of one of those kinds | `GraphiteCheck`, `WebChecks` |
| `Scheduler` | `run_all_checks`, due checks, late, duplicate and lost runs | |
| `CleanDb` | `clean_db` query by query and its re-queueing | |
| `PeriodicTasks` | the two side by side | `Scheduler`, `CleanDb` |
| `DutyRota` | `update_shifts()` query by query, `UserProfile.save()`, `get_duty_officers()` | |
| `DutyRotaAudit` | a history variable for `DutyRota`, and what an update leaves behind | `DutyRota` |
| `AlertTest` | the transaction of an alert test beside other sessions | `DutyRota` |
| `Instances` | creation, edit, duplication, deletion of instances with their checks; `update_instance` query by query | `StatusRules` |
| `MC*` | what a `.cfg` cannot write: functions of the model values, a symmetry, two scenarios | |
| `*Proofs` | theorems about the module in their name | |

Operators after a comment that starts with "Mutant" are variants of
the definition that follows them, with a bug in it. They belong to no
specification: replacing the definition by its variant must make a property
fail, which shows that the property depends on that line of the code.

### Correspondence

**Time.** In `AlertPolicy` and `ServiceUpdate` a moment is represented by its age
in minutes, and ages stop at `Horizon`, which is at least every interval: the code
only asks whether a moment is older than an interval. `Tick` ages every moment, in
the database and in the copies tasks hold. `None` is a null column. `Scheduler`
counts minutes, `GraphiteCheck` half minutes, because the code computes a window
in fractions of a minute and asks for whole ones.

**AlertPolicy.** `service` is the row. `old_overall_status` is overwritten before
it is read, so it is not state. The actions are the outcomes of `update_status()`
(base.py:286) with the `alert()` it calls (base.py:190): nothing to tell, alerts
off, suppressed, raised, and a worker killed between the saves of base.py:301 and
209. What the checks say is any set of importances. `notice` is what was last
raised; `blind` records that an update since then could not raise anything.

**ServiceUpdate.** A worker takes a message and loads the row (`Take`), lists the
failing checks (`ListFailing`, base.py:289), saves the row (`SaveStatus`, 301),
and either returns (`AlertSkipped`) or dates the alert and saves again
(`AlertRaised`, 205 to 209); then it looks for an acknowledgement and pages or
sends an update (`Page`, `SendUpdate`, 210 to 215). `svc` is the copy of the row
it holds in between. An editor loads the row, saves it and sets the links
(`EditLoad`, `EditSave`, `EditLinks`); the API's viewset writes `overall_status`,
too (rest_urls.py:56), which `EditSave` includes. `failing` stands for the checks.
The save of a check writes its row (`CheckSaved`, base.py:571) and afterwards queues
an update (`UpdateQueued`, 593), or never does, when it is killed or the check
unlinked in between (`UpdateLost`); `unsent` counts the saves that are at this
point. Deleting or relinking a check queues nothing (`ChecksRelinked`). Messages
are alike, so the queue is a number. `ServiceUpdateAudit` adds what was
last raised (`notice`), whether an update since then could not raise anything
(`blind`) and whether anything disturbed the last update (`clean`): another update,
a kill, an update that was lost, an edit, a change of links. Its `Serial`
keeps updates and forms from overlapping, for `SerialSpec` only.

**CheckRun.** `Load`, `StoreResult` (base.py:546), `Decide` (558), `FindSelf`
(565), `Write` (571) and `Dispatch` (572) are the queries of `run()` and `save()`;
an edit form goes through the same `save()` and then sets the services (`Relink`,
views.py:112). A check that never ran is not looked for (base.py:557). `Write`
puts the copy back whether or not the row is still there, as Django does when an
UPDATE finds no row. The outcome of the check itself is arbitrary here; the kinds
have modules of their own. `CheckRunAudit` adds whether anything disturbed the
newest `save()` (`clean`), and which runs another `save()` overtook (`overtaken`).

**GraphiteCheck.** `points` is what Graphite holds, by age. `Ask` computes
`time_to_check` (base.py:677), `Answer` judges what `get_data()` (graphite.py:13)
and `validate_datapoint()` leave (base.py:694 to 742). A point may arrive after its
timestamp, an answer after its request, a run may fail or die.

**WebChecks.** `site` is the page or the job, of which only what `_run()` looks at
is kept. A run is one step. `StoredFailures` is null because no code stores
`consecutive_failures` in a result. `Problems` is `get_report()` (views.py:395):
groups, dropped prefix, pairs.

**Scheduler, CleanDb.** Ages of `last_run` as the row has it and of the real last
run are kept apart: an edit writes an old `last_run` back, of any earlier run or
null (`StaleSave`). Messages
are their ages; two of one minute for one check cannot exist. `clean_db` is three
counts, three deletes and the decision to queue itself (tasks.py:93 to 110). Rows
expire and are deleted with their owners in between.

**DutyRota.** `shifts` counts the rows of each version of an event that are not
deleted. `Fetch` reads the calendar, `MarkFuture` is base.py:950, `DeleteOld` 957,
`Get` and `Create` the two queries of `get_or_create()` (960); an exception ends
the task. `ClearOthers` and `SaveFallback` are the two writes of
`UserProfile.save()` (886). `DutyRotaAudit` adds whether calendar, clock, users, a
kill or another update disturbed the newest update (`clean`). In `AlertTest` the rows a test has hidden are locked
by its transaction and inserts of others are visible to it, as the default
isolation of the database has it.

**Instances.** `links` are pairs. `Create` adds the default ping check
(views.py:861), `DuplicateRow` and `DuplicateCheck` are `Instance.duplicate()`,
`DeletePings` and `DeleteRow` are `Instance.delete()` and what the view does next.
`Load`, `Query`, `SaveSnapshot`, `SaveRow` are `update_instance`. `quiet` is
history: no check and no link changed since the update began.

## Runs

| Run | Instance | Shows |
|---|---|---|
| `alert_policy` | intervals 2 and 4 | all promises of `AlertPolicy`, liveness included |
| `update_policy` | two workers and an editor that do not overlap, two importances, one kill | each update is an action of `AlertPolicy`; the settled row agrees with the checks once no save is about to queue an update |
| `update_live` | two workers, one user, one kill | the status converges; paging goes on unless acknowledged again and again |
| `update_edit` | a worker and an editor, one kill | the same with stale rows and arbitrary statuses written back |
| `check_edit` | a runner and an editor, debounce 0 and 1, one kill | check and service converge; an undisturbed status fits the results; a run undoes only edits saved in its middle; a deleted check stays deleted |
| `check_inactive` | a runner and an editor | violated: a run that began before a check was deactivated switches it on again |
| `check_kinds` | one host and values around the threshold, five comparisons, or a site with debounce 0 and 2 | no point is overlooked; HTTP checks converge; the report is exact |
| `jenkins_silent` | a job | violated: a Jenkins check never fails |
| `periodic_tasks` | a check, a lost message, batches of one row | runs are timely, cleaning is complete |
| `rota` | two updates of two events, one of them in two versions; two profile saves; one kill | shifts under way are kept, and served unless some event keeps two rows; an undisturbed update leaves the rota as the calendar has it; officers are found |
| `instances` | two instances, two ping checks, one edit, deletion or kill | sound links, exact snapshots, statuses converge |
| `alert_test_leak` | two users, two events | violated: an alert test alerts the service's users |

The violated properties state what a help text, a comment or the changelog says;
`PROJECT.json` quotes each under "findings".

**Bounds.** Two actors that write one row are enough for every conflict over it:
a conflict is between one stale copy and one other writer. `MaxQueue` is 1 or 2:
messages carry no content, and one waiting message already lets a second update
start while the first is under way. `MaxCrashes`, `MaxKilled`, `MaxLosses` are 1:
each loss forgets a task, and the next message finds the same state after one loss
as after two; what adds up with each loss, the delay of a check, is proved for any
number. Two importances in
`update_policy` give a service that gets worse, gets better and recovers. Intervals of 1 and 2 (2 and 4) keep the order of the defaults 10 and 120,
and let an alert be asked for before, at and after its interval. `RecentLimit` 2
with debounces 0 to 2 gives a window shorter than, equal to and longer than what is
read; `MaxResults` 4 gives reports with two problems, open or closed. In
`GraphiteCheck`, `MaxGap` 4 half minutes is twice the frequency, so that a window
is longer than its minimum and odd windows lose their half minute. `PerDay` 2 with
`BatchSize` 1 gives full, emptied and refilled batches. In `Instances` two checks
are enough to share one and to keep one. In `rota` two events let the rows of one
end every update before it comes to the other. Calendar and profiles meet only in
`get_duty_officers()`, so `MCDutyRota` explores them in turn, as two scenarios: in
`"calendar"` no profile is saved, updates overlap, and all changes of the calendar
but the clock are to `e1` and its first officer; in `"profiles"` updates follow one
another and the events only come to pass. The theorems are about `AuditSpec`, without
scenarios, and cover every invariant and action property of the run. The workers of
`update_policy` are interchangeable (`WorkersAreAlike`). `MaxDisturbances` 1 lets one edit,
deletion or kill meet every step of the others; a larger one adds no kind of step,
and types and snapshots are proved for every value of it.
Deadlock is not checked in `CheckRun` and `Instances`, where everything really
stops once the checks have been deleted.

**Fairness.** Checks keep being saved, and a save that has written the row goes on to
queue its update unless it is killed, because beat
starts `run_all_checks` every 60 seconds for every check, active or not
(celery.py:15, tasks.py:24). A waiting message is eventually taken and a
task that has begun goes on: workers are idle again after each task. In
`Instances` the message of each instance is taken with strong fairness: the one
worker serves several queues there, and the broker is first in, first out. A
request that has begun goes on. Beat starts `clean_db` every day and
`update_shifts` every half hour. Time passes. Nothing is assumed of users, edits,
deletions, sites or kills, except that kills are bounded. Most liveness properties
have the form "once the inputs stay as they are, the status follows". For each of
them a bug in the code it is about (see "Mutant" above) makes its run fail, so the
inputs do stay in some behaviours.

## Proofs

Every theorem is for all values of the constants under the `ASSUME`s of its module,
which TLC evaluates in the runs. They say little about the code's settings:
intervals and frequencies are numbers (a Graphite check's is positive), runners and
editors are different processes, checks and hosts can be counted, and `None` and
`Gone` are not rows. The rest relates the bounds to the settings: ages stop at a
`Horizon` that no interval exceeds, a Graphite window fits into `MaxGap`, a fetch
takes no longer than that.

| Module | Theorems | Argument |
|---|---|---|
| `StatusRulesProofs` | `MostSevereIsMaximal`, `FailureUsesUpDebounce` | by cases on ranks; a count of failures gains one |
| `AlertPolicyProofs` | `TypeCorrect`, `LastAlertCorrect`, `InformedCorrect`, `ThrottleCorrect` | `Inv`, the three invariants together |
| `ServiceUpdateProofs` | `AuditTyped`, `StatusIsAccurate`, `PolicyImplemented`, `PromisesKept` | `CleanInv`; `SerialInv` |
| `CheckRunProofs` | `CheckTyped`, `GoneForGood`, `VerdictIsSettled`, `RunsKeepUnlessOvertaken` | `TypeOK`; `CleanInv`; `KeptInv` |
| `CheckKindsProofs` | `TypesCorrect`, `SpikesFound`, `ReportsExact`, `JenkinsNeverFails`, `RecentResultsGrow` | `KindsInv`; least counterexamples |
| `PeriodicTasksProofs` | `TasksTyped`, `Timely`, `Reported`, `LastBatchCorrect` | `SchedulerInv`, `CleanDbInv` |
| `DutyRotaProofs` | `RotaTypes`, `CurrentShifts`, `DuplicatesOverlapped`, `RotaExact`, `OfficersFound` | `RotaInv`, `ExactInv`, `ProfilesInv` |
| `InstancesProofs` | `InstancesTyped`, `SnapshotsFit` | `CountsFit` |

- **AlertPolicy.** Neither of the last two invariants is enough alone. That
  suppression hides no escalation needs to know that a suppressed update found a
  service whose users had been told of a failure; this follows from
  `last_alert_sent` being set, which `LastAlertIsLastNotice` ties to the notice.
  The heart of the step proof is `SuppressedIsNoEscalation`.
- **ServiceUpdate.** `CleanInv` says of an undisturbed stretch of updates that one
  worker at most holds a copy of the row, and that, when nothing is pending, what it
  has listed and saved is accurate: a check that changes later has a save that is
  about to queue an update, or an update in the queue (`NothingPending`). Without the
  first half the statement would be false between the row write of a check and
  its `delay()`. `StatusIsAccurate` holds for any number of workers and
  editors. `PolicyImplemented` is the refinement, initial states and steps, of `SerialSpec`:
  any number of workers and editors, of which no two overlap, and that is all it
  assumes; updates that overlap do not refine `AlertPolicy` (below). `SerialInv`
  says that one worker at most holds a copy of the row, and that each copy is the
  row but for a status still to be saved (`CopyOf`), so that what `alert()` decides
  from the copy is what the policy decides from the row. `PromisesKept` carries
  three theorems of `AlertPolicyProofs` over to the detailed model by it.
- **CheckRun.** `TypeOK` is inductive, and suffices for `GoneForGood`: each step
  leaves a deleted check deleted. `VerdictIsSettled` needs to know, while `clean`,
  that one process at most is in `save()` (`OneSaves`) and that what it has decided
  is what the results, which nobody changes meanwhile, make of its copy
  (`Decided`). `KeptInv`: the copy of a run that no other `save()` overtook agrees
  with the row on what users submit.
- **Kinds of check.** `WindowCovers`: a Graphite request under way covers the time
  back to the start of the newest result and a minute more. `SpikesFound` then
  shows that the rounding to whole minutes reaches no point since that start, but
  for as much time as the answer took. `ReportsExact` needs no induction over the
  results: wherever a claim about positions fails, it fails at a least position,
  and the one before that contradicts it. In this way outcomes between two starts
  of groups are constant, and failed and successful groups take turns
  (`Alternate`), so each pair of starts covers one failed group. `JenkinsPasses` is
  why `jenkins_silent` is violated. `RecentResultsGrow` justifies that `CheckRun`
  keeps no more results than are read.
- **Scheduler.** `RowIsNotYounger` (a stale `last_run` only makes a check due
  sooner) and `OverdueIsQueued` (each overdue minute is a message or a loss).
  `NotFullIsEmptied`: a table whose count was below the batch is emptied.
- **Rota.** `CopiesAreOld` (a task's calendar is not ahead of the calendar) gives
  `CurrentShifts`; `Alone` (without overlap one task is at work and creates only
  what is absent) gives `DuplicatesOverlapped`; `OneFallback` is the same for
  profiles. `ExactInv` follows one undisturbed update: each event it expects is
  still to be seen to or has its row (`TaskFits`), and a shift to come of any other
  event is gone since the first write; what earlier updates left does not matter.
- **Instances.** `CountsFit` says what each query of an undisturbed update has
  found, so that the subtraction of base.py:349 is between counts of one state.

**Only model-checked.** Liveness, which is beyond the prover: `FailureIsRepeated`,
`StatusConverges` of services and of checks, `FailureIsPaged`, `ServiceConverges`,
`HttpConverges`, `DatabaseIsCleaned`, `RotaConverges`, `InstanceConverges`. Every
invariant and every action property of a passing run is stated by a theorem.

## Disagreements seen while modelling

Three are runs (findings). These follow from the models or the code as well, and
have no run of their own:

- *More severe alerts should trigger even if a less severe alert was recently
  sent* (CHANGES:195): `more_important` compares with the status of the previous
  update (base.py:200). If that update found the severe status while alerts were
  off, or its worker was killed, the escalation is suppressed for an interval.
  `UsersAreInformed` therefore excuses a `blind` service.
- Updates that overlap both read `last_alert_sent` before either writes it
  (base.py:195 and 209) and raise one alert twice.
- Deleting or unlinking the only failing check of a service queues no update
  (views.py:524 and 116, base.py:572): the service stays failing.
  `ServiceConverges` is about checks that stay linked.
- A `save()` past its look for the row (base.py:565 to 571) inserts a deleted check
  again. `AbandonedStaysDeleted` excuses exactly these.
- "Number of successive failures permitted before check will be marked as failed"
  (base.py:435): a new check fails on its first failure all the same, because a
  history shorter than the window fails when it has no success (base.py:62).
- Once an event that has begun has two rows, `get_or_create()` raises in every later
  update that expects it (base.py:960), after the future shifts were marked deleted
  and before the events that follow are seen to: their shifts stay deleted, too.
  `RotaConverges` excuses an expected event that keeps two rows, whichever it is,
  and fails in `rota` when only the event it is about is excused.
  `DuplicatesNeedOverlap` says how the rows come about.
- A recurring event modified during its shift loses the shift (calendar.py:42,
  base.py:957), and a deactivated user stays on duty (base.py:933).
- A problem that outlasts the period of a report is measured until now
  (views.py:409).
- Editing a Jenkins check without results raises `IndexError`
  (jenkins_check_plugin.py:76): the guard of `WebEdit`.

## Not modelled

- Servers, plugins and the calendar beyond what the code reads of them; the text of
  alerts; list and detail pages, which only read; `cached_health`;
  `minimize_targets()`, which shapes what is displayed; the success rate of
  reports.
- `ServiceUpdate` has no snapshot rows (the same code is in `Instances`), no
  deletion of the service. `get_duty_officers()` raising inside `alert()` ends the
  task without a page as `Crash` does, at most `MaxCrashes` times; `DutyRota` says
  when it raises. A second acknowledgement (base.py:225) is
  possible in it and without effect.
- `Instances` has active checks only; a run is one step there, as in `WebChecks`.
- Two runs of one Graphite check at once: `GraphiteCheck` has one request at a time,
  as if a check's runs were over before the next is queued.
- `run_all_checks` waits in the same queue as the runs it queues; in `Scheduler` it is
  executed in its minute or lost (`BeatLost`), and `MaxLag` is an assumption about the
  runs only.
- Shifts, users and alert plugins written through the API; names, numbers and
  plugin data of profiles.
- Set-up, settings, authentication, templates, migrations, deployment:
  configuration and presentation without behaviour of their own.
- Negative or null debounces, which the forms do not produce in normal use.

## What is left

1. Services with snapshots and deletion, and `get_duty_officers()` raising inside
   `alert()`: the composition of `ServiceUpdate` with `DutyRota`.
2. Shifts written through the API beside `update_shifts()`.
3. Inactive checks in `Instances`, and runs query by query there.
