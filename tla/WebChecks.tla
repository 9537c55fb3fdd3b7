------------------------------ MODULE WebChecks -------------------------------
(***************************************************************************)
(* An HTTP or a Jenkins check: what the site answers, the outcome _run()   *)
(* takes from the answer, the status that debounce makes of the stored     *)
(* results, and the problems the report page lists for a period.  A run is *)
(* one step here; CheckRun has its queries one by one.                     *)
(***************************************************************************)
EXTENDS StatusRules, Integers, FiniteSetsExt

CONSTANTS
    WebDebounces, \* values of debounce users choose
    RecentLimit,  \* results recent_results() reads, 10 in the code
    MaxResults,   \* bound: results kept
    Null          \* a null column, a problem that has no end

ASSUME WebAssumption ==
    /\ WebDebounces \subseteq Nat /\ WebDebounces # {} /\ {RecentLimit, MaxResults} \subseteq Nat \ {0}
    /\ RecentLimit <= MaxResults
ASSUME NullAssumption == Null \notin Nat

VARIABLES
    settings, \* what the user asked for: kind, debounce, what to look at
    site,     \* what the site answers
    results,  \* outcomes of the stored results, oldest first
    has_run,  \* last_run is not null
    passing   \* calculated_status

web == <<settings, site, results, has_run, passing>>

(* looks_at: status_code and text_match of an HTTP check,
   max_queued_build_time of a Jenkins check. *)
Settings ==
    [kind : {"http"}, debounce : WebDebounces, looks_at : SUBSET {"code", "text"}]
        \cup [kind : {"jenkins"}, debounce : WebDebounces, looks_at : SUBSET {"queue"}]

(* The page a server sends, with the code and the text that were asked for. *)
Pages == [up : BOOLEAN, code : BOOLEAN, text : {"found", "missing", "undecodable"}]

(* A Jenkins server and its job: its last completed build, the builds since the
   last successful one, and how long a build has been waiting. *)
Jobs == [up : BOOLEAN, found : BOOLEAN, disabled : BOOLEAN,
         build : {"none", "SUCCESS", "UNSTABLE", "FAILURE"},
         failures : 0 .. 2, queued : {"no", "briefly", "long"}]

PossibleJob(job) == CASE job.build = "FAILURE" -> job.failures > 0
                      [] OTHER -> job.failures = 0

Sites(kind) == IF kind = "http" THEN Pages ELSE {job \in Jobs : PossibleJob(job)}

WebTypeOK ==
    /\ settings \in Settings
    /\ site \in Sites(settings.kind)
    /\ results \in Seq(BOOLEAN) /\ Len(results) <= MaxResults
    /\ {has_run, passing} \subseteq BOOLEAN

WebInit ==
    /\ settings \in Settings
    /\ site \in Sites(settings.kind)
    /\ results = <<>>
    /\ has_run = FALSE
    /\ passing = TRUE
-----------------------------------------------------------------------------
(* HttpStatusCheck._run(); a body that cannot be decoded raises, and run()
   counts that as a failure. *)
HttpSucceeds ==
    /\ site.up
    /\ "code" \in settings.looks_at => site.code
    /\ "text" \in settings.looks_at => site.text = "found"

(* What get_job_status() returns; Null when it raises: the server does not
   answer, or the job has no completed build. *)
JobStatus ==
    IF ~ site.up \/ (site.found /\ site.build = "none") THEN Null
    ELSE IF ~ site.found THEN [status_code |-> 404]
    ELSE [status_code |-> 200, active |-> ~ site.disabled,
          succeeded |-> ~ site.disabled /\ site.build = "SUCCESS",
          consecutive_failures |-> site.failures, blocked |-> site.queued]

(* JenkinsStatusCheck._run(): "If something else goes wrong, we will *not*
   fail". *)
JenkinsSucceeds ==
    LET status == JobStatus IN
    \/ status = Null
    \/ /\ status.status_code # 404
       /\ status.active
       /\ ~ ("queue" \in settings.looks_at /\ status.blocked = "long")
       /\ status.succeeded

Succeeds == IF settings.kind = "http" THEN HttpSucceeds ELSE JenkinsSucceeds

(* consecutive_failures as the results have it: _run() does not store it. *)
StoredFailures == Null

(* Mutant: failures are permitted until debounce + 1 results are read; ten is
   all that is ever read. *)
CalculatedPassingWhenFull(recent) ==
    IF settings.kind = "http"
    THEN Len(recent) <= settings.debounce \/ DebouncedPassing(recent, settings.debounce)
    ELSE StoredFailures = Null \/ StoredFailures <= settings.debounce

(* calculate_debounced_passing() for the kind, on the results newest first.
   Python 2 orders None below every number. *)
CalculatedPassing(recent) ==
    IF settings.kind = "http" THEN DebouncedPassing(recent, settings.debounce)
    ELSE StoredFailures = Null \/ StoredFailures <= settings.debounce

(* recent_results(), newest first. *)
RecentResults(stored) ==
    [i \in 1 .. Min({Len(stored), RecentLimit}) |-> stored[Len(stored) + 1 - i]]

(* StatusCheck.run(): the result is stored, the status is recomputed. *)
WebRun ==
    /\ results' = LET kept == IF Len(results) < MaxResults THEN results ELSE Tail(results)
                  IN  Append(kept, Succeeds)
    /\ has_run' = TRUE
    /\ passing' = CalculatedPassing(RecentResults(results'))
    /\ UNCHANGED <<settings, site>>

SiteChanges ==
    /\ site' \in Sites(settings.kind) /\ site' # site
    /\ UNCHANGED <<settings, results, has_run, passing>>

(* The check is edited, which judges the stored results again once there was a
   run; a Jenkins check whose results were purged raises IndexError instead. *)
WebEdit ==
    /\ settings' \in {s \in Settings : s.kind = settings.kind} /\ settings' # settings
    /\ settings.kind = "jenkins" /\ has_run => results # <<>>
    /\ UNCHANGED <<site, results, has_run>>
    /\ passing' = (~ has_run \/ CalculatedPassing(RecentResults(results))')

(* clean_db deletes the oldest results. *)
WebPurge ==
    /\ \E first \in 2 .. Len(results) + 1 : results' = SubSeq(results, first, Len(results))
    /\ UNCHANGED <<settings, site, has_run, passing>>

WebNext == WebRun \/ SiteChanges \/ WebEdit \/ WebPurge

(* run_all_checks runs every check again and again. *)
WebSpec == WebInit /\ [][WebNext]_web /\ WF_web(WebRun)
-----------------------------------------------------------------------------
(* StatusCheckReportForm.get_report().                                     *)

(* Mutant: nothing is dropped before the first failed group. *)
GroupStartsAll(outcomes) ==
    {i \in DOMAIN outcomes : i = 1 \/ outcomes[i] # outcomes[i - 1]}

(* Where results stop being alike (groupby), from the first failed one on
   (dropwhile). *)
GroupStarts(outcomes) ==
    {i \in DOMAIN outcomes : /\ i = 1 \/ outcomes[i] # outcomes[i - 1]
                             /\ \E j \in 1 .. i : ~ outcomes[j]}

(* The starts in pairs, the first with the second and so on, the last one perhaps
   alone (izip_longest). *)
Problems(outcomes) ==
    LET times == GroupStarts(outcomes)
        Before(time) == {t \in times : t < time}
        After(time)  == {t \in times : t > time}
    IN  {[start |-> time, end |-> IF After(time) = {} THEN Null ELSE Min(After(time))] :
            time \in {t \in times : Cardinality(Before(t)) % 2 = 0}}

Covers(problem, i) == problem.start <= i /\ (problem.end = Null \/ i < problem.end)

(* "take time of the first one in each group (starting from a failed group),
   split them into pairs and form the list of problems" (views.py:399): whatever
   the period asked for, each failed result of it lies in exactly one problem
   and no successful one lies in any. *)
ReportIsExact ==
    \A from, to \in DOMAIN results :
        LET period == SubSeq(results, from, to) IN
        \A i \in DOMAIN period :
            Cardinality({problem \in Problems(period) : Covers(problem, i)})
                = IF period[i] THEN 0 ELSE 1

(* The status of an HTTP check is in the end what the site deserves, however
   debounce is edited meanwhile: old results cannot hold it back for ever.  (A
   check whose results have all been purged passes until its next run.) *)
HttpConverges ==
    \A verdict \in BOOLEAN :
        <>[](settings.kind = "http" /\ HttpSucceeds = verdict /\ results # <<>>)
            => <>[](passing = verdict)

(* "Debounce JenkinsCheck on the number of job failures" (CHANGES:6): a job that
   failed more often than debounce permits makes its check fail. *)
JenkinsFails ==
    <>[](/\ settings.kind = "jenkins" /\ site.up /\ site.found
         /\ site.build = "FAILURE" /\ site.failures > settings.debounce)
        => <>[](~ passing)
=============================================================================
