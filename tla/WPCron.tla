------------------------------- MODULE WPCron -------------------------------
(***************************************************************************)
(* The wp-cron job (cmd/wpcron.go, config/cron/cronjob.yaml).  WordPress's *)
(* own scheduler is switched off (DISABLE_WP_CRON), so the only thing that *)
(* runs a Site's scheduled events is this: every Interval a Job lists the  *)
(* Sites and requests wp-cron.php of each, one after the other.            *)
(*                                                                         *)
(* The unit of time is the timeout of one request (wpCronHTTPTimeout, 20   *)
(* seconds).  A request takes no time or one unit; everything else the job *)
(* does takes none, so time passes only while a request is under way or    *)
(* no Job is.                                                              *)
(***************************************************************************)
EXTENDS Naturals, FiniteSets

CONSTANTS
    SiteCount,      \* how many Sites there may be
    Interval,       \* schedule of the CronJob, in request timeouts
    Deadline,       \* activeDeadlineSeconds of its Jobs, in request timeouts
    BackoffLimit,   \* backoffLimit of its Jobs
    MaxChanges      \* how many times something changes or fails in a behaviour

\* A Site is its place in the list of the API server, which is ordered by name.
Sites == 1..SiteCount

\* How a Site takes the request: at once, late but in time, with an HTTP error
\* or no connection, not at all; or there is no such Site.
Healths   == { "prompt", "slow", "failing", "hanging", "absent" }
Answering == { "prompt", "slow" }
Lingering == { "slow", "hanging" }

ASSUME CountAssumption    == SiteCount \in Nat
ASSUME TimesAssumption    == Interval \in Nat \ {0} /\ Deadline \in Nat \ {0}
ASSUME LimitAssumption    == BackoffLimit \in Nat /\ MaxChanges \in Nat

VARIABLES
    health,     \* health[s]: how Site s takes a request now
    sinceTick,  \* time since the schedule last came round
    due,        \* a run is to be started
    phase,      \* the pod of the active Job: "none", "list" (before the List call) or "loop"
    age,        \* age of the active Job
    failures,   \* pods of it that failed
    total,      \* Sites the pod found
    todo,       \* the ones it has not done with yet, the current one included
    request,    \* the current request: "none", "sent", or "over" (its time is up)
    triggered,  \* requests that succeeded
    verdict,    \* how the last Job ended: "none", "complete" or "failed"
    changes,    \* changes of Sites and losses of pods so far
    quiet,      \* history: no Site has changed since the active Job began
    lost,       \* history: pods of the active Job that failed because they were lost
    waited,     \* history: waited[s], for how long s has been waiting for its call
    spoilt      \* history: spoilt[s], Jobs that were disturbed in that time

time == << sinceTick, due >>
job  == << phase, age, failures, total, todo, request, triggered, verdict, quiet, lost >>
wait == << waited, spoilt >>
vars == << health, sinceTick, due, phase, age, failures, total, todo, request, triggered,
           verdict, changes, quiet, lost, waited, spoilt >>

TypeOK ==
    /\ health \in [ Sites -> Healths ]
    /\ sinceTick \in 0..Interval /\ due \in BOOLEAN
    /\ phase \in { "none", "list", "loop" }
    /\ age \in 0..Deadline /\ failures \in 0..BackoffLimit
    /\ total \in 0..SiteCount /\ todo \subseteq Sites /\ Cardinality(todo) <= total
    /\ request \in { "none", "sent", "over" }
    /\ triggered \in 0..total
    /\ verdict \in { "none", "complete", "failed" }
    /\ changes \in 0..MaxChanges
    /\ quiet \in BOOLEAN /\ lost \in 0..failures
    /\ waited \in [ Sites -> Nat ] /\ spoilt \in [ Sites -> 0..changes ]

Active == phase # "none"
Undisturbed == quiet /\ lost = 0

\* How many Sites take a unit of time, and that they leave some of the deadline.
Lingerers == Cardinality({ s \in Sites : health[s] \in Lingering })
Fits == Lingerers < Deadline

\* Whether s may expect its call.
Expects(s) == Fits /\ health[s] \in Answering

\* The Site the pod has come to.
Current == CHOOSE s \in todo : \A r \in todo : s <= r

-----------------------------------------------------------------------------
(* The CronJob and its Jobs (Kubernetes, as config/cron sets them up).     *)

\* The schedule comes round.  concurrencyPolicy Forbid: while a Job is active
\* no other is started; the run that was due begins when it has ended.
Fire ==
    /\ sinceTick = Interval
    /\ sinceTick' = 0 /\ due' = TRUE
    /\ UNCHANGED << health, job, changes, wait >>

BeginJob ==
    /\ due /\ ~Active
    /\ due' = FALSE
    /\ phase' = "list" /\ age' = 0 /\ failures' = 0 /\ quiet' = TRUE /\ lost' = 0
    /\ UNCHANGED << health, sinceTick, total, todo, request, triggered, verdict, changes, wait >>

NothingListed == total' = 0 /\ todo' = {} /\ request' = "none" /\ triggered' = 0

EndJob(v) ==
    /\ phase' = "none" /\ age' = 0 /\ failures' = 0 /\ quiet' = TRUE /\ lost' = 0
    /\ verdict' = v
    /\ NothingListed

BuggyFailPod(losses) ==
    IF failures > BackoffLimit THEN EndJob("failed")
    ELSE /\ failures' = failures + 1 /\ lost' = lost + losses
         /\ phase' = "list"
         /\ NothingListed
         /\ UNCHANGED << age, verdict, quiet >>

\* The pod exits with an error: another one takes its place, up to backoffLimit.
FailPod(losses) ==
    IF failures = BackoffLimit THEN EndJob("failed")
    ELSE /\ failures' = failures + 1 /\ lost' = lost + losses
         /\ phase' = "list"
         /\ NothingListed
         /\ UNCHANGED << age, verdict, quiet >>

\* activeDeadlineSeconds is over: the pod is killed and the Job has failed.
ExceedDeadline ==
    /\ Active /\ age = Deadline
    /\ EndJob("failed")
    /\ UNCHANGED << health, time, changes, wait >>

-----------------------------------------------------------------------------
(* runWPCronOnce.                                                          *)

\* c.List: the Sites there are now; what happens to them later is not noticed.
ListSites ==
    /\ phase = "list"
    /\ todo' = { s \in Sites : health[s] # "absent" }
    /\ total' = Cardinality(todo')
    /\ phase' = "loop"
    /\ UNCHANGED << health, time, age, failures, request, triggered, verdict, quiet, lost,
                    changes, wait >>

BuggyGiveUp(s) == todo' = {} /\ UNCHANGED << triggered, wait >>

\* The request of s failed: it is logged, and the next Site has its turn.
GiveUp(s) == todo' = todo \ {s} /\ UNCHANGED << triggered, wait >>

Trigger(s) ==
    /\ todo' = todo \ {s}
    /\ triggered' = triggered + 1
    /\ waited' = [ waited EXCEPT ![s] = 0 ]
    /\ spoilt' = [ spoilt EXCEPT ![s] = 0 ]

\* The outcome of a request: triggerWPCron takes an HTTP error for a failure.
Outcome(s) == IF health[s] \in Answering THEN Trigger(s) ELSE GiveUp(s)

Calling == phase = "loop" /\ todo # {}

\* A request that is answered, or refused, at once.
CallAtOnce ==
    /\ Calling /\ request = "none"
    /\ health[Current] \notin Lingering
    /\ Outcome(Current)
    /\ UNCHANGED << health, time, phase, age, failures, total, request, verdict, quiet, lost,
                    changes >>

\* One that is not ...
Call ==
    /\ Calling /\ request = "none"
    /\ health[Current] \in Lingering
    /\ request' = "sent"
    /\ UNCHANGED << health, time, phase, age, failures, total, todo, triggered, verdict, quiet,
                    lost, changes, wait >>

\* ... ends with its timeout at the latest.
HangUp ==
    /\ Calling /\ request = "over"
    /\ Outcome(Current)
    /\ request' = "none"
    /\ UNCHANGED << health, time, phase, age, failures, total, verdict, quiet, lost, changes >>

BuggyRunFailed == total > 0 /\ triggered < total

\* cronRunError: there were Sites and none could be triggered.
RunFailed == total > 0 /\ triggered = 0

\* The pod exits with what cronRunError says.
Exit(losses) == IF RunFailed THEN FailPod(losses) ELSE EndJob("complete")

Return ==
    /\ phase = "loop" /\ todo = {}
    /\ Exit(0)
    /\ UNCHANGED << health, time, changes, wait >>

-----------------------------------------------------------------------------
(* Time, and what changes.                                                 *)

\* Time passes when nothing is left to do at this moment.
Tick ==
    /\ sinceTick < Interval
    /\ ~(due /\ ~Active)
    /\ Active => request = "sent" /\ age < Deadline
    /\ sinceTick' = sinceTick + 1
    /\ age' = IF Active THEN age + 1 ELSE age
    /\ request' = IF request = "sent" THEN "over" ELSE request
    /\ waited' = [ s \in Sites |-> IF Expects(s) THEN waited[s] + 1 ELSE 0 ]
    /\ UNCHANGED << health, due, phase, failures, total, todo, triggered, verdict, quiet, lost,
                    changes, spoilt >>

\* A change or a loss: the active Job is no longer what it was, if it was undisturbed.
\* A Site that may no longer expect its call stops waiting, the others wait on.
Disturb ==
    LET spoils == IF Active /\ Undisturbed THEN 1 ELSE 0 IN
    /\ changes < MaxChanges /\ changes' = changes + 1
    /\ waited' = [ s \in Sites |-> IF Expects(s)' THEN waited[s] ELSE 0 ]
    /\ spoilt' = [ s \in Sites |-> IF Expects(s)' THEN spoilt[s] + spoils ELSE 0 ]

\* A Site is created or deleted, its pod comes up, goes down or slows down.
ChangeHealth(s, h) ==
    /\ h # health[s]
    /\ health' = [ health EXCEPT ![s] = h ]
    /\ quiet' = ~Active
    /\ UNCHANGED << time, phase, age, failures, total, todo, request, triggered, verdict, lost >>
    /\ Disturb

Lose == UNCHANGED << health, time >> /\ Disturb

\* The List call fails, or the pod is killed with its node.
LosePod == Lose /\ Active /\ FailPod(1)

\* The pod is told to stop (SIGTERM): the context is cancelled, the requests that are
\* left fail at once, and the run ends in good order, with Sites it has not called.
StopPod == Lose /\ phase = "loop" /\ Exit(1)

-----------------------------------------------------------------------------

Init ==
    /\ health \in [ Sites -> Healths ]
    /\ sinceTick = 0 /\ due = FALSE
    /\ phase = "none" /\ age = 0 /\ failures = 0
    /\ total = 0 /\ todo = {} /\ request = "none" /\ triggered = 0
    /\ verdict = "none"
    /\ changes = 0 /\ quiet = TRUE /\ lost = 0
    /\ waited = [ s \in Sites |-> 0 ] /\ spoilt = [ s \in Sites |-> 0 ]

JobStep == ListSites \/ CallAtOnce \/ Call \/ HangUp \/ Return

Next ==
    \/ Fire \/ BeginJob \/ ExceedDeadline
    \/ JobStep
    \/ Tick
    \/ \E s \in Sites, h \in Healths : ChangeHealth(s, h)
    \/ LosePod \/ StopPod

Spec == Init /\ [][Next]_vars

-----------------------------------------------------------------------------

\* wpcron.go:42 ("WordPress runs overdue events on the next trigger, which is
\* at most one schedule interval away"): a Site that goes on answering, while no
\* more Sites linger than the deadline of a Job has room for, is triggered within
\* an interval and the time the lingering ones take.  Neither a failing Site, nor
\* a hanging one, nor a run that overlaps the next makes it wait longer; a run
\* during which a Site changed, or a pod was lost or stopped, may miss it, and
\* costs it no more than that one interval.
CalledInTime ==
    \A s \in Sites : Expects(s) => waited[s] <= Interval * (1 + spoilt[s]) + Lingerers

\* wpcron.go:43 ("The run only fails when the mechanism itself looks broken"):
\* a Job during which no Site changed fails only if no Site answers at all, if
\* all the pods it may have were lost, or if more Sites linger than the deadline
\* has room for, each of them once for each pod.
AlarmIsSystemic ==
    [][ Active /\ quiet /\ phase' = "none" /\ verdict' = "failed" =>
            \/ \A s \in Sites : health[s] \notin Answering
            \/ lost = BackoffLimit /\ changes' # changes
            \/ Deadline <= (1 + lost) * Lingerers ]_vars
=============================================================================
