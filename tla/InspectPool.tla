---------------------------- MODULE InspectPool ----------------------------
(***************************************************************************)
(* Inspecting the modules of an index batch for assembly: inspectModules,  *)
(* inspectIndexedModule, doHTTPRequest and the scan state that one report  *)
(* hands to the next run of cmd/plan9asmdiscover.                          *)
(*                                                                         *)
(* A feeder goroutine sends the modules to a pool of workers over the      *)
(* unbuffered channel tasks.  A worker asks the module proxy for the       *)
(* indexed version, and when that has assembly for the latest one, then    *)
(* reports on three unbuffered channels to the collecting goroutine.  The  *)
(* feeder closes these once every worker is done.  A send on an unbuffered *)
(* channel and its receive are one action.                                 *)
(***************************************************************************)
EXTENDS Integers, Sequences, FiniteSets

CONSTANTS
  Workers,       \* worker goroutines
  Modules,       \* module paths in the batch
  Indexed,       \* the version the index names
  Newer,         \* a later version, the latest one of some modules or yet to come
  HTTPAttempts,  \* httpAttempts
  MaxRuns        \* bound: runs of the command over the batch

Versions == {Indexed, Newer}
ModuleVersions == Modules \X Versions

ASSUME WorkersAssumption == IsFiniteSet(Workers) /\ Workers # {}  \* validateConfig
ASSUME ModulesAssumption == Modules # {} /\ Indexed # Newer /\ "none" \notin Versions /\ "error" \notin Versions
ASSUME BoundsAssumption == HTTPAttempts \in Nat \ {0} /\ MaxRuns \in Nat \ {0}

Idle == "idle"
Channels == {"results", "errorsOut", "completed"}

\* What the collector selects on until it sees it closed.
SelectedOutcomes == {"results", "errorsOut"}  \* mutant: completed comes later
Selected == Channels

VARIABLES
  hasAsm,      \* module versions that contain assembly
  latest,      \* the proxy's @latest of every module
  run,         \* runs started
  seen,        \* versions loaded from earlier reports (-seen-report)
  pending,     \* modules not yet sent to a worker
  feeder,      \* "feed", "wait" (tasks closed) or "closed" (outputs closed)
  pc,          \* of each worker
  task,        \* module of each worker
  attempt,     \* attempts for the request under way, per worker
  toComplete,  \* versions the worker has yet to send on completed
  outcome,     \* what it sends afterwards: "none", "error" or a version
  resolved,    \* the answer of @latest the worker holds
  open,        \* channels the collector still selects on
  matched, failures, scanned,  \* the collector's results
  done,        \* inspectModules has returned
  answered,    \* history: versions @latest has named in this run
  inspected    \* history: versions whose ZIP directory has been read

server  == <<hasAsm, latest>>
workers == <<pc, task, attempt, toComplete, outcome, resolved>>
history == <<answered, inspected>>
results == <<matched, failures, scanned>>
vars == <<server, run, seen, pending, feeder, workers, open, results, done, history>>

-----------------------------------------------------------------------------
(***************************************************************************)
(* The feeder.  It sends the modules by path; any order is allowed here,   *)
(* since the outcome for a module depends on that module alone.            *)
(***************************************************************************)
Take(w) ==
  /\ feeder = "feed"
  /\ pc[w] = Idle
  /\ \E m \in pending :
       /\ pending' = pending \ {m}
       /\ task' = [task EXCEPT ![w] = m]
  /\ pc' = [pc EXCEPT ![w] = "zip"]
  /\ attempt' = [attempt EXCEPT ![w] = 1]
  /\ toComplete' = [toComplete EXCEPT ![w] = {}]
  /\ outcome' = [outcome EXCEPT ![w] = "none"]
  /\ resolved' = [resolved EXCEPT ![w] = Indexed]
  /\ UNCHANGED <<server, run, seen, feeder, open, results, done, history>>

CloseTasks ==
  /\ feeder = "feed"
  /\ pending = {}
  /\ feeder' = "wait"
  /\ UNCHANGED <<server, run, seen, pending, workers, open, results, done, history>>

\* A worker finds tasks closed and ends (wg.Done).
Exit(w) ==
  /\ feeder = "wait"
  /\ pc[w] = Idle
  /\ pc' = [pc EXCEPT ![w] = "exit"]
  /\ UNCHANGED <<server, run, seen, pending, feeder, task, attempt, toComplete, outcome,
                 resolved, open, results, done, history>>

\* wg.Wait returns; the three output channels are closed.
AllExitedOnce == \E w \in Workers : pc[w] = "exit"  \* mutant: one Done is enough
AllExited == \A w \in Workers : pc[w] = "exit"

CloseOutputs ==
  /\ feeder = "wait"
  /\ AllExited
  /\ feeder' = "closed"
  /\ UNCHANGED <<server, run, seen, pending, workers, open, results, done, history>>

-----------------------------------------------------------------------------
(***************************************************************************)
(* The requests of a worker.  Each may fail for good (a 404, a ZIP that is *)
(* too large or cannot be read) or transiently, and is tried again then.   *)
(***************************************************************************)
Asking(w) == pc[w] \in {"zip", "latest", "zipLatest"}

Become(w, next, complete, out) ==
  /\ pc' = [pc EXCEPT ![w] = next]
  /\ attempt' = [attempt EXCEPT ![w] = 1]
  /\ toComplete' = [toComplete EXCEPT ![w] = complete]
  /\ outcome' = [outcome EXCEPT ![w] = out]
  /\ UNCHANGED task

AttemptsUnbounded(w) == attempt[w] > HTTPAttempts  \* mutant: one attempt too many
NoAttemptLeft(w) == attempt[w] = HTTPAttempts

\* A transient status, a timeout or a lost connection: doHTTPRequest waits
\* and asks again.
Retry(w) ==
  /\ Asking(w)
  /\ ~NoAttemptLeft(w)
  /\ attempt' = [attempt EXCEPT ![w] = @ + 1]
  /\ UNCHANGED <<server, run, seen, pending, feeder, pc, task, toComplete, outcome,
                 resolved, open, results, done, history>>

FailureForgotten == "none"  \* mutant: the error is not sent
FailureOutcome == "error"

\* The request fails: the versions inspected so far are still completed.
RequestFails(w) ==
  /\ Asking(w)
  /\ Become(w, "send", toComplete[w], FailureOutcome)
  /\ UNCHANGED <<server, run, seen, pending, feeder, resolved, open, results, done, history>>

\* inspectModuleVersion of the indexed version.
InspectedTooSoon(w) == {<<task[w], Indexed>>, <<task[w], latest[task[w]]>>}  \* mutant
InspectedIndexed(w) == {<<task[w], Indexed>>}

InspectIndexed(w) ==
  /\ pc[w] = "zip"
  /\ inspected' = inspected \cup {<<task[w], Indexed>>}
  /\ Become(w, IF <<task[w], Indexed>> \in hasAsm THEN "latest" ELSE "send",
            InspectedIndexed(w), "none")
  /\ UNCHANGED <<server, run, seen, pending, feeder, resolved, open, results, done, answered>>

\* resolveLatest: the indexed version is the latest, or another is.
ResolveLatest(w) ==
  /\ pc[w] = "latest"
  /\ LET version == latest[task[w]]
     IN /\ resolved' = [resolved EXCEPT ![w] = version]
        /\ answered' = answered \cup {<<task[w], version>>}
        /\ IF version = Indexed
           THEN Become(w, "send", toComplete[w], Indexed)
           ELSE Become(w, "zipLatest", toComplete[w], "none")
  /\ UNCHANGED <<server, run, seen, pending, feeder, open, results, done, inspected>>

MatchedIndexed(w) == Indexed  \* mutant: the indexed version is reported
MatchedVersion(w) == resolved[w]

InspectLatest(w) ==
  /\ pc[w] = "zipLatest"
  /\ LET mv == <<task[w], resolved[w]>>
     IN /\ inspected' = inspected \cup {mv}
        /\ Become(w, "send", toComplete[w] \cup {mv},
                  IF mv \in hasAsm THEN MatchedVersion(w) ELSE "none")
  /\ UNCHANGED <<server, run, seen, pending, feeder, resolved, open, results, done, answered>>

\* A version of the module is published while the command runs.  What a version
\* holds does not change.
Publish(m) ==
  /\ latest[m] = Indexed
  /\ latest' = [latest EXCEPT ![m] = Newer]
  /\ UNCHANGED <<hasAsm, run, seen, pending, feeder, workers, open, results, done, history>>

-----------------------------------------------------------------------------
(***************************************************************************)
(* Workers send, the collector receives: first what is completed, then the *)
(* error or the match.                                                     *)
(***************************************************************************)
SendCompleted(w) ==
  /\ pc[w] = "send"
  /\ "completed" \in open
  /\ \E mv \in toComplete[w] :
       /\ toComplete' = [toComplete EXCEPT ![w] = @ \ {mv}]
       /\ scanned' = scanned \cup {mv}
  /\ UNCHANGED <<server, run, seen, pending, feeder, pc, task, attempt, outcome,
                 resolved, open, matched, failures, done, history>>

\* The worker is idle again.
Deliver(w) ==
  /\ pc' = [pc EXCEPT ![w] = Idle]
  /\ UNCHANGED <<server, run, seen, pending, feeder, task, attempt, toComplete, outcome,
                 resolved, open, scanned, done, history>>

SendError(w) ==
  /\ pc[w] = "send" /\ toComplete[w] = {} /\ outcome[w] = "error"
  /\ "errorsOut" \in open
  /\ failures' = failures \cup {<<task[w], Indexed>>}
  /\ UNCHANGED matched
  /\ Deliver(w)

SendResult(w) ==
  /\ pc[w] = "send" /\ toComplete[w] = {} /\ outcome[w] \in Versions
  /\ "results" \in open
  /\ matched' = matched \cup {<<task[w], outcome[w]>>}
  /\ UNCHANGED failures
  /\ Deliver(w)

SendNothing(w) ==
  /\ pc[w] = "send" /\ toComplete[w] = {} /\ outcome[w] = "none"
  /\ UNCHANGED <<matched, failures>>
  /\ Deliver(w)

\* The collector finds a channel closed and stops selecting on it.
SeeClosed(ch) ==
  /\ feeder = "closed"
  /\ ch \in open
  /\ open' = open \ {ch}
  /\ UNCHANGED <<server, run, seen, pending, feeder, workers, results, done, history>>

CollectorReturns ==
  /\ open = {}
  /\ ~done
  /\ done' = TRUE
  /\ UNCHANGED <<server, run, seen, pending, feeder, workers, open, results, history>>

-----------------------------------------------------------------------------
(***************************************************************************)
(* A later run over the same range: the reports so far are loaded and      *)
(* filterPreviouslyScanned drops what they call scanned or matched.        *)
(***************************************************************************)
NextSeen == seen \cup scanned \cup matched

NextRun ==
  /\ done
  /\ run < MaxRuns
  /\ run' = run + 1
  /\ seen' = NextSeen
  /\ pending' = {m \in Modules : <<m, Indexed>> \notin NextSeen}
  /\ feeder' = "feed"
  /\ pc' = [w \in Workers |-> Idle]
  /\ open' = Selected
  /\ matched' = {} /\ failures' = {} /\ scanned' = {}
  /\ done' = FALSE
  /\ answered' = {}
  /\ UNCHANGED <<server, task, attempt, toComplete, outcome, resolved, inspected>>

Init ==
  /\ hasAsm \in SUBSET ModuleVersions
  /\ latest \in [Modules -> Versions]
  /\ run = 1
  /\ seen = {}
  /\ pending = Modules
  /\ feeder = "feed"
  /\ pc = [w \in Workers |-> Idle]
  /\ task = [w \in Workers |-> CHOOSE m \in Modules : TRUE]
  /\ attempt = [w \in Workers |-> 1]
  /\ toComplete = [w \in Workers |-> {}]
  /\ outcome = [w \in Workers |-> "none"]
  /\ resolved = [w \in Workers |-> Indexed]
  /\ open = Selected
  /\ matched = {} /\ failures = {} /\ scanned = {}
  /\ done = FALSE
  /\ inspected = {} /\ answered = {}

Worker(w) == \/ Take(w) \/ Exit(w) \/ InspectIndexed(w) \/ ResolveLatest(w)
             \/ InspectLatest(w) \/ SendCompleted(w) \/ SendError(w) \/ SendResult(w)
             \/ SendNothing(w)

Feeder == CloseTasks \/ CloseOutputs

Collector == CollectorReturns \/ \E ch \in Channels : SeeClosed(ch)

Fault(w) == Retry(w) \/ RequestFails(w)

Next == \/ \E w \in Workers : Worker(w) \/ Fault(w)
        \/ Feeder \/ Collector \/ NextRun
        \/ \E m \in Modules : Publish(m)

Spec == Init /\ [][Next]_vars

\* The Go scheduler runs every goroutine that is ready, and a request comes
\* to an end one way or the other (the client has a timeout).
FairSpec == /\ Spec
            /\ \A w \in Workers : WF_vars(Worker(w) \/ Fault(w))
            /\ WF_vars(Feeder) /\ WF_vars(Collector)

-----------------------------------------------------------------------------
PCs == {Idle, "zip", "latest", "zipLatest", "send", "exit"}

\* Type invariant of the pool.
PoolTypeOK ==
  /\ hasAsm \subseteq ModuleVersions /\ latest \in [Modules -> Versions]
  /\ run \in Nat /\ seen \subseteq ModuleVersions /\ pending \subseteq Modules
  /\ feeder \in {"feed", "wait", "closed"}
  /\ pc \in [Workers -> PCs]
  /\ task \in [Workers -> Modules]
  /\ attempt \in [Workers -> 1..HTTPAttempts]
  /\ toComplete \in [Workers -> SUBSET ModuleVersions]
  /\ outcome \in [Workers -> Versions \cup {"none", "error"}]
  /\ resolved \in [Workers -> Versions]
  /\ open \subseteq Channels
  /\ matched \subseteq ModuleVersions /\ failures \subseteq ModuleVersions
  /\ scanned \subseteq ModuleVersions
  /\ done \in BOOLEAN
  /\ inspected \subseteq ModuleVersions /\ answered \subseteq ModuleVersions

\* "scanned records every successfully inspected exact module@version": a
\* later run may skip what a report calls scanned or matched, because its ZIP
\* has been read.
ScannedWereInspected == scanned \cup matched \cup seen \subseteq inspected

\* A match has assembly, and is the version that @latest named when the worker
\* asked for it in this run, although a newer one may be published between the
\* three requests for a module or before its report.
MatchesAreLatest == matched \subseteq hasAsm \cap answered

\* When inspectModules returns, every module of the batch has been accounted
\* for: its indexed version was scanned in this run or before, or it is
\* among the failures.  And whatever has been read is called scanned, also when
\* a later request for the same module failed.  Nothing is lost when the
\* channels are closed.
NothingLost ==
  done => /\ \A m \in Modules : <<m, Indexed>> \in scanned \cup seen \cup failures
          /\ inspected \subseteq scanned \cup seen

\* A module without a failure has been decided: when its indexed version has
\* assembly, @latest has been asked, and the report of the run names the version
\* it answered if that has assembly.
MatchesComplete ==
  done => \A m \in Modules :
            <<m, Indexed>> \in (scanned \ failures) \cap hasAsm
            => \E v \in Versions : /\ <<m, v>> \in answered
                                   /\ <<m, v>> \in hasAsm => <<m, v>> \in matched

\* Every run comes to an end: no goroutine waits for another for ever.
RunsEnd == (~done) ~> done

=============================================================================
