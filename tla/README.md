# A verification of EFZ

EFZ is a coverage-guided fuzzer for Erlang. This directory holds TLA+ modules
translated from its source (`src/src/*.erl`, the supervisor in `src/priv` and the
Python client in `src/packages/pyefz`), the TLC
configurations that check them on small instances, and proofs that TLAPS
checks for every value of the constants.

- [The system](#the-system): parts, state, interactions, what is hard
- [Modules](#modules): which module models which part, and how
- [What the runs check](#what-the-runs-check): properties, bounds, fairness
- [What is proved](#what-is-proved): invariants, lemmas, argument
- [Disagreements with the documentation](#disagreements-with-the-documentation)
- [Other observations](#other-observations): what the models show and no document denies
- [What is not modelled](#what-is-not-modelled) and [what could follow](#what-could-follow)

`PROJECT.json` lists the same by item: components, runs, the source lines each
definition stands for, the hazards of the code with the properties that cover
them, a mutation of the model for every property, and the theorems.

## The system

One BEAM VM runs one *campaign*: the coordinator `efz_fuzzer` owns the corpus,
the statistics and a single `efz_worker`; the worker picks or makes an input,
runs the target on it through `efz_executor` and `efz_guardian`, and merges the
coverage into what it knows. Around this stand durable stores, optional
mutation providers in operating-system processes of their own, a control
process with a Python client, and an optional supervisor of the whole VM.

```
 pyefz ── control ──┐                       ┌─ corpus store ── file system
                    ├─ efz_fuzzer ─ efz_worker ─ crash / runtime stores
 external supervisor┘   (await,stop)   │  │ └─ mutation plan ── feedback
                                       │  └─ mutation request / session ── provider VM
                                       └─ efz_executor ─ efz_guardian ─ target tree ── coverage map
```

| Component | State | Operations | What is hard | What makes it correct |
|---|---|---|---|---|
| **Execution** (`efz_guardian`, `efz_executor`, `efz_target`) | phase, deadline, living and seen processes, barriers, violations, outcome; mailboxes | admit, owned spawn, trace events, `DOWN`s, delivered barriers, deadlines, verdict | processes die between any two messages; the trace of a spawn can arrive after the death of the spawner; message storms against the clock; caller, coordinator and guardian may die too | a confirmed cleanup leaves nothing alive; a VM is reused only after an unspoiled execution; every call returns; the first reason is reported |
| **Runner admission** (`efz_guardian:run/6`, `efz_executor:run/4`) | registered name, `dirty_runner` persistent term | register, read marker, mark, release | two callers; marker set by one process after the name was freed by the death of another | one execution at a time; none next to leftovers |
| **Coverage integrity and storage** (`efz_cov*`, `efz_coverage`) | map of bits or counters per execution, attachments, pinned identities | attach, hit, seal, close, reuse | concurrent hits, a map reused by the next execution, code loaded under a running target | a hit counts for its own execution, no hit is lost |
| **Corpus store** (`efz_corpus_store`, `efz_fs`, `efz_corpus`) | directory of entries, staging directories, the queue | restore, stage, rename, sync, deduplicate | crash or I/O error between any two calls; several VMs on one directory; what a power loss leaves of unsynced data | an acknowledged entry survives; entries are whole, immutable, and of the right build |
| **Crash and runtime stores** (`efz_crash_store`, `efz_runtime_store`) | lock, representatives, summary | save, retry, read | lock left by a dead writer; representative written, summary not | summary and files agree; nothing is adopted silently |
| **Campaign** (`efz_fuzzer`, `efz_worker`) | mailboxes of both, phase and counters of the worker, waiters, report, last context | turns, verification, stop, await, monitor, benchmark, crash | the worker is deaf while it executes; stop, provider answer, end and crash cross; clients time out and die | the worker neither stalls nor runs two turns; one report, honest and final; every caller is answered |
| **Mutation plan** (`efz_mutation_plan`) | stage cursors, idle visits, provider continuation | next, visit, complete | starvation by skipping stages; resume after an answer | every enumerated variant once; exhausted only when nothing is left |
| **Mutation request and session** (`efz_mutation_request`, `efz_mutation_session`, provider modules) | one guardian per request, or a `gen_server` over a persistent VM: phase, epoch, timers, pending request | request, cancel, recycle, deadlines, process-group cleanup | late replies and timers, a request that waits over a recycle, owner death | one answer per request, after its process group is gone |
| **External supervisor** (`priv/efz_external.py`, `efz_external*`, `c_src`) | journal on disk, generation, quarantine, budgets, deadlines; the worker VM and its launcher | hello, ready, prepare, result, done; record, permit, finish; kill, reap, restart, recover, report | the VM dies at any point, and so may the supervisor, its parent, the launcher and the machine; evidence, end of stream and deadline race | nothing runs before its permission is on disk; what the journal says of a run is true; an input that took its VM down is not run again; the campaign ends |
| **Control and pyefz** (`efz_control*`, `packages/pyefz`) | jobs, provider flag, campaign; in Python the table of pending calls, the write lock, the reader thread | start, stop, await, mutate, cancel, close; timeouts of each | half-written frames, late answers, failures seen by several threads at once, `close` against everything | nobody waits for an answer that cannot come; an answer belongs to its request; after `close` nothing is left |
| **Feedback, stability, instrumentation, recipes, replay, semantic adapters, CLI** | mostly values | pure functions | – | conversions round-trip, merges lose nothing |

Interactions: calls and casts between `gen_server`s (campaign), raw messages,
monitors and trace events (execution), one persistent term (runner), the file
system (stores, journal), sockets and pipes (provider, supervisor, client).

## Modules

Each module's comments name the function an action comes from; `PROJECT.json`
gives the lines. Definitions introduced by a comment `Mutant:` are broken
variants of the one after them: no specification uses them, they show that a
property notices the bug.

### Execution and Guardian

`Execution` is the contract: processes come and go, and at some point a verdict
falls. `clean` is allowed only when nothing is alive and the target kept to the
rules; `retired` promises nothing.

`Guardian` is the protocol that earns the verdict: the caller in
`run_pinned/4`, the guardian's `loop/1`, the coordinator (`coordinate/1`), the
root and its descendants behind their start gates, trace messages, `DOWN`s and
`trace:delivered` barriers. `pstate`, `cstate`, `caller` and `phase` are the
program counters; `seen`, `alive` and the barriers are the guardian's maps. The
messages on their way to the guardian are a set, not a queue: signals of
different senders have no common order, and those of one sender that the code
relies on are ordered by guards. A deadline may expire at any time its loop
looks at the clock. Each target process may do the `Deeds` of the instance
(owned and plain spawn, remote spawn, declaring effects, detaching its
coverage context, changing shared state); a code load of a pinned module comes
from the code server; each of the runner's own processes may die (`Faults`).

### Runner

The VM over several executions and callers: the registered name, the marker,
and what an ended execution left alive. The execution itself is three
outcomes (clean, dirty, death of the guardian), which is what Guardian proves
about it.

### CorpusStore

Virtual machines that share a directory. A publication is one action per call
of the file system, so that a kill, an I/O error (`Aborts`) or a power loss can
fall between any two. A file is `cached` until its fsync; a name is durable
only when its directory was synced; a power loss keeps any subset of what was
not. Assumptions about the file system: a directory sync that reports success
covers what an earlier, failed one did not; an abandoned staging directory is
never read again (restore reports and skips it), so its identity is reused.

### Campaign

The coordinator and the worker with their mailboxes, the request to a provider
and the clients of `await/1`. A campaign is one of the `Modes` of the instance:
what it is configured with and what may end it. An iteration's executions are one step each
(`Executed`, `Verified`). `wire` and `up` carry what coordinator and worker send
each other in order; `Tell` keeps only the latest of consecutive contexts,
which nobody can tell apart. `verify/5` is the one place where a busy worker
looks into its mailbox: it receives a waiting stop and sends it to itself
again, which moves it behind everything that waits.

### MutationSession

The `gen_server` of a persistent mutation VM, one action per message it
handles, with what surrounds it: the process that owns the socket's directory
(`session_directory_owner/2`), the VM (`efz_provider_port`), the launcher that
kills and reaps its process group (`c_src/efz_vm_launcher.c`), and the clients
of open, submit, cancel and close. `s` is the server's map together with its
timers (`deadlines`, `dirTimers`, `startup`, `cleanup`) and the messages it sent
to itself (`notes`); `v` is VM, connection and launcher; `d` is the directory's
owner with what it has sent. Frames of the VM and lines of the port are queues;
between them, and against timers and clients, any order is possible. A frame is
what the protocol expects next, or `junk`. Failure and cleanup
(`begin_failure/2`, `maybe_finish_instance/1` and so on) are functions from
server states to server states, as they are in the code, so that a handler's
action is one expression. `start_vm` is the server's first message unless the
owner was dead before; that case is the variable `orphan`.

Two things the model shows are stated in its properties rather than hidden by
them. A request whose frame cannot be sent is refused and answered again when
the session ends (the exception in `AnsweredOnce`;
`docs/erlamsa-performance.md:31` speaks of one terminal result). A session
whose owner died before its first message starts its VM all the same and is
ended by nobody (the exception in `FailureEnds`).

### External

The supervisor of a campaign that runs in another VM. `s` is the supervisor's
memory: the state of the protocol, why the generation is to end, the run in
flight, the budgets and the quarantine; `pc` is the place inside a handler that
writes to the disk, one place for each file operation, so that a crash falls
between any two. `vm` is the worker VM with its socket (`out`, `in`) and its
launcher (`told` to kill, the evidence `line`). A record of the journal is how
far it has come in memory and on disk (`mem`, `safe`): named, permitted,
finished. `SyncDirectory` makes safe what the record's directory holds, but not
a name that was never synced itself. The worker of `efz_external_worker` asks
for one thing at a time and waits for the answer; whatever it runs may take the
VM down. Deadlines may expire whenever they are armed. `executed` is a history
variable. `Scenarios` are sets of things that may go wrong together.

`age` stands for the list of events of the report: the supervisor asks that
list whether the generation was ever ready, and the list forgets.

An exception that leaves the loop (`Abort`) ends the whole campaign without a
report: an error of the disk, and also a dead worker where the supervisor writes
to it or reads from it before it has looked at the launcher's evidence. The run
in flight then has no verdict until the next start reads the journal;
`AbandonedIsJudged` is what is left of the promise in that case. A launcher that
gets a signal from elsewhere (`"launcher"`) kills its worker and says so; the
supervisor does not look at what it says, and `CrashIsHonest` states the
exception (disagreement 4).

### Control and Client

`Control` is the runtime's control process as its two pipes show it: one loop
that accepts frames, a process for each await, mutation or close, and the ends
of all of these. `Client` is `pyefz.client.Client`: threads of the user and the
reader thread. A step of a thread is what no other thread can see the inside
of: a region under the lock, one write to the pipe, the completion of the
futures it has taken out of the table (`hands`); between taking and completing
anything may happen. `close()` is two calls, `request_stop` and `close`, then
the end of the process and the failure of everything that is left.

Two of the scenarios are about failures inside the handling of failures.
`"foreign"`: the other end is not EFZ's control process, and an error it sends may
not have the form of one; the reader finds that out when it has already taken
the future out of the table, and then nobody completes it (`ReaderLoses`, the
set `Lost`). `"unkillable"`: the process outlives SIGKILL for two seconds, and
the exception leaves `close()` half done (`ReapFails`); it may be called again.
`NobodyStranded` and `CloseEnds` name both exceptions, and nothing else is exempt.

## What the runs check

| Run | Instance | Shows |
|---|---|---|
| `guardian_safe` | root and two more processes, every deed, deaths of caller, coordinator and guardian | `ConfirmedIsQuiet`, `SurvivorsRetireTheVm`, `ReusableIsUnspoiled`, `TargetOutcomeIsObserved`, `NoFalseLoss`, and the refinement `KeepsContract` |
| `guardian_live` | root and one more, owned spawns, messages without end, a sampler, the same deaths | `EveryCallReturns`, `NobodyStuckAtGate`, `SpawnIsAnswered` |
| `runner_busy` | three callers | `OneExecution`, `ReportedOrphansRunAlone`, `LossSeenBeforeAdmission` |
| `runner_reuse` | the same | violates `NoReuseAfterGuardianDeath` (see below) |
| `corpus_store` | two VMs, two inputs, three directories, two builds, both policies | `AckedIsKept`, `WholeOrAbsent`, `EntriesAreImmutable`, `QueueMatchesBuild` |
| `corpus_ancestors` | one VM, one input | violates `AckedSurvivesPowerLoss` |
| `campaign` | one client with two calls, one seed, two iterations; finite, continuous and polled campaigns with provider, quarantine, idle stop, crashes | `OneTurn`, `StopIsPrompt`, `StatusIsHonest`, `WaitersExact`, `ReportIsFinal`, `StopIsObeyed`, `CallersAreAnswered` |
| `session_safe` | three requests, a VM for two each, every fault | `AnsweredOnce`, `NothingLost`, `ConfirmedIsReaped`, `ReapedBeforeTold` |
| `session_live` | two requests, a VM for one each; the VM may be silent or die | `EverybodyIsAnswered`, `FailureEnds` |
| `external_campaign` | two inputs, two generations, two runs, two starts of the supervisor, seven scenarios | `ExecutionIsAuthorized`, `VerdictsMatchHistory`, `PoisonRunsOnce`, `CrashIsHonest`, `AbandonedIsJudged`, `ReplacedWhenReaped`, `CampaignEnds` |
| `external_events` | the same with a report of two events | violates `GivesUpForCause` |
| `client` | two threads, two calls of theirs and `close`, two slots; a slow pipe, errors that cannot be read and a process that cannot be reaped, or a runtime that fails | `NobodyStranded`, `AnswersAreOwn`, `CleanClose`, `CloseEnds` |

Every module states its type invariant `TypeOK`. The runs do not repeat it,
because the proofs below include it for every module that is run; a reader who
changes a module adds it to the configuration first.

**Bounds and why they are enough.** Two descendants suffice in `guardian_safe`
for a parent that dies with its child undiscovered while a third is admitted;
the limit `DescendantLimit` (4096 in the code) is two, so that it is reached.
`OneScenario` (a state constraint of that run) admits one kind of misbehaviour
per execution, and not the deaths of caller and guardian together: combinations
multiply the state space without a new meeting point, and the proofs cover all
of them. `OneDisturbance` does the same for `guardian_live`: the caller dies, or
the guardian does, or the target talks; none of these has fairness, so the
constraint removes no step that must come. Three callers let one own the VM, one be about to and one be dead.
Three directory identities are two published entries and the staging directory
of a race's loser. `StoreStillThere` stops `corpus_store` where the whole
directory was lost, a state from which nothing but a fresh store follows. Two
calls of one client cover the late answer to an abandoned call that meets its
successor. In `session_safe` the third of three requests waits over the
recycling after the second, and one has been answered by the same VM before; in
`session_live` every request but the first meets a recycling. `Faults` is empty
there: what it adds (nonsense from the VM, a killed launcher, an impatient
opener, a dead owner) only adds ways into the cleanup, which deadlines, silence
and the death of the VM reach already. In `external_campaign` two records are
one that an earlier supervisor left and one of the present, or two of one
campaign, the second of which must not be the first one's poison again; two
generations are the one that dies and the one that follows; with a second start
the journal is recovered while the worker of the first supervisor may still
live. The seven scenarios group what can meet: crashes, power, disk and damage;
the end of the parent and of the campaign's time; launchers that cannot reap,
die or find another build; native code and a signal to the launcher; late
answers and a second start; a worker that does not keep to the protocol; the
reproduction of a finding. The model starts the
supervisor again only after one that left no report: after a report nobody
needs to. In `client` the numbers of requests are two for the threads and two
for `close`, and two slots are one less than what two threads and `close` may
want. `OneShape` (a state constraint) lets one thread close, the threads being
alike, and has each operation called either always with a time limit or always
without: it restricts what callers choose, never what the client does once it
is called, so it takes no fair step away. `MaxIterations`, `MaxIdle`,
`MaxExtra`, `SupervisedRuns`, `RestartBudget` and `EventLimit` are small values
of limits that the code has. Symmetry is used in safety runs only, on
identities that are never compared except for equality.

**Deadlock** is not checked: every one of these systems stops legitimately (an
execution is over, a campaign is finished, every caller is dead, a client is closed).

**Fairness.** In Guardian, weak fairness for every runner process that is
runnable, for the delivery of signals and the expiry of deadlines, as the BEAM
scheduler and its timers give; none for the target, which may loop or talk for
ever, and none for faults. In Campaign, weak fairness for the worker's steps
(an execution ends: that is Guardian's `EveryCallReturns`), for the delivery
of its messages and for the provider's end (its request has a deadline and a
cleanup deadline), and strong fairness for the coordinator to take the next
message of the worker and of each client: its mailbox is a queue, so a message
that waits is reached, whatever else keeps arriving. In MutationSession, weak
fairness for the server's handlers, its timers, the directory's owner, and the
launcher, which kills what it is told to; none for the VM's answers. One
assumption is made of the VM: that it ends once its connection is closed (its
loop reads the socket). A close that finds the connection gone neither arms a
deadline nor has the VM killed (`graceful_stop/1` without a socket), so this is
all that ends it there, although `docs/erlamsa-performance.md:36` gives every
shutdown a bound. In External, weak fairness for the supervisor's turn as a
whole and, since its loop looks at everything it watches in each turn, for the
kill, the parent and the evidence one by one; for the deadline of the state it
is in (its clock advances); and for the launcher to kill when told and to
report. Nothing is assumed of the worker, and nothing of the campaign's own
time limit: `CampaignEnds` holds by the deadlines, the budgets and the launcher
alone. In Client, weak fairness for the reader and for what a thread does once
it is in a call, which includes its time limits; none for the runtime, which
may never answer, and none against a process that outlives its signals.

## What is proved

`tlapm` checks the following for arbitrary constants (under each module's
`ASSUME`); the runs check the same formulas on small instances.

**Guardian.** `TypeCorrect` and `BookkeepingHolds` (GuardianProofs), from which
follow `ConfirmedQuiet`, `ReusableUnspoiled`, `TargetOutcomeObserved`,
`NoLossInvented`, `RootWatched`, `OkEarned`, `FirstReasonIsKept`,
`SurvivorsRetire`; and `ContractKept`
(GuardianContractProofs): Guardian implements Execution.

`ConfirmedIsQuiet` is not inductive: it says nothing until the verdict. What
makes it true is that, all along, every living process that the guardian does
not know is announced by something that must be handled before the verdict.
`Bookkeeping` states this in parts. `Identity`: the runner's processes and
messages are consistent with each other. `Tracking`: traces come from real
spawns, what is reported was seen, and `Discoverable`: take any set of unseen
living processes; some member's trace is on its way, or its parent is outside
the set and still to be accounted for (alive to the guardian, or behind an
undelivered barrier). The quantification over sets replaces an induction over
the tree of spawns: were the set of all unseen processes non-empty when the
guardian finds nothing alive and no barrier open, it would have a member with
a trace that the barrier let pass. `Closing`: what each phase has established
of the outcome. `Safe`: the properties themselves.

**Runner.** `OwnershipHolds` is the invariant: the guardian between
registration and end is the registered one; while processes that were reported
live, the marker is set; while lost ones live, the marker is set or the caller
has not returned. From it `OneExecutionHolds`, `ReportedOrphansAlone` and the
action property `LossSeen`.

**Client.** `ClientTypes`, `NobodyIsStranded`, `AnswersAreTheirOwn` and
`CloseIsClean` (ClientProofs), for any number of threads, slots, requests and
any scenario. The argument is in three layers. `Sound`: types, and the numbers
that a `close()` has left. `Served`: a number belongs to one thread, as its request or as
its handle (`Tickets`), so that who gives his own back harms nobody; who works
on futures has taken them out of the table (`Hands`); and what is wanted is
done, in the table, in somebody's hands or, one call at most, `Lost`
(`Custody`). `Honest`: nothing in the pipes, jobs or futures has a number that
was not given yet, and what has the number of a close is of the close; so an answer "ok" to a close can only come
from the step that found the campaign over and no mutation running.

**Campaign.** For any clients, calls, seeds, bounds and modes, `CampaignHolds`
(CampaignProofs) gives `CampaignTyped`, `OneTurnAtATime`, `StopPrompt`,
`StatusHonest`, `WaitersAreExact`, the action property `ReportFinal`, and two
facts no run states: `ReportedRunsNothing` (when the report is in, no execution
runs, and unless the worker died no provider process is left) and
`CallsAreSingle` (a call is in one place only, so it is not noted twice). The
properties count messages or look at one end of a channel; the invariant
`FullInv` says what the mailboxes may hold together, by predicates that a
message appended or taken changes in one way: a mailbox holds a message of a
kind (`In`), at most one (`Single`), none of one kind before one of another
(`Behind`), a message with another one behind it (`Followed`). Lemmas about
`Append`, `Tail` and `RemoveFirst` say how, once, and no step looks at a
position again.

- `TurnInv`: while the campaign runs there is an `iterate` exactly when the
  worker is ready and no request is pending; a request is pending from its
  beginning to the taking of its answer, and has a provider at work or one
  answer in the mailbox, never both; with an execution in progress there is
  neither.
- `StopInv`: there is one stop, on the wire or in the mailbox. Where an
  execution began over a waiting stop (`late`), nothing that could begin the next
  is ahead of it; where it was taken, the campaign is over or waits for its
  provider's cleanup. This is what `verify/5` must restore when it sends the
  stop to itself again: it may go behind every other message because a busy
  worker has neither a turn nor an answer waiting, and must go before the next
  turn.
- `ReportInv`: one report is on its way or in; the worker's `DOWN` is the last
  message of the channel, so a report that was sent is heard first.
- `ContextInv`: the last context that was told, heard or not, is the work in
  progress. When the `DOWN` is heard nothing is on its way any more, and the
  last context told is the one the coordinator has.
- `WaitersInv`, for each client and call: it is on its way in, noted or
  answered, and in one of these places; a caller who is no longer waiting for it
  has a cancel or its own `DOWN` behind the call, so the note cannot outlive
  both. A caller's later call has another token, and no cancel of an earlier one
  takes its note away.

**MutationSession.** `SessionTypes`, `ToldOnce`, `NoRequestLost`,
`ConfirmationIsTrue` and `ToldAfterReaping` (SessionProofs), for any requests,
number of requests per VM and faults. The invariant of `SessionSound` has two
halves. `Instance`: between the start of an instance and the news of its
directory (`Fresh`) there is no port and the VM before it is gone, so the next VM
begins beside nothing; a report of the launcher is true from the moment it is
written until the VM that follows begins; and what is confirmed rests on such a
report. `Ledger`: each request is not asked, held and unanswered, or answered
and not held; the one whose frame could not be sent is the exception; and
whatever VM works on a request, the phase is busy or on the way out and not one
of recycling, so that no VM is started over it. Most of the server's steps are `Mild` (they neither
start an instance nor end the session) and most of these `Quiet` (they owe
nobody more or less): begin_failure/2, maybe_finish_instance/1 and their
callers are shown to be so once, and each handler is a composition of them.

**CorpusStore.** `CustodyHolds` (CorpusProofs) is the invariant, from which
follow `StoreTyped`, `AckedKept`, `EntriesWhole`, `QueueMatches` and the action
property `EntriesStay`. What was acknowledged survives because each step of a
save leaves on disk what the next one relies on, whatever other campaigns do
and wherever power is lost. The parts of `Custody` say so one by one: `Desk`,
the variables of a campaign agree with the place it has reached; `Private`, a
staging directory has one writer and no name until its rename; `Progress`, what
is synced of it at each place; `Shelf`, everything visible has its files synced
and everything durable is visible; `Promises`, an acknowledged entry's name is
durable too (unless the corpus directory itself was lost, the disagreement of
the `corpus_ancestors` run); `Kin`, a strict campaign uses entries of its own
build only.

**External.** For any inputs, budgets, journal size, number of starts and
scenarios, `Invariant` (ExternalProofs) gives `TypeCorrect`,
`ExecutionAuthorized`, `VerdictsTrue`, `PoisonAvoided`, and two facts no run
states: `RunsAreSequential` (of two records of a campaign the earlier one is
final and durable) and the action property `ResultsKept` (a result that is on
disk is never written again). `ReplacedReaped` proves the action property
`ReplacedWhenReaped`. The invariant `FullInv` has three layers.

- `SafeInv`: what the supervisor, its disk and its worker know of each other.
  `ControlInv` ties the place in a handler to the state of the protocol;
  `RecordInv` says for each place how far the record in hand has come in memory
  and on disk, so that a crash there leaves something definite; `VerdictInv`
  says what may be written about it. `PrepareInv`, `AskerInv` and `RunInv`
  follow the one frame that asks for a run and the one that permits it: a worker
  that executes, or is about to, has a record that is authorized and durable.
  `RanInv` is the conclusion, `executed` is within the records whose permission
  survives and which nobody called merely prepared. `EndInv`: evidence is of a
  dead worker only.
- `CampaignInv`: of the present campaign, every record but the one in flight is
  final on disk; of an earlier campaign, every record but its last is.
- `PoisonInv`: an input of this campaign that took its VM down is in the
  quarantine or still in flight; a living worker was told the quarantine, and no
  waiting request asks for a member of it. Of a step the last two layers need
  little, and `Calm` is that little: the worker's life stays as it was, and a
  record leaves flight only when it is final and, if it was poison, put aside.
  `CalmStep` shows it once for the supervisor's steps within its campaign; the
  launch of a generation, the start and the crash are the rest.

`CrashReportsHonest` (`CrashIsHonest`) rests on `CrashInv`, which keeps why a
worker is dead. `AbandonedJudged` (`AbandonedIsJudged`) rests on `JudgedInv`:
once a supervisor has scanned its journal (`Scanned`), every record it found has
a result or is of its own campaign; by `CampaignInv` all but one of these are
final; and the supervisor touches neither its worker nor the run being carried
out, and permits only the run whose record it holds (`VmApart`). The theorem is about the verdict in the journal
as it is read, not about its durability (see the observation on recovery).

Only model-checked: liveness (`EveryCallReturns`, `NobodyStuckAtGate`,
`SpawnIsAnswered`, `StopIsObeyed`, `CallersAreAnswered`, `EverybodyIsAnswered`,
`FailureEnds`, `CampaignEnds`, `CloseEnds`), which rests on fairness and is out of
the prover's reach. Every invariant and every action property that a passing
run checks is proved, from the `ASSUME` of its module alone.

## Disagreements with the documentation

1. **A VM may be reused after a guardian's death** (`runner_reuse`).
   `docs/architecture.md:563` and `docs/execution-isolation.md:120` exclude it.
   The marker is set by the caller after it has handled the guardian's `DOWN`
   (`efz_executor.erl:89`), while the name is free from the death on: another
   caller can be admitted in between, and if the caller died too the marker is
   never set.
2. **An acknowledged entry may go with its directory** (`corpus_ancestors`).
   `docs/corpus.md:98` and `:112` promise that new ancestor directories are
   synced before any success. `efz_fs:ensure_directory/1` syncs the parent only
   in the call that made the directory; after a failure between the two, or in
   a second VM, the directory counts as existing (`efz_fs.erl:102`).
3. **A campaign of many runs takes a crash for a failed start**
   (`external_events`). `docs/p1-01-external-supervisor.md:202` says that a
   native crash, a hard timeout or a dirty result leads to the next generation.
   `run_campaign` goes on only if the list of events of this generation has a
   `ready` (`efz_external.py:612`), and the list keeps the last 256 events
   (`:334`): after that many runs in a generation its first crash ends the
   campaign, with the restart budget unused.
4. **A kill by the launcher may be reported as a native crash** (shown by an
   exception in a property, without a run of its own).
   `docs/p1-01-external-supervisor.md:185-186`: "Launcher SIGKILL records
   `launcher_kill=true` and is never called a native crash." The launcher does
   record it, but the classification (`efz_external.py:575-577`) asks for the
   signal only: where the launcher was signalled from elsewhere, the supervisor
   had not stopped anything, the worker died of signal 9, and its run becomes a
   finding `native_vm_crash` and its input is quarantined. `external_campaign`
   contains the scenario (`"launcher"`). `CrashIsHonest` exempts exactly this
   case; without the second disjunct of its second line TLC shows the trace.
5. **A worker's death may end the campaign** (shown likewise). Line 202 of the
   same document, quoted under 3, leads from a crash to the next generation. A
   worker that dies while the supervisor is about to send to it raises EPIPE
   (`efz_external.py:434`, `:450`), and one that dies with an answer unread
   raises ECONNRESET where its socket is read (`:548`). Neither is caught in the
   loop: `main` prints the error, the campaign is over with its restart budget
   unused, without a report, and the run in flight waits for the next start.
   `GivesUpForCause`, a property of campaigns that end with a report, does not
   cover this; what holds is `AbandonedIsJudged`.

## Other observations

Met while modelling; no run is spent on them, each can be seen by a change of
an instance or of a property that is named here.

- *Campaign.* `docs/architecture.md:120` promises
  `{infrastructure_failure,{worker_down,Reason}}` after the worker's death. A
  `benchmark_snapshot` that reaches the coordinator before the worker's `DOWN`
  makes it call the dead worker (`efz_fuzzer.erl:78`) and end with it, the
  report and the waiters too. The actions `Benchmark` and `BenchmarkFails`
  have it, and the properties of Campaign make the exception explicit.
- *External.* Native code may end the VM outside of a run, too; that has no run
  to be blamed, and ends the generation.
- A new supervisor takes the directory's lock while the worker of a killed one
  may still be alive for as long as its launcher needs; the quarantine is kept
  in memory only, so it starts empty; the bytes of the journal count earlier
  campaigns as well.
- A worker that said `done` with success but whose exit takes longer than the
  deadline counts as `startup_or_idle_timeout`, and the campaign is run again.
- Recovery gives an interrupted record its result and syncs the record's own
  directory, not the one that holds its name: a record that was never permitted
  may still vanish with the next power loss, verdict and all. A result that its
  supervisor had renamed into place, but not synced before it died, is taken as
  it is and not synced either: the next power loss may undo it, and the recovery
  after that gives the run another verdict, `interrupted_unknown`. `mkdir`
  (`efz_external.py:82`) has the window of disagreement 2.
- *Control and client.* An error that is not of the form
  `{"code", "message"}` makes `remote_error` raise (`errors.py:57-62`) after the
  reader took the future out of the table (`client.py:239`, `:245`):
  `_fail_pending` cannot find it, and a call without a time limit waits for
  ever, even after `close()`. `efz_control` sends no such error; another runtime
  might.
- When the process outlives SIGKILL by two seconds, `TimeoutExpired` leaves
  `close()` (`client.py:448`): it is no `EFZError`, `_closed` is not set, and
  pending calls are failed only by the end of the pipe or by another `close()`
  (`packages/pyefz/README.md:179-183` says that it reaps its process).
- A mutation whose `result(timeout)` expired is no longer
  in the table; a second `result()` without a time limit waits for ever, even
  after `close()` (the exception in `CloseEnds`). `result` may raise a bare
  `TimeoutError` when answer and deadline cross, where `packages/pyefz/README.md:189` says
  that all errors inherit `EFZError`.
- A frame that was given up half-written is followed by the next thread's frame
  and makes the runtime end; `close()` needs one of the 64 slots; when its
  `request_stop` takes more than a second the graceful part is left out.
- A mutation job that dies leaves `provider_busy` set (`efz_control.erl:82`), so
  that every later one is refused; an await that is shut down by a close may
  go without its answer, which the end of the pipe then gives.

## What is not modelled

The disposable mutation request, the mutation plan, the coverage map and its
idle publication, the crash store and the runtime store are listed in
`PROJECT.json` as `not_modelled` or `partly`, with their hazards. Left out for
good:

- the contents of coverage: instrumentation, edge identities, signature
  quality. They are transformations of code, with no interleaving;
- the mutators themselves (bytes, terms, dictionaries, grammars): pure
  functions of a random state, tested by example in the repository;
- encodings of terms, JSON, progress lines, build scripts, container set-up;
- statistics that no decision reads;
- memory and time as quantities. A deadline is an action that may happen once
  its start has; a heap or queue limit is an event of the environment.

Limits of what is modelled:

- Guardian: a trace session delivers per process in order, a delivered barrier
  means every earlier trace of that process has arrived (the documented meaning
  of `trace:delivered/2`). Peer nodes, ports and timers that the target opens are
  represented by the violation they lead to.
- CorpusStore: a file system that makes a rename durable at the latest at the
  next sync of its directory, and loses unsynced content at a power loss; single
  faults of a disk that returns wrong data are outside.
- MutationSession: the checks on the contents of frames, statistics and
  timings; the worker's side of a persistent session (who owns it, and what it
  reports of its end); an `inet:setopts` that fails on a socket whose peer is
  there, which the code asserts not to happen. The directory's deadline of zero
  that follows the owner's early death may fire late in the model.
- Campaign: the executions and the provider are their answers; that an answer
  comes is what Guardian's liveness shows for the first, and
  `EverybodyIsAnswered` for a provider that is a session.
- External: the contents of findings, configurations and recipes, and the
  checks of their digests, beyond whole or damaged; the system calls of the
  launcher one by one. A record takes one unit of the journal's bytes.
- Control and Client: the contents of requests and answers, the runtime's
  start and version handshake, and the pump of its standard error. A deadline
  may expire at any point where the code looks at it.

## What could follow

In the order of what it would add:

| Modules | Abstract specification | Question |
|---|---|---|
| MutationRequest, the worker's side of a session (`efz_worker:close_provider_session`) | the provider as Campaign uses it: one answer for each request, none after cancellation | does Campaign's assumption on its provider hold of both forms of it |
| CrashStore, RuntimeStore | an occurrence counter | does a summary ever point at a missing representative; does a retry count once |
| CoverageBitmap, Feedback | a set of hits for each execution | do hits belong to their execution when the map is sealed and used again |
| MutationPlan | a fair cycle over the stages | does an idle sweep end, and is every variant tried |

All modules keep recursion out (recursive functions and folds only), so that
they can be proved about.
