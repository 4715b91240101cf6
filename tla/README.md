# Leash in TLA+

Leash runs an untrusted agent under a seccomp user-notification filter and a
Landlock ruleset. A supervisor answers every mediated system call of the
agent's process tree from a policy, has a confined broker process carry out
what it allows, and writes a trace of everything it decided. This directory
holds TLA+ models of that program, the TLC configurations that check them on
small instances, and TLAPS proofs of what they show for every instance. Paths
below are relative to the repository.

    tlc -config Calls.cfg MCNotifyLoop        one run (see PROJECT.json "runs")
    tlapm NotifyLoopProofs.tla                one module's proofs (minutes at most)

## 1. Inventory

| part | source | state | operations | talks to |
|---|---|---|---|---|
| notify loop | `src/supervisor/run.rs` | the notification in hand, the facts read, the prepared paths, the decision | receive, classify, bracketed read, prepare, decide, ask, record, commit, respond, drop, abort | listener (ioctls), child memory, broker (socket), trace writer, operator |
| side-effect broker | `src/supervisor/broker.rs` | token table of pinned paths, token counter | prepare, release, commit open, commit mutation, network, shutdown | supervisor, over one packet socket |
| notify listener | `src/supervisor/notify.rs` | none of its own (a descriptor) | recv, id_valid, send, addfd | kernel |
| facts | `src/supervisor/fact.rs` | none | which arguments are paths, which accesses a call needs | notify loop |
| memory reader | `src/supervisor/mem.rs` | none | read strings and structs of the child page by page | notify loop |
| prompt | `src/supervisor/ask.rs` | bytes typed so far, deadline | one prompt, one answer | notify loop, terminal |
| policy engine | `src/policy/engine.rs`, `host.rs`, `glob.rs` | none | first match in file order, default deny; host and glob matching | notify loop |
| policy loader | `src/policy/mod.rs` | none | parse, expand, validate | session |
| session | `src/supervisor/session.rs`, `src/cli.rs`, `src/supervisor/preflight.rs` | how far the run has got | preflight, policy, run directory, broker, spawn, loop, run_end, report, exit code | everything |
| spawn handshake | `src/supervisor/spawn.rs`, `src/sandbox/child.rs` | bytes and descriptor on a socket pair | fork, filter, handoff, ack, Landlock, boundary byte, exec, reap | session, child |
| recorder | `src/recorder.rs` | run directory, trace file | create, append, sync | session, notify loop |
| report | `src/recorder/report.rs` | none | render a trace | session |
| filter | `src/sandbox/filter.rs` | none | build the BPF program | child |
| Landlock hull | `src/sandbox/landlock.rs` | descriptors of the hierarchies it opened | derive kernel rights from the policy, build the ruleset | session, broker, child |

What is hard here, and what must hold although it happens:

* One supervisor thread serves a whole process tree. Between any two of its
  steps a trapped thread may be killed and its pid reused, a sibling may
  rewrite the memory a pointer argument names, a symlink may be replaced, a
  signal may restart a call. What takes effect must be what was decided, once,
  and must be in the trace before it happens; nothing may be read from a dead
  thread and believed.
* Everything can fail half-way: a trace write, an ioctl, the second operand of
  a rename, the broker before or after it acted, the supervisor itself. The
  run must close rather than open, pins must be given back, no live thread may
  be left without an answer, and nobody may wait for ever.
* A child is set up by two processes that each may die at any step. It must not
  become the agent outside its boundary, neither side may hang, and what is on
  disk must be truthful after a crash or a loss of power.
* A call needs several accesses at once, one prompt covers several of them, host
  rules are matched by address, addresses have two spellings, globs backtrack,
  and a second, coarser layer is derived from the same policy and frozen at the
  start. Decisions must be what the policy means, and the coarse layer must not
  take them away.
* The leaves are small loops on boundaries: byte-sized jumps, pages, caps,
  deadlines in milliseconds, a walk over processes that change under it.

`PROJECT.json` lists these as hazards, each at its line, with the properties
that cover it.

## 2. Modules

| module | models | kind |
|---|---|---|
| `PolicyEngine` | `engine.rs`, the matching half of `host.rs`, `finalize_*` and `resolved_hostname` of `run.rs` | operators |
| `NotifyLoop` | `run.rs`, `broker.rs`, and how they use `notify.rs`, `mem.rs`, `ask.rs`, `fact.rs`, the trace writer | state machine, EXTENDS `PolicyEngine` |
| `Mediation` | what the notify loop promises | abstract specification, implemented by `NotifyLoop` |
| `Report` | `report.rs` | operators over the trace, EXTENDS `NotifyLoop` |
| `MCNotifyLoop` | instances: calls, policies, resolver cache, symlinks | constants, EXTENDS `Report` |
| `NotifyLoopProofs` | typing, recording and failing of `NotifyLoop` | proofs |
| `HandlingProofs` | ids, effects and pins of `NotifyLoop` | proofs, EXTENDS `NotifyLoopProofs` |
| `DecisionProofs` | what the broker performs against what was decided; `NotifyLoop` implements `Mediation` | proofs, EXTENDS `HandlingProofs` |
| `ReportProofs` | `Report` over the traces of `NotifyLoop` | proofs, EXTENDS `HandlingProofs`, `Report` |
| `Session` | `session.rs`, `spawn.rs`, `child.rs`, `preflight.rs`, `recorder.rs`, the run command of `cli.rs` | state machine |
| `SessionProofs` | theorems about `Session` | proofs |
| `Landlock` | `landlock.rs` and the kernel's side of it | operators, EXTENDS `PolicyEngine` |
| `PolicyFile` | `policy/mod.rs`, `host.rs`, `resolve_policy_hosts` of `session.rs`, addresses in `parse_sockaddr` | operators, EXTENDS `Landlock` |
| `MCPolicy` | from a written file to one decided operation, over every small file | state machine over `PolicyFile` |
| `PolicyProofs` | hull, joint decision and residuals for every policy; written network rules for every width of addresses | proofs, EXTENDS `MCPolicy` |
| `Filter` | `filter.rs`, the dispatch of `handle_notification`, the domain of `fs_shape` | state machine: the BPF interpreter |
| `ChildMem` | `mem.rs` | state machine |
| `ProcessTree` | `process_in_tree`, `parent_pid` of `run.rs` | state machine with forks and exits |
| `AskPrompt` | `ask.rs` | state machine with a clock |
| `Glob` | `glob.rs`, `expand` of `policy/mod.rs` | state machine of the two matching loops |
| `MCLeaves` | the five machines above, one per behaviour | instances and properties |
| `LeavesProofs` | `ChildMem`, `ProcessTree`, `AskPrompt` and `Filter` | proofs, EXTENDS `MCLeaves` |
| `GlobProofs` | `Glob`, and the roots `Landlock` cuts from its patterns | proofs, EXTENDS `MCLeaves` |

### NotifyLoop

`pc` names the next step of `handle_notification`; a step ends where another
actor can observe or disturb the supervisor: at an ioctl, a read of the child's
memory, a packet to or from the broker, a prompt, a write.

| code | model |
|---|---|
| poll, `NotifyFd::recv`, dispatch on the syscall | `Recv`, `Classify` |
| POLLHUP and the reaping of the child | `Hangup` |
| `id_valid`, read, `id_valid` | `BracketOpen`, `Gather`, `BracketClose`, `AfterRead` |
| `handle_cross_process`, `process_in_tree` | `WalkTree` |
| `prepare_path` for one or two operands | `PreparePath`, `RecvPrepared`, `RealizationDeny` |
| `evaluate_tracked`, `finalize_operand`, `Prompter` | `Decide`, `PendingAsks`, `Prompt`, `Settle` |
| `TraceWriter::append` | `Record`, `RecordFails` |
| last `id_valid` and the commit | `Commit`, `RecvResult` |
| `Broker::release` | `Release`, `RecvReleased` |
| `send_continue`, `send_error`, `send_success`, `send_addfd`, `tolerate_dead` | `Send` |
| `recv_response`: deadline, closed socket; a failed poll | `AwaitFails`; `PollFails` |
| the error arm of `run_loop`, `abort_run` | `AbortDeny`, `AbortKill`, `AbortClose` |
| `BrokerState` | `BrokerPrepare`, `BrokerRelease`, `BrokerCommit`, `BrokerStops` |
| kernel: a call traps, is cancelled, restarts, runs after CONTINUE, a thread dies | `Trap`, `SignalCancel`, `Retrap`, `ExecuteContinued`, `Die` (external) |
| a sibling writes to the memory of a pending call | `Rewrite` (external) |

A call is its kind, what its scalar registers say, the accesses it needs and
its pointer arguments. A path, a binary or a destination is one value; `Resolve`
gives the identities `openat2` may find for a path, so a symlink replaced
between two steps is a choice of identity. The broker looks a path up twice, for
the target and for the parent of its name (`Lookups`); the two agree unless a
process outside the tree swaps a symlink between them (the fault `outside`). The
identity is the target's, `slot` keeps what the parent and name stand for and
whether that differs from the target (`moved`, a history the code does not keep), and
`Acted` takes one or the other as the operation does: an open, a truncation and a
chmod use the target, an operation on a directory entry (`ByName`) the name, which
may by then also hold a file that was not there (`Replaces`). A
prompt lists the operands and accesses that are asked about and no others.
`Unwritable` holds the paths that are
not UTF-8, whose events the serialiser refuses; the scalar `oversize` marks a
payload that does not fit one packet to the broker. A read from a dead thread
returns any value. `effects` and `prompts` are histories the code does not keep.

`Mediation` says the same without threads, broker or socket: a ledger that grows
by one entry per call in the order of the calls, acts that an entry covers and
that happen once, and no entry after a halt. `NotifyLoop!Monitor` instantiates it
with the trace as the ledger, `effects` as the acts, and halted when the handler
has taken the abort path or is gone; `ImplementsMediation` is its specification.
After a halt no entry is added; an act may still follow that an earlier entry
covers, since a failed poll leaves the broker alive with a commit in its socket.
An operand is compared for what the broker did, but for an entry another process
has moved; what was answered with CONTINUE is marked as delegated, since the kernel
reads its arguments again.

`Report` computes the sections of `report.txt` from the trace: for each family of
facts the keys `render_report` groups by and the decisions it displays.

### Session

`pc` is the step of `run_session` or of the supervisor's side of the handshake,
`child` the step of `enter` in the child. The notify loop appears as what the
session sees of it (`ServeExec`, `ServeCall`, `LoopAborts`, `HangUp`). `up` and
`down` are the bytes on the handshake socket, `listener` who holds the notify
descriptor, which decides whether an `execv` is answered or fails with ENOSYS.
`trace`, `durable` and `torn` are the trace file: what was written, what was
synced, whether the last line is incomplete. `PowerLoss` keeps what was synced
and any prefix of the rest. Mode and host capabilities are chosen in `Init`. A broker
that was ready may die at any time (`lost`); the supervisor learns of it from its
next request. A failed `NotifyFd::new` leaves by a step and an exit of its own
(`unwrapped`), since it is the one failure that reaps nobody.

### PolicyEngine, PolicyFile, Landlock

`evaluate`, `first_match`, `net_matches`, `resolved_hostname`,
`finalize_decision` and `finalize_operand` are operators with the code's
structure; a compiled glob is the set of paths it matches, which is empty for a
pattern no canonical path fits, a compiled host rule the addresses and the name it
matches. `PolicyFile` produces these from what is
written: it rejects a file as `Policy::parse` does, recognises the shapes of a
host, turns mapped blocks into V4 blocks and refuses what cannot be resolved.
Addresses are numbers of two small widths, V6 one bit wider than V4 here, so the
mapped head is one bit and both sides of it are reached. Resolvers may give two
names the same address.

`Landlock` derives the hull, cuts hierarchy roots from patterns, opens the
deepest existing ancestor, masks rights by file type and builds the ruleset; the
kernel's half (which rights an operation needs, where they are looked up, that a
rule belongs to an object and not to a name, which rules it rejects) is marked
external. `MCPolicy` runs `prepare_enforcement`, lets files be replaced and then
asks the engine and the kernel about the same operation.

### The leaves

Each is a machine with one action per branch of the loop it models and, beside
it, what the world may do between two steps: pages disappear (`ChildMem`),
processes fork, exit and are reparented (`ProcessTree`), time passes, signals
come, the answer arrives in pieces or is read by someone else (`AskPrompt`).
`Filter` is `build_filter` with its byte arithmetic and the kernel's interpreter
of it, followed by the dispatch in the supervisor; the program is written as a
function of the counter, so that what stands at a counter can be reasoned about
without running the loop that pushes it. `Glob` runs `compile`,
`match_segments` and `units_match` on real character sequences, and its answer is
compared with a definition that does not backtrack: some way to assign path
components to segments exists. `NotifyLoop` takes from them what the `leaves` run
shows: a read is whole or fails, every notified call has a handler, the prompt
has an answer.

## 3. Runs

| run | states | what it shows |
|---|---|---|
| `calls` | 1 453 000 | Every kind of mediated call, well and ill formed, in an enforce run with an operator and every fault. What the broker does is what was decided on, identity by identity and access by access, and what was asked about was in the prompt, whatever another process swaps under a pinned target (`EffectIsDecided`); it was recorded first (`RecordedBeforeEffect`); pins and the handler's operands agree between requests (`PinsAccounted`); nothing read after a death is recorded (`NoStaleFact`); when the loop polls, nobody received is unanswered (`NoneForgotten`); nothing is let through once something failed (`FailClosed`); each step is one of the monitor (`ImplementsMediation`). |
| `pairs` | 38 000 | Two notifications with failures between them. The loop implements the monitor (`ImplementsMediation`), pins of a dropped call are given back, a call restarted by signals takes effect once (`AtMostOnce`), two calls on one path share a line of the report and it tells a refusal and an effect from each other (`ReportTellsOutcomes`), a trapped thread is answered, failed or killed (`TrappedIsServed`), the run ends with the tree (`RunEnds`). |
| `record_only` | 203 000 | In record-only no well-formed call outside the SR-4 set is refused, `creat` aside (`RecordOnlyAllows`). |
| `session` | 3 100 | A whole run in both modes, every step failing, those of the handshake included: a child leaves durable evidence (`EvidenceOfChild`), the agent only starts inside its boundary (`AgentInsideBoundary`), a failure leaves no zombie but by the exit `unwrapped` (`FailureLeavesNoZombie`), the handshake ends but for a lost descriptor (`HandshakeEnds`), nothing follows a torn line (`NothingAfterTorn`), `run_end` and the report say what happened (`RunEndIsTruthful`, `ReportRestsOnTrace`). |
| `policy` | 1 068 000 | Written network rules decide what they say, however rule and destination spell an address, but for an address of two names (`HostRulesApply`); a run that starts has no network rule without effect (`NoDeadNetRule`); one answer settles a call (`JointDecision`); the hull leaves the decision to the engine, with three named exceptions (`HullCovers`); what an old kernel cannot back is stamped (`MissingBackstopNamed`). |
| `leaves` | 376 000 | The program notifies what the tables say and nothing else (`RoutedAsTabled`), and what it notifies is decided (`NotifiedIsDecided`); a read is exact or an error (`ReadIsExact`); the walk takes no stranger for a member (`TreeWalkIsSound`); a prompt is not timed out early (`TimeoutNotEarly`) and ends whatever signals come (`PromptEnds`); the matcher answers what a pattern means (`MatchIsMeaning`), returns (`Total`), reads double stars unambiguously (`DoubleStarStandsAlone`); tokens stay beneath their directory (`TokenStaysBeneath`) and matches beneath the root given to Landlock (`RootCoversMatches`). |

Six more runs are expected to fail; each shows where the code and a statement of
the repository disagree (section 6).

### Bounds

* Two threads: one to be handled and one to interfere (rewrite its memory, be
  queued behind it, outlive it). The supervisor handles one notification at a
  time, so a third thread adds a second bystander and no new relation.
* `MaxId` 1 or 2 notifications. One is enough for what concerns a single call
  (`calls`, which therefore takes every call and every fault); two are needed for
  what one call leaves to the next (`pairs`), and a restart uses up an id.
  `MaxCalls` is 1 so that the threads, not one thread, use them up.
* `pairs` takes an open, which the broker carries out, and an exec that is asked
  about and goes back to the kernel: few enough for temporal properties. Both
  threads may make the same call on the same path, so that its two decisions meet
  under one key of the report.
* The calls of `calls` hold, on a path with a symlink on the way, an operation of
  each kind: an open, an unlink, a rename. Another process that swaps the symlink
  or creates a rename's destination is among its faults.
* `MaxToken` 2, against u64::MAX in the code: a call pins at most two paths, so
  2 is the smallest counter that can serve one, and with it every second
  prepare meets the wrap.
* `Scribble` holds a denied path and a destination in another state than the
  call's own: what a rewrite could gain. `link` resolves to an allowed or a
  denied path.
* `MaxEvents` 2 in `Session`: the exec event and one more.
* `MCPolicy`: every table of one rule, and of two where the second can be
  reached past the first; addresses of 2 and 3 bits, so that every prefix length
  and one too long occur; resolvers in which two names share an address or do not;
  patterns that match nothing; a tree of six paths whose interesting one is missing, a
  file or a directory; ABIs 2 to 4, on both sides of both thresholds.
* `Filter`: every number up to 450, past the largest tabled one, and x32, foreign
  and null-destination variants; the tables are the real ones.
* `ChildMem`: 3 pages of 2 bytes and caps up to 4: strings that end before, at
  and after a page, a mapping and the cap.
* `ProcessTree`: 5 processes and 3 hops: a chain one longer than the walk. Ids are
  not reused within a walk, as the kernel hands them out in turn.
* `AskPrompt`: 3 half milliseconds, so that a deadline lies inside one of poll's.
* `Glob`: every pattern and path of at most 4 and 3 characters over two letters,
  star, question mark and separator, and joined ones of at most 4 components; two
  double stars with text between and after them need 4.

### Fairness

`NotifyLoop!FairSpec` is weak fairness of the supervisor as a whole, the failure
of a write it attempts included: the process keeps running, and each wait in it
is bounded by a timeout (poll 100 ms, broker reply 30 s, prompt deadline), which
the model has as `AwaitFails` and as the `timed_out` answer. That the prompt's
wait is bounded is `PromptEnds`, with the exception `prompt_stall` shows. Nothing
is assumed of the broker, the operator or the tree. `Session!FairSpec` adds weak
fairness of the child and the broker during their setup, which is code of this
repository and takes a bounded number of steps; the agent need do nothing.
`AskPrompt` assumes that its loop runs and that time passes, not that an answer,
a signal or an error ever comes. `Glob` is a loop of one thread. A terminal state
of a run is a stuttering action that says what may be left, so deadlock stays
checked in every run but `handshake_failure`, where two processes that wait for each
other are what the run shows.

## 4. Proofs

Each theorem holds for every value of the constants its module declares, under
the named assumptions below; the runs show the same definitions on an instance.

| module | theorem | statement |
|---|---|---|
| `NotifyLoopProofs` | `Invariance` | `Spec => []IInv` |
| | `TypeCorrect` | `Spec => []TypeOK` |
| | `RecordPrecedesEffect` | `Spec => []RecordedBeforeEffect` |
| | `NoCallForgotten` | `Spec => []NoneForgotten` |
| | `FailsClosed` | `Spec => FailClosed` |
| `HandlingProofs` | `HandlingInvariance` | `Spec => []HandlingInv` |
| | `AtMostOneEffect` | `Spec => []AtMostOnce` |
| | `NothingStaleRecorded` | `Spec => []NoStaleFact` |
| | `RecordOnlyObserves` | `Spec => []RecordOnlyAllows` |
| | `PinsAreAccounted` | `Spec => []PinsAccounted` |
| `DecisionProofs` | `EffectsAreDecided` | `Spec => []EffectIsDecided` |
| | `LoopImplementsMediation` | `Spec => ImplementsMediation` |
| `ReportProofs` | `ReportTells` | `Spec => []ReportTellsOutcomes` |
| `SessionProofs` | `SessionInvariance` | `Spec => []SessionInv` |
| | `SessionTypeCorrect` | `Spec => []TypeOK` |
| | `ChildLeavesEvidence` | `Spec => []EvidenceOfChild` |
| | `TruthfulEnd` | `Spec => []RunEndIsTruthful` |
| | `ReportRests` | `Spec => []ReportRestsOnTrace` |
| | `NoZombieLeft` | `Spec => []FailureLeavesNoZombie` |
| | `AgentStartsConfined` | `Spec => AgentInsideBoundary` |
| | `TornIsLast` | `Spec => NothingAfterTorn` |
| `PolicyProofs` | `HullIsWide`, `PortsAreWide` | the hull of any policy permits what the engine allows |
| | `HullLeavesDecision` | `Spec => []HullCovers` |
| | `DecidedJointly` | `Spec => []JointDecision` |
| | `GapsAreStamped` | `Spec => []MissingBackstopNamed` |
| | `WrittenHostsDecide` | `Spec => []HostRulesApply` |
| | `NetRulesAreLive` | `Spec => []NoDeadNetRule` |
| `LeavesProofs` | `NoEarlyTimeout` | `Spec => []TimeoutNotEarly` |
| | `TreeWalkSound` | `Spec => []TreeWalkIsSound` |
| | `ReadsAreExact` | `Spec => []ReadIsExact` |
| | `FilterInvariance` | `Spec => []FilterInv` |
| | `SortedAsTabled` | `Spec => []RoutedAsTabled` |
| | `NotifiedDecided` | `Spec => []NotifiedIsDecided` |
| `GlobProofs` | `MatcherInvariance` | `Spec => []MatchInv` |
| | `MatchMeans` | `Spec => []MatchIsMeaning` |
| | `StarsStandAlone` | `Spec => []DoubleStarStandsAlone` |
| | `RootCovers` | `Spec => []RootCoversMatches` |
| | `TokensStayBeneath` | `Spec => []TokenStaysBeneath`, if workspace and home have no metacharacter |

### Assumptions and hypotheses

`NotifyLoop` assumes that a call has as many pointer arguments as its kind
(`CallsAssumption`), that the actions of a policy are verdicts
(`PolicyAssumption`, which the loader enforces), that the configuration has its
types (`ConfigAssumption`), and that the bounds are naturals with at least two
tokens (`BoundAssumption`). The other modules assume the types of their constants
and what makes a bound a bound. `MCPolicy` takes V4 addresses of at least two
bits and a mapped head other than zero, both true of the code's 32 bits and
`0xffff`: the addresses its rules and its resolver name (up to 2 in V4, 6 in V6)
must exist, and the resolver's V6 address 1 must not be a mapped one. `PowersAssumption` is plain
arithmetic, that 2^n doubles up to the width of an address; it is an assumption
because the provers know nothing of `^`. TLC evaluates all of them.

One theorem has a hypothesis besides: `TokensStayBeneath` wants the paths of
workspace and home without `*` and `?`. They are compiled as part of the pattern,
where these are wildcards (section 6).

Where the code breaks its own promise, the statement of a property names the case
instead of a hypothesis excluding it, so that the theorem covers every run:

* `RecordOnlyAllows` names `creat`, which is denied in both modes.
* `EffectIsDecided` and the monitor name an entry under a pinned parent that another
  process has moved, or filled, since it was looked up (`moved`). For these it still
  promises that the recorded identities were granted. For a pinned target and a
  socket it promises the very object in any case. `CommitIsEvaluated` has no
  exception, and `entry_moved` shows it violated.
* `FailureLeavesNoZombie` and `HandshakeEnds` name the return without a reap and the
  lost descriptor, which `handshake_failure` shows.

### The notify loop

`RecordedBeforeEffect` is not inductive: an effect happens in the broker or in
the kernel, several steps after the event was written. `IInv` says who holds a
permission in between:

* `Authority`: a handler past its last check, a commit request in the socket,
  an answer CONTINUE about to be sent, and a thread already let into its call
  each have an event that permits the notification they act for;
* `Socket`: at most one packet is under way and the handler awaits it, so the
  notification a request is for is the current one;
* `Bound`: the thread being handled is held or dead, so its call and its id
  cannot change under the handler;
* `Shape`: what has been read and prepared at each step. It is what typing
  needs: that an operand taken by index exists and was readable.

There is one lemma per action (`TrapStep` ... `BrokerStopsStep`), combined in
`NextInv`. `NoneForgotten` needs `OneHeld` besides (a held notification is the
current one, and a handler that drops a call has seen it dead); `FailClosed`
needs `Failed` (after a failed write the handler is on its way out and no
request is left in the socket).

`HandlingInv` orders the loop in time. `Ids`: ids are handed out once and
received in order, so a queued thread has a larger id than the one in hand.
`Ledger`: nothing is recorded of what was not received, nor of the call in hand
before it is decided. `Once`: a call that can still take effect (queued, to be
restarted, let into the kernel, or with a commit under way) is `Unspent`, under
any id; `AtMostOnce` alone does not exclude that a restarted call has already
happened. `Fresh`: a value read after a death exists only between the read and
the second validity check. `Protocol`, which these need, gives each wait its own
requests and answers.

`PinInv` is the broker's table seen from the handler: it equals the list of
prepared paths but for the answer under way (`Table`), tokens in use differ from
each other and from the next one although the counter wraps (`Distinct`), and a
request names what the handler holds (`Named`, `Operated`). That two tokens are
enough is `NextTokenDiffers` and the number of operands.

`DecisionInv` carries a decision from `Decide` to the commit: `Warrant` says that
while the broker may act, its tokens are those of the pinned identities, each access
they require is granted, and the event with these identities is in the trace;
`Delegation` says the same of what goes back to the kernel. From the token to what
is acted on there are two ways: the pinned target is the one the identity was taken
from, whatever happened to the path; the entry under the pinned parent is the same
one only if both lookups agreed (`Slotted`). `CommitIsDecreed` goes through the three
cases: nothing moved, an entry that moved, an operation that does not go by name.

The refinement needs all of these: a step that grows the trace is the monitor's
decision because ids grow (`Ids`, `Ledger`), a step that grows `effects` is an
act because its entry covers it (`Warrant`, `Delegation`) and it did not happen
before (`Once`), and nothing is recorded after a halt. Every other step is a
stutter or the halt itself.

The report groups events by a key and shows the decisions of a group.
`TellingInv` gives what `ReportTellsOutcomes` needs of the trace: a notification
has one event, and an ask has a typed fact, so it is in a section that is shown.

### Session

`SessionInv` relates three parties: how far the child is at each step of the
supervisor (`InStep`), what lies on the socket between them and who holds the
listener (`Exchanged`), and what is on disk at each step (`Written`, `Closed`,
`Prepared`). None of the properties is inductive without the others: that
`run_end` is truthful needs that the loop ends only with the tree, that the agent
starts inside its boundary needs what its bytes on the socket stand for.

### The policy

`HullIsWide` is not about the instance: it is stated for any policy whose rules
match only beneath their roots (`Rooted`), any file system, any ABI and any set of
replaced files. The argument follows the code: the first rule that allows or may
allow the access is one the hull widens to (`RuleBehind`), its grant has the rights
the access needs under this ABI (`GrantBehind`), the anchor opened for its root is
an ancestor of the path that is still the same object (`AnchorInForce`), and the
masking by file type takes away nothing that is needed there (`AnchorBehind`). The
exceptions are those of `HullCovers`: removal of the very object a rule names, an
object replaced since, port 0. `HullLeavesDecision` applies it to every policy
file of `MCPolicy`, whose globs are shown to be `Rooted`; that `glob.rs` makes them
so is `RootCovers`, below. `JointDecision` is proved for lists of any length from
what `finalize_operand` does with the joined decisions, `MissingBackstopNamed`
from the rule behind the refusal.

`HostRulesApply` says what a written host covers without the loader's machinery:
an address is in a block if its leading bits agree, one by one, and an
IPv4-mapped address is the V4 address it holds. `LeadingBits` shows that this is
equality of the quotients by a power of two, which is what `cidr_contains` computes,
and `BehindHead` that a mapped block of at least the head's length is the V4 block of
the remaining bits. `NormalizedIs`, `BlockMeans`, `LiteralMeans` and `NameMeans` put
this together for each shape of a host (`HostMeans`), `RuleMeans` adds the port, and
`FirstRule` the order of the table. An address of two names is supplied to the engine under the
first (`NameSupplied`), the one case in which the written order is not the order
applied. `NoDeadNetRule` follows because each accepted shape covers some address of
the instance: a block its own address, a name what it resolved to, which the run
refuses to start without (`Accepted`), unless an earlier name has all of it.

### The leaves

`ReadInv`: the bytes kept so far are the child's, none of them is a nul, and the
chunk asked for ends at a page or at the cap. Only then is a short read the end of
a mapping. `WalkSound` and `WalkComplete`: if the process the walk stands at is
in the tree then so is the target, and as long as nothing changed it stands on
every line of parents from the target to the root. `Rounded`: a wait in whole
milliseconds is never shorter than what is left. `TreeWalkIsSound` speaks of lines of parents instead
of a recursive depth, so that it can be proved about.

`FilterInv` says what is known of a call at each counter (`Reached`): past the header
it is native, at the block of a number it is none of the numbers before, inside
sendto's block the halves of the destination loaded so far are zero. Where each
block starts is `Sizes`, what stands at a counter `Program`; both follow the code's
arithmetic, so a distance off by one lands in a neighbouring block and contradicts
what is known there. `NotifiedDecided` then compares the table the program is built
from with the numbers `handle_notification` and `fs_shape` know.

### The matcher

Both loops of `glob.rs` go back to the last star only. That this loses no match is
`MatchInv`: the whole pattern fits the whole text exactly if the rest of the
pattern fits the rest of the text, or the last star remembered can take at least
one more. The lemmas are stated once for a loop over positions 1 to m and 1 to n
with any set of stars and any relation between the others (`Fits`), and used for
components with double stars and for characters with single ones. That a second
star makes the first one's alternatives superfluous is the heart of it: whatever
the earlier star could take more, the later one can take instead. The provers
cannot instantiate induction over an operator, so the inductions run over
sets of numbers (`Climb`), each from a least counterexample. `Split` is given by the
positions of the separators, counted up (`Cuts`, `CutAt`); the lemmas about it say
that a piece is what lies between two neighbouring cuts (`SplitShape`) and that a
text which goes on with a separator starts with the same pieces (`SplitStart`).

`StarsStandAlone` follows from `compile`'s check of runs of stars: two adjacent stars
are part of a run of exactly two that fills its segment. For `RootCovers`
the root is a prefix of the pattern cut at a separator, so its segments are literal,
and a literal segment fits itself only (`LiteralUnits`); `TokensStayBeneath` uses the
same for the directory a token stands for.

### What stays with TLC

Liveness under fairness, which the provers cannot do: `TrappedIsServed`, `RunEnds`,
`HandshakeEnds`, `PromptEnds` and `Total`. Every other property of the passing runs is
a theorem.

## 5. What is left out

* **Kernel interfaces** are modelled from how the code uses them: ids, validity,
  CONTINUE, POLLHUP, WAIT_KILLABLE_RECV, descriptor passing.
* **Residuals the repository documents** (`docs/adr/0021`, `docs/design/escapes.md`)
  are present where they show, and no property excludes them: an `exec` answered
  with CONTINUE is re-read by the kernel, so `EffectIsDecided` speaks of broker
  effects only. A pid reused during the walk over `/proc` that makes an outsider
  look like a member is left out.
* **An outside process** that changes directories while a call is handled is the
  fault `outside` (runs `calls`, `entry_moved`); without it a symlink is replaced
  between two calls on the broker, through `Resolve`, but not within one. Which
  object a name holds is followed from the first lookup to the commit for a swapped
  symlink and for a rename's destination, not for a path rebuilt in any other way.
* **Patterns that match nothing** load and run. `docs/design/policy.md:176` makes
  them a warning of the linter, so no property speaks of them.
* **Arms no call reaches** are left out of `NotifyLoop`: a `sendto` with a null
  destination and the final CONTINUE. That none reaches them is
  `NotifiedIsDecided` and `RoutedAsTabled`.
* **Policies** of `NotifyLoop` are what the loader accepts; `MCPolicy` shows what
  that is.
* **Disk**: the synced bytes of a file survive a loss of power. Directory entries
  are taken to survive as well, although the code does not sync directories.
* **Data**: open flags, `open_how` fields, the bytes of a sockaddr, the syntax of
  TOML and of host names, JSON, the report's layout and header.
* **Preflight probes** are kernel calls; `Session` chooses their outcome.
* **Argument parsing** of `cli.rs` beyond "usage error or a run" has no state.
* **Not modelled**: snapshots (no code yet), the measurement helpers, the crate
  roots.

## 6. Where code and text disagree

With a run that shows it (details and quotations in `PROJECT.json`):

1. The broker looks a path up twice. An operation on a directory entry acts on what
   the second lookup found, while the identity decided and recorded is that of the
   first (`entry_moved`; `broker.rs:624`).
2. A rename replaces a destination created after it was prepared, although the
   policy denies deleting it (`entry_moved`; `broker.rs:846`). With `{ Unlink }` for
   the calls the run shows the first alone, with `{ RenameDoc }` the second, with
   `{ OpenLink }` neither.
3. An argument of one call ends the whole run: a path that is not UTF-8 cannot be
   serialised into its event (`argument_aborts`). With `Calls <- OtherCalls` and
   the values of `Calls.cfg` the same run finds a descriptor number out of range
   (`run.rs:1312`) and a payload larger than a broker packet (`broker.rs:1115`).
4. A rule that allows delete on an exact existing file makes the launch fail:
   `REMOVE_FILE` is not masked for a plain file (`hull_denies`). The run's property
   fails in three more ways once that is mended: a rule on the exact path cannot
   grant removal, which is a right of the parent; a file replaced by rename is no
   longer the object its rule names; port 0 is not among "all ports". `HullCovers`
   names these exceptions.
5. The handshake byte without its descriptor leaves supervisor and child waiting for
   each other (`handshake_failure`; `spawn.rs:156`, against the comment at
   `spawn.rs:147`).
6. When the listener cannot be wrapped, the child is not reaped
   (`handshake_failure`; `spawn.rs:186`, the same comment). With `{"nofd"}` or
   `{"wrap"}` for the faults the run shows one of the two, and with neither the
   property holds.
7. Of two names with one address only the first is ever matched (`shared_names`;
   `run.rs:1344`, against `docs/design/policy.md:106`).
8. The prompt's deadline bounds its poll, not the read after it: when a process
   of the tree takes the answer from the shared terminal, everybody waits
   (`prompt_stall`).

Met while modelling, without a run of their own:

* `creat` is denied in both modes: `fs_shape` (`fact.rs:122`) sends it to
  `mutation_invocation`, which does not know it (`run.rs:371`). `docs/CONTEXT.md:44`
  allows every mediated call in record-only, and `docs/design/syscalls.md:76` lists
  `creat` beside `open`. The run `record_only` has such a call and finds it as soon
  as `RecordOnlyAllows` no longer names it.
* The report lists the first path of a call only, and for a symlink the text it
  stores (`report.rs:134`, `PathField`), where `docs/design/trace.md:159` says that it
  "lists the files touched".
* `run.rs:283` says of `Handled::Dropped` "no event, no response"; a call found
  dead at the last check is dropped after its event was written (`run.rs:824`,
  `run.rs:1310`).
* Case G of `docs/design/notify-loop.md:111` says of the calls pending when the
  supervisor dies that none executes; the broker still serves a commit that was
  in its socket (`broker.rs:541`, `BrokerCommit` after `Crash`).
* `docs/design/cli.md:145` attributes exit code 125 after a `run_end` to the
  child; a failed sync or report after `run_end` gives 125 as well
  (`cli.rs:412`).
* `glob.rs:7` calls `[`, `{` and `!` literals; `compile` rejects them
  (`glob.rs:71`).
* `docs/design/syscalls.md` section 3.4 allows ptrace inside the tree; a member
  whose parent died is reparented and no longer found by the walk over `/proc`
  (`TreeWalkIsSound` promises members only while nothing changes).
* `ask.rs:88` counts an over-long line among the refusals; one whose first 1024
  bytes are a yes and blanks is approved (`ask.rs:199`). What was typed before the
  prompt appeared answers it (`AskPrompt!Init`).
* The report shows an ask without its resolution, and raw events that were
  allowed in no section (`report.rs:192`).
* The fs_truncate residual is stamped for written rules only, although the
  workspace base grants writes as well (`landlock.rs:245`).
* Addresses from the resolver are not normalised (`session.rs:278`), and `::/0`
  does not match a mapped destination, which has become a V4 one.
* The workspace path is compiled as part of a pattern, so a metacharacter in it
  is a wildcard (`policy/mod.rs:350`).

## 7. Plan

Done: every component with logic of its own has a module, the loop has an
abstract specification it implements, each hazard of `PROJECT.json` has a
property or a reason, and every safety property of the passing runs is proved.
What is left to try:

1. `Total` and `PromptEnds` as safety: a measure that each step of the loop
   decreases, as an action property, leaves only the fairness of one thread to TLC.
2. `HullLeavesDecision` with the globs of `Glob` instead of the sets of paths in
   `MCPolicy`: `RootCovers` gives `Rooted` for them, but the two modules have
   different representations of a path.
3. The decoding of open flags and of `open_how`, today data of a call, as operators
   of the kind of `PolicyFile`.
