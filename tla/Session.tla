------------------------------- MODULE Session -------------------------------
(***************************************************************************)
(* One run of leash from preflight to exit code (supervisor/session.rs,    *)
(* cli.rs dispatch_run): the run directory and the trace on disk           *)
(* (recorder.rs), the start of the broker (broker.rs), and the spawn       *)
(* handshake between the supervisor (supervisor/spawn.rs) and the child    *)
(* that confines itself before it becomes the agent (sandbox/child.rs).    *)
(*                                                                         *)
(* The notify loop is a module of its own (NotifyLoop); here it appears as *)
(* what the session sees of it: events appended to the trace, an end when  *)
(* the tree is gone, an abort.  Every step of the supervisor may fail, the *)
(* child may die at any point of its setup, the supervisor may be killed,  *)
(* and the machine may lose power.                                         *)
(***************************************************************************)
EXTENDS Naturals, Sequences

CONSTANTS
    RunModes,   \* the modes a run may have: "enforce", "record_only"
    Faults,     \* the faults that may happen
    MaxEvents   \* bound: events of the notify loop in a run

\* "setup": the arguments, a host capability, the policy, a resolver, the
\* ruleset, the exec lookup or the fork fail;
\* "io": a file operation fails, part of the bytes may be written;
\* "broker": the broker does not come up; "child": the child fails a step of
\* its setup or is killed in it; "nofd": the handshake byte arrives without
\* the descriptor (no free slot in the supervisor's table); "wrap":
\* NotifyFd::new fails; "loop": the notify loop fails; "crash": the
\* supervisor is killed; "power": the machine stops.
FaultKinds == {"setup", "io", "broker", "child", "nofd", "wrap", "loop",
               "crash", "power"}

\* What preflight probes for: the kernel version, user notification,
\* WAIT_KILLABLE_RECV, ADDFD_FLAG_SEND and the Landlock ABI.
Capabilities == {"kernel", "unotify", "wait_killable_recv", "addfd_send",
                 "landlock"}

ASSUME SessionAssumption ==
    /\ RunModes \subseteq {"enforce", "record_only"}
    /\ Faults \subseteq FaultKinds
    /\ MaxEvents \in Nat \ {0}

VARIABLES
    setting,   \* the mode of the run and the capabilities of the host
    pc,        \* the step of run_session
    exit,      \* how the process ended: none, usage (2), failure (125),
               \* unwrapped (125 too, after NotifyFd::new failed), passed, killed
    status,    \* the child's wait status
    \* ---- the child and the handshake ----
    child,     \* its state; zombie until it is reaped
    landlocked,\* it restricted itself
    kids,      \* other processes of the tree are alive
    forked,    \* history: a child was produced
    up, down,  \* bytes on the handshake socket, to and from the supervisor
    listener,  \* who holds the notify fd: the child, the message, the supervisor
    \* ---- broker ----
    broker,    \* its state; lost: it died after it had reported Ready
    \* ---- files of the run directory ----
    meta, trace, durable, torn, report

supervisorVars == <<setting, pc, exit>>
childVars == <<status, child, landlocked, kids, forked>>
socketVars == <<up, down, listener>>
fileVars == <<meta, trace, durable, torn, report>>
vars == <<supervisorVars, childVars, socketVars, broker, fileVars>>

RunMode == setting.mode

Setup == {"start", "filtered", "sent", "acked", "confined"}
Handshake == {"recv_fd", "ack", "boundary", "wrap", "reap"}
Ended == {"exited", "off"}

\* Each side sees the other's end of the handshake socket closed once the
\* process that holds it is gone or past it.
SupervisorEndOpen == pc \in Handshake
ChildEndOpen == child \in Setup

May(fault) == fault \in Faults

-----------------------------------------------------------------------------
(***************************************************************************)
(* run_session before the child exists.                                    *)
(***************************************************************************)

Init ==
    /\ setting \in
          [mode : RunModes,
           caps : IF May("setup") THEN SUBSET Capabilities ELSE {Capabilities}]
    /\ pc = "parse" /\ exit = "none" /\ status = "none"
    /\ child = "none" /\ landlocked = FALSE /\ kids = FALSE /\ forked = FALSE
    /\ up = <<>> /\ down = <<>> /\ listener = {}
    /\ broker = "none"
    /\ meta = FALSE /\ trace = <<>> /\ durable = 0 /\ torn = FALSE
    /\ report = "none"

\* cli::run: a usage error, a workspace or a state root that cannot be
\* determined, or a state root inside the workspace.
Parse ==
    /\ pc = "parse"
    /\ \/ pc' = "preflight" /\ UNCHANGED exit
       \/ May("setup") /\ pc' = "exited" /\ exit' \in {"usage", "failure"}
    /\ UNCHANGED <<setting, childVars, socketVars, broker, fileVars>>

\* preflight::evaluate: only an enforce run needs Landlock.
Required ==
    IF RunMode = "enforce" THEN Capabilities ELSE Capabilities \ {"landlock"}

Preflight ==
    /\ pc = "preflight"
    /\ pc' = IF Required \subseteq setting.caps THEN "prepare" ELSE "fail"
    /\ UNCHANGED <<setting, exit, childVars, socketVars, broker, fileVars>>

\* prepare_enforcement and resolve_policy_hosts: a record-only run needs
\* nothing; an enforce run loads its policy, resolves its exact hosts and
\* builds the ruleset, and leaves nothing behind when one of them fails.
PrepareEnforcement ==
    /\ pc = "prepare"
    /\ \/ pc' = "rundir"
       \/ RunMode = "enforce" /\ May("setup") /\ pc' = "fail"
    /\ UNCHANGED <<setting, exit, childVars, socketVars, broker, fileVars>>

\* RunDir::create with its synced meta.json, then trace_writer.
CreateRunDir ==
    /\ pc = "rundir"
    /\ \/ pc' = "start" /\ meta' = TRUE
       \/ May("io") /\ pc' = "fail" /\ meta' \in BOOLEAN
    /\ UNCHANGED <<setting, exit, childVars, socketVars, broker, trace, durable, torn, report>>

\* TraceWriter::append: the line lands whole, or the write fails and what it
\* left is a torn line at most.
AppendEvent(event, next) ==
    \/ trace' = Append(trace, event) /\ pc' = next /\ UNCHANGED torn
    \/ May("io") /\ pc' = "fail" /\ torn' \in BOOLEAN /\ UNCHANGED trace

\* TraceWriter::sync
Sync(next) ==
    \/ durable' = Len(trace) /\ pc' = next
    \/ May("io") /\ pc' = "fail" /\ UNCHANGED durable

AppendStart ==
    /\ pc = "start"
    /\ AppendEvent("run_start", "sync_start")
    /\ UNCHANGED <<setting, exit, childVars, socketVars, broker, meta, durable, report>>

\* Mutant of SyncStart: the first event stays in the page cache.
SyncStartSkipped ==
    /\ pc = "sync_start"
    /\ pc' = IF RunMode = "enforce" THEN "broker" ELSE "fork"
    /\ UNCHANGED <<setting, exit, childVars, socketVars, broker, fileVars>>

SyncStart ==
    /\ pc = "sync_start"
    /\ Sync(IF RunMode = "enforce" THEN "broker" ELSE "fork")
    /\ UNCHANGED <<setting, exit, childVars, socketVars, broker, meta, trace, torn, report>>

\* Broker::spawn: fork it and wait for Ready, an error, the end of its socket
\* or the deadline, after which it is killed.
SpawnBroker ==
    /\ pc = "broker" /\ broker = "none"
    /\ \/ broker' = "starting" /\ UNCHANGED pc
       \/ May("broker") /\ pc' = "fail" /\ UNCHANGED broker
    /\ UNCHANGED <<setting, exit, childVars, socketVars, fileVars>>

AwaitBroker ==
    /\ pc = "broker"
    /\ \/ broker \in {"ready", "lost"} /\ pc' = "fork" /\ UNCHANGED broker
       \/ broker = "dead" /\ pc' = "fail" /\ UNCHANGED broker
       \/ /\ broker = "starting" /\ May("broker")
          /\ broker' = "dead" /\ pc' = "fail"
    /\ UNCHANGED <<setting, exit, childVars, socketVars, fileVars>>

\* broker_child: no_new_privs, restrict_self, Ready.
BrokerSetup ==
    /\ broker = "starting"
    /\ \/ broker' = "ready"
       \/ May("broker") /\ broker' = "dead"
    /\ UNCHANGED <<supervisorVars, childVars, socketVars, fileVars>>

\* BrokerState::run ends when the supervisor's end closes; it may also be killed
\* or fail at any time after Ready, which the supervisor only learns from the
\* next request it makes.
BrokerEnds ==
    /\ \/ broker \in {"starting", "ready"} /\ pc = "exited" /\ broker' = "dead"
       \/ May("broker") /\ broker = "ready" /\ broker' = "lost"
    /\ UNCHANGED <<supervisorVars, childVars, socketVars, fileVars>>

-----------------------------------------------------------------------------
(***************************************************************************)
(* spawn_with_filter and parent_handshake.                                 *)
(***************************************************************************)

Fork ==
    /\ pc = "fork"
    /\ \/ /\ pc' = "recv_fd" /\ child' = "start" /\ forked' = TRUE
          /\ UNCHANGED <<status, landlocked, kids>>
       \/ May("setup") /\ pc' = "fail" /\ UNCHANGED childVars
    /\ UNCHANGED <<setting, exit, socketVars, broker, fileVars>>

\* Mutant of RecvFd: the parent keeps a copy of the child's socket end, so it
\* never sees it closed.
RecvFdNoEof ==
    /\ pc = "recv_fd" /\ up # <<>>
    /\ up' = Tail(up) /\ listener' = {"supervisor"} /\ pc' = "ack"
    /\ UNCHANGED <<setting, exit, childVars, down, broker, fileVars>>

\* recv_notify_fd: the byte with the descriptor, the byte alone, or the end
\* of a child that died before it sent anything.
RecvFd ==
    /\ pc = "recv_fd"
    /\ \/ /\ up # <<>> /\ up' = Tail(up)
          /\ \/ listener' = {"supervisor"} /\ pc' = "ack"
             \/ May("nofd") /\ listener' = {} /\ pc' = "reap"
       \/ /\ up = <<>> /\ ~ChildEndOpen
          /\ pc' = "reap" /\ UNCHANGED <<up, listener>>
    /\ UNCHANGED <<setting, exit, childVars, down, broker, fileVars>>

SendAck ==
    /\ pc = "ack"
    /\ \/ ChildEndOpen /\ down' = <<"A">> /\ pc' = "boundary" /\ UNCHANGED listener
       \/ ~ChildEndOpen /\ listener' = {} /\ pc' = "reap" /\ UNCHANGED down
    /\ UNCHANGED <<setting, exit, childVars, up, broker, fileVars>>

\* Mutant of AwaitBoundary: a child that died after the handoff is not reaped.
AwaitBoundaryNoReap ==
    /\ pc = "boundary"
    /\ \/ up # <<>> /\ up' = Tail(up) /\ pc' = "wrap" /\ UNCHANGED listener
       \/ /\ up = <<>> /\ ~ChildEndOpen
          /\ listener' = {} /\ pc' = "fail" /\ UNCHANGED up
    /\ UNCHANGED <<setting, exit, childVars, down, broker, fileVars>>

\* The child confirms its whole boundary, or its end closes first.
AwaitBoundary ==
    /\ pc = "boundary"
    /\ \/ up # <<>> /\ up' = Tail(up) /\ pc' = "wrap" /\ UNCHANGED listener
       \/ /\ up = <<>> /\ ~ChildEndOpen
          /\ listener' = {} /\ pc' = "reap" /\ UNCHANGED up
    /\ UNCHANGED <<setting, exit, childVars, down, broker, fileVars>>

\* NotifyFd::new; its failure drops the descriptor and returns at once, without
\* the reap of every other failure.
WrapListener ==
    /\ pc = "wrap"
    /\ \/ pc' = "serve" /\ UNCHANGED listener
       \/ May("wrap") /\ pc' = "unwrapped" /\ listener' = {}
    /\ UNCHANGED <<setting, exit, childVars, up, down, broker, fileVars>>

\* reap: waitpid blocks until the child is gone; the supervisor's socket end
\* is still open meanwhile.
Reap ==
    /\ pc = "reap" /\ child = "zombie"
    /\ child' = "reaped" /\ pc' = "fail"
    /\ UNCHANGED <<setting, exit, status, landlocked, kids, forked, socketVars, broker, fileVars>>

-----------------------------------------------------------------------------
(***************************************************************************)
(* The child: enter, then the agent and whatever it starts.                *)
(***************************************************************************)

Die(why) == child' = "zombie" /\ status' = why /\ listener' = listener \ {"child"}

\* no_new_privs and the filter, whose installation returns the listener.
ChildFilter ==
    /\ child = "start"
    /\ child' = "filtered" /\ listener' = {"child"}
    /\ UNCHANGED <<supervisorVars, status, landlocked, kids, forked, up, down,
                   broker, fileVars>>

\* send_notify_fd, and the child's copy is closed.
ChildSend ==
    /\ child = "filtered"
    /\ \/ /\ SupervisorEndOpen
          /\ child' = "sent" /\ up' = <<"L">> /\ listener' = {"message"}
          /\ UNCHANGED status
       \/ ~SupervisorEndOpen /\ Die("c121") /\ UNCHANGED up
    /\ UNCHANGED <<supervisorVars, landlocked, kids, forked, down, broker, fileVars>>

\* recv_ack: a closed socket is not an ack.
ChildAck ==
    /\ child = "sent"
    /\ \/ /\ down # <<>> /\ down' = <<>> /\ child' = "acked"
          /\ UNCHANGED <<status, listener>>
       \/ down = <<>> /\ ~SupervisorEndOpen /\ Die("c121") /\ UNCHANGED down
    /\ UNCHANGED <<supervisorVars, landlocked, kids, forked, up, broker, fileVars>>

\* Mutant of ChildLandlock: the result of restrict_self is not looked at.
ChildLandlockUnchecked ==
    /\ child = "acked" /\ child' = "confined"
    /\ landlocked' \in {RunMode = "enforce", FALSE}
    /\ UNCHANGED <<supervisorVars, status, kids, forked, socketVars, broker, fileVars>>

\* The ruleset exists in enforce runs only.
ChildLandlock ==
    /\ child = "acked" /\ child' = "confined"
    /\ landlocked' = (RunMode = "enforce")
    /\ UNCHANGED <<supervisorVars, status, kids, forked, socketVars, broker, fileVars>>

\* The boundary byte, close_range, and execv, which the filter traps.
ChildExec ==
    /\ child = "confined"
    /\ \/ /\ SupervisorEndOpen /\ child' = "exec" /\ up' = Append(up, "B")
          /\ UNCHANGED <<status, listener>>
       \/ ~SupervisorEndOpen /\ Die("c121") /\ UNCHANGED up
    /\ UNCHANGED <<supervisorVars, landlocked, kids, forked, down, broker, fileVars>>

\* execv fails with ENOSYS once nobody holds the listener.
ExecUnserved ==
    /\ child = "exec" /\ listener = {}
    /\ Die("c121")
    /\ UNCHANGED <<supervisorVars, landlocked, kids, forked, up, down, broker, fileVars>>

\* Any step of enter fails, or the child is killed in it.
ChildFails ==
    /\ May("child") /\ child \in Setup \cup {"exec"}
    /\ Die("c121") \/ Die("signal")
    /\ UNCHANGED <<supervisorVars, landlocked, kids, forked, up, down, broker, fileVars>>

\* The agent starts another process, which may outlive it; it exits.
AgentForks ==
    /\ child = "agent" /\ "supervisor" \in listener /\ kids' = TRUE
    /\ UNCHANGED <<supervisorVars, status, child, landlocked, forked, socketVars,
                   broker, fileVars>>

AgentExits ==
    /\ child = "agent"
    /\ \E s \in {"c0", "c125", "signal"} : Die(s)
    /\ UNCHANGED <<supervisorVars, landlocked, kids, forked, up, down, broker, fileVars>>

KidsExit ==
    /\ kids /\ kids' = FALSE
    /\ UNCHANGED <<supervisorVars, status, child, landlocked, forked, socketVars,
                   broker, fileVars>>

ChildSetup == ChildFilter \/ ChildSend \/ ChildAck \/ ChildLandlock \/ ChildExec
                 \/ ExecUnserved
Agent == ChildFails \/ AgentForks \/ AgentExits \/ KidsExit

-----------------------------------------------------------------------------
(***************************************************************************)
(* run_loop as the session sees it, and what follows it.                   *)
(***************************************************************************)

\* The event of the agent's own execve is written before it is answered.
ServeExec ==
    /\ pc = "serve" /\ child = "exec" /\ Len(trace) <= MaxEvents
    /\ trace' = Append(trace, "event")
    /\ \/ child' = "agent" /\ UNCHANGED status
       \/ child' = "zombie" /\ status' = "c121"
    /\ UNCHANGED <<supervisorVars, landlocked, kids, forked, socketVars, broker, meta,
                   durable, torn, report>>

\* An event of any other mediated call.
ServeCall ==
    /\ pc = "serve" /\ Len(trace) <= MaxEvents
    /\ child = "agent" \/ kids
    /\ trace' = Append(trace, "event")
    /\ UNCHANGED <<supervisorVars, childVars, socketVars, broker, meta, durable, torn,
                   report>>

\* Mutant of LoopAborts: the error is logged and the run closed as usual.
LoopAbortsCarriesOn ==
    /\ pc = "serve"
    /\ May("io") /\ torn' \in BOOLEAN
    /\ pc' = "end" /\ child' = "reaped" /\ listener' = {}
    /\ status' = IF child = "zombie" THEN status ELSE "signal"
    /\ UNCHANGED <<setting, exit, landlocked, kids, forked, up, down, broker, meta, trace,
                   durable, report>>

\* Mutant of LoopAborts: the last line is cut off, taken for the torn one.
LoopAbortsTruncates ==
    /\ pc = "serve"
    /\ May("io") /\ torn' = FALSE /\ trace' = SubSeq(trace, 1, Len(trace) - 1)
    /\ pc' = "fail" /\ child' = "reaped" /\ listener' = {}
    /\ status' = IF child = "zombie" THEN status ELSE "signal"
    /\ UNCHANGED <<setting, exit, landlocked, kids, forked, up, down, broker, meta, durable,
                   report>>

\* abort_run: the direct child is killed and reaped, the listener dropped.  A
\* lost broker fails the first call that needs it.
LoopAborts ==
    /\ pc = "serve"
    /\ \/ May("io") /\ torn' \in BOOLEAN
       \/ (May("loop") \/ broker = "lost") /\ UNCHANGED torn
    /\ pc' = "fail" /\ child' = "reaped" /\ listener' = {}
    /\ status' = IF child = "zombie" THEN status ELSE "signal"
    /\ UNCHANGED <<setting, exit, landlocked, kids, forked, up, down, broker, meta, trace,
                   durable, report>>

\* Mutant of HangUp: the loop ends with the direct child.
HangUpOnChild ==
    /\ pc = "serve" /\ child = "zombie"
    /\ child' = "reaped" /\ listener' = {} /\ pc' = "end"
    /\ UNCHANGED <<setting, exit, status, landlocked, kids, forked, up, down, broker, fileVars>>

\* POLLHUP: the last filter user is gone; wait reads the direct child's status.
HangUp ==
    /\ pc = "serve" /\ child = "zombie" /\ ~kids
    /\ child' = "reaped" /\ listener' = {} /\ pc' = "end"
    /\ UNCHANGED <<setting, exit, status, landlocked, kids, forked, up, down, broker, fileVars>>

AppendEnd ==
    /\ pc = "end"
    /\ AppendEvent("run_end", "sync_end")
    /\ UNCHANGED <<setting, exit, childVars, socketVars, broker, meta, durable, report>>

\* Mutant of SyncEnd: the report is rendered before run_end is on disk.
SyncEndSkipped ==
    /\ pc = "sync_end" /\ pc' = "report"
    /\ UNCHANGED <<setting, exit, childVars, socketVars, broker, fileVars>>

SyncEnd ==
    /\ pc = "sync_end"
    /\ Sync("report")
    /\ UNCHANGED <<setting, exit, childVars, socketVars, broker, meta, trace, torn, report>>

\* Read the trace back, render it, create report.txt anew, write and sync it.
WriteReport ==
    /\ pc = "report"
    /\ \/ pc' = "success" /\ report' = "written"
       \/ May("io") /\ pc' = "fail" /\ report' \in {"none", "partial"}
    /\ UNCHANGED <<setting, exit, childVars, socketVars, broker, meta, trace, durable, torn>>

\* run_session returns, the broker is stopped and reaped, dispatch_run maps
\* the outcome to the exit code.
Leave ==
    /\ pc \in {"fail", "unwrapped", "success"}
    /\ pc' = "exited"
    /\ exit' = CASE pc = "success" -> "passed"
                 [] pc = "unwrapped" -> "unwrapped"
                 [] OTHER -> "failure"
    /\ broker' = IF broker = "none" THEN "none" ELSE "dead"
    /\ UNCHANGED <<setting, childVars, socketVars, fileVars>>

\* The supervisor is killed; its descriptors close.
Crash ==
    /\ May("crash") /\ pc \notin Ended
    /\ pc' = "exited" /\ exit' = "killed"
    /\ listener' = listener \ {"supervisor", "message"}
    /\ UNCHANGED <<setting, childVars, up, down, broker, fileVars>>

\* The machine stops: of the trace, what was synced survives, and perhaps
\* some of the rest.
PowerLoss ==
    /\ May("power") /\ pc # "off"
    /\ pc' = "off" /\ child' = "none" /\ kids' = FALSE
    /\ broker' = "none" /\ listener' = {} /\ up' = <<>> /\ down' = <<>>
    /\ \E n \in durable..Len(trace) : trace' = SubSeq(trace, 1, n)
    /\ durable' = Len(trace')
    /\ torn' \in {torn, TRUE}
    /\ report' \in {report} \cup IF report = "partial" THEN {"none"} ELSE {}
    /\ UNCHANGED <<setting, exit, status, landlocked, forked, meta>>

Supervisor ==
    \/ Parse \/ Preflight \/ PrepareEnforcement \/ CreateRunDir \/ AppendStart \/ SyncStart
    \/ SpawnBroker \/ AwaitBroker
    \/ Fork \/ RecvFd \/ SendAck \/ AwaitBoundary \/ WrapListener \/ Reap
    \/ ServeExec \/ ServeCall \/ LoopAborts \/ HangUp
    \/ AppendEnd \/ SyncEnd \/ WriteReport \/ Leave

Finished ==
    /\ \/ pc = "off"
       \/ pc = "exited" /\ child \in {"none", "zombie", "reaped"}
    /\ UNCHANGED vars

Next == Supervisor \/ ChildSetup \/ Agent \/ BrokerSetup \/ BrokerEnds
           \/ Crash \/ PowerLoss \/ Finished

Spec == Init /\ [][Next]_vars

\* The supervisor, the child in its setup and the broker in its own are
\* running processes that no one can suspend; the agent is under no obligation.
FairSpec ==
    Spec /\ WF_vars(Supervisor) /\ WF_vars(ChildSetup) /\ WF_vars(BrokerSetup)

-----------------------------------------------------------------------------
(***************************************************************************)
(* Properties.                                                             *)
(***************************************************************************)

EventKinds == {"run_start", "event", "run_end"}
Statuses == {"none", "c0", "c121", "c125", "signal"}

\* Every variable has its type; what is durable is a prefix of what was written.
TypeOK ==
    /\ setting \in [mode : RunModes, caps : SUBSET Capabilities]
    /\ pc \in {"parse", "preflight", "prepare", "rundir", "start", "sync_start", "broker", "fork",
               "serve", "end", "sync_end", "report", "fail", "unwrapped", "success"}
              \cup Handshake \cup Ended
    /\ exit \in {"none", "usage", "passed", "failure", "unwrapped", "killed"}
    /\ status \in Statuses
    /\ child \in {"none", "exec", "agent", "zombie", "reaped"} \cup Setup
    /\ landlocked \in BOOLEAN /\ kids \in BOOLEAN /\ forked \in BOOLEAN
    /\ up \in Seq({"L", "B"}) /\ down \in Seq({"A"})
    /\ listener \subseteq {"child", "message", "supervisor"}
    /\ broker \in {"none", "starting", "ready", "lost", "dead"}
    /\ meta \in BOOLEAN /\ trace \in Seq(EventKinds)
    /\ durable \in Nat /\ durable <= Len(trace)
    /\ torn \in BOOLEAN /\ report \in {"none", "partial", "written"}

\* A run that produced a child left evidence of it: run_start is on disk
\* whatever failed later, power included (run_session, step 4 of cli.md).
EvidenceOfChild == forked => meta /\ trace # <<>> /\ trace[1] = "run_start"

\* The agent only runs inside the whole boundary: on a host that has what the
\* filter and the ruleset rely on, restricted by Landlock in an enforce run and
\* only after the broker had confined itself too, the event of its execve written
\* first, and never once the supervisor is gone (evaluate in preflight.rs, enter,
\* parent_handshake, Broker::spawn).  The broker may have died since: execve does
\* not need it.
AgentInsideBoundary ==
    [][(child' = "agent" /\ child # "agent") =>
          /\ Capabilities \ setting.caps \subseteq {"landlock"}
          /\ RunMode = "enforce" =>
                "landlock" \in setting.caps /\ landlocked /\ broker \in {"ready", "lost"}
          /\ pc \notin Ended /\ listener = {"supervisor"}
          /\ Len(trace') >= 2]_vars

\* A session that fails leaves no child behind, killed or dead and reaped, on
\* every path but the one of a failing NotifyFd::new, whose exit is told apart
\* as "unwrapped" (parent_handshake, abort_run).
FailureLeavesNoZombie ==
    (pc = "exited" /\ exit = "failure") => child \in {"none", "reaped"}

\* What parent_handshake's comment says of every failure: "on any failure reap
\* the child and report it as a setup abort so no zombie is left (I3)".  The
\* return of a failed NotifyFd::new has no reap, and the reap of a child whose
\* descriptor did not arrive waits for a child that waits for its ack
\* (parent_handshake, recv_notify_fd).
FailedHandshakeReaps == pc \in {"reap", "unwrapped"} ~> child = "reaped"

\* The supervisor gave up on a child that waits for the ack of a listener it did
\* send: the byte came without the descriptor.
HandoffLost == pc = "reap" /\ child = "sent"

\* The handshake does not hang: whoever dies or fails, at whichever step, both
\* sides leave it, or the handoff was lost (parent_handshake, enter).
HandshakeEnds ==
    (pc \in Handshake \/ child \in Setup) ~>
        \/ pc \notin Handshake /\ child \notin Setup
        \/ HandoffLost

\* Once a write failed nothing is appended behind the torn line, by whichever
\* part of the run (TraceWriter::append: "must not be used again").
NothingAfterTorn == [][torn => Len(trace') <= Len(trace)]_vars

\* run_end is truthful: it is the last event, the whole tree was gone when it
\* was written, and the status it carries was read from the reaped child.
RunEndIsTruthful ==
    \A i \in DOMAIN trace : trace[i] = "run_end" =>
        /\ i = Len(trace) /\ trace[1] = "run_start"
        /\ pc # "off" => child = "reaped" /\ ~kids
        /\ status # "none"

\* A report rests on a durable, complete trace, and leash passes the child's
\* result through only when both exist (cli.md section 5).
ReportRestsOnTrace ==
    /\ report # "none" => durable = Len(trace) /\ trace[durable] = "run_end"
    /\ exit = "passed" => report = "written"
==============================================================================
