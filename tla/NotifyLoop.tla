----------------------------- MODULE NotifyLoop -----------------------------
(***************************************************************************)
(* The notify loop of Leash (supervisor/run.rs) with everything it talks   *)
(* to: the seccomp user-notification listener and the threads trapped on   *)
(* it, the confined side-effect broker (supervisor/broker.rs), the trace   *)
(* writer (recorder.rs) and the operator behind an ask.                    *)
(*                                                                         *)
(* One supervisor thread serves one notification at a time, but every      *)
(* other actor moves between any two of its steps: a trapped thread may be *)
(* killed, a sibling may rewrite the memory its arguments point to, the    *)
(* broker may die or answer too late, a write may fail, the supervisor may *)
(* crash.  `pc` names the next step of handle_notification; the local      *)
(* variables of the handlers are the variables that follow it.             *)
(*                                                                         *)
(* Kernel behaviour (listener, ids, CONTINUE) is external to the           *)
(* repository and modelled from the way notify.rs and run.rs use it.       *)
(***************************************************************************)
EXTENDS PolicyEngine

CONSTANTS
    Thread,      \* the threads of the supervised tree
    Root,        \* the threads of the direct child process
    Value,       \* operand values: paths, binaries, destinations
    Scribble,    \* bound: the values a sibling writes over an argument
    Bad,         \* a pointer argument the supervisor cannot read
    Calls,       \* the mediated calls a thread may issue
    RunMode,     \* config.mode
    Attended,    \* config.attendance = Attended
    Policy,      \* config.policy (enforce runs only)
    Cache,       \* config.resolved_hosts: name -> addresses
    Dest,        \* network destination value -> [ip, port]
    Unanchored,  \* paths beneath no Landlock anchor (select_anchor = None)
    Unwritable,  \* paths that are not UTF-8: serde refuses an event with one
    Resolve,     \* path -> identities openat2 may resolve it to
    Faults,      \* enabled faults: "trace", "kernel", "broker", "crash", and
                 \* "outside": a process outside the tree changes directories
                 \* or swaps symlinks while the broker resolves a path
    MaxCalls,    \* bound: calls per thread
    MaxId,       \* bound: notifications in a behaviour
    MaxToken     \* the largest broker token (u64::MAX in the code)

FsKinds == {"open", "creat", "mutate", "rename", "link", "symlink"}
Kinds == FsKinds \cup
         {"foreign", "sr4", "exec", "clone", "clone3", "ptrace", "net"}

\* What the scalar registers of a call say: well formed ("ok"), an openat2
\* with a short ("short") or unsupported ("unsup") open_how, a clone3 or
\* sockaddr size out of range ("size"), RENAME_EXCHANGE ("exchange"), a
\* socket argument that is no valid descriptor number ("fdrange"), a ptrace
\* target outside the tree ("outside"), a child whose descriptor table is
\* full when the fd is installed ("fdfull"), a payload whose packet the
\* kernel finds too long for the broker's socket ("oversize"), a change of
\* owner that does not follow a final symlink ("nofollow").
Scalars == {"ok", "short", "unsup", "size", "exchange", "fdrange",
            "outside", "fdfull", "oversize", "nofollow"}

\* How many pointer arguments the supervisor reads for each kind.
Arity(kind) ==
    CASE kind \in {"rename", "link", "symlink"}           -> 2
      [] kind \in {"foreign", "sr4", "clone", "ptrace"}   -> 0
      [] OTHER                                            -> 1

Operand == Value \cup {Bad}
CallRecord == [kind : Kinds, scalar : Scalars, access : Seq(Access),
               args : Seq(Operand)]

ASSUME CallsAssumption ==
    /\ Bad \notin Value
    /\ Calls \subseteq CallRecord
    /\ \A c \in Calls : Len(c.args) = Arity(c.kind)

\* The loader admits only these actions; the tables are in file order.
ASSUME PolicyAssumption ==
    \A family \in {"fs", "net", "exec"} :
        /\ DOMAIN Policy[family] \subseteq Nat
        /\ \A i \in DOMAIN Policy[family] : Policy[family][i].action \in Verdict

ASSUME ConfigAssumption ==
    /\ RunMode \in Mode
    /\ Attended \in BOOLEAN
    /\ Thread # {} /\ Root \subseteq Thread
    /\ Unanchored \subseteq Value /\ Scribble \subseteq Value
    /\ Unwritable \subseteq Value
    /\ Resolve \in [Value -> SUBSET Value]
    /\ Faults \subseteq {"trace", "kernel", "broker", "crash", "outside"}

ASSUME BoundAssumption ==
    /\ MaxCalls \in Nat
    /\ MaxId \in Nat
    /\ MaxToken \in Nat
    /\ MaxToken >= 2

VARIABLES
    \* ---- the supervised tree and the listener (kernel) ----
    tstate,     \* thread -> run, queued, held, restart, exec, dead
    call,       \* thread -> its current call: the register snapshot
    mem,        \* thread -> the memory its pointer arguments name now
    nid,        \* thread -> id of its current notification
    callno,     \* thread -> number of calls it has issued
    nextId,     \* next notification id
    listener,   \* "open" or "closed"
    \* ---- handle_notification ----
    pc, cur, curId,
    fact,       \* operand values read, then the identities recorded
    stale,      \* history: the values were read after the thread's death
    prepared,   \* PreparedPath values held by the handler
    dec,        \* the resolved decision
    answer,     \* the response to send
    ret,        \* where the handler continues once its pins are released
    \* ---- broker process and its socket ----
    broker, req, resp, held, next_token,
    slot,       \* token -> the path its pinned parent and basename stand for,
                \* and whether that has moved away from the pinned target
    \* ---- recorder ----
    trace, writer,
    \* ---- history ----
    effects,    \* mediated effects in the order they took place
    prompts     \* prompts shown to the operator

kernelVars == <<tstate, call, mem, nid, callno, nextId, listener>>
handlerVars == <<cur, curId, fact, stale, prepared, dec, answer, ret>>
brokerVars == <<broker, req, resp, held, next_token, slot>>
logVars == <<trace, writer>>
historyVars == <<effects, prompts>>
vars == <<kernelVars, pc, handlerVars, brokerVars, logVars, historyVars>>

-----------------------------------------------------------------------------
(***************************************************************************)
(* What the handlers compute.                                              *)
(***************************************************************************)

Terminal == {"done", "aborted", "crashed"}

\* `no` is history: the number of the call a commit is for.
NoReq == [op |-> "none", val |-> Bad, missing |-> FALSE, toks |-> <<>>, no |-> 0]
NoResp == [res |-> "none", token |-> 0, identity |-> Bad, exists |-> FALSE]

\* In enforce mode these families are realized by the broker, not CONTINUE.
Brokered(c) == RunMode = "enforce" /\ c.kind \in FsKinds \cup {"net"}

\* The operands a filesystem call prepares: a symlink's first argument is
\* stored text, only the link itself is an accessed path.
Operands(c, values) == IF c.kind = "symlink" THEN <<values[2]>> ELSE values

\* path_prepare_modes: whether operand i may name something that does not
\* exist yet.  (Following a final symlink is part of Resolve.)
AllowMissing(c, i) ==
    \/ i = 2
    \/ c.kind = "symlink"
    \/ c.kind \in {"open", "mutate"} /\ \E j \in DOMAIN c.access : c.access[j] = "create"

primary_access(c) ==
    CASE c.kind = "rename" /\ c.scalar = "exchange" -> <<"delete", "create">>
      [] c.kind = "rename" /\ c.scalar # "exchange" -> <<"delete">>
      [] c.kind = "link"    -> <<"read">>
      [] c.kind = "symlink" -> <<"create">>
      [] OTHER              -> c.access

secondary_access(c, exists) ==
    CASE c.kind = "rename" /\ c.scalar = "exchange" -> <<"delete", "create">>
      [] c.kind = "rename" /\ c.scalar # "exchange" /\ exists
                                                -> <<"create", "delete">>
      [] OTHER                                  -> <<"create">>

\* evaluate_required_fs: one request per required access.
FsDecisions(path, access) ==
    [i \in DOMAIN access |->
        evaluate(Policy, [family |-> "fs", path |-> path, access |-> {access[i]}],
                 "enforce").decision]

NetDecision(dest) ==
    evaluate(Policy,
             [family |-> "net", ip |-> Dest[dest].ip, port |-> Dest[dest].port,
              hostname |-> resolved_hostname(Policy, Cache, Dest[dest].ip)],
             "enforce").decision

ExecDecision(binary) ==
    evaluate(Policy, [family |-> "exec", binary |-> binary], "enforce").decision

\* The accesses the i-th operand of a filesystem call is evaluated for.
Required(c, paths, i) ==
    LET access == IF i = 1 THEN primary_access(c)
                           ELSE secondary_access(c, paths[2].exists)
    IN  {access[j] : j \in DOMAIN access}

Item(operand, access) == [operand |-> operand, access |-> access]

\* Mutant of PendingAsks: the prompt lists what is asked of the first operand.
PendingOfFirst(c, paths, values) ==
    CASE c.kind = "net"  -> {Item(values[1], "connect")}
      [] c.kind = "exec" -> {Item(values[1], "exec")}
      [] OTHER           -> {Item(paths[1].identity, a) : a \in Required(c, paths, 1)}

\* evaluate_tracked collects each request whose verdict is ask, an operand
\* with one access, for the one prompt of the call.
PendingAsks(c, paths, values) ==
    CASE c.kind = "net"  -> {Item(values[1], "connect")}
      [] c.kind = "exec" -> {Item(values[1], "exec")}
      [] OTHER ->
           UNION {{Item(paths[i].identity, a) :
                      a \in {b \in Required(c, paths, i) :
                               FsDecisions(paths[i].identity, <<b>>)[1] = "ask"}} :
                  i \in DOMAIN paths}

\* evaluate_tracked for everything one held call requires, primary operand
\* first.  A record-only run has no policy, so every call evaluates to allow.
Decisions(c, paths, values) ==
    IF RunMode = "record_only" THEN <<"allow">>
    ELSE CASE c.kind = "net"  -> <<NetDecision(values[1])>>
           [] c.kind = "exec" -> <<ExecDecision(values[1])>>
           [] OTHER ->
                FsDecisions(paths[1].identity, primary_access(c)) \o
                (IF Len(paths) = 2
                 THEN FsDecisions(paths[2].identity,
                                  secondary_access(c, paths[2].exists))
                 ELSE <<>>)

Identities(paths) == [i \in DOMAIN paths |-> paths[i].identity]
Tokens(paths) == [i \in DOMAIN paths |-> paths[i].token]

\* record_network_read_failure in record-only, the case-C deny elsewhere.
ReadFailure(c) ==
    IF c.kind = "net" /\ RunMode = "record_only"
    THEN fixed_decision("allow") ELSE fixed_decision("deny")

Answer(d) == IF d.response = "allow" THEN "continue" ELSE "eacces"

\* mem.rs: a read of the operands fails as a whole when one pointer is bad.
ReadsWhole(values) == \A i \in DOMAIN values : values[i] # Bad

\* parse_sockaddr: bytes that are no IPv4 or IPv6 address are not a destination.
parse_sockaddr(c, values) == c.kind = "net" => values[1] \in DOMAIN Dest

\* mutation_invocation knows every call with a fixed access but creat, which
\* fs_shape sends to it.
mutation_invocation(c) == c.kind # "creat"

\* The values a live read returns, or <<Bad>>: a failed read, an open_how
\* shorter than its base size, or arguments the handler does not understand.
Readable(c, values) ==
    IF /\ ReadsWhole(values)
       /\ c.scalar # "short"
       /\ mutation_invocation(c)
       /\ parse_sockaddr(c, values)
    THEN values ELSE <<Bad>>

\* ID_VALID for the notification being handled.
IdValid == tstate[cur] = "held" /\ nid[cur] = curId

\* Who is stopped waiting for the listener, and is failed with ENOSYS when
\* it closes.
Released(ts) == [t \in Thread |->
    IF ts[t] \in {"queued", "held", "restart"} THEN "run" ELSE ts[t]]

-----------------------------------------------------------------------------
(***************************************************************************)
(* The supervised tree and the kernel's side of the listener.              *)
(***************************************************************************)

Init ==
    /\ tstate = [t \in Thread |-> "run"]
    /\ call = [t \in Thread |-> [kind |-> "clone", scalar |-> "ok",
                                 access |-> <<>>, args |-> <<>>]]
    /\ mem = [t \in Thread |-> <<>>]
    /\ nid = [t \in Thread |-> 0]
    /\ callno = [t \in Thread |-> 0]
    /\ nextId = 1
    /\ listener = "open"
    /\ pc = "poll"
    /\ cur = CHOOSE t \in Thread : TRUE
    /\ curId = 0
    /\ fact = <<>> /\ stale = FALSE /\ prepared = <<>>
    /\ dec = fixed_decision("deny") /\ answer = "eacces" /\ ret = "poll"
    /\ broker = IF RunMode = "enforce" THEN "alive" ELSE "dead"
    /\ req = NoReq /\ resp = NoResp /\ held = {} /\ next_token = 1
    /\ slot = [token \in 1..MaxToken |-> [name |-> Bad, moved |-> FALSE]]
    /\ trace = <<>> /\ writer = "ok"
    /\ effects = <<>> /\ prompts = <<>>

\* A thread enters a mediated syscall: the registers are copied, the pointer
\* arguments stay in its memory.
Trap(t) ==
    /\ tstate[t] = "run" /\ listener = "open"
    /\ callno[t] < MaxCalls /\ nextId <= MaxId
    /\ \E c \in Calls :
          /\ call' = [call EXCEPT ![t] = c]
          /\ mem' = [mem EXCEPT ![t] = c.args]
    /\ tstate' = [tstate EXCEPT ![t] = "queued"]
    /\ callno' = [callno EXCEPT ![t] = @ + 1]
    /\ nid' = [nid EXCEPT ![t] = nextId]
    /\ nextId' = nextId + 1
    /\ UNCHANGED <<listener, pc, handlerVars, brokerVars, logVars, historyVars>>

\* Mutant of CancelledStates: a received notification is cancelled as well,
\* as before the filter asked for WAIT_KILLABLE_RECV.
CancelledWhenever == {"queued", "held"}

\* A caught signal cancels a notification the supervisor has not received
\* yet; WAIT_KILLABLE_RECV makes a received one immune (child.rs).
CancelledStates == {"queued"}

SignalCancel(t) ==
    /\ tstate[t] \in CancelledStates
    /\ tstate' = [tstate EXCEPT ![t] = "restart"]
    /\ UNCHANGED <<call, mem, nid, callno, nextId, listener, pc, handlerVars,
                   brokerVars, logVars, historyVars>>

\* The restarted call traps again under a fresh id.
Retrap(t) ==
    /\ tstate[t] = "restart" /\ listener = "open" /\ nextId <= MaxId
    /\ tstate' = [tstate EXCEPT ![t] = "queued"]
    /\ nid' = [nid EXCEPT ![t] = nextId]
    /\ nextId' = nextId + 1
    /\ UNCHANGED <<call, mem, callno, listener, pc, handlerVars, brokerVars,
                   logVars, historyVars>>

\* A sibling thread rewrites memory a pending call's pointer names.
Rewrite(t) ==
    /\ tstate[t] \in {"queued", "held", "exec"}
    /\ \E u \in Thread \ {t} : tstate[u] = "run"
    /\ \E i \in DOMAIN mem[t], v \in Scribble :
          /\ mem[t][i] \in Value
          /\ mem' = [mem EXCEPT ![t][i] = v]
    /\ UNCHANGED <<tstate, call, nid, callno, nextId, listener, pc, handlerVars,
                   brokerVars, logVars, historyVars>>

\* The kernel runs a call answered with CONTINUE, re-reading its memory.
ExecuteContinued(t) ==
    /\ tstate[t] = "exec"
    /\ tstate' = [tstate EXCEPT ![t] = "run"]
    /\ effects' = Append(effects, [id |-> nid[t], thread |-> t,
                                   no |-> callno[t], via |-> "kernel",
                                   args |-> mem[t], replaces |-> FALSE,
                                   moved |-> FALSE])
    /\ UNCHANGED <<call, mem, nid, callno, nextId, listener, pc, handlerVars,
                   brokerVars, logVars, prompts>>

\* A thread exits or is killed, whatever it was doing.
Die(t) ==
    /\ tstate[t] # "dead"
    /\ tstate' = [tstate EXCEPT ![t] = "dead"]
    /\ UNCHANGED <<call, mem, nid, callno, nextId, listener, pc, handlerVars,
                   brokerVars, logVars, historyVars>>

Tree == \E t \in Thread :
    Trap(t) \/ SignalCancel(t) \/ Retrap(t) \/ Rewrite(t)
            \/ ExecuteContinued(t) \/ Die(t)

-----------------------------------------------------------------------------
(***************************************************************************)
(* run_loop: receive and classify.                                         *)
(***************************************************************************)

\* Where handle_notification sends each call, and the decision it already
\* has for the calls it does not read memory for.
Classify(c) ==
    CASE c.kind \in {"foreign", "sr4"} ->
            [pc |-> "record", dec |-> fixed_decision("deny"), answer |-> "enosys"]
      [] c.kind = "clone" ->
            [pc |-> "record", dec |-> fixed_decision("allow"), answer |-> "continue"]
      [] c.kind \in {"clone3", "net"} /\ c.scalar = "size" ->
            [pc |-> "record", dec |-> ReadFailure(c),
             answer |-> Answer(ReadFailure(c))]
      [] c.kind = "ptrace" ->
            [pc |-> "tree", dec |-> fixed_decision("deny"), answer |-> "eacces"]
      [] OTHER ->
            [pc |-> "valid1", dec |-> fixed_decision("deny"), answer |-> "eacces"]

\* NOTIF_RECV hands out the oldest notification nobody has received.
Recv(t) ==
    /\ pc = "poll" /\ tstate[t] = "queued"
    /\ \A u \in Thread : tstate[u] = "queued" => nid[t] <= nid[u]
    /\ tstate' = [tstate EXCEPT ![t] = "held"]
    /\ cur' = t /\ curId' = nid[t]
    /\ pc' = Classify(call[t]).pc
    /\ dec' = Classify(call[t]).dec
    /\ answer' = Classify(call[t]).answer
    /\ fact' = <<>> /\ stale' = FALSE
    /\ UNCHANGED <<call, mem, nid, callno, nextId, listener, prepared, ret, brokerVars, logVars, historyVars>>

\* POLLHUP: the last filter user is gone; the child is reaped.
Hangup ==
    /\ pc = "poll" /\ \A t \in Thread : tstate[t] = "dead"
    /\ pc' = "done" /\ listener' = "closed"
    /\ UNCHANGED <<tstate, call, mem, nid, callno, nextId, handlerVars,
                   brokerVars, logVars, historyVars>>

\* Handled::Dropped.
Drop ==
    /\ pc' = "poll"
    /\ UNCHANGED handlerVars

-----------------------------------------------------------------------------
(***************************************************************************)
(* The bracketed read.                                                     *)
(***************************************************************************)

BracketOpen ==
    /\ pc = "valid1"
    /\ \/ IdValid /\ pc' = "gather" /\ UNCHANGED handlerVars
       \/ ~IdValid /\ Drop
    /\ UNCHANGED <<kernelVars, brokerVars, logVars, historyVars>>

\* /proc/<pid>/mem of a live thread holds what its memory holds now; once it
\* is dead its pid may name another process, so a read returns anything.
Gather ==
    /\ pc = "gather" /\ pc' = "valid2"
    /\ \/ /\ tstate[cur] # "dead"
          /\ fact' = Readable(call[cur], mem[cur])
          /\ stale' = FALSE
       \/ /\ tstate[cur] = "dead"
          /\ \E values \in [DOMAIN mem[cur] -> Value \cup {Bad}] :
                fact' = Readable(call[cur], values)
          /\ stale' = TRUE
    /\ UNCHANGED <<cur, curId, prepared, dec, answer, ret, kernelVars,
                   brokerVars, logVars, historyVars>>

\* Mutant of ClosingCheck: what was read is used without a second ID_VALID.
ClosingCheckSkipped == TRUE

ClosingCheck == IdValid

\* A call that is decided, then recorded and answered: where it goes next.
Decided(d) == [pc |-> "record", dec |-> d, answer |-> Answer(d)]
\* A call still to be decided, refused until it is.
Undecided(step) == [pc |-> step, dec |-> fixed_decision("deny"), answer |-> "eacces"]

\* What each handler does once the bracket is closed: an enforced filesystem
\* call is prepared first, a clone3 is allowed, the rest is decided from what
\* was read.
handle_fs == Undecided(IF RunMode = "enforce" THEN "prepare" ELSE "decide")
handle_exec == Undecided("decide")
handle_process == Decided(fixed_decision("allow"))
handle_network == Undecided("decide")

AfterRead(c, values) ==
    CASE values = <<Bad>>                           -> Decided(ReadFailure(c))
      [] values # <<Bad>> /\ c.kind \in FsKinds     -> handle_fs
      [] values # <<Bad>> /\ c.kind = "exec"        -> handle_exec
      [] values # <<Bad>> /\ c.kind = "clone3"      -> handle_process
      [] OTHER                                      -> handle_network

\* The second half of the bracket and the branch on what was gathered.
BracketClose ==
    LET after == AfterRead(call[cur], fact) IN
    /\ pc = "valid2"
    /\ \/ ~ClosingCheck /\ Drop
       \/ /\ ClosingCheck
          /\ pc' = after.pc /\ dec' = after.dec /\ answer' = after.answer
          /\ UNCHANGED <<cur, curId, fact, stale, prepared, ret>>
    /\ UNCHANGED <<kernelVars, brokerVars, logVars, historyVars>>

\* process_in_tree, which follows the parents in /proc: it may miss a target
\* that is in the tree (it died, was reparented, or is too deep).  A walk
\* that takes an outsider for a member needs a pid reused during the walk,
\* the residual docs/design/escapes.md names; it is left out.
process_in_tree(c) == {found \in BOOLEAN : found => c.scalar # "outside"}

\* Mutant of WalkTree: an outsider is refused in record-only runs as well.
WalkTreeAlwaysDenies ==
    /\ pc = "tree" /\ pc' = "record"
    /\ \E in_tree \in process_in_tree(call[cur]) :
          dec' = fixed_decision(IF in_tree THEN "allow" ELSE "deny")
    /\ answer' = Answer(dec')
    /\ UNCHANGED <<cur, curId, fact, stale, prepared, ret, kernelVars,
                   brokerVars, logVars, historyVars>>

\* handle_cross_process.
WalkTree ==
    /\ pc = "tree" /\ pc' = "record"
    /\ \E in_tree \in process_in_tree(call[cur]) :
          dec' = fixed_decision(IF RunMode = "record_only" \/ in_tree
                                THEN "allow" ELSE "deny")
    /\ answer' = Answer(dec')
    /\ UNCHANGED <<cur, curId, fact, stale, prepared, ret, kernelVars,
                   brokerVars, logVars, historyVars>>

-----------------------------------------------------------------------------
(***************************************************************************)
(* handle_fs_enforce: prepare every operand, decide, record.               *)
(***************************************************************************)

SendRequest(r) == req' = r /\ UNCHANGED <<broker, resp, held, next_token, slot>>
TakeResponse == resp' = NoResp /\ UNCHANGED <<broker, req, held, next_token, slot>>

\* Mutant of RealizationDeny: the first operand stays pinned.
RealizationDenyLeaks ==
    /\ dec' = fixed_decision("deny") /\ answer' = "errno"
    /\ pc' = "record" /\ ret' = "record"
    /\ prepared' = <<>>
    /\ UNCHANGED <<cur, curId, fact, stale>>

\* record_realization_deny; a first operand already pinned is released
\* before the event is written.
RealizationDeny ==
    /\ dec' = fixed_decision("deny") /\ answer' = "errno"
    /\ pc' = IF prepared = <<>> THEN "record" ELSE "release"
    /\ ret' = "record"
    /\ UNCHANGED <<cur, curId, fact, stale, prepared>>

\* select_anchor: the path is beneath a directory the broker holds.
select_anchor(path) == path \notin Unanchored

\* Broker::prepare_path for the next operand; a path beneath no anchor is
\* refused without a request.
PreparePath ==
    LET operand == Operands(call[cur], fact)[Len(prepared) + 1] IN
    /\ pc = "prepare"
    /\ \/ /\ ~select_anchor(operand)
          /\ RealizationDeny
          /\ UNCHANGED brokerVars
       \/ /\ select_anchor(operand)
          /\ SendRequest([NoReq EXCEPT !.op = "prepare", !.val = operand,
                            !.missing = AllowMissing(call[cur], Len(prepared) + 1)])
          /\ pc' = "await_prepare"
          /\ UNCHANGED handlerVars
    /\ UNCHANGED <<kernelVars, logVars, historyVars>>

RecvPrepared ==
    /\ pc = "await_prepare" /\ resp.res # "none"
    /\ TakeResponse
    /\ \/ /\ resp.res = "prepared"
          /\ prepared' = Append(prepared, [token    |-> resp.token,
                                           identity |-> resp.identity,
                                           exists   |-> resp.exists])
          /\ pc' = IF Len(prepared') < Len(Operands(call[cur], fact))
                   THEN "prepare" ELSE "decide"
          /\ UNCHANGED <<cur, curId, fact, stale, dec, answer, ret>>
       \/ /\ resp.res = "errno"
          /\ RealizationDeny
    /\ UNCHANGED <<kernelVars, logVars, historyVars>>

\* finalize: the decision of the whole call under one resolution.  What the
\* event records of a prepared call is the identities, not the text read; a
\* symlink's stored target is recorded beside them and is no accessed path.
Settle(resolution) ==
    /\ dec' = finalize_operand(Decisions(call[cur], prepared, fact), resolution)
    /\ answer' = Answer(dec')
    /\ fact' = IF prepared = <<>> THEN fact ELSE Identities(prepared)
    /\ pc' = "record"
    /\ UNCHANGED <<cur, curId, stale, prepared, ret>>

Asks == \E i \in DOMAIN Decisions(call[cur], prepared, fact) :
            Decisions(call[cur], prepared, fact)[i] = "ask"

Decide ==
    /\ pc = "decide"
    /\ \/ ~Asks /\ Settle("none")
       \/ Asks /\ ~Attended /\ Settle("unattended")
       \/ Asks /\ Attended /\ pc' = "ask" /\ UNCHANGED handlerVars
    /\ UNCHANGED <<kernelVars, brokerVars, logVars, historyVars>>

\* settle_asks: one prompt lists what was asked about, and nothing else; one
\* answer settles it.
Prompt ==
    /\ pc = "ask"
    /\ \E resolution \in {"approved", "denied", "timed_out"} :
          /\ Settle(resolution)
          /\ prompts' = Append(prompts, [id |-> curId,
                                         items |-> PendingAsks(call[cur], prepared, fact),
                                         answer |-> resolution])
    /\ UNCHANGED <<kernelVars, brokerVars, logVars, effects>>

Event == [id         |-> curId,
          call       |-> call[cur],
          fact       |-> IF fact = <<Bad>> THEN <<>> ELSE fact,
          stale      |-> stale,
          event      |-> dec.event,
          resolution |-> dec.resolution]

\* The event can be turned into a line of JSON.  (The text a symlink stores,
\* which its event names beside the link, is taken to be UTF-8.)
Serializable == \A i \in DOMAIN fact : fact[i] \notin Unwritable

\* record precedes respond.  A refused call first gives its pins back.
Record ==
    /\ pc = "record" /\ writer = "ok" /\ Serializable
    /\ trace' = Append(trace, Event)
    /\ pc' = IF dec.response = "allow" /\ Brokered(call[cur]) THEN "valid3"
             ELSE IF prepared # <<>> THEN "release" ELSE "send"
    /\ ret' = "send"
    /\ UNCHANGED <<cur, curId, fact, stale, prepared, dec, answer,
                   writer, kernelVars, brokerVars, historyVars>>

\* Mutant of RecordFails: the error is ignored and the answer sent.
RecordFailsQuietly ==
    /\ pc = "record" /\ "trace" \in Faults
    /\ writer' = "failed"
    /\ pc' = IF prepared = <<>> THEN "send" ELSE "valid3"
    /\ UNCHANGED <<trace, handlerVars, kernelVars, brokerVars, historyVars>>

\* Case E: the event did not land; the writer is never used again.
RecordFails ==
    /\ pc = "record" /\ ("trace" \in Faults \/ ~Serializable)
    /\ writer' = "failed" /\ pc' = "abort"
    /\ UNCHANGED <<trace, handlerVars, kernelVars, brokerVars, historyVars>>

-----------------------------------------------------------------------------
(***************************************************************************)
(* The last validity check, the commit, and the response.                  *)
(***************************************************************************)

\* The operations on a directory entry, which name it by its pinned parent and
\* basename: rename, link, symlink, mkdir, unlink and a chown that does not
\* follow symlinks.  The others (truncate, chmod, chown) use the pinned target.
ByName(c) ==
    \/ c.kind \in {"rename", "link", "symlink"}
    \/ /\ c.kind = "mutate"
       /\ \/ c.scalar = "nofollow"
          \/ \E j \in DOMAIN c.access : c.access[j] \in {"create", "delete"}

CommitOp(c) ==
    CASE c.kind = "net"                  -> "network"
      [] c.kind = "open"                 -> "open"
      [] c.kind # "open" /\ ByName(c)    -> "entry"
      [] OTHER                           -> "mutate"

\* Mutant of CommitRequest: the destination is read again at commit.
CommitRequestRereads ==
    [NoReq EXCEPT !.op = CommitOp(call[cur]), !.no = callno[cur],
                  !.val = IF call[cur].kind = "net" THEN mem[cur][1] ELSE Bad,
                  !.toks = Tokens(prepared)]

CommitRequest ==
    [NoReq EXCEPT !.op = CommitOp(call[cur]), !.no = callno[cur],
                  !.val = IF call[cur].kind = "net" THEN fact[1] ELSE Bad,
                  !.toks = Tokens(prepared)]

\* Mutant of DropRecorded: a dead call's pins are forgotten.
DropRecordedLeaks ==
    /\ pc' = "poll" /\ prepared' = <<>>
    /\ UNCHANGED <<cur, curId, fact, stale, dec, answer, ret>>

\* The recorded call is dead: its pins are released and nothing is sent.
DropRecorded ==
    \/ prepared = <<>> /\ Drop
    \/ /\ prepared # <<>> /\ pc' = "release" /\ ret' = "poll"
       /\ UNCHANGED <<cur, curId, fact, stale, prepared, dec, answer>>

\* An allow whose realization fails before the broker is asked: an openat2
\* the broker does not support, a socket that cannot be duplicated.
RefuseLate ==
    /\ answer' = "errno"
    /\ pc' = IF prepared = <<>> THEN "send" ELSE "release"
    /\ ret' = "send"
    /\ UNCHANGED <<cur, curId, fact, stale, prepared, dec>>

\* The check at the end of the record step, then the commit.  A thread that
\* dies between the check and the duplication of its socket makes the latter
\* fail, which is RefuseLate for a network call whatever its descriptor.
Commit ==
    /\ pc = "valid3"
    /\ \/ ~IdValid /\ DropRecorded /\ UNCHANGED brokerVars
       \/ /\ IdValid /\ call[cur].scalar \in {"fdrange", "oversize"}
          /\ pc' = "abort" /\ UNCHANGED <<handlerVars, brokerVars>>
       \/ /\ IdValid /\ call[cur].scalar \notin {"fdrange", "oversize"}
          /\ call[cur].kind = "net" \/ call[cur].scalar = "unsup"
          /\ RefuseLate /\ UNCHANGED brokerVars
       \/ /\ IdValid /\ call[cur].scalar \notin {"fdrange", "oversize", "unsup"}
          /\ SendRequest(CommitRequest)
          /\ pc' = "await_commit" /\ UNCHANGED handlerVars
    /\ UNCHANGED <<kernelVars, logVars, historyVars>>

\* The tokens are spent whatever the result was.
RecvResult ==
    /\ pc = "await_commit" /\ resp.res # "none"
    /\ TakeResponse
    /\ answer' = resp.res
    /\ prepared' = <<>>
    /\ pc' = "send"
    /\ UNCHANGED <<cur, curId, fact, stale, dec, ret, kernelVars,
                   logVars, historyVars>>

Release ==
    /\ pc = "release"
    /\ SendRequest([NoReq EXCEPT !.op = "release", !.toks = <<prepared[1].token>>])
    /\ pc' = "await_release"
    /\ UNCHANGED <<handlerVars, kernelVars, logVars, historyVars>>

RecvReleased ==
    /\ pc = "await_release" /\ resp.res # "none"
    /\ TakeResponse
    /\ prepared' = Tail(prepared)
    /\ pc' = IF prepared' = <<>> THEN ret ELSE "release"
    /\ UNCHANGED <<cur, curId, fact, stale, dec, answer, ret, kernelVars,
                   logVars, historyVars>>

\* What a response makes of the thread: CONTINUE lets the call run, an errno,
\* a value or an installed descriptor is its result.
respond(a) == IF a = "continue" THEN "exec" ELSE "run"

\* Mutant of Send: any error of the ioctl is tolerated like a dead call's.
SendToleratesAll ==
    /\ pc = "send" /\ pc' = "poll"
    /\ tstate' = IF ~IdValid \/ (answer = "fd" /\ call[cur].scalar = "fdfull")
                 THEN tstate ELSE [tstate EXCEPT ![cur] = respond(answer)]
    /\ UNCHANGED <<call, mem, nid, callno, nextId, listener, handlerVars,
                   brokerVars, logVars, historyVars>>

\* Mutant of Send: ENOENT is retried.
SendRetries ==
    /\ pc = "send" /\ IdValid
    /\ tstate' = [tstate EXCEPT ![cur] = respond(answer)]
    /\ pc' = "poll"
    /\ UNCHANGED <<call, mem, nid, callno, nextId, listener, handlerVars,
                   brokerVars, logVars, historyVars>>

\* NOTIF_SEND or ADDFD.  A dead notification is tolerated (case B); an fd
\* the child's table has no room for is not.
Send ==
    /\ pc = "send"
    /\ \/ ~IdValid /\ pc' = "poll" /\ UNCHANGED tstate
       \/ /\ IdValid /\ answer = "fd" /\ call[cur].scalar = "fdfull"
          /\ pc' = "abort" /\ UNCHANGED tstate
       \/ /\ IdValid /\ ~(answer = "fd" /\ call[cur].scalar = "fdfull")
          /\ tstate' = [tstate EXCEPT ![cur] = respond(answer)]
          /\ pc' = "poll"
    /\ UNCHANGED <<call, mem, nid, callno, nextId, listener, handlerVars,
                   brokerVars, logVars, historyVars>>

-----------------------------------------------------------------------------
(***************************************************************************)
(* Failure: broker deadline and death, ioctl errors, abort, crash.         *)
(***************************************************************************)

Awaiting == {"await_prepare", "await_commit", "await_release"}

\* Mutant of AwaitFails: only a closed socket ends the wait.
AwaitHasNoDeadline ==
    /\ pc \in Awaiting /\ broker = "dead"
    /\ held' = {} /\ req' = NoReq /\ resp' = NoResp
    /\ pc' = "abort"
    /\ UNCHANGED <<broker, next_token, slot, handlerVars, kernelVars, logVars, historyVars>>

\* Broker::recv_response: the deadline passes and the broker is killed, or
\* its end of the socket is closed.  Either way the run aborts, even when
\* the answer arrives between the poll that timed out and the kill.
AwaitFails ==
    /\ pc \in Awaiting
    /\ broker' = "dead" /\ held' = {} /\ req' = NoReq /\ resp' = NoResp
    /\ pc' = "abort"
    /\ UNCHANGED <<next_token, slot, handlerVars, kernelVars, logVars, historyVars>>

\* Its poll or its receive fails: the run aborts as well, but the broker lives
\* on and still serves the request in its socket.
PollFails ==
    /\ "kernel" \in Faults
    /\ pc \in Awaiting /\ pc' = "abort"
    /\ UNCHANGED <<handlerVars, kernelVars, brokerVars, logVars, historyVars>>

\* An ioctl fails outside the per-notification arcs.  A failed poll or
\* receive has no pending call to deny.
KernelFails ==
    /\ "kernel" \in Faults
    /\ \/ pc \in {"valid1", "valid2", "valid3", "send"} /\ pc' = "abort"
       \/ pc = "poll" /\ pc' = "kill"
    /\ UNCHANGED <<handlerVars, kernelVars, brokerVars, logVars, historyVars>>

\* run_loop's error arm: deny the pending call best-effort ...
AbortDeny ==
    /\ pc = "abort" /\ pc' = "kill"
    /\ tstate' = IF IdValid THEN [tstate EXCEPT ![cur] = "run"] ELSE tstate
    /\ UNCHANGED <<call, mem, nid, callno, nextId, listener, handlerVars,
                   brokerVars, logVars, historyVars>>

\* ... abort_run: kill and reap the direct child only ...
AbortKill ==
    /\ pc = "kill" /\ pc' = "close"
    /\ tstate' = [t \in Thread |-> IF t \in Root THEN "dead" ELSE tstate[t]]
    /\ UNCHANGED <<call, mem, nid, callno, nextId, listener, handlerVars,
                   brokerVars, logVars, historyVars>>

\* ... and drop the listener, which fails whatever else is pending.
AbortClose ==
    /\ pc = "close" /\ pc' = "aborted"
    /\ listener' = "closed" /\ tstate' = Released(tstate)
    /\ UNCHANGED <<call, mem, nid, callno, nextId, handlerVars, brokerVars,
                   logVars, historyVars>>

\* Case G: the supervisor dies and the kernel closes the listener.
Crash ==
    /\ "crash" \in Faults /\ pc \notin Terminal
    /\ pc' = "crashed"
    /\ listener' = "closed" /\ tstate' = Released(tstate)
    /\ UNCHANGED <<call, mem, nid, callno, nextId, handlerVars, brokerVars,
                   logVars, historyVars>>

-----------------------------------------------------------------------------
(***************************************************************************)
(* The broker process: one request at a time, answered on the same socket. *)
(***************************************************************************)

Pins(toks) == {p \in held : \E i \in DOMAIN toks : toks[i] = p.token}
Serving(ops) == broker = "alive" /\ req.op \in ops
Reply(r) == resp' = r /\ req' = NoReq /\ UNCHANGED broker
Errno == [NoResp EXCEPT !.res = "errno"]

\* Mutant of NextToken: the counter is incremented without a check.
NextTokenUnchecked == next_token + 1

\* checked_add(1).unwrap_or(1)
NextToken == IF next_token = MaxToken THEN 1 ELSE next_token + 1

\* The two lookups of a path, of the target and of the parent that holds its
\* name, agree unless a process outside the tree swaps a symlink between them.
Lookups(path) ==
    {found \in Resolve[path] \X Resolve[path] :
        "outside" \notin Faults => found[1] = found[2]}

\* BrokerState::prepare_path: open the target, then the parent of its name, and
\* hand out the next token; the counter wraps to 1.  The identity is that of
\* the target, or of the name when there is no target.  HashMap::insert
\* replaces an entry under the token.
BrokerPrepare ==
    /\ Serving({"prepare"})
    /\ \/ /\ Reply(Errno)
          /\ UNCHANGED <<held, next_token, slot>>
       \/ \E found \in Lookups(req.val), exists \in {TRUE, ~req.missing} :
          LET identity == IF exists THEN found[1] ELSE found[2] IN
          /\ held' = {p \in held : p.token # next_token} \cup
                     {[token |-> next_token, identity |-> identity,
                       exists |-> exists]}
          /\ slot' = [slot EXCEPT ![next_token] =
                        [name |-> found[2], moved |-> exists /\ found[1] # found[2]]]
          /\ next_token' = NextToken
          /\ Reply([res |-> "prepared", token |-> next_token,
                    identity |-> identity, exists |-> exists])
    /\ UNCHANGED <<pc, handlerVars, kernelVars, logVars, historyVars>>

BrokerRelease ==
    /\ Serving({"release"})
    /\ held' = held \ Pins(req.toks)
    /\ Reply([NoResp EXCEPT !.res = "released"])
    /\ UNCHANGED <<next_token, slot, pc, handlerVars, kernelVars, logVars, historyVars>>

\* Mutant of Acted: every operation goes by the name.
ActedByName ==
    CASE req.op = "network" -> <<req.val>>
      [] OTHER              -> [i \in DOMAIN req.toks |-> slot[req.toks[i]].name]

\* What the broker operates on, in token order: the pinned target (or the name
\* that stands for its identity), the entry under the pinned parent, or the
\* copied destination.
Acted ==
    CASE req.op = "network" -> <<req.val>>
      [] req.op = "entry"   -> [i \in DOMAIN req.toks |-> slot[req.toks[i]].name]
      [] OTHER              -> [i \in DOMAIN req.toks |->
                                  (CHOOSE p \in held : p.token = req.toks[i]).identity]

\* The destination of a rename was there when it was pinned.  Its name is
\* looked up again at commit (rename_held), so another process may have
\* created or removed it since.
Replaced == {p \in held : Len(req.toks) = 2 /\ p.token = req.toks[2] /\ p.exists}
Replaces == {b \in BOOLEAN : \/ b = (Replaced # {})
                             \/ "outside" \in Faults /\ Len(req.toks) = 2}

\* `moved` is history: since the target was pinned, a process outside the tree
\* has changed what its name leads to.
Effect(replaces) ==
    [id |-> curId, thread |-> cur, no |-> req.no, via |-> "broker",
     args |-> Acted, replaces |-> replaces,
     moved |-> \/ \E i \in DOMAIN req.toks : slot[req.toks[i]].moved
               \/ replaces # (Replaced # {})]

AllPinned == \A i \in DOMAIN req.toks : \E p \in held : p.token = req.toks[i]

\* commit_open, commit_mutation and network: the tokens leave the table, the
\* operation succeeds or fails natively, the result is sent back.  The
\* broker may die after the operation and before the reply.
BrokerCommit ==
    /\ Serving({"open", "mutate", "entry", "network"})
    /\ held' = held \ Pins(req.toks)
    /\ \/ /\ AllPinned
          /\ \E replaces \in Replaces :
                effects' = Append(effects, Effect(replaces))
          /\ \/ Reply([NoResp EXCEPT !.res =
                          IF req.op = "open" THEN "fd" ELSE "value"])
             \/ /\ "broker" \in Faults
                /\ broker' = "dead" /\ req' = NoReq /\ UNCHANGED resp
       \/ Reply(Errno) /\ UNCHANGED effects
    /\ UNCHANGED <<next_token, slot, pc, handlerVars, kernelVars, logVars, prompts>>

BrokerDies ==
    /\ "broker" \in Faults /\ broker = "alive"
    /\ broker' = "dead" /\ held' = {} /\ req' = NoReq
    /\ UNCHANGED <<resp, next_token, slot, pc, handlerVars, kernelVars, logVars, historyVars>>

\* Shutdown, or end of file on the socket, once the requests before it are
\* served.
BrokerStops ==
    /\ pc \in Terminal /\ broker = "alive" /\ req.op = "none"
    /\ broker' = "dead" /\ held' = {}
    /\ UNCHANGED <<req, resp, next_token, slot, pc, handlerVars, kernelVars, logVars,
                   historyVars>>

BrokerStep == BrokerPrepare \/ BrokerRelease \/ BrokerCommit \/ BrokerStops

-----------------------------------------------------------------------------

\* A step of the supervisor's own code.
Supervisor ==
    \/ \E t \in Thread : Recv(t)
    \/ Hangup \/ BracketOpen \/ Gather \/ BracketClose \/ WalkTree
    \/ PreparePath \/ RecvPrepared \/ Decide \/ Prompt \/ Record
    \/ Commit \/ RecvResult \/ Release \/ RecvReleased \/ Send
    \/ AwaitFails \/ AbortDeny \/ AbortKill \/ AbortClose

Fault == RecordFails \/ KernelFails \/ PollFails \/ Crash \/ BrokerDies

\* The run is over and nothing is left running.
Finished ==
    /\ pc \in Terminal /\ broker = "dead"
    /\ \A t \in Thread : tstate[t] = "dead"
    /\ UNCHANGED vars

Next == Tree \/ Supervisor \/ BrokerStep \/ Fault \/ Finished

Spec == Init /\ [][Next]_vars

\* The supervisor is a running process whose every wait is bounded (poll
\* 100 ms, broker 30 s, ask timeout): some step of it happens.
FairSpec == Spec /\ WF_vars(Supervisor \/ RecordFails)

-----------------------------------------------------------------------------
(***************************************************************************)
(* Properties.                                                             *)
(***************************************************************************)

PcValues == {"poll", "tree", "valid1", "gather", "valid2", "prepare", "decide",
             "ask", "record", "valid3", "release", "send", "abort", "kill",
             "close"} \cup Awaiting \cup Terminal

Answers == {"continue", "eacces", "enosys", "errno", "value", "fd",
            "prepared", "released"}
Requests == {"none", "prepare", "release", "open", "mutate", "entry", "network"}
Results == {"none", "prepared", "released", "errno", "value", "fd"}
Token == 1..MaxToken
PreparedPath == [token : Token, identity : Value, exists : BOOLEAN]
RequestPacket == [op : Requests, val : Operand, missing : BOOLEAN, toks : Seq(Token),
                  no : Nat]
ResponsePacket == [res : Results, token : Nat, identity : Operand, exists : BOOLEAN]
EventRecord == [id : Nat, call : CallRecord, fact : Seq(Operand), stale : BOOLEAN,
                event : Verdict, resolution : Resolution]
EffectRecord == [id : Nat, thread : Thread, no : Nat, via : {"kernel", "broker"},
                 args : Seq(Operand), replaces : BOOLEAN, moved : BOOLEAN]
AskItem == [operand : Operand, access : Access \cup {"connect", "exec"}]
PromptRecord == [id : Nat, items : SUBSET AskItem, answer : Resolution]

KernelType ==
    /\ tstate \in [Thread -> {"run", "queued", "held", "restart", "exec", "dead"}]
    /\ call \in [Thread -> CallRecord]
    /\ mem \in [Thread -> Seq(Operand)]
    /\ nid \in [Thread -> Nat]
    /\ callno \in [Thread -> Nat]
    /\ nextId \in Nat
    /\ listener \in {"open", "closed"}

HandlerType ==
    /\ pc \in PcValues
    /\ cur \in Thread
    /\ curId \in Nat
    /\ fact \in Seq(Operand)
    /\ stale \in BOOLEAN
    /\ prepared \in Seq(PreparedPath)
    /\ dec \in ResolvedDecision
    /\ answer \in Answers
    /\ ret \in {"poll", "record", "send"}

BrokerType ==
    /\ broker \in {"alive", "dead"}
    /\ req \in RequestPacket
    /\ resp \in ResponsePacket
    /\ held \subseteq PreparedPath
    /\ next_token \in Token
    /\ slot \in [Token -> [name : Operand, moved : BOOLEAN]]

LogType ==
    /\ trace \in Seq(EventRecord)
    /\ writer \in {"ok", "failed"}
    /\ effects \in Seq(EffectRecord)
    /\ prompts \in Seq(PromptRecord)

\* Every variable has its type: in particular the broker's token counter
\* stays in its range when it wraps and never hands out 0 (broker.rs), and
\* what is recorded, prompted or acted on is a sequence of operands, never a
\* missing one.
TypeOK == KernelType /\ HandlerType /\ BrokerType /\ LogType

-----------------------------------------------------------------------------

\* The trace says the notification's action was permitted.
Permitted(id) == \E i \in DOMAIN trace : trace[i].id = id /\ Permits(trace[i])

\* Record precedes respond: whatever takes effect, through CONTINUE or by the
\* broker, was first recorded as permitted under the same notification, even
\* when the thread dies, the broker dies, the record fails or the supervisor
\* crashes between any two steps (record and respond in run.rs).
RecordedBeforeEffect == \A i \in DOMAIN effects : Permitted(effects[i].id)

\* The accesses a broker operation exercises on its i-th operand.
Exercises(c, i, replaces) ==
    CASE c.kind = "rename" /\ c.scalar = "exchange" -> {"delete", "create"}
      [] c.kind = "rename" /\ c.scalar # "exchange" ->
            IF i = 1 THEN {"delete"}
            ELSE IF replaces THEN {"create", "delete"} ELSE {"create"}
      [] c.kind = "link"    -> IF i = 1 THEN {"read"} ELSE {"create"}
      [] c.kind = "symlink" -> {"create"}
      [] OTHER              -> {c.access[j] : j \in DOMAIN c.access}

\* The policy allows it, or asks and one approved prompt of this call listed
\* that access to that operand.
Granted(id, item, verdict) ==
    \/ verdict = "allow"
    \/ /\ verdict = "ask"
       /\ \E k \in DOMAIN prompts :
             /\ prompts[k].id = id /\ prompts[k].answer = "approved"
             /\ item \in prompts[k].items

\* Each access the call exercises on each of its operands is granted by the
\* policy for that very operand.
Authorized(id, c, args, replaces) ==
    \A k \in DOMAIN args :
        IF c.kind = "net"
        THEN Granted(id, Item(args[k], "connect"), NetDecision(args[k]))
        ELSE \A a \in Exercises(c, k, replaces) :
                Granted(id, Item(args[k], a), FsDecisions(args[k], <<a>>)[1])

\* The event decides the effect: it grants each access to the operands it
\* records, and these are what was operated on, unless the operation goes by a
\* name that a process outside the tree has moved since it was looked up.
Decides(event, effect) ==
    /\ event.id = effect.id
    /\ \E seen \in BOOLEAN :
          /\ \/ event.fact = effect.args /\ seen = effect.replaces
             \/ effect.moved /\ ByName(event.call)
          /\ Authorized(effect.id, event.call, event.fact, seen)

\* What the broker does is what was decided: its operands are the identities
\* the event records, and each access it exercises on each of them is granted
\* by the policy for that very identity, or was listed in the prompt that was
\* approved, whatever the path text resolved to, whoever rewrote it meanwhile
\* and however many tokens were handed out (handle_fs_enforce, handle_network,
\* settle_asks, BrokerState::commit_*).  A process outside the tree that swaps
\* symlinks does not change this for a pinned target or a socket; an entry under
\* a pinned parent it can move (CommitIsEvaluated, below).
EffectIsDecided ==
    \A i \in DOMAIN effects : effects[i].via = "broker" =>
        \E j \in DOMAIN trace : Decides(trace[j], effects[i])

\* No event holds a value read after its thread's death: the bracket of two
\* validity checks discards it (handle_fs, handle_exec, handle_process,
\* handle_network).
NoStaleFact == \A i \in DOMAIN trace : ~trace[i].stale

\* A call takes effect at most once, although signals restart calls whose
\* notification nobody received and a restarted call traps again
\* (WAIT_KILLABLE_RECV in child.rs, the commit after the last check in run.rs).
AtMostOnce ==
    \A i, j \in DOMAIN effects :
        /\ effects[i].thread = effects[j].thread
        /\ effects[i].no = effects[j].no
        => i = j

\* Between requests the broker pins exactly the paths the handler holds, under
\* distinct tokens, and nothing is pinned between notifications: every exit
\* of handle_fs_enforce, the early ones too, commits or releases its operands,
\* and wrapping the token counter never replaces a live pin.
PinsAccounted ==
    /\ (broker = "alive" /\ req = NoReq /\ resp = NoResp)
        => held = {prepared[i] : i \in DOMAIN prepared}
    /\ \A i, j \in DOMAIN prepared : prepared[i].token = prepared[j].token => i = j
    /\ pc = "poll" => prepared = <<>>

\* No call is forgotten: when the loop waits for the next notification, the
\* ones it received were answered or their threads are dead.  A live thread
\* left without an answer would wait for ever, since no signal reaches it
\* (Handled::Dropped, tolerate_dead, respond_broker_result).
NoneForgotten == pc = "poll" => \A t \in Thread : tstate[t] # "held"

Aborting == writer = "failed" \/ pc \in {"abort", "kill", "close", "aborted"}

\* Fail closed (case E and run_loop's error arm): once an event could not be
\* written, the broker failed or a system call did, nothing more is recorded,
\* the broker is asked for nothing more, no thread is let into its call, and
\* after a failed write the broker performs nothing.  (After a failed poll it
\* may still perform the recorded commit that was in its socket.)
FailClosed ==
    [][Aborting =>
          /\ trace' = trace
          /\ req' \in {req, NoReq}
          /\ \A i \in DOMAIN effects' \ DOMAIN effects :
                effects'[i].via = "broker" => writer = "ok"
          /\ \A t \in Thread : tstate'[t] = "exec" => tstate[t] = "exec"]_vars

\* The promise kept by all of this: Mediation, with the trace for its ledger
\* and the calls that go through the broker as the ones not handed back.
Monitor ==
    INSTANCE Mediation WITH
        ledger <- [i \in DOMAIN trace |->
                      [id |-> trace[i].id, permits |-> Permits(trace[i]),
                       operands |-> trace[i].fact,
                       named |-> ByName(trace[i].call),
                       delegated |-> ~Brokered(trace[i].call)]],
        acts   <- [i \in DOMAIN effects |->
                      [id |-> effects[i].id, operands |-> effects[i].args,
                       moved |-> effects[i].moved]],
        halted <- Aborting \/ pc \in Terminal

\* Every step of the notify loop, its broker and the tree they serve is a step
\* of the monitor or none of its concern, whatever dies or fails in between
\* (run_loop, handle_notification, BrokerState).
ImplementsMediation == Monitor!Spec

\* Nobody waits for ever: a trapped thread is answered, failed or killed,
\* although one thread of the supervisor serves the whole tree, the broker may
\* never answer and the operator may not either (recv_response, read_line).
TrappedIsServed ==
    \A t \in Thread :
        tstate[t] \in {"queued", "held"} ~> tstate[t] \notin {"queued", "held"}

\* The run ends once the whole tree is gone, whatever was being handled then
\* (POLLHUP in run_loop, ENOENT in tolerate_dead).
RunEnds == (\A t \in Thread : tstate[t] = "dead") ~> (pc \in Terminal)

-----------------------------------------------------------------------------
(***************************************************************************)
(* The inductive invariant behind TypeOK and RecordedBeforeEffect.         *)
(***************************************************************************)

\* The operands were read from a live thread and all of them are there.
Read == fact \in Seq(Value) /\ Len(fact) = Arity(call[cur].kind)

\* The call being handled cannot change under the handler.
Bound == pc \notin {"poll", "kill", "close"} \cup Terminal
            => tstate[cur] \in {"held", "dead"}

\* What the handler knows at each step.
Shape ==
    /\ \A t \in Thread : Len(mem[t]) = Arity(call[t].kind)
    /\ pc = "valid2" => fact = <<Bad>> \/ Read
    /\ pc \in {"prepare", "await_prepare", "decide", "ask"} => Read
    /\ pc \in {"prepare", "await_prepare"} =>
          Brokered(call[cur]) /\ Len(prepared) < Len(Operands(call[cur], fact))
    /\ (pc = "record" /\ dec.response = "allow" /\ Brokered(call[cur])) => fact # <<>>
    /\ pc = "valid3" => fact # <<>>
    /\ pc = "tree" => call[cur].kind = "ptrace"
    /\ pc \in {"release", "await_release"} =>
          prepared # <<>> /\ (ret = "record" => dec.response = "deny")
    /\ pc \in {"poll", "tree", "valid1", "gather", "valid2", "send"} => prepared = <<>>

\* The supervisor has given up.
Leaving == {"abort", "kill", "close", "aborted", "crashed"}

\* At most one packet is in the broker's socket, and the handler awaits it or
\* has given up.
Socket ==
    /\ req.op # "none" => pc \in Awaiting \cup Leaving
    /\ resp.res # "none" => req.op = "none" /\ pc \in Awaiting \cup Leaving
    /\ req.op = "prepare" => req.val \in Value
    /\ resp.res = "prepared" => resp.token \in Token /\ resp.identity \in Value

\* The next thing sent to the thread is the answer, perhaps after a release.
Answering == pc = "send" \/ (pc \in {"release", "await_release"} /\ ret = "send")

\* Whoever is about to cause an effect holds an event that permits it.
Authority ==
    /\ dec.response = "allow" => Permits(dec)
    /\ answer = "continue" => dec.response = "allow"
    /\ pc = "valid3" => Permitted(curId)
    /\ req.op \in {"open", "mutate", "entry", "network"} => Permitted(curId)
    /\ (answer = "continue" /\ Answering) => Permitted(curId)
    /\ \A t \in Thread : tstate[t] = "exec" => Permitted(nid[t])
    /\ RecordedBeforeEffect

\* The invariant the theorems rest on: how the handler's step, the packets in
\* the broker's socket, the pending calls and the trace determine each other
\* (run.rs, broker.rs).
IInv == TypeOK /\ Bound /\ Shape /\ Socket /\ Authority

\* A received notification is the one being handled, until it is answered; a
\* handler that releases its pins to drop the call has seen it dead.
OneHeld ==
    /\ \A t \in Thread : tstate[t] = "held" =>
          /\ t = cur /\ nid[t] = curId
          /\ pc \notin {"poll", "kill", "close"} \cup Terminal
    /\ (pc \in {"release", "await_release"} /\ ret = "poll") => tstate[cur] # "held"

\* After a failed write the handler is on its way out and asks the broker for
\* nothing.
Failed == writer = "failed" =>
    /\ pc \in Leaving
    /\ req.op = "none"

\* docs/CONTEXT.md: in record-only "every mediated syscall is allowed and
\* traced", the SR-4 set excepted.  A well-formed call with readable arguments
\* is meant, and creat is not one of them: mutation_invocation does not know it,
\* so it is refused in either mode (fs_shape, record_network_read_failure,
\* handle_cross_process).
RecordOnlyAllows ==
    RunMode = "record_only" =>
        \A i \in DOMAIN trace :
            LET c == trace[i].call
            IN  (/\ c.kind \notin {"foreign", "sr4", "creat"}
                 /\ c.scalar \in {"ok", "outside", "nofollow"}
                 /\ \A j \in DOMAIN c.args : c.args[j] # Bad)
                => trace[i].event = "allow"

-----------------------------------------------------------------------------
(***************************************************************************)
(* Statements of the documentation and comments the code does not meet.    *)
(***************************************************************************)

\* docs/adr/0020: the prepare phase "returns a stable broker token plus the
\* policy identity", "the supervisor evaluates and records that identity", and
\* the commit "uses the retained fd or parent-dirfd token to perform the
\* operation"; a rename requires "delete on the source and create on the
\* destination, plus delete on an existing replaced destination".  So the broker
\* operates on what was recorded, and each access it exercises on it, the
\* deletion of what a rename replaces included, is granted.
CommitIsEvaluated ==
    \A i \in DOMAIN effects : effects[i].via = "broker" =>
        \E j \in DOMAIN trace :
            /\ trace[j].id = effects[i].id /\ trace[j].fact = effects[i].args
            /\ Authorized(effects[i].id, trace[j].call, effects[i].args,
                          effects[i].replaces)

\* docs/design/notify-loop.md section 2: "A malformed or over-cap path or
\* `clone_args` resolves to deny", and docs/adr/0020 on taking the child's
\* socket: "failure denies the operation".  With no fault injected, the
\* arguments of one call never take the whole run down: only a lost broker does.
OnlyBrokerLossAborts == pc = "abort" => broker = "dead"
=============================================================================
