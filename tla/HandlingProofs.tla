--------------------------- MODULE HandlingProofs ---------------------------
(***************************************************************************)
(* One call, one notification, one effect: how notification ids, the call  *)
(* numbers of the threads, the trace and the effects stay in step while    *)
(* signals restart calls, threads die and the supervisor crashes; and what *)
(* the broker pins for it meanwhile.                                       *)
(***************************************************************************)
EXTENDS NotifyLoopProofs

USE DEF Leaving

-----------------------------------------------------------------------------
(***************************************************************************)
(* The inductive invariants.                                               *)
(***************************************************************************)

\* A notification is being handled.
Handling == pc \notin {"poll", "kill", "close"} \cup Terminal

\* It has not been recorded yet.
Unrecorded ==
    \/ pc \in {"tree", "valid1", "gather", "valid2", "prepare", "await_prepare",
              "decide", "ask", "record"}
    \/ pc \in {"release", "await_release"} /\ ret = "record"

\* The broker is asked to perform an operation.
Commits == {"open", "mutate", "entry", "network"}
Committing == req.op \in Commits

\* Each wait has its own requests and answers, and only a closed listener
\* outlives the loop.
Protocol ==
    /\ pc = "await_prepare" => /\ req.op \in {"none", "prepare"}
                               /\ resp.res \in {"none", "prepared", "errno"}
    /\ pc = "await_release" => /\ req.op \in {"none", "release"}
                               /\ resp.res \in {"none", "released"}
    /\ pc = "await_commit" => /\ req.op \in {"none"} \cup Commits
                              /\ resp.res \in {"none", "errno", "value", "fd"}
    /\ pc \in Terminal => listener = "closed"

\* Ids are handed out once and received in order.
Ids ==
    /\ nextId > 0
    /\ \A t \in Thread : nid[t] < nextId
    /\ \A t \in Thread : tstate[t] \in {"queued", "restart", "held", "exec"} => nid[t] > 0
    /\ \A t, u \in Thread : nid[t] = nid[u] /\ nid[t] > 0 => t = u
    /\ curId < nextId
    /\ \A t \in Thread : tstate[t] = "queued" => curId < nid[t]
    /\ \A t \in Thread : tstate[t] = "exec" => nid[t] <= curId
    /\ Handling => curId > 0 /\ nid[cur] = curId

\* Nothing is recorded of a notification that was not received, and nothing of
\* the one being handled before it is decided.
Ledger ==
    /\ \A i \in DOMAIN trace : trace[i].id <= curId
    /\ Unrecorded => \A i \in DOMAIN trace : trace[i].id < curId

\* The thread's current call has not taken effect, under any id.
Unspent(t) ==
    \A i \in DOMAIN effects :
        /\ effects[i].id # nid[t]
        /\ effects[i].thread = t => effects[i].no < callno[t]

\* The call a pending commit is for has not taken effect, and it is either the
\* thread's current one or, once the run aborts, one the thread was denied
\* before it went on.
Carried ==
    /\ 0 < curId /\ tstate[cur] # "exec"
    /\ \/ /\ curId = nid[cur] /\ req.no = callno[cur]
          /\ tstate[cur] \in {"held", "dead", "run"}
       \/ curId < nid[cur] /\ req.no < callno[cur]
    /\ \A t \in Thread : nid[t] = curId => t = cur
    /\ \A i \in DOMAIN effects :
          /\ effects[i].id # curId
          /\ effects[i].thread = cur => effects[i].no < req.no

\* A call that may still take effect has not done so yet.
Once ==
    /\ \A i \in DOMAIN effects : /\ effects[i].no <= callno[effects[i].thread]
                                 /\ effects[i].id < nextId
    /\ \A t \in Thread : tstate[t] \in {"queued", "restart", "exec"} => Unspent(t)
    /\ (Unrecorded \/ pc = "valid3") => Unspent(cur)
    /\ Committing => Carried
    /\ (answer = "continue" /\ Answering) => Unspent(cur)
    /\ AtMostOnce

\* Values read after the thread's death are never more than dropped.
Fresh ==
    /\ stale => \/ pc = "valid2" /\ tstate[cur] = "dead"
                \/ pc \in {"poll", "abort", "kill", "close"} \cup Terminal
    /\ NoStaleFact

\* A call RecordOnlyAllows speaks of.
Plain(c) ==
    /\ c.kind \notin {"foreign", "sr4", "creat"}
    /\ c.scalar \in {"ok", "outside", "nofollow"}
    /\ \A j \in DOMAIN c.args : c.args[j] # Bad

\* In a record-only run the only thing that can go wrong with reading such a
\* call is a destination that is none, which is allowed.
Observed ==
    /\ \A t \in Thread : Plain(call[t]) => ReadsWhole(mem[t])
    /\ prepared = <<>>
    /\ (pc = "valid2" /\ ~stale /\ fact = <<Bad>> /\ Plain(call[cur]))
          => call[cur].kind = "net"
    /\ (pc = "record" /\ Plain(call[cur])) => dec.event = "allow"
    /\ RecordOnlyAllows

-----------------------------------------------------------------------------
(***************************************************************************)
(* Requests, answers and the waits they belong to.                         *)
(***************************************************************************)

\* The supervisor's steps keep the packets of its waits apart.
LEMMA SupervisorProtocol ==
    ASSUME IInv, Protocol, Supervisor
    PROVE  Protocol'
<1>. USE DEF kernelVars, handlerVars, brokerVars, logVars, historyVars, Committing, Commits
<1>0. /\ tstate \in [Thread -> {"run", "queued", "held", "restart", "exec", "dead"}]
      /\ cur \in Thread
      /\ req.op # "none" => pc \in Awaiting \cup Leaving
      /\ resp.res # "none" => pc \in Awaiting \cup Leaving
      /\ pc \in Awaiting => tstate[cur] \in {"held", "dead"}
  BY DEF IInv, TypeOK, KernelType, HandlerType, Socket, Bound, Awaiting, Terminal
<1>1. ASSUME NEW t \in Thread, Recv(t) PROVE Protocol'
  <2>1. pc' \in {"record", "tree", "valid1"}
    BY <1>1, ClassifyShape DEF IInv, TypeOK, KernelType, Recv
  <2>. QED
    BY <1>0, <1>1, <2>1 DEF Recv, Protocol, Terminal, Awaiting
<1>2. CASE Hangup
  BY <1>0, <1>2 DEF Hangup, Protocol, Terminal, Awaiting
<1>3. CASE BracketOpen \/ Gather \/ WalkTree
  BY <1>0, <1>3 DEF BracketOpen, Gather, WalkTree, Drop, Protocol, Terminal, Awaiting
<1>4. CASE BracketClose
  <2>1. AfterRead(call[cur], fact).pc \in {"record", "prepare", "decide"}
    BY DEF AfterRead, Decided, Undecided, handle_fs, handle_exec, handle_process,
           handle_network
  <2>. QED
    BY <1>0, <1>4, <2>1 DEF BracketClose, Drop, Protocol, Terminal, Awaiting
<1>5. CASE PreparePath
  BY <1>0, <1>5 DEF PreparePath, RealizationDeny, SendRequest, NoReq, Protocol, Terminal,
     Awaiting
<1>6. CASE RecvPrepared \/ RecvResult \/ RecvReleased
  BY <1>0, <1>6 DEF RecvPrepared, RealizationDeny, RecvResult, RecvReleased, TakeResponse,
     NoResp, Protocol, Terminal, Awaiting, IInv, TypeOK, HandlerType
<1>7. CASE Decide \/ Prompt \/ Record
  BY <1>0, <1>7 DEF Decide, Prompt, Record, Settle, Protocol, Terminal, Awaiting
<1>8. CASE Commit
  <2>1. CommitRequest.op \in Commits
    BY DEF CommitRequest, CommitOp, NoReq
  <2>. QED
    BY <1>0, <1>8, <2>1 DEF Commit, DropRecorded, Drop, RefuseLate, SendRequest, IdValid,
       Protocol, Terminal, Awaiting
<1>9. CASE Release
  BY <1>0, <1>9 DEF Release, SendRequest, NoReq, Protocol, Terminal, Awaiting
<1>10. CASE Send
  BY <1>0, <1>10 DEF Send, Protocol, Terminal, Awaiting
<1>11. CASE AwaitFails
  BY <1>0, <1>11 DEF AwaitFails, NoReq, NoResp, Protocol, Terminal, Awaiting
<1>12. CASE AbortDeny \/ AbortKill \/ AbortClose
  BY <1>0, <1>12 DEF AbortDeny, AbortKill, AbortClose, Protocol, Terminal, Awaiting
<1>. QED
  BY <1>1, <1>2, <1>3, <1>4, <1>5, <1>6, <1>7, <1>8, <1>9, <1>10, <1>11, <1>12
     DEF Supervisor

\* So do the steps of everybody else.
LEMMA OthersProtocol ==
    ASSUME IInv, Protocol, Tree \/ BrokerStep \/ Fault \/ UNCHANGED vars
    PROVE  Protocol'
<1>. USE DEF vars, kernelVars, handlerVars, brokerVars, logVars, historyVars, Committing,
             Commits
<1>0. /\ tstate \in [Thread -> {"run", "queued", "held", "restart", "exec", "dead"}]
      /\ cur \in Thread
      /\ req.op # "none" => pc \in Awaiting \cup Leaving
      /\ resp.res # "none" => req.op = "none" /\ pc \in Awaiting \cup Leaving
      /\ pc \in Awaiting => tstate[cur] \in {"held", "dead"}
  BY DEF IInv, TypeOK, KernelType, HandlerType, Socket, Bound, Awaiting, Terminal
<1>1. CASE Tree
  <2>1. PICK u \in Thread : \/ Trap(u) \/ SignalCancel(u) \/ Retrap(u) \/ Rewrite(u)
                            \/ ExecuteContinued(u) \/ Die(u)
    BY <1>1 DEF Tree
  <2>. QED
    BY <1>0, <2>1 DEF Trap, SignalCancel, CancelledStates, Retrap, Rewrite, ExecuteContinued,
       Die, Protocol, Terminal, Awaiting
<1>2. CASE BrokerStep \/ BrokerDies
  BY <1>0, <1>2 DEF BrokerStep, BrokerPrepare, BrokerRelease, BrokerCommit, BrokerStops,
     BrokerDies, Serving, Reply, Errno, NoReq, NoResp, Protocol, Terminal, Awaiting
<1>3. CASE RecordFails \/ KernelFails \/ PollFails
  BY <1>0, <1>3 DEF RecordFails, KernelFails, PollFails, Protocol, Terminal, Awaiting
<1>4. CASE Crash
  BY <1>0, <1>4 DEF Crash, Released, Protocol, Terminal, Awaiting
<1>5. CASE UNCHANGED vars
  BY <1>5 DEF Protocol
<1>. QED
  BY <1>1, <1>2, <1>3, <1>4, <1>5 DEF Fault

-----------------------------------------------------------------------------
(***************************************************************************)
(* The steps that matter to the history of a call.                         *)
(***************************************************************************)

\* A step in which the handled call only moves on: no thread changes, nothing
\* takes effect, and what is recorded is the event of an unrecorded call.
Quiet ==
    /\ UNCHANGED <<kernelVars, cur, curId, effects>>
    /\ Handling' => Handling
    /\ Unrecorded' => Unrecorded
    /\ pc' = "valid3" => Unrecorded \/ pc = "valid3"
    /\ Committing' => \/ pc = "valid3" /\ IdValid /\ req'.no = callno[cur]
                      \/ Committing /\ req' = req
    /\ (answer' = "continue" /\ Answering')
          => Unrecorded \/ (answer = "continue" /\ Answering)
    /\ \/ trace' = trace
       \/ Unrecorded /\ ~Unrecorded' /\ trace' = Append(trace, Event)

\* Everything else the system does.
Loud ==
    \/ Tree \/ (\E t \in Thread : Recv(t)) \/ Hangup \/ Send
    \/ AbortDeny \/ AbortKill \/ AbortClose \/ Crash \/ BrokerCommit

\* Each step is one or the other.
LEMMA QuietOrLoud ==
    ASSUME IInv, Protocol, [Next]_vars
    PROVE  Quiet \/ Loud
<1>. USE DEF vars, kernelVars, handlerVars, brokerVars, logVars, historyVars, Quiet,
             Handling, Unrecorded, Committing, Commits, Answering, Terminal
<1>0. /\ req.op # "none" => pc \in Awaiting \cup Leaving
      /\ resp.res # "none" => pc \in Awaiting \cup Leaving
      /\ ret \in {"poll", "record", "send"}
  BY DEF IInv, TypeOK, HandlerType, Socket
<1>1. CASE BracketOpen \/ Gather \/ WalkTree
  BY <1>0, <1>1 DEF BracketOpen, Gather, WalkTree, Drop, Awaiting
<1>2. CASE BracketClose
  <2>1. AfterRead(call[cur], fact).pc \in {"record", "prepare", "decide"}
    BY DEF AfterRead, Decided, Undecided, handle_fs, handle_exec, handle_process,
           handle_network
  <2>. QED
    BY <1>0, <1>2, <2>1 DEF BracketClose, Drop, Awaiting
<1>3. CASE PreparePath
  BY <1>0, <1>3 DEF PreparePath, RealizationDeny, SendRequest, NoReq, Awaiting
<1>4. CASE RecvPrepared
  BY <1>0, <1>4 DEF RecvPrepared, RealizationDeny, TakeResponse, Protocol
<1>5. CASE Decide \/ Prompt
  BY <1>0, <1>5 DEF Decide, Prompt, Settle, Awaiting
<1>6. CASE Record
  BY <1>0, <1>6 DEF Record, Awaiting
<1>7. CASE Commit
  <2>1. CommitRequest.no = callno[cur]
    BY DEF CommitRequest, NoReq
  <2>. QED
    BY <1>0, <1>7, <2>1 DEF Commit, DropRecorded, Drop, RefuseLate, SendRequest, Awaiting
<1>8. CASE RecvResult
  BY <1>0, <1>8 DEF RecvResult, TakeResponse, Protocol
<1>9. CASE Release
  BY <1>0, <1>9 DEF Release, SendRequest, NoReq, Awaiting
<1>10. CASE RecvReleased
  BY <1>0, <1>10 DEF RecvReleased, TakeResponse, Protocol
<1>11. CASE AwaitFails
  BY <1>0, <1>11 DEF AwaitFails, NoReq, Awaiting
<1>12. CASE RecordFails \/ KernelFails \/ PollFails
  BY <1>0, <1>12 DEF RecordFails, KernelFails, PollFails, Awaiting
<1>13. CASE BrokerPrepare \/ BrokerRelease \/ BrokerStops \/ BrokerDies
  BY <1>0, <1>13 DEF BrokerPrepare, BrokerRelease, BrokerStops, BrokerDies, Reply, NoReq
<1>14. CASE UNCHANGED vars
  BY <1>14
<1>. QED
  BY <1>1, <1>2, <1>3, <1>4, <1>5, <1>6, <1>7, <1>8, <1>9, <1>10, <1>11, <1>12, <1>13,
     <1>14 DEF Next, Supervisor, BrokerStep, Fault, Finished, Loud

\* A commit leaves the handler where it is and performs one operation at most.
LEMMA CommitPerforms ==
    ASSUME BrokerCommit
    PROVE  /\ UNCHANGED <<kernelVars, pc, handlerVars, logVars, prompts>>
           /\ Committing /\ ~Committing'
           /\ \/ effects' = effects
              \/ /\ AllPinned
                 /\ \E replaces \in Replaces : effects' = Append(effects, Effect(replaces))
BY DEF BrokerCommit, Serving, Reply, NoReq, Committing, Commits

-----------------------------------------------------------------------------
(***************************************************************************)
(* Notification ids.                                                       *)
(***************************************************************************)

\* Ids are handed out once and received in order, whoever steps.
LEMMA IdsStep ==
    ASSUME IInv, OneHeld, Protocol, Ids, [Next]_vars
    PROVE  Ids'
<1>. USE DEF kernelVars, handlerVars, brokerVars, logVars, historyVars, Handling
<1>0. /\ tstate \in [Thread -> {"run", "queued", "held", "restart", "exec", "dead"}]
      /\ nid \in [Thread -> Nat] /\ nextId \in Nat /\ cur \in Thread /\ curId \in Nat
      /\ Handling => tstate[cur] \in {"held", "dead"}
  BY DEF IInv, TypeOK, KernelType, HandlerType, Bound
<1>1. CASE Quiet
  BY <1>1 DEF Quiet, Ids, Terminal
<1>2. CASE Tree
  <2>1. PICK u \in Thread : \/ Trap(u) \/ SignalCancel(u) \/ Retrap(u) \/ Rewrite(u)
                            \/ ExecuteContinued(u) \/ Die(u)
    BY <1>2 DEF Tree
  <2>2. CASE Trap(u) \/ Retrap(u)
    <3>1. Handling => u # cur
      BY <1>0, <2>2 DEF Trap, Retrap, Awaiting, Terminal
    <3>. QED
      BY <1>0, <2>2, <3>1 DEF Trap, Retrap, Ids
  <2>3. CASE SignalCancel(u) \/ Rewrite(u) \/ ExecuteContinued(u) \/ Die(u)
    BY <1>0, <2>3 DEF SignalCancel, CancelledStates, Rewrite, ExecuteContinued, Die, Ids
  <2>. QED
    BY <2>1, <2>2, <2>3
<1>3. ASSUME NEW t \in Thread, Recv(t) PROVE Ids'
  BY <1>0, <1>3 DEF Recv, Ids
<1>4. CASE Send
  BY <1>0, <1>4 DEF Send, respond, IdValid, Ids, Terminal
<1>5. CASE Hangup \/ AbortDeny \/ AbortKill \/ AbortClose \/ Crash
  BY <1>0, <1>5 DEF Hangup, AbortDeny, AbortKill, AbortClose, Crash, Released, IdValid, Ids,
     Terminal, Awaiting
<1>6. CASE BrokerCommit
  BY <1>6, CommitPerforms DEF Ids
<1>. QED
  BY <1>1, <1>2, <1>3, <1>4, <1>5, <1>6, QuietOrLoud DEF Loud

\* The ids, threads and call numbers of the histories.
LEMMA LogFields ==
    ASSUME IInv
    PROVE  /\ \A i \in DOMAIN trace : trace[i].id \in Nat
           /\ \A i \in DOMAIN effects : /\ effects[i].id \in Nat /\ effects[i].no \in Nat
                                        /\ effects[i].thread \in Thread
<1>1. trace \in Seq(EventRecord) /\ effects \in Seq(EffectRecord)
  BY DEF IInv, TypeOK, LogType
<1>2. \A i \in DOMAIN trace : trace[i] \in EventRecord
  BY <1>1
<1>3. \A i \in DOMAIN effects : effects[i] \in EffectRecord
  BY <1>1
<1>. QED
  BY <1>2, <1>3 DEF EventRecord, EffectRecord

\* The trace is in the order in which the notifications were received.
LEMMA LedgerStep ==
    ASSUME IInv, OneHeld, Protocol, Ids, Ledger, [Next]_vars
    PROVE  Ledger'
<1>. USE DEF kernelVars, handlerVars, brokerVars, logVars, historyVars
<1>0. trace \in Seq(EventRecord) /\ curId \in Nat /\ nid \in [Thread -> Nat]
  BY DEF IInv, TypeOK, KernelType, HandlerType, LogType
<1>1. CASE Quiet
  <2>1. CASE trace' = trace
    BY <1>1, <2>1 DEF Quiet, Ledger
  <2>2. CASE Unrecorded /\ ~Unrecorded' /\ trace' = Append(trace, Event)
    <3>1. Event.id = curId
      BY DEF Event
    <3>. HIDE DEF Event
    <3>2. \A i \in DOMAIN trace' : trace'[i].id <= curId
      BY <1>0, <2>2, <3>1 DEF Ledger
    <3>. QED
      BY <1>1, <2>2, <3>2 DEF Quiet, Ledger
  <2>. QED
    BY <1>1, <2>1, <2>2 DEF Quiet
<1>2. CASE Tree
  BY <1>2 DEF Tree, Trap, SignalCancel, Retrap, Rewrite, ExecuteContinued, Die, Ledger,
     Unrecorded
<1>3. ASSUME NEW t \in Thread, Recv(t) PROVE Ledger'
  <2>1. curId < curId' /\ curId' \in Nat /\ trace' = trace
    BY <1>0, <1>3 DEF Recv, Ids
  <2>. QED
    BY <1>0, <2>1, LogFields DEF Ledger
<1>4. CASE Hangup \/ Send \/ AbortDeny \/ AbortKill \/ AbortClose \/ Crash
  BY <1>4 DEF Hangup, Send, AbortDeny, AbortKill, AbortClose, Crash, Ledger, Unrecorded
<1>5. CASE BrokerCommit
  BY <1>5, CommitPerforms DEF Ledger, Unrecorded
<1>. QED
  BY <1>1, <1>2, <1>3, <1>4, <1>5, QuietOrLoud DEF Loud

-----------------------------------------------------------------------------
(***************************************************************************)
(* At most one effect per call.                                            *)
(***************************************************************************)

\* An effect of a call that had none, under an id no other thread has: no
\* other call is spent by it and no call has two.
LEMMA NewEffect ==
    ASSUME IInv, Once, NEW t \in Thread, NEW e, NEW id \in Nat, NEW no \in Nat,
           e.id = id, e.thread = t, e.no = no, id < nextId, no <= callno[t],
           \A u \in Thread : nid[u] = id => u = t,
           \A i \in DOMAIN effects : effects[i].thread = t => effects[i].no < no,
           effects' = Append(effects, e), UNCHANGED <<nid, callno, nextId>>
    PROVE  /\ \A i \in DOMAIN effects' : /\ effects'[i].no <= callno'[effects'[i].thread]
                                         /\ effects'[i].id < nextId'
           /\ \A u \in Thread :
                 Unspent(u) /\ (u = t => nid[u] # id /\ no < callno[u]) => Unspent(u)'
           /\ AtMostOnce'
<1>0. /\ effects \in Seq(EffectRecord) /\ nid \in [Thread -> Nat]
      /\ callno \in [Thread -> Nat] /\ nextId \in Nat
  BY DEF IInv, TypeOK, KernelType, LogType
<1>1. /\ Len(effects) \in Nat /\ DOMAIN effects = 1..Len(effects)
      /\ DOMAIN effects' = 1..(Len(effects) + 1)
      /\ effects'[Len(effects) + 1] = e
      /\ \A i \in DOMAIN effects : effects'[i] = effects[i]
  BY <1>0
<1>2. \A i \in DOMAIN effects' : i \in DOMAIN effects \/ effects'[i] = e
  BY <1>1
<1>3. \A i \in DOMAIN effects' : /\ effects'[i].no <= callno'[effects'[i].thread]
                                 /\ effects'[i].id < nextId'
  BY <1>0, <1>1, <1>2 DEF Once
<1>4. ASSUME NEW u \in Thread, Unspent(u), u = t => nid[u] # id /\ no < callno[u]
      PROVE  Unspent(u)'
  BY <1>0, <1>1, <1>2, <1>4 DEF Unspent
<1>5. AtMostOnce'
  <2>1. SUFFICES ASSUME NEW i \in DOMAIN effects', NEW j \in DOMAIN effects',
                        effects'[i].thread = effects'[j].thread,
                        effects'[i].no = effects'[j].no
                 PROVE  i = j
    BY DEF AtMostOnce
  <2>2. \A k \in DOMAIN effects : ~(effects[k].thread = e.thread /\ effects[k].no = e.no)
    BY <1>0, LogFields
  <2>3. CASE i \in DOMAIN effects /\ j \in DOMAIN effects
    BY <1>1, <2>1, <2>3 DEF Once, AtMostOnce
  <2>4. CASE i \notin DOMAIN effects /\ j \notin DOMAIN effects
    BY <1>1, <2>4
  <2>5. CASE i \in DOMAIN effects /\ j \notin DOMAIN effects
    BY <1>1, <1>2, <2>1, <2>2, <2>5
  <2>6. CASE i \notin DOMAIN effects /\ j \in DOMAIN effects
    BY <1>1, <1>2, <2>1, <2>2, <2>6
  <2>. QED
    BY <2>3, <2>4, <2>5, <2>6
<1>. QED
  BY <1>3, <1>4, <1>5

\* A step that adds no effect and issues no call.
LEMMA SameSpent ==
    ASSUME UNCHANGED <<effects, nid, callno>>
    PROVE  \A t \in Thread : Unspent(t)' <=> Unspent(t)
BY DEF Unspent

\* A call that may still take effect has not done so, whoever steps.
LEMMA OnceStep ==
    ASSUME IInv, OneHeld, Protocol, Ids, Once, [Next]_vars
    PROVE  Once'
<1>. USE DEF kernelVars, handlerVars, brokerVars, logVars, historyVars
<1>0. /\ tstate \in [Thread -> {"run", "queued", "held", "restart", "exec", "dead"}]
      /\ nid \in [Thread -> Nat] /\ callno \in [Thread -> Nat]
      /\ nextId \in Nat /\ cur \in Thread /\ curId \in Nat
  BY DEF IInv, TypeOK, KernelType, HandlerType
<1>a. Unrecorded \/ pc = "valid3" \/ Answering => tstate[cur] \in {"held", "dead"}
  BY DEF Unrecorded, Answering, IInv, Bound, Terminal
<1>b. Committing => pc \in {"await_commit"} \cup Leaving
  BY DEF Committing, Commits, Protocol, IInv, Socket, Awaiting
<1>1. CASE Quiet
  <2>1. UNCHANGED <<effects, nid, callno, nextId, cur, tstate>>
    BY <1>1 DEF Quiet
  <2>2. \A t \in Thread : Unspent(t)' <=> Unspent(t)
    BY <2>1, SameSpent
  <2>3. AtMostOnce'
    BY <2>1 DEF Once, AtMostOnce
  <2>4. Committing' => Carried'
    <3>1. CASE Committing /\ req' = req
      BY <2>1, <1>1, <3>1 DEF Once, Carried, Quiet
    <3>2. CASE pc = "valid3" /\ IdValid /\ req'.no = callno[cur]
      BY <1>0, <1>1, <2>1, <3>2 DEF Once, Carried, Unspent, Ids, Handling, Terminal, IdValid,
         Quiet
    <3>. QED
      BY <1>1, <3>1, <3>2 DEF Quiet
  <2>. HIDE DEF Unspent
  <2>. QED
    BY <1>0, <1>1, <2>1, <2>2, <2>3, <2>4 DEF Quiet, Once
<1>2. ASSUME NEW u \in Thread, Trap(u) \/ Retrap(u) PROVE Once'
  <2>1. u # cur \/ ~(Unrecorded \/ pc = "valid3" \/ Answering)
    BY <1>a, <1>2 DEF Trap, Retrap
  <2>2. \A t \in Thread \ {u} : Unspent(t)' <=> Unspent(t)
    BY <1>0, <1>2 DEF Trap, Retrap, Unspent
  <2>3. Unspent(u)'
    BY <1>0, <1>2, LogFields DEF Trap, Retrap, Unspent, Once
  <2>4. \A i \in DOMAIN effects' : /\ effects'[i].no <= callno'[effects'[i].thread]
                                   /\ effects'[i].id < nextId'
    BY <1>0, <1>2, LogFields DEF Trap, Retrap, Once
  <2>5. AtMostOnce'
    BY <1>2 DEF Trap, Retrap, Once, AtMostOnce
  <2>6. /\ Unrecorded' <=> Unrecorded
        /\ Committing' <=> Committing
        /\ Answering' <=> Answering
    BY <1>2 DEF Trap, Retrap, Unrecorded, Committing, Answering
  <2>7. /\ cur' = cur /\ pc' = pc /\ answer' = answer
        /\ \A t \in Thread \ {u} : tstate'[t] = tstate[t]
    BY <1>0, <1>2 DEF Trap, Retrap
  <2>8. Committing => Carried'
    <3>1. SUFFICES ASSUME Committing PROVE Carried'
      OBVIOUS
    <3>2. /\ Carried /\ UNCHANGED <<cur, curId, req, effects>>
          /\ nid' = [nid EXCEPT ![u] = nextId] /\ tstate' = [tstate EXCEPT ![u] = "queued"]
          /\ curId < nextId /\ req.no \in Nat
      BY <1>2, <3>1 DEF Trap, Retrap, Once, Ids, IInv, TypeOK, BrokerType, RequestPacket
    <3>3. CASE u = cur
      <4>1. curId < nid'[cur] /\ req.no < callno'[cur]
        BY <1>0, <1>2, <3>2, <3>3 DEF Trap, Retrap, Carried
      <4>. QED
        BY <1>0, <3>2, <3>3, <4>1 DEF Carried
    <3>4. CASE u # cur
      <4>1. callno'[cur] = callno[cur]
        BY <1>0, <1>2, <3>4 DEF Trap, Retrap
      <4>. QED
        BY <1>0, <3>2, <3>4, <4>1 DEF Carried
    <3>. QED
      BY <3>3, <3>4
  <2>. QED
    BY <1>0, <2>1, <2>2, <2>3, <2>4, <2>5, <2>6, <2>7, <2>8 DEF Once
<1>3. ASSUME NEW u \in Thread, SignalCancel(u) \/ Rewrite(u) \/ Die(u) PROVE Once'
  <2>1. UNCHANGED <<effects, nid, callno, nextId, cur, pc, answer, req, ret>>
    BY <1>3 DEF SignalCancel, Rewrite, Die
  <2>2. \A t \in Thread : Unspent(t)' <=> Unspent(t)
    BY <2>1, SameSpent
  <2>3. \A t \in Thread : tstate'[t] \in {"queued", "restart", "exec"}
                              => tstate[t] \in {"queued", "restart", "exec"}
    BY <1>0, <1>3 DEF SignalCancel, CancelledStates, Rewrite, Die
  <2>4. AtMostOnce'
    BY <2>1 DEF Once, AtMostOnce
  <2>5. Committing => Carried'
    BY <1>0, <1>3 DEF SignalCancel, CancelledStates, Rewrite, Die, Once, Carried
  <2>. QED
    BY <1>0, <2>1, <2>2, <2>3, <2>4, <2>5 DEF Once, Unrecorded, Committing, Answering
<1>4. ASSUME NEW u \in Thread, ExecuteContinued(u) PROVE Once'
  <2>. DEFINE e == [id |-> nid[u], thread |-> u, no |-> callno[u], via |-> "kernel",
                    args |-> mem[u], replaces |-> FALSE, moved |-> FALSE]
  <2>1. /\ effects' = Append(effects, e)
        /\ UNCHANGED <<nid, callno, nextId, cur, pc, answer, req, ret>>
    BY <1>4 DEF ExecuteContinued
  <2>2. e.id = nid[u] /\ e.thread = u /\ e.no = callno[u]
    OBVIOUS
  <2>. HIDE DEF e
  <2>3. Unspent(u) /\ nid[u] > 0
    BY <1>4 DEF ExecuteContinued, Once, Ids
  <2>4. /\ \A i \in DOMAIN effects' : /\ effects'[i].no <= callno'[effects'[i].thread]
                                      /\ effects'[i].id < nextId'
        /\ \A t \in Thread \ {u} : Unspent(t) => Unspent(t)'
        /\ AtMostOnce'
    <3>1. /\ nid[u] \in Nat /\ callno[u] \in Nat /\ nid[u] < nextId
          /\ \A t \in Thread : nid[t] = nid[u] => t = u
          /\ \A i \in DOMAIN effects : effects[i].thread = u => effects[i].no < callno[u]
      BY <1>0, <2>3 DEF Ids, Unspent
    <3>. QED
      BY <2>1, <2>2, <3>1, NewEffect
  <2>5. u # cur \/ ~(Unrecorded \/ pc = "valid3" \/ Answering)
    BY <1>4, <1>a DEF ExecuteContinued
  <2>6. \A t \in Thread : tstate'[t] \in {"queued", "restart", "exec"}
                              => t # u /\ tstate[t] = tstate'[t]
    BY <1>0, <1>4 DEF ExecuteContinued
  <2>7. Committing => Carried'
    <3>1. SUFFICES ASSUME Committing PROVE Carried'
      OBVIOUS
    <3>2. Carried /\ u # cur /\ tstate'[cur] = tstate[cur] /\ curId' = curId
      BY <1>0, <1>4, <3>1 DEF Once, Carried, ExecuteContinued
    <3>3. nid[u] # curId
      BY <3>2 DEF Carried
    <3>4. effects \in Seq(EffectRecord)
      BY DEF IInv, TypeOK, LogType
    <3>5. \A i \in DOMAIN effects' : effects'[i] = e \/ (i \in DOMAIN effects /\ effects'[i] = effects[i])
      BY <2>1, <3>4
    <3>. QED
      BY <2>1, <2>2, <3>2, <3>3, <3>5 DEF Carried
  <2>. QED
    BY <1>0, <2>1, <2>4, <2>5, <2>6, <2>7 DEF Once, Unrecorded, Committing, Answering
<1>5. ASSUME NEW t \in Thread, Recv(t) PROVE Once'
  <2>1. UNCHANGED <<effects, nid, callno, nextId, req>> /\ cur' = t
    BY <1>5 DEF Recv
  <2>2. \A u \in Thread : Unspent(u)' <=> Unspent(u)
    BY <2>1, SameSpent
  <2>3. Unspent(t)
    BY <1>5 DEF Recv, Once
  <2>4. \A u \in Thread : tstate'[u] \in {"queued", "restart", "exec"}
                              => tstate[u] = tstate'[u]
    BY <1>0, <1>5 DEF Recv
  <2>5. AtMostOnce'
    BY <2>1 DEF Once, AtMostOnce
  <2>6. ~Committing'
    BY <1>5, <1>b, <2>1 DEF Recv, Committing
  <2>. QED
    BY <1>0, <2>1, <2>2, <2>3, <2>4, <2>5, <2>6 DEF Once
<1>6. CASE Send
  <2>1. UNCHANGED <<effects, nid, callno, nextId, req, cur, answer, ret>>
           /\ pc' \in {"poll", "abort"}
    BY <1>6 DEF Send
  <2>2. \A u \in Thread : Unspent(u)' <=> Unspent(u)
    BY <2>1, SameSpent
  <2>3. \A u \in Thread : tstate'[u] \in {"queued", "restart", "exec"}
           => tstate[u] = tstate'[u] \/ (u = cur /\ answer = "continue" /\ Answering)
    BY <1>0, <1>6 DEF Send, respond, Answering
  <2>4. AtMostOnce'
    BY <2>1 DEF Once, AtMostOnce
  <2>5. ~Committing
    BY <1>6, <1>b DEF Send
  <2>. QED
    BY <1>0, <2>1, <2>2, <2>3, <2>4, <2>5 DEF Once, Unrecorded, Committing, Answering
<1>7. CASE Hangup \/ AbortDeny \/ AbortKill \/ AbortClose \/ Crash
  <2>1. UNCHANGED <<effects, nid, callno, nextId, req, cur, answer, ret>>
           /\ pc' \in {"kill", "close"} \cup Terminal
    BY <1>7 DEF Hangup, AbortDeny, AbortKill, AbortClose, Crash, Terminal
  <2>2. \A u \in Thread : Unspent(u)' <=> Unspent(u)
    BY <2>1, SameSpent
  <2>3. \A u \in Thread : tstate'[u] \in {"queued", "restart", "exec"}
           => tstate[u] = tstate'[u]
    BY <1>0, <1>7 DEF Hangup, AbortDeny, AbortKill, AbortClose, Crash, Released
  <2>4. AtMostOnce'
    BY <2>1 DEF Once, AtMostOnce
  <2>5. Committing => Carried'
    <3>1. /\ curId' = curId
          /\ tstate[cur] \in {"held", "dead", "run"} => tstate'[cur] \in {"held", "dead", "run"}
      BY <1>0, <1>7 DEF Hangup, AbortDeny, AbortKill, AbortClose, Crash, Released
    <3>. QED
      BY <1>0, <2>1, <2>3, <3>1 DEF Once, Carried
  <2>. QED
    BY <1>0, <2>1, <2>2, <2>3, <2>4, <2>5 DEF Once, Unrecorded, Committing, Answering, Terminal
<1>8. CASE BrokerCommit
  <2>1. /\ UNCHANGED <<tstate, nid, callno, nextId, cur, curId, pc, answer, ret>>
        /\ Committing /\ ~Committing'
    BY <1>8, CommitPerforms
  <2>2. pc \in {"await_commit"} \cup Leaving
    BY <1>b, <2>1
  <2>3. ~Unrecorded' /\ pc' # "valid3" /\ ~Answering'
    BY <2>1, <2>2 DEF Unrecorded, Answering
  <2>4. CASE effects' = effects
    <3>1. \A u \in Thread : Unspent(u)' <=> Unspent(u)
      BY <2>1, <2>4, SameSpent
    <3>2. AtMostOnce'
      BY <2>4 DEF Once, AtMostOnce
    <3>. QED
      BY <1>0, <2>1, <2>3, <2>4, <3>1, <3>2 DEF Once
  <2>5. ASSUME NEW b, effects' = Append(effects, Effect(b)) PROVE Once'
    <3>1. Effect(b).id = curId /\ Effect(b).thread = cur /\ Effect(b).no = req.no
      BY DEF Effect
    <3>2. Carried /\ curId < nextId /\ req.no \in Nat /\ req.no <= callno[cur]
      BY <1>0, <2>1 DEF Once, Ids, Carried, IInv, TypeOK, BrokerType, RequestPacket
    <3>3. /\ \A i \in DOMAIN effects' : /\ effects'[i].no <= callno'[effects'[i].thread]
                                        /\ effects'[i].id < nextId'
          /\ \A t \in Thread : Unspent(t) /\ (t = cur => nid[t] # curId /\ req.no < callno[t])
                                => Unspent(t)'
          /\ AtMostOnce'
      <4>1. /\ \A t \in Thread : nid[t] = curId => t = cur
            /\ \A i \in DOMAIN effects : effects[i].thread = cur => effects[i].no < req.no
        BY <3>2 DEF Carried
      <4>2. PICK e : e = Effect(b)
        OBVIOUS
      <4>3. /\ e.id = curId /\ e.thread = cur /\ e.no = req.no
            /\ effects' = Append(effects, e) /\ UNCHANGED <<nid, callno, nextId>>
        BY <2>1, <2>5, <3>1, <4>2
      <4>4. PICK t \in Thread, id \in Nat, no \in Nat : t = cur /\ id = curId /\ no = req.no
        BY <1>0, <3>2
      <4>5. /\ e.id = id /\ e.thread = t /\ e.no = no /\ id < nextId /\ no <= callno[t]
            /\ \A u \in Thread : nid[u] = id => u = t
            /\ \A i \in DOMAIN effects : effects[i].thread = t => effects[i].no < no
        BY <3>2, <4>1, <4>3, <4>4
      <4>6. /\ \A i \in DOMAIN effects' : /\ effects'[i].no <= callno'[effects'[i].thread]
                                          /\ effects'[i].id < nextId'
            /\ \A u \in Thread : Unspent(u) /\ (u = t => nid[u] # id /\ no < callno[u])
                                  => Unspent(u)'
            /\ AtMostOnce'
        BY <4>3, <4>5, NewEffect
      <4>. QED
        BY <4>4, <4>6
    <3>4. tstate[cur] \in {"queued", "restart", "exec"} => nid[cur] # curId /\ req.no < callno[cur]
      BY <1>0, <3>2 DEF Carried
    <3>. QED
      BY <1>0, <2>1, <2>3, <3>3, <3>4 DEF Once
  <2>. QED
    BY <1>8, <2>4, <2>5, CommitPerforms
<1>9. CASE Tree
  BY <1>2, <1>3, <1>4, <1>9 DEF Tree
<1>. QED
  BY <1>1, <1>5, <1>6, <1>7, <1>8, <1>9, QuietOrLoud DEF Loud

-----------------------------------------------------------------------------
(***************************************************************************)
(* Stale values.                                                           *)
(***************************************************************************)

\* What is recorded was read from a live thread, whoever steps.
LEMMA FreshStep ==
    ASSUME IInv, OneHeld, Fresh, [Next]_vars
    PROVE  Fresh'
<1>. USE DEF vars, kernelVars, handlerVars, brokerVars, logVars, historyVars
<1>0. /\ tstate \in [Thread -> {"run", "queued", "held", "restart", "exec", "dead"}]
      /\ cur \in Thread /\ stale \in BOOLEAN /\ trace \in Seq(EventRecord)
  BY DEF IInv, TypeOK, KernelType, HandlerType, LogType
<1>1. CASE Tree
  BY <1>0, <1>1 DEF Tree, Trap, SignalCancel, Retrap, Rewrite, ExecuteContinued, Die,
     CancelledStates, Fresh, NoStaleFact
<1>2. ASSUME NEW t \in Thread, Recv(t) PROVE Fresh'
  BY <1>2 DEF Recv, Fresh, NoStaleFact
<1>3. CASE Gather
  BY <1>0, <1>3 DEF Gather, Fresh, NoStaleFact
<1>4. CASE BracketClose
  <2>1. AfterRead(call[cur], fact).pc \in {"record", "prepare", "decide"}
    BY DEF AfterRead, Decided, Undecided, handle_fs, handle_exec, handle_process,
           handle_network
  <2>. QED
    BY <1>0, <1>4, <2>1 DEF BracketClose, ClosingCheck, IdValid, Drop, Fresh, NoStaleFact,
       Terminal
<1>5. CASE Record
  <2>1. ~stale /\ Event.stale = stale
    BY <1>5 DEF Record, Fresh, Event, Terminal
  <2>. HIDE DEF Event
  <2>2. NoStaleFact'
    BY <1>0, <1>5, <2>1 DEF Record, Fresh, NoStaleFact
  <2>. QED
    BY <1>5, <2>1, <2>2 DEF Record, Fresh
<1>6. CASE \/ Hangup \/ BracketOpen \/ WalkTree \/ PreparePath \/ RecvPrepared \/ Decide
           \/ Prompt \/ Commit \/ RecvResult \/ Release \/ RecvReleased \/ Send
  <2>1. ~(stale /\ pc \notin {"poll", "abort", "kill", "close"} \cup Terminal)
           /\ stale' = stale /\ trace' = trace
    BY <1>6 DEF Hangup, BracketOpen, WalkTree, PreparePath, RecvPrepared, Decide, Prompt,
       Commit, RecvResult, Release, RecvReleased, Send, Drop, RealizationDeny, Settle,
       DropRecorded, RefuseLate, Fresh
  <2>2. stale => pc' \in {"poll", "abort", "kill", "close"} \cup Terminal
    BY <1>6, <2>1 DEF Hangup, BracketOpen, WalkTree, PreparePath, RecvPrepared, Decide,
       Prompt, Commit, RecvResult, Release, RecvReleased, Send, Terminal
  <2>. QED
    BY <2>1, <2>2 DEF Fresh, NoStaleFact
<1>7. CASE AwaitFails \/ AbortDeny \/ AbortKill \/ AbortClose \/ Fault
  BY <1>7 DEF AwaitFails, AbortDeny, AbortKill, AbortClose, Fault, RecordFails, KernelFails,
     PollFails, Crash, BrokerDies, Fresh, NoStaleFact, Terminal
<1>8. CASE BrokerStep \/ UNCHANGED vars
  BY <1>8 DEF BrokerStep, BrokerPrepare, BrokerRelease, BrokerCommit, BrokerStops, Fresh,
     NoStaleFact
<1>. QED
  BY <1>1, <1>2, <1>3, <1>4, <1>5, <1>6, <1>7, <1>8 DEF Next, Supervisor, Finished

-----------------------------------------------------------------------------
(***************************************************************************)
(* The theorems.                                                           *)
(***************************************************************************)

\* The invariants that follow a call through the handler and the histories.
HandlingInv == Protocol /\ Ids /\ Ledger /\ Once /\ Fresh

\* They hold when the loop starts.
LEMMA HandlingInit == Init => HandlingInv
<1>. SUFFICES ASSUME Init PROVE HandlingInv
  OBVIOUS
<1>1. req.op = "none" /\ resp.res = "none"
  BY NoPacket DEF Init
<1>2. cur \in Thread
  BY ConfigAssumption DEF Init
<1>3. Protocol
  BY <1>1 DEF Init, Protocol, Committing, Commits, Terminal
<1>4. Ids
  BY <1>1, <1>2 DEF Init, Ids, Handling, Committing, Commits
<1>5. Ledger /\ Once /\ Fresh
  BY <1>1 DEF Init, Ledger, Unrecorded, Once, AtMostOnce, Committing, Commits, Answering,
     Fresh, NoStaleFact
<1>. QED
  BY <1>3, <1>4, <1>5 DEF HandlingInv

\* Ids are handed out once and received in order, events are written in that
\* order, and a call that may still take effect has not done so, in every
\* reachable state (run_loop, handle_notification).
THEOREM HandlingInvariance == Spec => []HandlingInv
<1>1. IInv /\ OneHeld /\ HandlingInv /\ [Next]_vars => HandlingInv'
  <2>1. ASSUME IInv, Protocol, [Next]_vars PROVE Protocol'
    BY <2>1, SupervisorProtocol, OthersProtocol DEF Next, Finished
  <2>. QED
    BY <2>1, IdsStep, LedgerStep, OnceStep, FreshStep DEF HandlingInv
<1>. QED
  BY <1>1, HandlingInit, Invariance, HeldInvariance, PTL DEF Spec

\* A call takes effect at most once, for any number of threads, calls, restarts
\* and faults: the commit and the CONTINUE of one call exclude each other and
\* neither is repeated under a later id (WAIT_KILLABLE_RECV in child.rs, the
\* commit after the last validity check in run.rs).
THEOREM AtMostOneEffect == Spec => []AtMostOnce
<1>1. HandlingInv => AtMostOnce
  BY DEF HandlingInv, Once
<1>. QED
  BY <1>1, HandlingInvariance, PTL

\* No event holds a value read after its thread's death, whatever such a read
\* returns (the bracket of two validity checks in run.rs).
THEOREM NothingStaleRecorded == Spec => []NoStaleFact
<1>1. HandlingInv => NoStaleFact
  BY DEF HandlingInv, Fresh
<1>. QED
  BY <1>1, HandlingInvariance, PTL

-----------------------------------------------------------------------------
(***************************************************************************)
(* Record-only runs.                                                       *)
(***************************************************************************)

\* A record-only run has one evaluation, and it allows.
LEMMA RecordOnlySettles ==
    ASSUME RunMode = "record_only", NEW c, NEW paths, NEW values, NEW resolution
    PROVE  finalize_operand(Decisions(c, paths, values), resolution) = fixed_decision("allow")
<1>1. Decisions(c, paths, values) = <<"allow">>
  BY DEF Decisions
<1>2. finalize_decision("allow", resolution) = fixed_decision("allow")
  BY DEF finalize_decision
<1>3. fixed_decision("allow").response = "allow"
  BY DEF fixed_decision
<1>. DEFINE one == <<"allow">>
            final == [i \in DOMAIN one |-> finalize_decision(one[i], resolution)]
            denied == {i \in DOMAIN final : final[i].response # "allow"}
<1>4. DOMAIN one = {1} /\ one[1] = "allow" /\ one # <<>>
  OBVIOUS
<1>. HIDE DEF one
<1>5. final[1] = fixed_decision("allow") /\ DOMAIN final = {1}
  BY <1>2, <1>4
<1>6. denied = {}
  BY <1>3, <1>5
<1>7. finalize_operand(one, resolution) = final[1]
  BY <1>4, <1>6 DEF finalize_operand
<1>. QED
  BY <1>1, <1>5, <1>7 DEF one

\* Of a plain call with readable memory only a destination can be unreadable.
LEMMA PlainRead ==
    ASSUME NEW c, Plain(c), NEW values, ReadsWhole(values),
           Readable(c, values) = <<Bad>>
    PROVE  c.kind = "net"
<1>1. values # <<Bad>>
  BY DEF ReadsWhole
<1>. QED
  BY <1>1 DEF Readable, Plain, mutation_invocation, parse_sockaddr

\* The supervisor's steps allow whatever they can read.
LEMMA SupervisorObserves ==
    ASSUME RunMode = "record_only", IInv, Fresh, Observed, Supervisor
    PROVE  Observed'
<1>. USE DEF kernelVars, handlerVars, brokerVars, logVars, historyVars
<1>0. /\ tstate \in [Thread -> {"run", "queued", "held", "restart", "exec", "dead"}]
      /\ call \in [Thread -> CallRecord] /\ cur \in Thread /\ trace \in Seq(EventRecord)
      /\ ~Brokered(call[cur])
  BY DEF IInv, TypeOK, KernelType, HandlerType, LogType, Brokered
<1>a. fixed_decision("allow").event = "allow"
  BY DEF fixed_decision
<1>1. ASSUME NEW t \in Thread, Recv(t) PROVE Observed'
  <2>1. (pc' = "record" /\ Plain(call[t])) => dec'.event = "allow"
    <3>1. Classify(call[t]).pc = "record" /\ Plain(call[t])
             => Classify(call[t]).dec = fixed_decision("allow")
      BY DEF Classify, Plain
    <3>. QED
      BY <1>1, <1>a, <3>1 DEF Recv
  <2>2. pc' # "valid2"
    BY <1>0, <1>1, ClassifyShape DEF Recv
  <2>. QED
    BY <1>1, <2>1, <2>2 DEF Recv, Observed, RecordOnlyAllows
<1>2. CASE Gather
  <2>1. (~stale' /\ fact' = <<Bad>> /\ Plain(call[cur])) => call[cur].kind = "net"
    BY <1>0, <1>2, PlainRead DEF Gather, Observed
  <2>. QED
    BY <1>2, <2>1 DEF Gather, Observed, RecordOnlyAllows
<1>3. CASE BracketClose
  <2>1. CASE ~ClosingCheck
    BY <1>3, <2>1 DEF BracketClose, Drop, Observed, RecordOnlyAllows
  <2>2. CASE ClosingCheck
    <3>1. ~stale
      BY <1>3, <2>2 DEF BracketClose, ClosingCheck, IdValid, Fresh, Terminal
    <3>2. (fact = <<Bad>> /\ Plain(call[cur])) => call[cur].kind = "net"
      BY <1>3, <3>1 DEF BracketClose, Observed
    <3>3. LET after == AfterRead(call[cur], fact)
          IN  /\ after.pc # "valid2"
              /\ (after.pc = "record" /\ Plain(call[cur]))
                    => after.dec = fixed_decision("allow")
      BY <3>2 DEF AfterRead, Decided, Undecided, handle_fs, handle_exec, handle_process,
         handle_network, ReadFailure
    <3>. QED
      BY <1>3, <1>a, <2>2, <3>3 DEF BracketClose, Observed, RecordOnlyAllows
  <2>. QED
    BY <2>1, <2>2
<1>4. CASE WalkTree
  BY <1>4, <1>a DEF WalkTree, Observed, RecordOnlyAllows
<1>5. CASE Decide \/ Prompt
  <2>1. \A resolution : Settle(resolution) => dec' = fixed_decision("allow")
    BY RecordOnlySettles DEF Settle
  <2>. QED
    BY <1>5, <1>a, <2>1 DEF Decide, Prompt, Settle, Observed, RecordOnlyAllows
<1>6. CASE Record
  <2>1. Event.call = call[cur] /\ Event.event = dec.event
    BY DEF Event
  <2>2. Plain(call[cur]) => Event.event = "allow"
    BY <1>6, <2>1 DEF Record, Observed
  <2>. HIDE DEF Event
  <2>3. RecordOnlyAllows'
    BY <1>0, <1>6, <2>1, <2>2 DEF Record, Observed, RecordOnlyAllows, Plain
  <2>. QED
    BY <1>6, <2>3 DEF Record, Observed
<1>7. CASE PreparePath \/ RecvPrepared \/ Release \/ RecvReleased
  <2>1. pc \notin {"prepare", "await_prepare", "release", "await_release"}
    BY <1>0 DEF IInv, Shape, Observed
  <2>. QED
    BY <1>7, <2>1 DEF PreparePath, RecvPrepared, Release, RecvReleased
<1>8. CASE \/ Hangup \/ BracketOpen \/ Commit \/ RecvResult \/ Send \/ AwaitFails
           \/ AbortDeny \/ AbortKill \/ AbortClose
  BY <1>8 DEF Hangup, BracketOpen, Commit, RecvResult, Send, AwaitFails, AbortDeny,
     AbortKill, AbortClose, Drop, DropRecorded, RefuseLate, Observed, RecordOnlyAllows
<1>. QED
  BY <1>1, <1>2, <1>3, <1>4, <1>5, <1>6, <1>7, <1>8 DEF Supervisor

\* Nobody else makes a plain call unreadable.
LEMMA OthersObserve ==
    ASSUME IInv, Observed, Tree \/ BrokerStep \/ Fault \/ UNCHANGED vars
    PROVE  Observed'
<1>. USE DEF vars, kernelVars, handlerVars, brokerVars, logVars, historyVars
<1>0. /\ tstate \in [Thread -> {"run", "queued", "held", "restart", "exec", "dead"}]
      /\ call \in [Thread -> CallRecord] /\ mem \in [Thread -> Seq(Operand)]
      /\ cur \in Thread
      /\ (pc \in {"valid2", "record"}) => tstate[cur] \in {"held", "dead"}
  BY DEF IInv, TypeOK, KernelType, HandlerType, Bound, Terminal
<1>1. ASSUME NEW t \in Thread, Trap(t) PROVE Observed'
  <2>1. PICK c \in Calls : /\ call' = [call EXCEPT ![t] = c]
                           /\ mem' = [mem EXCEPT ![t] = c.args]
    BY <1>1 DEF Trap
  <2>2. Plain(c) => ReadsWhole(c.args)
    BY DEF Plain, ReadsWhole
  <2>3. \A u \in Thread : Plain(call'[u]) => ReadsWhole(mem'[u])
    BY <1>0, <2>1, <2>2 DEF Observed
  <2>4. pc \in {"valid2", "record"} => call'[cur] = call[cur]
    BY <1>0, <1>1 DEF Trap
  <2>. QED
    BY <1>1, <2>3, <2>4 DEF Trap, Observed, RecordOnlyAllows
<1>2. ASSUME NEW t \in Thread, Rewrite(t) PROVE Observed'
  <2>1. PICK i \in DOMAIN mem[t], v \in Scribble : mem' = [mem EXCEPT ![t][i] = v]
    BY <1>2 DEF Rewrite
  <2>2. v # Bad
    BY CallsAssumption, ConfigAssumption
  <2>3. \A u \in Thread : ReadsWhole(mem[u]) => ReadsWhole(mem'[u])
    BY <1>0, <2>1, <2>2 DEF ReadsWhole
  <2>. QED
    BY <1>2, <2>3 DEF Rewrite, Observed, RecordOnlyAllows
<1>3. ASSUME NEW t \in Thread,
             SignalCancel(t) \/ Retrap(t) \/ ExecuteContinued(t) \/ Die(t)
      PROVE  Observed'
  BY <1>3 DEF SignalCancel, Retrap, ExecuteContinued, Die, Observed, RecordOnlyAllows
<1>4. CASE BrokerStep \/ Fault \/ UNCHANGED vars
  BY <1>4 DEF BrokerStep, BrokerPrepare, BrokerRelease, BrokerCommit, BrokerStops, Fault,
     RecordFails, KernelFails, PollFails, Crash, BrokerDies, Observed, RecordOnlyAllows
<1>. QED
  BY <1>1, <1>2, <1>3, <1>4 DEF Tree

\* Record-only observes (docs/CONTEXT.md, handle_fs, handle_network,
\* handle_cross_process): a run without a policy refuses no well-formed call with
\* readable arguments outside the SR-4 set, creat aside, whatever a sibling writes
\* over them.
THEOREM RecordOnlyObserves == Spec => []RecordOnlyAllows
<1>. DEFINE J == RunMode = "record_only" => Observed
<1>1. Init => J
  BY DEF Init, Observed, Plain, ReadsWhole, RecordOnlyAllows
<1>2. IInv /\ HandlingInv /\ J /\ [Next]_vars => J'
  BY SupervisorObserves, OthersObserve DEF HandlingInv, Next, Finished
<1>3. J => RecordOnlyAllows
  BY DEF Observed, RecordOnlyAllows
<1>. HIDE DEF J
<1>. QED
  BY <1>1, <1>2, <1>3, Invariance, HandlingInvariance, PTL DEF Spec

-----------------------------------------------------------------------------
(***************************************************************************)
(* What the broker pins: the tokens of the handler, the table of the       *)
(* broker and the packets between them.                                    *)
(***************************************************************************)

\* The paths the handler holds.
PinSet == {prepared[i] : i \in DOMAIN prepared}

\* How many operands a call has pinned at most.
Width(c) == IF c.kind \in {"rename", "link"} THEN 2 ELSE 1

\* The broker's table is the handler's list, but for the packet in flight.
Table ==
    broker = "alive" =>
        /\ resp.res = "none" => held = PinSet
        /\ resp.res = "prepared" =>
              held = PinSet \cup {[token |-> resp.token, identity |-> resp.identity,
                                   exists |-> resp.exists]}
        /\ (pc = "await_prepare" /\ resp.res = "errno") => held = PinSet
        /\ (pc = "await_release" /\ resp.res # "none") => held = PinSet \ {prepared[1]}
        /\ (pc = "await_commit" /\ resp.res # "none") => held = {}

\* Tokens in use differ from each other and from the next one.
Distinct ==
    /\ \A i, j \in DOMAIN prepared : prepared[i].token = prepared[j].token => i = j
    /\ resp.res = "prepared" =>
          /\ resp.token # next_token
          /\ \A i \in DOMAIN prepared : prepared[i].token # resp.token
    /\ (pc = "prepare" \/ req.op = "prepare") =>
          \A i \in DOMAIN prepared : prepared[i].token # next_token

\* What a request names is what the handler holds.
Named ==
    /\ req.op = "release" => prepared # <<>> /\ req.toks = <<prepared[1].token>>
    /\ Committing => req.toks = Tokens(prepared)
    /\ req.op = "network" => prepared = <<>>

\* Only a filesystem call pins paths, and no more than it has operands.
Operated ==
    /\ pc \in {"prepare", "await_prepare"} => call[cur].kind \in FsKinds
    /\ (Handling /\ prepared # <<>>) =>
          call[cur].kind \in FsKinds /\ Len(prepared) <= Width(call[cur])
    /\ (pc \in {"decide", "ask"} /\ Brokered(call[cur]) /\ call[cur].kind \in FsKinds)
          => prepared # <<>>

\* The name under a pinned parent stands for the identity, unless it was moved
\* between the two lookups.
Slotted ==
    \A p \in held : ~slot[p.token].moved => slot[p.token].name = p.identity

PinInv == Table /\ Distinct /\ Named /\ Operated /\ Slotted

-----------------------------------------------------------------------------
(***************************************************************************)
(* Operands.                                                               *)
(***************************************************************************)

\* A call whose arguments were read has as many operands as it can pin.
LEMMA OperandCount ==
    ASSUME IInv, Read, call[cur].kind \in FsKinds
    PROVE  Len(Operands(call[cur], fact)) = Width(call[cur])
<1>1. CASE call[cur].kind = "symlink"
  BY <1>1 DEF Operands, Width
<1>2. CASE call[cur].kind # "symlink"
  BY <1>2 DEF Operands, Width, Read, Arity, FsKinds
<1>. QED
  BY <1>1, <1>2

\* The call being handled stays the same while other threads trap.
LEMMA SameCall ==
    ASSUME IInv, Tree, Handling
    PROVE  call'[cur] = call[cur]
<1>1. /\ call \in [Thread -> CallRecord] /\ cur \in Thread
      /\ tstate[cur] \in {"held", "dead"}
  BY DEF IInv, TypeOK, KernelType, HandlerType, Bound, Handling
<1>. QED
  BY <1>1 DEF Tree, Trap, SignalCancel, Retrap, Rewrite, ExecuteContinued, Die

\* Only a filesystem call pins paths, one per operand, whoever steps.
LEMMA OperatedStep ==
    ASSUME IInv, Protocol, Operated, [Next]_vars
    PROVE  Operated'
<1>. USE DEF vars, kernelVars, handlerVars, brokerVars, logVars, historyVars
<1>0. /\ cur \in Thread /\ call[cur] \in CallRecord /\ prepared \in Seq(PreparedPath)
      /\ ret \in {"poll", "record", "send"}
  BY DEF IInv, TypeOK, KernelType, HandlerType
<1>1. CASE Tree
  <2>1. UNCHANGED <<pc, cur, prepared>>
    BY <1>1 DEF Tree, Trap, SignalCancel, Retrap, Rewrite, ExecuteContinued, Die
  <2>2. Handling => call'[cur] = call[cur]
    BY <1>1, SameCall
  <2>. QED
    BY <2>1, <2>2 DEF Operated, Handling, Terminal, Brokered
<1>2. ASSUME NEW t \in Thread, Recv(t) PROVE Operated'
  <2>1. pc' \in {"record", "tree", "valid1"} /\ prepared' = <<>>
    BY <1>2, ClassifyShape DEF IInv, TypeOK, KernelType, Shape, Recv
  <2>. QED
    BY <2>1 DEF Operated
<1>3. CASE BracketClose
  <2>1. prepared = <<>> /\ prepared' = prepared /\ UNCHANGED <<call, cur>>
    BY <1>3 DEF BracketClose, Drop, IInv, Shape
  <2>2. LET after == AfterRead(call[cur], fact)
        IN  /\ after.pc \in {"record", "prepare", "decide"}
            /\ after.pc = "prepare" => call[cur].kind \in FsKinds
            /\ (after.pc = "decide" /\ Brokered(call[cur])) => call[cur].kind \notin FsKinds
    BY DEF AfterRead, Decided, Undecided, handle_fs, handle_exec, handle_process,
           handle_network, Brokered, FsKinds
  <2>. QED
    BY <1>3, <2>1, <2>2 DEF BracketClose, Drop, Operated
<1>4. CASE PreparePath
  BY <1>4 DEF PreparePath, RealizationDeny, Operated, Handling, Terminal
<1>5. CASE RecvPrepared
  <2>1. CASE RealizationDeny
    BY <1>5, <2>1 DEF RecvPrepared, RealizationDeny, Operated, Handling, Terminal
  <2>2. CASE ~RealizationDeny
    <3>. DEFINE pin == [token |-> resp.token, identity |-> resp.identity,
                        exists |-> resp.exists]
    <3>1. /\ prepared' = Append(prepared, pin)
          /\ pc' \in {"prepare", "decide"}
          /\ pc = "await_prepare" /\ UNCHANGED <<cur, call>>
      BY <1>5, <2>2 DEF RecvPrepared
    <3>. HIDE DEF pin
    <3>2. /\ call[cur].kind \in FsKinds
          /\ Len(prepared) < Width(call[cur]) /\ Width(call[cur]) \in Nat
      BY <3>1, OperandCount DEF Operated, IInv, Shape, Width
    <3>3. prepared' # <<>> /\ Len(prepared') <= Width(call[cur])
      BY <1>0, <3>1, <3>2
    <3>. QED
      BY <3>1, <3>2, <3>3 DEF Operated
  <2>. QED
    BY <2>1, <2>2
<1>6. CASE RecvReleased
  <2>1. prepared # <<>> /\ pc = "await_release"
    BY <1>6 DEF RecvReleased, IInv, Shape
  <2>2. Len(Tail(prepared)) <= Len(prepared) /\ Len(prepared) \in Nat
           /\ Len(Tail(prepared)) \in Nat /\ Width(call[cur]) \in Nat
    BY <1>0, <2>1 DEF Width
  <2>. QED
    BY <1>0, <1>6, <2>1, <2>2 DEF RecvReleased, Operated, Handling, Terminal
<1>7. CASE Decide \/ Prompt \/ Record \/ Commit \/ RecvResult \/ Release \/ Send
  BY <1>7 DEF Decide, Prompt, Settle, Record, Commit, DropRecorded, Drop, RefuseLate,
     RecvResult, Release, Send, Operated, Handling, Terminal
<1>8. CASE Hangup \/ BracketOpen \/ Gather \/ WalkTree
  BY <1>8 DEF Hangup, BracketOpen, Gather, WalkTree, Drop, Operated, Handling, Terminal
<1>9. CASE AwaitFails \/ AbortDeny \/ AbortKill \/ AbortClose \/ Fault
  BY <1>9 DEF AwaitFails, AbortDeny, AbortKill, AbortClose, Fault, RecordFails, KernelFails,
     PollFails, Crash, BrokerDies, Operated, Handling, Terminal, Awaiting, Brokered
<1>10. CASE BrokerStep \/ UNCHANGED vars
  BY <1>10 DEF BrokerStep, BrokerPrepare, BrokerRelease, BrokerCommit, BrokerStops, Operated,
     Handling, Brokered
<1>. QED
  BY <1>1, <1>2, <1>3, <1>4, <1>5, <1>6, <1>7, <1>8, <1>9, <1>10
     DEF Next, Supervisor, Finished

-----------------------------------------------------------------------------
(***************************************************************************)
(* Pins.                                                                   *)
(***************************************************************************)

Pinning == Table /\ Distinct /\ Named

\* A step that leaves the broker, its socket and the handler's list alone.
LEMMA PinFrame ==
    ASSUME Pinning, UNCHANGED <<brokerVars, prepared>>,
           pc' \in Awaiting => pc' = pc,
           pc' = "prepare" => pc = "prepare" \/ prepared = <<>>
    PROVE  Pinning'
BY DEF Pinning, brokerVars, Table, PinSet, Distinct, Named, Committing, Tokens, Awaiting

\* The next token is another one, also when the counter wraps.
LEMMA NextTokenDiffers ==
    ASSUME next_token \in Token
    PROVE  NextToken # next_token
BY BoundAssumption DEF Token, NextToken

\* The broker's steps.
LEMMA BrokerPins ==
    ASSUME IInv, Protocol, Pinning, BrokerStep \/ BrokerDies
    PROVE  Pinning'
<1>. USE DEF handlerVars, Committing, Commits
<1>0. /\ prepared \in Seq(PreparedPath) /\ next_token \in Token /\ held \subseteq PreparedPath
      /\ req.op # "none" => resp.res = "none" /\ pc \in Awaiting \cup Leaving
  BY DEF IInv, TypeOK, HandlerType, BrokerType, Socket
<1>1. CASE BrokerPrepare
  <2>1. /\ held = PinSet /\ req.op = "prepare" /\ UNCHANGED <<pc, prepared, broker>>
        /\ req' = NoReq /\ pc \notin {"prepare", "await_release", "await_commit"}
    BY <1>0, <1>1 DEF BrokerPrepare, Serving, Reply, Pinning, Table, Protocol, Awaiting,
       Commits
  <2>2. CASE resp' = Errno /\ UNCHANGED <<held, next_token>>
    <3>1. resp'.res = "errno" /\ req'.op = "none"
      BY <2>1, <2>2, NoPacket DEF Errno, NoResp
    <3>. QED
      BY <2>1, <2>2, <3>1 DEF Pinning, Table, PinSet, Distinct, Named
  <2>3. ASSUME NEW identity, NEW exists,
               held' = {p \in held : p.token # next_token} \cup
                       {[token |-> next_token, identity |-> identity, exists |-> exists]},
               next_token' = NextToken,
               resp' = [res |-> "prepared", token |-> next_token, identity |-> identity,
                        exists |-> exists]
        PROVE  Pinning'
    <3>1. \A i \in DOMAIN prepared : prepared[i].token # next_token
      BY <2>1 DEF Pinning, Distinct
    <3>2. {p \in held : p.token # next_token} = held
      BY <2>1, <3>1 DEF PinSet
    <3>3. next_token' # next_token
      BY <1>0, <2>3, NextTokenDiffers
    <3>4. req'.op = "none" /\ PinSet' = PinSet
      BY <2>1, NoPacket DEF PinSet
    <3>. QED
      BY <2>1, <2>3, <3>1, <3>2, <3>3, <3>4 DEF Pinning, Table, Distinct, Named
  <2>. QED
    BY <1>1, <2>2, <2>3 DEF BrokerPrepare, Reply
<1>2. CASE BrokerRelease
  <2>1. /\ held = PinSet /\ prepared # <<>> /\ req.toks = <<prepared[1].token>>
        /\ UNCHANGED <<pc, prepared, broker, next_token>>
        /\ req'.op = "none" /\ resp'.res = "released"
        /\ held' = held \ Pins(req.toks)
        /\ pc \notin {"prepare", "await_prepare", "await_commit"}
    BY <1>0, <1>2, NoPacket DEF BrokerRelease, Serving, Reply, NoResp, Pinning, Table, Named,
       Protocol, Awaiting, Commits
  <2>2. 1 \in DOMAIN prepared
    BY <1>0, <2>1
  <2>3. Pins(req.toks) = {prepared[1]}
    BY <2>1, <2>2 DEF Pins, PinSet, Pinning, Distinct
  <2>. QED
    BY <2>1, <2>3 DEF Pinning, Table, PinSet, Distinct, Named
<1>3. CASE BrokerCommit
  <2>1. /\ held = PinSet /\ req.op \in Commits
        /\ UNCHANGED <<pc, prepared, next_token>> /\ req'.op = "none"
        /\ held' = held \ Pins(req.toks)
        /\ resp'.res \in {"errno", "fd", "value"} \/ (broker' = "dead" /\ resp' = resp)
        /\ pc \notin {"prepare", "await_prepare", "await_release"}
    BY <1>0, <1>3, NoPacket DEF BrokerCommit, Serving, Reply, Errno, NoResp, Pinning, Table,
       Protocol, Awaiting, Commits
  <2>2. held' = {}
    <3>1. req.toks = Tokens(prepared)
      BY <2>1 DEF Pinning, Named
    <3>2. \A p \in PinSet : \E i \in DOMAIN req.toks : req.toks[i] = p.token
      BY <3>1 DEF PinSet, Tokens
    <3>. QED
      BY <2>1, <3>2 DEF Pins
  <2>3. resp.res = "none"
    BY <1>0, <2>1 DEF Commits
  <2>. QED
    BY <2>1, <2>2, <2>3 DEF Pinning, Table, PinSet, Distinct, Named
<1>4. CASE BrokerStops \/ BrokerDies
  <2>1. broker' = "dead" /\ UNCHANGED <<pc, prepared, next_token, resp>>
           /\ (req' = req \/ req'.op = "none")
    BY <1>4, NoPacket DEF BrokerStops, BrokerDies
  <2>. QED
    BY <2>1 DEF Pinning, Table, Distinct, Named, Tokens
<1>. QED
  BY <1>1, <1>2, <1>3, <1>4 DEF BrokerStep


\* The pin that arrives is the handler's next one.
LEMMA RecvPreparedPins ==
    ASSUME IInv, Protocol, Pinning, Operated, RecvPrepared
    PROVE  Pinning'
<1>0. /\ prepared \in Seq(PreparedPath) /\ pc = "await_prepare"
      /\ req'.op = "none" /\ resp'.res = "none" /\ UNCHANGED <<held, next_token, broker>>
  BY DEF RecvPrepared, TakeResponse, NoResp, IInv, TypeOK, HandlerType, Socket
<1>1. CASE RealizationDeny /\ resp.res = "errno"
  BY <1>0, <1>1 DEF RealizationDeny, Pinning, Table, PinSet, Distinct, Named, Committing,
     Commits
<1>2. CASE /\ resp.res = "prepared"
           /\ prepared' = Append(prepared, [token |-> resp.token,
                                            identity |-> resp.identity,
                                            exists |-> resp.exists])
           /\ pc' = IF Len(prepared') < Len(Operands(call[cur], fact))
                    THEN "prepare" ELSE "decide"
  <2>. DEFINE pin == [token |-> resp.token, identity |-> resp.identity,
                      exists |-> resp.exists]
  <2>1. /\ prepared' = Append(prepared, pin) /\ pin.token = resp.token
        /\ pc' = IF Len(prepared') < Len(Operands(call[cur], fact))
                 THEN "prepare" ELSE "decide"
        /\ held = PinSet \cup {pin} \/ broker = "dead"
        /\ resp.token # next_token
        /\ \A i \in DOMAIN prepared : prepared[i].token # resp.token
    BY <1>0, <1>2 DEF Pinning, Table, Distinct, IInv, TypeOK, BrokerType
  <2>. HIDE DEF pin
  <2>2. /\ DOMAIN prepared' = DOMAIN prepared \cup {Len(prepared) + 1}
        /\ \A i \in DOMAIN prepared : prepared'[i] = prepared[i]
        /\ prepared'[Len(prepared) + 1] = pin
        /\ Len(prepared) \in Nat /\ Len(prepared') = Len(prepared) + 1
        /\ DOMAIN prepared = 1..Len(prepared)
    BY <1>0, <2>1
  <2>3. PinSet' = PinSet \cup {pin}
    BY <2>2 DEF PinSet
  <2>4. \A i, j \in DOMAIN prepared' : prepared'[i].token = prepared'[j].token => i = j
    BY <2>1, <2>2 DEF Pinning, Distinct
  <2>5. pc' = "prepare" => \A i \in DOMAIN prepared' : prepared'[i].token # next_token'
    <3>1. Len(Operands(call[cur], fact)) = Width(call[cur])
      BY <1>0, OperandCount DEF IInv, Shape, Operated
    <3>2. pc' = "prepare" => Len(prepared) = 0
      BY <2>1, <2>2, <3>1 DEF Width
    <3>. QED
      BY <1>0, <2>1, <2>2, <3>2
  <2>. QED
    BY <1>0, <2>1, <2>3, <2>4, <2>5 DEF Pinning, Table, Distinct, Named, Committing, Commits
<1>. QED
  BY <1>1, <1>2 DEF RecvPrepared

\* A released pin is the first of the list.
LEMMA RecvReleasedPins ==
    ASSUME IInv, Protocol, Pinning, RecvReleased
    PROVE  Pinning'
<1>1. /\ prepared \in Seq(PreparedPath) /\ pc = "await_release" /\ prepared # <<>>
      /\ req'.op = "none" /\ resp'.res = "none" /\ UNCHANGED <<held, next_token, broker>>
      /\ pc' \in {"poll", "record", "send", "release"} /\ prepared' = Tail(prepared)
      /\ broker = "alive" => held = PinSet \ {prepared[1]}
  BY DEF RecvReleased, TakeResponse, NoResp, IInv, TypeOK, HandlerType, Socket, Shape,
         Pinning, Table
<1>2. /\ Len(prepared) \in Nat /\ Len(prepared) > 0 /\ DOMAIN prepared = 1..Len(prepared)
      /\ Len(prepared') = Len(prepared) - 1 /\ DOMAIN prepared' = 1..(Len(prepared) - 1)
      /\ \A i \in 1..(Len(prepared) - 1) : prepared'[i] = prepared[i + 1]
  BY <1>1
<1>3. \A i, j \in DOMAIN prepared : prepared[i].token = prepared[j].token => i = j
  BY DEF Pinning, Distinct
<1>4. \A i, j \in DOMAIN prepared' : prepared'[i].token = prepared'[j].token => i = j
  BY <1>2, <1>3
<1>5. PinSet' = PinSet \ {prepared[1]}
  <2>1. ASSUME NEW p \in PinSet' PROVE p \in PinSet /\ p # prepared[1]
    <3>1. PICK i \in DOMAIN prepared' : p = prepared'[i]
      BY DEF PinSet
    <3>2. i + 1 \in DOMAIN prepared /\ p = prepared[i + 1] /\ i + 1 # 1
      BY <1>2, <3>1
    <3>. QED
      BY <1>2, <1>3, <3>2 DEF PinSet
  <2>2. ASSUME NEW p \in PinSet, p # prepared[1] PROVE p \in PinSet'
    <3>1. PICK i \in DOMAIN prepared : p = prepared[i] /\ i # 1
      BY <2>2 DEF PinSet
    <3>2. i - 1 \in DOMAIN prepared' /\ prepared'[i - 1] = p
      BY <1>2, <3>1
    <3>. QED
      BY <3>2 DEF PinSet
  <2>. QED
    BY <2>1, <2>2
<1>. QED
  BY <1>1, <1>4, <1>5 DEF Pinning, Table, Distinct, Named, Committing, Commits

\* What the handler asks of the broker names its pins.
LEMMA SentPins ==
    ASSUME IInv, Pinning, Operated, PreparePath \/ Commit \/ Release
    PROVE  Pinning'
<1>. USE DEF Committing, Commits
<1>0. req.op = "none" /\ resp.res = "none"
  BY DEF PreparePath, Commit, Release, IInv, Socket, Awaiting
<1>1. CASE UNCHANGED <<brokerVars, prepared>> /\ pc' \notin Awaiting /\ pc' # "prepare"
  BY <1>1, PinFrame
<1>2. ASSUME NEW r, req' = r, UNCHANGED <<broker, resp, held, next_token, prepared>>,
             r.op = "prepare" => \A i \in DOMAIN prepared : prepared[i].token # next_token,
             r.op = "release" => prepared # <<>> /\ r.toks = <<prepared[1].token>>,
             r.op \in Commits => r.toks = Tokens(prepared),
             r.op = "network" => prepared = <<>>,
             pc' # "prepare"
      PROVE  Pinning'
  BY <1>0, <1>2 DEF Pinning, Table, PinSet, Distinct, Named, Tokens
<1>3. CASE PreparePath
  <2>1. CASE RealizationDeny /\ UNCHANGED brokerVars
    BY <1>1, <1>3, <2>1 DEF RealizationDeny, PreparePath, Awaiting
  <2>2. CASE ~(RealizationDeny /\ UNCHANGED brokerVars)
    <3>1. /\ req' = [NoReq EXCEPT !.op = "prepare",
                        !.val = Operands(call[cur], fact)[Len(prepared) + 1],
                        !.missing = AllowMissing(call[cur], Len(prepared) + 1)]
          /\ UNCHANGED <<broker, resp, held, next_token, prepared>>
          /\ pc' = "await_prepare" /\ pc = "prepare"
      BY <1>3, <2>2 DEF PreparePath, SendRequest, handlerVars
    <3>2. req'.op = "prepare"
      BY <3>1 DEF NoReq
    <3>. QED
      BY <1>2, <3>1, <3>2 DEF Pinning, Distinct
  <2>. QED
    BY <2>1, <2>2
<1>4. CASE Commit
  <2>1. CASE UNCHANGED brokerVars /\ pc' # "await_commit"
    <3>1. pc' \in {"poll", "release", "abort", "send"} /\ UNCHANGED prepared
      BY <1>4, <2>1 DEF Commit, DropRecorded, Drop, RefuseLate, handlerVars
    <3>. QED
      BY <1>1, <2>1, <3>1 DEF Awaiting
  <2>2. CASE SendRequest(CommitRequest) /\ pc' = "await_commit" /\ UNCHANGED handlerVars
    <3>1. call[cur].kind = "net" => prepared = <<>>
      BY <1>4 DEF Commit, Operated, Handling, Terminal, FsKinds
    <3>2. /\ CommitRequest.toks = Tokens(prepared)
          /\ CommitRequest.op = "network" => call[cur].kind = "net"
          /\ CommitRequest.op \in Commits
      BY DEF CommitRequest, CommitOp, NoReq, Commits
    <3>. QED
      BY <1>2, <2>2, <3>1, <3>2 DEF SendRequest, handlerVars, Commits
  <2>. QED
    BY <1>4, <2>1, <2>2 DEF Commit, DropRecorded, Drop, RefuseLate
<1>5. CASE Release
  <2>1. /\ req' = [NoReq EXCEPT !.op = "release", !.toks = <<prepared[1].token>>]
        /\ UNCHANGED <<broker, resp, held, next_token, prepared>>
        /\ pc' = "await_release" /\ prepared # <<>>
    BY <1>5 DEF Release, SendRequest, handlerVars, IInv, Shape
  <2>2. req'.op = "release" /\ req'.toks = <<prepared[1].token>>
    BY <2>1 DEF NoReq
  <2>. QED
    BY <1>2, <2>1, <2>2
<1>. QED
  BY <1>3, <1>4, <1>5

\* Whoever steps, a name that was not moved stands for the identity.
LEMMA SlottedStep ==
    ASSUME IInv, Slotted, [Next]_vars
    PROVE  Slotted'
<1>. USE DEF vars, kernelVars, handlerVars, brokerVars, logVars, historyVars
<1>1. CASE held' \subseteq held /\ slot' = slot
  BY <1>1 DEF Slotted
<1>2. CASE BrokerPrepare
  <2>1. CASE UNCHANGED <<held, slot>>
    BY <2>1 DEF Slotted
  <2>2. ASSUME NEW found \in Lookups(req.val), NEW exists \in BOOLEAN,
               held' = {p \in held : p.token # next_token} \cup
                       {[token |-> next_token,
                         identity |-> IF exists THEN found[1] ELSE found[2],
                         exists |-> exists]},
               slot' = [slot EXCEPT ![next_token] =
                          [name |-> found[2], moved |-> exists /\ found[1] # found[2]]]
        PROVE  Slotted'
    <3>1. /\ slot \in [Token -> [name : Operand, moved : BOOLEAN]]
          /\ next_token \in Token /\ held \subseteq PreparedPath
      BY DEF IInv, TypeOK, BrokerType
    <3>2. \A p \in held : p.token \in Token
      BY <3>1 DEF PreparedPath
    <3>. QED
      BY <2>2, <3>1, <3>2 DEF Slotted
  <2>3. req.missing \in BOOLEAN
    BY DEF IInv, TypeOK, BrokerType, RequestPacket
  <2>. QED
    BY <1>2, <2>1, <2>2, <2>3 DEF BrokerPrepare
<1>3. CASE Tree
  BY <1>1, <1>3 DEF Tree, Trap, SignalCancel, Retrap, Rewrite, ExecuteContinued, Die
<1>4. CASE Supervisor
  BY <1>1, <1>4 DEF Supervisor, Recv, Hangup, BracketOpen, Gather, BracketClose, WalkTree,
     PreparePath, RecvPrepared, Decide, Prompt, Record, Commit, RecvResult, Release,
     RecvReleased, Send, AwaitFails, AbortDeny, AbortKill, AbortClose, SendRequest,
     TakeResponse
<1>5. CASE Fault \/ BrokerRelease \/ BrokerCommit \/ BrokerStops \/ UNCHANGED vars
  BY <1>1, <1>5 DEF Fault, RecordFails, KernelFails, PollFails, Crash, BrokerDies,
     BrokerRelease, BrokerCommit, BrokerStops
<1>. QED
  BY <1>2, <1>3, <1>4, <1>5 DEF Next, BrokerStep, Finished

\* The pins stay accounted for, whoever steps.
LEMMA PinsStep ==
    ASSUME IInv, Protocol, PinInv, [Next]_vars
    PROVE  PinInv'
<1>. USE DEF vars, kernelVars, handlerVars, brokerVars, logVars, historyVars, Committing,
             Commits
<1>0. Pinning /\ Operated
  BY DEF PinInv, Pinning
<1>. SUFFICES Pinning'
  BY <1>0, OperatedStep, SlottedStep DEF PinInv, Pinning
<1>1. ASSUME NEW t \in Thread, Recv(t) PROVE Pinning'
  <2>1. pc' \in {"record", "tree", "valid1"}
    BY <1>1, ClassifyShape DEF IInv, TypeOK, KernelType, Recv
  <2>. QED
    BY <1>0, <1>1, <2>1, PinFrame DEF Recv, Awaiting
<1>2. CASE Tree
  BY <1>0, <1>2, PinFrame DEF Tree, Trap, SignalCancel, Retrap, Rewrite, ExecuteContinued, Die
<1>3. CASE BracketClose
  <2>1. prepared = <<>> /\ AfterRead(call[cur], fact).pc \in {"record", "prepare", "decide"}
    BY <1>3 DEF BracketClose, IInv, Shape, AfterRead, Decided, Undecided, handle_fs,
       handle_exec, handle_process, handle_network
  <2>. QED
    BY <1>0, <1>3, <2>1, PinFrame DEF BracketClose, Drop, Awaiting
<1>4. CASE Hangup \/ BracketOpen \/ Gather \/ WalkTree
  BY <1>0, <1>4, PinFrame DEF Hangup, BracketOpen, Gather, WalkTree, Drop, Awaiting
<1>5. CASE Decide \/ Prompt \/ Record \/ Send
  BY <1>0, <1>5, PinFrame DEF Decide, Prompt, Settle, Record, Send, Awaiting
<1>6. CASE \/ AbortDeny \/ AbortKill \/ AbortClose
           \/ RecordFails \/ KernelFails \/ PollFails \/ Crash
  BY <1>0, <1>6, PinFrame DEF AbortDeny, AbortKill, AbortClose, RecordFails, KernelFails,
     PollFails, Crash, Awaiting
<1>7. CASE RecvResult
  <2>1. /\ prepared' = <<>> /\ resp'.res = "none" /\ req'.op = "none" /\ pc' = "send"
        /\ UNCHANGED <<held, next_token, broker>>
        /\ broker = "alive" => held = {}
    BY <1>0, <1>7 DEF RecvResult, TakeResponse, NoResp, IInv, Socket, Pinning, Table
  <2>. QED
    BY <2>1 DEF Pinning, Table, PinSet, Distinct, Named
<1>8. CASE AwaitFails
  <2>1. /\ broker' = "dead" /\ resp'.res = "none" /\ req'.op = "none" /\ pc' = "abort"
        /\ UNCHANGED <<prepared, next_token>>
    BY <1>8, NoPacket DEF AwaitFails, NoResp
  <2>. QED
    BY <1>0, <2>1 DEF Pinning, Table, Distinct, Named
<1>9. CASE UNCHANGED vars
  BY <1>0, <1>9, PinFrame
<1>. QED
  BY <1>0, <1>1, <1>2, <1>3, <1>4, <1>5, <1>6, <1>7, <1>8, <1>9, RecvPreparedPins,
     RecvReleasedPins, SentPins, BrokerPins DEF Next, Supervisor, Fault, Finished

\* Behind PinsAccounted: the table of the broker, the list of the handler and
\* the packet between them, with tokens that cannot meet, at every step of
\* handle_fs_enforce and BrokerState.
LEMMA PinInvariance == Spec => []PinInv
<1>1. Init => PinInv
  BY DEF Init, NoReq, NoResp, PinInv, Table, PinSet, Distinct, Named, Committing, Commits,
         Operated, Slotted, Handling, Terminal
<1>2. IInv /\ Protocol /\ PinInv /\ [Next]_vars => PinInv'
  BY PinsStep
<1>. QED
  BY <1>1, <1>2, Invariance, HandlingInvariance, PTL DEF Spec, HandlingInv

\* Between requests the broker pins exactly what the handler holds, whatever
\* failed, died or was refused before, and however often the token counter has
\* wrapped (handle_fs_enforce, BrokerState::prepare_path, release).
THEOREM PinsAreAccounted == Spec => []PinsAccounted
<1>1. IInv /\ PinInv => PinsAccounted
  BY DEF IInv, Shape, PinInv, Table, PinSet, Distinct, NoResp, PinsAccounted
<1>. QED
  BY <1>1, Invariance, PinInvariance, PTL

=============================================================================
