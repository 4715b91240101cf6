---------------------------- MODULE ReportProofs ----------------------------
(***************************************************************************)
(* The report tells what became of a call: every notification has one      *)
(* event, and an event that says "ask" has a typed fact, so no section the *)
(* report leaves out can hold it.                                          *)
(***************************************************************************)
EXTENDS HandlingProofs, Report

-----------------------------------------------------------------------------
(***************************************************************************)
(* The inductive invariants.                                               *)
(***************************************************************************)

\* The calls that are decided by the policy, and so may be asked about.
Decidable == FsKinds \cup {"exec", "net"}

\* The event of the call being handled will have a typed fact.
Typed == call[cur].kind \in Decidable /\ fact \notin {<<>>, <<Bad>>}

\* Only a call whose operands were read reaches the operator.
AskIsTyped ==
    /\ pc \in {"valid1", "gather", "valid2"} => call[cur].kind \in Decidable \cup {"clone3"}
    /\ pc \in {"prepare", "await_prepare", "decide", "ask"} => call[cur].kind \in Decidable
    /\ (pc = "record" /\ dec.event = "ask") => Typed
    /\ (pc \in {"release", "await_release"} /\ ret = "record") => dec.event # "ask"

\* A notification is recorded once, and as an ask only under its own section.
OneEvent ==
    /\ \A i, j \in DOMAIN trace : trace[i].id = trace[j].id => i = j
    /\ \A i \in DOMAIN trace : trace[i].event = "ask" => Family(trace[i]) # "raw"

TellingInv == AskIsTyped /\ OneEvent

-----------------------------------------------------------------------------
(***************************************************************************)
(* Who may be asked about.                                                 *)
(***************************************************************************)

\* Operands that were read, or pinned, leave a typed fact.
LEMMA ReadIsTyped ==
    ASSUME IInv, call[cur].kind \in Decidable, Read
    PROVE  Typed
<1>1. Arity(call[cur].kind) \in {1, 2}
  BY DEF Arity, Decidable, FsKinds
<1>2. fact \in Seq(Value) /\ Len(fact) \in {1, 2}
  BY <1>1 DEF Read
<1>3. fact # <<>>
  BY <1>2
<1>4. fact[1] \in Value
  BY <1>2
<1>5. fact # <<Bad>>
  BY <1>4, CallsAssumption
<1>. QED
  BY <1>3, <1>5 DEF Typed

\* What a settled call records.
LEMMA SettleTyped ==
    ASSUME IInv, AskIsTyped, pc \in {"decide", "ask"}, NEW r, Settle(r), UNCHANGED kernelVars
    PROVE  AskIsTyped'
<1>1. call[cur].kind \in Decidable /\ Read
  BY DEF IInv, Shape, AskIsTyped
<1>2. call'[cur'].kind \in Decidable
  BY <1>1 DEF Settle, kernelVars
<1>3. fact' \notin {<<>>, <<Bad>>}
  <2>1. CASE prepared = <<>>
    BY <1>1, <2>1, ReadIsTyped DEF Settle, Typed
  <2>2. CASE prepared # <<>>
    <3>1. prepared \in Seq(PreparedPath)
      BY DEF IInv, TypeOK, HandlerType
    <3>2. prepared[1] \in PreparedPath /\ 1 \in DOMAIN prepared
      BY <2>2, <3>1
    <3>3. fact' = Identities(prepared)
      BY <2>2 DEF Settle
    <3>4. 1 \in DOMAIN fact' /\ fact'[1] \in Value
      BY <3>2, <3>3 DEF Identities, PreparedPath
    <3>. QED
      BY <3>4, CallsAssumption
  <2>. QED
    BY <2>1, <2>2
<1>4. pc' = "record"
  BY DEF Settle
<1>. QED
  BY <1>2, <1>3, <1>4 DEF AskIsTyped, Typed

\* A decision taken without the policy is no ask.
LEMMA FixedIsNoAsk ==
    ASSUME NEW d \in {"allow", "deny"}
    PROVE  fixed_decision(d).event # "ask"
BY DEF fixed_decision

\* Where a received call goes.
LEMMA RecvTyped ==
    ASSUME IInv, NEW t \in Thread, Recv(t)
    PROVE  AskIsTyped'
<1>. DEFINE c == call[t]
<1>1. c \in CallRecord
  BY DEF IInv, TypeOK, KernelType
<1>2. c.kind \in Kinds
  BY <1>1 DEF CallRecord
<1>3. /\ call'[cur'] = c /\ pc' = Classify(c).pc /\ dec' = Classify(c).dec
  BY DEF Recv
<1>4. /\ Classify(c).pc \in {"record", "tree", "valid1"}
      /\ Classify(c).pc = "valid1" => c.kind \in Decidable \cup {"clone3"}
      /\ Classify(c).dec.event # "ask"
  <2>. HIDE DEF c
  <2>1. CASE c.kind \in {"foreign", "sr4", "clone", "ptrace"}
    BY <2>1, FixedIsNoAsk DEF Classify
  <2>2. CASE c.kind \in {"clone3", "net"} /\ c.scalar = "size"
    <3>1. Classify(c).pc = "record" /\ Classify(c).dec = ReadFailure(c)
      BY <2>2 DEF Classify
    <3>. QED
      BY <3>1, FixedIsNoAsk DEF ReadFailure
  <2>3. CASE /\ c.kind \notin {"foreign", "sr4", "clone", "ptrace"}
             /\ ~(c.kind \in {"clone3", "net"} /\ c.scalar = "size")
    <3>1. Classify(c).pc = "valid1" /\ Classify(c).dec = fixed_decision("deny")
      BY <2>3 DEF Classify
    <3>2. c.kind \in Decidable \cup {"clone3"}
      BY <1>2, <2>3 DEF Kinds, Decidable, FsKinds
    <3>. QED
      BY <3>1, <3>2, FixedIsNoAsk
  <2>. QED
    BY <2>1, <2>2, <2>3
<1>. QED
  BY <1>3, <1>4 DEF AskIsTyped, Typed

\* Where a call goes once it was read.
LEMMA BracketCloseTyped ==
    ASSUME IInv, AskIsTyped, BracketClose
    PROVE  AskIsTyped'
<1>. DEFINE c == call[cur]
            after == AfterRead(c, fact)
<1>1. pc = "valid2" /\ c.kind \in Decidable \cup {"clone3"}
  BY DEF BracketClose, AskIsTyped
<1>2. /\ after.pc \in {"record", "prepare", "decide"}
      /\ after.pc # "record" => c.kind \in Decidable
      /\ after.dec.event # "ask"
  <2>. HIDE DEF c
  <2>1. CASE fact = <<Bad>>
    <3>1. after = Decided(ReadFailure(c))
      BY <2>1 DEF AfterRead
    <3>. QED
      BY <3>1, FixedIsNoAsk DEF Decided, ReadFailure
  <2>2. CASE fact # <<Bad>> /\ c.kind = "clone3"
    <3>1. after = handle_process
      BY <2>2 DEF AfterRead, FsKinds
    <3>. QED
      BY <3>1, FixedIsNoAsk DEF handle_process, Decided
  <2>3. CASE fact # <<Bad>> /\ c.kind # "clone3"
    <3>1. after \in {handle_fs, handle_exec, handle_network}
      BY <2>3 DEF AfterRead
    <3>. QED
      BY <1>1, <2>3, <3>1, FixedIsNoAsk
      DEF handle_fs, handle_exec, handle_network, Undecided
  <2>. QED
    BY <2>1, <2>2, <2>3
<1>3. CASE ClosingCheck
  <2>1. call' = call /\ cur' = cur /\ pc' = after.pc /\ dec' = after.dec
    BY <1>3 DEF BracketClose, kernelVars
  <2>. QED
    BY <1>2, <2>1 DEF AskIsTyped, Typed
<1>4. CASE ~ClosingCheck
  BY <1>4 DEF BracketClose, Drop, AskIsTyped
<1>. QED
  BY <1>3, <1>4

\* The handler reaches the operator with a typed fact only, whoever steps.
LEMMA AskIsTypedStep ==
    ASSUME IInv, AskIsTyped, [Next]_vars
    PROVE  AskIsTyped'
<1>. USE DEF vars, kernelVars, handlerVars, brokerVars, logVars, historyVars
<1>0. /\ cur \in Thread /\ call \in [Thread -> CallRecord]
      /\ Bound
      /\ ret \in {"poll", "record", "send"}
  BY DEF IInv, TypeOK, KernelType, HandlerType
<1>1. CASE Tree
  <2>1. PICK t \in Thread : \/ Trap(t) \/ SignalCancel(t) \/ Retrap(t) \/ Rewrite(t)
                            \/ ExecuteContinued(t) \/ Die(t)
    BY <1>1 DEF Tree
  <2>2. UNCHANGED <<pc, handlerVars>>
    BY <2>1 DEF Trap, SignalCancel, Retrap, Rewrite, ExecuteContinued, Die
  <2>3. CASE call'[cur] = call[cur]
    BY <2>2, <2>3 DEF AskIsTyped, Typed
  <2>4. CASE call'[cur] # call[cur]
    <3>1. Trap(t) /\ t = cur
      BY <1>0, <2>1, <2>4
      DEF Trap, SignalCancel, Retrap, Rewrite, ExecuteContinued, Die
    <3>2. pc \in {"poll", "kill", "close"} \cup Terminal
      BY <1>0, <3>1 DEF Trap, Bound
    <3>. QED
      BY <2>2, <3>2 DEF AskIsTyped, Terminal
  <2>. QED
    BY <2>3, <2>4
<1>2. CASE \E t \in Thread : Recv(t)
  BY <1>2, RecvTyped
<1>3. CASE \/ Hangup \/ AbortDeny \/ AbortKill \/ AbortClose \/ Crash
           \/ AwaitFails \/ KernelFails \/ PollFails \/ RecordFails
  BY <1>3 DEF Hangup, AbortDeny, AbortKill, AbortClose, Crash, AwaitFails, KernelFails, PollFails,
              RecordFails, AskIsTyped
<1>4. CASE BracketOpen \/ Gather
  BY <1>4 DEF BracketOpen, Gather, Drop, AskIsTyped
<1>5. CASE BracketClose
  BY <1>5, BracketCloseTyped
<1>6. CASE WalkTree
  <2>1. dec'.event # "ask" /\ pc' = "record"
    BY <1>6, FixedIsNoAsk DEF WalkTree
  <2>. QED
    BY <2>1 DEF AskIsTyped
<1>7. CASE PreparePath \/ RecvPrepared
  <2>1. pc \in {"prepare", "await_prepare"} /\ UNCHANGED <<call, cur>>
    BY <1>7 DEF PreparePath, RecvPrepared, RealizationDeny
  <2>2. CASE RealizationDeny
    BY <2>2, FixedIsNoAsk DEF RealizationDeny, AskIsTyped
  <2>3. CASE ~RealizationDeny
    <3>1. pc' \in {"prepare", "await_prepare", "decide"}
      BY <1>7, <2>3 DEF PreparePath, RecvPrepared
    <3>. QED
      BY <2>1, <3>1 DEF AskIsTyped
  <2>. QED
    BY <2>2, <2>3
<1>8. CASE Decide
  <2>1. CASE \E r \in {"none", "unattended"} : Settle(r)
    BY <1>8, <2>1, SettleTyped DEF Decide
  <2>2. CASE ~\E r \in {"none", "unattended"} : Settle(r)
    BY <1>8, <2>2 DEF Decide, AskIsTyped
  <2>. QED
    BY <2>1, <2>2
<1>9. CASE Prompt
  BY <1>9, SettleTyped DEF Prompt
<1>10. CASE Record \/ Commit \/ RecvResult \/ Send
  BY <1>10 DEF Record, Commit, DropRecorded, Drop, RefuseLate, RecvResult, Send, AskIsTyped
<1>11. CASE Release \/ RecvReleased
  BY <1>0, <1>11 DEF Release, RecvReleased, AskIsTyped, Typed
<1>12. CASE \/ BrokerPrepare \/ BrokerRelease \/ BrokerCommit \/ BrokerStops \/ BrokerDies
            \/ UNCHANGED vars
  BY <1>12 DEF BrokerPrepare, BrokerRelease, BrokerCommit, BrokerStops, BrokerDies,
               AskIsTyped, Typed
<1>. QED
  BY <1>1, <1>2, <1>3, <1>4, <1>5, <1>6, <1>7, <1>8, <1>9, <1>10, <1>11, <1>12
  DEF Next, Supervisor, BrokerStep, Fault, Finished

-----------------------------------------------------------------------------
(***************************************************************************)
(* The trace.                                                              *)
(***************************************************************************)

\* Only Record adds to the trace, and only the event of an unrecorded call.
LEMMA OneEventStep ==
    ASSUME IInv, Protocol, Ledger, AskIsTyped, OneEvent, [Next]_vars
    PROVE  OneEvent'
<1>. USE DEF vars, kernelVars, handlerVars, brokerVars, logVars, historyVars
<1>1. CASE trace' = trace
  BY <1>1 DEF OneEvent, Family
<1>2. CASE Record
  <2>1. trace \in Seq(EventRecord) /\ curId \in Nat
    BY DEF IInv, TypeOK, LogType, HandlerType
  <2>2. trace' = Append(trace, Event) /\ pc = "record"
    BY <1>2 DEF Record
  <2>3. \A i \in DOMAIN trace : trace[i].id < curId
    BY <2>2 DEF Ledger, Unrecorded
  <2>4. Event.id = curId
    BY DEF Event
  <2>5. Event.event = "ask" => Family(Event) # "raw"
    <3>. SUFFICES ASSUME dec.event = "ask" PROVE Family(Event) # "raw"
      BY DEF Event
    <3>1. Typed
      BY <2>2 DEF AskIsTyped
    <3>2. Event.call.kind \in Decidable /\ Event.fact # <<>>
      BY <3>1 DEF Event, Typed
    <3>. HIDE DEF Event
    <3>. QED
      BY <3>2 DEF Family, Decidable, FsKinds
  <2>. HIDE DEF Event
  <2>6. DOMAIN trace' = DOMAIN trace \cup {Len(trace) + 1}
    BY <2>1, <2>2
  <2>7. /\ \A i \in DOMAIN trace : trace'[i] = trace[i]
        /\ trace'[Len(trace) + 1] = Event
    BY <2>1, <2>2
  <2>8. \A i \in DOMAIN trace : trace[i].id # Event.id
    <3>1. \A i \in DOMAIN trace : trace[i].id \in Nat
      BY LogFields
    <3>. QED
      BY <2>1, <2>3, <2>4, <3>1
  <2>9. \A i, j \in DOMAIN trace' : trace'[i].id = trace'[j].id => i = j
    BY <2>6, <2>7, <2>8, Zenon DEF OneEvent
  <2>10. \A i \in DOMAIN trace' : trace'[i].event = "ask" => Family(trace'[i]) # "raw"
    BY <2>5, <2>6, <2>7, Zenon DEF OneEvent
  <2>. QED
    BY <2>9, <2>10 DEF OneEvent, Family
<1>3. CASE trace' # trace
  <2>1. Record
    BY <1>3 DEF Next, Tree, Trap, SignalCancel, Retrap, Rewrite, ExecuteContinued, Die,
       Supervisor, Recv, Hangup, BracketOpen, Gather, BracketClose, WalkTree, PreparePath,
       RecvPrepared, Decide, Prompt, Commit, RecvResult, Release, RecvReleased, Send,
       AwaitFails, AbortDeny, AbortKill, AbortClose, BrokerStep, BrokerPrepare,
       BrokerRelease, BrokerCommit, BrokerStops, Fault, RecordFails, KernelFails, PollFails, Crash,
       BrokerDies, Finished
  <2>. QED
    BY <1>2, <2>1
<1>. QED
  BY <1>1, <1>3

\* One typed event per notification at most, in every reachable state.
LEMMA TellingInvariance == Spec => []TellingInv
<1>1. Init => TellingInv
  BY DEF Init, TellingInv, AskIsTyped, OneEvent
<1>2. IInv /\ HandlingInv /\ TellingInv /\ [Next]_vars => TellingInv'
  BY AskIsTypedStep, OneEventStep DEF TellingInv, HandlingInv
<1>. QED
  BY <1>1, <1>2, Invariance, HandlingInvariance, PTL DEF Spec

-----------------------------------------------------------------------------
(***************************************************************************)
(* The report.                                                             *)
(***************************************************************************)

\* Every event but a raw one that was not denied is on a line of the report,
\* which shows its decision.
LEMMA Displayed ==
    ASSUME NEW i \in DOMAIN trace,
           Family(trace[i]) = "raw" => trace[i].event = "deny"
    PROVE  display_decision(trace[i].event) \in Shown(trace[i])
<1>. DEFINE e == trace[i]
            f == Family(e)
            k == Key(e)
<1>1. i \in Of(f)
  BY DEF Of
<1>2. k \in Keys(f)
  BY <1>1 DEF Keys
<1>3. display_decision(e.event) \in Section(f)[k] /\ k \in DOMAIN Section(f)
  BY <1>1, <1>2, Zenon DEF Section
<1>4. Family(e) \in {"fs", "exec", "process", "cross_process", "net", "raw"}
  BY DEF Family
<1>5. Shown(e) = Section(f)[k]
  <2>. HIDE DEF e, k
  <2>1. k \in DOMAIN Section(f) /\ k = Key(e) /\ f = Family(e)
    BY <1>3 DEF k
  <2>. HIDE DEF f
  <2>. QED
    BY <1>4, <2>1 DEF Shown, files, processes, process_creations, cross_process, network,
       denied_raw
<1>. QED
  BY <1>3, <1>5

\* The report tells outcomes (docs/design/trace.md section 6): the line of a
\* refused call says so or says that it was asked about, and nothing took effect
\* whose line speaks of refusals only, for any tree, policy and faults.
THEOREM ReportTells == Spec => []ReportTellsOutcomes
<1>1. IInv /\ TellingInv => ReportTellsOutcomes
  <2>. SUFFICES ASSUME IInv, TellingInv PROVE ReportTellsOutcomes
    OBVIOUS
  <2>1. \A i \in DOMAIN trace : trace[i].event \in Verdict
    <3>1. trace \in Seq(EventRecord)
      BY DEF IInv, TypeOK, LogType
    <3>2. \A i \in DOMAIN trace : trace[i] \in EventRecord
      BY <3>1
    <3>. QED
      BY <3>2 DEF EventRecord
  <2>2. ASSUME NEW i \in DOMAIN trace, ~Permits(trace[i])
        PROVE  Shown(trace[i]) \cap {"denied", "ask"} # {}
    <3>1. trace[i].event \in {"deny", "ask"}
      BY <2>1, <2>2 DEF Permits, Verdict
    <3>2. Family(trace[i]) = "raw" => trace[i].event = "deny"
      BY <3>1 DEF TellingInv, OneEvent
    <3>3. display_decision(trace[i].event) \in {"denied", "ask"}
      BY <3>1 DEF display_decision
    <3>. QED
      BY <3>2, <3>3, Displayed
  <2>3. ASSUME NEW i \in DOMAIN effects, NEW j \in DOMAIN trace,
               effects[i].id = trace[j].id, Family(trace[j]) # "raw"
        PROVE  Shown(trace[j]) \cap {"allowed", "ask"} # {}
    <3>1. Permitted(effects[i].id)
      BY DEF IInv, Authority, RecordedBeforeEffect
    <3>2. PICK k \in DOMAIN trace : trace[k].id = effects[i].id /\ Permits(trace[k])
      BY <3>1 DEF Permitted
    <3>3. k = j
      BY <2>3, <3>2 DEF TellingInv, OneEvent
    <3>4. trace[j].event \in {"allow", "ask"}
      BY <3>2, <3>3 DEF Permits
    <3>5. display_decision(trace[j].event) \in {"allowed", "ask"}
      BY <3>4 DEF display_decision
    <3>. QED
      BY <2>3, <3>5, Displayed
  <2>. QED
    BY <2>2, <2>3 DEF ReportTellsOutcomes
<1>. QED
  BY <1>1, Invariance, TellingInvariance, PTL
=============================================================================
