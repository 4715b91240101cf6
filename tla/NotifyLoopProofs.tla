-------------------------- MODULE NotifyLoopProofs --------------------------
(***************************************************************************)
(* Proofs about the notify loop, for every set of threads, calls and       *)
(* operands, every policy, mode, bound and combination of faults.          *)
(***************************************************************************)
EXTENDS NotifyLoop, TLAPS, WellFoundedInduction, SequenceTheorems

-----------------------------------------------------------------------------
(***************************************************************************)
(* The decision operators.                                                 *)
(***************************************************************************)

\* The steps of a supervisor that has given up are always spelled out.
USE DEF Leaving

\* FirstOf picks an element of a non-empty set of indices.
LEMMA FirstOfMember ==
    ASSUME NEW S \in SUBSET Nat, S # {}
    PROVE  FirstOf(S) \in S
<1>1. PICK m \in S : \A j \in S : ~(<<j, m>> \in OpToRel(<, Nat))
  BY NatLessThanWellFounded, WFMin
<1>2. ASSUME NEW j \in S, j < m
      PROVE  FALSE
  <2>1. <<j, m>> \in {ss \in Nat \X Nat : ss[1] < ss[2]}
    BY <1>2
  <2>2. <<j, m>> \in OpToRel(<, Nat)
    BY <2>1, Zenon DEF OpToRel
  <2>. QED
    BY <1>1, <2>2
<1>3. \A j \in S : m <= j
  BY <1>2
<1>. QED
  BY <1>3 DEF FirstOf

\* The engine is total: whatever is asked, an enforce-mode evaluation is one
\* of the three verdicts.
LEMMA EvaluateVerdict ==
    ASSUME NEW request, request.family \in {"fs", "net", "exec"}
    PROVE  evaluate(Policy, request, "enforce").decision \in Verdict
<1>. DEFINE table == Policy[request.family]
            hits == {i \in DOMAIN table : Matches(request.family, table[i], request)}
<1>1. hits \in SUBSET Nat
  BY PolicyAssumption
<1>2. CASE hits # {}
  <2>1. FirstOf(hits) \in hits
    BY <1>1, <1>2, FirstOfMember
  <2>2. table[FirstOf(hits)].action \in Verdict
    BY <2>1, PolicyAssumption
  <2>3. first_match(Policy, request) =
            [action |-> table[FirstOf(hits)].action,
             matched |-> <<request.family, FirstOf(hits)>>]
    BY <1>2 DEF first_match
  <2>. QED
    BY <2>2, <2>3 DEF evaluate, Verdict
<1>3. CASE hits = {}
  <2>1. first_match(Policy, request) = NoMatch
            \/ first_match(Policy, request).action = "allow"
    BY <1>3 DEF first_match, path_under_workspace
  <2>. QED
    BY <2>1 DEF evaluate, Verdict
<1>. QED
  BY <1>2, <1>3

\* What is told to the child is what the event says: an answer that lets the
\* call through is only given with an event that permits it.
LEMMA FinalizeDecision ==
    ASSUME NEW decision \in Verdict, NEW resolution \in Resolution
    PROVE  LET d == finalize_decision(decision, resolution)
           IN  d \in ResolvedDecision /\ (d.response = "allow" => Permits(d))
BY DEF finalize_decision, fixed_decision, ResolvedDecision, Verdict, Resolution,
       Permits

\* A decision without an operator says what it answers.
LEMMA FixedDecision ==
    ASSUME NEW d \in {"allow", "deny"}
    PROVE  /\ fixed_decision(d) \in ResolvedDecision
           /\ fixed_decision(d).response = d
           /\ fixed_decision(d).response = "allow" => Permits(fixed_decision(d))
BY DEF fixed_decision, ResolvedDecision, Verdict, Resolution, Permits

\* The same for a call with several requirements: joint permission only.
LEMMA FinalizeOperand ==
    ASSUME NEW decisions \in Seq(Verdict), NEW resolution \in Resolution
    PROVE  LET d == finalize_operand(decisions, resolution)
           IN  d \in ResolvedDecision /\ (d.response = "allow" => Permits(d))
<1>. DEFINE final == [i \in DOMAIN decisions |->
                        finalize_decision(decisions[i], resolution)]
            denied == {i \in DOMAIN final : final[i].response # "allow"}
<1>1. \A i \in DOMAIN final : /\ final[i] \in ResolvedDecision
                              /\ final[i].response = "allow" => Permits(final[i])
  BY FinalizeDecision
<1>2. CASE decisions = <<>>
  BY <1>2, FixedDecision DEF finalize_operand
<1>3. CASE decisions # <<>> /\ denied # {}
  <2>1. denied \in SUBSET Nat
    OBVIOUS
  <2>2. FirstOf(denied) \in denied
    BY <1>3, <2>1, FirstOfMember
  <2>3. finalize_operand(decisions, resolution) = final[FirstOf(denied)]
    BY <1>3 DEF finalize_operand
  <2>. QED
    BY <1>1, <2>2, <2>3
<1>4. CASE decisions # <<>> /\ denied = {}
  <2>1. 1 \in DOMAIN final
    BY <1>4
  <2>2. finalize_operand(decisions, resolution) = final[1]
    BY <1>4 DEF finalize_operand
  <2>. QED
    BY <1>1, <2>1, <2>2
<1>. QED
  BY <1>2, <1>3, <1>4

\* One verdict per required access.
LEMMA FsDecisionsType ==
    ASSUME NEW path, NEW access \in Seq(Access)
    PROVE  FsDecisions(path, access) \in Seq(Verdict)
<1>1. \A i \in DOMAIN access :
         evaluate(Policy, [family |-> "fs", path |-> path, access |-> {access[i]}],
                  "enforce").decision \in Verdict
  BY EvaluateVerdict
<1>2. Len(access) \in Nat /\ DOMAIN access = 1..Len(access)
  BY LenProperties
<1>3. FsDecisions(path, access) \in [1..Len(access) -> Verdict]
  BY <1>1, <1>2 DEF FsDecisions
<1>. QED
  BY <1>2, <1>3, SeqDef

\* The accesses a call asks for are accesses.
LEMMA AccessType ==
    ASSUME NEW c \in CallRecord, NEW exists
    PROVE  primary_access(c) \in Seq(Access) /\ secondary_access(c, exists) \in Seq(Access)
<1>1. c.access \in Seq(Access)
  BY DEF CallRecord
<1>2. /\ <<"delete", "create">> \in Seq(Access) /\ <<"delete">> \in Seq(Access)
      /\ <<"read">> \in Seq(Access) /\ <<"create">> \in Seq(Access)
      /\ <<"create", "delete">> \in Seq(Access)
  BY DEF Access
<1>. QED
  BY <1>1, <1>2 DEF primary_access, secondary_access

\* Whatever a call requires, every requirement gets a verdict.
LEMMA DecisionsType ==
    ASSUME NEW c \in CallRecord, NEW paths, NEW values
    PROVE  Decisions(c, paths, values) \in Seq(Verdict)
<1>1. /\ primary_access(c) \in Seq(Access)
      /\ secondary_access(c, paths[2].exists) \in Seq(Access)
  BY AccessType
<1>3. NetDecision(values[1]) \in Verdict
  BY EvaluateVerdict DEF NetDecision
<1>4. ExecDecision(values[1]) \in Verdict
  BY EvaluateVerdict DEF ExecDecision
<1>5. FsDecisions(paths[1].identity, primary_access(c)) \in Seq(Verdict)
  BY <1>1, FsDecisionsType
<1>6. FsDecisions(paths[2].identity, secondary_access(c, paths[2].exists))
         \in Seq(Verdict)
  BY <1>1, FsDecisionsType
<1>7. <<"allow">> \in Seq(Verdict) /\ <<NetDecision(values[1])>> \in Seq(Verdict)
         /\ <<ExecDecision(values[1])>> \in Seq(Verdict) /\ <<>> \in Seq(Verdict)
  BY <1>3, <1>4 DEF Verdict
<1>8. FsDecisions(paths[1].identity, primary_access(c)) \o
         (IF Len(paths) = 2
          THEN FsDecisions(paths[2].identity, secondary_access(c, paths[2].exists))
          ELSE <<>>) \in Seq(Verdict)
  BY <1>5, <1>6, <1>7, ConcatProperties
<1>. QED
  BY <1>7, <1>8 DEF Decisions

-----------------------------------------------------------------------------
(***************************************************************************)
(* Steps of the supervised tree.                                           *)
(***************************************************************************)

\* A thread dies.
LEMMA DieStep ==
    ASSUME IInv, NEW t \in Thread, Die(t)
    PROVE  IInv'
<1>. USE DEF Die, handlerVars, brokerVars, logVars, historyVars
<1>1. TypeOK'
  BY DEF IInv, TypeOK, KernelType, HandlerType, BrokerType, LogType
<1>2. Bound'
  BY DEF IInv, TypeOK, KernelType, Bound
<1>3. Shape'
  BY DEF IInv, Shape, Read, Brokered, Operands
<1>4. Socket'
  BY DEF IInv, Socket
<1>5. Authority'
  BY DEF IInv, TypeOK, KernelType, Authority, Permitted, RecordedBeforeEffect, Answering
<1>. QED
  BY <1>1, <1>2, <1>3, <1>4, <1>5 DEF IInv

\* A thread traps.
LEMMA TrapStep ==
    ASSUME IInv, NEW t \in Thread, Trap(t)
    PROVE  IInv'
<1>. USE DEF Trap, handlerVars, brokerVars, logVars, historyVars
<1>. PICK c \in Calls : /\ call' = [call EXCEPT ![t] = c]
                        /\ mem' = [mem EXCEPT ![t] = c.args]
  OBVIOUS
<1>0. c \in CallRecord /\ c.args \in Seq(Operand) /\ Len(c.args) = Arity(c.kind)
  BY CallsAssumption DEF CallRecord
<1>1. TypeOK'
  <2>1. KernelType'
    BY <1>0 DEF IInv, TypeOK, KernelType
  <2>. QED
    BY <2>1 DEF IInv, TypeOK, HandlerType, BrokerType, LogType
<1>2. Bound'
  BY DEF IInv, TypeOK, KernelType, Bound
<1>3. Shape'
  BY <1>0 DEF IInv, TypeOK, KernelType, HandlerType, Bound, Shape, Read, Brokered,
              Operands, Terminal
<1>4. Socket'
  BY DEF IInv, Socket
<1>5. Authority'
  BY DEF IInv, TypeOK, KernelType, Authority, Permitted, RecordedBeforeEffect, Answering
<1>. QED
  BY <1>1, <1>2, <1>3, <1>4, <1>5 DEF IInv

\* A signal cancels an unreceived notification.
LEMMA SignalCancelStep ==
    ASSUME IInv, NEW t \in Thread, SignalCancel(t)
    PROVE  IInv'
<1>. USE DEF SignalCancel, CancelledStates, handlerVars, brokerVars, logVars, historyVars
<1>1. TypeOK'
  BY DEF IInv, TypeOK, KernelType, HandlerType, BrokerType, LogType
<1>2. Bound'
  BY DEF IInv, TypeOK, KernelType, Bound
<1>3. Shape'
  BY DEF IInv, Shape, Read, Brokered, Operands
<1>4. Socket'
  BY DEF IInv, Socket
<1>5. Authority'
  BY DEF IInv, TypeOK, KernelType, Authority, Permitted, RecordedBeforeEffect, Answering
<1>. QED
  BY <1>1, <1>2, <1>3, <1>4, <1>5 DEF IInv

\* A cancelled call traps again.
LEMMA RetrapStep ==
    ASSUME IInv, NEW t \in Thread, Retrap(t)
    PROVE  IInv'
<1>. USE DEF Retrap, handlerVars, brokerVars, logVars, historyVars
<1>1. TypeOK'
  BY DEF IInv, TypeOK, KernelType, HandlerType, BrokerType, LogType
<1>2. Bound'
  BY DEF IInv, TypeOK, KernelType, Bound
<1>3. Shape'
  BY DEF IInv, Shape, Read, Brokered, Operands
<1>4. Socket'
  BY DEF IInv, Socket
<1>5. Authority'
  BY DEF IInv, TypeOK, KernelType, Authority, Permitted, RecordedBeforeEffect, Answering
<1>. QED
  BY <1>1, <1>2, <1>3, <1>4, <1>5 DEF IInv

\* A sibling rewrites a pending call's arguments.
LEMMA RewriteStep ==
    ASSUME IInv, NEW t \in Thread, Rewrite(t)
    PROVE  IInv'
<1>. USE DEF Rewrite, handlerVars, brokerVars, logVars, historyVars
<1>. PICK i \in DOMAIN mem[t], v \in Scribble : mem' = [mem EXCEPT ![t][i] = v]
  OBVIOUS
<1>0. [mem[t] EXCEPT ![i] = v] \in Seq(Operand) /\ Len([mem[t] EXCEPT ![i] = v]) = Len(mem[t])
  <2>1. mem[t] \in Seq(Operand)
    BY DEF IInv, TypeOK, KernelType
  <2>2. i \in 1..Len(mem[t]) /\ v \in Operand
    BY <2>1, LenProperties, ConfigAssumption DEF Operand
  <2>. QED
    BY <2>1, <2>2, ExceptSeq
<1>1. TypeOK'
  BY <1>0 DEF IInv, TypeOK, KernelType, HandlerType, BrokerType, LogType
<1>2. Bound'
  BY DEF IInv, Bound
<1>3. Shape'
  BY <1>0 DEF IInv, TypeOK, KernelType, Shape, Read, Brokered, Operands
<1>4. Socket'
  BY DEF IInv, Socket
<1>5. Authority'
  BY DEF IInv, Authority, Permitted, RecordedBeforeEffect, Answering
<1>. QED
  BY <1>1, <1>2, <1>3, <1>4, <1>5 DEF IInv

\* The kernel runs a call that was let through: the event is already there.
LEMMA ExecuteContinuedStep ==
    ASSUME IInv, NEW t \in Thread, ExecuteContinued(t)
    PROVE  IInv'
<1>. USE DEF ExecuteContinued, handlerVars, brokerVars, logVars
<1>. DEFINE e == [id |-> nid[t], thread |-> t, no |-> callno[t], via |-> "kernel",
                  args |-> mem[t], replaces |-> FALSE, moved |-> FALSE]
<1>1. TypeOK'
  <2>1. e \in EffectRecord
    BY DEF IInv, TypeOK, KernelType, EffectRecord
  <2>2. LogType'
    BY <2>1 DEF IInv, TypeOK, LogType
  <2>. QED
    BY <2>2 DEF IInv, TypeOK, KernelType, HandlerType, BrokerType
<1>2. Bound'
  BY DEF IInv, TypeOK, KernelType, Bound
<1>3. Shape'
  BY DEF IInv, Shape, Read, Brokered, Operands
<1>4. Socket'
  BY DEF IInv, Socket
<1>5. Authority'
  <2>1. Permitted(nid[t])
    BY DEF IInv, Authority
  <2>2. RecordedBeforeEffect'
    <3>1. effects' = Append(effects, e) /\ e.id = nid[t] /\ trace' = trace
      OBVIOUS
    <3>. HIDE DEF e
    <3>. QED
      BY <2>1, <3>1 DEF IInv, TypeOK, LogType, Authority, RecordedBeforeEffect, Permitted
  <2>. QED
    BY <2>2 DEF IInv, TypeOK, KernelType, Authority, Permitted, Answering
<1>. QED
  BY <1>1, <1>2, <1>3, <1>4, <1>5 DEF IInv

-----------------------------------------------------------------------------
(***************************************************************************)
(* Packets on the broker socket.                                           *)
(***************************************************************************)

\* An empty socket is well typed.
LEMMA NoPacket ==
    /\ NoReq \in RequestPacket /\ NoReq.op = "none"
    /\ NoResp \in ResponsePacket /\ NoResp.res = "none"
BY DEF NoReq, NoResp, RequestPacket, ResponsePacket, Requests, Results, Operand

\* A request that names tokens.
LEMMA TokenRequest ==
    ASSUME NEW op \in Requests, NEW toks \in Seq(Token)
    PROVE  LET r == [NoReq EXCEPT !.op = op, !.toks = toks]
           IN  r \in RequestPacket /\ r.op = op
BY NoPacket DEF RequestPacket

\* A request to perform an operation.
LEMMA OperationRequest ==
    ASSUME NEW op \in Requests, NEW no \in Nat, NEW val \in Operand, NEW toks \in Seq(Token),
           NEW r, r = [NoReq EXCEPT !.op = op, !.no = no, !.val = val, !.toks = toks]
    PROVE  r \in RequestPacket /\ r.op = op /\ r.no = no /\ r.val = val /\ r.toks = toks
BY NoPacket DEF RequestPacket

\* A request to pin a path.
LEMMA PrepareRequest ==
    ASSUME NEW val \in Operand, NEW missing \in BOOLEAN
    PROVE  LET r == [NoReq EXCEPT !.op = "prepare", !.val = val, !.missing = missing]
           IN  r \in RequestPacket /\ r.op = "prepare" /\ r.val = val
BY NoPacket DEF RequestPacket, Requests

-----------------------------------------------------------------------------
(***************************************************************************)
(* Receiving, reading and classifying a call.                              *)
(***************************************************************************)

\* Only a call that the kernel or nobody executes is decided on receipt.
LEMMA ClassifyShape ==
    ASSUME NEW c \in CallRecord
    PROVE  /\ Classify(c).pc \in {"record", "tree", "valid1"}
           /\ Classify(c).dec \in ResolvedDecision
           /\ Classify(c).dec.response = "allow" => Permits(Classify(c).dec)
           /\ Classify(c).answer \in {"continue", "eacces", "enosys"}
           /\ Classify(c).answer = "continue" => Classify(c).dec.response = "allow"
           /\ (Classify(c).pc = "record" /\ Classify(c).dec.response = "allow")
                 => ~Brokered(c)
           /\ Classify(c).pc = "tree" => c.kind = "ptrace"
<1>1. CASE c.kind \in {"foreign", "sr4"}
  BY <1>1, FixedDecision DEF Classify
<1>2. CASE c.kind = "clone"
  BY <1>2, FixedDecision DEF Classify, Brokered, FsKinds
<1>3. CASE c.kind \in {"clone3", "net"} /\ c.scalar = "size"
  <2>1. Classify(c) = [pc |-> "record", dec |-> ReadFailure(c),
                       answer |-> Answer(ReadFailure(c))]
    BY <1>3 DEF Classify
  <2>2. CASE c.kind = "net" /\ RunMode = "record_only"
    BY <2>1, <2>2, FixedDecision DEF ReadFailure, Answer, Brokered
  <2>3. CASE ~(c.kind = "net" /\ RunMode = "record_only")
    BY <2>1, <2>3, FixedDecision DEF ReadFailure, Answer
  <2>. QED
    BY <2>2, <2>3
<1>4. CASE c.kind = "ptrace"
  BY <1>4, FixedDecision DEF Classify
<1>5. CASE /\ c.kind \notin {"foreign", "sr4", "clone", "ptrace"}
           /\ ~(c.kind \in {"clone3", "net"} /\ c.scalar = "size")
  BY <1>5, FixedDecision DEF Classify
<1>. QED
  BY <1>1, <1>2, <1>3, <1>4, <1>5

\* Receiving a notification.
LEMMA RecvStep ==
    ASSUME IInv, NEW t \in Thread, Recv(t)
    PROVE  IInv'
<1>. USE DEF Recv, brokerVars, logVars, historyVars
<1>0. call[t] \in CallRecord /\ call'[t] = call[t]
  BY DEF IInv, TypeOK, KernelType
<1>a. /\ pc' \in {"record", "tree", "valid1"}
      /\ dec' \in ResolvedDecision
      /\ dec'.response = "allow" => Permits(dec')
      /\ answer' \in {"continue", "eacces", "enosys"}
      /\ answer' = "continue" => dec'.response = "allow"
      /\ (pc' = "record" /\ dec'.response = "allow") => ~Brokered(call[t])
      /\ pc' = "tree" => call[t].kind = "ptrace"
  BY <1>0, ClassifyShape
<1>1. TypeOK'
  <2>1. KernelType'
    BY DEF IInv, TypeOK, KernelType
  <2>2. pc' \in PcValues /\ answer' \in Answers
    BY <1>a DEF PcValues, Answers
  <2>3. cur' \in Thread /\ curId' \in Nat /\ stale' \in BOOLEAN
    BY DEF IInv, TypeOK, KernelType
  <2>4. fact' \in Seq(Operand)
    OBVIOUS
  <2>5. HandlerType'
    BY <1>a, <2>2, <2>3, <2>4 DEF IInv, TypeOK, HandlerType
  <2>. QED
    BY <2>1, <2>5 DEF IInv, TypeOK, BrokerType, LogType
<1>2. Bound'
  BY DEF IInv, TypeOK, KernelType, Bound
<1>3. Shape'
  BY <1>0, <1>a DEF IInv, Shape, Brokered
<1>4. Socket'
  BY DEF IInv, Socket, Awaiting
<1>5. Authority'
  BY <1>a DEF IInv, TypeOK, KernelType, Authority, Socket, Permitted,
              RecordedBeforeEffect, Answering, Awaiting
<1>. QED
  BY <1>1, <1>2, <1>3, <1>4, <1>5 DEF IInv

\* The tree is gone.
LEMMA HangupStep ==
    ASSUME IInv, Hangup
    PROVE  IInv'
<1>. USE DEF Hangup, handlerVars, brokerVars, logVars, historyVars
<1>1. TypeOK'
  <2>1. KernelType'
    BY DEF IInv, TypeOK, KernelType, HandlerType
  <2>2. HandlerType'
    BY DEF IInv, TypeOK, HandlerType, PcValues, Awaiting, Terminal, Answers
  <2>. QED
    BY <2>1, <2>2 DEF IInv, TypeOK, BrokerType, LogType
<1>2. Bound'
  BY DEF IInv, TypeOK, KernelType, HandlerType, Bound, Terminal
<1>3. Shape'
  BY DEF IInv, TypeOK, KernelType, HandlerType, Shape, Read, Brokered, Operands, Awaiting
<1>4. Socket'
  BY DEF IInv, Socket, Awaiting
<1>5. Authority'
  BY DEF IInv, TypeOK, KernelType, HandlerType, Authority, Permitted,
         RecordedBeforeEffect, Answering, Awaiting
<1>. QED
  BY <1>1, <1>2, <1>3, <1>4, <1>5 DEF IInv

\* The opening check of the bracket.
LEMMA BracketOpenStep ==
    ASSUME IInv, BracketOpen
    PROVE  IInv'
<1>. USE DEF BracketOpen, Drop, kernelVars, handlerVars, brokerVars, logVars, historyVars
<1>1. TypeOK'
  <2>1. HandlerType'
    BY DEF IInv, TypeOK, HandlerType, PcValues, Awaiting, Terminal, Answers
  <2>. QED
    BY <2>1 DEF IInv, TypeOK, KernelType, BrokerType, LogType
<1>2. Bound'
  BY DEF IInv, TypeOK, KernelType, HandlerType, Bound, Terminal
<1>3. Shape'
  BY DEF IInv, TypeOK, KernelType, HandlerType, Shape, Read, Brokered, Operands, Awaiting
<1>4. Socket'
  BY DEF IInv, Socket, Awaiting
<1>5. Authority'
  BY DEF IInv, TypeOK, KernelType, HandlerType, Authority, Permitted,
         RecordedBeforeEffect, Answering, Awaiting
<1>. QED
  BY <1>1, <1>2, <1>3, <1>4, <1>5 DEF IInv

\* A read yields every operand or the marker of a failed read.
LEMMA ReadableShape ==
    ASSUME NEW c, NEW values \in Seq(Operand)
    PROVE  \/ Readable(c, values) = <<Bad>>
           \/ Readable(c, values) = values /\ values \in Seq(Value)
<1>1. CASE \E i \in DOMAIN values : values[i] = Bad
  BY <1>1 DEF Readable, ReadsWhole
<1>2. CASE \A i \in DOMAIN values : values[i] # Bad
  <2>1. DOMAIN values = 1..Len(values) /\ Len(values) \in Nat
    BY LenProperties
  <2>2. \A i \in 1..Len(values) : values[i] \in Value
    BY <1>2, <2>1 DEF Operand
  <2>3. values \in [1..Len(values) -> Value]
    BY <2>1, <2>2
  <2>4. values \in Seq(Value)
    BY <2>1, <2>3, SeqDef
  <2>. QED
    BY <2>4 DEF Readable
<1>. QED
  BY <1>1, <1>2

\* Reading the operands, from the thread or from whoever has its pid now.
LEMMA GatherStep ==
    ASSUME IInv, Gather
    PROVE  IInv'
<1>. USE DEF Gather, kernelVars, brokerVars, logVars, historyVars
<1>0. /\ cur \in Thread /\ mem[cur] \in Seq(Operand)
      /\ Len(mem[cur]) = Arity(call[cur].kind)
  BY DEF IInv, TypeOK, KernelType, HandlerType, Shape
<1>a. PICK values \in Seq(Operand) : /\ Len(values) = Len(mem[cur])
                                     /\ fact' = Readable(call[cur], values)
  <2>1. CASE tstate[cur] # "dead"
    BY <1>0, <2>1
  <2>2. CASE tstate[cur] = "dead"
    <3>1. PICK values \in [DOMAIN mem[cur] -> Operand] :
             fact' = Readable(call[cur], values)
      BY <2>2 DEF Operand
    <3>2. DOMAIN mem[cur] = 1..Len(mem[cur]) /\ Len(mem[cur]) \in Nat
      BY <1>0, LenProperties
    <3>3. values \in Seq(Operand) /\ Len(values) = Len(mem[cur])
      BY <3>2, SeqDef, LenProperties
    <3>. QED
      BY <3>1, <3>3
  <2>. QED
    BY <2>1, <2>2
<1>b. \/ fact' = <<Bad>>
      \/ fact' = values /\ values \in Seq(Value)
  BY <1>a, ReadableShape
<1>c. fact' \in Seq(Operand)
  <2>1. <<Bad>> \in Seq(Operand)
    BY DEF Operand
  <2>. QED
    BY <1>b, <2>1
<1>d. fact' = <<Bad>> \/ Read'
  BY <1>0, <1>a, <1>b DEF Read
<1>1. TypeOK'
  <2>1. HandlerType'
    BY <1>c DEF IInv, TypeOK, HandlerType, PcValues
  <2>. QED
    BY <2>1 DEF IInv, TypeOK, KernelType, BrokerType, LogType
<1>2. Bound'
  BY DEF IInv, Bound, Terminal
<1>3. Shape'
  BY <1>d DEF IInv, Shape
<1>4. Socket'
  BY DEF IInv, Socket, Awaiting
<1>5. Authority'
  BY DEF IInv, Authority, Permitted, RecordedBeforeEffect, Answering
<1>. QED
  BY <1>1, <1>2, <1>3, <1>4, <1>5 DEF IInv

\* The closing check of the bracket and the branch on what was read.
LEMMA BracketCloseStep ==
    ASSUME IInv, BracketClose
    PROVE  IInv'
<1>. USE DEF BracketClose, Drop, kernelVars, handlerVars, brokerVars, logVars, historyVars
<1>0. cur \in Thread /\ call[cur] \in CallRecord
  BY DEF IInv, TypeOK, KernelType, HandlerType
<1>b. \/ pc' = "poll" /\ UNCHANGED <<dec, answer>>
      \/ /\ pc' = "record" /\ dec' = ReadFailure(call[cur])
         /\ answer' = Answer(ReadFailure(call[cur]))
      \/ /\ pc' = "record" /\ dec' = fixed_decision("allow")
         /\ answer' = Answer(fixed_decision("allow")) /\ call[cur].kind = "clone3"
      \/ /\ pc' \in {"prepare", "decide"}
         /\ dec' = fixed_decision("deny") /\ answer' = "eacces"
         /\ fact # <<Bad>>
         /\ pc' = "prepare" => RunMode = "enforce" /\ call[cur].kind \in FsKinds
  BY DEF AfterRead, Decided, Undecided, handle_fs, handle_exec, handle_process,
         handle_network
<1>u. UNCHANGED <<cur, curId, fact, stale, prepared, ret>>
  OBVIOUS
<1>a. /\ dec' \in ResolvedDecision
      /\ dec'.response = "allow" => Permits(dec')
      /\ answer' \in Answers
      /\ answer' = "continue" => dec'.response = "allow"
      /\ (pc' = "record" /\ dec'.response = "allow") => ~Brokered(call[cur])
  <2>1. CASE pc' # "record" /\ UNCHANGED <<dec, answer>>
    BY <2>1 DEF IInv, TypeOK, HandlerType, Authority
  <2>2. CASE dec' = fixed_decision("allow") /\ answer' = Answer(fixed_decision("allow"))
                /\ call[cur].kind = "clone3"
    BY <2>2, FixedDecision DEF Answer, Answers, Brokered, FsKinds
  <2>4. CASE pc' # "record" /\ dec' = fixed_decision("deny") /\ answer' = "eacces"
    BY <2>4, FixedDecision DEF Answers
  <2>3. CASE dec' = ReadFailure(call[cur]) /\ answer' = Answer(ReadFailure(call[cur]))
    BY <2>3, FixedDecision DEF ReadFailure, Answer, Answers, Brokered
  <2>. QED
    BY <1>b, <2>1, <2>2, <2>3, <2>4
<1>c. pc' = "prepare" =>
         Read /\ Brokered(call[cur]) /\ 0 < Len(Operands(call[cur], fact))
  <2>1. SUFFICES ASSUME pc' = "prepare"
                 PROVE  Read /\ Brokered(call[cur]) /\ 0 < Len(Operands(call[cur], fact))
    OBVIOUS
  <2>2. fact # <<Bad>> /\ RunMode = "enforce" /\ call[cur].kind \in FsKinds
    BY <1>b, <2>1
  <2>3. Read
    BY <2>2 DEF IInv, Shape
  <2>. HIDE DEF BracketClose
  <2>4. Len(fact) \in {1, 2}
    BY <2>2, <2>3 DEF Read, Arity, FsKinds
  <2>5. Brokered(call[cur])
    BY <2>2 DEF Brokered
  <2>6. 0 < Len(Operands(call[cur], fact))
    <3>1. CASE call[cur].kind = "symlink"
      BY <3>1 DEF Operands
    <3>2. CASE call[cur].kind # "symlink"
      BY <2>4, <3>2 DEF Operands
    <3>. QED
      BY <3>1, <3>2
  <2>. QED
    BY <2>3, <2>5, <2>6
<1>1. TypeOK'
  <2>1. HandlerType'
    BY <1>a, <1>b DEF IInv, TypeOK, HandlerType, PcValues, Awaiting, Terminal
  <2>. QED
    BY <2>1 DEF IInv, TypeOK, KernelType, BrokerType, LogType
<1>2. Bound'
  BY DEF IInv, Bound, Terminal
<1>3. Shape'
  <2>1. prepared = <<>> /\ (fact = <<Bad>> \/ Read)
    BY DEF IInv, Shape
  <2>2. pc' \in {"prepare", "decide"} => Read'
    BY <1>b, <1>u, <2>1 DEF Read
  <2>3. pc' = "prepare" =>
           (Brokered(call[cur]) /\ Len(prepared) < Len(Operands(call[cur], fact)))'
    BY <1>c, <1>u, <2>1 DEF Brokered, Operands
  <2>. QED
    BY <1>a, <1>b, <1>u, <2>1, <2>2, <2>3 DEF IInv, Shape, Brokered
<1>4. Socket'
  BY DEF IInv, Socket, Awaiting
<1>5. Authority'
  BY <1>a, <1>b DEF IInv, Authority, Permitted, RecordedBeforeEffect, Answering
<1>. QED
  BY <1>1, <1>2, <1>3, <1>4, <1>5 DEF IInv

\* The decision on a cross-process call.
LEMMA WalkTreeStep ==
    ASSUME IInv, WalkTree
    PROVE  IInv'
<1>. USE DEF WalkTree, process_in_tree, kernelVars, brokerVars, logVars, historyVars
<1>0. PICK d \in {"allow", "deny"} : dec' = fixed_decision(d)
  OBVIOUS
<1>a. dec' \in ResolvedDecision /\ (dec'.response = "allow" => Permits(dec'))
  BY <1>0, FixedDecision
<1>b. answer' \in {"continue", "eacces"} /\ (answer' = "continue" => dec'.response = "allow")
  BY DEF Answer
<1>c. fact = <<>> => Len(fact) = 0
  OBVIOUS
<1>1. TypeOK'
  <2>1. HandlerType'
    BY <1>a, <1>b DEF IInv, TypeOK, HandlerType, PcValues, Awaiting, Terminal, Answers
  <2>. QED
    BY <2>1 DEF IInv, TypeOK, KernelType, BrokerType, LogType
<1>2. Bound'
  BY DEF IInv, TypeOK, KernelType, HandlerType, Bound, Terminal
<1>3. Shape'
  BY DEF IInv, TypeOK, KernelType, HandlerType, Shape, Read, Brokered, FsKinds, Operands
<1>4. Socket'
  BY DEF IInv, Socket, Awaiting
<1>5. Authority'
  BY <1>a, <1>b DEF IInv, TypeOK, KernelType, HandlerType, Authority, Permitted,
         RecordedBeforeEffect, Answering, Awaiting
<1>. QED
  BY <1>1, <1>2, <1>3, <1>4, <1>5 DEF IInv

-----------------------------------------------------------------------------
(***************************************************************************)
(* Preparing, deciding and recording.                                      *)
(***************************************************************************)

\* The operands of a call whose arguments were read are values.
LEMMA OperandsType ==
    ASSUME IInv, Read
    PROVE  Operands(call[cur], fact) \in Seq(Value)
<1>1. CASE call[cur].kind = "symlink"
  <2>1. fact \in Seq(Value) /\ Len(fact) = 2
    BY <1>1 DEF Read, Arity
  <2>2. fact[2] \in Value
    <3>1. 2 \in 1..Len(fact)
      BY <2>1
    <3>. QED
      BY <2>1, <3>1, ElementOfSeq
  <2>. QED
    BY <1>1, <2>2 DEF Operands
<1>2. CASE call[cur].kind # "symlink"
  BY <1>2 DEF Operands, Read
<1>. QED
  BY <1>1, <1>2

\* What a refusal during preparation leaves: the deny to be recorded, once the
\* first operand, if there is one, is released.
LEMMA RealizationDenyStep ==
    ASSUME IInv, pc \in {"prepare", "await_prepare"}, RealizationDeny,
           UNCHANGED <<kernelVars, logVars, historyVars>>
    PROVE  /\ HandlerType' /\ Bound' /\ Shape'
           /\ pc' \in {"record", "release"}
           /\ dec'.response # "allow" /\ answer' = "errno" /\ ret' # "send"
<1>. USE DEF RealizationDeny, kernelVars, logVars, historyVars
<1>0. dec' \in ResolvedDecision /\ dec'.response = "deny"
  BY FixedDecision
<1>1. HandlerType'
  BY <1>0 DEF IInv, TypeOK, HandlerType, PcValues, Answers
<1>2. Bound'
  BY DEF IInv, Bound, Awaiting, Terminal
<1>3. Shape'
  BY <1>0 DEF IInv, Shape
<1>. QED
  BY <1>0, <1>1, <1>2, <1>3

\* Asking the broker to pin the next operand.
LEMMA PreparePathStep ==
    ASSUME IInv, PreparePath
    PROVE  IInv'
<1>. DEFINE operand == Operands(call[cur], fact)[Len(prepared) + 1]
            missing == AllowMissing(call[cur], Len(prepared) + 1)
<1>0. operand \in Value /\ operand \in Operand
  <2>1. /\ Read /\ Len(prepared) \in Nat
        /\ Len(prepared) < Len(Operands(call[cur], fact))
    BY LenProperties DEF IInv, TypeOK, HandlerType, Shape, PreparePath
  <2>2. Operands(call[cur], fact) \in Seq(Value)
    BY <2>1, OperandsType
  <2>. QED
    BY <2>1, <2>2 DEF Operand
<1>1. CASE RealizationDeny /\ UNCHANGED brokerVars
  <2>1. UNCHANGED <<kernelVars, logVars, historyVars>> /\ pc = "prepare"
    BY DEF PreparePath
  <2>2. /\ HandlerType' /\ Bound' /\ Shape'
        /\ pc' \in {"record", "release"}
        /\ dec'.response # "allow" /\ answer' = "errno" /\ ret' # "send"
    BY <1>1, <2>1, RealizationDenyStep
  <2>3. TypeOK'
    BY <1>1, <2>1, <2>2 DEF IInv, TypeOK, KernelType, BrokerType, LogType, kernelVars,
          brokerVars, logVars, historyVars
  <2>4. Socket'
    BY <1>1, <2>1 DEF IInv, Socket, Awaiting, brokerVars
  <2>5. curId' = curId
    BY <1>1 DEF RealizationDeny
  <2>6. Authority'
    BY <1>1, <2>1, <2>2, <2>5 DEF IInv, Authority, Permitted, RecordedBeforeEffect,
          Answering, kernelVars, brokerVars, logVars, historyVars
  <2>. QED
    BY <2>2, <2>3, <2>4, <2>6 DEF IInv
<1>2. CASE /\ req' = [NoReq EXCEPT !.op = "prepare", !.val = operand,
                                   !.missing = missing]
           /\ UNCHANGED <<broker, resp, held, next_token, slot>>
           /\ pc' = "await_prepare"
           /\ UNCHANGED handlerVars
  <2>1. missing \in BOOLEAN
    BY DEF AllowMissing
  <2>2. req' \in RequestPacket /\ req'.op = "prepare" /\ req'.val = operand
    <3>. HIDE DEF operand, missing
    <3>. QED
      BY <1>0, <1>2, <2>1, PrepareRequest
  <2>. HIDE DEF operand, missing
  <2>3. UNCHANGED <<kernelVars, logVars, historyVars>> /\ pc = "prepare"
    BY DEF PreparePath
  <2>. USE <1>2, <2>2, <2>3 DEF handlerVars, kernelVars, logVars, historyVars
  <2>4. TypeOK'
    <3>1. HandlerType'
      BY DEF IInv, TypeOK, HandlerType, PcValues, Awaiting
    <3>2. BrokerType'
      BY DEF IInv, TypeOK, BrokerType
    <3>. QED
      BY <3>1, <3>2 DEF IInv, TypeOK, KernelType, LogType
  <2>5. Bound'
    BY DEF IInv, Bound, Awaiting, Terminal
  <2>6. Shape'
    BY DEF IInv, Shape, Read, Brokered, Operands
  <2>7. Socket'
    BY <1>0 DEF IInv, Socket, Awaiting
  <2>8. Authority'
    BY DEF IInv, Authority, Permitted, RecordedBeforeEffect, Answering
  <2>. QED
    BY <2>4, <2>5, <2>6, <2>7, <2>8 DEF IInv
<1>. QED
  BY <1>1, <1>2 DEF PreparePath, SendRequest

\* The broker's answer to a prepare.
LEMMA RecvPreparedStep ==
    ASSUME IInv, RecvPrepared
    PROVE  IInv'
<1>. USE DEF RecvPrepared, TakeResponse
<1>0. UNCHANGED <<kernelVars, logVars, historyVars>> /\ pc = "await_prepare"
  OBVIOUS
<1>b. BrokerType'
  BY NoPacket DEF IInv, TypeOK, BrokerType
<1>s. Socket'
  BY NoPacket DEF IInv, Socket, Awaiting
<1>1. CASE RealizationDeny
  <2>1. /\ HandlerType' /\ Bound' /\ Shape'
        /\ pc' \in {"record", "release"}
        /\ dec'.response # "allow" /\ answer' = "errno" /\ ret' # "send"
    BY <1>0, <1>1, RealizationDenyStep
  <2>2. TypeOK'
    BY <1>0, <1>b, <2>1 DEF IInv, TypeOK, KernelType, LogType, kernelVars, logVars,
          historyVars
  <2>3. Authority'
    BY <1>0, <1>1, <2>1 DEF IInv, Authority, Permitted, RecordedBeforeEffect, Answering,
          RealizationDeny, kernelVars, logVars, historyVars
  <2>. QED
    BY <1>s, <2>1, <2>2, <2>3 DEF IInv
<1>2. CASE /\ resp.res = "prepared"
           /\ prepared' = Append(prepared, [token    |-> resp.token,
                                            identity |-> resp.identity,
                                            exists   |-> resp.exists])
           /\ pc' = IF Len(prepared') < Len(Operands(call[cur], fact))
                    THEN "prepare" ELSE "decide"
           /\ UNCHANGED <<cur, curId, fact, stale, dec, answer, ret>>
  <2>. USE <1>0, <1>2 DEF kernelVars, logVars, historyVars
  <2>1. prepared' \in Seq(PreparedPath)
    <3>1. [token |-> resp.token, identity |-> resp.identity, exists |-> resp.exists]
             \in PreparedPath
      BY DEF IInv, TypeOK, BrokerType, Socket, ResponsePacket, PreparedPath
    <3>. QED
      BY <3>1 DEF IInv, TypeOK, HandlerType
  <2>2. TypeOK'
    <3>1. HandlerType'
      BY <2>1 DEF IInv, TypeOK, HandlerType, PcValues
    <3>. QED
      BY <1>b, <3>1 DEF IInv, TypeOK, KernelType, LogType
  <2>3. Bound'
    BY DEF IInv, Bound, Terminal
  <2>4. Shape'
    BY DEF IInv, Shape, Read, Brokered, Operands
  <2>5. Authority'
    BY DEF IInv, Authority, Permitted, RecordedBeforeEffect, Answering
  <2>. QED
    BY <1>s, <2>2, <2>3, <2>4, <2>5 DEF IInv
<1>. QED
  BY <1>1, <1>2

\* The decision of the whole call, under whatever resolution.
LEMMA SettleStep ==
    ASSUME IInv, pc \in {"decide", "ask"}, NEW resolution \in Resolution,
           Settle(resolution), UNCHANGED <<kernelVars, brokerVars, logVars, effects>>
    PROVE  /\ HandlerType' /\ Bound' /\ Shape' /\ Socket' /\ Authority'
           /\ fact' \in Seq(Operand)
<1>. USE DEF Settle, kernelVars, brokerVars, logVars
<1>0. cur \in Thread /\ call[cur] \in CallRecord /\ prepared \in Seq(PreparedPath) /\ Read
  BY DEF IInv, TypeOK, KernelType, HandlerType, Shape
<1>1. dec' \in ResolvedDecision /\ (dec'.response = "allow" => Permits(dec'))
  <2>1. Decisions(call[cur], prepared, fact) \in Seq(Verdict)
    BY <1>0, DecisionsType
  <2>. QED
    BY <2>1, FinalizeOperand
<1>2. answer' \in Answers /\ (answer' = "continue" => dec'.response = "allow")
  BY DEF Answer, Answers
<1>3. fact' \in Seq(Operand) /\ (Brokered(call[cur]) => fact' # <<>>)
  <2>1. CASE prepared = <<>>
    <3>1. fact' = fact /\ fact \in Seq(Operand)
      BY <2>1 DEF IInv, TypeOK, HandlerType
    <3>2. Brokered(call[cur]) => Len(fact) # 0
      BY <1>0 DEF Read, Brokered, Arity, FsKinds
    <3>. QED
      BY <3>1, <3>2, EmptySeq
  <2>2. CASE prepared # <<>>
    <3>1. Len(prepared) \in Nat \ {0} /\ DOMAIN prepared = 1..Len(prepared)
      BY <1>0, <2>2, EmptySeq, LenProperties
    <3>2. \A i \in 1..Len(prepared) : prepared[i].identity \in Operand
      <4>1. \A i \in 1..Len(prepared) : prepared[i] \in PreparedPath
        BY <1>0, <3>1, ElementOfSeq
      <4>. QED
        BY <4>1 DEF PreparedPath, Operand
    <3>3. fact' = [i \in 1..Len(prepared) |-> prepared[i].identity]
      BY <2>2, <3>1 DEF Identities
    <3>4. fact' \in [1..Len(prepared) -> Operand]
      BY <3>2, <3>3
    <3>5. fact' \in Seq(Operand) /\ Len(fact') = Len(prepared)
      BY <3>1, <3>4, SeqDef, LenProperties
    <3>. QED
      BY <3>1, <3>5
  <2>. QED
    BY <2>1, <2>2
<1>4. HandlerType'
  BY <1>1, <1>2, <1>3 DEF IInv, TypeOK, HandlerType, PcValues
<1>5. Bound'
  BY DEF IInv, Bound, Terminal
<1>6. Shape'
  BY <1>3 DEF IInv, Shape, Brokered
<1>7. Socket'
  BY DEF IInv, Socket, Awaiting
<1>8. Authority'
  BY <1>1, <1>2 DEF IInv, Authority, Permitted, RecordedBeforeEffect, Answering
<1>. QED
  BY <1>3, <1>4, <1>5, <1>6, <1>7, <1>8

\* Deciding without the operator, or turning to the operator.
LEMMA DecideStep ==
    ASSUME IInv, Decide
    PROVE  IInv'
<1>0. UNCHANGED <<kernelVars, brokerVars, logVars, historyVars>> /\ pc = "decide"
  BY DEF Decide
<1>1. CASE \E resolution \in Resolution : Settle(resolution)
  <2>1. PICK resolution \in Resolution : Settle(resolution)
    BY <1>1
  <2>2. UNCHANGED <<kernelVars, brokerVars, logVars, effects>>
    BY <1>0 DEF historyVars
  <2>3. HandlerType' /\ Bound' /\ Shape' /\ Socket' /\ Authority'
    BY <1>0, <2>1, <2>2, SettleStep
  <2>4. TypeOK'
    BY <1>0, <2>3 DEF IInv, TypeOK, KernelType, BrokerType, LogType, kernelVars,
          brokerVars, logVars, historyVars
  <2>. QED
    BY <2>3, <2>4 DEF IInv
<1>2. CASE pc' = "ask" /\ UNCHANGED handlerVars
  <2>. USE <1>0, <1>2 DEF handlerVars, kernelVars, brokerVars, logVars, historyVars
  <2>1. TypeOK'
    <3>1. HandlerType'
      BY DEF IInv, TypeOK, HandlerType, PcValues
    <3>. QED
      BY <3>1 DEF IInv, TypeOK, KernelType, BrokerType, LogType
  <2>2. Bound'
    BY DEF IInv, Bound, Terminal
  <2>3. Shape'
    BY DEF IInv, Shape, Read, Brokered, Operands
  <2>4. Socket'
    BY DEF IInv, Socket, Awaiting
  <2>5. Authority'
    BY DEF IInv, Authority, Permitted, RecordedBeforeEffect, Answering
  <2>. QED
    BY <2>1, <2>2, <2>3, <2>4, <2>5 DEF IInv
<1>. QED
  BY <1>1, <1>2 DEF Decide, Resolution

\* What a prompt lists are operands of the call, each with an access.
LEMMA PendingAsksType ==
    ASSUME NEW c \in CallRecord, NEW paths \in Seq(PreparedPath), NEW values \in Seq(Value),
           Len(values) = Arity(c.kind)
    PROVE  PendingAsks(c, paths, values) \subseteq AskItem
<1>1. ASSUME NEW i \in DOMAIN paths, NEW a \in Required(c, paths, i)
      PROVE  Item(paths[i].identity, a) \in AskItem
  <2>1. a \in Access
    <3>1. primary_access(c) \in Seq(Access)
      BY AccessType
    <3>2. secondary_access(c, paths[2].exists) \in Seq(Access)
      BY AccessType
    <3>. QED
      BY <3>1, <3>2 DEF Required
  <2>2. paths[i] \in PreparedPath
    OBVIOUS
  <2>. QED
    BY <2>1, <2>2 DEF Item, AskItem, PreparedPath, Operand
<1>2. CASE c.kind \in {"net", "exec"}
  <2>1. Len(values) = 1
    BY <1>2 DEF Arity
  <2>2. values[1] \in Value
    <3>1. 1 \in DOMAIN values
      BY <2>1, LenProperties
    <3>. QED
      BY <3>1, ElementOfSeq, LenProperties
  <2>3. PICK v \in Value : v = values[1]
    BY <2>2
  <2>4. Item(v, "connect") \in AskItem /\ Item(v, "exec") \in AskItem
    BY DEF Item, AskItem, Operand
  <2>. QED
    BY <1>2, <2>3, <2>4 DEF PendingAsks
<1>3. CASE c.kind \notin {"net", "exec"}
  <2>1. PendingAsks(c, paths, values) =
           UNION {{Item(paths[i].identity, a) :
                      a \in {b \in Required(c, paths, i) :
                               FsDecisions(paths[i].identity, <<b>>)[1] = "ask"}} :
                  i \in DOMAIN paths}
    BY <1>3 DEF PendingAsks
  <2>2. ASSUME NEW item \in PendingAsks(c, paths, values) PROVE item \in AskItem
    <3>1. PICK i \in DOMAIN paths :
             \E a \in Required(c, paths, i) : item = Item(paths[i].identity, a)
      BY <2>1
    <3>. QED
      BY <1>1, <3>1
  <2>. QED
    BY <2>2
<1>. QED
  BY <1>2, <1>3

\* The operator's answer, or the deadline.
LEMMA PromptStep ==
    ASSUME IInv, Prompt
    PROVE  IInv'
<1>0. UNCHANGED <<kernelVars, brokerVars, logVars, effects>> /\ pc = "ask"
  BY DEF Prompt
<1>1. PICK resolution \in Resolution :
         /\ Settle(resolution)
         /\ prompts' = Append(prompts, [id |-> curId,
                                        items |-> PendingAsks(call[cur], prepared, fact),
                                        answer |-> resolution])
  BY DEF Prompt, Resolution
<1>2. /\ HandlerType' /\ Bound' /\ Shape' /\ Socket' /\ Authority'
      /\ fact' \in Seq(Operand)
  BY <1>0, <1>1, SettleStep
<1>3. LogType'
  <2>. DEFINE items == PendingAsks(call[cur], prepared, fact)
  <2>1. /\ cur \in Thread /\ call[cur] \in CallRecord /\ prepared \in Seq(PreparedPath)
        /\ curId \in Nat
    BY DEF IInv, TypeOK, KernelType, HandlerType
  <2>2. fact \in Seq(Value) /\ Len(fact) = Arity(call[cur].kind)
    BY <1>0 DEF IInv, Shape, Read
  <2>3. items \subseteq AskItem
    BY <2>1, <2>2, PendingAsksType
  <2>4. PICK shown : shown = [id |-> curId, items |-> items, answer |-> resolution]
    OBVIOUS
  <2>5. prompts' = Append(prompts, shown)
    BY <1>1, <2>4
  <2>. HIDE DEF items
  <2>6. shown \in PromptRecord
    BY <2>1, <2>3, <2>4 DEF PromptRecord
  <2>. QED
    BY <1>0, <2>5, <2>6 DEF IInv, TypeOK, LogType, logVars
<1>4. TypeOK'
  BY <1>0, <1>2, <1>3 DEF IInv, TypeOK, KernelType, BrokerType, kernelVars, brokerVars
<1>. QED
  BY <1>2, <1>4 DEF IInv

\* The trace only grows, so an event once there stays.
LEMMA PermittedGrows ==
    ASSUME trace \in Seq(EventRecord), NEW e \in EventRecord,
           trace' = Append(trace, e)
    PROVE  /\ \A id : Permitted(id) => Permitted(id)'
           /\ Permits(e) => Permitted(e.id)'
<1>1. /\ Len(trace) \in Nat /\ DOMAIN trace = 1..Len(trace)
      /\ DOMAIN trace' = 1..(Len(trace) + 1)
      /\ \A i \in 1..Len(trace) : trace'[i] = trace[i]
      /\ trace'[Len(trace) + 1] = e
  BY AppendProperties, LenProperties
<1>2. DOMAIN trace \subseteq DOMAIN trace' /\ Len(trace) + 1 \in DOMAIN trace'
  BY <1>1
<1>3. \A i \in DOMAIN trace : trace'[i] = trace[i]
  BY <1>1
<1>. QED
  BY <1>1, <1>2, <1>3, Zenon DEF Permitted

\* Writing the event.
LEMMA RecordStep ==
    ASSUME IInv, Record
    PROVE  IInv'
<1>. USE DEF Record, kernelVars, brokerVars, historyVars
<1>0. Event \in EventRecord /\ Event.id = curId /\ (Permits(dec) <=> Permits(Event))
  <2>1. cur \in Thread /\ call[cur] \in CallRecord /\ curId \in Nat /\ fact \in Seq(Operand)
           /\ stale \in BOOLEAN /\ dec \in ResolvedDecision
    BY DEF IInv, TypeOK, KernelType, HandlerType
  <2>2. (IF fact = <<Bad>> THEN <<>> ELSE fact) \in Seq(Operand)
    BY <2>1, EmptySeq
  <2>3. dec.event \in Verdict /\ dec.resolution \in Resolution
    BY <2>1 DEF ResolvedDecision
  <2>4. Event \in EventRecord
    BY <2>1, <2>2, <2>3 DEF Event, EventRecord
  <2>5. Event.id = curId /\ Event.event = dec.event /\ Event.resolution = dec.resolution
    BY DEF Event
  <2>. QED
    BY <2>4, <2>5 DEF Permits
<1>a. PICK e \in EventRecord : e = Event
  BY <1>0
<1>b. /\ \A id : Permitted(id) => Permitted(id)'
      /\ Permits(e) => Permitted(e.id)'
  <2>1. trace \in Seq(EventRecord) /\ trace' = Append(trace, e)
    BY <1>a DEF IInv, TypeOK, LogType
  <2>. QED
    BY <2>1, PermittedGrows
<1>c. curId' = curId /\ e.id = curId /\ (Permits(dec) <=> Permits(e))
  BY <1>0, <1>a
<1>d. dec.response = "allow" => Permitted(curId)'
  <2>1. dec.response = "allow" => Permitted(e.id)'
    BY <1>b, <1>c DEF IInv, Authority
  <2>. QED
    BY <1>c, <2>1 DEF Permitted
<1>1. TypeOK'
  <2>1. HandlerType'
    BY DEF IInv, TypeOK, HandlerType, PcValues
  <2>2. LogType'
    <3>1. trace' \in Seq(EventRecord)
      BY <1>0, AppendProperties DEF IInv, TypeOK, LogType
    <3>. QED
      BY <3>1 DEF IInv, TypeOK, LogType
  <2>. QED
    BY <2>1, <2>2 DEF IInv, TypeOK, KernelType, BrokerType
<1>2. Bound'
  BY DEF IInv, Bound, Terminal
<1>3. Shape'
  BY DEF IInv, Shape
<1>4. Socket'
  BY DEF IInv, Socket, Awaiting
<1>5. Authority'
  <2>1. RecordedBeforeEffect'
    BY <1>b DEF IInv, Authority, RecordedBeforeEffect
  <2>2. \A t \in Thread : tstate'[t] = "exec" => Permitted(nid[t])'
    BY <1>b DEF IInv, Authority
  <2>3. req.op \notin {"open", "mutate", "entry", "network"}
    BY DEF IInv, Socket, Awaiting
  <2>. QED
    BY <1>d, <2>1, <2>2, <2>3 DEF IInv, Authority
<1>. QED
  BY <1>1, <1>2, <1>3, <1>4, <1>5 DEF IInv

\* The event could not be written.
LEMMA RecordFailsStep ==
    ASSUME IInv, RecordFails
    PROVE  IInv'
<1>. USE DEF RecordFails, kernelVars, handlerVars, brokerVars, historyVars
<1>1. TypeOK'
  <2>1. HandlerType'
    BY DEF IInv, TypeOK, HandlerType, PcValues, Awaiting, Terminal, Answers
  <2>2. LogType'
    BY DEF IInv, TypeOK, LogType
  <2>. QED
    BY <2>1, <2>2 DEF IInv, TypeOK, KernelType, BrokerType
<1>2. Bound'
  BY DEF IInv, TypeOK, KernelType, HandlerType, Bound, Terminal
<1>3. Shape'
  BY DEF IInv, TypeOK, KernelType, HandlerType, Shape, Read, Brokered, Operands, Awaiting
<1>4. Socket'
  BY DEF IInv, Socket, Awaiting
<1>5. Authority'
  BY DEF IInv, TypeOK, KernelType, HandlerType, Authority, Permitted,
         RecordedBeforeEffect, Answering, Awaiting
<1>. QED
  BY <1>1, <1>2, <1>3, <1>4, <1>5 DEF IInv

-----------------------------------------------------------------------------
(***************************************************************************)
(* Committing, releasing and answering.                                    *)
(***************************************************************************)

\* The request that carries out a decided call is well formed.
LEMMA CommitRequestType ==
    ASSUME IInv, pc = "valid3"
    PROVE  /\ CommitRequest \in RequestPacket
           /\ CommitRequest.op \in {"open", "mutate", "entry", "network"}
<1>0. fact \in Seq(Operand) /\ fact # <<>> /\ prepared \in Seq(PreparedPath)
  BY DEF IInv, TypeOK, HandlerType, Shape
<1>. DEFINE op == CommitOp(call[cur])
            no == callno[cur]
            val == IF call[cur].kind = "net" THEN fact[1] ELSE Bad
            toks == Tokens(prepared)
<1>1. val \in Operand
  BY <1>0 DEF Operand
<1>2. toks \in Seq(Token)
  <2>1. Len(prepared) \in Nat /\ DOMAIN prepared = 1..Len(prepared)
    BY <1>0, LenProperties
  <2>2. \A i \in 1..Len(prepared) : prepared[i].token \in Token
    <3>1. \A i \in 1..Len(prepared) : prepared[i] \in PreparedPath
      BY <1>0, <2>1, ElementOfSeq
    <3>. QED
      BY <3>1 DEF PreparedPath
  <2>3. toks \in [1..Len(prepared) -> Token]
    BY <2>1, <2>2 DEF Tokens
  <2>. QED
    BY <2>1, <2>3, SeqDef
<1>3. op \in {"open", "mutate", "entry", "network"} /\ op \in Requests
  BY DEF CommitOp, Requests
<1>4. CommitRequest = [NoReq EXCEPT !.op = op, !.no = no, !.val = val, !.toks = toks]
  BY DEF CommitRequest
<1>5. no \in Nat
  BY DEF IInv, TypeOK, KernelType, HandlerType
<1>. HIDE DEF op, no, val, toks
<1>6. PICK r : r = [NoReq EXCEPT !.op = op, !.no = no, !.val = val, !.toks = toks]
  OBVIOUS
<1>7. r \in RequestPacket /\ r.op = op
  BY <1>1, <1>2, <1>3, <1>5, <1>6, NoPacket DEF RequestPacket
<1>8. CommitRequest = r
  BY <1>4, <1>6
<1>. QED
  BY <1>3, <1>7, <1>8

\* The last validity check and what follows it.
LEMMA CommitStep ==
    ASSUME IInv, Commit
    PROVE  IInv'
<1>0. UNCHANGED <<kernelVars, logVars, historyVars>> /\ pc = "valid3"
  BY DEF Commit
<1>1. CASE (DropRecorded \/ RefuseLate) /\ UNCHANGED brokerVars
  <2>. USE <1>0, <1>1 DEF DropRecorded, RefuseLate, Drop, kernelVars, handlerVars, brokerVars,
            logVars, historyVars
  <2>0. /\ pc' \in {"poll", "send", "release"} /\ ret' \in {"poll", "record", "send"}
        /\ UNCHANGED <<cur, curId, fact, stale, prepared, dec>>
        /\ pc' = "release" <=> prepared # <<>>
        /\ pc' = "release" => ret' # "record"
        /\ answer' \in {answer, "errno"}
    BY DEF IInv, TypeOK, HandlerType
  <2>1. TypeOK'
    <3>1. answer' \in Answers /\ pc' \in PcValues
      BY <2>0 DEF IInv, TypeOK, HandlerType, Answers, PcValues
    <3>2. HandlerType'
      BY <2>0, <3>1 DEF IInv, TypeOK, HandlerType
    <3>. QED
      BY <3>2 DEF IInv, TypeOK, KernelType, BrokerType, LogType
  <2>2. Bound'
    BY <2>0 DEF IInv, Bound, Terminal
  <2>3. Shape'
    BY <2>0 DEF IInv, Shape
  <2>4. Socket'
    BY <2>0 DEF IInv, Socket, Awaiting
  <2>5. Authority'
    BY <2>0 DEF IInv, Authority, Permitted, RecordedBeforeEffect, Answering
  <2>. QED
    BY <2>1, <2>2, <2>3, <2>4, <2>5 DEF IInv
<1>2. CASE pc' = "abort" /\ UNCHANGED <<handlerVars, brokerVars>>
  <2>. USE <1>0, <1>2 DEF handlerVars, kernelVars, brokerVars, logVars, historyVars
  <2>1. TypeOK'
    <3>1. HandlerType'
      BY DEF IInv, TypeOK, HandlerType, PcValues
    <3>. QED
      BY <3>1 DEF IInv, TypeOK, KernelType, BrokerType, LogType
  <2>2. Bound'
    BY DEF IInv, Bound, Terminal
  <2>3. Shape'
    BY DEF IInv, Shape, Brokered
  <2>4. Socket'
    BY DEF IInv, Socket, Awaiting
  <2>5. Authority'
    BY DEF IInv, Authority, Permitted, RecordedBeforeEffect, Answering
  <2>. QED
    BY <2>1, <2>2, <2>3, <2>4, <2>5 DEF IInv
<1>3. CASE /\ req' = CommitRequest /\ UNCHANGED <<broker, resp, held, next_token, slot>>
           /\ pc' = "await_commit" /\ UNCHANGED handlerVars
  <2>. USE <1>0, <1>3 DEF handlerVars, kernelVars, logVars, historyVars
  <2>0. req' \in RequestPacket /\ req'.op \in {"open", "mutate", "entry", "network"}
    BY CommitRequestType
  <2>1. TypeOK'
    <3>1. HandlerType'
      BY DEF IInv, TypeOK, HandlerType, PcValues, Awaiting
    <3>2. BrokerType'
      BY <2>0 DEF IInv, TypeOK, BrokerType
    <3>. QED
      BY <3>1, <3>2 DEF IInv, TypeOK, KernelType, LogType
  <2>2. Bound'
    BY DEF IInv, Bound, Terminal
  <2>3. Shape'
    BY DEF IInv, Shape, Brokered
  <2>4. Socket'
    BY <2>0 DEF IInv, Socket, Awaiting
  <2>5. Authority'
    BY <2>0 DEF IInv, Authority, Permitted, RecordedBeforeEffect, Answering
  <2>. QED
    BY <2>1, <2>2, <2>3, <2>4, <2>5 DEF IInv
<1>. QED
  BY <1>1, <1>2, <1>3 DEF Commit, SendRequest

\* The broker's result becomes the answer; it is never CONTINUE.
LEMMA RecvResultStep ==
    ASSUME IInv, RecvResult
    PROVE  IInv'
<1>. USE DEF RecvResult, TakeResponse, kernelVars, logVars, historyVars
<1>0. resp.res \in Results \ {"none"}
  BY DEF IInv, TypeOK, BrokerType, ResponsePacket
<1>1. TypeOK'
  <2>1. HandlerType'
    BY <1>0 DEF IInv, TypeOK, Results, HandlerType, PcValues, Awaiting, Terminal, Answers
  <2>2. BrokerType'
    BY NoPacket DEF IInv, TypeOK, BrokerType
  <2>. QED
    BY <2>1, <2>2 DEF IInv, TypeOK, KernelType, LogType
<1>2. Bound'
  BY DEF IInv, TypeOK, KernelType, HandlerType, Bound, Terminal
<1>3. Shape'
  BY DEF IInv, TypeOK, KernelType, HandlerType, Shape, Read, Brokered, Operands, Awaiting
<1>4. Socket'
  BY NoPacket DEF IInv, Socket, Awaiting
<1>5. Authority'
  BY <1>0 DEF IInv, TypeOK, KernelType, HandlerType, Authority, Permitted,
         RecordedBeforeEffect, Answering, Awaiting, Results
<1>. QED
  BY <1>1, <1>2, <1>3, <1>4, <1>5 DEF IInv

\* A release names a pinned token.
LEMMA ReleaseRequest ==
    ASSUME IInv, Release
    PROVE  req' \in RequestPacket /\ req'.op = "release"
<1>1. prepared[1].token \in Token
  <2>1. prepared \in Seq(PreparedPath) /\ prepared # <<>>
    BY DEF IInv, TypeOK, HandlerType, Shape, Release
  <2>2. prepared[1] \in PreparedPath
    BY <2>1
  <2>. QED
    BY <2>2 DEF PreparedPath
<1>. DEFINE toks == <<prepared[1].token>>
<1>2. toks \in Seq(Token) /\ "release" \in Requests
  BY <1>1 DEF Requests
<1>3. req' = [NoReq EXCEPT !.op = "release", !.toks = toks]
  BY DEF Release, SendRequest
<1>. HIDE DEF toks
<1>. QED
  BY <1>2, <1>3, TokenRequest

\* Asking the broker to release a pin.
LEMMA ReleaseStep ==
    ASSUME IInv, Release
    PROVE  IInv'
<1>. USE DEF Release, SendRequest, handlerVars, kernelVars, logVars, historyVars
<1>a. req' \in RequestPacket /\ req'.op = "release"
  BY ReleaseRequest
<1>1. TypeOK'
  <2>1. HandlerType'
    BY DEF IInv, TypeOK, HandlerType, PcValues, Awaiting, Terminal, Answers
  <2>2. BrokerType'
    BY <1>a DEF IInv, TypeOK, BrokerType
  <2>. QED
    BY <2>1, <2>2 DEF IInv, TypeOK, KernelType, LogType
<1>2. Bound'
  BY DEF IInv, TypeOK, KernelType, HandlerType, Bound, Terminal
<1>3. Shape'
  BY DEF IInv, TypeOK, KernelType, HandlerType, Shape, Read, Brokered, Operands, Awaiting
<1>4. Socket'
  BY <1>a DEF IInv, Socket, Awaiting
<1>5. Authority'
  BY <1>a DEF IInv, TypeOK, KernelType, HandlerType, Authority, Permitted,
         RecordedBeforeEffect, Answering, Awaiting
<1>. QED
  BY <1>1, <1>2, <1>3, <1>4, <1>5 DEF IInv

\* A pin is gone; the handler goes on where it meant to.
LEMMA RecvReleasedStep ==
    ASSUME IInv, RecvReleased
    PROVE  IInv'
<1>. USE DEF RecvReleased, TakeResponse, kernelVars, logVars, historyVars
<1>0. prepared' \in Seq(PreparedPath)
  BY HeadTailProperties DEF IInv, TypeOK, HandlerType, Shape
<1>a. ret \in {"poll", "record", "send"} /\ ret' = ret
  BY DEF IInv, TypeOK, HandlerType
<1>1. TypeOK'
  <2>1. HandlerType'
    BY <1>0, <1>a DEF IInv, TypeOK, HandlerType, PcValues, Awaiting, Terminal, Answers
  <2>2. BrokerType'
    BY NoPacket DEF IInv, TypeOK, BrokerType
  <2>. QED
    BY <2>1, <2>2 DEF IInv, TypeOK, KernelType, LogType
<1>2. Bound'
  BY DEF IInv, TypeOK, KernelType, HandlerType, Bound, Terminal
<1>3. Shape'
  BY DEF IInv, TypeOK, KernelType, HandlerType, Shape, Read, Brokered, Operands, Awaiting
<1>4. Socket'
  BY NoPacket DEF IInv, Socket, Awaiting
<1>5. Authority'
  BY DEF IInv, TypeOK, KernelType, HandlerType, Authority, Permitted,
         RecordedBeforeEffect, Answering, Awaiting
<1>. QED
  BY <1>1, <1>2, <1>3, <1>4, <1>5 DEF IInv

\* The answer: CONTINUE only with an event that permits the call.
LEMMA SendStep ==
    ASSUME IInv, Send
    PROVE  IInv'
<1>. USE DEF Send, respond, IdValid, handlerVars, brokerVars, logVars, historyVars
<1>1. TypeOK'
  <2>1. KernelType'
    BY DEF IInv, TypeOK, KernelType, HandlerType
  <2>2. HandlerType'
    BY DEF IInv, TypeOK, HandlerType, PcValues, Awaiting, Terminal, Answers
  <2>. QED
    BY <2>1, <2>2 DEF IInv, TypeOK, BrokerType, LogType
<1>2. Bound'
  BY DEF IInv, TypeOK, KernelType, HandlerType, Bound, Terminal
<1>3. Shape'
  BY DEF IInv, TypeOK, KernelType, HandlerType, Shape, Read, Brokered, Operands, Awaiting
<1>4. Socket'
  BY DEF IInv, Socket, Awaiting
<1>5. Authority'
  <2>1. cur \in Thread
    BY DEF IInv, TypeOK, HandlerType
  <2>2. ASSUME NEW t \in Thread, tstate'[t] = "exec"
        PROVE  Permitted(nid[t])
    <3>1. CASE tstate[t] = "exec"
      BY <3>1 DEF IInv, Authority
    <3>2. CASE tstate[t] # "exec"
      <4>1. t = cur /\ answer = "continue" /\ nid[cur] = curId
        BY <2>1, <2>2, <3>2 DEF IInv, TypeOK, KernelType
      <4>. QED
        BY <4>1 DEF IInv, Authority, Answering
    <3>. QED
      BY <3>1, <3>2
  <2>. QED
    BY <2>2 DEF IInv, Authority, Permitted, RecordedBeforeEffect, Answering
<1>. QED
  BY <1>1, <1>2, <1>3, <1>4, <1>5 DEF IInv

-----------------------------------------------------------------------------
(***************************************************************************)
(* Failures.                                                               *)
(***************************************************************************)

\* The broker is given up.
LEMMA AwaitFailsStep ==
    ASSUME IInv, AwaitFails
    PROVE  IInv'
<1>. USE DEF AwaitFails, handlerVars, kernelVars, logVars, historyVars
<1>1. TypeOK'
  <2>1. HandlerType'
    BY DEF IInv, TypeOK, HandlerType, PcValues, Awaiting, Terminal, Answers
  <2>2. BrokerType'
    BY NoPacket DEF IInv, TypeOK, BrokerType
  <2>. QED
    BY <2>1, <2>2 DEF IInv, TypeOK, KernelType, LogType
<1>2. Bound'
  BY DEF IInv, TypeOK, KernelType, HandlerType, Bound, Terminal, Awaiting
<1>3. Shape'
  BY DEF IInv, TypeOK, KernelType, HandlerType, Shape, Read, Brokered, Operands, Awaiting
<1>4. Socket'
  BY NoPacket DEF IInv, Socket, Awaiting
<1>5. Authority'
  BY NoPacket DEF IInv, TypeOK, KernelType, HandlerType, Authority, Permitted,
         RecordedBeforeEffect, Answering, Awaiting
<1>. QED
  BY <1>1, <1>2, <1>3, <1>4, <1>5 DEF IInv

\* The wait for the broker fails, and what is in its socket stays there.
LEMMA PollFailsStep ==
    ASSUME IInv, PollFails
    PROVE  IInv'
<1>. USE DEF PollFails, handlerVars, kernelVars, brokerVars, logVars, historyVars
<1>1. TypeOK'
  <2>1. HandlerType'
    BY DEF IInv, TypeOK, HandlerType, PcValues, Awaiting, Terminal, Answers
  <2>. QED
    BY <2>1 DEF IInv, TypeOK, KernelType, BrokerType, LogType
<1>2. Bound'
  BY DEF IInv, TypeOK, KernelType, HandlerType, Bound, Terminal, Awaiting
<1>3. Shape'
  BY DEF IInv, TypeOK, KernelType, HandlerType, Shape, Read, Brokered, Operands, Awaiting
<1>4. Socket'
  BY DEF IInv, Socket, Awaiting
<1>5. Authority'
  BY DEF IInv, TypeOK, KernelType, HandlerType, Authority, Permitted,
         RecordedBeforeEffect, Answering, Awaiting
<1>. QED
  BY <1>1, <1>2, <1>3, <1>4, <1>5 DEF IInv

\* An ioctl fails.
LEMMA KernelFailsStep ==
    ASSUME IInv, KernelFails
    PROVE  IInv'
<1>. USE DEF KernelFails, handlerVars, kernelVars, brokerVars, logVars, historyVars
<1>1. TypeOK'
  <2>1. HandlerType'
    BY DEF IInv, TypeOK, HandlerType, PcValues, Awaiting, Terminal, Answers
  <2>. QED
    BY <2>1 DEF IInv, TypeOK, KernelType, BrokerType, LogType
<1>2. Bound'
  BY DEF IInv, TypeOK, KernelType, HandlerType, Bound, Terminal
<1>3. Shape'
  BY DEF IInv, TypeOK, KernelType, HandlerType, Shape, Read, Brokered, Operands, Awaiting
<1>4. Socket'
  BY DEF IInv, Socket, Awaiting
<1>5. Authority'
  BY DEF IInv, TypeOK, KernelType, HandlerType, Authority, Permitted,
         RecordedBeforeEffect, Answering, Awaiting
<1>. QED
  BY <1>1, <1>2, <1>3, <1>4, <1>5 DEF IInv

\* The pending call is denied.
LEMMA AbortDenyStep ==
    ASSUME IInv, AbortDeny
    PROVE  IInv'
<1>. USE DEF AbortDeny, IdValid, handlerVars, brokerVars, logVars, historyVars
<1>1. TypeOK'
  <2>1. KernelType'
    BY DEF IInv, TypeOK, KernelType, HandlerType
  <2>2. HandlerType'
    BY DEF IInv, TypeOK, HandlerType, PcValues, Awaiting, Terminal, Answers
  <2>. QED
    BY <2>1, <2>2 DEF IInv, TypeOK, BrokerType, LogType
<1>2. Bound'
  BY DEF IInv, TypeOK, KernelType, HandlerType, Bound, Terminal
<1>3. Shape'
  BY DEF IInv, TypeOK, KernelType, HandlerType, Shape, Read, Brokered, Operands, Awaiting
<1>4. Socket'
  BY DEF IInv, Socket, Awaiting
<1>5. Authority'
  BY DEF IInv, TypeOK, KernelType, HandlerType, Authority, Permitted,
         RecordedBeforeEffect, Answering, Awaiting
<1>. QED
  BY <1>1, <1>2, <1>3, <1>4, <1>5 DEF IInv

\* The direct child is killed.
LEMMA AbortKillStep ==
    ASSUME IInv, AbortKill
    PROVE  IInv'
<1>. USE DEF AbortKill, handlerVars, brokerVars, logVars, historyVars
<1>1. TypeOK'
  <2>1. KernelType'
    BY DEF IInv, TypeOK, KernelType, HandlerType
  <2>2. HandlerType'
    BY DEF IInv, TypeOK, HandlerType, PcValues, Awaiting, Terminal, Answers
  <2>. QED
    BY <2>1, <2>2 DEF IInv, TypeOK, BrokerType, LogType
<1>2. Bound'
  BY DEF IInv, TypeOK, KernelType, HandlerType, Bound, Terminal
<1>3. Shape'
  BY DEF IInv, TypeOK, KernelType, HandlerType, Shape, Read, Brokered, Operands, Awaiting
<1>4. Socket'
  BY DEF IInv, Socket, Awaiting
<1>5. Authority'
  BY DEF IInv, TypeOK, KernelType, HandlerType, Authority, Permitted,
         RecordedBeforeEffect, Answering, Awaiting
<1>. QED
  BY <1>1, <1>2, <1>3, <1>4, <1>5 DEF IInv

\* The listener is closed.
LEMMA AbortCloseStep ==
    ASSUME IInv, AbortClose
    PROVE  IInv'
<1>. USE DEF AbortClose, Released, handlerVars, brokerVars, logVars, historyVars
<1>1. TypeOK'
  <2>1. KernelType'
    BY DEF IInv, TypeOK, KernelType, HandlerType
  <2>2. HandlerType'
    BY DEF IInv, TypeOK, HandlerType, PcValues, Awaiting, Terminal, Answers
  <2>. QED
    BY <2>1, <2>2 DEF IInv, TypeOK, BrokerType, LogType
<1>2. Bound'
  BY DEF IInv, TypeOK, KernelType, HandlerType, Bound, Terminal
<1>3. Shape'
  BY DEF IInv, TypeOK, KernelType, HandlerType, Shape, Read, Brokered, Operands, Awaiting
<1>4. Socket'
  BY DEF IInv, Socket, Awaiting
<1>5. Authority'
  BY DEF IInv, TypeOK, KernelType, HandlerType, Authority, Permitted,
         RecordedBeforeEffect, Answering, Awaiting
<1>. QED
  BY <1>1, <1>2, <1>3, <1>4, <1>5 DEF IInv

\* The supervisor crashes.
LEMMA CrashStep ==
    ASSUME IInv, Crash
    PROVE  IInv'
<1>. USE DEF Crash, Released, handlerVars, brokerVars, logVars, historyVars
<1>1. TypeOK'
  <2>1. KernelType'
    BY DEF IInv, TypeOK, KernelType, HandlerType
  <2>2. HandlerType'
    BY DEF IInv, TypeOK, HandlerType, PcValues, Awaiting, Terminal, Answers
  <2>. QED
    BY <2>1, <2>2 DEF IInv, TypeOK, BrokerType, LogType
<1>2. Bound'
  BY DEF IInv, TypeOK, KernelType, HandlerType, Bound, Terminal
<1>3. Shape'
  BY DEF IInv, TypeOK, KernelType, HandlerType, Shape, Read, Brokered, Operands, Awaiting
<1>4. Socket'
  BY DEF IInv, Socket, Awaiting
<1>5. Authority'
  BY DEF IInv, TypeOK, KernelType, HandlerType, Authority, Permitted,
         RecordedBeforeEffect, Answering, Awaiting
<1>. QED
  BY <1>1, <1>2, <1>3, <1>4, <1>5 DEF IInv

-----------------------------------------------------------------------------
(***************************************************************************)
(* The broker.                                                             *)
(***************************************************************************)

\* Pinning a path.
LEMMA BrokerPrepareStep ==
    ASSUME IInv, BrokerPrepare
    PROVE  IInv'
<1>. USE DEF BrokerPrepare, Serving, Reply, Errno, handlerVars, kernelVars, logVars,
             historyVars
<1>0. req.val \in Value /\ Resolve[req.val] \subseteq Value /\ req.missing \in BOOLEAN
         /\ next_token \in Token
  BY ConfigAssumption DEF IInv, TypeOK, BrokerType, Socket, RequestPacket
<1>a. /\ resp' \in ResponsePacket /\ resp'.res \in {"errno", "prepared"}
      /\ resp'.res = "prepared" => resp'.token \in Token /\ resp'.identity \in Value
      /\ held' \subseteq PreparedPath
      /\ next_token' \in Token /\ slot' \in [Token -> [name : Operand, moved : BOOLEAN]]
  <2>1. CASE resp' = [NoResp EXCEPT !.res = "errno"] /\ UNCHANGED <<held, next_token, slot>>
    BY <2>1 DEF IInv, TypeOK, BrokerType, NoResp, ResponsePacket, Results, Operand
  <2>2. CASE \E found \in Lookups(req.val), exists \in {TRUE, ~req.missing} :
               LET identity == IF exists THEN found[1] ELSE found[2] IN
               /\ held' = {p \in held : p.token # next_token} \cup
                          {[token |-> next_token, identity |-> identity,
                            exists |-> exists]}
               /\ slot' = [slot EXCEPT ![next_token] =
                             [name |-> found[2], moved |-> exists /\ found[1] # found[2]]]
               /\ next_token' = NextToken
               /\ resp' = [res |-> "prepared", token |-> next_token,
                           identity |-> identity, exists |-> exists]
    <3>0. \A found \in Lookups(req.val) : found[1] \in Value /\ found[2] \in Value
      BY <1>0 DEF Lookups
    <3>1. PICK identity \in Value, name \in Value, exists \in BOOLEAN, moved \in BOOLEAN :
             /\ held' = {p \in held : p.token # next_token} \cup
                        {[token |-> next_token, identity |-> identity,
                          exists |-> exists]}
             /\ slot' = [slot EXCEPT ![next_token] = [name |-> name, moved |-> moved]]
             /\ next_token' = NextToken
             /\ resp' = [res |-> "prepared", token |-> next_token,
                         identity |-> identity, exists |-> exists]
      BY <1>0, <2>2, <3>0
    <3>2. [token |-> next_token, identity |-> identity, exists |-> exists] \in PreparedPath
      BY <1>0 DEF PreparedPath
    <3>3. held' \subseteq PreparedPath
      BY <3>1, <3>2 DEF IInv, TypeOK, BrokerType
    <3>4. next_token' \in Token
      BY <1>0, <3>1, BoundAssumption DEF NextToken, Token
    <3>5. resp' \in ResponsePacket
      BY <1>0, <3>1, BoundAssumption DEF ResponsePacket, Results, Operand, Token
    <3>6. slot' \in [Token -> [name : Operand, moved : BOOLEAN]]
      BY <1>0, <3>1 DEF IInv, TypeOK, BrokerType, Operand
    <3>. QED
      BY <1>0, <3>1, <3>3, <3>4, <3>5, <3>6
  <2>. QED
    BY <2>1, <2>2
<1>1. TypeOK'
  <2>1. BrokerType'
    BY <1>a, NoPacket DEF IInv, TypeOK, BrokerType
  <2>. QED
    BY <2>1 DEF IInv, TypeOK, KernelType, HandlerType, LogType
<1>2. Bound'
  BY DEF IInv, Bound
<1>3. Shape'
  BY DEF IInv, Shape, Read, Brokered, Operands
<1>4. Socket'
  BY <1>a, NoPacket DEF IInv, Socket
<1>5. Authority'
  BY NoPacket DEF IInv, Authority, Permitted, RecordedBeforeEffect, Answering
<1>. QED
  BY <1>1, <1>2, <1>3, <1>4, <1>5 DEF IInv

\* What the broker operates on is a sequence of operands.
LEMMA ActedType ==
    ASSUME IInv, AllPinned
    PROVE  Acted \in Seq(Operand)
<1>0. /\ req \in RequestPacket /\ req.toks \in Seq(Token) /\ held \subseteq PreparedPath
      /\ slot \in [Token -> [name : Operand, moved : BOOLEAN]]
  BY DEF IInv, TypeOK, BrokerType, RequestPacket
<1>1. Len(req.toks) \in Nat /\ DOMAIN req.toks = 1..Len(req.toks)
  BY <1>0, LenProperties
<1>2. CASE req.op = "network"
  BY <1>0, <1>2 DEF Acted, RequestPacket
<1>3. CASE req.op = "entry"
  <2>1. Acted \in [1..Len(req.toks) -> Operand]
    BY <1>0, <1>1, <1>3 DEF Acted
  <2>. QED
    BY <1>1, <2>1, SeqDef
<1>4. CASE req.op \notin {"network", "entry"}
  <2>1. ASSUME NEW i \in 1..Len(req.toks)
        PROVE  (CHOOSE p \in held : p.token = req.toks[i]).identity \in Operand
    <3>1. \E p \in held : p.token = req.toks[i]
      BY <1>1 DEF AllPinned
    <3>2. (CHOOSE p \in held : p.token = req.toks[i]) \in held
      BY <3>1
    <3>. QED
      BY <1>0, <3>2 DEF PreparedPath, Operand
  <2>2. Acted \in [1..Len(req.toks) -> Operand]
    BY <1>1, <1>4, <2>1 DEF Acted
  <2>. QED
    BY <1>1, <2>2, SeqDef
<1>. QED
  BY <1>2, <1>3, <1>4

\* Dropping a pin.
LEMMA BrokerReleaseStep ==
    ASSUME IInv, BrokerRelease
    PROVE  IInv'
<1>. USE DEF BrokerRelease, Serving, Reply, Pins, handlerVars, kernelVars, logVars, historyVars
<1>0. resp' \in ResponsePacket /\ resp'.res = "released"
  BY DEF NoResp, ResponsePacket, Results, Operand
<1>1. TypeOK'
  <2>1. BrokerType'
    BY <1>0, NoPacket DEF IInv, TypeOK, BrokerType
  <2>. QED
    BY <2>1 DEF IInv, TypeOK, KernelType, HandlerType, LogType
<1>2. Bound'
  BY DEF IInv, TypeOK, KernelType, HandlerType, Bound, Terminal
<1>3. Shape'
  BY DEF IInv, TypeOK, KernelType, HandlerType, Shape, Read, Brokered, Operands, Awaiting
<1>4. Socket'
  BY NoPacket, <1>0 DEF IInv, Socket, Awaiting
<1>5. Authority'
  BY NoPacket DEF IInv, Authority, Permitted, RecordedBeforeEffect, Answering
<1>. QED
  BY <1>1, <1>2, <1>3, <1>4, <1>5 DEF IInv

\* Carrying out a commit: the one place where the broker causes an effect.
LEMMA BrokerCommitStep ==
    ASSUME IInv, BrokerCommit
    PROVE  IInv'
<1>. USE DEF BrokerCommit, Serving, Reply, Pins, Errno, handlerVars, kernelVars, logVars
<1>0. /\ req' = NoReq /\ broker' \in {"alive", "dead"}
      /\ \/ resp' = resp
         \/ \E r \in {"fd", "value", "errno"} : resp' = [NoResp EXCEPT !.res = r]
  BY DEF IInv, TypeOK, BrokerType
<1>a. resp' \in ResponsePacket /\ resp'.res \in {resp.res, "fd", "value", "errno"}
  <2>1. \A r \in {"fd", "value", "errno"} :
           /\ [NoResp EXCEPT !.res = r] \in ResponsePacket
           /\ [NoResp EXCEPT !.res = r].res = r
    BY DEF NoResp, ResponsePacket, Results, Operand
  <2>2. resp \in ResponsePacket
    BY DEF IInv, TypeOK, BrokerType
  <2>. HIDE DEF BrokerCommit
  <2>. QED
    BY <1>0, <2>1, <2>2
<1>b. held' \subseteq PreparedPath
  BY DEF IInv, TypeOK, BrokerType
<1>c. Permitted(curId) /\ effects \in Seq(EffectRecord)
  BY DEF IInv, TypeOK, LogType, Authority
<1>d. effects' \in Seq(EffectRecord) /\ RecordedBeforeEffect'
  <2>1. CASE UNCHANGED effects
    BY <1>c, <2>1 DEF IInv, Authority, RecordedBeforeEffect, Permitted
  <2>2. CASE /\ AllPinned
             /\ \E r \in Replaces : effects' = Append(effects, Effect(r))
    <3>0. PICK r \in Replaces : effects' = Append(effects, Effect(r))
      BY <2>2
    <3>1. Effect(r) \in EffectRecord
      <4>1. Acted \in Seq(Operand)
        BY <2>2, ActedType
      <4>2. r \in BOOLEAN
        BY DEF Replaces
      <4>3. curId \in Nat /\ cur \in Thread /\ req.no \in Nat
        BY DEF IInv, TypeOK, HandlerType, BrokerType, RequestPacket
      <4>. QED
        BY <4>1, <4>2, <4>3 DEF Effect, EffectRecord
    <3>2. Effect(r).id = curId
      BY DEF Effect
    <3>. HIDE DEF BrokerCommit
    <3>3. /\ effects' \in Seq(EffectRecord)
          /\ DOMAIN effects' = 1..(Len(effects) + 1)
          /\ \A i \in 1..Len(effects) : effects'[i] = effects[i]
          /\ effects'[Len(effects) + 1] = Effect(r)
          /\ Len(effects) \in Nat /\ DOMAIN effects = 1..Len(effects)
      BY <1>c, <3>0, <3>1, AppendProperties, LenProperties
    <3>4. \A id : Permitted(id)' <=> Permitted(id)
      BY DEF Permitted, BrokerCommit
    <3>5. \A i \in DOMAIN effects' : Permitted(effects'[i].id)
      BY <1>c, <3>2, <3>3 DEF IInv, Authority, RecordedBeforeEffect
    <3>. QED
      BY <3>3, <3>4, <3>5 DEF RecordedBeforeEffect
  <2>. QED
    BY <2>1, <2>2
<1>1. TypeOK'
  <2>1. BrokerType'
    BY <1>0, <1>a, <1>b, NoPacket DEF IInv, TypeOK, BrokerType
  <2>2. LogType'
    BY <1>d DEF IInv, TypeOK, LogType
  <2>. QED
    BY <2>1, <2>2 DEF IInv, TypeOK, KernelType, HandlerType
<1>2. Bound'
  BY DEF IInv, Bound
<1>3. Shape'
  BY DEF IInv, Shape, Read, Brokered, Operands
<1>4. Socket'
  BY <1>0, <1>a, NoPacket DEF IInv, Socket
<1>5. Authority'
  BY <1>0, <1>d, NoPacket DEF IInv, Authority, Permitted, Answering
<1>. QED
  BY <1>1, <1>2, <1>3, <1>4, <1>5 DEF IInv

\* The broker dies.
LEMMA BrokerDiesStep ==
    ASSUME IInv, BrokerDies
    PROVE  IInv'
<1>. USE DEF BrokerDies, handlerVars, kernelVars, logVars, historyVars
<1>1. TypeOK'
  <2>1. BrokerType'
    BY NoPacket DEF IInv, TypeOK, BrokerType
  <2>. QED
    BY <2>1 DEF IInv, TypeOK, KernelType, HandlerType, LogType
<1>2. Bound'
  BY DEF IInv, TypeOK, KernelType, HandlerType, Bound, Terminal
<1>3. Shape'
  BY DEF IInv, TypeOK, KernelType, HandlerType, Shape, Read, Brokered, Operands, Awaiting
<1>4. Socket'
  BY NoPacket DEF IInv, Socket, Awaiting
<1>5. Authority'
  BY NoPacket DEF IInv, Authority, Permitted, RecordedBeforeEffect, Answering
<1>. QED
  BY <1>1, <1>2, <1>3, <1>4, <1>5 DEF IInv

\* The broker sees the end of its socket.
LEMMA BrokerStopsStep ==
    ASSUME IInv, BrokerStops
    PROVE  IInv'
<1>. USE DEF BrokerStops, handlerVars, kernelVars, logVars, historyVars
<1>1. TypeOK'
  <2>1. BrokerType'
    BY DEF IInv, TypeOK, BrokerType
  <2>. QED
    BY <2>1 DEF IInv, TypeOK, KernelType, HandlerType, LogType
<1>2. Bound'
  BY DEF IInv, TypeOK, KernelType, HandlerType, Bound, Terminal
<1>3. Shape'
  BY DEF IInv, TypeOK, KernelType, HandlerType, Shape, Read, Brokered, Operands, Awaiting
<1>4. Socket'
  BY DEF IInv, Socket, Awaiting
<1>5. Authority'
  BY DEF IInv, TypeOK, KernelType, HandlerType, Authority, Permitted,
         RecordedBeforeEffect, Answering, Awaiting
<1>. QED
  BY <1>1, <1>2, <1>3, <1>4, <1>5 DEF IInv

-----------------------------------------------------------------------------
(***************************************************************************)
(* The theorems.                                                           *)
(***************************************************************************)

\* The invariant holds when the loop starts.
LEMMA InitInv == Init => IInv
<1>. SUFFICES ASSUME Init PROVE IInv
  OBVIOUS
<1>. USE DEF Init
<1>0. cur \in Thread
  BY ConfigAssumption
<1>a. dec \in ResolvedDecision /\ dec.response = "deny"
  BY FixedDecision
<1>1. KernelType
  <2>1. [kind |-> "clone", scalar |-> "ok", access |-> <<>>, args |-> <<>>] \in CallRecord
    BY DEF CallRecord, Kinds, Scalars
  <2>. QED
    BY <2>1 DEF KernelType
<1>2. HandlerType
  <2>1. fact \in Seq(Operand) /\ prepared \in Seq(PreparedPath)
    BY EmptySeq
  <2>. QED
    BY <1>0, <1>a, <2>1 DEF HandlerType, PcValues, Answers
<1>3. BrokerType
  <2>1. slot \in [Token -> [name : Operand, moved : BOOLEAN]]
    BY DEF Token, Operand
  <2>. QED
    BY <2>1, NoPacket, BoundAssumption DEF BrokerType, Token
<1>4. LogType
  BY DEF LogType
<1>5. Bound
  BY DEF Bound
<1>6. Shape
  BY DEF Shape, Arity
<1>7. Socket
  BY NoPacket DEF Socket
<1>8. Authority
  BY <1>a, NoPacket DEF Authority, RecordedBeforeEffect, Answering
<1>. QED
  BY <1>1, <1>2, <1>3, <1>4, <1>5, <1>6, <1>7, <1>8 DEF IInv, TypeOK

\* Every step preserves the invariant.
LEMMA NextInv == IInv /\ [Next]_vars => IInv'
<1>. SUFFICES ASSUME IInv, [Next]_vars PROVE IInv'
  OBVIOUS
<1>1. CASE Tree
  BY <1>1, TrapStep, SignalCancelStep, RetrapStep, RewriteStep, ExecuteContinuedStep,
     DieStep DEF Tree
<1>2. CASE Supervisor
  BY <1>2, RecvStep, HangupStep, BracketOpenStep, GatherStep, BracketCloseStep,
     WalkTreeStep, PreparePathStep, RecvPreparedStep, DecideStep, PromptStep, RecordStep,
     CommitStep, RecvResultStep, ReleaseStep, RecvReleasedStep, SendStep,
     AwaitFailsStep, AbortDenyStep, AbortKillStep, AbortCloseStep DEF Supervisor
<1>3. CASE BrokerStep
  BY <1>3, BrokerPrepareStep, BrokerReleaseStep, BrokerCommitStep, BrokerStopsStep
     DEF BrokerStep
<1>4. CASE Fault
  BY <1>4, RecordFailsStep, KernelFailsStep, PollFailsStep, CrashStep, BrokerDiesStep DEF Fault
<1>5. CASE UNCHANGED vars
  <2>. USE <1>5 DEF vars, kernelVars, handlerVars, brokerVars, logVars, historyVars
  <2>1. TypeOK'
    BY DEF IInv, TypeOK, KernelType, HandlerType, BrokerType, LogType
  <2>2. Bound' /\ Shape' /\ Socket'
    BY DEF IInv, Bound, Shape, Socket, Read, Brokered, Operands
  <2>3. Authority'
    BY DEF IInv, Authority, Permitted, RecordedBeforeEffect, Answering
  <2>. QED
    BY <2>1, <2>2, <2>3 DEF IInv
<1>. QED
  BY <1>1, <1>2, <1>3, <1>4, <1>5 DEF Next, Finished

\* The invariant of the notify loop (run.rs, broker.rs) holds in every state.
THEOREM Invariance == Spec => []IInv
<1>. QED
  BY InitInv, NextInv, PTL DEF Spec

\* Type correctness, for every instance: the token counter of broker.rs stays in
\* its range when it wraps, and what the recorder, the prompt and the broker are
\* given is always a complete sequence of operands.
THEOREM TypeCorrect == Spec => []TypeOK
<1>1. IInv => TypeOK
  BY DEF IInv
<1>. QED
  BY <1>1, Invariance, PTL

\* Record precedes effect (run.rs record and respond, broker.rs commit): for any
\* number of threads and calls, any policy and any combination of thread death,
\* broker loss, write failure, ioctl failure and supervisor crash, nothing takes
\* effect that the trace does not already permit under the same notification.
THEOREM RecordPrecedesEffect == Spec => []RecordedBeforeEffect
<1>1. IInv => RecordedBeforeEffect
  BY DEF IInv, Authority
<1>. QED
  BY <1>1, Invariance, PTL

-----------------------------------------------------------------------------
(***************************************************************************)
(* No received call is forgotten.                                          *)
(***************************************************************************)

\* The tree changes the state of a held thread only by killing it, and touches
\* the id of no held thread.
LEMMA TreeHeld ==
    ASSUME IInv, OneHeld, Tree
    PROVE  OneHeld'
<1>. USE DEF OneHeld, handlerVars
<1>0. tstate \in [Thread -> {"run", "queued", "held", "restart", "exec", "dead"}]
        /\ nid \in [Thread -> Nat] /\ cur \in Thread
  BY DEF IInv, TypeOK, KernelType, HandlerType
<1>1. PICK u \in Thread : \/ Trap(u) \/ SignalCancel(u) \/ Retrap(u) \/ Rewrite(u)
                          \/ ExecuteContinued(u) \/ Die(u)
  BY DEF Tree
<1>2. UNCHANGED <<pc, cur, curId, ret>>
  BY <1>1 DEF Trap, SignalCancel, Retrap, Rewrite, ExecuteContinued, Die
<1>3. \A t \in Thread : tstate'[t] = "held" => tstate[t] = "held" /\ nid'[t] = nid[t]
  BY <1>0, <1>1 DEF Trap, SignalCancel, CancelledStates, Retrap, Rewrite,
                    ExecuteContinued, Die
<1>. QED
  BY <1>0, <1>2, <1>3

\* A handler step that neither answers nor drops leaves the call with it.
LEMMA HandlingHeld ==
    ASSUME OneHeld, pc \notin {"poll", "kill", "close"} \cup Terminal,
           UNCHANGED <<tstate, nid, cur, curId>>,
           pc' \notin {"poll", "kill", "close"} \cup Terminal,
           (pc' \in {"release", "await_release"} /\ ret' = "poll")
               => pc \in {"release", "await_release"} /\ ret = "poll"
    PROVE  OneHeld'
BY DEF OneHeld, Terminal

\* A handler that finds its call dead may drop it.
LEMMA DroppingHeld ==
    ASSUME OneHeld, cur \in Thread, ~IdValid, UNCHANGED <<tstate, nid, cur, curId>>
    PROVE  OneHeld'
BY DEF OneHeld, IdValid

\* Every supervisor step keeps OneHeld: a call is received when none is held,
\* and the loop is left or resumed only with the call answered or dead.
LEMMA SupervisorHeld ==
    ASSUME IInv, OneHeld, Supervisor
    PROVE  OneHeld'
<1>. USE DEF kernelVars, handlerVars, brokerVars, logVars, historyVars
<1>0. tstate \in [Thread -> {"run", "queued", "held", "restart", "exec", "dead"}]
        /\ nid \in [Thread -> Nat] /\ cur \in Thread
  BY DEF IInv, TypeOK, KernelType, HandlerType
<1>1. ASSUME NEW t \in Thread, Recv(t) PROVE OneHeld'
  <2>1. pc' \in {"record", "tree", "valid1"}
    BY <1>1, ClassifyShape DEF IInv, TypeOK, KernelType, Recv
  <2>2. \A u \in Thread : tstate'[u] = "held" => u = t
    BY <1>0, <1>1 DEF Recv, OneHeld
  <2>. QED
    BY <1>1, <2>1, <2>2 DEF Recv, OneHeld, Terminal
<1>2. CASE Hangup
  BY <1>0, <1>2 DEF Hangup, OneHeld, Terminal
<1>3. CASE BracketOpen
  BY <1>0, <1>3, HandlingHeld, DroppingHeld DEF BracketOpen, Drop, Terminal
<1>4. CASE Gather
  BY <1>4, HandlingHeld DEF Gather, Terminal
<1>5. CASE BracketClose
  <2>1. AfterRead(call[cur], fact).pc \in {"record", "prepare", "decide"}
    BY DEF AfterRead, Decided, Undecided, handle_fs, handle_exec, handle_process,
           handle_network
  <2>. QED
    BY <1>0, <1>5, <2>1, HandlingHeld, DroppingHeld DEF BracketClose, ClosingCheck, Drop,
       Terminal
<1>6. CASE WalkTree
  BY <1>6, HandlingHeld DEF WalkTree, Terminal
<1>7. CASE PreparePath
  BY <1>7, HandlingHeld DEF PreparePath, RealizationDeny, Terminal
<1>8. CASE RecvPrepared
  BY <1>8, HandlingHeld DEF RecvPrepared, RealizationDeny, Terminal
<1>9. CASE Decide
  BY <1>9, HandlingHeld DEF Decide, Settle, Terminal
<1>10. CASE Prompt
  BY <1>10, HandlingHeld DEF Prompt, Settle, Terminal
<1>11. CASE Record
  BY <1>11, HandlingHeld DEF Record, Terminal
<1>12. CASE Commit
  BY <1>0, <1>12, HandlingHeld, DroppingHeld DEF Commit, DropRecorded, Drop, RefuseLate,
     Terminal
<1>13. CASE RecvResult
  BY <1>13, HandlingHeld DEF RecvResult, Terminal
<1>14. CASE Release
  BY <1>14, HandlingHeld DEF Release, Terminal
<1>15. CASE RecvReleased
  BY <1>0, <1>15, HandlingHeld DEF RecvReleased, OneHeld, Terminal, IInv, TypeOK, HandlerType
<1>16. CASE Send
  BY <1>0, <1>16 DEF Send, respond, IdValid, OneHeld, Terminal
<1>17. CASE AwaitFails
  BY <1>17, HandlingHeld DEF AwaitFails, Awaiting, Terminal
<1>18. CASE AbortDeny
  BY <1>0, <1>18 DEF AbortDeny, IdValid, OneHeld, Terminal
<1>19. CASE AbortKill \/ AbortClose
  BY <1>0, <1>19 DEF AbortKill, AbortClose, Released, OneHeld, Terminal
<1>. QED
  BY <1>1, <1>2, <1>3, <1>4, <1>5, <1>6, <1>7, <1>8, <1>9, <1>10, <1>11, <1>12,
     <1>13, <1>14, <1>15, <1>16, <1>17, <1>18, <1>19 DEF Supervisor

\* The broker and the faults do not answer for the handler.
LEMMA OthersHeld ==
    ASSUME IInv, OneHeld, BrokerStep \/ Fault \/ UNCHANGED vars
    PROVE  OneHeld'
<1>. USE DEF vars, kernelVars, handlerVars, brokerVars, logVars, historyVars
<1>0. cur \in Thread
  BY DEF IInv, TypeOK, HandlerType
<1>1. CASE BrokerStep \/ BrokerDies \/ UNCHANGED vars
  BY <1>1 DEF BrokerStep, BrokerPrepare, BrokerRelease, BrokerCommit, BrokerStops,
     BrokerDies, OneHeld
<1>2. CASE RecordFails
  BY <1>2, HandlingHeld DEF RecordFails, Terminal
<1>3. CASE KernelFails \/ PollFails
  BY <1>3, HandlingHeld DEF KernelFails, PollFails, Awaiting, OneHeld, Terminal
<1>4. CASE Crash
  BY <1>0, <1>4 DEF Crash, Released, OneHeld, Terminal
<1>. QED
  BY <1>1, <1>2, <1>3, <1>4 DEF Fault

\* A received notification is the one being handled, in every reachable state.
LEMMA HeldInvariance == Spec => []OneHeld
<1>1. Init => OneHeld
  BY ConfigAssumption DEF Init, OneHeld
<1>2. IInv /\ OneHeld /\ [Next]_vars => OneHeld'
  BY TreeHeld, SupervisorHeld, OthersHeld DEF Next, Finished
<1>. QED
  BY <1>1, <1>2, Invariance, PTL DEF Spec

\* No call is forgotten (run.rs: Handled, tolerate_dead, run_loop), for any
\* number of threads and any combination of faults: whenever the loop waits for
\* the next notification, no live thread is left with an unanswered one.
THEOREM NoCallForgotten == Spec => []NoneForgotten
<1>1. OneHeld => NoneForgotten
  BY DEF OneHeld, NoneForgotten
<1>. QED
  BY <1>1, HeldInvariance, PTL

-----------------------------------------------------------------------------
(***************************************************************************)
(* Fail closed.                                                            *)
(***************************************************************************)

\* A step of the handler's that is taken at none of the abort steps, and does
\* not write, happens with a working writer.
LEMMA WorkingWriter ==
    ASSUME Failed, pc \notin Leaving
    PROVE  writer # "failed" /\ ~Aborting
BY DEF Failed, Aborting

\* Every step keeps Failed: only an abort or a crash follows a failed write.
LEMMA FailedStep ==
    ASSUME IInv, Failed, [Next]_vars
    PROVE  Failed'
<1>. USE DEF vars, kernelVars, handlerVars, brokerVars, logVars, historyVars, Failed
<1>1. CASE Tree \/ UNCHANGED vars
  BY <1>1 DEF Tree, Trap, SignalCancel, Retrap, Rewrite, ExecuteContinued, Die
<1>2. CASE Supervisor /\ pc \notin Leaving
  <2>1. writer # "failed"
    BY <1>2, WorkingWriter
  <2>2. writer' = writer
    BY <1>2 DEF Supervisor, Recv, Hangup, BracketOpen, Gather, BracketClose, WalkTree,
       PreparePath, RecvPrepared, Decide, Prompt, Record, Commit, RecvResult, Release,
       RecvReleased, Send, AwaitFails, AbortDeny, AbortKill, AbortClose
  <2>. QED
    BY <2>1, <2>2
<1>3. CASE Supervisor /\ pc \in Leaving
  <2>1. AbortDeny \/ AbortKill \/ AbortClose
    BY <1>3 DEF Supervisor, Recv, Hangup, BracketOpen, Gather, BracketClose, WalkTree,
       PreparePath, RecvPrepared, Decide, Prompt, Record, Commit, RecvResult, Release,
       RecvReleased, Send, AwaitFails, Awaiting
  <2>. QED
    BY <2>1 DEF AbortDeny, AbortKill, AbortClose
<1>4. CASE BrokerStep \/ BrokerDies
  BY <1>4 DEF BrokerStep, BrokerPrepare, BrokerRelease, BrokerCommit, BrokerStops,
     BrokerDies, Serving, NoReq
<1>5. CASE RecordFails
  BY <1>5 DEF RecordFails, IInv, Socket, Awaiting
<1>6. CASE KernelFails \/ PollFails \/ Crash
  BY <1>6 DEF KernelFails, PollFails, Crash, Awaiting, Terminal
<1>. QED
  BY <1>1, <1>2, <1>3, <1>4, <1>5, <1>6 DEF Next, Fault, Finished

\* What FailClosed says of one step.
LEMMA ClosedStep ==
    ASSUME IInv, Failed, [Next]_vars, Aborting
    PROVE  /\ trace' = trace
           /\ req' \in {req, NoReq}
           /\ \A i \in DOMAIN effects' \ DOMAIN effects :
                 effects'[i].via = "broker" => writer = "ok"
           /\ \A t \in Thread : tstate'[t] = "exec" => tstate[t] = "exec"
<1>. USE DEF vars, kernelVars, handlerVars, brokerVars, logVars, historyVars
<1>0. /\ pc \in Leaving
      /\ writer # "ok" => req.op = "none"
      /\ tstate \in [Thread -> {"run", "queued", "held", "restart", "exec", "dead"}]
      /\ effects \in Seq(EffectRecord)
      /\ cur \in Thread
  BY DEF Aborting, Failed, IInv, Socket, Awaiting, TypeOK, KernelType, LogType, HandlerType
<1>1. CASE Tree
  <2>1. PICK u \in Thread : \/ Trap(u) \/ SignalCancel(u) \/ Retrap(u) \/ Rewrite(u)
                            \/ ExecuteContinued(u) \/ Die(u)
    BY <1>1 DEF Tree
  <2>2. trace' = trace /\ req' = req
    BY <2>1 DEF Trap, SignalCancel, Retrap, Rewrite, ExecuteContinued, Die
  <2>3. \A t \in Thread : tstate'[t] = "exec" => tstate[t] = "exec"
    BY <1>0, <2>1 DEF Trap, SignalCancel, Retrap, Rewrite, ExecuteContinued, Die
  <2>4. CASE ExecuteContinued(u)
    <3>. DEFINE e == [id |-> nid[u], thread |-> u, no |-> callno[u], via |-> "kernel",
                      args |-> mem[u], replaces |-> FALSE, moved |-> FALSE]
    <3>1. effects' = Append(effects, e)
      BY <2>4 DEF ExecuteContinued
    <3>2. /\ DOMAIN effects = 1..Len(effects) /\ Len(effects) \in Nat
          /\ DOMAIN Append(effects, e) = 1..(Len(effects) + 1)
          /\ Append(effects, e)[Len(effects) + 1] = e
      BY <1>0
    <3>3. e.via = "kernel"
      OBVIOUS
    <3>. HIDE DEF e
    <3>4. ASSUME NEW i \in DOMAIN effects' \ DOMAIN effects
          PROVE  i = Len(effects) + 1
      <4>1. i \in 1..(Len(effects) + 1) /\ i \notin 1..Len(effects)
        BY <3>1, <3>2, Zenon
      <4>. QED
        BY <3>2, <4>1
    <3>5. \A i \in DOMAIN effects' \ DOMAIN effects : effects'[i] = e
      BY <3>1, <3>2, <3>4
    <3>. QED
      BY <2>2, <2>3, <3>3, <3>5
  <2>5. CASE Trap(u) \/ SignalCancel(u) \/ Retrap(u) \/ Rewrite(u) \/ Die(u)
    <3>1. effects' = effects
      BY <2>5 DEF Trap, SignalCancel, Retrap, Rewrite, Die
    <3>. QED
      BY <2>2, <2>3, <3>1
  <2>. QED
    BY <2>1, <2>4, <2>5
<1>2. CASE Supervisor
  <2>1. AbortDeny \/ AbortKill \/ AbortClose
    BY <1>0, <1>2 DEF Supervisor, Recv, Hangup, BracketOpen, Gather, BracketClose, WalkTree,
       PreparePath, RecvPrepared, Decide, Prompt, Record, Commit, RecvResult, Release,
       RecvReleased, Send, AwaitFails, Awaiting
  <2>. QED
    BY <1>0, <2>1 DEF AbortDeny, AbortKill, AbortClose, Released
<1>3. CASE BrokerStep \/ BrokerDies
  <2>1. trace' = trace /\ tstate' = tstate /\ req' \in {req, NoReq}
    BY <1>3 DEF BrokerStep, BrokerPrepare, BrokerRelease, BrokerCommit, BrokerStops,
       BrokerDies, Reply
  <2>2. writer # "ok" => effects' = effects
    BY <1>0, <1>3 DEF BrokerStep, BrokerPrepare, BrokerRelease, BrokerCommit, BrokerStops,
       BrokerDies, Serving
  <2>. QED
    BY <2>1, <2>2
<1>4. CASE Crash
  BY <1>0, <1>4 DEF Crash, Released
<1>6. CASE RecordFails \/ KernelFails \/ PollFails
  BY <1>0, <1>6 DEF RecordFails, KernelFails, PollFails, Awaiting
<1>5. CASE UNCHANGED vars
  BY <1>5
<1>. QED
  BY <1>1, <1>2, <1>3, <1>4, <1>5, <1>6 DEF Next, Fault, Finished

\* After a failed write the handler is on its way out, in every reachable state.
LEMMA FailedInvariance == Spec => []Failed
<1>1. Init => Failed
  BY DEF Init, Failed
<1>2. IInv /\ Failed /\ [Next]_vars => Failed'
  BY FailedStep
<1>. QED
  BY <1>1, <1>2, Invariance, PTL DEF Spec

\* Fail closed (run.rs, cases D and E of docs/design/notify-loop.md), for every
\* instance: from the first failed write, lost broker or failed system call on,
\* no event is appended, the broker is asked for nothing, no further thread is
\* let into its call, and after a failed write the broker performs nothing.
THEOREM FailsClosed == Spec => FailClosed
<1>1. IInv /\ Failed /\ [Next]_vars =>
         [Aborting =>
            /\ trace' = trace
            /\ req' \in {req, NoReq}
            /\ \A i \in DOMAIN effects' \ DOMAIN effects :
                  effects'[i].via = "broker" => writer = "ok"
            /\ \A t \in Thread : tstate'[t] = "exec" => tstate[t] = "exec"]_vars
  BY ClosedStep
<1>. QED
  BY <1>1, Invariance, FailedInvariance, PTL DEF Spec, FailClosed
=============================================================================
