--------------------------- MODULE DecisionProofs ---------------------------
(***************************************************************************)
(* Why an operation the broker performs is one the policy granted for that *)
(* very object, why the kernel runs only what was handed back to it, and   *)
(* why the loop therefore implements the monitor of Mediation.             *)
(***************************************************************************)
EXTENDS HandlingProofs

USE DEF Leaving

-----------------------------------------------------------------------------
(***************************************************************************)
(* The inductive invariants.                                               *)
(***************************************************************************)

\* The destination was there when it was pinned.
Seen == Len(prepared) = 2 /\ prepared[2].exists

\* The handler has decided that the broker may act.
Cleared ==
    \/ pc = "record" /\ dec.response = "allow" /\ Brokered(call[cur])
    \/ pc = "valid3"

\* The event is that of the call the pending commit carries out, and the commit
\* asks for what was decided about it.
Commissioned(event) ==
    /\ event.id = curId /\ event.fact = fact /\ Permits(event)
    /\ Brokered(event.call) /\ fact \in Seq(Value)
    /\ IF event.call.kind = "net" THEN Len(fact) = 1 /\ req.val = fact[1]
                                  ELSE fact = Identities(prepared)
    /\ req.op = CommitOp(event.call)
    /\ Authorized(curId, event.call, fact, Seen)

\* What it decided, and what the decision was about.
Warrant ==
    /\ Cleared =>
          /\ Brokered(call[cur])
          /\ fact \in Seq(Value)
          /\ IF call[cur].kind = "net" THEN prepared = <<>> /\ Len(fact) = 1
                                       ELSE fact = Identities(prepared)
          /\ Authorized(curId, call[cur], fact, Seen)
    /\ pc = "valid3" =>
          \E j \in DOMAIN trace :
             /\ trace[j].id = curId /\ trace[j].call = call[cur]
             /\ trace[j].fact = fact /\ Permits(trace[j])
    /\ Committing => \E j \in DOMAIN trace : Commissioned(trace[j])

\* The trace has an event that permits the call and hands it to the kernel.
Delegated(id) ==
    \E j \in DOMAIN trace :
        trace[j].id = id /\ Permits(trace[j]) /\ ~Brokered(trace[j].call)

Delegation ==
    /\ (answer = "continue" /\ Answering) => Delegated(curId)
    /\ \A t \in Thread : tstate[t] = "exec" => Delegated(nid[t])

\* Some event of the trace decides the effect.
Decreed(e) == \E j \in DOMAIN trace : Decides(trace[j], e)

-----------------------------------------------------------------------------
(***************************************************************************)
(* From the verdicts on each operand to the decision on the call.          *)
(***************************************************************************)

\* A call is let through only if each thing it requires is allowed, or asked
\* about and approved.
LEMMA JointlyGranted ==
    ASSUME NEW decisions \in Seq(Verdict), NEW resolution,
           finalize_operand(decisions, resolution).response = "allow"
    PROVE  \A i \in DOMAIN decisions :
              \/ decisions[i] = "allow"
              \/ decisions[i] = "ask" /\ resolution = "approved"
<1>. DEFINE final == [i \in DOMAIN decisions |->
                        finalize_decision(decisions[i], resolution)]
            denied == {i \in DOMAIN final : final[i].response # "allow"}
<1>1. decisions # <<>>
  BY DEF finalize_operand, fixed_decision
<1>2. denied = {}
  <2>1. SUFFICES ASSUME denied # {} PROVE FALSE
    OBVIOUS
  <2>2. denied \in SUBSET Nat
    OBVIOUS
  <2>3. FirstOf(denied) \in denied
    BY <2>1, <2>2, FirstOfMember
  <2>4. finalize_operand(decisions, resolution) = final[FirstOf(denied)]
    BY <1>1, <2>1 DEF finalize_operand
  <2>. QED
    BY <2>3, <2>4
<1>3. \A i \in DOMAIN decisions : finalize_decision(decisions[i], resolution).response = "allow"
  BY <1>2
<1>. QED
  BY <1>3 DEF finalize_decision, fixed_decision, Verdict

\* The verdict on one access of several is the verdict on that access alone.
LEMMA OneAccess ==
    ASSUME NEW path, NEW access, NEW j \in DOMAIN access
    PROVE  FsDecisions(path, access)[j] = FsDecisions(path, <<access[j]>>)[1]
<1>1. FsDecisions(path, access)[j] =
         evaluate(Policy, [family |-> "fs", path |-> path, access |-> {access[j]}],
                  "enforce").decision
  BY DEF FsDecisions
<1>2. 1 \in DOMAIN <<access[j]>> /\ <<access[j]>>[1] = access[j]
  OBVIOUS
<1>3. FsDecisions(path, <<access[j]>>)[1] =
         evaluate(Policy, [family |-> "fs", path |-> path, access |-> {access[j]}],
                  "enforce").decision
  BY <1>2 DEF FsDecisions
<1>. QED
  BY <1>1, <1>3

\* The verdicts a held call is decided from.
Verdicts(c, paths, values) ==
    LET decisions == Decisions(c, paths, values)
    IN  {decisions[i] : i \in DOMAIN decisions}

\* Only a rename or a link has a second operand, and it is the last.
LEMMA SecondOperand ==
    ASSUME NEW c, NEW paths \in Seq(PreparedPath), Len(paths) <= Width(c),
           2 \in DOMAIN paths
    PROVE  c.kind \in {"rename", "link"} /\ Len(paths) = 2
<1>1. Len(paths) \in Nat /\ Len(paths) >= 2
  OBVIOUS
<1>2. c.kind \in {"rename", "link"} /\ Len(paths) <= 2
  BY <1>1 DEF Width
<1>3. \A n \in Nat : n >= 2 /\ n <= 2 => n = 2
  OBVIOUS
<1>. QED
  BY <1>1, <1>2, <1>3, Zenon

\* What an operation does to an operand is what the handler asks for.
LEMMA ExercisesAsked ==
    ASSUME NEW c, c.kind \in FsKinds, NEW paths \in Seq(PreparedPath), Len(paths) <= Width(c),
           NEW k \in DOMAIN paths, NEW seen \in BOOLEAN,
           seen <=> (Len(paths) = 2 /\ paths[2].exists)
    PROVE  Exercises(c, k, seen) \subseteq Required(c, paths, k)
<1>1. CASE k = 1
  BY <1>1 DEF Exercises, Required, primary_access
<1>2. CASE k = 2
  <2>1. c.kind \in {"rename", "link"} /\ Len(paths) = 2
    BY <1>2, SecondOperand
  <2>2. seen <=> paths[2].exists
    BY <2>1, Zenon
  <2>3. CASE c.kind = "link"
    BY <1>2, <2>3 DEF Exercises, Required, secondary_access
  <2>4. CASE c.kind = "rename" /\ paths[2].exists
    BY <1>2, <2>2, <2>4 DEF Exercises, Required, secondary_access
  <2>5. CASE c.kind = "rename" /\ ~paths[2].exists
    BY <1>2, <2>2, <2>5 DEF Exercises, Required, secondary_access
  <2>. QED
    BY <2>1, <2>3, <2>4, <2>5
<1>. QED
  BY <1>1, <1>2 DEF Width

\* Every access asked for is one of the verdicts the call is decided from, for
\* the identity the broker pinned.
LEMMA EveryAccessDecided ==
    ASSUME RunMode = "enforce", NEW c \in CallRecord, c.kind \in FsKinds,
           NEW paths \in Seq(PreparedPath), Len(paths) <= Width(c), NEW values,
           NEW k \in DOMAIN paths, NEW a \in Required(c, paths, k)
    PROVE  FsDecisions(paths[k].identity, <<a>>)[1] \in Verdicts(c, paths, values)
<1>. USE DEF Verdicts
<1>. DEFINE first == FsDecisions(paths[1].identity, primary_access(c))
            second == FsDecisions(paths[2].identity, secondary_access(c, paths[2].exists))
<1>0. /\ first \in Seq(Verdict) /\ second \in Seq(Verdict)
      /\ DOMAIN first = DOMAIN primary_access(c)
      /\ DOMAIN second = DOMAIN secondary_access(c, paths[2].exists)
  <2>1. primary_access(c) \in Seq(Access) /\ secondary_access(c, paths[2].exists) \in Seq(Access)
    BY AccessType
  <2>. QED
    BY <2>1, FsDecisionsType DEF FsDecisions
<1>1. Decisions(c, paths, values) = first \o (IF Len(paths) = 2 THEN second ELSE <<>>)
  BY DEF Decisions, FsKinds
<1>2. CASE k = 1
  <2>1. PICK j \in DOMAIN primary_access(c) : primary_access(c)[j] = a
    BY <1>2 DEF Required
  <2>2. first[j] = FsDecisions(paths[k].identity, <<a>>)[1]
    BY <1>2, <2>1, OneAccess
  <2>3. \A rest \in Seq(Verdict) : j \in DOMAIN (first \o rest) /\ (first \o rest)[j] = first[j]
    <3>. HIDE DEF first
    <3>. QED
      BY <1>0, <2>1
  <2>4. second \in Seq(Verdict) /\ <<>> \in Seq(Verdict)
    BY <1>0
  <2>. HIDE DEF first, second
  <2>. QED
    BY <1>1, <2>2, <2>3, <2>4
<1>3. CASE k = 2
  <2>1. PICK j \in DOMAIN secondary_access(c, paths[2].exists) :
               secondary_access(c, paths[2].exists)[j] = a
    BY <1>3 DEF Required
  <2>2. second[j] = FsDecisions(paths[k].identity, <<a>>)[1]
    BY <1>3, <2>1, OneAccess
  <2>3. /\ Len(first) + j \in DOMAIN (first \o second)
        /\ (first \o second)[Len(first) + j] = second[j]
    <3>. HIDE DEF first, second
    <3>. QED
      BY <1>0, <2>1
  <2>4. Len(paths) = 2
    BY <1>3, SecondOperand
  <2>. HIDE DEF first, second
  <2>. QED
    BY <1>1, <2>2, <2>3, <2>4
<1>. QED
  BY <1>2, <1>3 DEF Width

-----------------------------------------------------------------------------
(***************************************************************************)
(* What the handler may have done.                                         *)
(***************************************************************************)

\* A step that leaves the decision where it was.
LEMMA WarrantFrame ==
    ASSUME Warrant, UNCHANGED <<cur, curId, fact, prepared, prompts, trace>>,
           Cleared => call'[cur] = call[cur],
           Cleared' => Cleared,
           pc' = "valid3" => pc = "valid3",
           Committing' => Committing /\ req' = req
    PROVE  Warrant'
<1>1. \A c : Authorized(curId, c, fact, Seen)' <=> Authorized(curId, c, fact, Seen)
  BY DEF Authorized, Granted, Seen
<1>2. Committing' => (\E j \in DOMAIN trace : Commissioned(trace[j]))'
  BY <1>1 DEF Warrant, Commissioned, Identities, Permits, Brokered
<1>3. CASE ~Cleared'
  <2>1. ~(pc' = "valid3")
    BY <1>3 DEF Cleared
  <2>. QED
    BY <1>2, <1>3, <2>1 DEF Warrant
<1>4. CASE Cleared'
  <2>1. Cleared /\ call'[cur'] = call[cur]
    BY <1>4
  <2>2. Authorized(curId, call[cur], fact, Seen)' <=> Authorized(curId, call[cur], fact, Seen)
    BY <2>1 DEF Authorized, Granted, Seen
  <2>3. Brokered(call[cur])' <=> Brokered(call[cur])
    BY <2>1 DEF Brokered
  <2>. QED
    BY <1>2, <2>1, <2>2, <2>3 DEF Warrant, Identities, Permits
<1>. QED
  BY <1>3, <1>4

\* What is asked about an operand of a held call is listed in its prompt.
LEMMA AskedIsListed ==
    ASSUME NEW c, c.kind \in FsKinds, NEW paths, NEW values, NEW k \in DOMAIN paths,
           NEW a \in Required(c, paths, k),
           FsDecisions(paths[k].identity, <<a>>)[1] = "ask"
    PROVE  Item(paths[k].identity, a) \in PendingAsks(c, paths, values)
<1>. DEFINE listed(i) == {Item(paths[i].identity, b) :
                            b \in {d \in Required(c, paths, i) :
                                     FsDecisions(paths[i].identity, <<d>>)[1] = "ask"}}
<1>1. PendingAsks(c, paths, values) = UNION {listed(i) : i \in DOMAIN paths}
  BY DEF PendingAsks, FsKinds
<1>2. Item(paths[k].identity, a) \in listed(k)
  OBVIOUS
<1>. HIDE DEF listed
<1>. QED
  BY <1>1, <1>2

\* The decision: everything the call will do to each operand is granted, by
\* the policy or by the one prompt that lists them all.
LEMMA SettleWarrants ==
    ASSUME IInv, Operated, pc \in {"decide", "ask"}, NEW resolution, Settle(resolution),
           UNCHANGED <<call, req>>,
           resolution = "approved" =>
              /\ prompts \in Seq(PromptRecord)
              /\ prompts' = Append(prompts, [id |-> curId,
                                             items |-> PendingAsks(call[cur], prepared, fact),
                                             answer |-> resolution])
    PROVE  Warrant'
<1>0. /\ cur \in Thread /\ call[cur] \in CallRecord /\ prepared \in Seq(PreparedPath) /\ Read
      /\ req.op = "none" /\ UNCHANGED <<cur, curId, prepared>> /\ pc' = "record"
      /\ fact' = (IF prepared = <<>> THEN fact ELSE Identities(prepared))
      /\ dec' = finalize_operand(Decisions(call[cur], prepared, fact), resolution)
      /\ fact \in Seq(Value)
  BY DEF IInv, TypeOK, KernelType, HandlerType, Shape, Socket, Awaiting, Settle, Read
<1>. SUFFICES ASSUME dec'.response = "allow", Brokered(call[cur])
              PROVE  /\ fact' \in Seq(Value)
                     /\ IF call[cur].kind = "net" THEN prepared = <<>> /\ Len(fact') = 1
                                                  ELSE fact' = Identities(prepared)
                     /\ Authorized(curId, call[cur], fact, Seen)'
  BY <1>0 DEF Warrant, Cleared, Committing, Commits, Brokered, Identities
<1>1. \A i \in DOMAIN Decisions(call[cur], prepared, fact) :
         \/ Decisions(call[cur], prepared, fact)[i] = "allow"
         \/ Decisions(call[cur], prepared, fact)[i] = "ask" /\ resolution = "approved"
  <2>1. Decisions(call[cur], prepared, fact) \in Seq(Verdict)
    BY <1>0, DecisionsType
  <2>. QED
    BY <1>0, <2>1, JointlyGranted
<1>2. ASSUME NEW item, NEW v,
             \/ v = "allow"
             \/ /\ v = "ask" /\ resolution = "approved"
                /\ item \in PendingAsks(call[cur], prepared, fact)
      PROVE  Granted(curId, item, v)'
  <2>1. CASE v = "allow"
    BY <2>1 DEF Granted
  <2>2. CASE /\ v = "ask" /\ resolution = "approved"
             /\ item \in PendingAsks(call[cur], prepared, fact)
    <3>. DEFINE shown == [id |-> curId, items |-> PendingAsks(call[cur], prepared, fact),
                          answer |-> resolution]
    <3>1. /\ prompts \in Seq(PromptRecord) /\ prompts' = Append(prompts, shown)
          /\ shown.id = curId' /\ shown.answer = "approved" /\ item \in shown.items
      BY <1>0, <2>2
    <3>. HIDE DEF shown
    <3>2. Len(prompts) + 1 \in DOMAIN prompts' /\ prompts'[Len(prompts) + 1] = shown
      BY <3>1
    <3>. QED
      BY <2>2, <3>1, <3>2 DEF Granted
  <2>. QED
    BY <1>2, <2>1, <2>2
<1>3. CASE call[cur].kind = "net"
  <2>1. prepared = <<>> /\ fact' = fact
    BY <1>0, <1>3 DEF Operated, Handling, Terminal, FsKinds
  <2>2. Len(fact) = 1 /\ DOMAIN fact = {1}
    BY <1>0, <1>3 DEF Read, Arity
  <2>3. Decisions(call[cur], prepared, fact) = <<NetDecision(fact[1])>>
    BY <1>3 DEF Decisions, Brokered
  <2>4. NetDecision(fact[1]) = "allow"
           \/ (NetDecision(fact[1]) = "ask" /\ resolution = "approved")
    BY <1>1, <2>3
  <2>5. Granted(curId, Item(fact[1], "connect"), NetDecision(fact[1]))'
    <3>1. PICK item : item = Item(fact[1], "connect")
      OBVIOUS
    <3>2. PICK v : v = NetDecision(fact[1])
      OBVIOUS
    <3>3. item \in PendingAsks(call[cur], prepared, fact)
      BY <1>3, <3>1 DEF PendingAsks
    <3>4. Granted(curId, item, v)'
      BY <1>2, <2>4, <3>2, <3>3
    <3>5. item = Item(fact'[1], "connect") /\ v = NetDecision(fact'[1])
      BY <2>1, <3>1, <3>2
    <3>. QED
      BY <3>4, <3>5 DEF Granted
  <2>6. Authorized(curId, call[cur], fact, Seen)'
    BY <1>0, <1>3, <2>1, <2>2, <2>5 DEF Authorized
  <2>. QED
    BY <1>0, <1>3, <2>1, <2>2, <2>6
<1>4. CASE call[cur].kind # "net"
  <2>1. call[cur].kind \in FsKinds /\ RunMode = "enforce"
    BY <1>4 DEF Brokered
  <2>2. prepared # <<>> /\ Len(prepared) <= Width(call[cur])
    BY <2>1 DEF Operated, Handling, Terminal
  <2>3. fact' = Identities(prepared) /\ DOMAIN fact' = DOMAIN prepared
    BY <1>0, <2>2 DEF Identities
  <2>4. fact' \in Seq(Value)
    <3>1. Len(prepared) \in Nat /\ DOMAIN prepared = 1..Len(prepared)
      BY <1>0, LenProperties
    <3>2. \A i \in DOMAIN prepared : prepared[i] \in PreparedPath
      BY <1>0
    <3>3. fact' \in [1..Len(prepared) -> Value]
      BY <2>3, <3>1, <3>2 DEF Identities, PreparedPath
    <3>. QED
      BY <3>1, <3>3, SeqDef
  <2>5. ASSUME NEW k \in DOMAIN fact', NEW a \in Exercises(call[cur], k, Seen)'
        PROVE  Granted(curId, Item(fact[k], a), FsDecisions(fact[k], <<a>>)[1])'
    <3>1. PICK seen \in BOOLEAN :
             (seen <=> Seen') /\ (seen <=> (Len(prepared) = 2 /\ prepared[2].exists))
      BY <1>0 DEF Seen
    <3>2. a \in Required(call[cur], prepared, k)
      <4>1. call'[cur'] = call[cur]
        BY <1>0
      <4>2. a \in Exercises(call[cur], k, seen)
        <5>1. CASE seen
          BY <3>1, <4>1, <5>1 DEF Exercises
        <5>2. CASE ~seen
          BY <3>1, <4>1, <5>2 DEF Exercises
        <5>. QED
          BY <5>1, <5>2
      <4>3. k \in DOMAIN prepared /\ prepared \in Seq(PreparedPath)
        BY <1>0, <2>3
      <4>4. seen <=> (Len(prepared) = 2 /\ prepared[2].exists)
        BY <3>1
      <4>5. call[cur].kind \in FsKinds /\ Len(prepared) <= Width(call[cur])
        BY <2>1, <2>2
      <4>6. Exercises(call[cur], k, seen) \subseteq Required(call[cur], prepared, k)
        BY <4>3, <4>4, <4>5, ExercisesAsked, Zenon
      <4>. QED
        BY <4>2, <4>6, Zenon
    <3>3. PICK v : v = FsDecisions(prepared[k].identity, <<a>>)[1]
      OBVIOUS
    <3>4. v = "allow" \/ (v = "ask" /\ resolution = "approved")
      <4>1. k \in DOMAIN prepared
        BY <2>3
      <4>2. /\ RunMode = "enforce" /\ call[cur] \in CallRecord /\ call[cur].kind \in FsKinds
            /\ prepared \in Seq(PreparedPath) /\ Len(prepared) <= Width(call[cur])
        BY <1>0, <2>1, <2>2
      <4>3. FsDecisions(prepared[k].identity, <<a>>)[1] \in Verdicts(call[cur], prepared, fact)
        BY <3>2, <4>1, <4>2, EveryAccessDecided, Zenon
      <4>. QED
        BY <1>1, <3>3, <4>3 DEF Verdicts
    <3>5. Granted(curId, Item(fact[k], a), v)'
      <4>1. PICK item : item = Item(prepared[k].identity, a)
        OBVIOUS
      <4>2. v = "ask" => item \in PendingAsks(call[cur], prepared, fact)
        <5>1. k \in DOMAIN prepared
          BY <2>3
        <5>. QED
          BY <2>1, <3>2, <3>3, <4>1, <5>1, AskedIsListed
      <4>3. Granted(curId, item, v)'
        BY <1>2, <3>4, <4>2
      <4>4. item = Item(fact'[k], a)
        BY <2>3, <4>1 DEF Identities
      <4>. QED
        BY <4>3, <4>4 DEF Granted
    <3>6. v = FsDecisions(fact'[k], <<a>>)[1]
      BY <2>3, <3>3 DEF Identities
    <3>. QED
      BY <3>5, <3>6 DEF Granted
  <2>6. Authorized(curId, call[cur], fact, Seen)'
    BY <1>0, <1>4, <2>5 DEF Authorized
  <2>. QED
    BY <1>4, <2>3, <2>4, <2>6
<1>. QED
  BY <1>3, <1>4

\* The trace gains the event of the call being handled.
LEMMA Recorded ==
    ASSUME IInv, Record
    PROVE  /\ DOMAIN trace \subseteq DOMAIN trace'
           /\ \A i \in DOMAIN trace : trace'[i] = trace[i]
           /\ \E j \in DOMAIN trace' : trace'[j] = Event
<1>1. trace \in Seq(EventRecord) /\ trace' = Append(trace, Event)
  BY DEF IInv, TypeOK, LogType, Record
<1>2. /\ Len(trace) \in Nat /\ DOMAIN trace = 1..Len(trace)
      /\ DOMAIN trace' = 1..(Len(trace) + 1)
      /\ \A i \in 1..Len(trace) : trace'[i] = trace[i]
      /\ trace'[Len(trace) + 1] = Event
  BY <1>1
<1>. QED
  BY <1>2

\* The event of a call that may be performed says what was decided.
LEMMA RecordWarrants ==
    ASSUME IInv, Warrant, Record
    PROVE  Warrant'
<1>0. /\ pc = "record" /\ req.op = "none" /\ pc' # "record"
      /\ UNCHANGED <<call, cur, curId, fact, prepared, prompts, dec, req>>
      /\ pc' = "valid3" => dec.response = "allow" /\ Brokered(call[cur])
  BY DEF Record, kernelVars, brokerVars, historyVars, IInv, Socket, Awaiting
<1>. SUFFICES ASSUME pc' = "valid3" PROVE Warrant'
  BY <1>0 DEF Warrant, Cleared, Committing, Commits
<1>1. /\ Brokered(call[cur]) /\ fact \in Seq(Value)
      /\ IF call[cur].kind = "net" THEN prepared = <<>> /\ Len(fact) = 1
                                   ELSE fact = Identities(prepared)
      /\ Authorized(curId, call[cur], fact, Seen)
  BY <1>0 DEF Warrant, Cleared
<1>2. fact # <<Bad>>
  <2>1. Bad \notin Value
    BY CallsAssumption
  <2>. QED
    BY <1>1, <2>1
<1>3. Event.id = curId /\ Event.call = call[cur] /\ Event.fact = fact /\ Permits(Event)
  BY <1>0, <1>2 DEF Event, Permits, IInv, Authority
<1>4. \E j \in DOMAIN trace' : trace'[j] = Event
  BY Recorded
<1>5. \E j \in DOMAIN trace' : /\ trace'[j].id = curId /\ trace'[j].call = call[cur]
                               /\ trace'[j].fact = fact /\ Permits(trace'[j])
  BY <1>3, <1>4, Zenon
<1>6. Authorized(curId, call[cur], fact, Seen)'
  BY <1>0, <1>1 DEF Authorized, Granted, Seen
<1>. QED
  BY <1>0, <1>1, <1>5, <1>6 DEF Warrant, Committing, Commits, Identities, Permits, Brokered

\* What the broker is asked for is what was decided.
LEMMA CommitWarrants ==
    ASSUME IInv, Warrant, Commit
    PROVE  Warrant'
<1>0. /\ pc = "valid3" /\ req.op = "none"
      /\ UNCHANGED <<call, cur, curId, fact, prepared, prompts, trace>>
      /\ pc' \notin {"valid3", "record"}
      /\ Committing' => req' = CommitRequest
  BY DEF Commit, DropRecorded, Drop, RefuseLate, SendRequest, kernelVars, handlerVars,
         brokerVars, logVars, historyVars, IInv, Socket, Awaiting, Committing, Commits
<1>1. CASE ~Committing'
  BY <1>0, <1>1 DEF Warrant, Cleared
<1>2. CASE Committing'
  <2>1. PICK j \in DOMAIN trace : /\ trace[j].id = curId /\ trace[j].call = call[cur]
                                  /\ trace[j].fact = fact /\ Permits(trace[j])
    BY <1>0 DEF Warrant
  <2>2. PICK c : c = call[cur]
    OBVIOUS
  <2>3. /\ Brokered(c) /\ fact \in Seq(Value) /\ Authorized(curId, c, fact, Seen)
        /\ IF c.kind = "net" THEN Len(fact) = 1 ELSE fact = Identities(prepared)
    BY <1>0, <2>2 DEF Warrant, Cleared
  <2>4. CommitRequest.op = CommitOp(c) /\ (c.kind = "net" => CommitRequest.val = fact[1])
    BY <2>2 DEF CommitRequest, NoReq
  <2>5. Authorized(curId, c, fact, Seen)'
    BY <1>0, <2>3 DEF Authorized, Granted, Seen
  <2>6. j \in DOMAIN trace' /\ trace'[j] = trace[j] /\ trace[j].call = c
    BY <1>0, <2>1, <2>2
  <2>7. Commissioned(trace[j])'
    BY <1>0, <1>2, <2>1, <2>3, <2>4, <2>5, <2>6 DEF Commissioned, Identities, Permits, Brokered
  <2>. QED
    BY <1>0, <2>6, <2>7 DEF Warrant, Cleared
<1>. QED
  BY <1>1, <1>2

\* A call let through before anything is prepared is not the broker's.
LEMMA EarlyAllow ==
    ASSUME NEW c, NEW values
    PROVE  /\ Classify(c).pc = "record" /\ Classify(c).dec.response = "allow" => ~Brokered(c)
           /\ AfterRead(c, values).pc = "record" /\ AfterRead(c, values).dec.response = "allow"
                 => ~Brokered(c)
BY DEF Classify, AfterRead, Decided, Undecided, ReadFailure, fixed_decision, handle_fs,
       handle_exec, handle_process, handle_network, Brokered, FsKinds

\* The handler knows what it may have done, whoever steps.
LEMMA WarrantStep ==
    ASSUME IInv, Protocol, Operated, Warrant, [Next]_vars
    PROVE  Warrant'
<1>. USE DEF vars, kernelVars, handlerVars, brokerVars, logVars, historyVars
<1>0. /\ Committing => pc \in Awaiting \cup Leaving
      /\ req.op # "none" => pc \in Awaiting \cup Leaving
      /\ resp.res # "none" => req.op = "none"
  BY DEF IInv, Socket, Committing, Commits
<1>1. CASE Tree
  <2>1. UNCHANGED <<pc, handlerVars, brokerVars, trace, prompts>>
    BY <1>1 DEF Tree, Trap, SignalCancel, Retrap, Rewrite, ExecuteContinued, Die
  <2>2. Cleared => Handling
    BY DEF Cleared, Handling, Terminal
  <2>3. Cleared => call'[cur] = call[cur]
    BY <1>1, <2>2, SameCall
  <2>4. Cleared' => Cleared
    <3>1. CASE pc = "record"
      <4>1. call'[cur] = call[cur]
        BY <1>1, <3>1, SameCall DEF Handling, Terminal
      <4>. QED
        BY <2>1, <4>1 DEF Cleared, Committing, Brokered
    <3>2. CASE pc # "record"
      BY <2>1, <3>2 DEF Cleared, Committing
    <3>. QED
      BY <3>1, <3>2
  <2>. QED
    BY <2>1, <2>3, <2>4, WarrantFrame DEF Committing
<1>2. ASSUME NEW t \in Thread, Recv(t) PROVE Warrant'
  <2>1. /\ pc' = Classify(call[t]).pc /\ dec' = Classify(call[t]).dec
        /\ call'[cur'] = call[t] /\ req' = req /\ req.op = "none"
    BY <1>0, <1>2 DEF Recv, Awaiting
  <2>2. pc' \in {"record", "tree", "valid1"}
    BY <1>2, ClassifyShape DEF IInv, TypeOK, KernelType, Recv
  <2>3. ~Cleared'
    BY <2>1, <2>2, EarlyAllow DEF Cleared, Committing, Commits, Brokered
  <2>. QED
    BY <2>1, <2>2, <2>3 DEF Warrant, Committing, Commits
<1>3. CASE BracketClose
  <2>1. /\ pc' \in {"poll", "record", "prepare", "decide"}
        /\ pc' # "poll" => pc' = AfterRead(call[cur], fact).pc
                              /\ dec' = AfterRead(call[cur], fact).dec
        /\ call' = call /\ cur' = cur /\ req' = req /\ req.op = "none"
    BY <1>0, <1>3 DEF BracketClose, Drop, AfterRead, Decided, Undecided, handle_fs,
       handle_exec, handle_process, handle_network, Awaiting
  <2>2. ~Cleared'
    BY <2>1, EarlyAllow DEF Cleared, Committing, Commits, Brokered
  <2>. QED
    BY <2>1, <2>2 DEF Warrant, Committing, Commits
<1>4. CASE WalkTree
  <2>1. pc' = "record" /\ call' = call /\ cur' = cur /\ req' = req /\ req.op = "none"
          /\ call[cur].kind = "ptrace"
    BY <1>0, <1>4 DEF WalkTree, IInv, Shape, Awaiting
  <2>. QED
    BY <2>1 DEF Warrant, Cleared, Committing, Commits, Brokered, FsKinds
<1>5. CASE Decide
  <2>1. CASE pc' = "ask"
    BY <1>0, <1>5, <2>1 DEF Decide, Warrant, Cleared, Committing, Commits, Awaiting
  <2>2. CASE pc' # "ask"
    <3>1. pc = "decide" /\ UNCHANGED <<call, req>> /\ (Settle("none") \/ Settle("unattended"))
      BY <1>5, <2>2 DEF Decide
    <3>. QED
      BY <3>1, SettleWarrants
  <2>. QED
    BY <2>1, <2>2
<1>6. CASE Prompt
  <2>1. PICK resolution :
           /\ Settle(resolution)
           /\ prompts' = Append(prompts, [id |-> curId,
                                          items |-> PendingAsks(call[cur], prepared, fact),
                                          answer |-> resolution])
    BY <1>6 DEF Prompt
  <2>2. prompts \in Seq(PromptRecord) /\ pc = "ask" /\ UNCHANGED <<call, req>>
    BY <1>6 DEF Prompt, IInv, TypeOK, LogType
  <2>. QED
    BY <2>1, <2>2, SettleWarrants
<1>7. CASE PreparePath
  <2>1. /\ pc' \notin {"record", "valid3"} \/ (pc' = "record" /\ dec'.response = "deny")
        /\ req'.op \in {"none", "prepare"}
    <3>1. pc = "prepare" /\ req.op = "none"
      BY <1>0, <1>7 DEF PreparePath, Awaiting
    <3>2. CASE RealizationDeny /\ UNCHANGED brokerVars
      BY <3>1, <3>2 DEF RealizationDeny, fixed_decision
    <3>3. CASE pc' = "await_prepare"
                  /\ SendRequest([NoReq EXCEPT !.op = "prepare",
                         !.val = Operands(call[cur], fact)[Len(prepared) + 1],
                         !.missing = AllowMissing(call[cur], Len(prepared) + 1)])
      BY <3>3 DEF SendRequest, NoReq
    <3>. QED
      BY <1>7, <3>2, <3>3 DEF PreparePath
  <2>. QED
    BY <2>1 DEF Warrant, Cleared, Committing, Commits
<1>8. CASE RecvPrepared
  BY <1>0, <1>8 DEF RecvPrepared, RealizationDeny, TakeResponse, fixed_decision, Warrant,
     Cleared, Committing, Commits
<1>9. CASE RecvResult
  BY <1>0, <1>9 DEF RecvResult, TakeResponse, Warrant, Cleared, Committing, Commits
<1>10. CASE Release
  BY <1>0, <1>10 DEF Release, SendRequest, NoReq, Warrant, Cleared, Committing, Commits
<1>11. CASE RecvReleased
  <2>1. /\ pc' \in {"poll", "record", "send", "release"}
        /\ pc' = "record" => dec'.response = "deny"
    BY <1>11 DEF RecvReleased, IInv, TypeOK, HandlerType, Shape
  <2>. QED
    BY <1>0, <1>11, <2>1 DEF RecvReleased, TakeResponse, Warrant, Cleared, Committing, Commits
<1>12. CASE Hangup \/ BracketOpen \/ Gather \/ Send
  <2>1. pc' \notin {"record", "valid3"} /\ req' = req /\ pc \notin Awaiting \cup Leaving
    BY <1>12 DEF Hangup, BracketOpen, Gather, Drop, Send, Awaiting
  <2>. QED
    BY <1>0, <2>1 DEF Warrant, Cleared, Committing, Commits
<1>13. CASE AwaitFails
  BY <1>13 DEF AwaitFails, NoReq, Warrant, Cleared, Committing, Commits
<1>14. CASE RecordFails \/ KernelFails
  BY <1>0, <1>14 DEF RecordFails, KernelFails, Warrant, Cleared, Committing, Commits, Awaiting
<1>15. CASE AbortDeny \/ AbortKill \/ AbortClose \/ PollFails \/ Crash
  <2>1. /\ UNCHANGED <<cur, curId, fact, prepared, prompts, trace, call, req>>
        /\ pc' \notin {"record", "valid3"}
    BY <1>15 DEF AbortDeny, AbortKill, AbortClose, PollFails, Crash
  <2>2. Committing' => Committing
    BY <2>1 DEF Committing
  <2>3. ~Cleared'
    BY <2>1 DEF Cleared
  <2>. QED
    BY <2>1, <2>2, <2>3, WarrantFrame
<1>16. CASE BrokerStep \/ BrokerDies
  <2>1. /\ UNCHANGED <<pc, cur, curId, fact, prepared, dec, prompts, trace, call>>
        /\ req' = req \/ req' = NoReq
    BY <1>16 DEF BrokerStep, BrokerPrepare, BrokerRelease, BrokerCommit, BrokerStops, BrokerDies,
       Reply
  <2>2. Committing' => Committing /\ req' = req
    BY <2>1 DEF Committing, Commits, NoReq
  <2>3. Cleared' => Cleared
    BY <2>1, <2>2 DEF Cleared, Brokered
  <2>. QED
    BY <2>1, <2>2, <2>3, WarrantFrame
<1>17. CASE UNCHANGED vars
  BY <1>17, WarrantFrame DEF Cleared, Committing, Brokered
<1>. QED
  BY <1>1, <1>2, <1>3, <1>4, <1>5, <1>6, <1>7, <1>8, <1>9, <1>10, <1>11, <1>12, <1>13, <1>14,
     <1>15, <1>16, <1>17, RecordWarrants, CommitWarrants
     DEF Next, Supervisor, Fault, Finished

-----------------------------------------------------------------------------
(***************************************************************************)
(* What was recorded, shown and done.                                      *)
(***************************************************************************)

\* Nothing recorded or shown is taken back.
LEMMA LogsGrow ==
    ASSUME IInv, [Next]_vars
    PROVE  /\ \A i \in DOMAIN trace : i \in DOMAIN trace' /\ trace'[i] = trace[i]
           /\ \A i \in DOMAIN prompts : i \in DOMAIN prompts' /\ prompts'[i] = prompts[i]
<1>. USE DEF vars, kernelVars, handlerVars, brokerVars, logVars, historyVars
<1>1. CASE Record
  BY <1>1, Recorded DEF Record
<1>2. CASE Prompt
  <2>1. PICK shown : prompts' = Append(prompts, shown)
    BY <1>2 DEF Prompt
  <2>2. prompts \in Seq(PromptRecord) /\ trace' = trace
    BY <1>2 DEF Prompt, IInv, TypeOK, LogType
  <2>. QED
    BY <2>1, <2>2
<1>3. CASE UNCHANGED <<trace, prompts>>
  BY <1>3
<1>4. CASE Tree
  BY <1>3, <1>4 DEF Tree, Trap, SignalCancel, Retrap, Rewrite, ExecuteContinued, Die
<1>5. CASE Supervisor
  BY <1>1, <1>2, <1>3, <1>5 DEF Supervisor, Recv, Hangup, BracketOpen, Gather, BracketClose,
     WalkTree, PreparePath, RecvPrepared, Decide, Commit, RecvResult, Release, RecvReleased,
     Send, AwaitFails, AbortDeny, AbortKill, AbortClose
<1>6. CASE BrokerStep \/ Fault \/ UNCHANGED vars
  BY <1>3, <1>6 DEF BrokerStep, BrokerPrepare, BrokerRelease, BrokerCommit, BrokerStops, Fault,
     RecordFails, KernelFails, PollFails, Crash, BrokerDies
<1>. QED
  BY <1>4, <1>5, <1>6 DEF Next, Finished

\* A step hands back a call that the trace says was permitted and handed back.
LEMMA DelegationStep ==
    ASSUME IInv, Protocol, Delegation, [Next]_vars
    PROVE  Delegation'
<1>. USE DEF vars, kernelVars, handlerVars, brokerVars, logVars, historyVars
<1>0. /\ tstate \in [Thread -> {"run", "queued", "held", "restart", "exec", "dead"}]
      /\ nid \in [Thread -> Nat] /\ cur \in Thread /\ ret \in {"poll", "record", "send"}
  BY DEF IInv, TypeOK, KernelType, HandlerType
<1>1. \A id : Delegated(id) => Delegated(id)'
  BY LogsGrow DEF Delegated, Permits, Brokered
<1>2. CASE /\ UNCHANGED <<nid, curId>>
           /\ \A t \in Thread : tstate'[t] = "exec" => tstate[t] = "exec"
           /\ (answer' = "continue" /\ Answering') => answer = "continue" /\ Answering
  <2>1. \A t \in Thread : tstate'[t] = "exec" => Delegated(nid[t])'
    BY <1>1, <1>2 DEF Delegation
  <2>2. (answer' = "continue" /\ Answering') => Delegated(curId)'
    BY <1>1, <1>2 DEF Delegation
  <2>. QED
    BY <2>1, <2>2 DEF Delegation
<1>3. ASSUME NEW u \in Thread,
             \/ Trap(u) \/ SignalCancel(u) \/ Retrap(u) \/ Rewrite(u)
             \/ ExecuteContinued(u) \/ Die(u)
      PROVE  Delegation'
  <2>1. /\ UNCHANGED <<trace, curId, answer, pc, ret>>
        /\ \A t \in Thread : tstate'[t] = "exec" => tstate[t] = "exec" /\ nid'[t] = nid[t]
    BY <1>0, <1>3 DEF Trap, SignalCancel, Retrap, Rewrite, ExecuteContinued, Die
  <2>. QED
    BY <2>1 DEF Delegation, Delegated, Answering, Permits, Brokered
<1>4. ASSUME NEW t \in Thread, Recv(t) PROVE Delegation'
  <2>1. pc' \in {"record", "tree", "valid1"}
    BY <1>4, ClassifyShape DEF IInv, TypeOK, KernelType, Recv
  <2>2. /\ UNCHANGED <<nid, trace>>
        /\ \A u \in Thread : tstate'[u] = "exec" => tstate[u] = "exec"
    BY <1>0, <1>4 DEF Recv
  <2>. QED
    BY <2>1, <2>2 DEF Delegation, Delegated, Answering, Permits, Brokered
<1>5. CASE Record
  <2>1. /\ UNCHANGED <<nid, curId, tstate, answer>>
        /\ (answer = "continue" /\ Answering') => /\ dec.response = "allow"
                                                  /\ ~Brokered(call[cur])
    BY <1>5 DEF Record, Answering, IInv, Authority
  <2>2. (answer = "continue" /\ Answering') => Delegated(curId)'
    <3>1. PICK j \in DOMAIN trace' : trace'[j] = Event
      BY <1>5, Recorded
    <3>2. Event.id = curId /\ Event.call = call[cur]
             /\ (dec.response = "allow" => Permits(Event))
      BY DEF Event, Permits, IInv, Authority
    <3>. QED
      BY <2>1, <3>1, <3>2 DEF Delegated, Permits, Brokered
  <2>3. \A t \in Thread : tstate'[t] = "exec" => Delegated(nid[t])'
    BY <1>1, <2>1 DEF Delegation
  <2>. QED
    BY <2>1, <2>2, <2>3 DEF Delegation
<1>6. CASE Send
  <2>1. /\ UNCHANGED <<nid, curId, trace>> /\ pc' \in {"poll", "abort"} /\ pc = "send"
        /\ \A t \in Thread : tstate'[t] = "exec" =>
              tstate[t] = "exec" \/ (t = cur /\ nid[cur] = curId /\ answer = "continue")
    BY <1>0, <1>6 DEF Send, respond, IdValid
  <2>. QED
    BY <2>1 DEF Delegation, Delegated, Answering, Permits, Brokered
<1>7. CASE AbortDeny \/ AbortKill \/ AbortClose \/ Crash \/ Hangup
  BY <1>0, <1>2, <1>7 DEF AbortDeny, AbortKill, AbortClose, Crash, Hangup, Released, IdValid,
     Answering
<1>8. CASE BracketOpen \/ Gather \/ WalkTree
  BY <1>2, <1>8 DEF BracketOpen, Gather, WalkTree, Drop, Answering
<1>9. CASE BracketClose
  <2>1. AfterRead(call[cur], fact).pc \in {"record", "prepare", "decide"}
    BY DEF AfterRead, Decided, Undecided, handle_fs, handle_exec, handle_process,
           handle_network
  <2>. QED
    BY <1>2, <1>9, <2>1 DEF BracketClose, Drop, Answering
<1>10. CASE PreparePath \/ RecvPrepared \/ Decide \/ Prompt
  BY <1>2, <1>10 DEF PreparePath, RecvPrepared, RealizationDeny, Decide, Prompt, Settle,
     Answering
<1>11. CASE Commit
  BY <1>2, <1>11 DEF Commit, DropRecorded, Drop, RefuseLate, Answering
<1>12. CASE RecvResult
  BY <1>2, <1>12 DEF RecvResult, Protocol, Answering
<1>13. CASE Release \/ RecvReleased
  BY <1>0, <1>2, <1>13 DEF Release, RecvReleased, Answering
<1>14. CASE AwaitFails \/ RecordFails \/ KernelFails \/ PollFails
  BY <1>2, <1>14 DEF AwaitFails, RecordFails, KernelFails, PollFails, Answering
<1>15. CASE BrokerStep \/ BrokerDies \/ UNCHANGED vars
  BY <1>2, <1>15 DEF BrokerStep, BrokerPrepare, BrokerRelease, BrokerCommit, BrokerStops,
     BrokerDies, Answering
<1>. QED
  BY <1>3, <1>4, <1>5, <1>6, <1>7, <1>8, <1>9, <1>10, <1>11, <1>12, <1>13, <1>14, <1>15
     DEF Next, Tree, Supervisor, Fault, Finished

\* An interval determines its end.
LEMMA IntervalEnd ==
    ASSUME NEW m \in Nat, NEW n \in Nat, 1..m = 1..n
    PROVE  m = n
<1>1. m # 0 => m \in 1..m
  OBVIOUS
<1>2. n # 0 => n \in 1..n
  OBVIOUS
<1>. QED
  BY <1>1, <1>2

\* The tokens of a commit are those of the handler's pins, one by one.
LEMMA CommitTokens ==
    ASSUME IInv, Pinning, Serving(Commits)
    PROVE  /\ DOMAIN req.toks = DOMAIN prepared /\ Len(req.toks) = Len(prepared)
           /\ \A i \in DOMAIN prepared :
                 /\ prepared[i] \in held /\ req.toks[i] = prepared[i].token
                 /\ \A p \in held : p.token = req.toks[i] => p = prepared[i]
<1>0. /\ prepared \in Seq(PreparedPath) /\ Committing /\ held = PinSet
      /\ \A i, j \in DOMAIN prepared : prepared[i].token = prepared[j].token => i = j
  BY DEF IInv, TypeOK, HandlerType, Socket, Serving, Committing, Commits, Pinning, Table,
         Distinct
<1>1. req.toks = Tokens(prepared)
  BY <1>0 DEF Pinning, Named
<1>2. DOMAIN req.toks = DOMAIN prepared
         /\ \A i \in DOMAIN prepared : req.toks[i] = prepared[i].token
  BY <1>1 DEF Tokens
<1>3. Len(req.toks) = Len(prepared)
  <2>1. req.toks \in Seq(Token) /\ Len(req.toks) \in Nat /\ Len(prepared) \in Nat
    BY <1>0 DEF IInv, TypeOK, BrokerType, RequestPacket
  <2>2. DOMAIN req.toks = 1..Len(req.toks) /\ DOMAIN prepared = 1..Len(prepared)
    BY <1>0, <2>1
  <2>. QED
    BY <1>2, <2>1, <2>2, IntervalEnd
<1>4. ASSUME NEW i \in DOMAIN prepared
      PROVE  prepared[i] \in held /\ \A p \in held : p.token = req.toks[i] => p = prepared[i]
  BY <1>0, <1>2 DEF PinSet
<1>. QED
  BY <1>2, <1>3, <1>4

\* The broker operates on what was decided about: the identities behind its
\* tokens, the destination it was given and, unless they were moved, the entries
\* under its pinned parents.
LEMMA ActedIsFact ==
    ASSUME IInv, Pinning, Slotted, Serving(Commits), NEW event, Commissioned(event),
           req.op # "entry" \/ \A i \in DOMAIN req.toks : ~slot[req.toks[i]].moved
    PROVE  Acted = fact
<1>1. CASE req.op = "network"
  <2>1. event.call.kind = "net"
    BY <1>1 DEF Commissioned, CommitOp
  <2>2. Len(fact) = 1 /\ fact \in Seq(Value) /\ req.val = fact[1]
    BY <2>1 DEF Commissioned
  <2>3. <<fact[1]>> = fact
    BY <2>2
  <2>. QED
    BY <1>1, <2>2, <2>3 DEF Acted
<1>2. CASE req.op # "network"
  <2>1. fact = Identities(prepared)
    <3>0. req.op = CommitOp(event.call)
      BY DEF Commissioned
    <3>1. event.call.kind # "net"
      <4>1. SUFFICES ASSUME event.call.kind = "net" PROVE FALSE
        OBVIOUS
      <4>2. CommitOp(event.call) = "network"
        BY <4>1 DEF CommitOp, ByName
      <4>. QED
        BY <1>2, <3>0, <4>2
    <3>. QED
      BY <3>1 DEF Commissioned
  <2>2. CASE req.op = "entry"
    <3>1. \A i \in DOMAIN prepared : slot[req.toks[i]].name = prepared[i].identity
      BY <2>2, CommitTokens DEF Slotted
    <3>2. Acted = [i \in DOMAIN prepared |-> slot[req.toks[i]].name]
      BY <2>2, CommitTokens DEF Acted
    <3>. QED
      BY <2>1, <3>1, <3>2 DEF Identities
  <2>3. CASE req.op # "entry"
    <3>. DEFINE pinned(i) == CHOOSE p \in held : p.token = req.toks[i]
    <3>1. Acted = [i \in DOMAIN prepared |-> pinned(i).identity]
      BY <1>2, <2>3, CommitTokens DEF Acted
    <3>2. ASSUME NEW i \in DOMAIN prepared PROVE pinned(i) = prepared[i]
      <4>1. /\ prepared[i] \in held /\ prepared[i].token = req.toks[i]
            /\ \A p \in held : p.token = req.toks[i] => p = prepared[i]
        BY CommitTokens
      <4>. QED
        BY <4>1
    <3>. HIDE DEF pinned
    <3>. QED
      BY <2>1, <3>1, <3>2 DEF Identities
  <2>. QED
    BY <2>2, <2>3
<1>. QED
  BY <1>1, <1>2

\* What the broker knows of a destination is what it saw when it pinned it.
LEMMA ReplacedIsSeen ==
    ASSUME IInv, Pinning, Serving(Commits)
    PROVE  Replaced # {} <=> Seen
<1>0. prepared \in Seq(PreparedPath)
  BY DEF IInv, TypeOK, HandlerType
<1>1. CASE Len(prepared) = 2
  <2>1. 2 \in DOMAIN prepared
    BY <1>0, <1>1
  <2>2. prepared[2] \in held /\ \A p \in held : p.token = req.toks[2] <=> p = prepared[2]
    BY <2>1, CommitTokens
  <2>3. Len(req.toks) = 2
    BY <1>1, CommitTokens
  <2>. QED
    BY <1>1, <2>2, <2>3 DEF Replaced, Seen
<1>2. CASE Len(prepared) # 2
  BY <1>2, CommitTokens DEF Replaced, Seen
<1>. QED
  BY <1>1, <1>2

\* What a commit does is decided by the event it was commissioned with.
LEMMA CommitIsDecreed ==
    ASSUME IInv, Pinning, Slotted, Warrant, Serving(Commits), NEW replaces \in BOOLEAN
    PROVE  Decreed(Effect(replaces))
<1>1. PICK e : e = Effect(replaces)
  OBVIOUS
<1>2. /\ e.id = curId /\ e.args = Acted /\ e.replaces = replaces
      /\ e.moved <=> \/ \E i \in DOMAIN req.toks : slot[req.toks[i]].moved
                     \/ replaces # (Replaced # {})
  BY <1>1 DEF Effect
<1>3. PICK j \in DOMAIN trace : Commissioned(trace[j])
  BY DEF Warrant, Serving, Committing, Commits
<1>4. PICK event : event = trace[j]
  OBVIOUS
<1>5. PICK seen \in BOOLEAN : seen <=> Seen
  BY DEF Seen
<1>6. /\ event.id = curId /\ event.fact = fact
      /\ Authorized(curId, event.call, fact, seen)
  <2>1. event.id = curId /\ event.fact = fact /\ Authorized(curId, event.call, fact, Seen)
    BY <1>3, <1>4 DEF Commissioned
  <2>2. CASE seen
    BY <1>5, <2>1, <2>2 DEF Authorized, Exercises
  <2>3. CASE ~seen
    BY <1>5, <2>1, <2>3 DEF Authorized, Exercises
  <2>. QED
    BY <2>1, <2>2, <2>3
<1>7. ASSUME ~e.moved PROVE Decides(event, e)
  <2>1. Acted = fact
    BY <1>2, <1>3, <1>7, ActedIsFact
  <2>2. seen = replaces
    BY <1>2, <1>5, <1>7, ReplacedIsSeen
  <2>. QED
    BY <1>2, <1>6, <2>1, <2>2 DEF Decides
<1>8. ASSUME e.moved, ByName(event.call) PROVE Decides(event, e)
  BY <1>2, <1>6, <1>8 DEF Decides
<1>9. ASSUME ~ByName(event.call) PROVE Decides(event, e)
  <2>1. req.op # "entry" /\ event.call.kind # "rename"
    BY <1>3, <1>4, <1>9 DEF Commissioned, CommitOp, ByName
  <2>2. Acted = fact
    BY <1>3, <2>1, ActedIsFact
  <2>3. \A k : Exercises(event.call, k, replaces) = Exercises(event.call, k, seen)
    BY <2>1 DEF Exercises
  <2>4. Authorized(curId, event.call, fact, replaces)
    BY <1>6, <2>3 DEF Authorized
  <2>. QED
    BY <1>2, <1>6, <2>2, <2>4 DEF Decides
<1>. QED
  BY <1>1, <1>4, <1>7, <1>8, <1>9 DEF Decreed

\* What was performed was decided, whoever steps.
LEMMA DecidedStep ==
    ASSUME IInv, Protocol, Pinning, Slotted, Warrant, EffectIsDecided, [Next]_vars
    PROVE  EffectIsDecided'
<1>. USE DEF kernelVars, handlerVars, brokerVars, logVars, historyVars
<1>0. effects \in Seq(EffectRecord)
  BY DEF IInv, TypeOK, LogType
<1>1. \A id, operand, v : Granted(id, operand, v) => Granted(id, operand, v)'
  BY LogsGrow DEF Granted
<1>2. ASSUME NEW e, Decreed(e) PROVE Decreed(e)'
  <2>1. PICK j \in DOMAIN trace : Decides(trace[j], e)
    BY <1>2 DEF Decreed
  <2>2. PICK event : event = trace[j]
    OBVIOUS
  <2>3. j \in DOMAIN trace' /\ trace'[j] = event
    BY <2>2, LogsGrow
  <2>4. PICK seen \in BOOLEAN :
            /\ event.id = e.id
            /\ \/ event.fact = e.args /\ seen = e.replaces
               \/ e.moved /\ ByName(event.call)
            /\ Authorized(e.id, event.call, event.fact, seen)
    BY <2>1, <2>2 DEF Decides
  <2>5. Authorized(e.id, event.call, event.fact, seen)'
    BY <1>1, <2>4 DEF Authorized
  <2>6. Decides(event, e)'
    BY <2>4, <2>5 DEF Decides
  <2>. QED
    BY <2>3, <2>6 DEF Decreed
<1>3. CASE effects' = effects
  BY <1>2, <1>3 DEF EffectIsDecided, Decreed
<1>4. ASSUME NEW e, effects' = Append(effects, e), e.via = "broker" => Decreed(e)'
      PROVE  EffectIsDecided'
  <2>1. /\ Len(effects) \in Nat /\ DOMAIN effects = 1..Len(effects)
        /\ DOMAIN effects' = 1..(Len(effects) + 1)
        /\ \A i \in 1..Len(effects) : effects'[i] = effects[i]
        /\ effects'[Len(effects) + 1] = e
    BY <1>0, <1>4
  <2>2. ASSUME NEW i \in DOMAIN effects', effects'[i].via = "broker"
        PROVE  Decreed(effects[i])'
    <3>1. PICK d : d = effects'[i]
      OBVIOUS
    <3>2. CASE i \in 1..Len(effects)
      <4>1. Decreed(d)
        BY <2>1, <2>2, <3>1, <3>2 DEF EffectIsDecided, Decreed
      <4>. QED
        BY <1>2, <3>1, <4>1
    <3>3. CASE i \notin 1..Len(effects)
      <4>1. d = e
        BY <2>1, <2>2, <3>1, <3>3
      <4>. QED
        BY <1>4, <2>2, <3>1, <4>1
    <3>. QED
      BY <3>2, <3>3
  <2>. QED
    BY <2>2 DEF EffectIsDecided, Decreed
<1>5. CASE Tree
  <2>1. CASE effects' # effects
    <3>1. PICK t \in Thread : ExecuteContinued(t)
      BY <1>5, <2>1 DEF Tree, Trap, SignalCancel, Retrap, Rewrite, Die
    <3>. DEFINE e == [id |-> nid[t], thread |-> t, no |-> callno[t], via |-> "kernel",
                      args |-> mem[t], replaces |-> FALSE, moved |-> FALSE]
    <3>2. effects' = Append(effects, e) /\ e.via # "broker"
      BY <3>1 DEF ExecuteContinued
    <3>. HIDE DEF e
    <3>. QED
      BY <1>4, <3>2
  <2>. QED
    BY <1>3, <2>1
<1>6. CASE BrokerCommit
  <2>1. CASE \E replaces \in Replaces : effects' = Append(effects, Effect(replaces))
    <3>1. PICK replaces \in Replaces : effects' = Append(effects, Effect(replaces))
      BY <2>1
    <3>2. Serving(Commits) /\ replaces \in BOOLEAN
      BY <1>6 DEF BrokerCommit, Commits, Replaces
    <3>3. PICK e : e = Effect(replaces)
      OBVIOUS
    <3>4. Decreed(e)
      BY <3>2, <3>3, CommitIsDecreed
    <3>. QED
      BY <1>2, <1>4, <3>1, <3>3, <3>4
  <2>. QED
    BY <1>3, <1>6, <2>1, CommitPerforms
<1>7. CASE Quiet
  BY <1>3, <1>7 DEF Quiet
<1>8. CASE \/ \E t \in Thread : Recv(t)
           \/ Hangup \/ Send \/ AbortDeny \/ AbortKill \/ AbortClose \/ Crash
  BY <1>3, <1>8 DEF Recv, Hangup, Send, AbortDeny, AbortKill, AbortClose, Crash
<1>. QED
  BY <1>5, <1>6, <1>7, <1>8, QuietOrLoud DEF Loud

\* Behind EffectIsDecided and the refinement: what the handler has granted by
\* the time it may commit, which calls it hands back to the kernel, and that
\* every effect of the broker rests on such a grant.
DecisionInv == Warrant /\ Delegation /\ EffectIsDecided

\* It holds in every reachable state, whoever dies or fails.
LEMMA DecisionInvariance == Spec => []DecisionInv
<1>1. Init => DecisionInv
  BY DEF Init, NoReq, DecisionInv, Warrant, Cleared, Committing, Commits, Delegation,
         Answering, EffectIsDecided
<1>2. IInv /\ HandlingInv /\ PinInv /\ DecisionInv /\ [Next]_vars => DecisionInv'
  BY WarrantStep, DelegationStep, DecidedStep DEF DecisionInv, HandlingInv, PinInv, Pinning
<1>. QED
  BY <1>1, <1>2, Invariance, HandlingInvariance, PinInvariance, PTL DEF Spec

\* Every operation of the broker rests on the event of its own call, each of
\* whose accesses was granted for the identities it records.  Those are what was
\* operated on, whatever is swapped under the broker, if it operates on a pinned
\* target or a socket; for an entry under a pinned parent they are, unless
\* another process has moved that entry since it was looked up
\* (handle_fs_enforce, finalize_operand, commit_open, commit_mutation).
THEOREM EffectsAreDecided == Spec => []EffectIsDecided
<1>1. DecisionInv => EffectIsDecided
  BY DEF DecisionInv
<1>. QED
  BY <1>1, DecisionInvariance, PTL

-----------------------------------------------------------------------------
(***************************************************************************)
(* The notify loop implements the monitor of Mediation: its first state is *)
(* an initial state of the monitor and each of its steps is a step of the  *)
(* monitor or leaves it alone.                                             *)
(***************************************************************************)

(***************************************************************************)
(* Sequences given as functions.                                           *)
(***************************************************************************)

\* A function on 1..n is a sequence of length n.
LEMMA FunctionLen ==
    ASSUME NEW n \in Nat, NEW S, NEW s \in [1..n -> S]
    PROVE  s \in Seq(S) /\ Len(s) = n
<1>1. s \in Seq(S)
  BY SeqDef
<1>2. Len(s) \in Nat /\ DOMAIN s = 1..Len(s)
  BY <1>1, LenProperties
<1>3. 1..Len(s) = 1..n
  BY <1>2
<1>. QED
  BY <1>1, <1>2, <1>3, IntervalEnd

\* A longer function that agrees with a shorter one extends it by one element.
LEMMA GrowsByOne ==
    ASSUME NEW n \in Nat, NEW S, NEW old \in [1..n -> S], NEW new \in [1..(n + 1) -> S],
           \A i \in 1..n : new[i] = old[i]
    PROVE  /\ Monitor!Grows(old, new)
           /\ Monitor!Newest(new) = new[n + 1]
<1>1. old \in Seq(S) /\ Len(old) = n
  BY FunctionLen
<1>2. new \in Seq(S) /\ Len(new) = n + 1
  BY FunctionLen
<1>3. SubSeq(new, 1, n) \in Seq(S) /\ Len(SubSeq(new, 1, n)) = n
         /\ \A i \in 1..n : SubSeq(new, 1, n)[i] = new[i]
  BY <1>2
<1>4. SubSeq(new, 1, n) = old
  BY <1>1, <1>3, SeqEqual
<1>. QED
  BY <1>1, <1>2, <1>4 DEF Monitor!Grows, Monitor!Newest

-----------------------------------------------------------------------------
(***************************************************************************)
(* The steps of the loop as the monitor sees them.                         *)
(***************************************************************************)

\* The refinement mapping: the entry of an event, the act of an effect.
Entry(event) == [id |-> event.id, permits |-> Permits(event), operands |-> event.fact,
                 named |-> ByName(event.call), delegated |-> ~Brokered(event.call)]
ActOf(effect) == [id |-> effect.id, operands |-> effect.args, moved |-> effect.moved]
Entries == [i \in DOMAIN trace |-> Entry(trace[i])]
Deeds == [i \in DOMAIN effects |-> ActOf(effects[i])]
Halted == Aborting \/ pc \in Terminal

\* The monitor's ledger grows by the entry of the recorded event.
LEMMA EntriesGrow ==
    ASSUME trace \in Seq(EventRecord), NEW e, trace' = Append(trace, e)
    PROVE  /\ Monitor!Grows(Entries, Entries') /\ Monitor!Newest(Entries') = Entry(e)
<1>. DEFINE n == Len(trace)
            S == {Entry(trace'[i]) : i \in DOMAIN trace'}
<1>1. /\ n \in Nat /\ DOMAIN trace = 1..n /\ DOMAIN trace' = 1..(n + 1)
      /\ \A i \in 1..n : trace'[i] = trace[i]
      /\ trace'[n + 1] = e
  BY AppendProperties, LenProperties
<1>2. Entries' = [i \in 1..(n + 1) |-> Entry(trace'[i])]
  BY <1>1 DEF Entries, Entry, Permits, Brokered, ByName
<1>3. Entries = [i \in 1..n |-> Entry(trace'[i])]
  BY <1>1 DEF Entries
<1>4. Entries' \in [1..(n + 1) -> S] /\ Entries \in [1..n -> S]
  BY <1>1, <1>2, <1>3
<1>5. \A i \in 1..n : Entries'[i] = Entries[i]
  BY <1>1, <1>2, <1>3
<1>6. Entries'[n + 1] = Entry(e)
  BY <1>1, <1>2
<1>. HIDE DEF n, S
<1>. QED
  BY <1>1, <1>4, <1>5, <1>6, GrowsByOne

\* The monitor's acts grow by the act of the new effect.
LEMMA DeedsGrow ==
    ASSUME effects \in Seq(EffectRecord), NEW e, effects' = Append(effects, e)
    PROVE  /\ Monitor!Grows(Deeds, Deeds') /\ Monitor!Newest(Deeds') = ActOf(e)
<1>. DEFINE n == Len(effects)
            S == {ActOf(effects'[i]) : i \in DOMAIN effects'}
<1>1. /\ n \in Nat /\ DOMAIN effects = 1..n /\ DOMAIN effects' = 1..(n + 1)
      /\ \A i \in 1..n : effects'[i] = effects[i]
      /\ effects'[n + 1] = e
  BY AppendProperties, LenProperties
<1>2. Deeds' = [i \in 1..(n + 1) |-> ActOf(effects'[i])]
  BY <1>1 DEF Deeds, ActOf
<1>3. Deeds = [i \in 1..n |-> ActOf(effects'[i])]
  BY <1>1 DEF Deeds
<1>4. Deeds' \in [1..(n + 1) -> S] /\ Deeds \in [1..n -> S]
  BY <1>1, <1>2, <1>3
<1>5. \A i \in 1..n : Deeds'[i] = Deeds[i]
  BY <1>1, <1>2, <1>3
<1>6. Deeds'[n + 1] = ActOf(e)
  BY <1>1, <1>2
<1>. HIDE DEF n, S
<1>. QED
  BY <1>1, <1>4, <1>5, <1>6, GrowsByOne

\* What a step may add to the histories.
LEMMA HistorySteps ==
    ASSUME [Next]_vars
    PROVE  \/ Record
           \/ \E t \in Thread : ExecuteContinued(t)
           \/ BrokerCommit
           \/ UNCHANGED <<trace, effects>>
<1>. USE DEF vars, logVars, historyVars
<1>1. CASE Tree
  BY <1>1 DEF Tree, Trap, SignalCancel, Retrap, Rewrite, Die
<1>2. CASE Supervisor
  BY <1>2 DEF Supervisor, Recv, Hangup, BracketOpen, Gather, BracketClose, WalkTree,
     PreparePath, RecvPrepared, Decide, Prompt, Commit, RecvResult, Release, RecvReleased,
     Send, AwaitFails, AbortDeny, AbortKill, AbortClose
<1>3. CASE BrokerStep \/ Fault \/ UNCHANGED vars
  BY <1>3 DEF BrokerStep, BrokerPrepare, BrokerRelease, BrokerStops, Fault, RecordFails,
     KernelFails, PollFails, Crash, BrokerDies
<1>. QED
  BY <1>1, <1>2, <1>3 DEF Next, Finished

\* A loop that is over or on its way out does not come back.
LEMMA StaysHalted ==
    ASSUME IInv, Failed, Halted, [Next]_vars
    PROVE  Halted'
<1>. USE DEF vars, kernelVars, handlerVars, brokerVars, logVars, historyVars, Halted, Aborting
<1>0. pc \in {"abort", "kill", "close", "aborted", "done", "crashed"}
  BY DEF Failed, Terminal
<1>1. CASE Tree \/ BrokerStep \/ BrokerDies \/ UNCHANGED vars
  <2>1. UNCHANGED <<pc, writer>>
    BY <1>1 DEF Tree, Trap, SignalCancel, Retrap, Rewrite, ExecuteContinued, Die, BrokerStep,
       BrokerPrepare, BrokerRelease, BrokerCommit, BrokerStops, BrokerDies
  <2>. QED
    BY <2>1
<1>2. CASE AbortDeny \/ AbortKill \/ AbortClose \/ Crash
  BY <1>2 DEF AbortDeny, AbortKill, AbortClose, Crash, Terminal
<1>3. CASE Supervisor
  BY <1>0, <1>2, <1>3 DEF Supervisor, Recv, Hangup, BracketOpen, Gather, BracketClose,
     WalkTree, PreparePath, RecvPrepared, Decide, Prompt, Record, Commit, RecvResult, Release,
     RecvReleased, Send, AwaitFails, Awaiting
<1>4. CASE RecordFails \/ KernelFails \/ PollFails
  BY <1>0, <1>4 DEF RecordFails, KernelFails, PollFails, Awaiting
<1>. QED
  BY <1>1, <1>2, <1>3, <1>4 DEF Next, Fault, Finished

\* Writing an event is a decision of the monitor.
LEMMA RecordDecides ==
    ASSUME IInv, Ledger, Record
    PROVE  Monitor!Decide
<1>0. /\ pc = "record" /\ writer = "ok" /\ writer' = "ok" /\ effects' = effects
      /\ pc' \in {"valid3", "release", "send"} /\ trace' = Append(trace, Event)
      /\ trace \in Seq(EventRecord)
  BY DEF Record, historyVars, IInv, TypeOK, LogType
<1>1. Halted = FALSE /\ Halted' = FALSE
  BY <1>0 DEF Halted, Aborting, Terminal
<1>2. PICK e : e = Event
  OBVIOUS
<1>3. Monitor!Grows(Entries, Entries') /\ Monitor!Newest(Entries') = Entry(e)
  BY <1>0, <1>2, EntriesGrow
<1>4. Entry(e).id = curId
  BY <1>2 DEF Entry, Event
<1>5. \A i \in DOMAIN Entries : Entries[i].id < Monitor!Newest(Entries').id
  BY <1>0, <1>3, <1>4 DEF Entries, Entry, Ledger, Unrecorded
<1>6. Deeds' = Deeds
  BY <1>0 DEF Deeds, ActOf
<1>. QED
  BY <1>1, <1>3, <1>5, <1>6 DEF Monitor!Decide, Entries, Entry, Deeds, ActOf, Halted

\* An effect is an act of the monitor when an event covers it and none of the
\* earlier ones is of the same notification.
LEMMA EffectActs ==
    ASSUME IInv, NEW e, effects' = Append(effects, e), UNCHANGED <<trace, pc, writer>>,
           NEW j \in DOMAIN trace, trace[j].id = e.id, Permits(trace[j]),
           \/ ~Brokered(trace[j].call)
           \/ trace[j].fact = e.args
           \/ ByName(trace[j].call) /\ e.moved,
           \A i \in DOMAIN effects : effects[i].id # e.id
    PROVE  Monitor!Act
<1>0. effects \in Seq(EffectRecord)
  BY DEF IInv, TypeOK, LogType
<1>1. Monitor!Grows(Deeds, Deeds') /\ Monitor!Newest(Deeds') = ActOf(e)
  BY <1>0, DeedsGrow
<1>2. j \in DOMAIN Entries /\ Monitor!Covers(Entries[j], ActOf(e))
  BY DEF Entries, Entry, ActOf, Monitor!Covers
<1>3. \A i \in DOMAIN Deeds : Deeds[i].id # ActOf(e).id
  BY DEF Deeds, ActOf
<1>4. Entries' = Entries /\ Halted' = Halted
  BY DEF Entries, Entry, Permits, Brokered, ByName, Halted, Aborting
<1>. QED
  BY <1>1, <1>2, <1>3, <1>4 DEF Monitor!Act, Entries, Entry, Deeds, ActOf, Halted

\* The kernel runs what was handed back to it, once.
LEMMA ContinuedActs ==
    ASSUME IInv, Once, Delegation, NEW t \in Thread, ExecuteContinued(t)
    PROVE  Monitor!Act
<1>. DEFINE e == [id |-> nid[t], thread |-> t, no |-> callno[t], via |-> "kernel",
                  args |-> mem[t], replaces |-> FALSE, moved |-> FALSE]
<1>1. /\ effects' = Append(effects, e) /\ UNCHANGED <<trace, pc, writer>>
      /\ tstate[t] = "exec" /\ e.id = nid[t]
  BY DEF ExecuteContinued, logVars
<1>. HIDE DEF e
<1>2. PICK j \in DOMAIN trace :
         trace[j].id = nid[t] /\ Permits(trace[j]) /\ ~Brokered(trace[j].call)
  BY <1>1 DEF Delegation, Delegated
<1>3. \A i \in DOMAIN effects : effects[i].id # e.id
  BY <1>1 DEF Once, Unspent
<1>. QED
  BY <1>1, <1>2, <1>3, EffectActs

\* The broker performs what was recorded, on the operands that were recorded or
\* on the entries that moved away from them.
LEMMA CommitActs ==
    ASSUME IInv, Once, Pinning, Slotted, Warrant, NEW replaces,
           Serving(Commits), effects' = Append(effects, Effect(replaces)),
           UNCHANGED <<trace, pc, writer>>
    PROVE  Monitor!Act
<1>1. PICK j \in DOMAIN trace : Commissioned(trace[j])
  BY DEF Warrant, Serving, Committing
<1>2. PICK e : e = Effect(replaces)
  OBVIOUS
<1>3. /\ e.id = curId /\ e.args = Acted
      /\ (\E i \in DOMAIN req.toks : slot[req.toks[i]].moved) => e.moved
  BY <1>2 DEF Effect
<1>4. trace[j].id = curId /\ trace[j].fact = fact /\ Permits(trace[j])
  BY <1>1 DEF Commissioned
<1>5. trace[j].fact = e.args \/ (ByName(trace[j].call) /\ e.moved)
  <2>1. ~ByName(trace[j].call) => req.op # "entry"
    BY <1>1 DEF Commissioned, CommitOp
  <2>. QED
    BY <1>1, <1>3, <1>4, <2>1, ActedIsFact
<1>6. \A i \in DOMAIN effects : effects[i].id # e.id
  BY <1>3 DEF Once, Carried, Serving, Committing
<1>. QED
  BY <1>2, <1>3, <1>4, <1>5, <1>6, EffectActs

\* Everything else is none of the monitor's concern, or stops it.
LEMMA OtherHalts ==
    ASSUME IInv, Failed, [Next]_vars, UNCHANGED <<trace, effects>>
    PROVE  [Monitor!Next]_(Monitor!vars)
<1>1. Entries' = Entries /\ Deeds' = Deeds
  BY DEF Entries, Entry, Permits, Brokered, ByName, Deeds, ActOf
<1>2. Halted \in BOOLEAN /\ Halted' \in BOOLEAN /\ (Halted => Halted')
  BY StaysHalted DEF Halted
<1>3. CASE Halted' <=> Halted
  <2>1. Halted' = Halted
    BY <1>2, <1>3
  <2>. QED
    BY <1>1, <2>1 DEF Monitor!vars, Entries, Entry, Deeds, ActOf, Halted
<1>4. CASE ~Halted /\ Halted'
  <2>1. ~Halted /\ Halted' = TRUE
    BY <1>2, <1>4
  <2>. QED
    BY <1>1, <2>1 DEF Monitor!Next, Monitor!Halt, Entries, Entry, Deeds, ActOf, Halted
<1>. QED
  BY <1>2, <1>3, <1>4

\* Every step of the notify loop, the broker and the supervised tree is a step
\* of the monitor or changes nothing it sees, for every policy, mode, number of
\* threads and combination of faults, a process outside the tree that moves the
\* entries the broker names among them (run_loop, handle_notification,
\* BrokerState).
THEOREM LoopImplementsMediation == Spec => ImplementsMediation
<1>1. Init => Monitor!Init
  <2>. SUFFICES ASSUME Init PROVE Monitor!Init
    OBVIOUS
  <2>1. trace = <<>> /\ effects = <<>> /\ writer = "ok" /\ pc = "poll"
    BY DEF Init
  <2>2. Entries = <<>> /\ Deeds = <<>> /\ Halted = FALSE
    BY <2>1 DEF Entries, Deeds, Halted, Aborting, Terminal
  <2>. QED
    BY <2>2 DEF Monitor!Init, Entries, Entry, Deeds, ActOf, Halted
<1>2. ASSUME IInv, Failed, HandlingInv, PinInv, DecisionInv, [Next]_vars
      PROVE  [Monitor!Next]_(Monitor!vars)
  <2>0. Ledger /\ Once /\ Pinning /\ Slotted /\ Warrant /\ Delegation
    BY <1>2 DEF HandlingInv, PinInv, Pinning, DecisionInv
  <2>1. CASE Record
    BY <1>2, <2>0, <2>1, RecordDecides DEF Monitor!Next
  <2>2. ASSUME NEW t \in Thread, ExecuteContinued(t) PROVE [Monitor!Next]_(Monitor!vars)
    BY <1>2, <2>0, <2>2, ContinuedActs DEF Monitor!Next
  <2>3. CASE BrokerCommit
    <3>1. Serving(Commits) /\ UNCHANGED <<trace, pc, writer>>
      BY <2>3 DEF BrokerCommit, Commits, logVars
    <3>2. CASE effects' = effects
      BY <1>2, <3>1, <3>2, OtherHalts
    <3>3. ASSUME NEW replaces, effects' = Append(effects, Effect(replaces))
          PROVE  [Monitor!Next]_(Monitor!vars)
      BY <1>2, <2>0, <3>1, <3>3, CommitActs DEF Monitor!Next
    <3>. QED
      BY <2>3, <3>2, <3>3, CommitPerforms
  <2>4. CASE UNCHANGED <<trace, effects>>
    BY <1>2, <2>4, OtherHalts
  <2>. QED
    BY <1>2, <2>1, <2>2, <2>3, <2>4, HistorySteps
<1>. QED
  BY <1>1, <1>2, Invariance, FailedInvariance, HandlingInvariance, PinInvariance,
     DecisionInvariance, PTL DEF Spec, ImplementsMediation, Monitor!Spec

=============================================================================
