---------------------------- MODULE PolicyEngine ----------------------------
(***************************************************************************)
(* The pure decision core of Leash: the policy engine (policy/engine.rs),  *)
(* the host rules it consults (policy/host.rs) and the way the notify loop *)
(* turns evaluations and one operator answer into the decision it records  *)
(* and the response it sends (supervisor/run.rs).                          *)
(*                                                                         *)
(* Data is abstract.  A path glob, a binary glob, an address or CIDR rule  *)
(* is the set of values it matches; a hostname is an opaque name whose     *)
(* addresses are given by the resolver cache.  A policy is a record of     *)
(* three rule tables, each a sequence in file order, and the set of paths  *)
(* under the workspace root.                                               *)
(***************************************************************************)
EXTENDS Naturals, Sequences

Access == {"read", "write", "create", "delete"}
Verdict == {"allow", "deny", "ask"}
Resolution == {"none", "approved", "denied", "timed_out", "unattended"}
Mode == {"enforce", "record_only"}

\* A hostname a rule or a request does not have.
NoName == "none"
\* A net rule without a port constraint: a value above every u16.
AnyPort == 65536

\* The smallest index of a non-empty set of indices.
FirstOf(S) == CHOOSE i \in S : \A j \in S : i <= j

-----------------------------------------------------------------------------
(***************************************************************************)
(* Rule predicates.                                                        *)
(***************************************************************************)

\* mode_intersects: some requested access is governed by the rule.
mode_intersects(modes, access) == modes \cap access # {}

\* Glob::is_match: the pattern as the set of texts it matches whole.
is_match(glob, text) == text \in glob

FsMatches(rule, request) ==
    /\ is_match(rule.path, request.path)
    /\ mode_intersects(rule.mode, request.access)

\* matches_ip: the addresses of a literal, a CIDR block or `*`; a name rule
\* has none.
matches_ip(rule, ip) == ip \in rule.ips

\* matches_hostname: an exact name rule matches the name it holds.  (`*` has
\* matched the address before; a suffix rule does not start an enforce run.)
matches_hostname(rule, name) == name # NoName /\ name = rule.name

\* net_matches: the port constraint, then the address or the supplied name.
net_matches(rule, request) ==
    /\ rule.port \in {AnyPort, request.port}
    /\ \/ matches_ip(rule, request.ip)
       \/ matches_hostname(rule, request.hostname)

ExecMatches(rule, request) == is_match(rule.binary, request.binary)

Matches(family, rule, request) ==
    CASE family = "fs"   -> FsMatches(rule, request)
      [] family = "net"  -> net_matches(rule, request)
      [] family = "exec" -> ExecMatches(rule, request)

\* resolved_hostname: the name of the first exact-host rule whose resolved
\* addresses contain the destination, or none.
resolved_hostname(policy, cache, ip) ==
    LET hits == {i \in DOMAIN policy.net :
                    /\ policy.net[i].name # NoName
                    /\ ip \in cache[policy.net[i].name]}
    IN  IF hits = {} THEN NoName ELSE policy.net[FirstOf(hits)].name

-----------------------------------------------------------------------------
(***************************************************************************)
(* Policy::first_match and Policy::evaluate.  The request carries its      *)
(* family, which selects the table.                                        *)
(***************************************************************************)

\* path_under_workspace: the root itself or anything below it.
path_under_workspace(policy, path) == path \in policy.workspace

NoMatch == [action |-> "none", matched |-> <<"none", 0>>]

first_match(policy, request) ==
    LET table == policy[request.family]
        hits  == {i \in DOMAIN table : Matches(request.family, table[i], request)}
    IN  IF hits # {}
        THEN [action  |-> table[FirstOf(hits)].action,
              matched |-> <<request.family, FirstOf(hits)>>]
        ELSE IF request.family = "fs" /\ path_under_workspace(policy, request.path)
             THEN [action |-> "allow", matched |-> <<"workspace", 0>>]
             ELSE NoMatch

evaluate(policy, request, mode) ==
    LET hit     == first_match(policy, request)
        verdict == IF hit = NoMatch THEN "deny" ELSE hit.action
        matched == IF hit = NoMatch THEN <<mode, 0>> ELSE hit.matched
    IN  [decision   |-> IF mode = "enforce" THEN verdict ELSE "allow",
         matched    |-> matched,
         would_deny |-> mode = "record_only" /\ verdict = "deny"]

-----------------------------------------------------------------------------
(***************************************************************************)
(* From evaluations to the recorded and the answered decision (run.rs).    *)
(* A resolved decision keeps what the event says apart from what the child *)
(* is told.                                                                *)
(***************************************************************************)

ResolvedDecision ==
    [event : Verdict, response : {"allow", "deny"}, resolution : Resolution]

fixed_decision(d) == [event |-> d, response |-> d, resolution |-> "none"]

\* Mutant of finalize_decision: only an explicit no refuses an ask.
FinalizeUnlessDenied(decision, resolution) ==
    IF decision # "ask"
    THEN fixed_decision(decision)
    ELSE [event |-> "ask", resolution |-> resolution,
          response |-> IF resolution = "denied" THEN "deny" ELSE "allow"]

finalize_decision(decision, resolution) ==
    IF decision # "ask"
    THEN fixed_decision(decision)
    ELSE [event      |-> "ask",
          response   |-> IF resolution = "approved" THEN "allow" ELSE "deny",
          resolution |-> IF resolution = "none" THEN "denied" ELSE resolution]

\* Mutant of finalize_operand: the first evaluation speaks for all.
FinalizeFirst(decisions, resolution) ==
    IF decisions = <<>> THEN fixed_decision("deny")
    ELSE finalize_decision(decisions[1], resolution)

\* finalize_operand over all required accesses, the primary operand's before
\* the secondary's: the first refusal decides, else the first evaluation;
\* an empty list of requirements is refused.
finalize_operand(decisions, resolution) ==
    LET final  == [i \in DOMAIN decisions |->
                      finalize_decision(decisions[i], resolution)]
        denied == {i \in DOMAIN final : final[i].response # "allow"}
    IN  IF decisions = <<>> THEN fixed_decision("deny")
        ELSE IF denied # {} THEN final[FirstOf(denied)]
        ELSE final[1]

\* What an event says of whether its action was permitted.
Permits(event) ==
    \/ event.event = "allow"
    \/ event.event = "ask" /\ event.resolution = "approved"
=============================================================================
