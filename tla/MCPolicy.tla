------------------------------ MODULE MCPolicy ------------------------------
(***************************************************************************)
(* A policy file, the run prepared from it and one operation decided under *)
(* it, by the engine and by the Landlock ruleset of the same policy: every *)
(* written network rule with a second rule after it, every filesystem rule *)
(* with a second one after it over every shape of a small tree, every      *)
(* executable rule, and every list of required accesses with every answer  *)
(* of the operator.                                                        *)
(*                                                                         *)
(* The tree: directories / and /w (the workspace) with the file /w/f, and  *)
(* /d, in which x is missing, a file or a directory that may hold y.       *)
(***************************************************************************)
EXTENDS PolicyFile

CONSTANT
    MaxRequired  \* bound: required accesses of a call

\* The addresses below are addresses, those of the resolver no mapped ones.
ASSUME BoundsAssumption ==
    /\ MaxRequired \in Nat
    /\ V4Bits >= 2 /\ MappedHead # 0

VARIABLES
    raw,         \* the policy file
    resolver,    \* what each host name resolves to
    tree, abi,   \* the file system and the Landlock version at the start
    replaced,    \* the objects replaced since, under the same name
    stage,       \* file, refused, running
    query, verdict, kernel  \* the operation, the engine's decision, the kernel's

vars == <<raw, resolver, tree, abi, replaced, stage, query, verdict, kernel>>

-----------------------------------------------------------------------------

Names == {"a", "b"}
Ports == {0, 80, 443}

Cidr(family, n, prefix) == [shape |-> "cidr", addr |-> <<family, n>>, prefix |-> prefix]
Ip(family, n) == [shape |-> "ip", addr |-> <<family, n>>]
Exact(name) == [shape |-> "exact", name |-> name]
AnyHost == [shape |-> "any"]

\* Every shape; the V6 addresses from 4 on are the mapped ones.
Hosts ==
    {AnyHost, BadHost, [shape |-> "suffix"], Ip("v4", 1), Ip("v6", 1), Ip("v6", 5)}
    \cup {Exact(n) : n \in Names}
    \cup {Cidr("v4", 2, p) : p \in 0 .. V4Bits + 1}
    \cup {Cidr("v6", n, p) : n \in {2, 6}, p \in 0 .. V6Bits}

NetRule(hosts, ports, actions) == [host : hosts, port : ports, action : actions]
NetTables ==
    {<<r>> : r \in NetRule(Hosts, {AnyPort, 0, 80}, Verdict)}
    \cup {<<r, s>> : r \in NetRule(Hosts, {AnyPort, 80}, {"allow", "deny"}),
                     s \in NetRule({AnyHost, Exact("a"), Exact("b")}, {AnyPort, 80},
                                   {"allow", "ask"})}

\* Two names may have addresses in common.
Resolvers == [Names -> SUBSET {<<"v4", 1>>, <<"v6", 1>>}]

Root == <<>>
D == <<"d">>
X == <<"d", "x">>
Y == <<"d", "x", "y">>
W == <<"w">>
F == <<"w", "f">>
Paths == {Root, D, X, Y, W, F}

\* An exact path, `p/**`, `p/*`, and a pattern that compiles although no
\* canonical path fits it, such as `/d//x`: the root cut from it is a place still.
Globs ==
    {BadGlob}
    \cup {[matched |-> {}, root |-> p] : p \in {D, X}}
    \cup {[matched |-> {p}, root |-> p] : p \in {D, X, Y}}
    \cup {[matched |-> {q \in Paths : IsPrefix(p, q)}, root |-> p] : p \in {D, X, Y}}
    \cup {[matched |-> {q \in Paths : q # Root /\ Front(q) = p}, root |-> p] : p \in {D, X}}
WorkspaceGlob == [matched |-> {W, F}, root |-> W]

FsRule(globs, modes, actions) == [path : globs, mode : modes, action : actions]
FsRules == FsRule(Globs, {{}, Access} \cup {{a} : a \in Access}, Verdict)
LaterRules == FsRule({[matched |-> {D, X, Y}, root |-> D]},
                     {{"write"}, {"create", "delete"}}, {"allow", "deny"})
FsTables == {<<r>> : r \in FsRules} \cup {<<r, s>> : r \in FsRules, s \in LaterRules}
ExecTables ==
    {<<[binary |-> g, action |-> a]>> : g \in Globs, a \in Verdict}

Trees ==
    {t \in UNION {[nodes -> {"file", "dir"}] :
                      nodes \in {{Root, D, W, F}, {Root, D, W, F, X}, Paths}} :
        /\ t[Root] = "dir" /\ t[D] = "dir" /\ t[W] = "dir" /\ t[F] = "file"
        /\ Y \in DOMAIN t => t[X] = "dir" /\ t[Y] = "file"}

File(version, fs, net, exec) ==
    [schema_version |-> version, fs |-> fs, net |-> net, exec |-> exec]

SmallTree == CHOOSE t \in Trees : X \notin DOMAIN t
Files ==
    {File(1, <<>>, net, <<>>) : net \in NetTables}
    \cup {File(1, fs, <<>>, <<>>) : fs \in FsTables}
    \cup {File(1, <<>>, <<>>, exec) : exec \in ExecTables}
    \cup {File(2, <<>>, <<>>, <<>>), File(1, <<>>, <<>>, <<>>)}

NoQuery == <<"none">>

\* The tree plays a part for the filesystem tables, the resolver for the
\* network tables.
Init ==
    /\ raw \in Files
    /\ resolver \in Resolvers /\ (raw.net = <<>> => \A n \in Names : resolver[n] = {})
    /\ tree \in Trees /\ (raw.net # <<>> => tree = SmallTree)
    /\ abi \in {2, 3, 4} /\ (raw.net # <<>> => abi # 3)
    /\ replaced = {} /\ stage = "file"
    /\ query = NoQuery /\ verdict = fixed_decision("deny") /\ kernel = FALSE

-----------------------------------------------------------------------------

Policy == parse(raw, WorkspaceGlob)
Hull == derive_hull(Policy, abi)
\* The tree of the start: a replaced object has the kind of the one before.
Ruleset == prepare_ruleset(tree, Hull)

\* prepare_enforcement: load, resolve, derive, build.
Prepare ==
    /\ stage = "file"
    /\ stage' = IF Starts(raw, resolver) /\ Ruleset.built THEN "running" ELSE "refused"
    /\ UNCHANGED <<raw, resolver, tree, abi, replaced, query, verdict, kernel>>

\* A file is written anew and renamed over the old one, as editors do.
Replace ==
    /\ stage = "running" /\ query = NoQuery /\ raw.fs # <<>>
    /\ \E p \in {X, Y} \cap DOMAIN tree :
          p \notin replaced /\ tree[p] = "file" /\ replaced' = replaced \cup {p}
    /\ UNCHANGED <<raw, resolver, tree, abi, stage, query, verdict, kernel>>

Decide(request) == finalize_decision(evaluate(Policy, request, "enforce").decision, "approved")

\* One TCP destination, as the child wrote it.
Connect ==
    /\ stage = "running" /\ query = NoQuery /\ raw.net # <<>>
    /\ \E written \in Addresses, port \in Ports :
          LET ip == parse_sockaddr(written)
          IN  /\ query' = <<"net", written, port>>
              /\ verdict' = Decide([family |-> "net", ip |-> ip, port |-> port,
                                    hostname |-> resolved_hostname(Policy, resolver, ip)])
              /\ kernel' = KernelPermitsTcp(Ruleset, Hull, port)
    /\ UNCHANGED <<raw, resolver, tree, abi, replaced, stage>>

\* One access to an existing path, or the making of a missing one.
Touch ==
    /\ stage = "running" /\ query = NoQuery /\ raw.net = <<>>
    /\ \E path \in Paths \ {Root}, access \in Access \cup {"exec"} :
          /\ (access = "create") <=> path \notin DOMAIN tree
          /\ access = "create" => Front(path) \in DOMAIN tree /\ tree[Front(path)] = "dir"
          /\ access \in {"write", "exec"} => tree[path] = "file"
          /\ query' = <<"path", path, access>>
          /\ verdict' = Decide(IF access = "exec"
                               THEN [family |-> "exec", binary |-> path]
                               ELSE [family |-> "fs", path |-> path, access |-> {access}])
          /\ kernel' = KernelPermits(Ruleset, Hull, tree, replaced, access, path)
    /\ UNCHANGED <<raw, resolver, tree, abi, replaced, stage>>

\* One held call with several required accesses; the operator is asked when
\* one of them is an ask.
Require ==
    /\ stage = "running" /\ query = NoQuery
    /\ raw = File(1, <<>>, <<>>, <<>>) /\ tree = SmallTree /\ abi = 4
    /\ \E decisions \in SeqOf(Verdict, MaxRequired), answer \in Resolution :
          /\ (answer = "none") <=> \A i \in DOMAIN decisions : decisions[i] # "ask"
          /\ query' = <<"required", decisions, answer>>
          /\ verdict' = finalize_operand(decisions, answer)
    /\ UNCHANGED <<raw, resolver, tree, abi, replaced, stage, kernel>>

Answered == (stage = "refused" \/ query # NoQuery) /\ UNCHANGED vars

Next == Prepare \/ Replace \/ Connect \/ Touch \/ Require \/ Answered

Spec == Init /\ [][Next]_vars

-----------------------------------------------------------------------------
(***************************************************************************)
(* What a written network rule says of a destination.                      *)
(***************************************************************************)

Bit(n, k) == (n \div 2^k) % 2
AgreeOn(a, b, width, prefix) ==
    \A k \in width - prefix .. width - 1 : Bit(a, k) = Bit(b, k)

\* The V6 spelling of a V4 destination.
AsMapped(ip) == <<"v6", MappedHead * 2^V4Bits + ip[2]>>

\* An address block speaks of the destinations of its family; a block of mapped
\* addresses of the V4 ones, which it spells in V6.
BlockNames(addr, prefix, written) ==
    LET ip       == normalize_ip(written)
        spelling == IF ip[1] = "v4" /\ IsMapped(addr) THEN AsMapped(ip) ELSE ip
    IN  /\ addr[1] = spelling[1]
        /\ AgreeOn(addr[2], spelling[2], Widths[addr[1]], prefix)

HostNames(host, written) ==
    CASE host.shape = "any"   -> TRUE
      [] host.shape = "exact" -> normalize_ip(written) \in resolver[host.name]
      [] host.shape = "ip"    -> BlockNames(host.addr, Widths[host.addr[1]], written)
      [] host.shape = "cidr"  -> BlockNames(host.addr, host.prefix, written)
      [] OTHER                -> FALSE

\* The first written rule, in file order, whose port admits the destination and
\* whose host names it decides; without one the destination is denied.
DecidedByFirst(written, port) ==
    LET Applies(r) == r.port \in {AnyPort, port} /\ HostNames(r.host, written)
    IN  \/ /\ \A i \in DOMAIN raw.net : ~Applies(raw.net[i])
           /\ verdict.event = "deny"
        \/ \E i \in DOMAIN raw.net :
              /\ Applies(raw.net[i]) /\ \A j \in 1..(i - 1) : ~Applies(raw.net[j])
              /\ verdict.event = raw.net[i].action

\* The rule is for a name, and the destination is one of its addresses.
NamedIn(i, written) ==
    raw.net[i].host.shape = "exact" /\ HostNames(raw.net[i].host, written)

\* The destination is an address of two names of the file.
SharedAddress(written) ==
    \E i, j \in DOMAIN raw.net :
        /\ NamedIn(i, written) /\ NamedIn(j, written)
        /\ raw.net[i].host.name # raw.net[j].host.name

\* However rule and destination spell an address, the first written rule that
\* applies to a destination decides it, unless two names of the file have the
\* address (HostRule::parse, normalize_ip, resolved_hostname, net_matches).
HostRulesApply ==
    query[1] = "net" =>
        DecidedByFirst(query[2], query[3]) \/ SharedAddress(query[2])

\* The same of every destination, as policy.md section 2.2 has it: "A hostname
\* rule is enforced by the supervisor resolving the rule's name itself [...] and
\* matching the child's destination IP against the resolved set".
\* resolved_hostname supplies the first name that has the address and no other.
EveryNameApplies == query[1] = "net" => DecidedByFirst(query[2], query[3])

\* The address belongs to the name of an earlier rule too.
Eclipsed(i, written) ==
    \E j \in 1..(i - 1) :
        NamedIn(j, written) /\ raw.net[i].host.name # raw.net[j].host.name

\* A network rule of a run that starts can decide some destination: port 0, a bad
\* host, a suffix and a name without an address keep the run from starting.  The
\* exception is a name of which every address is an earlier name's too
\* (Policy::parse, resolve_policy_hosts, resolved_hostname).
NoDeadNetRule ==
    (stage = "running" /\ query = NoQuery) =>
        \A i \in DOMAIN raw.net :
            \/ \E written \in Addresses, port \in Ports \ {0} :
                  LET ip == parse_sockaddr(written)
                  IN  net_matches(Policy.net[i],
                         [ip |-> ip, port |-> port,
                          hostname |-> resolved_hostname(Policy, resolver, ip)])
            \/ /\ \E written \in Addresses : NamedIn(i, written)
               /\ \A written \in Addresses : NamedIn(i, written) => Eclipsed(i, written)

\* A call goes ahead exactly when every access it requires is allowed or was
\* asked about and approved, one answer covering them all, and the event says
\* that it was permitted exactly then (finalize_operand).
JointDecision ==
    query[1] = "required" =>
        /\ (verdict.response = "allow") <=>
              /\ query[2] # <<>>
              /\ \A i \in DOMAIN query[2] :
                    \/ query[2][i] = "allow"
                    \/ query[2][i] = "ask" /\ query[3] = "approved"
        /\ Permits(verdict) <=> verdict.response = "allow"

-----------------------------------------------------------------------------
(***************************************************************************)
(* The two layers: the hull is the coarse one and must leave the decision  *)
(* to the engine.                                                          *)
(***************************************************************************)

\* policy.md section 6: "Landlock must not deny what the policy allows or may
\* allow."  Said of every access, of the launch too: a policy file that loads
\* and resolves gives a ruleset, and what the engine permits under it the kernel
\* permits (derive_hull, anchor_rights, prepare_ruleset).
HullNeverDenies ==
    /\ stage = "refused" => ~Starts(raw, resolver)
    /\ query[1] \in {"net", "path"} /\ verdict.response = "allow" => kernel

\* Does a grant that could permit the access start at the object itself?
RootedAt(path, access) ==
    \/ path = Policy.workspace_root
    \/ \E i \in DOMAIN Policy.fs :
          Widens(Policy.fs[i]) /\ access \in Policy.fs[i].mode /\ Policy.fs[i].root = path

\* The hull leaves the decision to the engine for everything at or beneath a
\* granted root, for every tree, with these exceptions: removing the very
\* object a rule names, which is a right of its parent; an object replaced
\* since the ruleset was built; port 0 (derive_hull, deepest_existing_ancestor,
\* derive_net_grant).
HullCovers ==
    /\ (query[1] = "path" /\ verdict.response = "allow") =>
          \/ kernel
          \/ query[3] = "delete" /\ RootedAt(query[2], "delete")
          \/ query[2] \in replaced
    /\ (query[1] = "net" /\ verdict.response = "allow" /\ query[3] # 0) => kernel

\* No boundary is left to one layer silently: when a written rule refuses a write
\* or a destination and the kernel of this ABI could not have, for want of the
\* right, the residual stamped into the run's metadata says so (derive_hull;
\* architecture.md section 5.1: "the missing backstop is stamped").
MissingBackstopNamed ==
    verdict.event = "deny" =>
        /\ (query[1] = "net" /\ ~Hull.handled_net) => "tcp_port" \in Hull.residuals
        /\ (/\ query[1] = "path" /\ query[3] = "write"
            /\ "TRUNCATE" \notin Hull.handled_fs
            /\ first_match(Policy, [family |-> "fs", path |-> query[2],
                                    access |-> {"write"}]) # NoMatch)
           => "fs_truncate" \in Hull.residuals
=============================================================================
