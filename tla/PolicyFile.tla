----------------------------- MODULE PolicyFile -----------------------------
(***************************************************************************)
(* From the policy file an operator wrote to the policy an enforce run is  *)
(* decided by: the host shapes of network rules (policy/host.rs), the      *)
(* loader that accepts a file whole or not at all (policy/mod.rs), the     *)
(* resolution of exact hosts before the run (session.rs) and the address   *)
(* of a destination (parse_sockaddr of run.rs).                            *)
(*                                                                         *)
(* An address is a family and a number; V4Bits and V6Bits are the widths   *)
(* of the two families, and a V6 address whose leading bits are MappedHead *)
(* carries a V4 address in the others.  A written glob is the set of paths *)
(* it matches and its root, or BadGlob; Glob and Landlock say which.       *)
(***************************************************************************)
EXTENDS Landlock

CONSTANTS
    V4Bits, V6Bits,  \* bounds: 32 and 128
    MappedHead       \* ::ffff

\* A V4 address fits into a V6 address behind the mapped head.
ASSUME WidthsAssumption ==
    /\ V4Bits \in Nat /\ V6Bits \in Nat /\ V4Bits < V6Bits
    /\ MappedHead \in 0 .. 2^(V6Bits - V4Bits) - 1

\* Arithmetic of the widths, which the provers do not have: 2^n doubles.
ASSUME PowersAssumption ==
    2^0 = 1 /\ \A n \in 0 .. V6Bits : 2^n \in Nat \ {0} /\ 2^(n + 1) = 2 * 2^n

SCHEMA_VERSION == 1
Widths == [v4 |-> V4Bits, v6 |-> V6Bits]
Addresses == UNION {{<<f, n>> : n \in 0 .. 2^Widths[f] - 1} : f \in {"v4", "v6"}}

MappedBits == V6Bits - V4Bits
IsMapped(ip) == ip[1] = "v6" /\ ip[2] \div 2^V4Bits = MappedHead
to_ipv4_mapped(ip) == <<"v4", ip[2] % 2^V4Bits>>
normalize_ip(ip) == IF IsMapped(ip) THEN to_ipv4_mapped(ip) ELSE ip

\* Mutant of parse_sockaddr: the address is taken as the child wrote it.
SockaddrRaw(written) == written

\* parse_sockaddr: a mapped destination is the V4 destination it carries.
parse_sockaddr(written) == normalize_ip(written)

-----------------------------------------------------------------------------
(***************************************************************************)
(* HostRule: the shapes in the order they are recognised.                  *)
(***************************************************************************)

BadHost == [shape |-> "bad"]

\* A mapped block becomes the V4 block it stands for; one that would reach
\* beyond the mapped addresses is refused.
parse_cidr(host) ==
    IF host.prefix > Widths[host.addr[1]] THEN BadHost
    ELSE IF ~IsMapped(host.addr) THEN host
    ELSE IF host.prefix < MappedBits THEN BadHost
    ELSE [host EXCEPT !.addr = to_ipv4_mapped(@), !.prefix = @ - MappedBits]

parse_host(host) ==
    CASE host.shape = "cidr" -> parse_cidr(host)
      [] host.shape = "ip"   -> [host EXCEPT !.addr = normalize_ip(@)]
      [] OTHER               -> host

\* The two agree under the mask of the prefix; never across families.
cidr_contains(addr, prefix, ip) ==
    LET below == 2^(Widths[ip[1]] - prefix)
    IN  addr[1] = ip[1] /\ addr[2] \div below = ip[2] \div below

\* HostRule::matches_ip, as the set of addresses the engine's rule holds.
MatchedIps(host) ==
    CASE host.shape = "any"  -> Addresses
      [] host.shape = "ip"   -> {host.addr}
      [] host.shape = "cidr" -> {ip \in Addresses : cidr_contains(host.addr, host.prefix, ip)}
      [] OTHER               -> {}

-----------------------------------------------------------------------------
(***************************************************************************)
(* Policy::parse and what follows it before a run starts.                  *)
(***************************************************************************)

BadGlob == [matched |-> {}, root |-> <<>>]
Some(s, P(_)) == \E i \in DOMAIN s : P(s[i])

\* One bad rule rejects the file.
Rejected(raw) ==
    \/ raw.schema_version # SCHEMA_VERSION
    \/ Some(raw.fs, LAMBDA r : r.mode = {} \/ r.path = BadGlob)
    \/ Some(raw.net, LAMBDA r : r.port = 0 \/ parse_host(r.host) = BadHost)
    \/ Some(raw.exec, LAMBDA r : r.binary = BadGlob)

NetRuleOf(rule) ==
    LET host == parse_host(rule.host)
    IN  [name |-> IF host.shape = "exact" THEN host.name ELSE NoName,
         ips |-> MatchedIps(host), port |-> rule.port, action |-> rule.action]

\* Policy::parse, against the workspace of the run.
parse(raw, workspace) ==
    [fs |-> [i \in DOMAIN raw.fs |->
                [path |-> raw.fs[i].path.matched, root |-> raw.fs[i].path.root,
                 mode |-> raw.fs[i].mode, action |-> raw.fs[i].action]],
     net |-> [i \in DOMAIN raw.net |-> NetRuleOf(raw.net[i])],
     exec |-> [i \in DOMAIN raw.exec |->
                [binary |-> raw.exec[i].binary.matched, root |-> raw.exec[i].binary.root,
                 action |-> raw.exec[i].action]],
     workspace |-> workspace.matched, workspace_root |-> workspace.root]

\* Mutant of Unresolvable: a name that resolves to nothing is kept.
SuffixOnly(raw, resolver) == Some(raw.net, LAMBDA r : r.host.shape = "suffix")

\* resolve_policy_hosts: a suffix, or a name without an address, refuses the run.
Unresolvable(raw, resolver) ==
    Some(raw.net, LAMBDA r : \/ r.host.shape = "suffix"
                             \/ r.host.shape = "exact" /\ resolver[r.host.name] = {})

\* prepare_enforcement up to the hull: the policy is loaded and its hosts resolved.
Starts(raw, resolver) == ~Rejected(raw) /\ ~Unresolvable(raw, resolver)
=============================================================================
