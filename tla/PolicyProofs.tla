---------------------------- MODULE PolicyProofs ----------------------------
(***************************************************************************)
(* The two layers of an enforce run: for every policy and every file       *)
(* system the Landlock hull leaves the decision to the engine, the ABI     *)
(* gaps are stamped, and a call goes ahead on joint permission only.  And  *)
(* the network rules: for every width of the address families a rule says  *)
(* to the engine what it says in the file, and none is without effect.     *)
(***************************************************************************)
EXTENDS MCPolicy, TLAPS, WellFoundedInduction, SequenceTheorems

-----------------------------------------------------------------------------
(***************************************************************************)
(* Policies and file systems in general.                                   *)
(***************************************************************************)

\* The names of files: any string.  Those of the instance are spelled out because
\* the provers do not know a literal to be one.
FileName == STRING \cup {"d", "x", "y", "w", "f"}
PathName == Seq(FileName)

\* The root is there, and whatever holds something is a directory.
FileSystem(t) ==
    /\ DOMAIN t \subseteq PathName /\ <<>> \in DOMAIN t
    /\ \A p \in DOMAIN t, n \in Nat : n < Len(p) =>
          SubSeq(p, 1, n) \in DOMAIN t /\ t[SubSeq(p, 1, n)] = "dir"

\* What the loader makes of globs: every path a rule matches lies beneath the
\* root that hierarchy_root_from_glob gave it.
Beneath(matched, root) ==
    root \in PathName /\ \A p \in matched : p \in PathName /\ IsPrefix(root, p)

Rooted(policy) ==
    /\ \A family \in {"fs", "net", "exec"} :
          /\ DOMAIN policy[family] \subseteq Nat
          /\ \A i \in DOMAIN policy[family] : policy[family][i].action \in Verdict
    /\ \A i \in DOMAIN policy.fs : Beneath(policy.fs[i].path, policy.fs[i].root)
    /\ \A i \in DOMAIN policy.exec : Beneath(policy.exec[i].binary, policy.exec[i].root)
    /\ Beneath(policy.workspace, policy.workspace_root)

\* Only what is no directory is replaced under its name.
PlainFiles(t, gone) == \A p \in gone : p \in DOMAIN t /\ t[p] # "dir"

Request(access, path) ==
    IF access = "exec" THEN [family |-> "exec", binary |-> path]
    ELSE [family |-> "fs", path |-> path, access |-> {access}]

\* What a call on the path needs of the tree.
Possible(t, access, path) ==
    /\ (access = "create") <=> path \notin DOMAIN t
    /\ access = "create" => Front(path) \in DOMAIN t /\ t[Front(path)] = "dir"
    /\ access \in {"write", "exec"} => t[path] = "file"

\* A grant the hull widens to that starts at the object itself.
NamedBy(policy, access, path) ==
    \/ path = policy.workspace_root
    \/ \E i \in DOMAIN policy.fs :
          Widens(policy.fs[i]) /\ access \in policy.fs[i].mode /\ policy.fs[i].root = path

-----------------------------------------------------------------------------

\* A set of natural numbers has a least element.
LEMMA LeastNumber ==
    ASSUME NEW S \in SUBSET Nat, S # {}
    PROVE  \E m \in S : \A j \in S : m <= j
<1>1. PICK m \in S : \A j \in S : ~(<<j, m>> \in OpToRel(<, Nat))
  BY NatLessThanWellFounded, WFMin
<1>2. ASSUME NEW j \in S, j < m
      PROVE  FALSE
  <2>1. <<j, m>> \in {ss \in Nat \X Nat : ss[1] < ss[2]}
    BY <1>2
  <2>2. <<j, m>> \in OpToRel(<, Nat)
    BY <2>1, Zenon DEF OpToRel
  <2>. QED
    BY <1>1, <2>2
<1>. QED
  BY <1>2

\* FirstOf is the first of a non-empty set of indices.
LEMMA FirstOfLeast ==
    ASSUME NEW S \in SUBSET Nat, S # {}
    PROVE  FirstOf(S) \in S /\ \A j \in S : FirstOf(S) <= j
BY LeastNumber DEF FirstOf

\* Max is the greatest of a bounded set.
LEMMA GreatestNumber ==
    ASSUME NEW L \in Nat, NEW S \in SUBSET (0 .. L), S # {}
    PROVE  Max(S) \in S /\ \A j \in S : j <= Max(S)
<1>. DEFINE T == {n \in Nat : n <= L /\ L - n \in S}
<1>1. T # {}
  <2>1. PICK s \in S : TRUE
    OBVIOUS
  <2>2. L - s \in Nat /\ L - s <= L /\ L - (L - s) = s
    BY <2>1
  <2>. QED
    BY <2>1, <2>2
<1>2. PICK m \in T : \A j \in T : m <= j
  BY <1>1, LeastNumber
<1>3. ASSUME NEW s \in S PROVE s <= L - m
  <2>1. PICK k \in Nat : k = L - s /\ k <= L /\ L - k = s
    OBVIOUS
  <2>2. k \in T
    BY <2>1
  <2>3. m \in Nat /\ m <= k
    BY <1>2, <2>2
  <2>. QED
    BY <2>1, <2>3
<1>4. L - m \in S
  BY <1>2
<1>5. \E x \in S : \A y \in S : x >= y
  BY <1>3, <1>4
<1>6. Max(S) \in S /\ \A y \in S : Max(S) >= y
  BY <1>5, Zenon DEF Max
<1>. QED
  BY <1>6

\* A prefix is the beginning of the path, and a proper one is shorter.
LEMMA PrefixIsBeginning ==
    ASSUME NEW q \in PathName, NEW p \in PathName, IsPrefix(q, p)
    PROVE  /\ Len(q) \in Nat /\ Len(q) <= Len(p) /\ Len(p) \in Nat
           /\ q = SubSeq(p, 1, Len(q))
           /\ q # p => Len(q) < Len(p)
<1>1. Len(q) \in Nat /\ Len(p) \in Nat /\ Len(q) <= Len(p)
  BY LenProperties DEF PathName, IsPrefix
<1>2. SubSeq(q, 1, Len(q)) = q /\ SubSeq(p, 1, Len(p)) = p
  BY <1>1 DEF PathName
<1>3. q = SubSeq(p, 1, Len(q))
  BY <1>2 DEF IsPrefix
<1>. QED
  BY <1>1, <1>2, <1>3

\* The beginning of a path is a prefix of it and of every longer beginning.
LEMMA BeginningIsPrefix ==
    ASSUME NEW p \in PathName, NEW n \in Nat, NEW m \in Nat, n <= m, m <= Len(p)
    PROVE  /\ SubSeq(p, 1, n) \in PathName /\ Len(SubSeq(p, 1, n)) = n
           /\ IsPrefix(SubSeq(p, 1, n), SubSeq(p, 1, m))
<1>1. \A k \in Nat : k <= Len(p) =>
         /\ SubSeq(p, 1, k) \in PathName /\ Len(SubSeq(p, 1, k)) = k
         /\ \A i \in 1..k : SubSeq(p, 1, k)[i] = p[i]
  BY DEF PathName
<1>. DEFINE a == SubSeq(p, 1, n)
            b == SubSeq(p, 1, m)
<1>2. a \in Seq(FileName) /\ b \in Seq(FileName) /\ Len(a) = n /\ Len(b) = m
  BY <1>1 DEF PathName
<1>3. \A i \in 1..n : a[i] = b[i]
  BY <1>1
<1>. HIDE DEF a, b
<1>4. SubSeq(a, 1, n) = SubSeq(b, 1, n)
  BY <1>2, <1>3
<1>5. IsPrefix(a, b)
  BY <1>2, <1>4 DEF IsPrefix
<1>. QED
  BY <1>1, <1>5 DEF a, b

\* What is beneath the beginning of a path's root is beneath the path.
LEMMA PrefixChain ==
    ASSUME NEW q \in PathName, NEW r \in PathName, NEW p \in PathName,
           IsPrefix(q, r), IsPrefix(r, p)
    PROVE  IsPrefix(q, p)
<1>1. /\ Len(q) \in Nat /\ Len(r) \in Nat /\ Len(p) \in Nat
      /\ Len(q) <= Len(r) /\ Len(r) <= Len(p)
      /\ q = SubSeq(r, 1, Len(q)) /\ r = SubSeq(p, 1, Len(r))
  BY PrefixIsBeginning
<1>2. \A i \in 1..Len(q) : q[i] = r[i]
  BY <1>1 DEF PathName
<1>3. \A i \in 1..Len(r) : r[i] = p[i]
  BY <1>1 DEF PathName
<1>4. \A i \in 1..Len(q) : q[i] = p[i]
  BY <1>1, <1>2, <1>3
<1>5. SubSeq(q, 1, Len(q)) = SubSeq(p, 1, Len(q))
  BY <1>1, <1>4 DEF PathName
<1>. QED
  BY <1>1, <1>5 DEF IsPrefix

\* A proper prefix of a path is one of the directory the path is an entry of.
LEMMA ProperPrefix ==
    ASSUME NEW q \in PathName, NEW p \in PathName, IsPrefix(q, p), q # p
    PROVE  Front(p) \in PathName /\ IsPrefix(q, Front(p))
<1>1. /\ Len(q) \in Nat /\ Len(p) \in Nat /\ Len(q) < Len(p) /\ q = SubSeq(p, 1, Len(q))
  BY PrefixIsBeginning
<1>. \A a, b \in Nat : a < b => \E m \in Nat : m = b - 1 /\ a <= m /\ m <= b
  OBVIOUS
<1>2. PICK m \in Nat : m = Len(p) - 1 /\ Len(q) <= m /\ m <= Len(p)
  BY <1>1, Zenon
<1>3. Front(p) = SubSeq(p, 1, m)
  BY <1>2 DEF Front
<1>4. SubSeq(p, 1, m) \in PathName
  BY <1>2, BeginningIsPrefix
<1>5. IsPrefix(SubSeq(p, 1, Len(q)), SubSeq(p, 1, m))
  BY <1>1, <1>2, BeginningIsPrefix, Zenon
<1>. QED
  BY <1>1, <1>3, <1>4, <1>5

\* open_anchor ends at an existing prefix of the root: at the root itself when
\* that exists.
LEMMA DeepestAncestor ==
    ASSUME NEW t, FileSystem(t), NEW path \in PathName
    PROVE  LET a == deepest_existing_ancestor(t, path)
           IN  /\ a \in DOMAIN t /\ a \in PathName /\ IsPrefix(a, path)
               /\ path \in DOMAIN t => a = path
<1>. DEFINE S == {n \in 0 .. Len(path) : SubSeq(path, 1, n) \in DOMAIN t}
            m == Max(S)
<1>0. Len(path) \in Nat /\ SubSeq(path, 1, Len(path)) = path
  BY DEF PathName
<1>1. 0 \in S
  <2>1. SubSeq(path, 1, 0) = <<>>
    BY DEF PathName
  <2>2. SubSeq(path, 1, 0) \in DOMAIN t
    BY <2>1 DEF FileSystem
  <2>3. 0 \in 0 .. Len(path)
    BY <1>0
  <2>. QED
    BY <2>2, <2>3, Zenon
<1>2. m \in S /\ \A j \in S : j <= m
  BY <1>0, <1>1, GreatestNumber
<1>3. deepest_existing_ancestor(t, path) = SubSeq(path, 1, m)
  BY DEF deepest_existing_ancestor
<1>4. m \in Nat /\ m <= Len(path) /\ SubSeq(path, 1, m) \in DOMAIN t
  BY <1>0, <1>2
<1>5. SubSeq(path, 1, m) \in PathName /\ IsPrefix(SubSeq(path, 1, m), path)
  <2>. HIDE DEF m
  <2>1. Len(path) <= Len(path)
    BY <1>0
  <2>2. /\ SubSeq(path, 1, m) \in PathName
        /\ IsPrefix(SubSeq(path, 1, m), SubSeq(path, 1, Len(path)))
    BY <1>0, <1>4, <2>1, BeginningIsPrefix, Zenon
  <2>. QED
    BY <1>0, <2>2
<1>6. path \in DOMAIN t => m = Len(path)
  <2>. SUFFICES ASSUME path \in DOMAIN t PROVE m = Len(path)
    OBVIOUS
  <2>0. Len(path) \in 0 .. Len(path)
    BY <1>0
  <2>1. Len(path) \in S
    BY <1>0, <2>0, Zenon
  <2>. QED
    BY <1>0, <1>2, <1>4, <2>1
<1>. HIDE DEF m
<1>. QED
  BY <1>0, <1>3, <1>4, <1>5, <1>6

-----------------------------------------------------------------------------
(***************************************************************************)
(* The hull.                                                               *)
(***************************************************************************)

\* What the engine does not refuse, a rule that widens the hull or the workspace
\* speaks for (first_match, evaluate).
LEMMA RuleBehind ==
    ASSUME NEW policy, Rooted(policy),
           NEW request, request.family \in {"fs", "net", "exec"},
           evaluate(policy, request, "enforce").decision \in {"allow", "ask"}
    PROVE  \/ \E i \in DOMAIN policy[request.family] :
                /\ Matches(request.family, policy[request.family][i], request)
                /\ Widens(policy[request.family][i])
           \/ request.family = "fs" /\ request.path \in policy.workspace
<1>. DEFINE table == policy[request.family]
            hits == {i \in DOMAIN table : Matches(request.family, table[i], request)}
<1>1. hits \in SUBSET Nat
  BY DEF Rooted
<1>2. CASE hits # {}
  <2>1. FirstOf(hits) \in hits
    BY <1>1, <1>2, FirstOfLeast
  <2>2. first_match(policy, request) =
            [action |-> table[FirstOf(hits)].action,
             matched |-> <<request.family, FirstOf(hits)>>]
    BY <1>2 DEF first_match
  <2>3. table[FirstOf(hits)].action \in Verdict
    BY <2>1 DEF Rooted
  <2>4. first_match(policy, request) # NoMatch
    BY <2>2, <2>3 DEF NoMatch, Verdict
  <2>5. evaluate(policy, request, "enforce").decision = table[FirstOf(hits)].action
    BY <2>2, <2>4 DEF evaluate
  <2>6. Widens(table[FirstOf(hits)])
    BY <2>5 DEF Widens
  <2>. QED
    BY <2>1, <2>6
<1>3. CASE hits = {}
  <2>1. CASE request.family = "fs" /\ path_under_workspace(policy, request.path)
    BY <2>1 DEF path_under_workspace
  <2>2. CASE ~(request.family = "fs" /\ path_under_workspace(policy, request.path))
    <3>1. first_match(policy, request) = NoMatch
      BY <1>3, <2>2 DEF first_match
    <3>2. evaluate(policy, request, "enforce").decision = "deny"
      BY <3>1 DEF evaluate
    <3>. QED
      BY <3>2
  <2>. QED
    BY <2>1, <2>2
<1>. QED
  BY <1>2, <1>3

\* The rights a mode stands for, as far as the ABI knows them.
RightsFor(access, version) ==
    IF access = "exec" THEN {"EXECUTE"}
    ELSE ModeRights[access] \cap handled_fs_rights(version)

\* A grant covers every mode it was derived from.
LEMMA ModesCovered ==
    ASSUME NEW modes, NEW version, NEW access \in Access, access \in modes
    PROVE  RightsFor(access, version) \subseteq fs_modes_to_rights(modes, version)
<1>1. access # "exec"
  BY DEF Access
<1>2. ModeRights[access] \subseteq UNION {ModeRights[m] : m \in modes}
  OBVIOUS
<1>3. RightsFor(access, version) = ModeRights[access] \cap handled_fs_rights(version)
  BY <1>1 DEF RightsFor
<1>4. fs_modes_to_rights(modes, version) =
         (UNION {ModeRights[m] : m \in modes}) \cap handled_fs_rights(version)
  BY Zenon DEF fs_modes_to_rights
<1>. HIDE DEF RightsFor, fs_modes_to_rights
<1>. QED
  BY <1>2, <1>3, <1>4

\* The grant behind a permission: at or above the path, with the rights of the
\* access (FsGrants of derive_hull).
LEMMA GrantBehind ==
    ASSUME NEW policy, Rooted(policy), NEW version,
           NEW access \in Access \cup {"exec"}, NEW path \in PathName,
           evaluate(policy, Request(access, path), "enforce").decision \in {"allow", "ask"}
    PROVE  \E g \in FsGrants(policy, version) :
              /\ g.root \in PathName /\ IsPrefix(g.root, path)
              /\ RightsFor(access, version) \subseteq g.rights
              /\ access # "exec" /\ g.root = path => NamedBy(policy, access, path)
<1>. DEFINE request == Request(access, path)
<1>a. evaluate(policy, request, "enforce").decision \in {"allow", "ask"}
  OBVIOUS
<1>. HIDE DEF request
<1>0. request.family \in {"fs", "net", "exec"} =>
         \/ \E i \in DOMAIN policy[request.family] :
               /\ Matches(request.family, policy[request.family][i], request)
               /\ Widens(policy[request.family][i])
         \/ request.family = "fs" /\ request.path \in policy.workspace
  BY <1>a, RuleBehind
<1>1. CASE access = "exec"
  <2>1. request.family = "exec" /\ request.binary = path
    BY <1>1 DEF request, Request
  <2>2. PICK i \in DOMAIN policy.exec :
            path \in policy.exec[i].binary /\ Widens(policy.exec[i])
    BY <1>0, <2>1 DEF Matches, ExecMatches, is_match
  <2>. DEFINE g == [root |-> policy.exec[i].root, rights |-> {"EXECUTE"}]
  <2>3. g \in FsGrants(policy, version)
    BY <2>2 DEF FsGrants
  <2>4. Beneath(policy.exec[i].binary, policy.exec[i].root)
    BY DEF Rooted
  <2>. QED
    BY <1>1, <2>2, <2>3, <2>4 DEF Beneath, RightsFor
<1>2. CASE access \in Access
  <2>1. request.family = "fs" /\ request.path = path /\ request.access = {access}
    BY <1>2 DEF request, Request, Access
  <2>2. CASE \E i \in DOMAIN policy.fs :
               FsMatches(policy.fs[i], request) /\ Widens(policy.fs[i])
    <3>1. PICK i \in DOMAIN policy.fs :
              /\ path \in policy.fs[i].path /\ access \in policy.fs[i].mode
              /\ Widens(policy.fs[i])
      BY <2>1, <2>2 DEF FsMatches, is_match, mode_intersects
    <3>. DEFINE g == [root |-> policy.fs[i].root,
                      rights |-> fs_modes_to_rights(policy.fs[i].mode, version)]
    <3>2. g \in FsGrants(policy, version)
      BY <3>1 DEF FsGrants
    <3>3. Beneath(policy.fs[i].path, policy.fs[i].root)
      BY DEF Rooted
    <3>4. RightsFor(access, version) \subseteq g.rights
      BY <1>2, <3>1, ModesCovered
    <3>5. g.root \in PathName /\ IsPrefix(g.root, path)
      BY <3>1, <3>3 DEF Beneath
    <3>6. g.root = path => NamedBy(policy, access, path)
      BY <3>1 DEF NamedBy
    <3>. QED
      BY <3>2, <3>4, <3>5, <3>6
  <2>3. CASE path \in policy.workspace
    <3>. DEFINE g == [root |-> policy.workspace_root,
                      rights |-> fs_modes_to_rights(Access, version)]
    <3>1. g \in FsGrants(policy, version)
      BY DEF FsGrants
    <3>2. Beneath(policy.workspace, policy.workspace_root)
      BY DEF Rooted
    <3>3. RightsFor(access, version) \subseteq g.rights
      BY <1>2, ModesCovered
    <3>4. g.root \in PathName /\ IsPrefix(g.root, path)
      BY <2>3, <3>2 DEF Beneath
    <3>5. g.root = path => NamedBy(policy, access, path)
      BY DEF NamedBy
    <3>. QED
      BY <3>1, <3>3, <3>4, <3>5
  <2>. QED
    BY <1>0, <2>1, <2>2, <2>3 DEF Matches
<1>. QED
  BY <1>1, <1>2

\* What a ruleset that was built consists of.
LEMMA BuiltRuleset ==
    ASSUME NEW t, NEW hull, prepare_ruleset(t, hull).built
    PROVE  LET anchors == {open_anchor(t, root, hull.fs[root]) : root \in DOMAIN hull.fs}
           IN  prepare_ruleset(t, hull) =
                  [anchors |-> {b \in anchors : b.rights # {}},
                   ports |-> IF hull.handled_net THEN hull.net ELSE {},
                   built |-> TRUE]
<1>. DEFINE anchors == {open_anchor(t, root, hull.fs[root]) : root \in DOMAIN hull.fs}
<1>1. prepare_ruleset(t, hull) # NoRuleset
  BY DEF NoRuleset
<1>. HIDE DEF anchors
<1>2. prepare_ruleset(t, hull) =
        IF \E b \in anchors : b.rights # {} /\ ~landlock_add_rule(t, b)
        THEN NoRuleset
        ELSE [anchors |-> {b \in anchors : b.rights # {}},
              ports |-> IF hull.handled_net THEN hull.net ELSE {},
              built |-> TRUE]
  BY DEF prepare_ruleset, anchors
<1>. QED
  BY <1>1, <1>2 DEF anchors

\* A grant is in the ruleset, on the deepest ancestor of its root that exists:
\* whole on a directory, without the rights of directories on a file.
LEMMA AnchorBehind ==
    ASSUME NEW policy, NEW version, NEW t, NEW g \in FsGrants(policy, version),
           prepare_ruleset(t, derive_hull(policy, version)).built,
           NEW right \in g.rights,
           \/ t[deepest_existing_ancestor(t, g.root)] = "dir"
           \/ right \notin FS_DIRECTORY_ONLY_RIGHTS
    PROVE  \E a \in prepare_ruleset(t, derive_hull(policy, version)).anchors :
              a.root = deepest_existing_ancestor(t, g.root) /\ right \in a.rights
<1>. DEFINE grants == FsGrants(policy, version)
            hull == derive_hull(policy, version)
            anchors == {open_anchor(t, root, hull.fs[root]) : root \in DOMAIN hull.fs}
            a == open_anchor(t, g.root, hull.fs[g.root])
<1>1. hull.fs = [root \in {h.root : h \in grants} |->
                    UNION {h.rights : h \in {k \in grants : k.root = root}}]
  BY DEF derive_hull
<1>2. g.root \in DOMAIN hull.fs /\ right \in hull.fs[g.root]
  <2>. HIDE DEF grants, hull
  <2>1. g \in grants
    BY DEF grants
  <2>. QED
    BY <1>1, <2>1
<1>. HIDE DEF hull
<1>3. a \in anchors
  BY <1>2
<1>4. a.root = deepest_existing_ancestor(t, g.root) /\ right \in a.rights
  BY <1>2 DEF open_anchor, anchor_rights
<1>5. prepare_ruleset(t, hull).anchors = {b \in anchors : b.rights # {}}
  <2>1. prepare_ruleset(t, hull).built
    BY DEF hull
  <2>. QED
    BY <2>1, BuiltRuleset
<1>. HIDE DEF a, anchors
<1>6. a \in prepare_ruleset(t, hull).anchors
  BY <1>3, <1>4, <1>5
<1>. QED
  BY <1>4, <1>6 DEF hull

\* Where a grant at or above a path is anchored, and that it is still in force
\* there: a directory that holds the path, or the path itself.
LEMMA AnchorInForce ==
    ASSUME NEW t, FileSystem(t), NEW gone, PlainFiles(t, gone),
           NEW root \in PathName, NEW path \in PathName, IsPrefix(root, path),
           NEW access, Possible(t, access, path), path \notin gone
    PROVE  LET a == deepest_existing_ancestor(t, root)
           IN  /\ IsPrefix(a, path) /\ a \notin gone
               /\ a # path => IsPrefix(a, Front(path)) /\ t[a] = "dir"
               /\ a = path => root = path /\ path \in DOMAIN t
<1>. DEFINE a == deepest_existing_ancestor(t, root)
<1>1. /\ a \in DOMAIN t /\ a \in PathName /\ IsPrefix(a, root)
      /\ root \in DOMAIN t => a = root
  BY DeepestAncestor
<1>. HIDE DEF a
<1>2. IsPrefix(a, path)
  BY <1>1, PrefixChain
<1>3. ASSUME a # path
      PROVE  IsPrefix(a, Front(path)) /\ t[a] = "dir"
  <2>1. Front(path) \in PathName /\ IsPrefix(a, Front(path))
    BY <1>1, <1>2, <1>3, ProperPrefix
  <2>2. CASE path \in DOMAIN t
    <3>1. a = SubSeq(path, 1, Len(a)) /\ Len(a) \in Nat /\ Len(a) < Len(path)
      BY <1>1, <1>2, <1>3, PrefixIsBeginning
    <3>. QED
      BY <2>1, <2>2, <3>1 DEF FileSystem
  <2>3. CASE path \notin DOMAIN t
    <3>1. Front(path) \in DOMAIN t /\ t[Front(path)] = "dir"
      BY <2>3 DEF Possible
    <3>2. CASE a = Front(path)
      BY <2>1, <3>1, <3>2
    <3>3. CASE a # Front(path)
      <4>1. /\ a = SubSeq(Front(path), 1, Len(a)) /\ Len(a) \in Nat
            /\ Len(a) < Len(Front(path))
        BY <1>1, <2>1, <3>3, PrefixIsBeginning
      <4>. QED
        BY <2>1, <3>1, <4>1 DEF FileSystem
    <3>. QED
      BY <3>2, <3>3
  <2>. QED
    BY <2>2, <2>3
<1>4. a \notin gone
  BY <1>3 DEF PlainFiles
<1>5. a = path => root = path /\ path \in DOMAIN t
  <2>. SUFFICES ASSUME a = path PROVE root = path
    BY <1>1
  <2>1. /\ Len(path) \in Nat /\ Len(root) \in Nat
        /\ Len(root) <= Len(path) /\ Len(path) <= Len(root)
    BY <1>1, PrefixIsBeginning
  <2>2. root = SubSeq(path, 1, Len(root)) /\ path = SubSeq(root, 1, Len(path))
    BY <1>1, PrefixIsBeginning
  <2>3. root # path => Len(root) < Len(path)
    BY PrefixIsBeginning
  <2>. QED
    BY <2>1, <2>3
<1>. QED
  BY <1>2, <1>3, <1>4, <1>5 DEF a

\* The hull leaves the decision to the engine (policy.md section 6; derive_hull,
\* open_anchor, anchor_rights, prepare_ruleset): for every policy whose rules
\* match beneath their roots, every file system, every ABI and whatever was
\* replaced since, the kernel permits an access the engine allows or may allow,
\* but the removal of the very object a rule names and what was replaced itself.
THEOREM HullIsWide ==
    ASSUME NEW policy, Rooted(policy), NEW version,
           NEW t, FileSystem(t), NEW gone, PlainFiles(t, gone),
           NEW access \in Access \cup {"exec"}, NEW path \in PathName,
           Possible(t, access, path),
           prepare_ruleset(t, derive_hull(policy, version)).built,
           evaluate(policy, Request(access, path), "enforce").decision \in {"allow", "ask"}
    PROVE  \/ KernelPermits(prepare_ruleset(t, derive_hull(policy, version)),
                            derive_hull(policy, version), t, gone, access, path)
           \/ access = "delete" /\ NamedBy(policy, "delete", path)
           \/ path \in gone
<1>. SUFFICES ASSUME path \notin gone,
                     ~(access = "delete" /\ NamedBy(policy, "delete", path))
              PROVE  KernelPermits(prepare_ruleset(t, derive_hull(policy, version)),
                            derive_hull(policy, version), t, gone, access, path)
  OBVIOUS
<1>. DEFINE hull == derive_hull(policy, version)
            ruleset == prepare_ruleset(t, hull)
            where == IF access \in {"create", "delete"} THEN Front(path) ELSE path
<1>1. PICK g \in FsGrants(policy, version) :
          /\ g.root \in PathName /\ IsPrefix(g.root, path)
          /\ RightsFor(access, version) \subseteq g.rights
          /\ access # "exec" /\ g.root = path => NamedBy(policy, access, path)
  BY GrantBehind
<1>. DEFINE a == deepest_existing_ancestor(t, g.root)
<1>2. /\ IsPrefix(a, path) /\ a \notin gone
      /\ a # path => IsPrefix(a, Front(path)) /\ t[a] = "dir"
      /\ a = path => g.root = path /\ path \in DOMAIN t
  BY <1>1, AnchorInForce
<1>3. hull.handled_fs = handled_fs_rights(version)
  BY DEF derive_hull
<1>. SUFFICES ASSUME NEW right \in Needs(t, access, path)
              PROVE  Granted(ruleset, hull, gone, right, where)
  BY DEF KernelPermits
<1>4. CASE right \notin handled_fs_rights(version)
  BY <1>3, <1>4 DEF Granted
<1>5. CASE right \in handled_fs_rights(version)
  <2>. HIDE DEF a
  <2>1. right \in RightsFor(access, version)
    BY <1>5 DEF Needs, RightsFor, ModeRights, Access, FS_READ_RIGHTS, FS_WRITE_RIGHTS,
                FS_CREATE_RIGHTS, FS_DELETE_RIGHTS
  <2>2. t[a] = "dir" \/ right \notin FS_DIRECTORY_ONLY_RIGHTS
    <3>1. CASE a # path
      BY <1>2, <3>1
    <3>2. CASE a = path
      <4>1. access \in {"read", "write", "exec"}
        BY <1>1, <1>2, <3>2 DEF Possible, Access
      <4>. QED
        BY <3>2, <4>1 DEF Needs, FS_DIRECTORY_ONLY_RIGHTS, FS_WRITE_RIGHTS, FS_CREATE_RIGHTS
    <3>. QED
      BY <3>1, <3>2
  <2>3. IsPrefix(a, where)
    <3>1. CASE access \in {"create", "delete"}
      <4>1. a # path
        BY <1>1, <1>2, <3>1 DEF Possible
      <4>. QED
        BY <1>2, <3>1, <4>1
    <3>2. CASE access \notin {"create", "delete"}
      BY <1>2, <3>2
    <3>. QED
      BY <3>1, <3>2
  <2>4. right \in g.rights
    BY <1>1, <2>1
  <2>5. \E b \in ruleset.anchors : b.root = a /\ right \in b.rights
    BY <2>2, <2>4, AnchorBehind DEF a
  <2>. HIDE DEF ruleset, hull, where
  <2>. QED
    BY <1>2, <2>3, <2>5 DEF Granted
<1>. QED
  BY <1>4, <1>5

\* The same for the ports of TCP destinations, but for port 0, which no Landlock
\* rule can name (derive_net_grant).
THEOREM PortsAreWide ==
    ASSUME NEW policy, Rooted(policy), NEW version, NEW t,
           NEW request, request.family = "net", request.port \in 1 .. MaxPort,
           prepare_ruleset(t, derive_hull(policy, version)).built,
           evaluate(policy, request, "enforce").decision \in {"allow", "ask"}
    PROVE  KernelPermitsTcp(prepare_ruleset(t, derive_hull(policy, version)),
                            derive_hull(policy, version), request.port)
<1>. DEFINE hull == derive_hull(policy, version)
<1>1. PICK i \in DOMAIN policy.net :
          policy.net[i].port \in {AnyPort, request.port} /\ Widens(policy.net[i])
  <2>1. PICK i \in DOMAIN policy["net"] :
            Matches("net", policy["net"][i], request) /\ Widens(policy["net"][i])
    BY RuleBehind
  <2>. QED
    BY <2>1 DEF Matches, net_matches
<1>. DEFINE ports == {policy.net[k].port : k \in {j \in DOMAIN policy.net : Widens(policy.net[j])}}
<1>2. AnyPort \in ports \/ request.port \in ports
  BY <1>1
<1>3. hull.net = IF AnyPort \in ports THEN AllPorts ELSE ports
  BY DEF derive_hull, derive_net_grant
<1>. HIDE DEF ports, hull
<1>4. request.port \in hull.net
  BY <1>2, <1>3 DEF AllPorts
<1>5. hull.handled_net => prepare_ruleset(t, hull).ports = hull.net
  <2>1. prepare_ruleset(t, hull).built
    BY DEF hull
  <2>. QED
    BY <2>1, BuiltRuleset
<1>. QED
  BY <1>4, <1>5 DEF KernelPermitsTcp, hull

-----------------------------------------------------------------------------
(***************************************************************************)
(* Joint permission.                                                       *)
(***************************************************************************)

\* One evaluation under one answer.
LEMMA FinalizeOne ==
    ASSUME NEW decision \in Verdict, NEW answer \in Resolution
    PROVE  LET d == finalize_decision(decision, answer)
           IN  /\ (d.response = "allow") <=>
                      (decision = "allow" \/ (decision = "ask" /\ answer = "approved"))
               /\ Permits(d) <=> d.response = "allow"
BY DEF finalize_decision, fixed_decision, Verdict, Resolution, Permits

\* Everything one call requires, under one answer (finalize_operand).
LEMMA FinalizeAll ==
    ASSUME NEW decisions \in Seq(Verdict), NEW answer \in Resolution
    PROVE  LET d == finalize_operand(decisions, answer)
           IN  /\ (d.response = "allow") <=>
                      /\ decisions # <<>>
                      /\ \A i \in DOMAIN decisions :
                            \/ decisions[i] = "allow"
                            \/ decisions[i] = "ask" /\ answer = "approved"
               /\ Permits(d) <=> d.response = "allow"
<1>. DEFINE final == [i \in DOMAIN decisions |-> finalize_decision(decisions[i], answer)]
            denied == {i \in DOMAIN final : final[i].response # "allow"}
            Passes(i) == \/ decisions[i] = "allow"
                         \/ decisions[i] = "ask" /\ answer = "approved"
<1>1. \A i \in DOMAIN decisions : /\ (final[i].response = "allow") <=> Passes(i)
                                  /\ Permits(final[i]) <=> final[i].response = "allow"
  <2>. SUFFICES ASSUME NEW i \in DOMAIN decisions
                PROVE  /\ (final[i].response = "allow") <=> Passes(i)
                       /\ Permits(final[i]) <=> final[i].response = "allow"
    OBVIOUS
  <2>1. decisions[i] \in Verdict
    OBVIOUS
  <2>2. final[i] = finalize_decision(decisions[i], answer)
    OBVIOUS
  <2>. QED
    BY <2>1, <2>2, FinalizeOne
<1>2. DOMAIN final = DOMAIN decisions /\ denied \subseteq DOMAIN decisions
      /\ DOMAIN decisions \subseteq Nat
  OBVIOUS
<1>3. CASE decisions = <<>>
  <2>1. finalize_operand(decisions, answer) = fixed_decision("deny")
    BY <1>3 DEF finalize_operand
  <2>. QED
    BY <1>3, <2>1 DEF fixed_decision, Permits
<1>4. CASE decisions # <<>> /\ denied # {}
  <2>1. FirstOf(denied) \in denied
    BY <1>2, <1>4, FirstOfLeast
  <2>2. finalize_operand(decisions, answer) = final[FirstOf(denied)]
    BY <1>4 DEF finalize_operand
  <2>3. PICK k \in DOMAIN decisions : /\ finalize_operand(decisions, answer) = final[k]
                                      /\ final[k].response # "allow"
    BY <2>1, <2>2
  <2>. HIDE DEF final
  <2>. QED
    BY <1>1, <2>3
<1>5. CASE decisions # <<>> /\ denied = {}
  <2>1. 1 \in DOMAIN decisions
    BY <1>5
  <2>2. finalize_operand(decisions, answer) = final[1]
    BY <1>5 DEF finalize_operand
  <2>3. \A i \in DOMAIN decisions : final[i].response = "allow"
    BY <1>5
  <2>. HIDE DEF final
  <2>. QED
    BY <1>1, <1>5, <2>1, <2>2, <2>3
<1>. QED
  BY <1>3, <1>4, <1>5

-----------------------------------------------------------------------------
(***************************************************************************)
(* The instance of the run.                                                *)
(***************************************************************************)

\* Short sequences.
LEMMA ShortSequences ==
    ASSUME NEW S, NEW a \in S, NEW b \in S, NEW c \in S
    PROVE  <<>> \in Seq(S) /\ <<a>> \in Seq(S) /\ <<a, b>> \in Seq(S) /\ <<a, b, c>> \in Seq(S)
OBVIOUS

\* The paths of the instance.
LEMMA PathsAreNames == \A p \in Paths : p \in PathName
<1>1. /\ "d" \in FileName /\ "x" \in FileName /\ "y" \in FileName
      /\ "w" \in FileName /\ "f" \in FileName
  BY DEF FileName
<1>2. /\ <<>> \in Seq(FileName) /\ <<"d">> \in Seq(FileName)
      /\ <<"d", "x">> \in Seq(FileName) /\ <<"d", "x", "y">> \in Seq(FileName)
  BY <1>1, ShortSequences, Zenon
<1>3. <<"w">> \in Seq(FileName) /\ <<"w", "f">> \in Seq(FileName)
  BY <1>1, ShortSequences, Zenon
<1>. QED
  BY <1>2, <1>3, Zenon DEF PathName, Paths, Root, D, X, Y, W, F

\* The globs of the instance match beneath their roots.
LEMMA GlobsBeneath ==
    ASSUME NEW glob \in Globs \cup {[matched |-> {D, X, Y}, root |-> D], WorkspaceGlob}
    PROVE  Beneath(glob.matched, glob.root)
<1>1. \A p \in Paths : p \in PathName
  BY PathsAreNames
<1>2. D \in Paths /\ X \in Paths /\ Y \in Paths /\ W \in Paths /\ F \in Paths
  BY DEF Paths
<1>3. IsPrefix(D, X) /\ IsPrefix(D, Y) /\ IsPrefix(W, F)
  <2>1. ASSUME NEW p \in PathName, NEW q \in PathName, Len(p) = 1, 1 <= Len(q), p[1] = q[1]
        PROVE  IsPrefix(p, q)
    BY <2>1 DEF IsPrefix, PathName
  <2>2. Len(D) = 1 /\ 1 <= Len(X) /\ 1 <= Len(Y) /\ Len(W) = 1 /\ 1 <= Len(F)
    BY DEF D, X, Y, W, F
  <2>3. D[1] = X[1] /\ D[1] = Y[1] /\ W[1] = F[1]
    BY DEF D, X, Y, W, F
  <2>. QED
    BY <1>1, <1>2, <2>1, <2>2, <2>3, Zenon
<1>4. \A p \in PathName : IsPrefix(p, p)
  BY DEF PathName, IsPrefix
<1>5. CASE glob = BadGlob
  BY <1>5 DEF BadGlob, Beneath, PathName
<1>6. CASE \E p \in {D, X} : glob = [matched |-> {}, root |-> p]
  BY <1>1, <1>2, <1>6 DEF Beneath
<1>7. CASE \E p \in {D, X, Y} : glob = [matched |-> {p}, root |-> p]
  BY <1>1, <1>2, <1>4, <1>7 DEF Beneath
<1>8. CASE \E p \in {D, X, Y} : glob = [matched |-> {q \in Paths : IsPrefix(p, q)}, root |-> p]
  BY <1>1, <1>2, <1>8 DEF Beneath
<1>9. CASE \E p \in {D, X} :
             glob = [matched |-> {q \in Paths : q # Root /\ Front(q) = p}, root |-> p]
  <2>1. PICK p \in {D, X} :
            glob = [matched |-> {q \in Paths : q # Root /\ Front(q) = p}, root |-> p]
    BY <1>9
  <2>2. ASSUME NEW q \in Paths, q # Root, Front(q) = p
        PROVE  IsPrefix(p, q)
    <3>1. q \in PathName /\ Len(q) \in Nat /\ Len(q) > 0
      BY <1>1, <2>2 DEF Root, PathName
    <3>. \A k \in Nat : k > 0 => \E n \in Nat : n = k - 1 /\ n <= k
      OBVIOUS
    <3>2. PICK n \in Nat : n = Len(q) - 1 /\ n <= Len(q)
      BY <3>1, Zenon
    <3>3. p = SubSeq(q, 1, n) /\ q = SubSeq(q, 1, Len(q)) /\ Len(q) <= Len(q)
      BY <2>2, <3>1, <3>2 DEF Front, PathName
    <3>4. IsPrefix(SubSeq(q, 1, n), SubSeq(q, 1, Len(q)))
      BY <3>1, <3>2, <3>3, BeginningIsPrefix, Zenon
    <3>. QED
      BY <3>3, <3>4, Zenon
  <2>. QED
    BY <1>1, <1>2, <2>1, <2>2 DEF Beneath
<1>10. CASE glob \in {[matched |-> {D, X, Y}, root |-> D], WorkspaceGlob}
  BY <1>1, <1>2, <1>3, <1>4, <1>10 DEF Beneath, WorkspaceGlob
<1>. QED
  BY <1>5, <1>6, <1>7, <1>8, <1>9, <1>10 DEF Globs

\* The rules of its files.
LEMMA WrittenRules ==
    ASSUME NEW file \in Files
    PROVE  /\ DOMAIN file.fs \subseteq Nat
           /\ \A i \in DOMAIN file.fs :
                 /\ file.fs[i].path \in Globs \cup {[matched |-> {D, X, Y}, root |-> D]}
                 /\ file.fs[i].action \in Verdict
           /\ DOMAIN file.net \subseteq Nat
           /\ \A i \in DOMAIN file.net : file.net[i].action \in Verdict
           /\ file.net # <<>> => DOMAIN file.net # {}
           /\ DOMAIN file.exec \subseteq Nat
           /\ \A i \in DOMAIN file.exec :
                 file.exec[i].binary \in Globs /\ file.exec[i].action \in Verdict
<1>. DEFINE FsOK(table) ==
              /\ DOMAIN table \subseteq Nat
              /\ \A i \in DOMAIN table :
                    /\ table[i].path \in Globs \cup {[matched |-> {D, X, Y}, root |-> D]}
                    /\ table[i].action \in Verdict
            NetOK(table) ==
              /\ DOMAIN table \subseteq Nat
              /\ \A i \in DOMAIN table : table[i].action \in Verdict
              /\ table # <<>> => DOMAIN table # {}
            ExecOK(table) ==
              /\ DOMAIN table \subseteq Nat
              /\ \A i \in DOMAIN table :
                    table[i].binary \in Globs /\ table[i].action \in Verdict
<1>1. FsOK(<<>>) /\ NetOK(<<>>) /\ ExecOK(<<>>)
  OBVIOUS
<1>2. ASSUME NEW table \in FsTables PROVE FsOK(table)
  <2>. DEFINE Rule(r) == /\ r.path \in Globs \cup {[matched |-> {D, X, Y}, root |-> D]}
                         /\ r.action \in Verdict
  <2>1. \A r \in FsRules : Rule(r)
    BY DEF FsRules, FsRule
  <2>2. \A r \in LaterRules : Rule(r)
    BY DEF LaterRules, FsRule, Verdict
  <2>3. \/ \E r \in FsRules : table = <<r>>
        \/ \E r \in FsRules, s \in LaterRules : table = <<r, s>>
    BY DEF FsTables
  <2>. HIDE DEF Rule
  <2>4. DOMAIN table \subseteq Nat /\ \A i \in DOMAIN table : Rule(table[i])
    BY <2>1, <2>2, <2>3
  <2>. QED
    BY <2>4 DEF Rule
<1>3. ASSUME NEW table \in NetTables PROVE NetOK(table)
  <2>. DEFINE ones == NetRule(Hosts, {AnyPort, 0, 80}, Verdict)
              rules == NetRule(Hosts, {AnyPort, 80}, {"allow", "deny"})
              others == NetRule({AnyHost, Exact("a"), Exact("b")}, {AnyPort, 80},
                                {"allow", "ask"})
              Rule(r) == r.action \in Verdict
  <2>1. (\A r \in ones : Rule(r)) /\ (\A r \in rules : Rule(r)) /\ (\A r \in others : Rule(r))
    BY DEF NetRule, Verdict
  <2>2. \/ \E r \in ones : table = <<r>>
        \/ \E r \in rules, r2 \in others : table = <<r, r2>>
    BY DEF NetTables
  <2>. HIDE DEF ones, rules, others, Rule
  <2>3. /\ DOMAIN table \subseteq Nat /\ DOMAIN table # {}
        /\ \A i \in DOMAIN table : Rule(table[i])
    BY <2>1, <2>2
  <2>. QED
    BY <2>3 DEF Rule
<1>4. ASSUME NEW table \in ExecTables PROVE ExecOK(table)
  BY DEF ExecTables
<1>. HIDE DEF FsOK, NetOK, ExecOK
<1>5. \E fs, net, exec : /\ file.fs = fs /\ file.net = net /\ file.exec = exec
                         /\ fs \in FsTables \cup {<<>>} /\ net \in NetTables \cup {<<>>}
                         /\ exec \in ExecTables \cup {<<>>}
  <2>1. CASE \E net \in NetTables : file = File(1, <<>>, net, <<>>)
    BY <2>1 DEF File
  <2>2. CASE \E fs \in FsTables : file = File(1, fs, <<>>, <<>>)
    BY <2>2 DEF File
  <2>3. CASE \E exec \in ExecTables : file = File(1, <<>>, <<>>, exec)
    BY <2>3 DEF File
  <2>4. CASE file \in {File(2, <<>>, <<>>, <<>>), File(1, <<>>, <<>>, <<>>)}
    BY <2>4 DEF File
  <2>. QED
    BY <2>1, <2>2, <2>3, <2>4, Zenon DEF Files
<1>6. FsOK(file.fs) /\ NetOK(file.net) /\ ExecOK(file.exec)
  BY <1>1, <1>2, <1>3, <1>4, <1>5
<1>. QED
  BY <1>6 DEF FsOK, NetOK, ExecOK

\* Its policies are rooted.
LEMMA FilesRooted ==
    ASSUME NEW file \in Files
    PROVE  Rooted(parse(file, WorkspaceGlob))
<1>. DEFINE policy == parse(file, WorkspaceGlob)
<1>1. /\ DOMAIN policy.fs = DOMAIN file.fs
      /\ \A i \in DOMAIN file.fs : /\ policy.fs[i].path = file.fs[i].path.matched
                                    /\ policy.fs[i].root = file.fs[i].path.root
                                    /\ policy.fs[i].action = file.fs[i].action
  BY DEF parse
<1>2. /\ DOMAIN policy.net = DOMAIN file.net
      /\ \A i \in DOMAIN file.net : policy.net[i].action = file.net[i].action
  BY DEF parse, NetRuleOf
<1>3. /\ DOMAIN policy.exec = DOMAIN file.exec
      /\ \A i \in DOMAIN file.exec : /\ policy.exec[i].binary = file.exec[i].binary.matched
                                      /\ policy.exec[i].root = file.exec[i].binary.root
                                      /\ policy.exec[i].action = file.exec[i].action
  BY DEF parse
<1>4. policy.workspace = WorkspaceGlob.matched /\ policy.workspace_root = WorkspaceGlob.root
  BY DEF parse
<1>. HIDE DEF policy
<1>5. \A i \in DOMAIN policy.fs : Beneath(policy.fs[i].path, policy.fs[i].root)
  BY <1>1, WrittenRules, GlobsBeneath
<1>6. \A i \in DOMAIN policy.exec : Beneath(policy.exec[i].binary, policy.exec[i].root)
  BY <1>3, WrittenRules, GlobsBeneath
<1>7. Beneath(policy.workspace, policy.workspace_root)
  BY <1>4, GlobsBeneath
<1>8. ASSUME NEW family \in {"fs", "net", "exec"}
      PROVE  /\ DOMAIN policy[family] \subseteq Nat
             /\ \A i \in DOMAIN policy[family] : policy[family][i].action \in Verdict
  BY <1>1, <1>2, <1>3, WrittenRules
<1>. QED
  BY <1>5, <1>6, <1>7, <1>8 DEF Rooted, policy

\* Its trees are file systems.
LEMMA TreesAreFileSystems ==
    ASSUME NEW t \in Trees
    PROVE  FileSystem(t)
<1>1. /\ DOMAIN t \in {{Root, D, W, F}, {Root, D, W, F, X}, Paths}
      /\ t[Root] = "dir" /\ t[D] = "dir" /\ t[W] = "dir"
      /\ Y \in DOMAIN t => t[X] = "dir"
  BY DEF Trees
<1>2. DOMAIN t \subseteq Paths
  BY <1>1 DEF Paths
<1>3. Len(Root) = 0 /\ Len(D) = 1 /\ Len(W) = 1 /\ Len(X) = 2 /\ Len(F) = 2 /\ Len(Y) = 3
  BY DEF Root, D, W, X, F, Y
<1>4. Y # Root /\ Y # D /\ Y # W /\ Y # F /\ Y # X
  <2>1. 3 # 0 /\ 3 # 1 /\ 3 # 2
    OBVIOUS
  <2>. QED
    BY <1>3, <2>1, Zenon
<1>5. /\ Root \in DOMAIN t /\ D \in DOMAIN t /\ W \in DOMAIN t
      /\ Y \in DOMAIN t => X \in DOMAIN t
  BY <1>1, <1>4, Zenon DEF Paths
<1>6. ASSUME NEW p \in DOMAIN t, NEW n \in Nat, n < Len(p)
      PROVE  SubSeq(p, 1, n) \in DOMAIN t /\ t[SubSeq(p, 1, n)] = "dir"
  <2>1. \A q \in Paths : SubSeq(q, 1, 0) = Root
    BY PathsAreNames DEF PathName, Root
  <2>2. /\ D[1] = X[1] /\ D[1] = Y[1] /\ W[1] = F[1]
        /\ X[1] = Y[1] /\ X[2] = Y[2]
    BY DEF X, Y, F, D, W
  <2>3. /\ X \in PathName /\ Y \in PathName /\ F \in PathName /\ D \in PathName
        /\ W \in PathName
    BY PathsAreNames, Zenon DEF Paths
  <2>4. SubSeq(X, 1, 1) = D /\ SubSeq(Y, 1, 1) = D /\ SubSeq(F, 1, 1) = W
    <3>1. ASSUME NEW q \in PathName, NEW r \in PathName, Len(r) = 1, 1 <= Len(q), r[1] = q[1]
          PROVE  SubSeq(q, 1, 1) = r
      BY <3>1 DEF PathName
    <3>2. 1 <= Len(X) /\ 1 <= Len(Y) /\ 1 <= Len(F)
      BY <1>3
    <3>. QED
      BY <1>3, <2>2, <2>3, <3>1, <3>2, Zenon
  <2>5. SubSeq(Y, 1, 2) = X
    <3>1. ASSUME NEW q \in PathName, NEW r \in PathName, Len(r) = 2, 2 <= Len(q),
                 r[1] = q[1], r[2] = q[2]
          PROVE  SubSeq(q, 1, 2) = r
      BY <3>1 DEF PathName
    <3>2. 2 <= Len(Y)
      BY <1>3
    <3>. QED
      BY <1>3, <2>2, <2>3, <3>1, <3>2, Zenon
  <2>6. CASE n = 0
    BY <1>1, <1>2, <1>5, <2>1, <2>6, Zenon
  <2>7. CASE n # 0 /\ p \in {Root, D, W}
    <3>1. PICK l \in {0, 1} : l = Len(p)
      BY <1>3, <2>7, Zenon
    <3>. QED
      BY <1>6, <2>7, <3>1
  <2>8. CASE n # 0 /\ p \in {X, F}
    <3>1. n < 2
      BY <1>3, <1>6, <2>8
    <3>2. n = 1
      BY <2>8, <3>1
    <3>. QED
      BY <1>1, <1>5, <2>4, <2>8, <3>2, Zenon
  <2>9. CASE n # 0 /\ p = Y
    <3>1. n < 3
      BY <1>3, <1>6, <2>9
    <3>2. n \in {1, 2}
      BY <2>9, <3>1
    <3>. QED
      BY <1>1, <1>5, <2>4, <2>5, <2>9, <3>2, Zenon
  <2>. QED
    BY <1>2, <2>6, <2>7, <2>8, <2>9, Zenon DEF Paths
<1>. QED
  BY <1>2, <1>5, <1>6, PathsAreNames DEF FileSystem, Root

-----------------------------------------------------------------------------
(***************************************************************************)
(* The run.                                                                *)
(***************************************************************************)

\* What was prepared: nothing is decided before the run, and a run has a ruleset.
Readied ==
    /\ raw \in Files /\ tree \in Trees /\ abi \in {2, 3, 4}
    /\ PlainFiles(tree, replaced)
    /\ stage # "running" => query = NoQuery
    /\ stage = "running" => Ruleset.built

\* It stays so.
LEMMA ReadiedInvariance == Spec => []Readied
<1>1. Init => Readied
  BY DEF Init, Readied, PlainFiles
<1>2. Readied /\ [Next]_vars => Readied'
  <2>. SUFFICES ASSUME Readied, [Next]_vars PROVE Readied'
    OBVIOUS
  <2>1. CASE Prepare
    <3>1. /\ UNCHANGED <<raw, tree, abi, replaced, query>> /\ query = NoQuery
          /\ stage' = "running" => Ruleset.built
      BY <2>1 DEF Prepare, Readied
    <3>. QED
      BY <3>1 DEF Readied, Ruleset, Hull, Policy
  <2>2. CASE Replace
    <3>1. /\ UNCHANGED <<raw, tree, abi, stage, query>> /\ stage = "running"
          /\ \E p \in DOMAIN tree : tree[p] = "file" /\ replaced' = replaced \cup {p}
      BY <2>2 DEF Replace
    <3>2. PlainFiles(tree, replaced)'
      BY <3>1 DEF Readied, PlainFiles
    <3>. QED
      BY <3>1, <3>2 DEF Readied, Ruleset, Hull, Policy
  <2>3. CASE Connect \/ Touch \/ Require
    <3>1. UNCHANGED <<raw, tree, abi, replaced, stage>> /\ stage = "running"
      BY <2>3 DEF Connect, Touch, Require
    <3>. QED
      BY <3>1 DEF Readied, Ruleset, Hull, Policy, PlainFiles
  <2>4. CASE UNCHANGED vars
    BY <2>4 DEF vars, Readied, Ruleset, Hull, Policy, PlainFiles
  <2>. QED
    BY <2>1, <2>2, <2>3, <2>4 DEF Next, Answered
<1>. QED
  BY <1>1, <1>2, PTL DEF Spec

\* A request the engine decided with an operator who approves.
LEMMA Decided ==
    ASSUME NEW policy, Rooted(policy),
           NEW request, request.family \in {"fs", "net", "exec"}
    PROVE  LET e == evaluate(policy, request, "enforce").decision
               d == finalize_decision(e, "approved")
           IN  /\ e \in Verdict /\ d.event = e
               /\ d.response = "allow" => e \in {"allow", "ask"}
<1>. DEFINE table == policy[request.family]
            hits == {i \in DOMAIN table : Matches(request.family, table[i], request)}
            e == evaluate(policy, request, "enforce").decision
<1>1. hits \in SUBSET Nat
  BY DEF Rooted
<1>2. e \in Verdict
  <2>1. CASE hits # {}
    <3>1. FirstOf(hits) \in hits
      BY <1>1, <2>1, FirstOfLeast
    <3>2. table[FirstOf(hits)].action \in Verdict
      BY <3>1 DEF Rooted
    <3>3. first_match(policy, request) =
              [action |-> table[FirstOf(hits)].action,
               matched |-> <<request.family, FirstOf(hits)>>]
      BY <2>1 DEF first_match
    <3>. QED
      BY <3>2, <3>3 DEF evaluate, Verdict
  <2>2. CASE hits = {}
    <3>1. \/ first_match(policy, request) = NoMatch
          \/ first_match(policy, request).action = "allow"
      BY <2>2 DEF first_match
    <3>. QED
      BY <3>1 DEF evaluate, Verdict
  <2>. QED
    BY <2>1, <2>2
<1>. HIDE DEF e
<1>3. /\ finalize_decision(e, "approved").event = e
      /\ finalize_decision(e, "approved").response = "allow" => e \in {"allow", "ask"}
  BY <1>2 DEF finalize_decision, fixed_decision, Verdict
<1>. QED
  BY <1>2, <1>3 DEF e

\* One access in the run, under the hull of its policy.
LEMMA TouchCovered ==
    ASSUME Readied, Touch
    PROVE  HullCovers'
<1>1. PICK path \in Paths \ {Root}, access \in Access \cup {"exec"} :
          /\ (access = "create") <=> path \notin DOMAIN tree
          /\ access = "create" => Front(path) \in DOMAIN tree /\ tree[Front(path)] = "dir"
          /\ access \in {"write", "exec"} => tree[path] = "file"
          /\ query' = <<"path", path, access>>
          /\ verdict' = Decide(Request(access, path))
          /\ kernel' = KernelPermits(Ruleset, Hull, tree, replaced, access, path)
  BY DEF Touch, Request
<1>2. UNCHANGED <<raw, tree, abi, replaced>> /\ Ruleset.built
  BY DEF Touch, Readied
<1>3. path \in PathName /\ Possible(tree, access, path)
  BY <1>1, PathsAreNames DEF Possible
<1>4. Rooted(Policy) /\ FileSystem(tree) /\ PlainFiles(tree, replaced)
  BY FilesRooted, TreesAreFileSystems DEF Policy, Readied
<1>5. ASSUME verdict'.response = "allow"
      PROVE  \/ kernel'
             \/ access = "delete" /\ NamedBy(Policy, "delete", path)
             \/ path \in replaced
  <2>1. Request(access, path).family \in {"fs", "net", "exec"}
    BY DEF Request
  <2>2. evaluate(Policy, Request(access, path), "enforce").decision \in {"allow", "ask"}
    <3>. DEFINE request == Request(access, path)
    <3>. HIDE DEF request
    <3>1. verdict' = finalize_decision(evaluate(Policy, request, "enforce").decision, "approved")
      BY <1>1 DEF request, Decide
    <3>2. request.family \in {"fs", "net", "exec"}
      BY <2>1 DEF request
    <3>3. evaluate(Policy, request, "enforce").decision \in {"allow", "ask"}
      BY <1>4, <1>5, <3>1, <3>2, Decided
    <3>. QED
      BY <3>3 DEF request
  <2>3. prepare_ruleset(tree, derive_hull(Policy, abi)).built
    BY <1>2 DEF Ruleset, Hull
  <2>4. \/ KernelPermits(prepare_ruleset(tree, derive_hull(Policy, abi)),
                         derive_hull(Policy, abi), tree, replaced, access, path)
        \/ access = "delete" /\ NamedBy(Policy, "delete", path)
        \/ path \in replaced
    BY <1>3, <1>4, <2>2, <2>3, HullIsWide
  <2>. QED
    BY <1>1, <2>4 DEF Ruleset, Hull
<1>6. Policy' = Policy
  BY <1>2 DEF Policy
<1>7. NamedBy(Policy, "delete", path) => RootedAt(path, "delete")'
  BY <1>6 DEF NamedBy, RootedAt
<1>8. query'[1] = "path" /\ query'[2] = path /\ query'[3] = access
  BY <1>1
<1>. QED
  BY <1>2, <1>5, <1>7, <1>8 DEF HullCovers, RootedAt

\* One destination in the run.
LEMMA ConnectCovered ==
    ASSUME Readied, Connect
    PROVE  HullCovers'
<1>1. PICK written \in Addresses, port \in Ports :
          /\ query' = <<"net", written, port>>
          /\ verdict' = Decide([family |-> "net", ip |-> parse_sockaddr(written),
                                port |-> port,
                                hostname |-> resolved_hostname(Policy, resolver,
                                                 parse_sockaddr(written))])
          /\ kernel' = KernelPermitsTcp(Ruleset, Hull, port)
  BY Zenon DEF Connect
<1>. DEFINE request == [family |-> "net", ip |-> parse_sockaddr(written), port |-> port,
                        hostname |-> resolved_hostname(Policy, resolver,
                                         parse_sockaddr(written))]
<1>2. request.family = "net" /\ request.port = port
  OBVIOUS
<1>3. verdict' = finalize_decision(evaluate(Policy, request, "enforce").decision, "approved")
  BY <1>1, Zenon DEF Decide
<1>. HIDE DEF request
<1>4. Rooted(Policy) /\ Ruleset.built
  BY FilesRooted DEF Policy, Readied, Connect
<1>5. ASSUME verdict'.response = "allow", port # 0
      PROVE  kernel'
  <2>1. evaluate(Policy, request, "enforce").decision \in {"allow", "ask"}
    BY <1>2, <1>3, <1>4, <1>5, Decided
  <2>2. request.port \in 1 .. MaxPort
    BY <1>2, <1>5 DEF Ports, MaxPort
  <2>3. prepare_ruleset(tree, derive_hull(Policy, abi)).built
    BY <1>4 DEF Ruleset, Hull
  <2>4. KernelPermitsTcp(prepare_ruleset(tree, derive_hull(Policy, abi)),
                         derive_hull(Policy, abi), request.port)
    BY <1>2, <1>4, <2>1, <2>2, <2>3, PortsAreWide
  <2>. QED
    BY <1>1, <1>2, <2>4 DEF Ruleset, Hull
<1>. QED
  BY <1>1, <1>5 DEF HullCovers

\* The hull covers the instance of the run, for every width of addresses: what
\* HullIsWide and PortsAreWide say in general (derive_hull,
\* deepest_existing_ancestor, derive_net_grant).
THEOREM HullLeavesDecision == Spec => []HullCovers
<1>1. Init => HullCovers
  BY DEF Init, NoQuery, HullCovers
<1>2. Readied /\ HullCovers /\ [Next]_vars => HullCovers'
  <2>. SUFFICES ASSUME Readied, HullCovers, [Next]_vars PROVE HullCovers'
    OBVIOUS
  <2>1. CASE Prepare \/ Replace
    <3>1. query' = NoQuery
      BY <2>1 DEF Prepare, Replace, Readied
    <3>. QED
      BY <3>1 DEF HullCovers, NoQuery
  <2>2. CASE Connect
    BY <2>2, ConnectCovered
  <2>3. CASE Touch
    BY <2>3, TouchCovered
  <2>4. CASE Require
    <3>1. query'[1] = "required"
      BY <2>4 DEF Require
    <3>. QED
      BY <3>1 DEF HullCovers
  <2>5. CASE UNCHANGED vars
    BY <2>5 DEF vars, HullCovers, RootedAt, Policy
  <2>. QED
    BY <2>1, <2>2, <2>3, <2>4, <2>5 DEF Next, Answered
<1>. QED
  BY <1>1, <1>2, ReadiedInvariance, PTL DEF Spec

\* A call goes ahead on joint permission only (finalize_operand), for every list
\* of required accesses and every answer: no ask that was not approved, and no
\* refusal among permissions, is lost in the decision or in the event.
THEOREM DecidedJointly == Spec => []JointDecision
<1>1. Init => JointDecision
  BY DEF Init, NoQuery, JointDecision
<1>2. Readied /\ JointDecision /\ [Next]_vars => JointDecision'
  <2>. SUFFICES ASSUME Readied, JointDecision, [Next]_vars PROVE JointDecision'
    OBVIOUS
  <2>1. CASE Prepare \/ Replace
    <3>1. query' = NoQuery
      BY <2>1 DEF Prepare, Replace, Readied
    <3>. QED
      BY <3>1 DEF JointDecision, NoQuery
  <2>2. CASE Connect \/ Touch
    <3>1. CASE Connect
      <4>1. \E w, port : query' = <<"net", w, port>>
        BY <3>1, Zenon DEF Connect
      <4>. QED
        BY <4>1 DEF JointDecision
    <3>2. CASE Touch
      <4>1. \E path, access : query' = <<"path", path, access>>
        BY <3>2, Zenon DEF Touch
      <4>. QED
        BY <4>1 DEF JointDecision
    <3>. QED
      BY <2>2, <3>1, <3>2
  <2>3. CASE Require
    <3>1. PICK decisions \in SeqOf(Verdict, MaxRequired), answer \in Resolution :
              /\ query' = <<"required", decisions, answer>>
              /\ verdict' = finalize_operand(decisions, answer)
      BY <2>3 DEF Require
    <3>2. decisions \in Seq(Verdict)
      <4>1. PICK m \in 0 .. MaxRequired : decisions \in [1..m -> Verdict]
        BY DEF SeqOf
      <4>2. m \in Nat
        BY BoundsAssumption
      <4>. QED
        BY <4>1, <4>2
    <3>3. query'[2] = decisions /\ query'[3] = answer
      BY <3>1
    <3>4. /\ (verdict'.response = "allow") <=>
                /\ decisions # <<>>
                /\ \A i \in DOMAIN decisions :
                      \/ decisions[i] = "allow"
                      \/ decisions[i] = "ask" /\ answer = "approved"
          /\ Permits(verdict') <=> verdict'.response = "allow"
      BY <3>1, <3>2, FinalizeAll
    <3>. QED
      BY <3>3, <3>4, Zenon DEF JointDecision, Permits
  <2>4. CASE UNCHANGED vars
    BY <2>4 DEF vars, JointDecision
  <2>. QED
    BY <2>1, <2>2, <2>3, <2>4 DEF Next, Answered
<1>. QED
  BY <1>1, <1>2, ReadiedInvariance, PTL DEF Spec

\* A refusal that some entry of the policy speaks for is a rule's: the workspace
\* refuses nothing.
LEMMA RefusalIsWritten ==
    ASSUME NEW policy, Rooted(policy), NEW request, request.family = "fs",
           first_match(policy, request) # NoMatch,
           evaluate(policy, request, "enforce").decision = "deny"
    PROVE  \E i \in DOMAIN policy.fs : FsMatches(policy.fs[i], request)
<1>. SUFFICES ASSUME ~\E i \in DOMAIN policy.fs : FsMatches(policy.fs[i], request)
              PROVE  FALSE
  OBVIOUS
<1>. DEFINE hits == {i \in DOMAIN policy[request.family] :
                        Matches(request.family, policy[request.family][i], request)}
<1>1. hits = {}
  BY DEF Matches
<1>2. first_match(policy, request) = [action |-> "allow", matched |-> <<"workspace", 0>>]
  BY <1>1 DEF first_match
<1>3. evaluate(policy, request, "enforce").decision = "allow"
  BY <1>2 DEF evaluate
<1>. QED
  BY <1>3

\* No boundary is left to one layer silently (derive_hull's residuals,
\* architecture.md section 5.1): on a kernel without the right, the gap behind a
\* refused write or destination is stamped into the run's metadata.
THEOREM GapsAreStamped == Spec => []MissingBackstopNamed
<1>1. Init => MissingBackstopNamed
  BY DEF Init, NoQuery, MissingBackstopNamed
<1>2. Readied /\ MissingBackstopNamed /\ [Next]_vars => MissingBackstopNamed'
  <2>. SUFFICES ASSUME Readied, MissingBackstopNamed, [Next]_vars
                PROVE  MissingBackstopNamed'
    OBVIOUS
  <2>1. CASE Prepare \/ Replace
    <3>1. query' = NoQuery
      BY <2>1 DEF Prepare, Replace, Readied
    <3>. QED
      BY <3>1 DEF MissingBackstopNamed, NoQuery
  <2>2. CASE Connect
    <3>1. raw' = raw /\ abi' = abi /\ raw.net # <<>> /\ query'[1] = "net"
      BY <2>2 DEF Connect
    <3>2. Hull' = Hull
      BY <3>1 DEF Hull, Policy
    <3>3. Policy.net # <<>>
      <4>1. DOMAIN raw.net # {}
        BY <3>1, WrittenRules DEF Readied
      <4>2. DOMAIN Policy.net = DOMAIN raw.net
        BY DEF Policy, parse
      <4>. QED
        BY <4>1, <4>2
    <3>4. ~Hull.handled_net => "tcp_port" \in Hull.residuals
      <4>1. Hull.handled_net = (abi >= ABI_NET)
        BY DEF Hull, derive_hull
      <4>2. (Policy.net # <<>> /\ abi < ABI_NET) => "tcp_port" \in Hull.residuals
        BY DEF Hull, derive_hull
      <4>3. abi >= ABI_NET \/ abi < ABI_NET
        BY DEF ABI_NET, Readied
      <4>. QED
        BY <3>3, <4>1, <4>2, <4>3, Zenon
    <3>. QED
      BY <3>1, <3>2, <3>4 DEF MissingBackstopNamed
  <2>3. CASE Touch
    <3>1. PICK path \in Paths \ {Root}, access \in Access \cup {"exec"} :
              query' = <<"path", path, access>> /\ verdict' = Decide(Request(access, path))
      BY <2>3 DEF Touch, Request
    <3>2. raw' = raw /\ abi' = abi
      BY <2>3 DEF Touch
    <3>3. Hull' = Hull /\ Policy' = Policy
      BY <3>2 DEF Hull, Policy
    <3>4. query'[1] = "path" /\ query'[2] = path /\ query'[3] = access
      BY <3>1
    <3>5. Rooted(Policy)
      BY FilesRooted DEF Policy, Readied
    <3>6. ASSUME verdict'.event = "deny", access = "write", "TRUNCATE" \notin Hull.handled_fs,
                 NEW request, request = [family |-> "fs", path |-> path, access |-> {"write"}],
                 first_match(Policy, request) # NoMatch
          PROVE  "fs_truncate" \in Hull.residuals
      <4>1. request.family = "fs" /\ request.access = {"write"} /\ Request(access, path) = request
        BY <3>6 DEF Request
      <4>2. verdict' = finalize_decision(evaluate(Policy, request, "enforce").decision, "approved")
        BY <3>1, <4>1 DEF Decide
      <4>3. evaluate(Policy, request, "enforce").decision = "deny"
        BY <3>5, <3>6, <4>1, <4>2, Decided
      <4>4. PICK i \in DOMAIN Policy.fs : FsMatches(Policy.fs[i], request)
        BY <3>5, <3>6, <4>1, <4>3, RefusalIsWritten
      <4>5. "write" \in Policy.fs[i].mode
        BY <4>1, <4>4 DEF FsMatches, mode_intersects
      <4>6. policy_uses_truncate(Policy)
        BY <4>5 DEF policy_uses_truncate
      <4>7. Hull.handled_fs = handled_fs_rights(abi)
        BY DEF Hull, derive_hull
      <4>8. abi < ABI_TRUNCATE
        BY <3>6, <4>7 DEF handled_fs_rights, FS_WRITE_RIGHTS, ABI_TRUNCATE, Readied
      <4>. QED
        BY <4>6, <4>8 DEF Hull, derive_hull
    <3>7. (/\ verdict'.event = "deny" /\ access = "write"
           /\ "TRUNCATE" \notin Hull.handled_fs
           /\ first_match(Policy, [family |-> "fs", path |-> path, access |-> {"write"}])
                # NoMatch)
             => "fs_truncate" \in Hull.residuals
      BY <3>6, Zenon
    <3>8. query'[1] # "net"
      BY <3>4
    <3>. QED
      BY <3>3, <3>4, <3>7, <3>8, Zenon DEF MissingBackstopNamed
  <2>4. CASE Require
    <3>1. query'[1] = "required"
      BY <2>4 DEF Require
    <3>. QED
      BY <3>1 DEF MissingBackstopNamed
  <2>5. CASE UNCHANGED vars
    BY <2>5 DEF vars, MissingBackstopNamed, Hull, Policy
  <2>. QED
    BY <2>1, <2>2, <2>3, <2>4, <2>5 DEF Next, Answered
<1>. QED
  BY <1>1, <1>2, ReadiedInvariance, PTL DEF Spec

-----------------------------------------------------------------------------
(***************************************************************************)
(* Address blocks.  A number without its last k bits is a \div 2^k.        *)
(***************************************************************************)

\* One bit more is dropped by halving.
LEMMA Halving ==
    ASSUME NEW a \in Nat, NEW k \in 0 .. V6Bits
    PROVE  /\ a \div 2^k \in Nat
           /\ k < V6Bits => a \div 2^(k + 1) = (a \div 2^k) \div 2
           /\ Bit(a, k) = (a \div 2^k) % 2
<1>. DEFINE m == 2^k
            n == 2^(k + 1)
<1>1. m \in Nat \ {0} /\ n = 2 * m
  BY PowersAssumption
<1>2. Bit(a, k) = (a \div m) % 2
  BY DEF Bit
<1>. HIDE DEF m, n
<1>3. a \div m \in Nat
  BY <1>1
<1>4. a \div n = (a \div m) \div 2
  BY <1>1
<1>. QED
  BY <1>2, <1>3, <1>4 DEF m, n

\* Powers multiply.
LEMMA PowersMultiply ==
    ASSUME NEW n \in Nat, NEW d \in Nat, n + d <= V6Bits
    PROVE  2^(n + d) = 2^n * 2^d
<1>. DEFINE S == {k \in Nat : k <= d /\ 2^(n + k) # 2^n * 2^k}
<1>. SUFFICES ASSUME d \in S PROVE FALSE
  OBVIOUS
<1>1. PICK k \in S : \A j \in S : k <= j
  <2>1. S \in SUBSET Nat /\ S # {}
    OBVIOUS
  <2>. HIDE DEF S
  <2>. QED
    BY <2>1, LeastNumber
<1>2. n \in 0 .. V6Bits /\ V6Bits \in Nat
  BY WidthsAssumption
<1>3. k # 0
  <2>1. 2^n * 1 = 2^n
    <3>1. 2^n \in Nat
      BY <1>2, PowersAssumption
    <3>. QED
      BY <3>1
  <2>2. n + 0 = n /\ 2^0 = 1
    BY PowersAssumption
  <2>. QED
    BY <2>1, <2>2
<1>4. PICK j \in Nat : k = j + 1 /\ j <= d /\ j < k
  <2>1. k - 1 \in Nat /\ k = (k - 1) + 1 /\ k - 1 <= d /\ k - 1 < k
    BY <1>3
  <2>. QED
    BY <2>1
<1>5. 2^(n + j) = 2^n * 2^j
  <2>1. j \notin S
    BY <1>1, <1>4
  <2>. QED
    BY <1>4, <2>1
<1>6. n + j \in 0 .. V6Bits /\ j \in 0 .. V6Bits /\ (n + j) + 1 = n + k
  BY <1>2, <1>4
<1>7. 2^(n + k) = 2 * 2^(n + j) /\ 2^k = 2 * 2^j
  BY <1>4, <1>6, PowersAssumption
<1>8. 2^n \in Nat /\ 2^j \in Nat
  BY <1>2, <1>6, PowersAssumption
<1>. DEFINE x == 2^n
            y == 2^j
<1>. HIDE DEF x, y
<1>9. 2 * (x * y) = x * (2 * y)
  BY <1>8 DEF x, y
<1>10. 2^(n + k) = 2^n * 2^k
  BY <1>5, <1>7, <1>9 DEF x, y
<1>. QED
  BY <1>1, <1>10

\* The comparison of host.rs, of two numbers under a mask, is the comparison of
\* their leading bits one by one.
LEMMA LeadingBits ==
    ASSUME NEW width \in 0 .. V6Bits, NEW e \in 0 .. width,
           NEW a \in 0 .. 2^width - 1, NEW b \in 0 .. 2^width - 1
    PROVE  (\A k \in e .. width - 1 : Bit(a, k) = Bit(b, k)) <=> a \div 2^e = b \div 2^e
<1>. DEFINE A(k) == a \div 2^k
            B(k) == b \div 2^k
<1>0. V6Bits \in Nat
  BY WidthsAssumption
<1>1. 2^width \in Nat \ {0}
  BY PowersAssumption
<1>2. a \in Nat /\ b \in Nat
  BY <1>1
<1>3. A(width) = 0 /\ B(width) = 0
  <2>. DEFINE m == 2^width
  <2>1. m \in Nat \ {0} /\ a \in 0 .. m - 1 /\ b \in 0 .. m - 1
    BY <1>1
  <2>. HIDE DEF m
  <2>2. a \div m = 0 /\ b \div m = 0
    BY <2>1
  <2>. QED
    BY <2>2 DEF m
<1>4. \A k \in 0 .. width : /\ A(k) \in Nat /\ B(k) \in Nat
                            /\ Bit(a, k) = A(k) % 2 /\ Bit(b, k) = B(k) % 2
                            /\ k < width => A(k + 1) = A(k) \div 2 /\ B(k + 1) = B(k) \div 2
  <2>. SUFFICES ASSUME NEW k \in 0 .. width
                PROVE  /\ A(k) \in Nat /\ B(k) \in Nat
                       /\ Bit(a, k) = A(k) % 2 /\ Bit(b, k) = B(k) % 2
                       /\ k < width => A(k + 1) = A(k) \div 2 /\ B(k + 1) = B(k) \div 2
    OBVIOUS
  <2>1. k \in 0 .. V6Bits /\ (k < width => k < V6Bits)
    BY <1>0
  <2>. QED
    BY <1>2, <2>1, Halving
<1>. HIDE DEF A, B
<1>5. ASSUME \A k \in e .. width - 1 : Bit(a, k) = Bit(b, k)
      PROVE  A(e) = B(e)
  <2>. DEFINE S == {d \in Nat : d <= width - e /\ A(width - d) # B(width - d)}
  <2>. SUFFICES ASSUME A(e) # B(e) PROVE FALSE
    OBVIOUS
  <2>1. width - e \in S
    <3>1. width - e \in Nat /\ width - (width - e) = e
      OBVIOUS
    <3>. QED
      BY <3>1
  <2>2. PICK d \in S : \A j \in S : d <= j
    <3>1. S \in SUBSET Nat /\ S # {}
      BY <2>1
    <3>. HIDE DEF S
    <3>. QED
      BY <3>1, LeastNumber
  <2>3. d # 0
    BY <1>3
  <2>4. PICK k \in e .. width - 1 : k = width - d /\ k + 1 = width - (d - 1)
    <3>1. width - d \in e .. width - 1 /\ (width - d) + 1 = width - (d - 1)
      BY <2>2, <2>3
    <3>. QED
      BY <3>1
  <2>5. A(k + 1) = B(k + 1)
    <3>1. d - 1 \in Nat /\ d - 1 <= width - e /\ ~(d <= d - 1)
      BY <2>2, <2>3
    <3>2. d - 1 \notin S
      BY <2>2, <3>1
    <3>. QED
      BY <2>4, <3>1, <3>2
  <2>6. A(k) \in Nat /\ B(k) \in Nat /\ A(k) % 2 = B(k) % 2 /\ A(k) \div 2 = B(k) \div 2
    <3>1. k \in 0 .. width /\ k < width
      OBVIOUS
    <3>. QED
      BY <1>4, <1>5, <2>5, <3>1
  <2>7. \A x, y \in Nat : x % 2 = y % 2 /\ x \div 2 = y \div 2 => x = y
    OBVIOUS
  <2>8. A(k) = B(k)
    BY <2>6, <2>7
  <2>. QED
    BY <2>2, <2>4, <2>8
<1>6. ASSUME A(e) = B(e), NEW i \in e .. width - 1
      PROVE  Bit(a, i) = Bit(b, i)
  <2>. DEFINE S == {k \in Nat : e <= k /\ k <= width /\ A(k) # B(k)}
  <2>1. S = {}
    <3>. SUFFICES ASSUME S # {} PROVE FALSE
      OBVIOUS
    <3>1. PICK k \in S : \A j \in S : k <= j
      <4>1. S \in SUBSET Nat
        OBVIOUS
      <4>. HIDE DEF S
      <4>. QED
        BY <4>1, LeastNumber
    <3>2. k # e
      BY <1>6
    <3>3. PICK j \in 0 .. width : k = j + 1 /\ e <= j /\ j < width /\ j < k
      <4>1. k - 1 \in 0 .. width /\ k = (k - 1) + 1 /\ e <= k - 1 /\ k - 1 < width /\ k - 1 < k
        BY <3>1, <3>2
      <4>. QED
        BY <4>1
    <3>4. A(j) = B(j)
      <4>1. j \notin S
        BY <3>1, <3>3
      <4>. QED
        BY <3>3, <4>1
    <3>5. A(k) = B(k)
      BY <1>4, <3>3, <3>4
    <3>. QED
      BY <3>1, <3>5
  <2>2. i \in 0 .. width /\ i \notin S
    BY <2>1
  <2>3. A(i) = B(i)
    BY <2>2
  <2>. QED
    BY <1>4, <2>2, <2>3
<1>. QED
  BY <1>5, <1>6 DEF A, B

\* A V4 destination behind the mapped head: what is written in V6 has the leading
\* bits of the head before those of the V4 address.
LEMMA BehindHead ==
    ASSUME NEW h \in 0 .. 2^MappedBits - 1, NEW e \in 0 .. V4Bits,
           NEW r \in 0 .. 2^V4Bits - 1
    PROVE  /\ h * 2^V4Bits + r \in 0 .. 2^V6Bits - 1
           /\ (h * 2^V4Bits + r) \div 2^V4Bits = h
           /\ (h * 2^V4Bits + r) % 2^V4Bits = r
           /\ \A s \in 0 .. 2^V4Bits - 1 :
                 (h * 2^V4Bits + r) \div 2^e = (h * 2^V4Bits + s) \div 2^e
                    <=> r \div 2^e = s \div 2^e
<1>. DEFINE m == 2^V4Bits
            hs == 2^MappedBits
            n == 2^V6Bits
            l == 2^e
            c == 2^(V4Bits - e)
<1>1. /\ V4Bits \in Nat /\ V6Bits \in Nat /\ V4Bits < V6Bits
      /\ MappedBits \in Nat /\ V4Bits + MappedBits = V6Bits
  BY WidthsAssumption DEF MappedBits
<1>2. n = m * hs
  BY <1>1, PowersMultiply
<1>3. /\ V4Bits - e \in Nat /\ e + (V4Bits - e) = V4Bits /\ e \in Nat
      /\ e + (V4Bits - e) <= V6Bits
  BY <1>1
<1>4. m = l * c
  BY <1>3, PowersMultiply
<1>5. m \in Nat \ {0} /\ hs \in Nat \ {0} /\ l \in Nat \ {0} /\ c \in Nat \ {0}
  <2>1. /\ V4Bits \in 0 .. V6Bits /\ MappedBits \in 0 .. V6Bits /\ e \in 0 .. V6Bits
        /\ V4Bits - e \in 0 .. V6Bits
    BY <1>1, <1>3
  <2>. QED
    BY <2>1, PowersAssumption
<1>6. h \in 0 .. hs - 1 /\ r \in 0 .. m - 1
  OBVIOUS
<1>. HIDE DEF m, hs, n, l, c
<1>7. (h * m + r) \div m = h /\ (h * m + r) % m = r
  BY <1>5, <1>6
<1>8. h * m + r \in 0 .. n - 1
  <2>1. h * m + r \in Nat
    BY <1>5, <1>6
  <2>2. (h + 1) * m <= hs * m
    BY <1>5, <1>6
  <2>3. (h + 1) * m = h * m + m
    BY <1>5, <1>6
  <2>4. h * m \in Nat /\ hs * m = m * hs /\ m * hs \in Nat
    BY <1>5, <1>6
  <2>. QED
    BY <1>2, <1>5, <1>6, <2>1, <2>2, <2>3, <2>4
<1>9. ASSUME NEW s \in 0 .. m - 1
      PROVE  (h * m + s) \div l = h * c + (s \div l)
  <2>1. h * m = (h * c) * l
    BY <1>4, <1>5, <1>6
  <2>2. \A x \in Nat, y \in Nat : (x * l + y) \div l = x + (y \div l)
    <3>. SUFFICES ASSUME NEW x \in Nat, NEW y \in Nat PROVE (x * l + y) \div l = x + (y \div l)
      OBVIOUS
    <3>1. y = l * (y \div l) + (y % l) /\ y % l \in 0 .. l - 1 /\ y \div l \in Nat
      BY <1>5
    <3>2. PICK q \in Nat, z \in 0 .. l - 1 : y = l * q + z /\ q = y \div l
      BY <3>1
    <3>3. x * l + (l * q + z) = (x + q) * l + z
      BY <1>5
    <3>4. ((x + q) * l + z) \div l = x + q
      BY <1>5
    <3>. QED
      BY <3>2, <3>3, <3>4
  <2>3. h * c \in Nat /\ s \in Nat
    BY <1>5, <1>6
  <2>. QED
    BY <2>1, <2>2, <2>3
<1>10. ASSUME NEW s \in 0 .. m - 1
       PROVE  (h * m + r) \div l = (h * m + s) \div l <=> r \div l = s \div l
  <2>1. /\ (h * m + r) \div l = h * c + (r \div l)
        /\ (h * m + s) \div l = h * c + (s \div l)
    BY <1>6, <1>9
  <2>2. h * c \in Nat /\ r \div l \in Nat /\ s \div l \in Nat
    BY <1>5, <1>6
  <2>. DEFINE x == h * c
              y == r \div l
              z == s \div l
              u == (h * m + r) \div l
              v == (h * m + s) \div l
  <2>3. u = x + y /\ v = x + z /\ x \in Nat /\ y \in Nat /\ z \in Nat
    BY <2>1, <2>2
  <2>. HIDE DEF x, y, z, u, v
  <2>4. u = v <=> y = z
    BY <2>3
  <2>. QED
    BY <2>4 DEF y, z, u, v
<1>. QED
  BY <1>7, <1>8, <1>10 DEF m, n, l

\* An address by its family.
LEMMA AddressOf ==
    ASSUME NEW ip \in Addresses
    PROVE  \/ \E n \in 0 .. 2^V4Bits - 1 : ip = <<"v4", n>>
           \/ \E n \in 0 .. 2^V6Bits - 1 : ip = <<"v6", n>>
<1>1. Widths["v4"] = V4Bits /\ Widths["v6"] = V6Bits
  BY DEF Widths
<1>2. PICK f \in {"v4", "v6"} : ip \in {<<f, n>> : n \in 0 .. 2^Widths[f] - 1}
  BY DEF Addresses
<1>3. CASE f = "v4"
  BY <1>1, <1>2, <1>3
<1>4. CASE f = "v6"
  BY <1>1, <1>2, <1>4
<1>. QED
  BY <1>3, <1>4

\* What normalising makes of an address: a mapped one is the V4 address behind the
\* head, any other is left alone.
LEMMA NormalizedIs ==
    ASSUME NEW ip \in Addresses
    PROVE  \/ /\ ~IsMapped(ip) /\ normalize_ip(ip) = ip
              /\ \E n \in 0 .. 2^V4Bits - 1 : ip = <<"v4", n>>
           \/ /\ ~IsMapped(ip) /\ normalize_ip(ip) = ip
              /\ \E n \in 0 .. 2^V6Bits - 1 :
                    ip = <<"v6", n>> /\ n \div 2^V4Bits # MappedHead
           \/ /\ IsMapped(ip)
              /\ \E n \in 0 .. 2^V6Bits - 1, m \in 0 .. 2^V4Bits - 1 :
                    /\ ip = <<"v6", n>> /\ n \div 2^V4Bits = MappedHead
                    /\ n = MappedHead * 2^V4Bits + m
                    /\ normalize_ip(ip) = <<"v4", m>>
<1>1. CASE \E n \in 0 .. 2^V4Bits - 1 : ip = <<"v4", n>>
  BY <1>1 DEF IsMapped, normalize_ip
<1>2. CASE \E n \in 0 .. 2^V6Bits - 1 : ip = <<"v6", n>>
  <2>1. PICK n \in 0 .. 2^V6Bits - 1 : ip = <<"v6", n>>
    BY <1>2
  <2>2. ip[1] = "v6" /\ ip[2] = n
    BY <2>1
  <2>3. CASE n \div 2^V4Bits # MappedHead
    BY <2>1, <2>2, <2>3 DEF IsMapped, normalize_ip
  <2>4. CASE n \div 2^V4Bits = MappedHead
    <3>1. V4Bits \in 0 .. V6Bits /\ V6Bits \in 0 .. V6Bits
      BY WidthsAssumption
    <3>2. 2^V4Bits \in Nat \ {0} /\ 2^V6Bits \in Nat \ {0}
      BY <3>1, PowersAssumption
    <3>. DEFINE w == 2^V4Bits
    <3>. HIDE DEF w
    <3>3. n \in Nat /\ w \in Nat \ {0} /\ n \div w = MappedHead
      BY <2>4, <3>2 DEF w
    <3>4. n % w \in 0 .. w - 1 /\ n = MappedHead * w + (n % w)
      <4>1. n % w \in 0 .. w - 1 /\ n = (n \div w) * w + (n % w)
        BY <3>3
      <4>. QED
        BY <3>3, <4>1, Zenon
    <3>5. IsMapped(ip) /\ normalize_ip(ip) = <<"v4", n % w>>
      BY <2>2, <2>4 DEF IsMapped, normalize_ip, to_ipv4_mapped, w
    <3>. QED
      BY <2>1, <2>4, <3>4, <3>5 DEF w
  <2>. QED
    BY <2>3, <2>4
<1>. QED
  BY <1>1, <1>2, AddressOf

\* parse_cidr and cidr_contains together: a block names a destination exactly
\* when its normalised form contains the normalised destination, whichever of the
\* two is written in V6.
LEMMA BlockMeans ==
    ASSUME NEW addr \in Addresses, NEW prefix \in Nat, prefix <= Widths[addr[1]],
           IsMapped(addr) => prefix >= MappedBits,
           NEW written \in Addresses
    PROVE  cidr_contains(normalize_ip(addr),
                         IF IsMapped(addr) THEN prefix - MappedBits ELSE prefix,
                         normalize_ip(written))
               <=> BlockNames(addr, prefix, written)
<1>. DEFINE ip == normalize_ip(written)
<1>1. /\ V4Bits \in Nat /\ V6Bits \in Nat /\ V4Bits < V6Bits
      /\ MappedBits \in Nat /\ MappedBits = V6Bits - V4Bits
      /\ MappedHead \in 0 .. 2^MappedBits - 1
  BY WidthsAssumption DEF MappedBits
<1>2. Widths["v4"] = V4Bits /\ Widths["v6"] = V6Bits
  BY DEF Widths
<1>3. \/ \E m \in 0 .. 2^V4Bits - 1 : ip = <<"v4", m>>
      \/ \E m \in 0 .. 2^V6Bits - 1 : ip = <<"v6", m>> /\ m \div 2^V4Bits # MappedHead
  BY NormalizedIs
<1>. HIDE DEF ip
<1>4. BlockNames(addr, prefix, written) <=>
        /\ addr[1] = (IF ip[1] = "v4" /\ IsMapped(addr) THEN AsMapped(ip) ELSE ip)[1]
        /\ AgreeOn(addr[2], (IF ip[1] = "v4" /\ IsMapped(addr) THEN AsMapped(ip) ELSE ip)[2],
                   Widths[addr[1]], prefix)
  BY DEF BlockNames, ip
\* Both in one family, as they are written.
<1>5. ASSUME ~IsMapped(addr), NEW width \in 0 .. V6Bits, Widths[addr[1]] = width,
             NEW n \in 0 .. 2^width - 1, addr[2] = n,
             NEW m \in 0 .. 2^width - 1, ip[2] = m, ip[1] = addr[1]
      PROVE  cidr_contains(addr, prefix, ip) <=> BlockNames(addr, prefix, written)
  <2>1. width - prefix \in 0 .. width
    BY <1>1, <1>5
  <2>2. (\A k \in width - prefix .. width - 1 : Bit(n, k) = Bit(m, k))
            <=> n \div 2^(width - prefix) = m \div 2^(width - prefix)
    BY <2>1, LeadingBits
  <2>3. cidr_contains(addr, prefix, ip) <=> n \div 2^(width - prefix) = m \div 2^(width - prefix)
    BY <1>5 DEF cidr_contains
  <2>4. BlockNames(addr, prefix, written) <=> AgreeOn(n, m, width, prefix)
    BY <1>4, <1>5
  <2>. QED
    BY <2>2, <2>3, <2>4 DEF AgreeOn
<1>6. ASSUME ~IsMapped(addr), ip[1] # addr[1]
      PROVE  cidr_contains(addr, prefix, ip) <=> BlockNames(addr, prefix, written)
  BY <1>4, <1>6 DEF cidr_contains
<1>7. CASE /\ ~IsMapped(addr) /\ normalize_ip(addr) = addr
           /\ \E n \in 0 .. 2^V4Bits - 1 : addr = <<"v4", n>>
  <2>1. PICK n \in 0 .. 2^V4Bits - 1 : addr = <<"v4", n>>
    BY <1>7
  <2>2. addr[1] = "v4" /\ addr[2] = n /\ V4Bits \in 0 .. V6Bits
    BY <1>1, <2>1
  <2>3. CASE \E m \in 0 .. 2^V4Bits - 1 : ip = <<"v4", m>>
    <3>1. PICK m \in 0 .. 2^V4Bits - 1 : ip = <<"v4", m>>
      BY <2>3
    <3>2. ip[1] = "v4" /\ ip[2] = m
      BY <3>1
    <3>3. cidr_contains(addr, prefix, ip) <=> BlockNames(addr, prefix, written)
      BY <1>2, <1>5, <1>7, <2>2, <3>2
    <3>. QED
      BY <1>7, <3>3 DEF ip
  <2>4. CASE \E m \in 0 .. 2^V6Bits - 1 : ip = <<"v6", m>>
    <3>1. ip[1] = "v6"
      BY <2>4
    <3>2. cidr_contains(addr, prefix, ip) <=> BlockNames(addr, prefix, written)
      BY <1>6, <1>7, <2>2, <3>1
    <3>. QED
      BY <1>7, <3>2 DEF ip
  <2>. QED
    BY <1>3, <2>3, <2>4
<1>8. CASE /\ ~IsMapped(addr) /\ normalize_ip(addr) = addr
           /\ \E n \in 0 .. 2^V6Bits - 1 : addr = <<"v6", n>> /\ n \div 2^V4Bits # MappedHead
  <2>1. PICK n \in 0 .. 2^V6Bits - 1 : addr = <<"v6", n>>
    BY <1>8
  <2>2. addr[1] = "v6" /\ addr[2] = n /\ V6Bits \in 0 .. V6Bits
    BY <1>1, <2>1
  <2>3. CASE \E m \in 0 .. 2^V6Bits - 1 : ip = <<"v6", m>>
    <3>1. PICK m \in 0 .. 2^V6Bits - 1 : ip = <<"v6", m>>
      BY <2>3
    <3>2. ip[1] = "v6" /\ ip[2] = m
      BY <3>1
    <3>3. cidr_contains(addr, prefix, ip) <=> BlockNames(addr, prefix, written)
      BY <1>2, <1>5, <1>8, <2>2, <3>2
    <3>. QED
      BY <1>8, <3>3 DEF ip
  <2>4. CASE \E m \in 0 .. 2^V4Bits - 1 : ip = <<"v4", m>>
    <3>1. ip[1] = "v4"
      BY <2>4
    <3>2. cidr_contains(addr, prefix, ip) <=> BlockNames(addr, prefix, written)
      BY <1>6, <1>8, <2>2, <3>1
    <3>. QED
      BY <1>8, <3>2 DEF ip
  <2>. QED
    BY <1>3, <2>3, <2>4
\* The block is of mapped addresses.
<1>9. CASE /\ IsMapped(addr)
           /\ \E n \in 0 .. 2^V6Bits - 1, l \in 0 .. 2^V4Bits - 1 :
                 /\ addr = <<"v6", n>> /\ n \div 2^V4Bits = MappedHead
                 /\ n = MappedHead * 2^V4Bits + l
                 /\ normalize_ip(addr) = <<"v4", l>>
  <2>1. PICK n \in 0 .. 2^V6Bits - 1, l \in 0 .. 2^V4Bits - 1 :
                 /\ addr = <<"v6", n>> /\ n \div 2^V4Bits = MappedHead
                 /\ n = MappedHead * 2^V4Bits + l
                 /\ normalize_ip(addr) = <<"v4", l>>
    BY <1>9
  <2>. DEFINE e == V6Bits - prefix
              base == normalize_ip(addr)
  <2>2. addr[1] = "v6" /\ addr[2] = n /\ base[1] = "v4" /\ base[2] = l
    BY <2>1
  <2>3. /\ e \in 0 .. V6Bits /\ e \in 0 .. V4Bits /\ V4Bits - (prefix - MappedBits) = e
        /\ V6Bits \in 0 .. V6Bits
    BY <1>1, <1>2, <1>9, <2>2
  <2>. HIDE DEF base
  <2>4. CASE \E m \in 0 .. 2^V4Bits - 1 : ip = <<"v4", m>>
    <3>1. PICK m \in 0 .. 2^V4Bits - 1 : ip = <<"v4", m>>
      BY <2>4
    <3>2. ip[1] = "v4" /\ ip[2] = m
      BY <3>1
    <3>. DEFINE spelt == MappedHead * 2^V4Bits + m
    <3>3. spelt \in 0 .. 2^V6Bits - 1 /\ (n \div 2^e = spelt \div 2^e <=> l \div 2^e = m \div 2^e)
      <4>1. spelt \in 0 .. 2^V6Bits - 1
        BY <1>1, <2>3, BehindHead
      <4>2. \A r, s \in 0 .. 2^V4Bits - 1 :
               (MappedHead * 2^V4Bits + r) \div 2^e = (MappedHead * 2^V4Bits + s) \div 2^e
                  <=> r \div 2^e = s \div 2^e
        <5>. HIDE DEF e
        <5>. SUFFICES ASSUME NEW r \in 0 .. 2^V4Bits - 1
                      PROVE  \A s \in 0 .. 2^V4Bits - 1 :
               (MappedHead * 2^V4Bits + r) \div 2^e = (MappedHead * 2^V4Bits + s) \div 2^e
                  <=> r \div 2^e = s \div 2^e
          BY Zenon
        <5>1. MappedHead \in 0 .. 2^MappedBits - 1 /\ e \in 0 .. V4Bits
          BY <1>1, <2>3, Zenon
        <5>. QED
          BY <5>1, BehindHead
      <4>. QED
        BY <2>1, <4>1, <4>2
    <3>4. AsMapped(ip)[1] = "v6" /\ AsMapped(ip)[2] = spelt
      BY <3>2 DEF AsMapped
    <3>. HIDE DEF spelt
    <3>5. BlockNames(addr, prefix, written) <=> AgreeOn(n, spelt, V6Bits, prefix)
      BY <1>2, <1>4, <1>9, <2>2, <3>2, <3>4
    <3>6. AgreeOn(n, spelt, V6Bits, prefix) <=> n \div 2^e = spelt \div 2^e
      <4>1. (\A k \in e .. V6Bits - 1 : Bit(n, k) = Bit(spelt, k))
                <=> n \div 2^e = spelt \div 2^e
        BY <2>1, <2>3, <3>3, LeadingBits
      <4>. QED
        BY <4>1 DEF AgreeOn
    <3>7. cidr_contains(base, prefix - MappedBits, ip) <=> l \div 2^e = m \div 2^e
      <4>1. 2^(Widths[ip[1]] - (prefix - MappedBits)) = 2^e
        BY <1>2, <2>3, <3>2
      <4>. QED
        BY <2>2, <3>2, <4>1 DEF cidr_contains
    <3>. QED
      BY <1>9, <3>3, <3>5, <3>6, <3>7 DEF ip, base
  <2>5. CASE \E m \in 0 .. 2^V6Bits - 1 : ip = <<"v6", m>> /\ m \div 2^V4Bits # MappedHead
    <3>1. PICK m \in 0 .. 2^V6Bits - 1 : ip = <<"v6", m>> /\ m \div 2^V4Bits # MappedHead
      BY <2>5
    <3>2. ip[1] = "v6" /\ ip[2] = m
      BY <3>1
    <3>3. ~cidr_contains(base, prefix - MappedBits, ip)
      BY <2>2, <3>2 DEF cidr_contains
    <3>4. BlockNames(addr, prefix, written) <=> AgreeOn(n, m, V6Bits, prefix)
      BY <1>2, <1>4, <2>2, <3>2
    <3>5. ASSUME AgreeOn(n, m, V6Bits, prefix) PROVE FALSE
      <4>1. \A k \in e .. V6Bits - 1 : Bit(n, k) = Bit(m, k)
        BY <3>5 DEF AgreeOn
      <4>2. \A k \in V4Bits .. V6Bits - 1 : k \in e .. V6Bits - 1
        BY <1>1, <2>3
      <4>3. \A k \in V4Bits .. V6Bits - 1 : Bit(n, k) = Bit(m, k)
        BY <4>1, <4>2, Zenon
      <4>4. V4Bits \in 0 .. V6Bits
        BY <1>1
      <4>5. n \div 2^V4Bits = m \div 2^V4Bits
        BY <2>1, <2>3, <3>1, <4>3, <4>4, LeadingBits
      <4>. QED
        BY <2>1, <3>1, <4>5
    <3>. QED
      BY <1>9, <3>3, <3>4, <3>5 DEF ip, base
  <2>. QED
    BY <1>3, <2>4, <2>5
<1>. QED
  BY <1>7, <1>8, <1>9, NormalizedIs

\* A literal address: the block of all its bits.
LEMMA LiteralMeans ==
    ASSUME NEW addr \in Addresses, NEW written \in Addresses
    PROVE  normalize_ip(written) = normalize_ip(addr)
               <=> BlockNames(addr, Widths[addr[1]], written)
<1>. DEFINE ip == normalize_ip(written)
            base == normalize_ip(addr)
            width == Widths[addr[1]]
            prefix == IF IsMapped(addr) THEN width - MappedBits ELSE width
<1>1. /\ V4Bits \in Nat /\ V6Bits \in Nat /\ V4Bits < V6Bits
      /\ MappedBits \in Nat /\ MappedBits = V6Bits - V4Bits
  BY WidthsAssumption DEF MappedBits
<1>2. Widths["v4"] = V4Bits /\ Widths["v6"] = V6Bits
  BY DEF Widths
<1>3. 2^V4Bits \in Nat /\ 2^V6Bits \in Nat
  <2>1. V4Bits \in 0 .. V6Bits /\ V6Bits \in 0 .. V6Bits
    BY <1>1
  <2>. QED
    BY <2>1, PowersAssumption
<1>4. /\ ip[1] \in {"v4", "v6"} /\ ip[2] \in Nat /\ ip = <<ip[1], ip[2]>>
  BY <1>3, NormalizedIs
<1>5. /\ base[2] \in Nat /\ base = <<base[1], base[2]>>
      /\ width \in Nat /\ (IsMapped(addr) => width >= MappedBits)
      /\ prefix = Widths[base[1]]
  <2>1. CASE /\ ~IsMapped(addr) /\ base = addr /\ \E n \in 0 .. 2^V4Bits - 1 : addr = <<"v4", n>>
    BY <1>1, <1>2, <1>3, <2>1
  <2>2. CASE /\ ~IsMapped(addr) /\ base = addr /\ \E n \in 0 .. 2^V6Bits - 1 : addr = <<"v6", n>>
    BY <1>1, <1>2, <1>3, <2>2
  <2>3. CASE /\ IsMapped(addr) /\ \E n \in 0 .. 2^V6Bits - 1 : addr = <<"v6", n>>
             /\ \E m \in 0 .. 2^V4Bits - 1 : base = <<"v4", m>>
    BY <1>1, <1>2, <1>3, <2>3
  <2>. QED
    BY <2>1, <2>2, <2>3, NormalizedIs
<1>6. cidr_contains(base, prefix, ip) <=> BlockNames(addr, width, written)
  <2>1. width <= width
    BY <1>5
  <2>. QED
    BY <1>5, <2>1, BlockMeans
<1>. HIDE DEF ip, base, width, prefix
<1>7. cidr_contains(base, prefix, ip) <=> ip = base
  <2>1. CASE base[1] # ip[1]
    BY <2>1 DEF cidr_contains
  <2>2. CASE base[1] = ip[1]
    <3>1. Widths[ip[1]] - prefix = 0
      BY <1>1, <1>2, <1>4, <1>5, <2>2
    <3>2. cidr_contains(base, prefix, ip) <=> base[2] \div 1 = ip[2] \div 1
      BY <2>2, <3>1, PowersAssumption DEF cidr_contains
    <3>3. base[2] \div 1 = base[2] /\ ip[2] \div 1 = ip[2]
      BY <1>4, <1>5
    <3>. QED
      BY <1>4, <1>5, <2>2, <3>2, <3>3
  <2>. QED
    BY <2>1, <2>2
<1>. QED
  BY <1>6, <1>7 DEF ip, base, width

-----------------------------------------------------------------------------
(***************************************************************************)
(* A rule as it is written and as the engine holds it.                     *)
(***************************************************************************)

\* The hosts a file can hold.
WrittenHost(host, names) ==
    \/ host.shape \in {"any", "suffix"} \/ host = BadHost
    \/ host = [shape |-> "exact", name |-> host.name] /\ host.name \in names \ {NoName}
    \/ host = [shape |-> "ip", addr |-> host.addr] /\ host.addr \in Addresses
    \/ /\ host = [shape |-> "cidr", addr |-> host.addr, prefix |-> host.prefix]
       /\ host.addr \in Addresses /\ host.prefix \in Nat

\* No two names of the policy have the address.
Unshared(policy, cache, ip) ==
    \A i, j \in DOMAIN policy.net :
        /\ policy.net[i].name # NoName /\ ip \in cache[policy.net[i].name]
        /\ policy.net[j].name # NoName /\ ip \in cache[policy.net[j].name]
        => policy.net[i].name = policy.net[j].name

\* Normalising stays among the addresses.
LEMMA NormalizedIsAddress ==
    ASSUME NEW ip \in Addresses
    PROVE  normalize_ip(ip) \in Addresses
<1>1. Widths["v4"] = V4Bits /\ Widths["v6"] = V6Bits
  BY DEF Widths
<1>2. \A m \in 0 .. 2^V4Bits - 1 : <<"v4", m>> \in Addresses
  <2>1. \A m \in 0 .. 2^V4Bits - 1 : <<"v4", m>> \in {<<"v4", n>> : n \in 0 .. 2^Widths["v4"] - 1}
    BY <1>1
  <2>. QED
    BY <2>1 DEF Addresses
<1>. QED
  BY <1>2, NormalizedIs

\* The two fields parse_cidr rewrites.
LEMMA Rewritten ==
    ASSUME NEW ad, NEW pr, NEW a, NEW n, NEW p,
           p = [[shape |-> "cidr", addr |-> ad, prefix |-> pr] EXCEPT !.addr = a, !.prefix = n]
    PROVE  p.shape = "cidr" /\ p.addr = a /\ p.prefix = n
OBVIOUS

\* A block parse_cidr accepts has a prefix of its family, and a mapped one covers
\* mapped addresses only.
LEMMA CidrAccepted ==
    ASSUME NEW host, parse_host(host) # BadHost,
           host = [shape |-> "cidr", addr |-> host.addr, prefix |-> host.prefix],
           host.addr \in Addresses, host.prefix \in Nat
    PROVE  /\ host.prefix <= Widths[host.addr[1]]
           /\ IsMapped(host.addr) => host.prefix >= MappedBits
<1>1. host.shape = "cidr"
  OBVIOUS
<1>2. parse_cidr(host) # BadHost
  BY <1>1 DEF parse_host
<1>3. /\ ~(host.prefix > Widths[host.addr[1]])
      /\ IsMapped(host.addr) => ~(host.prefix < MappedBits)
  BY <1>2 DEF parse_cidr
<1>4. V4Bits \in Nat /\ V6Bits \in Nat /\ MappedBits \in Nat
  BY WidthsAssumption DEF MappedBits
<1>5. Widths[host.addr[1]] \in Nat
  <2>1. host.addr[1] \in {"v4", "v6"}
    BY AddressOf
  <2>. QED
    BY <1>4, <2>1 DEF Widths
<1>. QED
  BY <1>3, <1>4, <1>5

\* A written host other than a name holds the addresses it names.
LEMMA HostMeans ==
    ASSUME NEW names, NEW host, WrittenHost(host, names), parse_host(host) # BadHost,
           host.shape # "exact", NEW written \in Addresses
    PROVE  normalize_ip(written) \in MatchedIps(parse_host(host)) <=> HostNames(host, written)
<1>. DEFINE ip == normalize_ip(written)
<1>1. ip \in Addresses
  BY NormalizedIsAddress
<1>2. CASE host.shape = "any"
  BY <1>1, <1>2 DEF parse_host, MatchedIps, HostNames
<1>3. CASE host.shape = "suffix" \/ host = BadHost
  BY <1>3 DEF BadHost, parse_host, MatchedIps, HostNames
<1>4. CASE host = [shape |-> "ip", addr |-> host.addr] /\ host.addr \in Addresses
  <2>. DEFINE p == parse_host(host)
  <2>0. host.shape = "ip"
    BY <1>4
  <2>1. p = [host EXCEPT !.addr = normalize_ip(host.addr)]
    BY <2>0 DEF parse_host
  <2>2. p.shape = "ip" /\ p.addr = normalize_ip(host.addr)
    BY <1>4, <2>1
  <2>. HIDE DEF p
  <2>3. MatchedIps(p) = {normalize_ip(host.addr)}
    BY <2>2 DEF MatchedIps
  <2>4. HostNames(host, written) <=> BlockNames(host.addr, Widths[host.addr[1]], written)
    BY <2>0 DEF HostNames
  <2>5. ip = normalize_ip(host.addr) <=> BlockNames(host.addr, Widths[host.addr[1]], written)
    BY <1>4, LiteralMeans
  <2>6. ip \in MatchedIps(p) <=> HostNames(host, written)
    BY <2>3, <2>4, <2>5
  <2>. QED
    BY <2>6 DEF p
<1>5. CASE /\ host = [shape |-> "cidr", addr |-> host.addr, prefix |-> host.prefix]
           /\ host.addr \in Addresses /\ host.prefix \in Nat
  <2>. DEFINE p == parse_host(host)
              prefix == IF IsMapped(host.addr) THEN host.prefix - MappedBits ELSE host.prefix
  <2>0. host.shape = "cidr"
    BY <1>5
  <2>1. p = parse_cidr(host) /\ p # BadHost
    BY <2>0 DEF parse_host
  <2>2. /\ ~(host.prefix > Widths[host.addr[1]])
        /\ IsMapped(host.addr) => ~(host.prefix < MappedBits)
        /\ ~IsMapped(host.addr) => p = host
        /\ IsMapped(host.addr) =>
              p = [host EXCEPT !.addr = to_ipv4_mapped(host.addr), !.prefix = host.prefix - MappedBits]
    BY <2>1 DEF parse_cidr
  <2>3. p.shape = "cidr" /\ p.addr = normalize_ip(host.addr) /\ p.prefix = prefix
    <3>. HIDE DEF p
    <3>1. CASE ~IsMapped(host.addr)
      BY <1>5, <2>2, <3>1 DEF normalize_ip
    <3>2. CASE IsMapped(host.addr)
      <4>1. p.shape = "cidr" /\ p.addr = to_ipv4_mapped(host.addr)
               /\ p.prefix = host.prefix - MappedBits
        <5>1. p = [[shape |-> "cidr", addr |-> host.addr, prefix |-> host.prefix] EXCEPT
                      !.addr = to_ipv4_mapped(host.addr), !.prefix = host.prefix - MappedBits]
          BY <1>5, <2>2, <3>2, Zenon
        <5>. QED
          BY <5>1, Rewritten, Zenon
      <4>2. normalize_ip(host.addr) = to_ipv4_mapped(host.addr)
        BY <3>2 DEF normalize_ip
      <4>. QED
        BY <3>2, <4>1, <4>2
    <3>. QED
      BY <3>1, <3>2
  <2>. HIDE DEF p, prefix
  <2>4. MatchedIps(p) = {x \in Addresses : cidr_contains(normalize_ip(host.addr), prefix, x)}
    BY <2>3 DEF MatchedIps
  <2>5. HostNames(host, written) <=> BlockNames(host.addr, host.prefix, written)
    BY <2>0 DEF HostNames
  <2>6. /\ host.prefix <= Widths[host.addr[1]]
        /\ IsMapped(host.addr) => host.prefix >= MappedBits
    BY <1>5, CidrAccepted
  <2>7. cidr_contains(normalize_ip(host.addr), prefix, ip)
            <=> BlockNames(host.addr, host.prefix, written)
    BY <1>5, <2>6, BlockMeans DEF prefix
  <2>8. ip \in MatchedIps(p) <=> HostNames(host, written)
    BY <1>1, <2>4, <2>5, <2>7
  <2>. QED
    BY <2>8 DEF p
<1>. QED
  BY <1>2, <1>3, <1>4, <1>5 DEF WrittenHost

\* The name a destination is looked up under is that of every name rule that
\* resolves to it (resolved_hostname), when no address is shared.
LEMMA NameMeans ==
    ASSUME NEW policy, NEW cache, NEW ip, Unshared(policy, cache, ip),
           DOMAIN policy.net \subseteq Nat, NEW i \in DOMAIN policy.net
    PROVE  matches_hostname(policy.net[i], resolved_hostname(policy, cache, ip))
               <=> policy.net[i].name # NoName /\ ip \in cache[policy.net[i].name]
<1>. DEFINE hits == {j \in DOMAIN policy.net : /\ policy.net[j].name # NoName
                                               /\ ip \in cache[policy.net[j].name]}
            first == FirstOf(hits)
            found == resolved_hostname(policy, cache, ip)
<1>1. CASE hits = {}
  <2>1. found = NoName
    BY <1>1 DEF resolved_hostname
  <2>. HIDE DEF found
  <2>2. ~matches_hostname(policy.net[i], found)
    BY <2>1 DEF matches_hostname
  <2>3. ~(policy.net[i].name # NoName /\ ip \in cache[policy.net[i].name])
    BY <1>1
  <2>. QED
    BY <2>2, <2>3 DEF found
<1>2. CASE hits # {}
  <2>1. found = policy.net[first].name
    BY <1>2 DEF resolved_hostname
  <2>2. first \in hits
    <3>1. hits \in SUBSET Nat
      OBVIOUS
    <3>. HIDE DEF hits
    <3>. QED
      BY <1>2, <3>1, FirstOfLeast
  <2>. HIDE DEF first
  <2>3. /\ first \in DOMAIN policy.net /\ policy.net[first].name # NoName
        /\ ip \in cache[policy.net[first].name]
    BY <2>2
  <2>. HIDE DEF hits, found
  <2>4. matches_hostname(policy.net[i], found) <=> policy.net[i].name = policy.net[first].name
    BY <2>1, <2>3 DEF matches_hostname
  <2>5. ASSUME policy.net[i].name # NoName, ip \in cache[policy.net[i].name]
        PROVE  policy.net[i].name = policy.net[first].name
    BY <2>3, <2>5 DEF Unshared
  <2>6. matches_hostname(policy.net[i], found)
            <=> policy.net[i].name # NoName /\ ip \in cache[policy.net[i].name]
    BY <2>3, <2>4, <2>5
  <2>. QED
    BY <2>6 DEF found
<1>. QED
  BY <1>1, <1>2

\* The name of the first rule that has the address is the one supplied
\* (resolved_hostname).
LEMMA NameSupplied ==
    ASSUME NEW policy, NEW cache, NEW ip, DOMAIN policy.net \subseteq Nat,
           NEW i \in DOMAIN policy.net,
           policy.net[i].name # NoName, ip \in cache[policy.net[i].name],
           \A j \in DOMAIN policy.net :
              j < i /\ policy.net[j].name # NoName /\ ip \in cache[policy.net[j].name]
                 => policy.net[j].name = policy.net[i].name
    PROVE  matches_hostname(policy.net[i], resolved_hostname(policy, cache, ip))
<1>. DEFINE hits == {j \in DOMAIN policy.net : /\ policy.net[j].name # NoName
                                               /\ ip \in cache[policy.net[j].name]}
            first == FirstOf(hits)
<1>1. i \in hits
  OBVIOUS
<1>2. resolved_hostname(policy, cache, ip) = policy.net[first].name
  BY <1>1 DEF resolved_hostname
<1>3. first \in hits /\ first <= i
  <2>1. hits \in SUBSET Nat
    OBVIOUS
  <2>. HIDE DEF hits
  <2>. QED
    BY <1>1, <2>1, FirstOfLeast
<1>. HIDE DEF first
<1>4. /\ first \in DOMAIN policy.net /\ policy.net[first].name # NoName
      /\ ip \in cache[policy.net[first].name]
  BY <1>3
<1>. HIDE DEF hits
<1>5. first \in Nat /\ i \in Nat
  BY <1>4
<1>6. policy.net[first].name = policy.net[i].name
  <2>1. CASE first = i
    BY <2>1
  <2>2. CASE first < i
    BY <1>4, <2>2
  <2>. QED
    BY <1>3, <1>5, <2>1, <2>2
<1>. QED
  BY <1>2, <1>6 DEF matches_hostname

\* Parsing keeps the shape of a host it accepts.
LEMMA ShapeKept ==
    ASSUME NEW names, NEW host, WrittenHost(host, names), parse_host(host) # BadHost
    PROVE  /\ parse_host(host).shape = host.shape
           /\ host.shape = "exact" => parse_host(host) = host
<1>1. CASE host.shape \in {"any", "suffix", "exact"} \/ host = BadHost
  BY <1>1 DEF parse_host, BadHost
<1>2. CASE host = [shape |-> "ip", addr |-> host.addr]
  BY <1>2 DEF parse_host
<1>3. CASE host = [shape |-> "cidr", addr |-> host.addr, prefix |-> host.prefix]
  <2>1. host.shape = "cidr"
    BY <1>3
  <2>2. parse_host(host) = parse_cidr(host)
    BY <2>1 DEF parse_host
  <2>3. \/ parse_cidr(host) = host
        \/ parse_cidr(host) = [host EXCEPT !.addr = to_ipv4_mapped(host.addr),
                                           !.prefix = host.prefix - MappedBits]
    BY <2>2 DEF parse_cidr
  <2>4. parse_cidr(host).shape = "cidr"
    <3>1. CASE parse_cidr(host) = host
      BY <2>1, <3>1, Zenon
    <3>2. CASE parse_cidr(host) = [host EXCEPT !.addr = to_ipv4_mapped(host.addr),
                                               !.prefix = host.prefix - MappedBits]
      <4>1. parse_cidr(host) =
               [[shape |-> "cidr", addr |-> host.addr, prefix |-> host.prefix] EXCEPT
                   !.addr = to_ipv4_mapped(host.addr), !.prefix = host.prefix - MappedBits]
        BY <1>3, <3>2, Zenon
      <4>. QED
        BY <4>1, Rewritten, Zenon
    <3>. QED
      BY <2>3, <3>1, <3>2
  <2>. QED
    BY <2>1, <2>2, <2>4
<1>. QED
  BY <1>1, <1>2, <1>3 DEF WrittenHost

\* A table as a file can hold it.
NetWritten(table, names) ==
    /\ \E n \in Nat : DOMAIN table = 1 .. n
    /\ \A i \in DOMAIN table : WrittenHost(table[i].host, names)

\* What the engine holds of each written rule of a policy that starts
\* (Policy::parse).
LEMMA RuleHeld ==
    ASSUME NEW names, Starts(raw, resolver), NetWritten(raw.net, names)
    PROVE  /\ DOMAIN Policy.net = DOMAIN raw.net
           /\ \A j \in DOMAIN raw.net :
                 /\ Policy.net[j].port = raw.net[j].port
                 /\ raw.net[j].host.shape = "exact" =>
                       /\ Policy.net[j].name = raw.net[j].host.name /\ Policy.net[j].ips = {}
                       /\ raw.net[j].host.name \in names \ {NoName}
                 /\ raw.net[j].host.shape # "exact" =>
                       /\ Policy.net[j].name = NoName
                       /\ Policy.net[j].ips = MatchedIps(parse_host(raw.net[j].host))
<1>. DEFINE Host(j) == raw.net[j].host
            Held(j) == Policy.net[j]
<1>1. /\ DOMAIN Policy.net = DOMAIN raw.net
      /\ \A j \in DOMAIN raw.net : Held(j) = NetRuleOf(raw.net[j])
  BY DEF Policy, parse
<1>2. \A j \in DOMAIN raw.net : parse_host(Host(j)) # BadHost
  BY DEF Starts, Rejected, Some
<1>3. \A j \in DOMAIN raw.net : WrittenHost(Host(j), names)
  BY DEF NetWritten
<1>4. \A j \in DOMAIN raw.net :
         /\ Held(j).port = raw.net[j].port
         /\ Host(j).shape = "exact" =>
               Held(j).name = Host(j).name /\ Held(j).ips = {} /\ Host(j).name \in names \ {NoName}
         /\ Host(j).shape # "exact" =>
               Held(j).name = NoName /\ Held(j).ips = MatchedIps(parse_host(Host(j)))
  <2>. SUFFICES ASSUME NEW j \in DOMAIN raw.net
                PROVE  /\ Held(j).port = raw.net[j].port
                       /\ Host(j).shape = "exact" =>
                             Held(j).name = Host(j).name /\ Held(j).ips = {}
                                 /\ Host(j).name \in names \ {NoName}
                       /\ Host(j).shape # "exact" =>
                             Held(j).name = NoName /\ Held(j).ips = MatchedIps(parse_host(Host(j)))
    OBVIOUS
  <2>. DEFINE h == Host(j)
              p == parse_host(h)
  <2>1. /\ Held(j).port = raw.net[j].port /\ Held(j).ips = MatchedIps(p)
        /\ Held(j).name = IF p.shape = "exact" THEN p.name ELSE NoName
    <3>. DEFINE r == raw.net[j]
    <3>1. Held(j) = NetRuleOf(r)
      BY <1>1
    <3>. HIDE DEF r, Held
    <3>2. /\ Held(j).port = r.port /\ Held(j).ips = MatchedIps(parse_host(r.host))
          /\ Held(j).name = IF parse_host(r.host).shape = "exact"
                            THEN parse_host(r.host).name ELSE NoName
      BY <3>1 DEF NetRuleOf
    <3>. QED
      BY <3>2 DEF r
  <2>2. p.shape = h.shape /\ (h.shape = "exact" => p = h)
    BY <1>2, <1>3, ShapeKept
  <2>3. h.shape = "exact" => h.name \in names \ {NoName}
    <3>1. WrittenHost(h, names)
      BY <1>3
    <3>. HIDE DEF h
    <3>. QED
      BY <3>1 DEF WrittenHost, BadHost
  <2>. HIDE DEF p, h, Held, Host
  <2>4. p.shape = "exact" => MatchedIps(p) = {}
    BY DEF MatchedIps
  <2>. QED
    BY <2>1, <2>2, <2>3, <2>4 DEF h, p
<1>. QED
  BY <1>1, <1>4

\* The engine's rule matches what the written rule says, for a policy that starts,
\* when the name supplied for the destination is right for it (net_matches).
LEMMA RuleMeans ==
    ASSUME NEW names, Starts(raw, resolver), NetWritten(raw.net, names),
           NEW written \in Addresses, NEW i \in DOMAIN raw.net,
           NEW request, request.ip = normalize_ip(written),
           raw.net[i].host.shape = "exact" =>
              (matches_hostname(Policy.net[i], request.hostname)
                  <=> normalize_ip(written) \in resolver[raw.net[i].host.name])
    PROVE  net_matches(Policy.net[i], request) <=>
               /\ raw.net[i].port \in {AnyPort, request.port}
               /\ HostNames(raw.net[i].host, written)
<1>. DEFINE ip == normalize_ip(written)
            host == raw.net[i].host
            held == Policy.net[i]
<1>1. /\ held.port = raw.net[i].port
      /\ host.shape = "exact" => held.ips = {}
      /\ host.shape # "exact" =>
            held.name = NoName /\ held.ips = MatchedIps(parse_host(host))
  BY RuleHeld
<1>2. parse_host(host) # BadHost /\ WrittenHost(host, names)
  BY DEF Starts, Rejected, Some, NetWritten
<1>3. matches_ip(held, request.ip) \/ matches_hostname(held, request.hostname)
          <=> HostNames(host, written)
  <2>1. CASE host.shape = "exact"
    <3>1. ~matches_ip(held, request.ip)
      BY <1>1, <2>1 DEF matches_ip
    <3>2. HostNames(host, written) <=> ip \in resolver[host.name]
      BY <2>1 DEF HostNames
    <3>. QED
      BY <2>1, <3>1, <3>2
  <2>2. CASE host.shape # "exact"
    <3>1. ~matches_hostname(held, request.hostname)
      BY <1>1, <2>2 DEF matches_hostname
    <3>2. ip \in MatchedIps(parse_host(host)) <=> HostNames(host, written)
      BY <1>2, <2>2, HostMeans
    <3>3. matches_ip(held, request.ip) <=> ip \in MatchedIps(parse_host(host))
      BY <1>1, <2>2 DEF matches_ip
    <3>. QED
      BY <3>1, <3>2, <3>3
  <2>. QED
    BY <2>1, <2>2
<1>. HIDE DEF host, ip, held
<1>4. net_matches(held, request) <=>
        /\ raw.net[i].port \in {AnyPort, request.port}
        /\ matches_ip(held, request.ip) \/ matches_hostname(held, request.hostname)
  BY <1>1 DEF net_matches
<1>. QED
  BY <1>3, <1>4 DEF host, held

\* The first rule that matches a destination decides it; without one it is
\* refused (Policy::first_match, Policy::evaluate).
LEMMA FirstRule ==
    ASSUME NEW policy, Rooted(policy), NEW request, request.family = "net"
    PROVE  LET decision == evaluate(policy, request, "enforce").decision
               Hit(i) == net_matches(policy.net[i], request)
           IN  \/ decision = "deny" /\ \A i \in DOMAIN policy.net : ~Hit(i)
               \/ \E i \in DOMAIN policy.net :
                     /\ Hit(i) /\ \A j \in DOMAIN policy.net : Hit(j) => i <= j
                     /\ decision = policy.net[i].action
<1>. DEFINE table == policy.net
            Hit(i) == net_matches(table[i], request)
            hits == {i \in DOMAIN table : Hit(i)}
            first == FirstOf(hits)
            decision == evaluate(policy, request, "enforce").decision
<1>1. /\ DOMAIN table \subseteq Nat
      /\ \A i \in DOMAIN table : table[i].action \in Verdict
  <2>1. "net" \in {"fs", "net", "exec"} /\ policy["net"] = policy.net
    OBVIOUS
  <2>. QED
    BY <2>1 DEF Rooted
<1>2. {i \in DOMAIN policy[request.family] :
          Matches(request.family, policy[request.family][i], request)} = hits
  BY DEF Matches
<1>3. CASE hits = {}
  <2>1. first_match(policy, request) = NoMatch
    BY <1>2, <1>3 DEF first_match
  <2>2. decision = "deny"
    BY <2>1 DEF evaluate
  <2>3. \A i \in DOMAIN table : ~Hit(i)
    BY <1>3
  <2>. QED
    BY <2>2, <2>3
<1>4. CASE hits # {}
  <2>1. first \in hits /\ \A j \in hits : first <= j
    <3>1. hits \in SUBSET Nat
      BY <1>1
    <3>. HIDE DEF hits
    <3>. QED
      BY <1>4, <3>1, FirstOfLeast
  <2>2. first_match(policy, request) =
           [action |-> table[first].action, matched |-> <<request.family, first>>]
    BY <1>2, <1>4 DEF first_match
  <2>3. table[first].action \in Verdict /\ first \in DOMAIN table
    BY <1>1, <2>1
  <2>4. decision = table[first].action
    <3>1. first_match(policy, request) # NoMatch
      BY <2>2, <2>3 DEF NoMatch, Verdict
    <3>. QED
      BY <2>2, <3>1 DEF evaluate
  <2>5. Hit(first) /\ \A j \in DOMAIN table : Hit(j) => first <= j
    BY <2>1
  <2>. HIDE DEF first, hits, decision
  <2>6. \E i \in DOMAIN table : /\ Hit(i) /\ \A j \in DOMAIN table : Hit(j) => i <= j
                                /\ decision = table[i].action
    BY <2>3, <2>4, <2>5
  <2>. QED
    BY <2>6 DEF decision
<1>. QED
  BY <1>3, <1>4

-----------------------------------------------------------------------------
(***************************************************************************)
(* The hosts and the resolvers of the instance, and the run.               *)
(***************************************************************************)

\* Its small numbers are addresses.
LEMMA SmallAddresses ==
    /\ \A n \in 0 .. 3 : <<"v4", n>> \in Addresses
    /\ \A n \in 0 .. 7 : <<"v6", n>> \in Addresses
    /\ ~IsMapped(<<"v6", 1>>)
<1>. DEFINE four == 2^2
            b4 == 2^V4Bits
            b6 == 2^V6Bits
            c4 == 2^(V4Bits - 2)
            c6 == 2^(V6Bits - V4Bits)
<1>1. /\ V4Bits \in Nat /\ V6Bits \in Nat /\ V4Bits < V6Bits /\ 2 <= V4Bits
      /\ V4Bits - 2 \in Nat /\ 2 + (V4Bits - 2) = V4Bits
      /\ V6Bits - V4Bits \in Nat /\ V4Bits + (V6Bits - V4Bits) = V6Bits
      /\ V6Bits - V4Bits - 1 \in Nat /\ 1 + (V6Bits - V4Bits - 1) = V6Bits - V4Bits
  BY WidthsAssumption, BoundsAssumption
<1>2. 2^1 = 2 /\ four = 4
  <2>1. 0 \in 0 .. V6Bits /\ 1 \in 0 .. V6Bits /\ 0 + 1 = 1 /\ 1 + 1 = 2
    BY <1>1
  <2>2. 2^(0 + 1) = 2 * 2^0 /\ 2^(1 + 1) = 2 * 2^1 /\ 2^0 = 1
    BY <2>1, PowersAssumption
  <2>. QED
    BY <2>1, <2>2
<1>3. b4 = four * c4
  <2>1. 2 + (V4Bits - 2) <= V6Bits
    BY <1>1
  <2>2. 2^(2 + (V4Bits - 2)) = 2^2 * 2^(V4Bits - 2)
    BY <1>1, <2>1, PowersMultiply
  <2>. QED
    BY <1>1, <2>2
<1>4. b6 = b4 * c6
  <2>1. V4Bits + (V6Bits - V4Bits) <= V6Bits
    BY <1>1
  <2>2. 2^(V4Bits + (V6Bits - V4Bits)) = 2^V4Bits * 2^(V6Bits - V4Bits)
    BY <1>1, <2>1, PowersMultiply
  <2>. QED
    BY <1>1, <2>2
<1>5. c4 \in Nat \ {0}
  <2>1. V4Bits - 2 \in 0 .. V6Bits
    BY <1>1
  <2>. QED
    BY <2>1, PowersAssumption
<1>6. \E x \in Nat \ {0} : c6 = 2 * x
  <2>1. 1 + (V6Bits - V4Bits - 1) <= V6Bits /\ V6Bits - V4Bits - 1 \in 0 .. V6Bits
    BY <1>1
  <2>2. 2^(1 + (V6Bits - V4Bits - 1)) = 2^1 * 2^(V6Bits - V4Bits - 1)
    BY <1>1, <2>1, PowersMultiply
  <2>3. 2^(V6Bits - V4Bits - 1) \in Nat \ {0}
    BY <2>1, PowersAssumption
  <2>. QED
    BY <1>1, <1>2, <2>2, <2>3
<1>. HIDE DEF four, b4, b6, c4, c6
<1>7. b4 \in Nat /\ b4 >= 4
  BY <1>2, <1>3, <1>5
<1>8. b6 \in Nat /\ b6 >= 8
  <2>1. PICK x \in Nat \ {0} : c6 = 2 * x
    BY <1>6
  <2>2. b6 = b4 * (2 * x)
    BY <1>4, <2>1
  <2>. QED
    BY <1>7, <2>2
<1>9. Widths["v4"] = V4Bits /\ Widths["v6"] = V6Bits
  BY DEF Widths
<1>10. \A n \in 0 .. 3 : <<"v4", n>> \in Addresses
  <2>1. \A n \in 0 .. 3 : n \in 0 .. 2^Widths["v4"] - 1
    <3>1. \A n \in 0 .. 3 : n \in 0 .. b4 - 1
      BY <1>7
    <3>. QED
      BY <1>9, <3>1 DEF b4
  <2>2. \A n \in 0 .. 3 : <<"v4", n>> \in {<<"v4", k>> : k \in 0 .. 2^Widths["v4"] - 1}
    BY <2>1, Zenon
  <2>. QED
    BY <2>2, Zenon DEF Addresses
<1>11. \A n \in 0 .. 7 : <<"v6", n>> \in Addresses
  <2>1. \A n \in 0 .. 7 : n \in 0 .. 2^Widths["v6"] - 1
    <3>1. \A n \in 0 .. 7 : n \in 0 .. b6 - 1
      BY <1>8
    <3>. QED
      BY <1>9, <3>1 DEF b6
  <2>2. \A n \in 0 .. 7 : <<"v6", n>> \in {<<"v6", k>> : k \in 0 .. 2^Widths["v6"] - 1}
    BY <2>1, Zenon
  <2>. QED
    BY <2>2, Zenon DEF Addresses
<1>12. ~IsMapped(<<"v6", 1>>)
  <2>1. 1 \div b4 = 0
    BY <1>7
  <2>. QED
    BY <2>1, BoundsAssumption DEF IsMapped, b4
<1>. QED
  BY <1>10, <1>11, <1>12

\* Its hosts are hosts a file can hold.
LEMMA HostsWritten == \A host \in Hosts : WrittenHost(host, Names)
<1>. SUFFICES ASSUME NEW host \in Hosts PROVE WrittenHost(host, Names)
  OBVIOUS
<1>1. CASE host \in {AnyHost, BadHost, [shape |-> "suffix"]}
  BY <1>1 DEF AnyHost, BadHost, WrittenHost
<1>2. ASSUME NEW addr \in Addresses, host = [shape |-> "ip", addr |-> addr]
      PROVE  WrittenHost(host, Names)
  <2>1. host.addr = addr
    BY <1>2
  <2>. QED
    BY <1>2, <2>1, Zenon DEF WrittenHost
<1>3. ASSUME NEW addr \in Addresses, NEW p \in Nat,
             host = [shape |-> "cidr", addr |-> addr, prefix |-> p]
      PROVE  WrittenHost(host, Names)
  <2>1. host.addr = addr /\ host.prefix = p
    BY <1>3
  <2>. QED
    BY <1>3, <2>1, Zenon DEF WrittenHost
<1>4. ASSUME NEW n \in Names, host = Exact(n) PROVE WrittenHost(host, Names)
  <2>1. host.name = n /\ host = [shape |-> "exact", name |-> n]
    BY <1>4 DEF Exact
  <2>2. n \in Names \ {NoName}
    BY DEF Names, NoName
  <2>. QED
    BY <2>1, <2>2, Zenon DEF WrittenHost
<1>5. CASE host \in {Ip("v4", 1), Ip("v6", 1), Ip("v6", 5)}
  <2>1. 1 \in 0 .. 3 /\ 1 \in 0 .. 7 /\ 5 \in 0 .. 7
    OBVIOUS
  <2>2. <<"v4", 1>> \in Addresses /\ <<"v6", 1>> \in Addresses /\ <<"v6", 5>> \in Addresses
    BY <2>1, SmallAddresses, Zenon
  <2>. QED
    BY <1>2, <1>5, <2>2, Zenon DEF Ip
<1>6. V4Bits \in Nat /\ V6Bits \in Nat
  BY WidthsAssumption
<1>7. CASE \E p \in 0 .. V4Bits + 1 : host = Cidr("v4", 2, p)
  <2>1. PICK p \in 0 .. V4Bits + 1 : host = Cidr("v4", 2, p)
    BY <1>7
  <2>2. p \in Nat /\ 2 \in 0 .. 3
    BY <1>6
  <2>. QED
    BY <1>3, <2>1, <2>2, SmallAddresses, Zenon DEF Cidr
<1>8. CASE \E n \in {2, 6}, p \in 0 .. V6Bits : host = Cidr("v6", n, p)
  <2>1. PICK n \in {2, 6}, p \in 0 .. V6Bits : host = Cidr("v6", n, p)
    BY <1>8
  <2>2. p \in Nat /\ n \in 0 .. 7
    BY <1>6
  <2>. QED
    BY <1>3, <2>1, <2>2, SmallAddresses, Zenon DEF Cidr
<1>9. \/ host \in {AnyHost, BadHost, [shape |-> "suffix"], Ip("v4", 1), Ip("v6", 1), Ip("v6", 5)}
      \/ host \in {Exact(n) : n \in Names}
      \/ host \in {Cidr("v4", 2, p) : p \in 0 .. V4Bits + 1}
      \/ host \in {Cidr("v6", n, p) : n \in {2, 6}, p \in 0 .. V6Bits}
  BY DEF Hosts
<1>10. CASE host \in {Cidr("v6", n, p) : n \in {2, 6}, p \in 0 .. V6Bits}
  BY <1>8, <1>10
<1>11. CASE host \in {Cidr("v4", 2, p) : p \in 0 .. V4Bits + 1}
  BY <1>7, <1>11
<1>12. CASE host \in {Exact(n) : n \in Names}
  BY <1>4, <1>12
<1>. QED
  BY <1>1, <1>5, <1>9, <1>10, <1>11, <1>12

\* Its network tables.
LEMMA WrittenNet ==
    ASSUME NEW file \in Files
    PROVE  /\ \E n \in Nat : DOMAIN file.net = 1 .. n
           /\ \A i \in DOMAIN file.net :
                 file.net[i].host \in Hosts /\ file.net[i].port \in {AnyPort, 0, 80}
<1>. DEFINE ones == NetRule(Hosts, {AnyPort, 0, 80}, Verdict)
            rules == NetRule(Hosts, {AnyPort, 80}, {"allow", "deny"})
            others == NetRule({AnyHost, Exact("a"), Exact("b")}, {AnyPort, 80},
                              {"allow", "ask"})
            Rule(r) == r.host \in Hosts /\ r.port \in {AnyPort, 0, 80}
            OK(table) == /\ \E n \in Nat : DOMAIN table = 1 .. n
                         /\ \A i \in DOMAIN table : Rule(table[i])
<1>1. {AnyHost, Exact("a"), Exact("b")} \subseteq Hosts
  <2>1. "a" \in Names /\ "b" \in Names
    BY DEF Names
  <2>2. Exact("a") \in {Exact(n) : n \in Names} /\ Exact("b") \in {Exact(n) : n \in Names}
    BY <2>1, Zenon
  <2>3. AnyHost \in Hosts
    BY DEF Hosts
  <2>4. {Exact(n) : n \in Names} \subseteq Hosts
    BY DEF Hosts
  <2>. QED
    BY <2>2, <2>3, <2>4, Zenon
<1>2. (\A r \in ones : Rule(r)) /\ (\A r \in rules : Rule(r)) /\ (\A r \in others : Rule(r))
  <2>1. \A r \in ones : Rule(r)
    BY DEF NetRule
  <2>2. \A r \in rules : Rule(r)
    BY DEF NetRule
  <2>3. \A r \in others : Rule(r)
    <3>. SUFFICES ASSUME NEW r \in others PROVE Rule(r)
      OBVIOUS
    <3>1. r.host \in {AnyHost, Exact("a"), Exact("b")} /\ r.port \in {AnyPort, 80}
      BY DEF NetRule
    <3>. QED
      BY <1>1, <3>1, Zenon
  <2>. QED
    BY <2>1, <2>2, <2>3
<1>3. ASSUME NEW table \in NetTables PROVE OK(table)
  <2>1. \/ \E r \in ones : table = <<r>>
        \/ \E r \in rules, r2 \in others : table = <<r, r2>>
    BY DEF NetTables
  <2>. HIDE DEF ones, rules, others, Rule
  <2>2. CASE \E r \in ones : table = <<r>>
    <3>1. DOMAIN table = 1 .. 1 /\ \A i \in DOMAIN table : Rule(table[i])
      BY <1>2, <2>2
    <3>. QED
      BY <3>1
  <2>3. CASE \E r \in rules, r2 \in others : table = <<r, r2>>
    <3>1. DOMAIN table = 1 .. 2 /\ \A i \in DOMAIN table : Rule(table[i])
      BY <1>2, <2>3
    <3>. QED
      BY <3>1
  <2>. QED
    BY <2>1, <2>2, <2>3
<1>4. OK(<<>>)
  <2>1. DOMAIN <<>> = 1 .. 0 /\ \A i \in DOMAIN <<>> : FALSE
    OBVIOUS
  <2>. HIDE DEF Rule
  <2>. QED
    BY <2>1
<1>. HIDE DEF OK
<1>5. file.net \in NetTables \cup {<<>>}
  <2>1. CASE \E net \in NetTables : file = File(1, <<>>, net, <<>>)
    BY <2>1 DEF File
  <2>2. CASE \E fs \in FsTables : file = File(1, fs, <<>>, <<>>)
    BY <2>2 DEF File
  <2>3. CASE \E exec \in ExecTables : file = File(1, <<>>, <<>>, exec)
    BY <2>3 DEF File
  <2>4. CASE file \in {File(2, <<>>, <<>>, <<>>), File(1, <<>>, <<>>, <<>>)}
    BY <2>4 DEF File
  <2>. QED
    BY <2>1, <2>2, <2>3, <2>4, Zenon DEF Files
<1>6. OK(file.net)
  BY <1>3, <1>4, <1>5
<1>. QED
  BY <1>6 DEF OK

\* A run that goes on was accepted whole: its file loads and its hosts resolve.
Accepted ==
    /\ raw \in Files /\ resolver \in Resolvers
    /\ stage # "running" => query = NoQuery
    /\ stage = "running" => Starts(raw, resolver)

\* It stays so.
LEMMA AcceptedInvariance == Spec => []Accepted
<1>1. Init => Accepted
  BY DEF Init, Accepted
<1>2. Accepted /\ [Next]_vars => Accepted'
  <2>. SUFFICES ASSUME Accepted, [Next]_vars PROVE Accepted'
    OBVIOUS
  <2>1. CASE Prepare
    BY <2>1 DEF Prepare, Accepted
  <2>2. CASE Replace \/ Connect \/ Touch \/ Require
    <3>1. UNCHANGED <<raw, resolver, stage>> /\ stage = "running"
      BY <2>2 DEF Replace, Connect, Touch, Require
    <3>. QED
      BY <3>1 DEF Accepted
  <2>3. CASE UNCHANGED vars
    BY <2>3 DEF vars, Accepted
  <2>. QED
    BY <2>1, <2>2, <2>3 DEF Next, Answered
<1>. QED
  BY <1>1, <1>2, PTL DEF Spec

\* Its tables are what RuleMeans asks for.
LEMMA AcceptedNet ==
    ASSUME Accepted
    PROVE  NetWritten(raw.net, Names)
BY WrittenNet, HostsWritten DEF Accepted, NetWritten

\* One destination in the run.
LEMMA ConnectApplies ==
    ASSUME Accepted, Connect
    PROVE  HostRulesApply'
<1>1. PICK written \in Addresses, port \in Ports :
          /\ query' = <<"net", written, port>>
          /\ verdict' = Decide([family |-> "net", ip |-> parse_sockaddr(written),
                                port |-> port,
                                hostname |-> resolved_hostname(Policy, resolver,
                                                 parse_sockaddr(written))])
  BY Zenon DEF Connect
<1>. DEFINE request == [family |-> "net", ip |-> parse_sockaddr(written), port |-> port,
                        hostname |-> resolved_hostname(Policy, resolver,
                                         parse_sockaddr(written))]
            Applies(r) == r.port \in {AnyPort, port} /\ HostNames(r.host, written)
            decision == evaluate(Policy, request, "enforce").decision
<1>2. /\ request.family = "net" /\ request.port = port /\ request.ip = normalize_ip(written)
      /\ request.hostname = resolved_hostname(Policy, resolver, normalize_ip(written))
  BY DEF parse_sockaddr
<1>3. verdict' = finalize_decision(decision, "approved")
  BY <1>1, Zenon DEF Decide
<1>4. UNCHANGED <<raw, resolver>> /\ Starts(raw, resolver)
  BY DEF Connect, Accepted
<1>. HIDE DEF request
<1>5. Rooted(Policy)
  BY FilesRooted DEF Policy, Accepted
<1>6. verdict'.event = decision
  <2>1. request.family \in {"fs", "net", "exec"}
    BY <1>2
  <2>. QED
    BY <1>3, <1>5, <2>1, Decided
<1>7. DOMAIN Policy.net = DOMAIN raw.net
      /\ \A i \in DOMAIN raw.net : Policy.net[i].action = raw.net[i].action
  BY DEF Policy, parse, NetRuleOf
<1>. DEFINE ip == normalize_ip(written)
            Shared == \E i, j \in DOMAIN raw.net :
                         /\ raw.net[i].host.shape = "exact" /\ HostNames(raw.net[i].host, written)
                         /\ raw.net[j].host.shape = "exact" /\ HostNames(raw.net[j].host, written)
                         /\ raw.net[i].host.name # raw.net[j].host.name
<1>a. Shared => SharedAddress(query[2])'
  <2>1. query'[2] = written
    BY <1>1
  <2>. QED
    BY <1>4, <2>1 DEF SharedAddress, NamedIn, HostNames, BlockNames
<1>. HIDE DEF ip, Shared
<1>. SUFFICES ASSUME ~Shared PROVE HostRulesApply'
  BY <1>a, Zenon DEF HostRulesApply
<1>8. \A i \in DOMAIN raw.net : net_matches(Policy.net[i], request) <=> Applies(raw.net[i])
  <2>. SUFFICES ASSUME NEW i \in DOMAIN raw.net
                PROVE  net_matches(Policy.net[i], request) <=> Applies(raw.net[i])
    OBVIOUS
  <2>1. /\ DOMAIN Policy.net = DOMAIN raw.net /\ DOMAIN raw.net \subseteq Nat
        /\ \A k \in DOMAIN raw.net :
              /\ raw.net[k].host.shape = "exact" =>
                    Policy.net[k].name = raw.net[k].host.name /\ Policy.net[k].name # NoName
              /\ raw.net[k].host.shape # "exact" => Policy.net[k].name = NoName
    <3>1. NetWritten(raw.net, Names) /\ Starts(raw, resolver)
      BY <1>4, AcceptedNet
    <3>2. DOMAIN raw.net \subseteq Nat
      BY <3>1 DEF NetWritten
    <3>. QED
      BY <3>1, <3>2, RuleHeld
  <2>2. Unshared(Policy, resolver, ip)
    <3>. SUFFICES ASSUME NEW k \in DOMAIN Policy.net, NEW l \in DOMAIN Policy.net,
                         Policy.net[k].name # NoName, ip \in resolver[Policy.net[k].name],
                         Policy.net[l].name # NoName, ip \in resolver[Policy.net[l].name]
                  PROVE  Policy.net[k].name = Policy.net[l].name
      BY DEF Unshared
    <3>1. /\ raw.net[k].host.shape = "exact" /\ raw.net[l].host.shape = "exact"
          /\ Policy.net[k].name = raw.net[k].host.name
          /\ Policy.net[l].name = raw.net[l].host.name
      BY <2>1
    <3>2. HostNames(raw.net[k].host, written) /\ HostNames(raw.net[l].host, written)
      BY <3>1 DEF HostNames, ip
    <3>. QED
      BY <2>1, <3>1, <3>2 DEF Shared
  <2>3. matches_hostname(Policy.net[i], resolved_hostname(Policy, resolver, ip))
               <=> Policy.net[i].name # NoName /\ ip \in resolver[Policy.net[i].name]
    BY <2>1, <2>2, NameMeans
  <2>4. raw.net[i].host.shape = "exact" =>
              (matches_hostname(Policy.net[i], request.hostname)
                  <=> normalize_ip(written) \in resolver[raw.net[i].host.name])
    BY <1>2, <2>1, <2>3 DEF ip
  <2>5. NetWritten(raw.net, Names) /\ Starts(raw, resolver)
    BY <1>4, AcceptedNet
  <2>6. net_matches(Policy.net[i], request) <=>
               /\ raw.net[i].port \in {AnyPort, request.port}
               /\ HostNames(raw.net[i].host, written)
    BY <1>2, <2>4, <2>5, RuleMeans
  <2>. QED
    BY <1>2, <2>6
<1>9. PICK n \in Nat : DOMAIN raw.net = 1 .. n
  BY AcceptedNet DEF NetWritten
<1>. HIDE DEF decision
<1>10. \/ decision = "deny" /\ \A i \in DOMAIN raw.net : ~Applies(raw.net[i])
       \/ \E i \in DOMAIN raw.net :
             /\ Applies(raw.net[i]) /\ \A j \in DOMAIN raw.net : Applies(raw.net[j]) => i <= j
             /\ decision = raw.net[i].action
  <2>1. \/ decision = "deny" /\ \A i \in DOMAIN Policy.net : ~net_matches(Policy.net[i], request)
        \/ \E i \in DOMAIN Policy.net :
              /\ net_matches(Policy.net[i], request)
              /\ \A j \in DOMAIN Policy.net : net_matches(Policy.net[j], request) => i <= j
              /\ decision = Policy.net[i].action
    BY <1>2, <1>5, FirstRule DEF decision
  <2>. HIDE DEF Applies
  <2>. QED
    BY <1>7, <1>8, <2>1
<1>11. query'[1] = "net" /\ query'[2] = written /\ query'[3] = port
  BY <1>1
<1>12. \A r : (r.port \in {AnyPort, query'[3]} /\ HostNames(r.host, query[2])') <=> Applies(r)
  BY <1>4, <1>11 DEF HostNames, BlockNames
<1>. HIDE DEF Applies
<1>13. \/ verdict'.event = "deny" /\ \A i \in DOMAIN raw.net : ~Applies(raw.net[i])
       \/ \E i \in DOMAIN raw.net :
             /\ Applies(raw.net[i]) /\ \A j \in 1 .. (i - 1) : ~Applies(raw.net[j])
             /\ verdict'.event = raw.net[i].action
  <2>1. ASSUME NEW i \in DOMAIN raw.net,
               \A j \in DOMAIN raw.net : Applies(raw.net[j]) => i <= j,
               NEW j \in 1 .. (i - 1)
        PROVE  ~Applies(raw.net[j])
    <3>1. j \in DOMAIN raw.net /\ ~(i <= j)
      BY <1>9
    <3>. QED
      BY <2>1, <3>1
  <2>. QED
    BY <1>6, <1>10, <2>1
<1>14. DecidedByFirst(query[2], query[3])'
  BY <1>4, <1>11, <1>12, <1>13, Zenon DEF DecidedByFirst
<1>. QED
  BY <1>14, Zenon DEF HostRulesApply

\* The first written rule that names a destination decides it, however rule and
\* destination spell an address, for every width of the address families, unless
\* two names of the policy have the address
\* (HostRule::parse, normalize_ip, parse_sockaddr, resolve_policy_hosts,
\* resolved_hostname and net_matches together).
THEOREM WrittenHostsDecide == Spec => []HostRulesApply
<1>1. Init => HostRulesApply
  BY DEF Init, NoQuery, HostRulesApply
<1>2. Accepted /\ HostRulesApply /\ [Next]_vars => HostRulesApply'
  <2>. SUFFICES ASSUME Accepted, HostRulesApply, [Next]_vars PROVE HostRulesApply'
    OBVIOUS
  <2>1. CASE Prepare \/ Replace
    <3>1. query' = NoQuery
      BY <2>1 DEF Prepare, Replace, Accepted
    <3>2. query'[1] # "net"
      BY <3>1 DEF NoQuery
    <3>. QED
      BY <3>2, Zenon DEF HostRulesApply
  <2>2. CASE Connect
    BY <2>2, ConnectApplies
  <2>3. CASE Touch
    <3>1. \E path, access : query' = <<"path", path, access>>
      BY <2>3, Zenon DEF Touch
    <3>2. query'[1] # "net"
      BY <3>1
    <3>. QED
      BY <3>2, Zenon DEF HostRulesApply
  <2>4. CASE Require
    <3>1. query'[1] # "net"
      BY <2>4 DEF Require
    <3>. QED
      BY <3>1, Zenon DEF HostRulesApply
  <2>5. CASE UNCHANGED vars
    <3>1. UNCHANGED <<raw, resolver, query, verdict>>
      BY <2>5 DEF vars
    <3>2. SharedAddress(query[2])' <=> SharedAddress(query[2])
      BY <3>1 DEF SharedAddress, NamedIn, HostNames, BlockNames
    <3>3. DecidedByFirst(query[2], query[3])' <=> DecidedByFirst(query[2], query[3])
      BY <3>1 DEF DecidedByFirst, HostNames, BlockNames
    <3>. QED
      BY <3>1, <3>2, <3>3, Zenon DEF HostRulesApply
  <2>. QED
    BY <2>1, <2>2, <2>3, <2>4, <2>5 DEF Next, Answered
<1>. QED
  BY <1>1, <1>2, AcceptedInvariance, PTL DEF Spec

-----------------------------------------------------------------------------
(***************************************************************************)
(* No network rule of a run that starts is without effect.                 *)
(***************************************************************************)

\* An address a literal or a block spells is one it names.
LEMMA NamesItself ==
    ASSUME NEW addr \in Addresses
    PROVE  /\ BlockNames(addr, Widths[addr[1]], addr)
           /\ \A prefix \in Nat :
                 (prefix <= Widths[addr[1]] /\ (IsMapped(addr) => prefix >= MappedBits))
                    => BlockNames(addr, prefix, addr)
<1>1. BlockNames(addr, Widths[addr[1]], addr)
  BY LiteralMeans
<1>2. ASSUME NEW prefix \in Nat, prefix <= Widths[addr[1]],
             IsMapped(addr) => prefix >= MappedBits
      PROVE  BlockNames(addr, prefix, addr)
  <2>1. \A x, p : cidr_contains(x, p, x)
    BY DEF cidr_contains
  <2>. QED
    BY <1>2, <2>1, BlockMeans
<1>. QED
  BY <1>1, <1>2

\* A written host that resolves and parses names a destination, of a name one the
\* resolver gave.
LEMMA SomeDestination ==
    ASSUME Accepted, NEW host, WrittenHost(host, Names), parse_host(host) # BadHost,
           host.shape # "suffix", host.shape = "exact" => resolver[host.name] # {}
    PROVE  \E written \in Addresses : HostNames(host, written)
<1>1. host # BadHost
  BY DEF parse_host, BadHost
<1>2. CASE host.shape = "any"
  <2>1. 0 \in 0 .. 3
    OBVIOUS
  <2>2. <<"v4", 0>> \in Addresses
    BY <2>1, SmallAddresses, Zenon
  <2>3. HostNames(host, <<"v4", 0>>)
    BY <1>2 DEF HostNames
  <2>. QED
    BY <2>2, <2>3
<1>3. CASE host.shape = "exact" /\ host.name \in Names
  <2>1. PICK ip \in resolver[host.name] : TRUE
    BY <1>3
  <2>2. ip = <<"v4", 1>> \/ ip = <<"v6", 1>>
    BY <1>3, <2>1 DEF Accepted, Resolvers
  <2>3. ip \in Addresses
    <3>1. 1 \in 0 .. 3 /\ 1 \in 0 .. 7
      OBVIOUS
    <3>. QED
      BY <2>2, <3>1, SmallAddresses, Zenon
  <2>4. normalize_ip(ip) = ip
    <3>1. ~IsMapped(ip)
      BY <2>2, SmallAddresses DEF IsMapped
    <3>. QED
      BY <3>1 DEF normalize_ip
  <2>5. HostNames(host, ip)
    BY <1>3, <2>1, <2>4 DEF HostNames
  <2>. QED
    BY <2>3, <2>5
<1>4. CASE host = [shape |-> "ip", addr |-> host.addr] /\ host.addr \in Addresses
  <2>1. host.shape = "ip"
    BY <1>4
  <2>2. HostNames(host, host.addr)
    BY <1>4, <2>1, NamesItself DEF HostNames
  <2>. QED
    BY <1>4, <2>2
<1>5. CASE /\ host = [shape |-> "cidr", addr |-> host.addr, prefix |-> host.prefix]
           /\ host.addr \in Addresses /\ host.prefix \in Nat
  <2>1. host.shape = "cidr"
    BY <1>5
  <2>2. BlockNames(host.addr, host.prefix, host.addr)
    BY <1>5, CidrAccepted, NamesItself
  <2>3. HostNames(host, host.addr)
    BY <2>1, <2>2 DEF HostNames
  <2>. QED
    BY <1>5, <2>3
<1>6. CASE host = [shape |-> "exact", name |-> host.name] /\ host.name \in Names \ {NoName}
  <2>1. host.shape = "exact"
    BY <1>6
  <2>. QED
    BY <1>3, <1>6, <2>1
<1>. QED
  BY <1>1, <1>2, <1>4, <1>5, <1>6, Zenon DEF WrittenHost

\* A network rule of a run that starts decides a destination, or names some and an
\* earlier name has them all.
LEMMA LiveHosts ==
    ASSUME Accepted, stage = "running", NEW i \in DOMAIN raw.net
    PROVE  \/ \E written \in Addresses, port \in Ports \ {0} :
                LET ip == parse_sockaddr(written)
                IN  net_matches(Policy.net[i],
                       [ip |-> ip, port |-> port,
                        hostname |-> resolved_hostname(Policy, resolver, ip)])
           \/ /\ \E written \in Addresses : NamedIn(i, written)
              /\ \A written \in Addresses : NamedIn(i, written) => Eclipsed(i, written)
<1>. DEFINE rule == raw.net[i]
            host == rule.host
<1>1. Starts(raw, resolver) /\ NetWritten(raw.net, Names)
  BY AcceptedNet DEF Accepted
<1>2. WrittenHost(host, Names) /\ rule.port \in {AnyPort, 0, 80} /\ rule.port # 0
      /\ parse_host(host) # BadHost
  <2>1. rule.port # 0 /\ parse_host(host) # BadHost
    BY <1>1 DEF Starts, Rejected, Some
  <2>2. rule.port \in {AnyPort, 0, 80}
    BY WrittenNet DEF Accepted
  <2>. QED
    BY <1>1, <2>1, <2>2 DEF NetWritten
<1>3. host.shape # "suffix" /\ (host.shape = "exact" => resolver[host.name] # {})
  BY <1>1 DEF Starts, Unresolvable, Some
<1>4. \E written \in Addresses : HostNames(host, written)
  <2>. HIDE DEF host
  <2>. QED
    BY <1>2, <1>3, SomeDestination
<1>5. /\ DOMAIN Policy.net = DOMAIN raw.net /\ DOMAIN raw.net \subseteq Nat
      /\ \A k \in DOMAIN raw.net :
            /\ raw.net[k].host.shape = "exact" =>
                  Policy.net[k].name = raw.net[k].host.name /\ Policy.net[k].name # NoName
            /\ raw.net[k].host.shape # "exact" => Policy.net[k].name = NoName
  <2>1. DOMAIN raw.net \subseteq Nat
    BY <1>1 DEF NetWritten
  <2>. QED
    BY <1>1, <2>1, RuleHeld
<1>6. SUFFICES ASSUME host.shape = "exact" =>
                         \E written \in Addresses :
                            HostNames(host, written) /\ ~Eclipsed(i, written)
               PROVE  \E written \in Addresses, port \in Ports \ {0} :
                         LET ip == parse_sockaddr(written)
                         IN  net_matches(Policy.net[i],
                                [ip |-> ip, port |-> port,
                                 hostname |-> resolved_hostname(Policy, resolver, ip)])
  BY <1>4 DEF NamedIn
<1>7. PICK written \in Addresses :
          HostNames(host, written) /\ (host.shape = "exact" => ~Eclipsed(i, written))
  BY <1>4, <1>6
<1>. DEFINE ip == parse_sockaddr(written)
            request == [ip |-> ip, port |-> 80,
                        hostname |-> resolved_hostname(Policy, resolver, ip)]
<1>8. /\ request.port = 80 /\ request.ip = normalize_ip(written)
      /\ request.hostname = resolved_hostname(Policy, resolver, normalize_ip(written))
  BY DEF parse_sockaddr
<1>9. ASSUME host.shape = "exact"
      PROVE  /\ normalize_ip(written) \in resolver[host.name]
             /\ matches_hostname(Policy.net[i],
                   resolved_hostname(Policy, resolver, normalize_ip(written)))
  <2>1. normalize_ip(written) \in resolver[host.name]
    BY <1>7, <1>9 DEF HostNames
  <2>2. ASSUME NEW j \in DOMAIN Policy.net, j < i, Policy.net[j].name # NoName,
               normalize_ip(written) \in resolver[Policy.net[j].name]
        PROVE  Policy.net[j].name = Policy.net[i].name
    <3>1. raw.net[j].host.shape = "exact" /\ Policy.net[j].name = raw.net[j].host.name
      BY <1>5, <2>2
    <3>2. NamedIn(j, written)
      BY <2>2, <3>1 DEF NamedIn, HostNames
    <3>3. j \in 1 .. (i - 1)
      <4>1. PICK n \in Nat : DOMAIN raw.net = 1 .. n
        BY <1>1 DEF NetWritten
      <4>2. j \in 1 .. n /\ i \in 1 .. n
        BY <1>5, <4>1
      <4>. QED
        BY <2>2, <4>2
    <3>4. raw.net[j].host.name = raw.net[i].host.name
      BY <1>7, <1>9, <3>2, <3>3 DEF Eclipsed
    <3>. QED
      BY <1>5, <1>9, <3>1, <3>4
  <2>3. /\ i \in DOMAIN Policy.net /\ DOMAIN Policy.net \subseteq Nat
        /\ Policy.net[i].name # NoName
        /\ normalize_ip(written) \in resolver[Policy.net[i].name]
    BY <1>5, <1>9, <2>1
  <2>. QED
    BY <2>1, <2>2, <2>3, NameSupplied
<1>. HIDE DEF request
<1>10. net_matches(Policy.net[i], request) <=>
               /\ raw.net[i].port \in {AnyPort, request.port}
               /\ HostNames(raw.net[i].host, written)
  BY <1>1, <1>8, <1>9, RuleMeans
<1>11. net_matches(Policy.net[i], request)
  BY <1>2, <1>7, <1>8, <1>10
<1>12. 80 \in Ports \ {0}
  BY DEF Ports
<1>13. net_matches(Policy.net[i], [ip |-> ip, port |-> 80,
                        hostname |-> resolved_hostname(Policy, resolver, ip)])
  BY <1>11 DEF request
<1>. QED
  BY <1>12, <1>13, Zenon

\* Every network rule of a run that starts can decide some destination, but for a
\* name of which an earlier name has every address (Policy::parse rejects a file
\* whole, resolve_policy_hosts refuses a name without an address).
THEOREM NetRulesAreLive == Spec => []NoDeadNetRule
<1>1. Accepted => NoDeadNetRule
  BY LiveHosts, Zenon DEF NoDeadNetRule
<1>. QED
  BY <1>1, AcceptedInvariance, PTL
=============================================================================
