------------------------------ MODULE Landlock ------------------------------
(***************************************************************************)
(* The Landlock hull (sandbox/landlock.rs): the rights derived from a      *)
(* policy, the anchors opened for them, the ruleset built from the anchors *)
(* and what the kernel then permits.                                       *)
(*                                                                         *)
(* An absolute path is the sequence of its components; the tree is a       *)
(* function from the paths that exist to "file" or "dir", with the root    *)
(* in it.  The make rights of the node types other than a regular file     *)
(* and a directory, which no operation tells apart, are MAKE_NODE.         *)
(***************************************************************************)
EXTENDS PolicyEngine, SequencesExt

ABI_TRUNCATE == 3
ABI_NET == 4
MaxPort == 65535

FS_READ_RIGHTS == {"READ_FILE", "READ_DIR"}
FS_WRITE_RIGHTS == {"WRITE_FILE", "TRUNCATE"}
FS_CREATE_RIGHTS == {"MAKE_REG", "MAKE_DIR", "MAKE_NODE", "REFER"}
FS_DELETE_RIGHTS == {"REMOVE_DIR", "REMOVE_FILE", "REFER", "TRUNCATE"}

FS_DIRECTORY_ONLY_RIGHTS == {"READ_DIR", "REMOVE_DIR"} \cup FS_CREATE_RIGHTS

anchor_rights(rights, is_directory) ==
    IF is_directory THEN rights ELSE rights \ FS_DIRECTORY_ONLY_RIGHTS

handled_fs_rights(abi) ==
    (FS_READ_RIGHTS \cup FS_WRITE_RIGHTS \cup FS_CREATE_RIGHTS
        \cup FS_DELETE_RIGHTS \cup {"EXECUTE"})
    \ IF abi >= ABI_TRUNCATE THEN {} ELSE {"TRUNCATE"}

ModeRights ==
    [read |-> FS_READ_RIGHTS, write |-> FS_WRITE_RIGHTS,
     create |-> FS_CREATE_RIGHTS, delete |-> FS_DELETE_RIGHTS]

fs_modes_to_rights(modes, abi) ==
    (UNION {ModeRights[m] : m \in modes}) \cap handled_fs_rights(abi)

-----------------------------------------------------------------------------
(***************************************************************************)
(* hierarchy_root_from_glob, on the characters of an expanded pattern.     *)
(***************************************************************************)

\* Mutant of hierarchy_root_from_glob: the text before the first
\* metacharacter is not cut back to a whole component.
RootUncut(pattern) ==
    LET metas == {i \in DOMAIN pattern : pattern[i] \in {"*", "?"}}
    IN  IF metas = {} THEN pattern ELSE SubSeq(pattern, 1, Min(metas) - 1)

\* A pattern without a metacharacter is its own root.  Otherwise the literal
\* text before the first one is cut back to whole components: all separators
\* at its end go, or the piece after its last separator with that separator.
hierarchy_root_from_glob(pattern) ==
    LET metas   == {i \in DOMAIN pattern : pattern[i] \in {"*", "?"}}
        literal == SubSeq(pattern, 1, Min(metas) - 1)
        cuts    == {i \in DOMAIN literal : literal[i] = "/"}
        names   == DOMAIN literal \ cuts
    IN  IF metas = {} THEN pattern
        ELSE IF names = {} \/ cuts = {1} THEN <<"/">>
        ELSE IF Max(names) < Len(literal) THEN SubSeq(literal, 1, Max(names))
        ELSE IF cuts = {} THEN <<".">>
        ELSE SubSeq(literal, 1, Max(cuts) - 1)

-----------------------------------------------------------------------------
(***************************************************************************)
(* derive_hull: what an allow or an ask could permit, deny rules ignored.  *)
(* A rule carries the root of its glob.                                    *)
(***************************************************************************)

\* Mutant of Widens: an ask is taken for a refusal.
WidensAllow(rule) == rule.action = "allow"

Widens(rule) == rule.action \in {"allow", "ask"}

AllPorts == 1 .. MaxPort

\* One rule without a port grants every port.
derive_net_grant(net) ==
    LET ports == {net[i].port : i \in {j \in DOMAIN net : Widens(net[j])}}
    IN  IF AnyPort \in ports THEN AllPorts ELSE ports

\* Mutant of policy_uses_truncate: only what widens the hull counts.
TruncateWidens(policy) ==
    \E i \in DOMAIN policy.fs : Widens(policy.fs[i]) /\ "write" \in policy.fs[i].mode

policy_uses_truncate(policy) ==
    \E i \in DOMAIN policy.fs : "write" \in policy.fs[i].mode

\* Every grant: the workspace base, then the rules.
FsGrants(policy, abi) ==
    {[root |-> policy.workspace_root, rights |-> fs_modes_to_rights(Access, abi)]}
    \cup {[root |-> policy.fs[i].root,
           rights |-> fs_modes_to_rights(policy.fs[i].mode, abi)] :
             i \in {j \in DOMAIN policy.fs : Widens(policy.fs[j])}}
    \cup {[root |-> policy.exec[i].root, rights |-> {"EXECUTE"}] :
             i \in {j \in DOMAIN policy.exec : Widens(policy.exec[j])}}

\* add_fs_grant joins the rights of grants with the same root.
derive_hull(policy, abi) ==
    LET grants == FsGrants(policy, abi)
    IN  [fs |-> [root \in {g.root : g \in grants} |->
                    UNION {g.rights : g \in {h \in grants : h.root = root}}],
         net |-> derive_net_grant(policy.net),
         handled_fs |-> handled_fs_rights(abi),
         handled_net |-> abi >= ABI_NET,
         residuals |-> {"tcp_host"}
            \cup (IF policy_uses_truncate(policy) /\ abi < ABI_TRUNCATE
                  THEN {"fs_truncate"} ELSE {})
            \cup (IF policy.net # <<>> /\ abi < ABI_NET THEN {"tcp_port"} ELSE {})]

-----------------------------------------------------------------------------
(***************************************************************************)
(* The ruleset, built in the parent from descriptors opened once.          *)
(***************************************************************************)

deepest_existing_ancestor(tree, path) ==
    SubSeq(path, 1, Max({n \in 0 .. Len(path) : SubSeq(path, 1, n) \in DOMAIN tree}))

open_anchor(tree, root, rights) ==
    LET resolved == deepest_existing_ancestor(tree, root)
    IN  [root |-> resolved,
         rights |-> anchor_rights(rights, tree[resolved] = "dir")]

NoRuleset == [anchors |-> {}, ports |-> {}, built |-> FALSE]

\* The kernel: a rule on a plain file may only grant what makes sense for one.
FileRights == {"EXECUTE", "WRITE_FILE", "READ_FILE", "TRUNCATE"}
landlock_add_rule(tree, anchor) ==
    tree[anchor.root] = "dir" \/ anchor.rights \subseteq FileRights

\* The first rule the kernel rejects fails the launch; an anchor left without
\* rights adds no rule.
prepare_ruleset(tree, hull) ==
    LET anchors == {open_anchor(tree, root, hull.fs[root]) : root \in DOMAIN hull.fs}
    IN  IF \E a \in anchors : a.rights # {} /\ ~landlock_add_rule(tree, a)
        THEN NoRuleset
        ELSE [anchors |-> {a \in anchors : a.rights # {}},
              ports |-> IF hull.handled_net THEN hull.net ELSE {},
              built |-> TRUE]

-----------------------------------------------------------------------------
(***************************************************************************)
(* The kernel's check of a restricted task.  A rule belongs to the object  *)
(* that was opened, not to its name.                                       *)
(***************************************************************************)

Granted(ruleset, hull, replaced, right, path) ==
    \/ right \notin hull.handled_fs
    \/ \E a \in ruleset.anchors :
          IsPrefix(a.root, path) /\ right \in a.rights /\ a.root \notin replaced

\* The rights an operation needs, and the path they are looked up at: the
\* object itself, or the directory an entry is made in or removed from.
Needs(tree, access, path) ==
    CASE access = "read"   -> IF tree[path] = "dir" THEN {"READ_DIR"} ELSE {"READ_FILE"}
      [] access = "write"  -> FS_WRITE_RIGHTS
      [] access = "exec"   -> {"EXECUTE"}
      [] access = "create" -> {"MAKE_REG"}
      [] access = "delete" -> IF tree[path] = "dir" THEN {"REMOVE_DIR"} ELSE {"REMOVE_FILE"}

KernelPermits(ruleset, hull, tree, replaced, access, path) ==
    \A right \in Needs(tree, access, path) :
        Granted(ruleset, hull, replaced, right,
                IF access \in {"create", "delete"} THEN Front(path) ELSE path)

KernelPermitsTcp(ruleset, hull, port) == hull.handled_net => port \in ruleset.ports
=============================================================================
