-------------------------------- MODULE Glob --------------------------------
(***************************************************************************)
(* The glob matcher of policy rules (policy/glob.rs): Glob::compile, then  *)
(* is_match as the two nested loops match_segments and units_match, one    *)
(* action per branch of a loop body.                                       *)
(*                                                                         *)
(* A pattern and a path are sequences of characters.  Both loops keep a    *)
(* cursor: the positions in the pattern and in the text, and those         *)
(* remembered at the last star, to which alone a mismatch goes back.       *)
(***************************************************************************)
EXTENDS Integers, Sequences, FiniteSets, SequencesExt

CONSTANTS
    Inputs,         \* pairs of a raw pattern of a policy and a path matched against it
    Workspace, Home \* the absolute paths of ExpandContext

Separator == "/"

VARIABLES
    raw, path,      \* the arguments
    pattern,        \* the raw pattern with its leading token expanded
    segments, text, \* the pattern and the path split at the separators
    pc,             \* compile, segments, units, rejected, done
    outer, inner,   \* the cursors of match_segments and units_match
    result

vars == <<raw, path, pattern, segments, text, pc, outer, inner, result>>

-----------------------------------------------------------------------------
(***************************************************************************)
(* Loading a pattern (policy/mod.rs, compile_glob): the leading token is   *)
(* expanded, then Glob::compile checks the text and splits it.  The token  *)
(* {workspace} is one symbol here.                                         *)
(***************************************************************************)

WS == "{workspace}"
Misplaced == <<"misplaced">>

\* One token, the whole pattern or its first component, gives way to a path.
ExpandToken(s, token, to) ==
    IF s # <<>> /\ s[1] = token /\ (Len(s) = 1 \/ s[2] = Separator)
    THEN to \o Tail(s)
    ELSE s

\* Mutant of expand: a tilde expands whatever follows it.
ExpandEager(s) ==
    LET after_ws == ExpandToken(s, WS, Workspace)
    IN  IF after_ws = s /\ WS \in ToSet(s) THEN Misplaced
        ELSE IF after_ws # <<>> /\ after_ws[1] = "~" THEN Home \o Tail(after_ws)
        ELSE after_ws

\* A workspace token elsewhere, or a tilde that starts another name, is refused.
expand(s) ==
    LET after_ws == ExpandToken(s, WS, Workspace)
        expanded == ExpandToken(after_ws, "~", Home)
    IN  IF \/ after_ws = s /\ WS \in ToSet(s)
           \/ expanded # <<>> /\ expanded[1] = "~"
        THEN Misplaced
        ELSE expanded

\* Where a text is cut: before it, at the separators and behind it; and the k-th
\* cut from the left.
Cuts(s) == {0, Len(s) + 1} \cup {i \in DOMAIN s : s[i] = Separator}
CutAt(s, k) == CHOOSE i \in Cuts(s) : Cardinality({j \in Cuts(s) : j < i}) = k - 1

\* str::split('/'): one piece more than there are separators.
Split(s) ==
    [k \in 1 .. Cardinality(Cuts(s)) - 1 |->
        SubSeq(s, CutAt(s, k) + 1, CutAt(s, k + 1) - 1)]

DoubleStar == <<"*", "*">>

\* The maximal runs of stars, by first and last position.
StarRuns(s) ==
    {run \in (DOMAIN s) \X (DOMAIN s) :
        /\ run[1] <= run[2]
        /\ \A i \in run[1] .. run[2] : s[i] = "*"
        /\ run[1] = 1 \/ s[run[1] - 1] # "*"
        /\ run[2] = Len(s) \/ s[run[2] + 1] # "*"}

\* Mutant of WellFormedRun: what follows a double star is not looked at.
WellFormedRunBefore(s, run) ==
    LET length == run[2] - run[1] + 1
    IN  /\ length <= 2
        /\ length = 2 => run[1] = 1 \/ s[run[1] - 1] = Separator

\* A run is a star, or two that are a whole component.
WellFormedRun(s, run) ==
    LET length == run[2] - run[1] + 1
    IN  /\ length <= 2
        /\ length = 2 => /\ run[1] = 1 \/ s[run[1] - 1] = Separator
                         /\ run[2] = Len(s) \/ s[run[2] + 1] = Separator

\* Classes and braces are refused, and a negation at the start.
Supported(s) ==
    /\ \A i \in DOMAIN s : s[i] \notin {"[", "]", "{", "}", WS}
    /\ s[1] # "!"

Accepted(s) ==
    s \notin {<<>>, Misplaced} /\ Supported(s) /\ \A run \in StarRuns(s) : WellFormedRun(s, run)

-----------------------------------------------------------------------------
(***************************************************************************)
(* A cursor of either loop.                                                *)
(***************************************************************************)

\* p, t: positions in the pattern and the text; sp, st: the last star and the
\* text position it was met at (sp = 0: none).
Start == [p |-> 1, t |-> 1, sp |-> 0, st |-> 0]
Consume(c) == [c EXCEPT !.p = @ + 1, !.t = @ + 1]

\* Mutant of Remember: the first star is kept.
RememberFirst(c) == [c EXCEPT !.p = @ + 1, !.sp = IF @ = 0 THEN c.p ELSE @,
                              !.st = IF c.sp = 0 THEN c.t ELSE @]

Remember(c) == [c EXCEPT !.p = @ + 1, !.sp = c.p, !.st = c.t]

\* Mutant of GoBack: the remembered star does not take one more.
GoBackSame(c) == [c EXCEPT !.p = c.sp + 1, !.t = c.st]

\* The last star takes one element more of the text.
GoBack(c) == [c EXCEPT !.p = c.sp + 1, !.st = @ + 1, !.t = c.st + 1]

Component == text[outer.t]
Units == segments[outer.p]

Init ==
    /\ \E input \in Inputs : raw = input[1] /\ path = input[2]
    /\ pattern = <<>> /\ segments = <<>> /\ text = <<>>
    /\ pc = "compile" /\ outer = Start /\ inner = Start /\ result = FALSE

Compile ==
    /\ pc = "compile"
    /\ pattern' = expand(raw)
    /\ IF Accepted(pattern')
       THEN /\ segments' = Split(pattern') /\ text' = Split(path)
            /\ pc' = "segments"
       ELSE pc' = "rejected" /\ UNCHANGED <<segments, text>>
    /\ UNCHANGED <<raw, path, outer, inner, result>>

Return(answer) == pc' = "done" /\ result' = answer /\ UNCHANGED <<outer, inner>>

\* A mismatch, or the pattern is exhausted before the path is.
Mismatch ==
    \/ outer.sp = 0 /\ Return(FALSE)
    \/ /\ outer.sp # 0 /\ outer' = GoBack(outer) /\ pc' = "segments"
       /\ UNCHANGED <<inner, result>>

SegmentStep ==
    /\ pc = "segments" /\ outer.t <= Len(text)
    /\ \/ outer.p > Len(segments) /\ Mismatch
       \/ /\ outer.p <= Len(segments) /\ Units = DoubleStar
          /\ outer' = Remember(outer) /\ UNCHANGED <<pc, inner, result>>
       \/ /\ outer.p <= Len(segments) /\ Units # DoubleStar
          /\ pc' = "units" /\ inner' = Start /\ UNCHANGED <<outer, result>>
    /\ UNCHANGED <<raw, path, pattern, segments, text>>

\* The path is consumed: only double stars may be left.
SegmentsEnd ==
    /\ pc = "segments" /\ outer.t > Len(text)
    /\ Return(\A i \in outer.p .. Len(segments) : segments[i] = DoubleStar)
    /\ UNCHANGED <<raw, path, pattern, segments, text>>

UnitStep ==
    /\ pc = "units" /\ inner.t <= Len(Component)
    /\ \/ /\ inner.p <= Len(Units) /\ Units[inner.p] = "*"
          /\ inner' = Remember(inner) /\ UNCHANGED <<pc, outer, result>>
       \/ /\ inner.p <= Len(Units) /\ Units[inner.p] # "*"
          /\ Units[inner.p] \in {"?", Component[inner.t]}
          /\ inner' = Consume(inner) /\ UNCHANGED <<pc, outer, result>>
       \/ /\ inner.p <= Len(Units)
             => Units[inner.p] \notin {"*", "?", Component[inner.t]}
          /\ \/ inner.sp = 0 /\ Mismatch
             \/ /\ inner.sp # 0 /\ inner' = GoBack(inner)
                /\ UNCHANGED <<pc, outer, result>>
    /\ UNCHANGED <<raw, path, pattern, segments, text>>

\* The component is consumed: only stars may be left.
UnitsEnd ==
    /\ pc = "units" /\ inner.t > Len(Component)
    /\ IF \A i \in inner.p .. Len(Units) : Units[i] = "*"
       THEN /\ outer' = Consume(outer) /\ pc' = "segments"
            /\ UNCHANGED <<inner, result>>
       ELSE Mismatch
    /\ UNCHANGED <<raw, path, pattern, segments, text>>

Next == Compile \/ SegmentStep \/ SegmentsEnd \/ UnitStep \/ UnitsEnd

-----------------------------------------------------------------------------
(***************************************************************************)
(* What a glob means: the text can be cut into consecutive pieces, one for *)
(* each element of the pattern, a star taking any number of elements and   *)
(* every other exactly one that it meets.                                  *)
(***************************************************************************)

\* Cut k is where the piece of element k starts.
Cuttings(p, t) ==
    {cut \in [1 .. Len(p) + 1 -> 1 .. Len(t) + 1] :
        /\ cut[1] = 1 /\ cut[Len(p) + 1] = Len(t) + 1
        /\ \A k \in DOMAIN p : cut[k] <= cut[k + 1]}

UnitsMean(units, component) ==
    \E cut \in Cuttings(units, component) :
        \A k \in DOMAIN units :
            units[k] # "*" => /\ cut[k + 1] = cut[k] + 1
                              /\ units[k] \in {"?", component[cut[k]]}

Means(globs, components) ==
    \E cut \in Cuttings(globs, components) :
        \A k \in DOMAIN globs :
            globs[k] # DoubleStar =>
                /\ cut[k + 1] = cut[k] + 1
                /\ UnitsMean(globs[k], components[cut[k]])
=============================================================================
