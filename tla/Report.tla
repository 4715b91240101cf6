------------------------------- MODULE Report -------------------------------
(***************************************************************************)
(* The session report (recorder/report.rs) over the trace the notify loop  *)
(* writes: what render_report has accumulated after the last event, section*)
(* by section, and so what report.txt shows.  Left out are the layout, the *)
(* header, the refusal of a malformed trace, and the accesses, targets and *)
(* rules a line adds to its key.                                           *)
(***************************************************************************)
EXTENDS NotifyLoop

\* The tag of an event's fact (recorder.rs, Fact): a call of which nothing could
\* be read, and one that is refused unread, has no typed fact.
Family(e) ==
    LET kind == e.call.kind
    IN  CASE kind \in {"foreign", "sr4"}                      -> "raw"
          [] kind = "clone"                                   -> "process"
          [] kind = "ptrace"                                  -> "cross_process"
          [] kind \in FsKinds /\ e.fact # <<>>                -> "fs"
          [] kind \in {"exec", "net"} /\ e.fact # <<>>        -> kind
          [] kind = "clone3" /\ e.fact # <<>>                 -> "process"
          [] OTHER                                            -> "raw"

\* The path field of a symlink's event is the text it stores; the link itself is
\* the dest field.
StoredText == "stored text"
PathField(e) == IF e.call.kind = "symlink" THEN StoredText ELSE e.fact[1]

\* Mutant of display_decision: whatever is not denied is displayed as allowed.
DisplayTwoWays(decision) == IF decision = "deny" THEN "denied" ELSE "allowed"

display_decision(decision) ==
    CASE decision = "allow" -> "allowed"
      [] decision = "deny"  -> "denied"
      [] OTHER              -> decision

\* The events a section is made of, raw ones only when they were denied, and the
\* key under which it shows one.
Of(family) ==
    {i \in DOMAIN trace : Family(trace[i]) = family
                           /\ (family = "raw" => trace[i].event = "deny")}
Key(e) ==
    CASE Family(e) = "fs"            -> PathField(e)
      [] Family(e) \in {"exec", "net"} -> e.fact[1]
      [] OTHER                       -> e.call.kind

\* The lines of a section: key -> the decisions displayed.
Keys(family) == {Key(trace[i]) : i \in Of(family)}

\* Mutant of Section: a later event overwrites the decision under its key.
SectionOfLast(family) ==
    [key \in Keys(family) |->
        {display_decision(trace[i].event) :
            i \in {j \in Of(family) : /\ Key(trace[j]) = key
                                       /\ \A k \in Of(family) :
                                             Key(trace[k]) = key => k <= j}}]

Section(family) ==
    [key \in Keys(family) |->
        {display_decision(trace[i].event) : i \in {j \in Of(family) : Key(trace[j]) = key}}]

files == Section("fs")
processes == Section("exec")
process_creations == Section("process")
cross_process == Section("cross_process")
network == Section("net")
denied_raw == Section("raw")

\* What the report displays of an event, with the others of its line.
Shown(e) ==
    LET section == CASE Family(e) = "fs"            -> files
                     [] Family(e) = "exec"          -> processes
                     [] Family(e) = "process"       -> process_creations
                     [] Family(e) = "cross_process" -> cross_process
                     [] Family(e) = "net"           -> network
                     [] OTHER                       -> denied_raw
    IN  IF Key(e) \in DOMAIN section THEN section[Key(e)] ELSE {}

-----------------------------------------------------------------------------

\* docs/design/trace.md section 6: "a refused action is visible even without a
\* fact to name it".  The line of a refused call says so or says that it was
\* asked about, and nothing took effect whose line speaks of refusals only
\* (render_report after record).
ReportTellsOutcomes ==
    /\ \A i \in DOMAIN trace :
          ~Permits(trace[i]) => Shown(trace[i]) \cap {"denied", "ask"} # {}
    /\ \A i \in DOMAIN effects, j \in DOMAIN trace :
          (effects[i].id = trace[j].id /\ Family(trace[j]) # "raw")
             => Shown(trace[j]) \cap {"allowed", "ask"} # {}
=============================================================================
