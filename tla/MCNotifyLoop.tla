---------------------------- MODULE MCNotifyLoop ----------------------------
(***************************************************************************)
(* Small instances of the notify loop.                                     *)
(*                                                                         *)
(* Paths: "ws" and "new" lie in the workspace, "link" leads through a      *)
(* symlink in it to "ws" or, when that was swapped, to "sec"; "doc" may be *)
(* read and is asked about otherwise; "sec" is denied; "out" is beneath no *)
(* anchor; "latin1" is a name in the workspace that is not UTF-8.          *)
(* Destinations: "n1" and "n2" share the address of host "a", which the    *)
(* policy allows on port 80; other ports are asked about.                  *)
(***************************************************************************)
EXTENDS Report

MCPolicy ==
    [fs |-> << [path |-> {"doc"}, mode |-> {"read"}, action |-> "allow"],
               [path |-> {"doc"}, mode |-> Access, action |-> "ask"],
               [path |-> {"sec", "out"}, mode |-> Access, action |-> "deny"] >>,
     net |-> << [ips |-> {}, name |-> "a", port |-> 80, action |-> "allow"],
                [ips |-> {1}, name |-> NoName, port |-> AnyPort, action |-> "ask"] >>,
     exec |-> << [binary |-> {"ws"}, action |-> "allow"],
                 [binary |-> {"doc"}, action |-> "ask"] >>,
     workspace |-> {"ws", "new", "link", "latin1"}]

\* Files may be put into "doc" but nothing there may be replaced.
InboxPolicy ==
    [MCPolicy EXCEPT !.fs =
        << [path |-> {"doc"}, mode |-> {"create"}, action |-> "allow"],
           [path |-> {"doc"}, mode |-> Access, action |-> "deny"] >>]

MCCache == [a |-> {1}]
MCDest ==
    [n1 |-> [ip |-> 1, port |-> 80], n2 |-> [ip |-> 1, port |-> 443],
     n3 |-> [ip |-> 2, port |-> 80]]
MCResolve == [v \in Value |-> IF v = "link" THEN {"ws", "sec"} ELSE {v}]

C(kind, access, args) ==
    [kind |-> kind, scalar |-> "ok", access |-> access, args |-> args]
S(c, scalar) == [c EXCEPT !.scalar = scalar]

OpenLink == C("open", <<"read", "write">>, <<"link">>)
OpenDoc == C("open", <<"read", "write">>, <<"doc">>)
RenameLink == C("rename", <<"write">>, <<"link", "new">>)
RenameDoc == C("rename", <<"write">>, <<"ws", "doc">>)
Unlink == C("mutate", <<"delete">>, <<"link">>)
Connect(d) == C("net", <<>>, <<d>>)

\* Every kind of filesystem call.
FsCalls ==
    { OpenLink, OpenDoc, RenameLink, RenameDoc,
      C("open", <<"read", "create">>, <<"new">>),
      S(C("open", <<"read">>, <<"doc">>), "unsup"),
      S(C("open", <<"read">>, <<"ws">>), "short"),
      S(RenameLink, "exchange"),
      C("link", <<"create">>, <<"doc", "new">>),
      C("symlink", <<"create">>, <<"sec", "new">>),
      C("rename", <<"write">>, <<"ws", "out">>),
      C("mutate", <<"write">>, <<"sec">>),
      Unlink, S(C("mutate", <<"write">>, <<"doc">>), "nofollow"),
      C("mutate", <<"create">>, <<Bad>>) }

\* Every other kind of call.
OtherCalls ==
    { Connect("n1"), Connect("n2"), Connect("n3"), Connect(Bad),
      S(Connect("n1"), "size"), S(Connect("n1"), "fdrange"),
      S(Connect("n1"), "oversize"), C("exec", <<>>, <<"latin1">>),
      C("exec", <<>>, <<"ws">>), C("exec", <<>>, <<"doc">>),
      C("clone", <<>>, <<>>), C("clone3", <<>>, <<"ws">>),
      S(C("clone3", <<>>, <<"ws">>), "size"),
      C("ptrace", <<>>, <<>>), S(C("ptrace", <<>>, <<>>), "outside"),
      C("sr4", <<>>, <<>>), C("foreign", <<>>, <<>>),
      S(OpenLink, "fdfull") }

AllCalls == FsCalls \cup OtherCalls

RecordCalls ==
    { C("open", <<"read">>, <<"doc">>), RenameLink, Connect("n1"), Connect(Bad),
      S(Connect("n1"), "size"), C("exec", <<>>, <<"ws">>), C("clone", <<>>, <<>>),
      S(C("ptrace", <<>>, <<>>), "outside"), C("sr4", <<>>, <<>>),
      C("creat", <<"write", "create">>, <<"ws">>) }

\* One call the broker realizes and one that is continued, after a prompt.
PairCalls == { C("open", <<"read">>, <<"doc">>), C("exec", <<>>, <<"doc">>) }

\* Operations on an entry, which may have moved or be replaced, and on a target.
EntryCalls == { Unlink, RenameDoc, OpenLink }

ByteCalls == { C("open", <<"read">>, <<"latin1">>), OpenDoc }
=============================================================================
