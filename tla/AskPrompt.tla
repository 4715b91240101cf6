----------------------------- MODULE AskPrompt -----------------------------
(***************************************************************************)
(* The operator's prompt (supervisor/ask.rs): one line read from the       *)
(* terminal before a deadline, while signals interrupt the wait and the    *)
(* answer arrives in pieces.                                               *)
(*                                                                         *)
(* Time is counted down in half milliseconds: left is what remains to the  *)
(* deadline, budget what remains of the current poll, which takes whole    *)
(* milliseconds.  The text read is abstracted to how much it is and to     *)
(* whether it is, so far, blanks and one yes.                              *)
(***************************************************************************)
EXTENDS Integers

CONSTANTS
    Timeout,        \* half milliseconds until the deadline
    MAX_ANSWER      \* bytes after which the line is taken as it is

VARIABLES
    prompt,    \* left, budget; pc: check, poll, read, done; size, text; result
    terminal   \* what waits to be read: none, bytes, eof

vars == <<prompt, terminal>>

\* What the bytes read so far are, blanks aside: nothing, the beginning of a yes,
\* a yes, anything else.
Text == {"blank", "begun", "yes", "other"}

Start == [left |-> Timeout, budget |-> 0, pc |-> "check", size |-> 0,
          text |-> "blank", result |-> "none"]
Failed == [Start EXCEPT !.pc = "done", !.result = "denied"]

\* When the terminal cannot be opened or written the prompt fails at once.
\* What was typed before the prompt is still there.
Init == prompt \in {Start, Failed} /\ terminal \in {"none", "bytes"}

\* resolution_of: a timeout is stamped as one, a failure denies.
Resolve(result) == prompt' = [prompt EXCEPT !.pc = "done", !.result = result]

Pending == prompt.pc # "done"

-----------------------------------------------------------------------------
(***************************************************************************)
(* The world: time, the operator, the child.                               *)
(***************************************************************************)

Tick ==
    /\ Pending /\ (prompt.left > 0 \/ (prompt.pc = "poll" /\ prompt.budget > 0))
    /\ prompt' = [prompt EXCEPT
                    !.left = IF @ = 0 THEN 0 ELSE @ - 1,
                    !.budget = IF prompt.pc # "poll" \/ @ = 0 THEN @ ELSE @ - 1]
    /\ UNCHANGED terminal

Type ==
    /\ Pending /\ terminal = "none" /\ terminal' \in {"bytes", "eof"}
    /\ UNCHANGED prompt

\* Nothing keeps the child's tree, which has the terminal as its input, from
\* reading the answer first.
Steal ==
    /\ Pending /\ terminal = "bytes"
    /\ terminal' = "none" /\ UNCHANGED prompt

-----------------------------------------------------------------------------
(***************************************************************************)
(* read_line.                                                              *)
(***************************************************************************)

\* Mutant of PollMillis: the remaining time is rounded down.
MillisDown(left) == left \div 2

\* The budget of a poll: whole milliseconds, rounded up.
PollMillis(left) == left \div 2 + 1

\* The head of the loop.
Check ==
    /\ prompt.pc = "check"
    /\ IF prompt.left = 0 THEN Resolve("timed_out")
       ELSE prompt' = [prompt EXCEPT !.pc = "poll", !.budget = 2 * PollMillis(prompt.left)]
    /\ UNCHANGED terminal

\* Mutant of Interrupted: a signal starts the wait anew.
InterruptedAnew ==
    /\ prompt.pc \in {"poll", "read"}
    /\ prompt' = [prompt EXCEPT !.pc = "check", !.left = Timeout]
    /\ UNCHANGED terminal

\* A signal interrupts poll or read: back to the head, to the same deadline.
Interrupted ==
    /\ prompt.pc \in {"poll", "read"}
    /\ prompt' = [prompt EXCEPT !.pc = "check"]
    /\ UNCHANGED terminal

IoError ==
    /\ prompt.pc \in {"poll", "read"} /\ Resolve("denied") /\ UNCHANGED terminal

PollReturns ==
    /\ prompt.pc = "poll"
    /\ \/ terminal # "none" /\ prompt' = [prompt EXCEPT !.pc = "read"]
       \/ terminal = "none" /\ prompt.budget = 0 /\ Resolve("timed_out")
    /\ UNCHANGED terminal

\* parse_answer on all that was read.
parse_answer(text) == IF text = "yes" THEN "approved" ELSE "denied"

\* A piece of the answer, some bytes with a newline among them or not, or the
\* end of the input.  The read blocks while there is nothing.
Read ==
    /\ prompt.pc = "read"
    /\ \/ /\ terminal = "bytes" /\ terminal' \in {"none", "bytes"}
          /\ \E n \in 1 .. MAX_ANSWER, text \in Text, newline \in BOOLEAN :
                LET size == prompt.size + n
                    last == newline \/ size >= MAX_ANSWER
                IN  /\ prompt.text = "other" => text = "other"
                    /\ prompt.text # "blank" => text # "blank"
                    /\ prompt' = [prompt EXCEPT
                          !.size = size, !.text = text,
                          !.pc = IF last THEN "done" ELSE "check",
                          !.result = IF last THEN parse_answer(text) ELSE @]
       \/ terminal = "eof" /\ Resolve(parse_answer(prompt.text)) /\ UNCHANGED terminal

Loop == Check \/ PollReturns \/ Read
Next == Tick \/ Type \/ Steal \/ Loop \/ Interrupted \/ IoError
=============================================================================
