------------------------------- MODULE Terminal -------------------------------
(***************************************************************************)
(* What the console promises: a line can be edited until it is entered;    *)
(* what was entered reaches the readers in order and once, at most a line  *)
(* (or up to an end of file) in one read.                                  *)
(***************************************************************************)
EXTENDS Naturals, Sequences

CONSTANTS Procs,
          Chars,            \* what is typed, Newline and CtrlD among it
          Newline, CtrlD,
          Capacity

VARIABLES entered,  \* not yet read
          line,     \* not yet entered
          got,      \* of each process: what its read has so far
          out       \* <<what>> a read returns, in a step where one does

Ends == {Newline, CtrlD}

Init ==
    /\ entered = << >> /\ line = << >>
    /\ got = [p \in Procs |-> << >>]
    /\ out = << >>

\* The end of a line enters it, and so does the last character there is room for.
Type(c) ==
    /\ Len(entered) + Len(line) < Capacity
    /\ IF c \in Ends \/ Len(entered) + Len(line) + 1 = Capacity
       THEN entered' = entered \o Append(line, c) /\ line' = << >>
       ELSE line' = Append(line, c) /\ UNCHANGED entered
    /\ out' = << >> /\ UNCHANGED got

Erase ==
    /\ line # << >>
    /\ line' \in {SubSeq(line, 1, Len(line) - 1), << >>}
    /\ out' = << >> /\ UNCHANGED <<entered, got>>

\* A read of p goes on with the next k characters, none of them an end of file and
\* only the last a newline; it waits for more only after all that was entered.
Take(p, k) ==
    LET s == SubSeq(entered, 1, k) IN
    /\ \A n \in 1..k : s[n] # CtrlD /\ (s[n] = Newline => n = k)
    /\ entered' = SubSeq(entered, k + 1, Len(entered))
    /\ \/ /\ entered' = << >> /\ (k > 0 => s[k] # Newline)
          /\ got' = [got EXCEPT ![p] = @ \o s] /\ out' = << >>
       \/ /\ k > 0 \/ (got[p] # << >> /\ entered # << >> /\ entered[1] = CtrlD)
          /\ got' = [got EXCEPT ![p] = << >>] /\ out' = <<got[p] \o s>>
    /\ UNCHANGED line

\* An end of file is read by a read that has nothing else.
EndOfFile(p) ==
    /\ entered # << >> /\ Head(entered) = CtrlD /\ got[p] = << >>
    /\ entered' = Tail(entered) /\ out' = << << >> >>
    /\ UNCHANGED <<line, got>>

\* The read of a killed process takes with it what it had, and what else there is.
Dies(p) ==
    /\ entered' = << >>
    /\ \A k \in 1..Len(entered) : entered[k] \notin Ends
    /\ got' = [got EXCEPT ![p] = << >>] /\ out' = << >>
    /\ UNCHANGED line

Silent == out' = << >> /\ UNCHANGED <<entered, line, got>>

Next ==
    \/ \E c \in Chars : Type(c)
    \/ Erase \/ Silent
    \/ \E p \in Procs : EndOfFile(p) \/ Dies(p) \/ \E k \in 0..Len(entered) : Take(p, k)

Spec == Init /\ [][Next]_<<entered, line, got, out>>
=============================================================================
