------------------------------- MODULE Console -------------------------------
(***************************************************************************)
(* The input of the console (Xv6-Threads/src/console.c): consoleintr edits *)
(* the line at the end of the ring, consoleread takes what was entered. A  *)
(* step is a critical section of cons.lock for one character, or up to the *)
(* next sleep; as in Pipe, the moment between the test of killed and the   *)
(* sleep is a state ("doze") in which the lock is held.                    *)
(***************************************************************************)
EXTENDS Integers, Sequences, FiniteSets

CONSTANTS Procs,
          Letters, Newline, CtrlD,  \* what the keyboard sends
          INPUT_BUF,
          UINT,                     \* number of values of the type uint
          Sizes                     \* the n that programs pass to read

VARIABLES
    input, r, w, e,         \* struct input: buf and the three indices
    pc, killed,
    got, n,                 \* what a consoleread has stored, and its n
    out                     \* <<what>> a read returns

ring == <<input, r, w, e>>
vars == <<ring, pc, killed, got, n, out>>

Chars == Letters \cup {Newline, CtrlD}

Init ==
    /\ \E c \in Letters : input = [k \in 0..INPUT_BUF-1 |-> c]
    /\ r = 0 /\ w = 0 /\ e = 0
    /\ pc = [p \in Procs |-> "idle"] /\ killed = [p \in Procs |-> FALSE]
    /\ got = [p \in Procs |-> << >>] /\ n = [p \in Procs |-> 0]
    /\ out = << >>

\* The indices run through the type uint and wrap.
Plus(i, k) == (i + k) % UINT

\* What lies between two of them.
Between(i, j) == [k \in 1..((j - i) % UINT) |-> input[Plus(i, k - 1) % INPUT_BUF]]

LockFree == \A p \in Procs : pc[p] # "doze"

Quiet == out' = << >>

-----------------------------------------------------------------------------
(* consoleintr                                                             *)

\* wakeup(&input.r)
Wakeup == pc' = [p \in Procs |-> IF pc[p] = "asleep" THEN "read" ELSE pc[p]]

EntersLinesOnly(c) == c \in {Newline, CtrlD}

Enters(c) == c \in {Newline, CtrlD} \/ Plus(e, 1) = Plus(r, INPUT_BUF)

Type(c) ==
    /\ LockFree /\ Plus(e, -r) < INPUT_BUF
    /\ input' = [input EXCEPT ![e % INPUT_BUF] = c]
    /\ e' = Plus(e, 1)
    /\ IF Enters(c) THEN w' = e' /\ Wakeup ELSE UNCHANGED <<w, pc>>
    /\ Quiet /\ UNCHANGED <<r, killed, got, n>>

ErasesAnything == e # r

Erasable == e # w

Backspace ==
    /\ LockFree /\ Erasable
    /\ e' = Plus(e, -1)
    /\ Quiet /\ UNCHANGED <<input, r, w, pc, killed, got, n>>

\* Up to the last newline that is not entered, or to w.
KillLine ==
    /\ LockFree /\ e # w
    /\ \E k \in 1..Plus(e, -w) :
         LET s == Between(w, e)  left == Len(s) - k IN
         /\ \A m \in left+1..Len(s) : s[m] # Newline
         /\ left > 0 => s[left] = Newline
         /\ e' = Plus(e, -k)
    /\ Quiet /\ UNCHANGED <<input, r, w, pc, killed, got, n>>

-----------------------------------------------------------------------------
(* consoleread                                                             *)

ReadCall(p) ==
    /\ pc[p] = "idle" /\ ~killed[p]
    /\ \E size \in Sizes : n' = [n EXCEPT ![p] = size]
    /\ pc' = [pc EXCEPT ![p] = "read"]
    /\ Quiet /\ UNCHANGED <<ring, killed, got>>

Returns(p, what) ==
    /\ pc' = [pc EXCEPT ![p] = "idle"]
    /\ got' = [got EXCEPT ![p] = << >>] /\ n' = [n EXCEPT ![p] = 0]
    /\ out' = what

\* "Save ^D for next time": input.r-- if the read has something already.
PutsBack(p, k) == IF k = 1 /\ got[p] = << >> THEN 1 ELSE k - 1

\* The loop stops at the k-th character: it has n, or the end of a line, or ^D.
Read(p) ==
    LET s == Between(r, w)
        room == n[p] - Len(got[p])
    IN
    /\ pc[p] = "read" /\ LockFree
    /\ \E k \in 1..Len(s) :
          /\ k <= room /\ \A m \in 1..k-1 : s[m] \notin {Newline, CtrlD}
          /\ \/ /\ s[k] = CtrlD
                /\ r' = Plus(r, PutsBack(p, k))
                /\ Returns(p, <<got[p] \o SubSeq(s, 1, k - 1)>>)
             \/ /\ s[k] # CtrlD /\ (s[k] = Newline \/ k = room)
                /\ r' = Plus(r, k)
                /\ Returns(p, <<got[p] \o SubSeq(s, 1, k)>>)
    /\ UNCHANGED <<input, w, e, killed>>

\* Nothing is left (after some characters, perhaps), and the read wants more.
ReadMore(p) ==
    LET s == Between(r, w) IN
    /\ pc[p] = "read" /\ LockFree
    /\ Len(s) < n[p] - Len(got[p])
    /\ \A m \in 1..Len(s) : s[m] \notin {Newline, CtrlD}
    /\ r' = w
    /\ \/ /\ killed[p]
          /\ Returns(p, << >>)
       \/ /\ ~killed[p]
          /\ got' = [got EXCEPT ![p] = @ \o s]
          /\ pc' = [pc EXCEPT ![p] = "doze"]
          /\ Quiet /\ UNCHANGED n
    /\ UNCHANGED <<input, w, e, killed>>

Sleep(p) ==
    /\ pc[p] = "doze"
    /\ pc' = [pc EXCEPT ![p] = "asleep"]
    /\ Quiet /\ UNCHANGED <<ring, killed, got, n>>

Kill(p) ==
    /\ ~killed[p]
    /\ killed' = [killed EXCEPT ![p] = TRUE]
    /\ pc' = [pc EXCEPT ![p] = IF @ = "asleep" THEN "read" ELSE @]
    /\ Quiet /\ UNCHANGED <<ring, got, n>>

\* A killed process exits; another one gets the table entry.
Reborn(p) ==
    /\ pc[p] = "idle" /\ killed[p]
    /\ killed' = [killed EXCEPT ![p] = FALSE]
    /\ Quiet /\ UNCHANGED <<ring, pc, got, n>>

Next ==
    \/ \E c \in Chars : Type(c)
    \/ Backspace \/ KillLine
    \/ \E p \in Procs : ReadCall(p) \/ Read(p) \/ ReadMore(p) \/ Sleep(p) \/ Kill(p) \/ Reborn(p)

Spec == Init /\ [][Next]_vars

-----------------------------------------------------------------------------
(* Properties                                                              *)

\* The console implements Terminal: through wrapping indices, a full ring, lines
\* that are edited while others are read, several readers, and the end of file
\* that a reader puts back.
Entered == INSTANCE Terminal
    WITH Capacity <- INPUT_BUF, entered <- Between(r, w), line <- Between(w, e)

TerminalSpec == Entered!Spec

\* "sleep(&input.r)": a reader sleeps only while nothing is there to read; and
\* there is always something a user can do about it: a ring that is full was
\* entered, even without the end of a line.
ReadersServed ==
    /\ \A p \in Procs : pc[p] = "asleep" => r = w
    /\ Plus(e, -r) = INPUT_BUF => w = e
=============================================================================
