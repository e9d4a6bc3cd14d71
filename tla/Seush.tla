--------------------------------- MODULE Seush ---------------------------------
(***************************************************************************)
(* The shell for Linux (Unix_Shell/seush.c) with a batch file. What a line *)
(* holds is cut into commands, which run one after another in the shell or *)
(* side by side in its children; the next line is read when all are done.  *)
(* getline reads ahead, and the position of the file is shared with the    *)
(* children: one that calls exit(1), as its redirection or execv failed,   *)
(* moves it back by what it has not read of its copy of the buffer. Files  *)
(* and buffers count lines, which are all as long.                         *)
(***************************************************************************)
EXTENDS Integers, Sequences

CONSTANTS Batches,      \* files: sequences of lines, which are sequences of commands
          MAXCMDS,      \* commands of a line, at most (64)
          BUFLINES      \* lines that the buffer of a stream takes

\* A command is "prog", a program that runs and ends; "deny", one whose output cannot
\* be opened or whose execv fails; "unknown", one that is not found, and an error in the
\* line or a cd; "path", without arguments; or "exit".

VARIABLES
    batch,
    offset,             \* of the open file, shared
    next, end,          \* lines that the shell has read ahead: next+1 to end
    pc,
    todo,               \* commands of the line, still to execute
    haspath,
    child,
    last,               \* the line that runs, or ran last
    again,              \* history: a line was not the one after the last
    moved               \* history: a child moved the offset back

input == <<offset, next, end>>
vars == <<batch, input, pc, todo, haspath, child, last, again, moved>>

Kids == 1..MAXCMDS

\* back: what a child would move the offset back by
NoChild == [st |-> "none", back |-> 0]
Forked(cmd) == [st |-> cmd, back |-> end - next]
Zombie == [st |-> "zombie", back |-> 0]

Init ==
    /\ batch \in Batches
    /\ offset = 0 /\ next = 0 /\ end = 0
    /\ pc = "getline" /\ todo = << >> /\ haspath = TRUE
    /\ child = [k \in Kids |-> NoChild]
    /\ last = 0 /\ again = FALSE /\ moved = FALSE

-----------------------------------------------------------------------------
(* main                                                                    *)

Smaller(a, b) == IF a <= b THEN a ELSE b

\* The stream reads from the file when its buffer is empty.
Fill ==
    IF next < end THEN UNCHANGED <<offset, end>> /\ next' = next + 1
    ELSE /\ next' = offset + 1
         /\ end' = Smaller(offset + BUFLINES, Len(batch))
         /\ offset' = end'

GetLine ==
    /\ pc = "getline" /\ (next < end \/ offset < Len(batch))
    /\ Fill
    /\ last' = next' /\ again' = (again \/ next' # last + 1)
    /\ todo' = batch[next'] /\ pc' = "execute"
    /\ UNCHANGED <<batch, haspath, child, moved>>

EndOfFile ==
    /\ pc = "getline" /\ next = end /\ offset = Len(batch)
    /\ pc' = "exit"
    /\ UNCHANGED <<batch, input, todo, haspath, child, last, again, moved>>

-----------------------------------------------------------------------------
(* split_parallel_commands and execute                                     *)

Parallel == Len(batch[last]) > 1

\* After the last command of a line the shell waits for what it started.
AfterThis == IF Tail(todo) # << >> THEN "execute" ELSE IF Parallel THEN "waitall" ELSE "getline"

\* A line without a command has nothing to do.
Nothing ==
    /\ pc = "execute" /\ todo = << >>
    /\ pc' = "getline"
    /\ UNCHANGED <<batch, input, todo, haspath, child, last, again, moved>>

Executes(cmd) == pc = "execute" /\ todo # << >> /\ Head(todo) = cmd

Builtin ==
    /\ \/ Executes("exit") /\ pc' = "exit" /\ UNCHANGED haspath
       \/ Executes("path") /\ pc' = AfterThis /\ haspath' = FALSE
    /\ todo' = Tail(todo)
    /\ UNCHANGED <<batch, input, child, last, again, moved>>

\* print_error: the command is not found, or fork fails.
Refused ==
    /\ \/ Executes("unknown")
       \/ \E cmd \in {"prog", "deny"} : Executes(cmd)
    /\ pc' = AfterThis /\ todo' = Tail(todo)
    /\ UNCHANGED <<batch, input, haspath, child, last, again, moved>>

Fork ==
    \E cmd \in {"prog", "deny"}, k \in Kids :
        /\ Executes(cmd) /\ haspath
        /\ child[k].st = "none" /\ \A j \in 1..k-1 : child[j].st # "none"
        /\ child' = [child EXCEPT ![k] = Forked(cmd)]
        /\ pc' = IF Parallel THEN AfterThis ELSE "waitpid"
        /\ todo' = Tail(todo)
        /\ UNCHANGED <<batch, input, haspath, last, again, moved>>

\* waitpid(pid), for the one child of the line
WaitPid ==
    /\ pc = "waitpid" /\ child[1].st = "zombie"
    /\ child' = [child EXCEPT ![1] = NoChild] /\ pc' = "getline"
    /\ UNCHANGED <<batch, input, todo, haspath, last, again, moved>>

GoesOn == "getline"

WaitsOn == "waitall"

\* while(waitpid(-1, NULL, 0) > 0)
WaitAll ==
    /\ pc = "waitall"
    /\ \/ /\ \A k \in Kids : child[k].st = "none"
          /\ pc' = "getline" /\ UNCHANGED child
       \/ \E k \in Kids :
             /\ child[k].st = "zombie"
             /\ child' = [child EXCEPT ![k] = NoChild] /\ pc' = WaitsOn
    /\ UNCHANGED <<batch, input, todo, haspath, last, again, moved>>

-----------------------------------------------------------------------------
(* The children                                                            *)

\* open, dup2, execv, and the program
Program(k) ==
    /\ child[k].st = "prog"
    /\ child' = [child EXCEPT ![k] = Zombie]
    /\ UNCHANGED <<batch, input, pc, todo, haspath, last, again, moved>>

\* exit flushes the child's copy of the stream: lseek, relative to the offset now,
\* that fails before the start of the file.
SeekBack(n) == IF n <= offset THEN offset - n ELSE offset

\* exit(1)
GiveUp(k) ==
    /\ child[k].st = "deny"
    /\ offset' = SeekBack(child[k].back)
    /\ moved' = (moved \/ offset' # offset)
    /\ child' = [child EXCEPT ![k] = Zombie]
    /\ UNCHANGED <<batch, next, end, pc, todo, haspath, last, again>>

-----------------------------------------------------------------------------
Next ==
    \/ GetLine \/ EndOfFile \/ Nothing \/ Builtin \/ Refused \/ Fork
    \/ WaitPid \/ WaitAll
    \/ \E k \in Kids : Program(k) \/ GiveUp(k)

Spec == Init /\ [][Next]_vars

-----------------------------------------------------------------------------
(* Properties                                                              *)

\* The next line is read when the children of the line before are gone, also those
\* that run side by side; and lines run in order and once, unless a child that gave
\* up moved the offset back.
OneLineAtATime ==
    /\ pc = "getline" => \A k \in Kids : child[k].st = "none"
    /\ again => moved
===============================================================================
