------------------------------ MODULE SeushProofs ------------------------------
(* The batch mode of Seush, for files, lines and buffers of any length: a line  *)
(* is done before the next one is read, and lines run in order and once unless  *)
(* a child moved the offset back.                                               *)
EXTENDS Seush, TLAPS

NoKids == \A k \in Kids : child[k].st = "none"

\* Without a child that gave up, the offset is where the read-ahead ended, and the
\* shell has run what it took out of its buffer. A command alone on its line
\* never runs beside another.
IInv ==
    /\ batch \in Batches
    /\ offset \in Nat /\ next \in Nat /\ end \in Nat /\ next <= end
    /\ last \in Nat /\ moved \in BOOLEAN
    /\ child \in [Kids -> [st : {"none", "prog", "deny", "zombie"}, back : Nat]]
    /\ ~moved => ~again /\ offset = end /\ next = last
    /\ pc = "getline" => NoKids
    /\ pc = "execute" /\ (todo = << >> \/ ~Parallel) => NoKids
    /\ pc = "waitpid" => \A k \in Kids \ {1} : child[k].st = "none"

\* The configurations: a buffer takes a line, and a line a command.
Sizes == BUFLINES \in Nat \ {0} /\ MAXCMDS \in Nat \ {0} /\ Batches \subseteq Seq(Seq(STRING))

LEMMA InitInv == Sizes /\ Init => IInv
<1> SUFFICES ASSUME Sizes, Init PROVE IInv
  OBVIOUS
<1>1. NoChild \in [st : {"none", "prog", "deny", "zombie"}, back : Nat] /\ NoChild.st = "none"
  BY DEF NoChild
<1>2. child \in [Kids -> [st : {"none", "prog", "deny", "zombie"}, back : Nat]] /\ NoKids
  BY <1>1 DEF Init, NoKids
<1>3. pc # "execute" /\ pc # "waitpid"
  BY DEF Init
<1>4. ~again /\ moved \in BOOLEAN /\ offset = end /\ next = last
  BY DEF Init
<1>5. batch \in Batches /\ offset \in Nat /\ next \in Nat /\ end \in Nat /\ last \in Nat
      /\ next <= end
  BY DEF Init
<1> QED BY <1>2, <1>3, <1>4, <1>5 DEF IInv

\* What the stream takes from the file is the next line, or the one at the offset.
LEMMA GetLineInv == ASSUME Sizes, IInv, GetLine PROVE IInv'
<1>1. batch \in Seq(Seq(STRING)) /\ Len(batch) \in Nat
  BY DEF Sizes, IInv
<1>2. offset' \in Nat /\ next' \in Nat /\ end' \in Nat /\ next' <= end'
  BY <1>1 DEF GetLine, Fill, Smaller, Sizes, IInv
<1>3. ASSUME ~moved PROVE offset' = end' /\ next' = last + 1
  BY <1>3, <1>1 DEF GetLine, Fill, IInv
<1>4. NoKids'
  BY DEF GetLine, IInv, NoKids
<1> QED BY <1>2, <1>3, <1>4 DEF GetLine, IInv

\* A command of the shell itself, or one that is refused, leaves the children alone.
LEMMA CommandInv == ASSUME Sizes, IInv, Nothing \/ Builtin \/ Refused \/ EndOfFile
                    PROVE IInv'
<1>1. CASE Nothing \/ EndOfFile
  BY <1>1 DEF Nothing, EndOfFile, input, IInv, NoKids, Parallel
<1>2. CASE Builtin \/ Refused
  <2>1. UNCHANGED <<batch, input, child, last, again, moved>> /\ todo' = Tail(todo)
    BY <1>2 DEF Builtin, Refused
  <2>2. pc' \in {"exit", AfterThis} /\ pc = "execute" /\ todo # << >>
    BY <1>2 DEF Builtin, Refused, Executes
  <2>3. (pc' = "getline" => ~Parallel) /\ (pc' = "execute" => todo' # << >>) /\ pc' # "waitpid"
    BY <2>1, <2>2 DEF AfterThis
  <2> QED BY <2>1, <2>2, <2>3 DEF input, IInv, NoKids, Parallel
<1> QED BY <1>1, <1>2

LEMMA ForkInv == ASSUME Sizes, IInv, Fork PROVE IInv'
<1>1. PICK cmd \in {"prog", "deny"}, k \in Kids :
        /\ Executes(cmd)
        /\ \A j \in 1..k-1 : child[j].st # "none"
        /\ child' = [child EXCEPT ![k] = Forked(cmd)]
  BY DEF Fork
<1>2. UNCHANGED <<batch, input, last, again, moved>> /\ todo' = Tail(todo)
  BY DEF Fork
<1>3. pc' = IF Parallel THEN AfterThis ELSE "waitpid"
  BY DEF Fork
<1>4. child' \in [Kids -> [st : {"none", "prog", "deny", "zombie"}, back : Nat]]
  <2>1. Forked(cmd) \in [st : {"none", "prog", "deny", "zombie"}, back : Nat]
    BY DEF Forked, IInv
  <2> QED BY <1>1, <2>1 DEF IInv
<1>5. CASE Parallel
  BY <1>2, <1>3, <1>4, <1>5 DEF AfterThis, input, IInv, Parallel
<1>6. CASE ~Parallel
  <2>1. NoKids
    BY <1>1, <1>6 DEF Executes, IInv
  <2>2. k = 1
    BY <1>1, <2>1 DEF NoKids, Kids, Sizes
  <2>3. \A j \in Kids \ {1} : child'[j].st = "none"
    BY <1>1, <2>1, <2>2 DEF NoKids, IInv
  <2> QED BY <1>2, <1>3, <1>4, <1>6, <2>3 DEF input, IInv
<1> QED BY <1>5, <1>6

LEMMA WaitInv == ASSUME Sizes, IInv, WaitPid \/ WaitAll PROVE IInv'
<1>1. NoChild \in [st : {"none", "prog", "deny", "zombie"}, back : Nat]
  BY DEF NoChild
<1>2. CASE WaitPid
  <2>1. NoKids'
    BY <1>2 DEF WaitPid, NoKids, NoChild, IInv
  <2>2. child' \in [Kids -> [st : {"none", "prog", "deny", "zombie"}, back : Nat]]
    BY <1>1, <1>2 DEF WaitPid, IInv
  <2>3. UNCHANGED <<batch, offset, next, end, last, again, moved>> /\ pc' = "getline"
    BY <1>2 DEF WaitPid, input
  <2> QED BY <2>1, <2>2, <2>3 DEF IInv
<1>3. CASE WaitAll
  <2>1. child' \in [Kids -> [st : {"none", "prog", "deny", "zombie"}, back : Nat]]
    BY <1>1, <1>3 DEF WaitAll, IInv
  <2>2. pc' = "waitall" \/ (pc' = "getline" /\ NoKids')
    BY <1>3 DEF WaitAll, WaitsOn, NoKids
  <2>3. UNCHANGED <<batch, offset, next, end, last, again, moved>>
    BY <1>3 DEF WaitAll, input
  <2> QED BY <2>1, <2>2, <2>3 DEF IInv
<1> QED BY <1>2, <1>3

\* A child moves while the shell waits or starts others, and only exit(1) of one
\* touches the offset.
LEMMA ChildInv == ASSUME Sizes, IInv, NEW k \in Kids, Program(k) \/ GiveUp(k)
                  PROVE IInv'
<1>1. child[k].st # "none" /\ child' = [child EXCEPT ![k] = Zombie]
  BY DEF Program, GiveUp
<1>2. child' \in [Kids -> [st : {"none", "prog", "deny", "zombie"}, back : Nat]]
  BY <1>1 DEF Zombie, IInv
<1>3. UNCHANGED <<batch, next, end, pc, todo, last, again>>
  BY DEF Program, GiveUp, input
<1>4. ~NoKids
  BY <1>1 DEF NoKids
<1>5. offset' \in Nat /\ moved' \in BOOLEAN /\ (~moved' => ~moved /\ offset' = offset)
  <2>1. CASE Program(k)
    BY <2>1 DEF Program, input, IInv
  <2>2. CASE GiveUp(k)
    <3>1. child[k].back \in Nat
      BY DEF IInv
    <3>2. offset' \in Nat
      BY <2>2, <3>1 DEF GiveUp, SeekBack, IInv
    <3>3. moved' = (moved \/ offset' # offset)
      BY <2>2 DEF GiveUp
    <3> QED BY <3>2, <3>3
  <2> QED BY <2>1, <2>2
<1>6. pc = "waitpid" => \A j \in Kids \ {1} : child'[j].st = "none"
  BY <1>1 DEF IInv
<1> QED BY <1>2, <1>3, <1>4, <1>5, <1>6 DEF IInv, Parallel

LEMMA NextInv == Sizes /\ IInv /\ [Next]_vars => IInv'
<1> SUFFICES ASSUME Sizes, IInv, [Next]_vars PROVE IInv'
  OBVIOUS
<1>1. CASE UNCHANGED vars
  BY <1>1 DEF vars, input, IInv, NoKids, Parallel
<1>2. CASE Next
  BY <1>2, GetLineInv, CommandInv, ForkInv, WaitInv, ChildInv DEF Next
<1> QED BY <1>1, <1>2

\* For any batch files, the next line is read when the children of the line before
\* are gone, and lines run in order and once unless the offset was moved back by
\* a child whose redirection or execv failed.
THEOREM Serial == ASSUME Sizes PROVE Spec => []OneLineAtATime
<1>1. Init => IInv
  BY InitInv
<1>2. IInv /\ [Next]_vars => IInv'
  BY NextInv
<1>3. IInv => OneLineAtATime
  BY DEF IInv, OneLineAtATime, NoKids
<1> QED BY <1>1, <1>2, <1>3, PTL DEF Spec
===============================================================================
