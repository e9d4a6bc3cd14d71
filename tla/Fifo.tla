--------------------------------- MODULE Fifo ---------------------------------
(***************************************************************************)
(* What a pipe promises: a bounded queue of bytes. What is written comes   *)
(* out once and in order, and a read returns nothing (the end of file)     *)
(* only when nothing is left and no write end is open.                     *)
(***************************************************************************)
EXTENDS Naturals, Sequences

CONSTANTS Bytes, Capacity

VARIABLES queue,    \* bytes written and not yet read
          writing,  \* is a write end open
          out       \* <<bytes>> in a step that returns them to a reader

Init == queue = << >> /\ writing = TRUE /\ out = << >>

Send ==
    /\ \E k \in 1..(Capacity - Len(queue)) : \E s \in [1..k -> Bytes] :
           queue' = queue \o s
    /\ writing
    /\ out' = << >>
    /\ UNCHANGED writing

Receive ==
    /\ \E k \in 1..Len(queue) :
           /\ out' = <<SubSeq(queue, 1, k)>>
           /\ queue' = SubSeq(queue, k + 1, Len(queue))
    /\ UNCHANGED writing

EndOfFile ==
    /\ queue = << >> /\ ~writing
    /\ out' = << << >> >>
    /\ UNCHANGED <<queue, writing>>

CloseWrite == writing /\ writing' = FALSE /\ out' = << >> /\ UNCHANGED queue

Taken == out' = << >> /\ UNCHANGED <<queue, writing>>

Next == Send \/ Receive \/ EndOfFile \/ CloseWrite \/ Taken

Spec == Init /\ [][Next]_<<queue, writing, out>>

=============================================================================
