------------------------------ MODULE BytePipe -------------------------------
(***************************************************************************)
(* What one direction of a TcpStream promises its two applications, with   *)
(* no code in it: the bytes that are put in at one end are taken out at    *)
(* the other in their order, none twice, none left out, none made up; and  *)
(* the reader is told of the end only when the writer has finished and     *)
(* everything was taken, or when the connection was lost.                  *)
(***************************************************************************)
EXTENDS Integers, Sequences

CONSTANT Bytes  \* a byte is the number of its place in the writer's data

VARIABLES sent,      \* what was put in
          got,       \* what was taken out
          finished,  \* the writer will put in no more
          lost,      \* the connection is lost
          told       \* the reader was told of the end, and has not asked since

vars == <<sent, got, finished, lost, told>>

Init ==
  /\ sent = <<>> /\ got = <<>>
  /\ finished = FALSE /\ lost = FALSE /\ told = FALSE

\* The writer skips what it gave up, and never goes back.
Put(b) ==
  /\ ~finished
  /\ \A i \in 1..Len(sent) : sent[i] < b
  /\ sent' = Append(sent, b)
  /\ UNCHANGED <<got, finished, lost, told>>

Finish == finished' = TRUE /\ UNCHANGED <<sent, got, lost, told>>

Lose == lost' = TRUE /\ UNCHANGED <<sent, got, finished, told>>

Take(n) ==
  /\ Len(got) + n <= Len(sent)
  /\ got' = SubSeq(sent, 1, Len(got) + n)
  /\ UNCHANGED <<sent, finished, lost, told>>

Tell ==
  /\ lost \/ (finished /\ got = sent)
  /\ told' = TRUE
  /\ UNCHANGED <<sent, got, finished, lost>>

Ask == told' = FALSE /\ UNCHANGED <<sent, got, finished, lost>>

Next ==
  \/ \E b \in Bytes : Put(b)
  \/ \E n \in 1..Len(sent) : Take(n)
  \/ Finish \/ Lose \/ Tell \/ Ask

Spec == Init /\ [][Next]_vars

=============================================================================
