------------------------------- MODULE JobLog -------------------------------
(* What a durable session promises about its output: the job's output file   *)
(* on the main server holds the stream's bytes in order and without          *)
(* repetition, and what it lacks is counted as gap.  A byte is its position. *)
EXTENDS Naturals, Sequences

CONSTANT MaxStream   \* bound on the bytes a job puts out

VARIABLES produced,  \* bytes the job has put out
          file,      \* the positions in the output file
          gap        \* bytes recorded as lost

vars == <<produced, file, gap>>

NextPosition == Len(file) + gap

Init == produced = 0 /\ file = <<>> /\ gap = 0

Produce(n) ==
  /\ produced + n <= MaxStream
  /\ produced' = produced + n
  /\ UNCHANGED <<file, gap>>

Store(n) ==
  /\ NextPosition + n <= produced
  /\ file' = file \o [i \in 1..n |-> NextPosition + i - 1]
  /\ UNCHANGED <<produced, gap>>

Skip(n) ==
  /\ NextPosition + n <= produced
  /\ gap' = gap + n
  /\ UNCHANGED <<produced, file>>

(* The server crashes: what was not yet on disk is gone from the end. *)
Restore(n, g) ==
  /\ file' = SubSeq(file, 1, n)
  /\ gap' = g
  /\ UNCHANGED produced

Next ==
  \/ \E n \in 1..MaxStream : Produce(n) \/ Store(n) \/ Skip(n)
  \/ \E n \in 0..Len(file), g \in 0..gap : Restore(n, g)

Spec == Init /\ [][Next]_vars
=============================================================================
