----------------------------- MODULE TailBuffer -----------------------------
(* What the job manager's output buffer promises, without its ring: a window *)
(* of the most recent stream positions, [lo, hi), and the bytes held for it. *)
(* A byte is identified by its position in the stream.                       *)
EXTENDS Integers, Sequences

CONSTANTS Size,       \* the capacity of the buffer
          MaxStream   \* bound on the stream positions explored

VARIABLES lo,         \* position of the oldest byte retained
          hi,         \* position of the next byte to be written
          held,       \* the bytes a reader of the whole window sees
          blocking,   \* full windows block the writer (else drop the oldest)
          limit,      \* effective window
          asleep      \* the writer waits for space

vars == <<lo, hi, held, blocking, limit, asleep>>

Window(from, to) == [i \in 1..(to - from) |-> from + i - 1]

Init ==
  /\ lo = 0 /\ hi = 0 /\ held = <<>>
  /\ blocking \in BOOLEAN
  /\ limit = Size
  /\ asleep = FALSE

(* The writer appends n > 0 bytes: never past a blocking window, and at the *)
(* expense of the oldest bytes of a non-blocking one.                       *)
Extend(n) ==
  /\ ~asleep
  /\ hi + n <= MaxStream
  /\ hi' = hi + n
  /\ IF blocking
     THEN hi' <= lo + limit /\ lo' = lo
     ELSE lo' = IF hi' - lo > limit THEN hi' - limit ELSE lo
  /\ held' = Window(lo', hi')
  /\ UNCHANGED <<blocking, limit, asleep>>

(* Only a full blocking window puts the writer to sleep. *)
Sleep ==
  /\ ~asleep /\ blocking /\ hi - lo >= limit
  /\ asleep' = TRUE
  /\ UNCHANGED <<lo, hi, held, blocking, limit>>

(* The reader releases the n oldest bytes and the writer may run again. *)
Release(n) ==
  /\ n <= hi - lo
  /\ lo' = lo + n
  /\ held' = Window(lo', hi)
  /\ asleep' = FALSE
  /\ UNCHANGED <<hi, blocking, limit>>

(* The mode and the window change; a writer left asleep has no space. *)
Retune(mode, w) ==
  /\ blocking' = mode
  /\ limit' = w
  /\ lo' = IF ~mode /\ hi - lo > w THEN hi - w ELSE lo
  /\ held' = Window(lo', hi)
  /\ asleep' \in {FALSE, asleep}
  /\ asleep' => mode /\ hi - lo' >= w
  /\ UNCHANGED hi

Next ==
  \/ \E n \in 1..MaxStream : Extend(n)
  \/ Sleep
  \/ \E n \in 0..Size : Release(n)
  \/ \E mode \in BOOLEAN, w \in 0..Size : Retune(mode, w)

Spec == Init /\ [][Next]_vars
=============================================================================
