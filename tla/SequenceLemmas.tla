--------------------------- MODULE SequenceLemmas ---------------------------
(* The elements of a sequence, through the operations of queues: what is put  *)
(* at the end, taken from the front, or cut off.                              *)
EXTENDS SequenceTheorems, TLAPS

LEMMA RangeEmpty == Range(<<>>) = {}
  BY DEF Range

LEMMA RangeOne ==
  ASSUME NEW m
  PROVE  Range(<<m>>) = {m}
  BY DEF Range

LEMMA RangeAppend ==
  ASSUME NEW S, NEW s \in Seq(S), NEW m \in S
  PROVE  Append(s, m) \in Seq(S) /\ Range(Append(s, m)) = Range(s) \cup {m}
  <1>1. Append(s, m) = s \o <<m>> /\ <<m>> \in Seq(S)
    BY AppendIsConcat
  <1>2. Append(s, m) \in Seq(S)
    BY AppendProperties
  <1>3. Range(s \o <<m>>) = Range(s) \cup Range(<<m>>)
    BY <1>1, RangeConcatenation
  <1> QED BY <1>1, <1>2, <1>3, RangeOne

LEMMA RangeConcat ==
  ASSUME NEW S, NEW s \in Seq(S), NEW t \in Seq(S)
  PROVE  s \o t \in Seq(S) /\ Range(s \o t) = Range(s) \cup Range(t)
  BY ConcatProperties, RangeConcatenation

LEMMA RangeHeadTail ==
  ASSUME NEW S, NEW s \in Seq(S), s # <<>>
  PROVE  /\ Head(s) \in S /\ Tail(s) \in Seq(S)
         /\ Range(s) = {Head(s)} \cup Range(Tail(s))
  <1>1. Head(s) \in S /\ Tail(s) \in Seq(S)
    BY HeadTailProperties
  <1>2. s = <<Head(s)>> \o Tail(s) /\ <<Head(s)>> \in Seq(S)
    BY <1>1
  <1>3. Range(<<Head(s)>> \o Tail(s)) = Range(<<Head(s)>>) \cup Range(Tail(s))
    BY <1>1, <1>2, RangeConcatenation
  <1> QED BY <1>1, <1>2, <1>3, RangeOne

LEMMA RangePrefix ==
  ASSUME NEW S, NEW s \in Seq(S), NEW k \in 0 .. Len(s)
  PROVE  SubSeq(s, 1, k) \in Seq(S) /\ Range(SubSeq(s, 1, k)) \subseteq Range(s)
  <1>1. /\ SubSeq(s, 1, k) \in Seq(S)
        /\ Len(SubSeq(s, 1, k)) = k
        /\ \A i \in 1 .. k : SubSeq(s, 1, k)[i] = s[i]
    OBVIOUS
  <1>2. /\ Range(SubSeq(s, 1, k)) = {SubSeq(s, 1, k)[i] : i \in 1 .. Len(SubSeq(s, 1, k))}
        /\ Range(s) = {s[i] : i \in 1 .. Len(s)}
    BY <1>1, RangeEquality
  <1> QED BY <1>1, <1>2

LEMMA AppendSecond ==
  ASSUME NEW m, NEW n
  PROVE  Append(<<m>>, n) = <<m, n>>
  <1>1. PICK S : m \in S /\ n \in S
    <2>1. m \in {m, n} /\ n \in {m, n}
      OBVIOUS
    <2> QED BY <2>1
  <1>2. <<m>> \in Seq(S) /\ <<m, n>> \in Seq(S) /\ <<n>> \in Seq(S)
    BY <1>1
  <1>3. PICK s \in Seq(S) : s = <<m>>
    BY <1>2
  <1>4. PICK t \in Seq(S) : t = <<m, n>>
    BY <1>2
  <1>5. /\ Append(s, n) \in Seq(S) /\ Len(Append(s, n)) = 2
        /\ Append(s, n)[1] = m /\ Append(s, n)[2] = n
    BY <1>1, <1>3, AppendProperties
  <1>6. Len(t) = 2 /\ t[1] = m /\ t[2] = n
    BY <1>4
  <1>7. \A i \in 1 .. 2 : Append(s, n)[i] = t[i]
    BY <1>5, <1>6
  <1>8. Append(s, n) = t
    BY <1>5, <1>6, <1>7, SeqEqual
  <1> QED BY <1>3, <1>4, <1>8
=============================================================================
