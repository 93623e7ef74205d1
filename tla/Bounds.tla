------------------------------- MODULE Bounds -------------------------------
(* The smaller and the larger of two integers, in the form the provers read  *)
(* without a choice operator.                                                *)
EXTENDS Integers

Lesser(a, b)  == IF a <= b THEN a ELSE b
Greater(a, b) == IF a >= b THEN a ELSE b
=============================================================================
