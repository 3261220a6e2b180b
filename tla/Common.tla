------------------------------- MODULE Common -------------------------------
(* What every module of the development shares.                            *)
EXTENDS Integers, Sequences, FiniteSets

CONSTANT None   \* Rust's None, different from every other value

Max2(a, b) == IF a >= b THEN a ELSE b
Min2(a, b) == IF a <= b THEN a ELSE b
=============================================================================
