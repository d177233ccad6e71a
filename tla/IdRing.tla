------------------------------- MODULE IdRing -------------------------------
(***************************************************************************)
(* Comparisons of identifiers (src/src/utils.cpp).  A SHA-1 identifier is  *)
(* a number; memcmp on the 20 bytes is the order of the numbers.           *)
(***************************************************************************)
EXTENDS Integers

\* is_in_interval: the open interval (a, b) of the circle.
InInterval(x, a, b) == IF a < b THEN a < x /\ x < b ELSE a < x \/ x < b

\* should_transfer_file: the interval (new, current], not of the circle.
ShouldTransfer(f, new, current) == new < f /\ f <= current
=============================================================================
