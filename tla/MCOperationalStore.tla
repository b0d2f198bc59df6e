------------------------- MODULE MCOperationalStore -------------------------
(* Instances of OperationalStore for TLC. *)
EXTENDS OperationalStore

\* The released rows of the compatibility table: 0.1.0 and 0.2.0.
MCTarget == <<1, 2>>
MCMinReadable == <<1, 1>>
=============================================================================
