----------------------------- MODULE MCDesired ------------------------------
(* Small instances of Desired for TLC.                                     *)
EXTENDS Desired

\* The last two of eight addresses are special.
LastTwo == {[addr |-> 6, bits |-> 2]}
=============================================================================
