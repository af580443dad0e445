------------------------------ MODULE MCThread ------------------------------
(***************************************************************************)
(* Small instances of RtThread for TLC: main, the idle demon and one or    *)
(* two threads that come and go.                                           *)
(***************************************************************************)
EXTENDS RtThread

CONSTANTS main, t1, t2, idle, flagA

\* Every thread above main; or every thread beside main.
MCHighPrio == [t \in Thread |-> 2]
MCSamePrio == [t \in Thread |-> 1]
MCSymmetry == Permutations({t1, t2})
=============================================================================
