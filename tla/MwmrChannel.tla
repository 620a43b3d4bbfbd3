---------------------------- MODULE MwmrChannel ----------------------------
(***************************************************************************)
(* What an MWMR channel promises, libmwmr/include/mwmr/mwmr.h: a bounded   *)
(* buffer that any number of tasks write to and read from, some units at a *)
(* time.  What was written is in it until it is read.                      *)
(***************************************************************************)
EXTENDS Naturals

CONSTANT gdepth  \* units the buffer holds

VARIABLES put, got  \* units written and read so far

Put(n) == put + n <= got + gdepth /\ put' = put + n /\ UNCHANGED got
Get(n) == got + n <= put /\ got' = got + n /\ UNCHANGED put

\* Units are neither lost nor made up, and the buffer never overflows
\* (mwmr_soclib.c:187, mwmr_soclib_lockfree.c:144).
Channel == put = 0 /\ got = 0 /\ [][\E n \in 1..gdepth : Put(n) \/ Get(n)]_<<put, got>>
=============================================================================
