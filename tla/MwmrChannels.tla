---------------------------- MODULE MwmrChannels ----------------------------
(***************************************************************************)
(* The two implementations of a MWMR channel in libmwmr, under a spin lock *)
(* and without locks, and what they have in common.                        *)
(***************************************************************************)
EXTENDS MwmrLockfree, MwmrLocked

\* Units come out of either channel as they were put in, in the order they were
\* put in (mwmr_soclib.c:183-197, mwmr_soclib_lockfree.c:173, 221).
ChannelsInOrder == LfInv /\ LkInv

\* Both are the channel that MwmrChannel specifies (mwmr.h).
ChannelsImplement == LfImplements /\ LkImplements
=============================================================================
