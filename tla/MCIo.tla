------------------------------- MODULE MCIo -------------------------------
(***************************************************************************)
(* Devices and the packet dispatching thread, on small instances: one      *)
(* part, chosen at the start, and those who use it.                        *)
(***************************************************************************)
EXTENDS CharRequest, BlockRequest, NetDispatch, TLC

CONSTANTS x1, x2

VARIABLE part

\* smp is in chVars
allVars == <<part, chVars, bkOnly, ndOnly>>

Init ==
  /\ part \in {"char", "block", "dispatch"}
  /\ ChInit /\ BInit /\ DInit

Next ==
  /\ UNCHANGED part
  /\ \/ part = "char" /\ ChNext /\ UNCHANGED <<bkOnly, ndOnly>>
     \/ part = "block" /\ BNext /\ UNCHANGED <<chOnly, ndOnly>>
     \/ part = "dispatch" /\ DNext /\ UNCHANGED <<chOnly, bkOnly>>

\* what the module of each part says
Fairness ==
  /\ WF_chVars(part = "char" /\ tty_irq) /\ WF_chVars(part = "char" /\ Serve)
  /\ \A x \in Caller : SF_chVars(part = "char" /\ CallerStep(x))
  /\ WF_bkVars(part = "block" /\ BServe) /\ \A x \in BCaller : SF_bkVars(part = "block" /\ BStep(x))
  /\ WF_ndVars(part = "dispatch" /\ Thread_) /\ WF_ndVars(part = "dispatch" /\ Killer)
  /\ \A p \in Packet : WF_ndVars(part = "dispatch" /\ (rx_push(p) \/ rx_give(p)))

Spec == Init /\ [][Next]_allVars /\ Fairness
=============================================================================
