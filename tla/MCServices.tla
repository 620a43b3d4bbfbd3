----------------------------- MODULE MCServices -----------------------------
(***************************************************************************)
(* Memory, timers and sockets, on small instances: one service, chosen at  *)
(* the start, and those who use it.                                        *)
(***************************************************************************)
EXTENDS SocketRecv, PageAlloc, MemAllocator, TLC

CONSTANTS x1, x2, x3

VARIABLE service

allVars == <<service, skVars, pgVars, maVars>>

Init ==
  /\ service \in {"timer", "socket", "pages", "memory"}
  /\ SkInit /\ ppage_region_init /\ memory_allocator_init
  /\ users \in {{x1}, {x1, x2}}  \* all receivers are alike
  /\ service # "socket" => users = {x1} /\ recv_timeout = 0
  /\ service # "memory" => best_fit

Next ==
  /\ UNCHANGED service
  /\ \/ service = "timer" /\ TmNext /\ UNCHANGED <<semVars, skOnly, pgVars, maVars>>
     \/ service = "socket" /\ SkNext /\ UNCHANGED <<pgVars, maVars>>
     \/ service = "pages" /\ PgNext /\ UNCHANGED <<skVars, maVars>>
     \/ service = "memory" /\ MaNext /\ UNCHANGED <<skVars, pgVars>>

Spec == Init /\ [][Next]_allVars
=============================================================================
