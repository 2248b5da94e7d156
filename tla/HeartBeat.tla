------------------------------- MODULE HeartBeat ------------------------------
(* HeartBeat.run: a frontend thread that asks every registered server whether  *)
(* it is alive, over and over, and unregisters one that did not answer the     *)
(* call and its three retries.  The answer is taken outside serversLock and    *)
(* acted on inside it.                                                         *)
EXTENDS Frontend

VARIABLE suspect   \* the server found dead and not yet removed, or None

\* alive() of a live server changes nothing and is not a step.
Probe(s) ==
  /\ suspect = None /\ s \in servers /\ ~Up(s)
  /\ suspect' = s
  /\ UNCHANGED vars

\* Mutant of Remove: the server is removed without serversLock.
RemoveUnsynchronized ==
  /\ suspect # None
  /\ servers' = servers \ {suspect}
  /\ suspect' = None
  /\ UNCHANGED <<serverVars, requestVars, monitor, todo, committed>>

\* Mutant of Remove: the dead server stays on the list.
RemoveForgets ==
  /\ suspect # None /\ monitor = None
  /\ suspect' = None
  /\ UNCHANGED vars

Remove ==
  /\ suspect # None /\ monitor = None
  /\ servers' = servers \ {suspect}
  /\ suspect' = None
  /\ UNCHANGED <<serverVars, requestVars, monitor, todo, committed>>
=============================================================================
