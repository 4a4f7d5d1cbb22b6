---------------------------- MODULE DurableStore ----------------------------
(***************************************************************************)
(* What a file system that survives power cuts promises: a request to      *)
(* store or delete one file takes effect at one instant between its start  *)
(* and its acknowledgement, or, if the power fails first, perhaps never;   *)
(* an acknowledged request has taken effect; nothing else ever changes.    *)
(***************************************************************************)
CONSTANTS Names, Contents, Absent, None

VARIABLES
  store,   \* what a mount would show
  req      \* the request under way, or None

vars == <<store, req>>

Init ==
  /\ store = [n \in Names |-> Absent]
  /\ req = None

Begin ==
  /\ req = None
  /\ req' \in [name : Names, value : Contents]
  /\ UNCHANGED store

\* The instant a write takes effect.
Commit ==
  /\ req # None
  /\ store' = [store EXCEPT ![req.name] = req.value]
  /\ UNCHANGED req

\* A delete takes effect as it is acknowledged.
Delete ==
  /\ req = None
  /\ \E n \in Names : store' = [store EXCEPT ![n] = Absent]
  /\ UNCHANGED req

Acknowledge ==
  /\ req # None
  /\ store' = [store EXCEPT ![req.name] = req.value]
  /\ req' = None

PowerCut == req' = None /\ UNCHANGED store

Next == Begin \/ Commit \/ Delete \/ Acknowledge \/ PowerCut

Spec == Init /\ [][Next]_vars

=============================================================================
