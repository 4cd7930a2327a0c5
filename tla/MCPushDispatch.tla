--------------------------- MODULE MCPushDispatch ---------------------------
(* Two deliveries for one device.  A behaviour either lets two dispatch calls  *)
(* overlap, or runs one at a time while receipts are synchronised, jobs are    *)
(* queued and retried, and a fault strikes.                                    *)
EXTENDS PushSends, TLC

CONSTANT i1
VARIABLE overlap

OneDevice == (1 :> i1) @@ (2 :> i1)
OneDelivery == (1 :> i1)

Busy == {w \in Workers : run[w].pc # "idle"}

MCInit == SendsInit /\ overlap \in BOOLEAN

\* Bound: while calls overlap, only the first delivery is ever deleted, the other's
\* tickets say ok or DeviceNotRegistered, and a revoked device stays so.
FewChanges ==
  /\ \A d \in Deliveries \ {1} : row'[d].status # "deleted"
  /\ \A w \in Workers, d \in Deliveries \ {1} : run'[w].tickets[d] \in {"ok", "gone"}
  /\ \A i \in Installations : inst[i] = "inactive" => inst'[i] # "active"

MCNext ==
  /\ SendsNext
  /\ UNCHANGED overlap
  /\ IF overlap THEN UNCHANGED <<jobs, sync, faults>> /\ FewChanges
                ELSE \A v, w \in Busy' : v = w

MCSpec == MCInit /\ [][MCNext]_<<sendVars, overlap>>

Symmetry == Permutations(Workers)
=============================================================================
