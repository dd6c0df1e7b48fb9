------------------------------ MODULE HostingPlane ------------------------------
(***************************************************************************)
(* The hosting data plane of one workspace: the Runtime Controller's       *)
(* deployment queue and the API's explicit activations, both of which move *)
(* the public route, together on the same rows.                            *)
(***************************************************************************)
EXTENDS RuntimeController, RouteActivation

planeVars == <<controllerVars, callVars>>

PlaneTypeOK == ControllerTypeOK /\ CallsTypeOK

PlaneInit == ControllerInit /\ CallsInit

PlaneNext ==
    \/ ControllerNext /\ UNCHANGED callVars
    \/ /\ \/ \E a \in Callers : CallStep(a)
          \/ (\E d \in Deployments : LifecycleStep(d)) /\ UNCHANGED callVars
       /\ UNCHANGED <<workerVars, container, crashes>>

PlaneSpec == PlaneInit /\ [][PlaneNext]_planeVars

=============================================================================
