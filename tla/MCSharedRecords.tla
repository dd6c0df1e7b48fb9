--------------------------- MODULE MCSharedRecords ---------------------------
(***************************************************************************)
(* One model-checking run for three components whose rows are shared by    *)
(* actors who do not wait for each other: workspace retention, the         *)
(* membership of a task and the stock of a warehouse.  As in MCQueuedWork  *)
(* the components have no state in common, and focus picks the one that    *)
(* moves.                                                                  *)
(***************************************************************************)
EXTENDS WorkspaceRetention, TaskCollaboration, WarehouseStock

VARIABLE focus

sharedVars == <<retentionVars, collaborationVars, stockVars, focus>>

SharedInit ==
    /\ RetentionInit /\ CollaborationInit /\ StockInit
    /\ focus \in {"retention", "collaboration", "stock"}

SharedNext ==
    \/ /\ focus = "retention" /\ RetentionNext
       /\ UNCHANGED <<collaborationVars, stockVars, focus>>
    \/ /\ focus = "collaboration" /\ CollaborationNext
       /\ UNCHANGED <<retentionVars, stockVars, focus>>
    \/ /\ focus = "stock" /\ StockNext
       /\ UNCHANGED <<retentionVars, collaborationVars, focus>>

SharedSpec == SharedInit /\ [][SharedNext]_sharedVars

(* The three components' variables stay in their types. *)
SharedTypeOK ==
    RetentionTypeOK /\ CollaborationTypeOK /\ StockTypeOK
=============================================================================
