---------------------------- MODULE WarehouseStock -----------------------------
(***************************************************************************)
(* The stock of one item over the warehouses of a tenant                   *)
(* (services/warehouse_operations.py): receipts, issues, transfers between *)
(* warehouses and the archiving of the item.  Each call is a transaction;  *)
(* those that move stock out lock the lots they take from, those that      *)
(* bring stock in or archive the item lock nothing, and are two steps.     *)
(***************************************************************************)
EXTENDS Integers, FiniteSets, Functions

CONSTANTS
    Warehouses,
    Expiries,        \* expiry dates of lots, as numbers
    Inbounds,        \* client_request_id of receipts, as the quantity they bring
    Outbounds,       \* client_request_id of issues, as the quantity they take
    Clerks,          \* requests in flight that receive stock
    Shipments        \* shipment numbers

ASSUME StockAssumption ==
    /\ IsFiniteSet(Warehouses) /\ IsFiniteSet(Expiries) /\ IsFiniteSet(Shipments)
    /\ Warehouses # {} /\ Expiries # {} /\ Expiries \subseteq Nat
    /\ Inbounds \union Outbounds \subseteq Nat \ {0}

VARIABLES
    lots,         \* quantity_on_hand of the lots of a warehouse, by expiry date
    ledger,       \* sum of stock_ledger.quantity_delta of each warehouse
    received,     \* inbound orders
    issued,       \* outbound orders
    clerk,        \* the receipt a clerk's request has looked its item up for
    shipment,     \* warehouse.shipments
    archived,     \* whether the item is archived
    archiving,    \* whether an archiving request has seen the item without stock
    moving        \* history: stock was on its way in when the item was archived

stockVars == <<lots, ledger, received, issued, clerk, shipment, archived, archiving, moving>>

Lots == Warehouses \X Expiries
NoReceipt == 0
Shipped == [status : {"none", "in_transit", "arrived", "cancelled"},
            from : Warehouses, to : Warehouses, quantity : Nat, expiry : Expiries]

NotShipped ==
    [status |-> "none", from |-> CHOOSE h \in Warehouses : TRUE,
     to |-> CHOOSE h \in Warehouses : TRUE, quantity |-> 0,
     expiry |-> CHOOSE x \in Expiries : TRUE]

StockTypeOK ==
    /\ lots \in [Lots -> Nat]
    /\ ledger \in [Warehouses -> Int]
    /\ received \subseteq Inbounds
    /\ issued \subseteq Outbounds
    /\ clerk \in [Clerks -> Inbounds \union {NoReceipt}]
    /\ shipment \in [Shipments -> Shipped]
    /\ {archived, archiving, moving} \subseteq BOOLEAN

StockInit ==
    /\ lots = [l \in Lots |-> 0]
    /\ ledger = [h \in Warehouses |-> 0]
    /\ received = {} /\ issued = {}
    /\ clerk = [c \in Clerks |-> NoReceipt]
    /\ shipment = [s \in Shipments |-> NotShipped]
    /\ archived = FALSE /\ archiving = FALSE /\ moving = FALSE

-----------------------------------------------------------------------------
LotsOf(h) == {h} \X Expiries
OnHand(ls) == SumFunctionOnSet(lots, ls)

(* _consume_lots: the quantity is there, and taken from the lots that expire *)
(* first; between lots of one date the order is that of their creation.      *)
Takings(q, ls) ==
    {t \in [ls -> 0 .. q] :
        /\ SumFunction(t) = q
        /\ \A l \in ls : t[l] <= lots[l]
        /\ \A l, k \in ls : l[2] < k[2] /\ t[l] < lots[l] => t[k] = 0}

TakenFrom(t, h) == SumFunctionOnSet(t, DOMAIN t \intersect LotsOf(h))

(* The lots and the ledger after t was taken, one entry per lot. *)
Take(t) ==
    /\ lots' = [l \in Lots |-> IF l \in DOMAIN t THEN lots[l] - t[l] ELSE lots[l]]
    /\ ledger' = [h \in Warehouses |-> ledger[h] - TakenFrom(t, h)]

(* A lot is added, and its entry in the ledger. *)
Add(h, x, q) ==
    /\ lots' = [lots EXCEPT ![<<h, x>>] = @ + q]
    /\ ledger' = [ledger EXCEPT ![h] = @ + q]

-----------------------------------------------------------------------------
(* create_inbound looks the item up ... *)
FindItem(c, r) ==
    /\ clerk[c] = NoReceipt
    /\ ~archived
    /\ r \notin received
    /\ clerk' = [clerk EXCEPT ![c] = r]
    /\ UNCHANGED <<lots, ledger, received, issued, shipment, archived, archiving, moving>>

(* Mutant: a repeated request is received again. *)
AcceptsAgain(r) == TRUE

(* The unique client_request_id of an order. *)
FirstReceipt(r) == r \notin received

(* ... and posts the receipt, unless a request of the same name did so first. *)
PostReceipt(c) ==
    /\ clerk[c] # NoReceipt
    /\ clerk' = [clerk EXCEPT ![c] = NoReceipt]
    /\ IF FirstReceipt(clerk[c])
       THEN /\ \E h \in Warehouses, x \in Expiries : Add(h, x, clerk[c])
            /\ received' = received \union {clerk[c]}
       ELSE UNCHANGED <<lots, ledger, received>>
    /\ moving' = (moving \/ archiving)
    /\ UNCHANGED <<issued, shipment, archived, archiving>>

(* create_outbound, from whatever warehouses have it. *)
Issue(o) ==
    /\ ~archived
    /\ o \notin issued
    /\ \E t \in Takings(o, Lots) : Take(t)
    /\ issued' = issued \union {o}
    /\ UNCHANGED <<received, clerk, shipment, archived, archiving, moving>>

EarliestTaken(t) ==
    CHOOSE x \in Expiries :
        /\ \E l \in DOMAIN t : t[l] > 0 /\ l[2] = x
        /\ \A l \in DOMAIN t : t[l] > 0 => l[2] >= x

(* dispatch_shipment: what is taken travels as one batch, with the earliest *)
(* of its expiry dates.                                                     *)
Dispatch(s, q, h, k) ==
    /\ ~archived
    /\ shipment[s].status = "none"
    /\ h # k
    /\ \E t \in Takings(q, LotsOf(h)) :
        /\ Take(t)
        /\ shipment' = [shipment EXCEPT ![s] =
               [status |-> "in_transit", from |-> h, to |-> k, quantity |-> q,
                expiry |-> EarliestTaken(t)]]
    /\ UNCHANGED <<received, issued, clerk, archived, archiving, moving>>

InTransit(s) == shipment[s].status = "in_transit"

(* _shipment_action: the goods become a new lot where they arrive, or where *)
(* they came from; the item is not looked up again.                         *)
EndShipment(s, status, h) ==
    /\ InTransit(s)
    /\ Add(h, shipment[s].expiry, shipment[s].quantity)
    /\ shipment' = [shipment EXCEPT ![s].status = status]
    /\ moving' = (moving \/ archiving)
    /\ UNCHANGED <<received, issued, clerk, archived, archiving>>

ArriveShipment(s) == EndShipment(s, "arrived", shipment[s].to)
CancelShipment(s) == EndShipment(s, "cancelled", shipment[s].from)

(* Mutant: the stock of a single warehouse is looked at. *)
NoStockInOne(ls) == \E h \in Warehouses : OnHand(LotsOf(h)) = 0

NoStock(ls) == OnHand(ls) = 0

(* archive_item finds no stock ... *)
FindNoStock ==
    /\ ~archived /\ ~archiving
    /\ NoStock(Lots)
    /\ archiving' = TRUE
    /\ UNCHANGED <<lots, ledger, received, issued, clerk, shipment, archived, moving>>

(* ... and archives the item. *)
ArchiveItem ==
    /\ archiving
    /\ archiving' = FALSE
    /\ archived' = TRUE
    /\ moving' = (moving \/ (\E s \in Shipments : InTransit(s))
                         \/ \E c \in Clerks : clerk[c] # NoReceipt)
    /\ UNCHANGED <<lots, ledger, received, issued, clerk, shipment>>

-----------------------------------------------------------------------------
StockNext ==
    \/ \E c \in Clerks : (\E r \in Inbounds : FindItem(c, r)) \/ PostReceipt(c)
    \/ \E o \in Outbounds : Issue(o)
    \/ \E s \in Shipments :
        \/ \E q \in Inbounds, h, k \in Warehouses : Dispatch(s, q, h, k)
        \/ ArriveShipment(s)
        \/ CancelShipment(s)
    \/ FindNoStock
    \/ ArchiveItem

StockSpec == StockInit /\ [][StockNext]_stockVars

-----------------------------------------------------------------------------
(* Properties of the stock. *)

Total(S) == SumFunction([q \in S |-> q])
InTransitTotal ==
    SumFunction([s \in Shipments |-> IF InTransit(s) THEN shipment[s].quantity ELSE 0])

(* Nothing is lost or made up: what was received, each request once, and    *)
(* not issued is on hand or in transit, and the ledger of every warehouse   *)
(* agrees with its lots, none of which is negative.                         *)
StockIsConserved ==
    /\ OnHand(Lots) + InTransitTotal = Total(received) - Total(issued)
    /\ \A h \in Warehouses : ledger[h] = OnHand(LotsOf(h))
    /\ \A l \in Lots : lots[l] >= 0

(* An archived item has no stock, which nobody could issue any more.  The   *)
(* exception is stock on its way in: the check looks at the lots only, and  *)
(* neither a receipt under way nor a shipment looks at the item again.      *)
ArchivedItemIsEmpty == archived /\ ~moving => OnHand(Lots) = 0

=============================================================================
