------------------------ MODULE LighthouseFederation ------------------------
(***************************************************************************)
(* One remote run between the warehouse and a user's device                *)
(* (services/lighthouse_federation.py, api/lighthouse_federation.py).  The *)
(* warehouse keeps what it has to say in an outbox table and what the      *)
(* device said in an event log; in between are web sockets, which are      *)
(* replaced, break, and lose what was under way.  Both sides repeat on the *)
(* next connection whatever was not acknowledged.                          *)
(*                                                                         *)
(* The device is not part of this repository: what it does is modelled     *)
(* from docs/lighthouse-federation-protocol-v1.md and marked external.     *)
(* Goals, inputs, receipts and approval projections are payload; pairing   *)
(* and tokens are left out, and so are progress events, which only turn an *)
(* offered or accepted run into 'running'.  A completion stands for a      *)
(* failure or a cancellation too.  One server process holds the sockets,   *)
(* as compose.production.yaml starts it.                                   *)
(***************************************************************************)
EXTENDS Naturals, Sequences, SequencesExt

CONSTANTS MaxConnections,  \* bound: connections the device opens
          Courses          \* bound: what may befall one run besides offer and answer

ASSUME CoursesAssumption == Courses \subseteq {"approval", "cancellation", "revocation"}
ASSUME MaxConnectionsAssumption == MaxConnections \in Nat \ {0}

VARIABLES runStatus,    \* lighthouse.runs.status
          outbox,       \* the rows of lighthouse.outbox, in the order of their id
          unsent,       \* committed rows whose request has not tried the socket yet
          delivered,    \* rows with delivered_at
          eventLog,     \* lighthouse.run_events: positions of the device's messages
          revoked,      \* the device's status is 'revoked'
          registered,   \* the connection in the registry, 0 without one
          serverLoop,   \* connection -> what its server loop is doing
          replaying,    \* connection -> rows read by pending_outbox and not sent yet
          toDevice,     \* connection -> what is under way to the device
          fromDevice,   \* connection -> what is under way from the device
          online,       \* the connection the device uses, 0 without one
          dialled,      \* connections dialled so far
          handled,      \* rows the device has acted on
          emitted,      \* the device's own outbox: what it has to say of the run
          confirmed,    \* positions of emitted the warehouse has acknowledged
          course        \* the one of Courses that this behaviour explores

federationVars == <<runStatus, outbox, unsent, delivered, eventLog, revoked, registered,
                    serverLoop, replaying, toDevice, fromDevice, online, dialled, handled,
                    emitted, confirmed, course>>
table == <<runStatus, outbox, delivered, eventLog, revoked>>
device == <<handled, emitted, confirmed, course>>
sockets == <<registered, serverLoop, replaying, toDevice, fromDevice, online, dialled>>

Connections == 1..MaxConnections
\* What a socket carries: a row of the outbox or a message about the run, or the
\* acknowledgement of one.
AboutRow(row) == [row |-> row, event |-> 0]
AboutEvent(i) == [row |-> "none", event |-> i]
Rows == {"offer", "cancel"}
Reports == {"accepted", "rejected", "approval_required", "completed"}
EndedRun == {"completed", "rejected"}
RunStatuses == EndedRun \cup {"none", "offered", "accepted", "awaiting_approval",
                              "cancelling"}

FederationTypeOK ==
    /\ runStatus \in RunStatuses
    /\ Len(outbox) <= 2 /\ \A i \in 1..Len(outbox) : outbox[i] \in Rows
    /\ delivered \subseteq handled /\ handled \subseteq Rows /\ unsent \subseteq Rows
    /\ \A i \in 1..Len(eventLog) : eventLog[i] \in 1..Len(emitted)
    /\ revoked \in BOOLEAN /\ dialled \in 0..MaxConnections
    /\ registered \in 0..dialled /\ online \in 0..dialled
    /\ \A n \in Connections :
          serverLoop[n] \in {"closed", "opening", "replaying", "receiving"}

FederationInit ==
    /\ runStatus = "none" /\ outbox = <<>> /\ unsent = {} /\ delivered = {}
    /\ eventLog = <<>> /\ revoked = FALSE
    /\ registered = 0 /\ online = 0 /\ dialled = 0
    /\ serverLoop = [n \in Connections |-> "closed"]
    /\ replaying = [n \in Connections |-> <<>>]
    /\ toDevice = [n \in Connections |-> <<>>]
    /\ fromDevice = [n \in Connections |-> <<>>]
    /\ handled = {} /\ emitted = <<>> /\ confirmed = {}
    /\ course = "offer"

(***************************************************************************)
(* The console.  The row is committed first, the socket is tried after.    *)
(***************************************************************************)
\* create_remote_run: an active device.
OfferRun ==
    /\ runStatus = "none" /\ ~revoked
    /\ runStatus' = "offered"
    /\ outbox' = Append(outbox, "offer") /\ unsent' = unsent \cup {"offer"}
    /\ course' \in Courses
    /\ UNCHANGED <<delivered, eventLog, revoked, sockets, handled, emitted, confirmed>>

\* enqueue_run_control, run.cancel: any run that has not ended.
CancelRun ==
    /\ runStatus \notin EndedRun \cup {"none"}
    /\ course = "cancellation" /\ ~Contains(outbox, "cancel")
    /\ runStatus' = "cancelling"
    /\ outbox' = Append(outbox, "cancel") /\ unsent' = unsent \cup {"cancel"}
    /\ UNCHANGED <<delivered, eventLog, revoked, sockets, device>>

\* DeviceConnectionRegistry.send: to the device's registered connection, which is not
\* always the one the caller was started for.
SentTo(message) == [toDevice EXCEPT ![registered] = Append(@, message)]

\* Mutant: what was written to a socket counts as delivered.
DeliverAndMark ==
    \E row \in unsent :
        /\ unsent' = unsent \ {row}
        /\ toDevice' = IF registered = 0 THEN toDevice ELSE SentTo(AboutRow(row))
        /\ delivered' = IF registered = 0 THEN delivered ELSE delivered \cup {row}
        /\ UNCHANGED <<runStatus, outbox, eventLog, revoked, registered, serverLoop, replaying,
                       fromDevice, online, dialled, device>>

\* _deliver: whether it was sent or not, the row stays undelivered.
Deliver ==
    \E row \in unsent :
        /\ unsent' = unsent \ {row}
        /\ toDevice' = IF registered = 0 THEN toDevice ELSE SentTo(AboutRow(row))
        /\ UNCHANGED <<table, registered, serverLoop, replaying, fromDevice, online, dialled,
                       device>>

\* device_revoke: the row, then the socket.
Revoke ==
    /\ course = "revocation"
    /\ ~revoked /\ revoked' = TRUE
    /\ registered' = 0
    /\ online' = IF online = registered THEN 0 ELSE online
    /\ UNCHANGED <<runStatus, outbox, unsent, delivered, eventLog, serverLoop, replaying,
                   toDevice, fromDevice, dialled, device>>

(***************************************************************************)
(* The server side of a connection (device_connect).                       *)
(***************************************************************************)
\* The given positions one after the other, in their order.
InOrder(positions) ==
    {order \in [1..Cardinality(positions) -> positions] :
        /\ Range(order) = positions
        /\ \A p, q \in DOMAIN order : p < q => order[p] < order[q]}

\* The device connects (external) and repeats what is not confirmed; register replaces
\* the connection there was.
Connect ==
    /\ online = 0 /\ ~revoked /\ dialled < MaxConnections
    /\ dialled' = dialled + 1 /\ online' = dialled + 1 /\ registered' = dialled + 1
    /\ serverLoop' = [serverLoop EXCEPT ![dialled + 1] = "opening"]
    /\ \E order \in InOrder({i \in 1..Len(emitted) : i \notin confirmed}) :
           fromDevice' = [fromDevice EXCEPT ![dialled + 1] =
               [p \in DOMAIN order |-> AboutEvent(order[p])]]
    /\ UNCHANGED <<table, unsent, replaying, toDevice, device>>

\* pending_outbox, in the order of the rows' id.
ReadOutbox(n) ==
    /\ serverLoop[n] = "opening"
    /\ serverLoop' = [serverLoop EXCEPT ![n] = "replaying"]
    /\ \E order \in InOrder({i \in 1..Len(outbox) : outbox[i] \notin delivered}) :
           replaying' = [replaying EXCEPT ![n] = [p \in DOMAIN order |-> outbox[order[p]]]]
    /\ UNCHANGED <<table, unsent, registered, toDevice, fromDevice, online, dialled, device>>

\* A failed send ends the loop of the connection that sent.
LoopAfterSend(n) ==
    IF registered = 0 THEN [serverLoop EXCEPT ![n] = "closed"] ELSE serverLoop

Replay(n) ==
    /\ serverLoop[n] = "replaying"
    /\ IF replaying[n] = <<>>
       THEN /\ serverLoop' = [serverLoop EXCEPT ![n] = "receiving"]
            /\ UNCHANGED <<replaying, toDevice>>
       ELSE /\ replaying' = [replaying EXCEPT ![n] = Tail(@)]
            /\ serverLoop' = LoopAfterSend(n)
            /\ toDevice' = IF registered = 0 THEN toDevice
                           ELSE SentTo(AboutRow(Head(replaying[n])))
    /\ UNCHANGED <<table, unsent, registered, fromDevice, online, dialled, device>>

\* What one report of the device makes of the run.
AfterReport(status, report) ==
    CASE report = "accepted" -> IF status = "offered" THEN "accepted" ELSE status
      [] report = "rejected" -> IF status = "completed" THEN status ELSE "rejected"
      [] report = "approval_required" -> "awaiting_approval"
      [] report = "completed" -> "completed"

\* _append_event and the lookup before it: one event for each message id.
AlreadyLogged(i) == Contains(eventLog, i)

\* handle_device_message, and its acknowledgement to whatever connection is registered.
HandleReport(n) ==
    LET i == Head(fromDevice[n]).event IN
    /\ serverLoop[n] = "receiving" /\ fromDevice[n] # <<>> /\ i # 0
    /\ fromDevice' = [fromDevice EXCEPT ![n] = Tail(@)]
    /\ IF AlreadyLogged(i)
       THEN UNCHANGED <<runStatus, eventLog>>
       ELSE /\ runStatus' = AfterReport(runStatus, emitted[i])
            /\ eventLog' = Append(eventLog, i)
    /\ toDevice' = IF registered = 0 THEN toDevice ELSE SentTo(AboutEvent(i))
    /\ serverLoop' = LoopAfterSend(n)
    /\ UNCHANGED <<outbox, unsent, delivered, revoked, registered, replaying, online,
                   dialled, device>>

\* message.ack: mark_outbox_delivery.
HandleAck(n) ==
    /\ serverLoop[n] = "receiving" /\ fromDevice[n] # <<>> /\ Head(fromDevice[n]).event = 0
    /\ delivered' = delivered \cup {Head(fromDevice[n]).row}
    /\ fromDevice' = [fromDevice EXCEPT ![n] = Tail(@)]
    /\ UNCHANGED <<runStatus, outbox, unsent, eventLog, revoked, registered, serverLoop, replaying,
                   toDevice, online, dialled, device>>

\* The loop meets the end of its socket; only the registered one unregisters.
Disconnected(n) ==
    /\ serverLoop[n] = "receiving" /\ fromDevice[n] = <<>> /\ online # n
    /\ serverLoop' = [serverLoop EXCEPT ![n] = "closed"]
    /\ registered' = IF registered = n THEN 0 ELSE registered
    /\ UNCHANGED <<table, unsent, replaying, toDevice, fromDevice, online, dialled, device>>

(***************************************************************************)
(* The network and the device (external).                                  *)
(***************************************************************************)
\* What was under way to the device is lost, and what it had sent arrives or is lost too.
\* Bound: in the course of a cancellation connections hold.
ConnectionBreaks ==
    /\ online # 0 /\ dialled < MaxConnections /\ course # "cancellation"
    /\ toDevice' = [toDevice EXCEPT ![online] = <<>>]
    /\ \E k \in {0, Len(fromDevice[online])} :
           fromDevice' = [fromDevice EXCEPT ![online] = SubSeq(@, 1, k)]
    /\ online' = 0
    /\ UNCHANGED <<table, unsent, registered, serverLoop, replaying, dialled, device>>

Says(reports, ack) ==
    LET first == Len(emitted) + 1
        new == [i \in 1..Len(reports) |-> AboutEvent(first + i - 1)]
    IN /\ emitted' = emitted \o reports
       /\ fromDevice' = [fromDevice EXCEPT ![online] = @ \o new \o ack]

\* The device acts once on an offer and on a cancellation, and acknowledges either again.
DeviceHandles ==
    LET row == Head(toDevice[online]).row
        ack == <<AboutRow(row)>> IN
    /\ online # 0 /\ toDevice[online] # <<>> /\ row # "none"
    /\ toDevice' = [toDevice EXCEPT ![online] = Tail(@)]
    /\ handled' = handled \cup {row}
    /\ CASE row \in handled -> Says(<<>>, ack)
         [] row = "offer" /\ row \notin handled ->
               \/ Says(<<"accepted">>, ack) \/ Says(<<"rejected">>, ack)
         [] row = "cancel" /\ row \notin handled ->
               IF Contains(emitted, "accepted") /\ ~Contains(emitted, "completed")
               THEN Says(<<"completed">>, ack) ELSE Says(<<>>, ack)
    /\ UNCHANGED <<table, unsent, registered, serverLoop, replaying, online, dialled, confirmed,
                   course>>

\* The device asks for an approval, once, and ends the run.
DeviceWorks ==
    /\ online # 0 /\ Contains(emitted, "accepted") /\ ~Contains(emitted, "completed")
    /\ \/ /\ ~Contains(emitted, "approval_required")
          /\ course = "approval" /\ Says(<<"approval_required">>, <<>>)
       \/ Says(<<"completed">>, <<>>)
    /\ UNCHANGED <<table, unsent, registered, serverLoop, replaying, toDevice, online, dialled,
                   handled, confirmed, course>>

DeviceIsConfirmed ==
    /\ online # 0 /\ toDevice[online] # <<>> /\ Head(toDevice[online]).row = "none"
    /\ confirmed' = confirmed \cup {Head(toDevice[online]).event}
    /\ toDevice' = [toDevice EXCEPT ![online] = Tail(@)]
    /\ UNCHANGED <<table, unsent, registered, serverLoop, replaying, fromDevice, online, dialled,
                   handled, emitted, course>>

ServerStep == Deliver \/ \E n \in Connections :
    ReadOutbox(n) \/ Replay(n) \/ HandleReport(n) \/ HandleAck(n) \/ Disconnected(n)
DeviceStep == Connect \/ DeviceHandles \/ DeviceIsConfirmed

FederationNext ==
    \/ OfferRun \/ CancelRun \/ Revoke
    \/ Deliver
    \/ \E n \in Connections : \/ ReadOutbox(n) \/ Replay(n) \/ HandleReport(n)
                              \/ HandleAck(n) \/ Disconnected(n)
    \/ Connect \/ ConnectionBreaks \/ DeviceHandles \/ DeviceWorks \/ DeviceIsConfirmed

\* The server's tasks run on; the device reconnects and works through what it received.
\* Nobody has to offer, cancel, revoke, finish a run or break a connection.
FederationFairness == WF_federationVars(ServerStep) /\ WF_federationVars(DeviceStep)
FederationSpec == FederationInit /\ [][FederationNext]_federationVars /\ FederationFairness

(***************************************************************************)
(* Properties.                                                             *)
(***************************************************************************)
\* A run that ended stays as it ended.  handle_device_message writes 'awaiting_approval'
\* and a completion whatever the status is, so this hangs on every repeated message being
\* recognised, and on a message of the device never overtaking an earlier one, also when
\* an old connection is still being read after a new one has replaced it.
EndedRunsStay == [][(runStatus \in EndedRun) => runStatus' = runStatus]_federationVars

\* An offer reaches a device that is not revoked, whatever is lost on the way: a row stays
\* pending until the device itself acknowledges it, and every connection repeats it.
OfferIsHandled == (runStatus = "offered") ~> ("offer" \in handled \/ revoked)
=============================================================================
