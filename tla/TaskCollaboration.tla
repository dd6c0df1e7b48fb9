------------------------- MODULE TaskCollaboration -------------------------
(***************************************************************************)
(* The membership of one task's collaboration space                        *)
(* (services/task_collaboration.py): joining, asking, inviting, deciding,  *)
(* handing the ownership on, leaving.  Every call is one transaction at    *)
(* READ COMMITTED.  Only the row of a request or an invitation is locked;  *)
(* what a call reads of the members and of the space it reads without a    *)
(* lock, and it writes the members by their id.  So a call is two steps: *)
(* what it read (Begin...) and what it writes (Write...).                  *)
(*                                                                         *)
(* Channels, messages, read marks, events and the audit log are left out,  *)
(* and so is discoverability: it says who may find the space, never what   *)
(* joining does.                                                           *)
(***************************************************************************)
EXTENDS Naturals, FiniteSets

CONSTANTS People,       \* the users of the tenant
          Creator,      \* who opens the space
          Privileged,   \* those who hold tasks.manage
          Limits,       \* the values of max_members
          Browsers,     \* requests being served at the same time
          MaxCalls      \* bound: calls that read before they write

ASSUME PeopleAssumption == Creator \in People /\ Privileged \subseteq People
ASSUME LimitsAssumption == Limits # {} /\ Limits \subseteq Nat \ {0}
ASSUME MaxCallsAssumption == MaxCalls \in Nat

VARIABLES roleIn,      \* person -> role of the member row, "none" without a row
          memberNow,   \* those whose row is 'active'
          asking,      \* those with a pending join request
          invited,     \* those with a pending invitation
          policy,      \* join_policy
          limit,       \* max_members
          taskOpen,    \* the task is neither completed nor cancelled
          serving,     \* browser -> the call it has read for
          calls,       \* calls begun so far
          crowded      \* history: two admissions were counted together

collaborationVars == <<roleIn, memberNow, asking, invited, policy, limit, taskOpen,
                       serving, calls, crowded>>

JoinPolicies == {"open", "request", "invite_only"}
RequestRoles == {"contributor", "observer"}
Roles == {"owner", "coordinator", "none"} \cup RequestRoles

NoCall == [op |-> "idle"]
Call(operation, by, about, role, knew) ==
    [op |-> operation, by |-> by, about |-> about, role |-> role, knew |-> knew]

CollaborationTypeOK ==
    /\ roleIn \in [People -> Roles]
    /\ memberNow \subseteq {u \in People : roleIn[u] # "none"}
    /\ Cardinality({u \in memberNow : roleIn[u] = "owner"}) <= 1
    /\ asking \subseteq People /\ invited \subseteq People
    /\ policy \in JoinPolicies /\ limit \in Limits
    /\ taskOpen \in BOOLEAN /\ crowded \in BOOLEAN /\ calls \in 0..MaxCalls
    /\ DOMAIN serving = Browsers

\* open_space of a new space: its defaults, the largest of Limits standing for no limit.
CollaborationInit ==
    /\ roleIn = [u \in People |-> IF u = Creator THEN "owner" ELSE "none"]
    /\ memberNow = {Creator}
    /\ asking = {} /\ invited = {}
    /\ policy = "request"
    /\ limit \in {n \in Limits : \A k \in Limits : k <= n}
    /\ taskOpen = TRUE
    /\ serving = [b \in Browsers |-> NoCall]
    /\ calls = 0 /\ crowded = FALSE

(***************************************************************************)
(* What a call reads.                                                      *)
(***************************************************************************)
Manages(u) ==
    u \in memberNow /\ (roleIn[u] \in {"owner", "coordinator"} \/ u \in Privileged)

HasRoom == Cardinality(memberNow) < limit

Admissions == {"join", "approve", "accept"}

\* The row lock of a request or an invitation, held from the read to the end.
Locked(operation, u) == \E b \in Browsers :
    serving[b].op = operation /\ serving[b].about = u

Serve(b, call) ==
    /\ serving[b] = NoCall
    /\ calls < MaxCalls
    /\ serving' = [serving EXCEPT ![b] = call]
    /\ calls' = calls + 1
    /\ crowded' = (crowded \/ /\ call.op \in Admissions
                              /\ \E c \in Browsers : serving[c].op \in Admissions)
    /\ UNCHANGED <<roleIn, memberNow, asking, invited, policy, limit, taskOpen>>

\* request_or_join: a member has nothing to do, an invited user has to answer the
\* invitation, and the policy decides between joining and asking.
BeginJoin(b, u, role) ==
    /\ taskOpen /\ u \notin memberNow /\ u \notin invited
    /\ HasRoom
    /\ \/ policy = "open" /\ Serve(b, Call("join", u, u, role, roleIn[u]))
       \/ /\ policy = "request" /\ u \notin asking
          /\ Serve(b, Call("ask", u, u, role, roleIn[u]))

\* Mutant: an approval does not count the members.
ApprovesAnyhow(b, m, u) ==
    /\ taskOpen /\ Manages(m) /\ u \in asking /\ ~Locked("approve", u)
    /\ \E role \in RequestRoles : Serve(b, Call("approve", m, u, role, roleIn[u]))

\* decide_request: the request is locked while it is pending; whether its author has
\* become a member in the meantime is not asked.
BeginApprove(b, m, u) ==
    /\ taskOpen /\ Manages(m) /\ u \in asking /\ ~Locked("approve", u)
    /\ HasRoom
    /\ \E role \in RequestRoles : Serve(b, Call("approve", m, u, role, roleIn[u]))

Reject(m, u) ==
    /\ Manages(m) /\ u \in asking /\ ~Locked("approve", u)
    /\ asking' = asking \ {u}
    /\ UNCHANGED <<roleIn, memberNow, invited, policy, limit, taskOpen, serving, calls,
                   crowded>>

\* invite_member: not a member, not invited yet.
BeginInvite(b, m, u) ==
    /\ taskOpen /\ Manages(m) /\ u \notin memberNow /\ u \notin invited
    /\ Serve(b, Call("invite", m, u, "coordinator", roleIn[u]))

\* respond_invitation.
BeginAccept(b, u) ==
    /\ taskOpen /\ u \in invited /\ ~Locked("accept", u) /\ HasRoom
    /\ Serve(b, Call("accept", u, u, "coordinator", roleIn[u]))

Decline(u) ==
    /\ u \in invited /\ ~Locked("accept", u)
    /\ invited' = invited \ {u}
    /\ UNCHANGED <<roleIn, memberNow, asking, policy, limit, taskOpen, serving, calls,
                   crowded>>

\* transfer_ownership: from the owner to an active member who is not an observer.
BeginTransfer(b, u, successor) ==
    /\ taskOpen /\ u \in memberNow /\ roleIn[u] = "owner"
    /\ successor \in memberNow /\ roleIn[successor] \notin {"observer", "owner"}
    /\ Serve(b, Call("transfer", u, successor, "owner", roleIn[successor]))

\* Mutant: the owner leaves like anybody else.
AnyMemberLeaves(u) == u \in memberNow

\* leave_space: everybody but the owner.
MayLeave(u) == u \in memberNow /\ roleIn[u] # "owner"

BeginLeave(b, u) == MayLeave(u) /\ Serve(b, Call("leave", u, u, "none", roleIn[u]))

\* open_space of a space that exists: the new limit must hold the members there are.
UpdateSpace(m) ==
    /\ taskOpen /\ Manages(m)
    /\ policy' \in JoinPolicies
    /\ limit' \in {n \in Limits : n >= Cardinality(memberNow)}
    /\ crowded' = (crowded \/ \E c \in Browsers : serving[c].op \in Admissions)
    /\ UNCHANGED <<roleIn, memberNow, asking, invited, taskOpen, serving, calls>>

(***************************************************************************)
(* What a call writes.                                                     *)
(***************************************************************************)
Done(b) == /\ serving' = [serving EXCEPT ![b] = NoCall]
           /\ UNCHANGED <<policy, limit, taskOpen, calls, crowded>>

\* _activate_member: the row is updated when there is one, whatever its role.
Activate(u, role) ==
    /\ roleIn' = [roleIn EXCEPT ![u] = role]
    /\ memberNow' = memberNow \cup {u}

WriteJoin(b) ==
    /\ serving[b].op = "join"
    /\ Activate(serving[b].about, serving[b].role)
    /\ UNCHANGED <<asking, invited>> /\ Done(b)

\* The unique index keeps one pending request of a user; the second insert fails.
WriteAsk(b) ==
    /\ serving[b].op = "ask"
    /\ asking' = asking \cup {serving[b].about}
    /\ UNCHANGED <<roleIn, memberNow, invited>> /\ Done(b)

WriteApprove(b) ==
    /\ serving[b].op = "approve"
    /\ Activate(serving[b].about, serving[b].role)
    /\ asking' = asking \ {serving[b].about}
    /\ UNCHANGED invited /\ Done(b)

\* The invitation takes the place of a pending request.
WriteInvite(b) ==
    LET u == serving[b].about IN
    /\ serving[b].op = "invite" /\ ~Locked("approve", u)
    /\ invited' = invited \cup {u} /\ asking' = asking \ {u}
    /\ UNCHANGED <<roleIn, memberNow>> /\ Done(b)

WriteAccept(b) ==
    /\ serving[b].op = "accept"
    /\ Activate(serving[b].about, serving[b].role)
    /\ invited' = invited \ {serving[b].about}
    /\ UNCHANGED asking /\ Done(b)

\* Both roles are written by id.  idx_task_collaboration_one_active_owner refuses a
\* second active owner.
WriteTransfer(b) ==
    LET c == serving[b] IN
    /\ c.op = "transfer"
    /\ \A u \in memberNow \ {c.by, c.about} : roleIn[u] # "owner"
    /\ roleIn' = [roleIn EXCEPT ![c.by] = "coordinator", ![c.about] = "owner"]
    /\ UNCHANGED <<memberNow, asking, invited>> /\ Done(b)

WriteLeave(b) ==
    /\ serving[b].op = "leave"
    /\ memberNow' = memberNow \ {serving[b].about}
    /\ UNCHANGED <<roleIn, asking, invited>> /\ Done(b)

\* A constraint of the tables refuses the write and the transaction is rolled back.
Refused(b) ==
    LET c == serving[b] IN
    /\ \/ c.op \in Admissions /\ c.knew = "none" /\ roleIn[c.about] # "none"
       \/ c.op = "ask" /\ c.about \in asking
       \/ c.op = "invite" /\ c.about \in invited
       \/ /\ c.op = "transfer"
          /\ \E u \in memberNow \ {c.by, c.about} : roleIn[u] = "owner"
    /\ UNCHANGED <<roleIn, memberNow, asking, invited>> /\ Done(b)

TaskEnds ==
    /\ taskOpen /\ taskOpen' = FALSE
    /\ UNCHANGED <<roleIn, memberNow, asking, invited, policy, limit, serving, calls,
                   crowded>>

CollaborationNext ==
    \/ \E b \in Browsers, u \in People :
          \/ \E role \in RequestRoles : BeginJoin(b, u, role)
          \/ BeginAccept(b, u)
          \/ BeginLeave(b, u)
          \/ \E v \in People : \/ BeginApprove(b, u, v)
                               \/ BeginInvite(b, u, v)
                               \/ BeginTransfer(b, u, v)
    \/ \E u \in People : \/ Decline(u)
                         \/ UpdateSpace(u)
                         \/ \E v \in People : Reject(u, v)
    \/ \E b \in Browsers : \/ WriteJoin(b) \/ WriteAsk(b) \/ WriteApprove(b)
                           \/ WriteInvite(b) \/ WriteAccept(b) \/ WriteTransfer(b)
                           \/ WriteLeave(b) \/ Refused(b)
    \/ TaskEnds

CollaborationSpec == CollaborationInit /\ [][CollaborationNext]_collaborationVars

(***************************************************************************)
(* Properties.                                                             *)
(***************************************************************************)
Owned == \E u \in memberNow : roleIn[u] = "owner"

\* A space loses its owner in three ways only, none of which the code guards against:
\* the successor leaves while the ownership is being handed to them (in either order of
\* the two writes), or a request or an invitation that was still pending is granted to
\* somebody who has become the owner since.  Nobody can hand the ownership on in a space
\* that has lost its owner.
OwnershipIsNotLost ==
    [][Owned => Owned'
        \/ \E b \in Browsers :
             \/ serving[b].op = "transfer" /\ serving[b].about \notin memberNow
             \/ /\ serving[b].op = "leave" /\ roleIn[serving[b].about] = "owner"
                /\ serving[b].knew # "owner"
             \/ serving[b].op \in Admissions /\ roleIn[serving[b].about] = "owner"
      ]_collaborationVars

\* max_members bounds the members, except when two calls that admit or that change the
\* limit counted the members before either of them wrote: the count takes no lock.
LimitHolds == crowded \/ Cardinality(memberNow) <= limit
=============================================================================
