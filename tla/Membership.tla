----------------------------- MODULE Membership -----------------------------
(***************************************************************************)
(* Admission to the product and membership of workspaces: profiles,        *)
(* access_requests, pool_members and one invite per workspace.  A route    *)
(* reads who may act, then runs the statement that acts; accepting an      *)
(* invite is one transaction of statements that each see what committed    *)
(* before them.  The workspaces exist, and Founder owns them.              *)
(***************************************************************************)
EXTENDS Deployment, Naturals

CONSTANTS
  Founder,
  Workspace, NoWorkspace,
  Uses               \* bound: uses of an invite
ASSUME MembershipAssumption ==
  Founder \in User /\ Uses \in Nat /\ NoWorkspace \notin Workspace

VARIABLES
  admittedAt,      \* accounts with profiles.admitted_at
  request,         \* access_requests: status, onboarding answered, the workspace
                   \* that is waiting on it (pending_pool_id)
  member,          \* pool_members, by workspace
  invite,          \* pool_invites: uses_remaining, 0 also when revoked
  guest,           \* of each process: an invite being accepted, uncommitted
  accepted         \* history: the workspace whose invite an account took last
memberVars == <<admittedAt, request, member, invite, guest, accepted>>

NoRequest == [status |-> "none", answered |-> FALSE, pool |-> NoWorkspace]
NoGuest == [at |-> "idle", user |-> Nobody, pool |-> NoWorkspace]

MemberInit ==
  /\ admittedAt = {Founder} /\ member = [w \in Workspace |-> {Founder}]
  /\ request = [u \in User |-> NoRequest]
  /\ invite = [w \in Workspace |-> 0]
  /\ accepted = [u \in User |-> NoWorkspace]
  /\ guest = [p \in Process |-> NoGuest]

\* access_state_for: the request decides, an older profile only without one.
Access(u) ==
  IF request[u].status = "none"
  THEN IF u \in admittedAt THEN "admitted" ELSE "needs_onboarding"
  ELSE IF request[u].status = "pending" /\ ~request[u].answered
  THEN "needs_onboarding" ELSE request[u].status

-----------------------------------------------------------------------------
SubmitAccessRequest(u) ==
  /\ Access(u) \in {"needs_onboarding", "pending"}
  /\ request' = [request EXCEPT ![u].status = "pending", ![u].answered = TRUE]
  /\ UNCHANGED <<admittedAt, member, invite, guest, accepted>>

\* One transaction: the decision, the admission and the invite it was waiting on.
ApproveAccess(u) ==
  /\ request[u].status = "pending"
  /\ request' = [request EXCEPT ![u].status = "admitted"]
  /\ admittedAt' = admittedAt \cup {u}
  /\ member' = [w \in Workspace |-> IF request[u].pool = w
                                     THEN member[w] \cup {u} ELSE member[w]]
  /\ UNCHANGED <<invite, guest, accepted>>

DeclineAccess(u) ==
  /\ request[u].status = "pending"
  /\ request' = [request EXCEPT ![u].status = "declined"]
  /\ UNCHANGED <<admittedAt, member, invite, guest, accepted>>

\* Only the owner of the workspace, who is admitted.
CreateInvite(w) ==
  /\ Founder \in member[w] /\ invite[w] = 0
  /\ \E n \in 1..Uses : invite' = [invite EXCEPT ![w] = n]
  /\ UNCHANGED <<admittedAt, request, member, guest, accepted>>
RevokeInvites(w) ==
  /\ invite[w] > 0 /\ \A p \in Process : guest[p].pool # w
  /\ invite' = [invite EXCEPT ![w] = 0]
  /\ UNCHANGED <<admittedAt, request, member, guest, accepted>>

-----------------------------------------------------------------------------
(* consume_pool_invite: the first update locks the invite's row until the  *)
(* transaction ends, so one acceptance of it is under way at a time.       *)
TakeUse(p, u, w) ==
  /\ guest[p].at = "idle"
  /\ invite[w] > 0 /\ \A q \in Process : guest[q].pool # w
  /\ guest' = [guest EXCEPT ![p] = [at |-> "taken", user |-> u, pool |-> w]]
  /\ UNCHANGED <<admittedAt, request, member, invite, accepted>>

ReadAdmission(p) ==
  /\ guest[p].at = "taken"
  /\ guest' = [guest EXCEPT ![p].at = IF guest[p].user \in admittedAt
                                      THEN "admitted" ELSE "waiting"]
  /\ UNCHANGED <<admittedAt, request, member, invite, accepted>>

\* The transaction that took the use commits.
Spent(p) ==
  /\ invite' = [invite EXCEPT ![guest[p].pool] = @ - 1]
  /\ accepted' = [accepted EXCEPT ![guest[p].user] = guest[p].pool]

Join(p) ==
  /\ guest[p].at = "admitted"
  /\ member' = [member EXCEPT ![guest[p].pool] = @ \cup {guest[p].user}]
  /\ Spent(p)
  /\ guest' = [guest EXCEPT ![p] = NoGuest]
  /\ UNCHANGED <<admittedAt, request>>

\* Mutant: the invite is written over a decision that has been taken.
RememberAnyway(p) ==
  LET u == guest[p].user
  IN /\ guest[p].at = "waiting"
     /\ request' = [request EXCEPT ![u].pool = guest[p].pool,
                      ![u].status = IF @ = "none" THEN "pending" ELSE @]
     /\ Spent(p)
     /\ guest' = [guest EXCEPT ![p] = NoGuest]
     /\ UNCHANGED <<admittedAt, member>>

\* record_pending_invite: only beside a request nobody has decided, in the place
\* of an earlier workspace.  Decided in the meantime, the transaction is rolled back and no use is spent.
RecordPendingInvite(p) ==
  LET u == guest[p].user
      undecided == request[u].status \in {"none", "pending"}
  IN /\ guest[p].at = "waiting"
     /\ IF undecided
        THEN /\ request' = [request EXCEPT ![u].pool = guest[p].pool,
                                           ![u].status = "pending"]
             /\ Spent(p)
        ELSE UNCHANGED <<request, invite, accepted>>
     /\ guest' = [guest EXCEPT ![p] = NoGuest]
     /\ UNCHANGED <<admittedAt, member>>

AcceptFails(p) ==
  /\ guest[p].at # "idle"
  /\ guest' = [guest EXCEPT ![p] = NoGuest]
  /\ UNCHANGED <<admittedAt, request, member, invite, accepted>>

MemberNext ==
  \/ \E u \in User : SubmitAccessRequest(u) \/ ApproveAccess(u) \/ DeclineAccess(u)
  \/ \E w \in Workspace : CreateInvite(w) \/ RevokeInvites(w)
  \/ \E p \in Process :
       \/ ReadAdmission(p) \/ Join(p) \/ RecordPendingInvite(p) \/ AcceptFails(p)
       \/ \E u \in User, w \in Workspace : TakeUse(p, u, w)

MemberSpec == MemberInit /\ [][MemberNext]_memberVars

MemberTypeOK ==
  /\ admittedAt \subseteq User /\ member \in [Workspace -> SUBSET User]
  /\ request \in [User -> [status : {"none", "pending", "admitted", "declined"},
                           answered : BOOLEAN,
                           pool : Workspace \cup {NoWorkspace}]]
  /\ invite \in [Workspace -> 0..Uses]
  /\ guest \in [Process -> [at : {"idle", "taken", "admitted", "waiting"},
                            user : User \cup {Nobody},
                            pool : Workspace \cup {NoWorkspace}]]
  /\ accepted \in [User -> Workspace \cup {NoWorkspace}]

-----------------------------------------------------------------------------
\* A use of an invite is not spent for nothing: who accepted one is a member, or
\* has it waiting on an undecided request, or was declined; a decision that
\* falls between the statements of an acceptance does not lose it.  (Of two
\* accepted while waiting the later is kept.)  And nobody is a member who is
\* not admitted.
InviteIsHonoured ==
  \A u \in User, w \in Workspace :
    /\ accepted[u] = w =>
         u \in member[w] \/ (request[u].pool = w /\ request[u].status # "admitted")
    /\ u \in member[w] => u \in admittedAt
=============================================================================
