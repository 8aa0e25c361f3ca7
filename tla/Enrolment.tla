----------------------------- MODULE Enrolment ------------------------------
(***************************************************************************)
(* How a machine gets its token (enrolment.py, device routes of app.py):   *)
(* an agent asks for a code, an account approves it, the agent redeems it. *)
(* One node id, so one row of machines; every statement commits by itself, *)
(* but an approval into a workspace, which is one transaction.             *)
(* A token is named by the code it was redeemed with.                      *)
(***************************************************************************)
EXTENDS Deployment

CONSTANTS
  DeviceCode,       \* codes asked for the node id
  Ephemeral,        \* those asked for by an ephemeral machine
  NoToken

ASSUME EnrolAssumption == NoToken \notin DeviceCode

VARIABLES
  code,             \* device_codes
  machine,          \* the row of machines: status, owner, token, lifecycle
  inPool,           \* its row of machine_pools
  enroller,         \* of each process: the handler it runs
  dead              \* history: tokens that were live when revoked
enrolVars == <<code, machine, inPool, enroller, dead>>

Retired == {"revoked", "deleted"}
IdleEnroller == [at |-> "idle", code |-> NoToken, user |-> Nobody]

EnrolInit ==
  /\ code = [c \in DeviceCode |-> [state |-> "none", by |-> Nobody,
                                   consumed |-> FALSE]]
  /\ machine = [status |-> "none", owner |-> Nobody, token |-> NoToken,
                ephemeral |-> FALSE]
  /\ inPool = FALSE /\ dead = {}
  /\ enroller = [p \in Process |-> IdleEnroller]

EnrolGoto(p, where) == enroller' = [enroller EXCEPT ![p].at = where]
EnrolDone(p) == enroller' = [enroller EXCEPT ![p] = IdleEnroller]

\* state is "open", then "approved" once machine_id is set, or "expired".
StartDeviceCode(c) ==
  /\ code[c].state = "none"
  /\ code' = [code EXCEPT ![c].state = "open"]
  /\ UNCHANGED <<machine, inPool, enroller, dead>>

DeviceCodeExpires(c) ==
  /\ code[c].state \in {"open", "approved"}
  /\ code' = [code EXCEPT ![c].state = "expired"]
  /\ UNCHANGED <<machine, inPool, enroller, dead>>

-----------------------------------------------------------------------------
(* approve_device_code, in its own statements.                             *)
FindCode(p, c, u) ==
  /\ enroller[p].at = "idle" /\ code[c].state = "open"
  /\ enroller' = [enroller EXCEPT ![p] = [at |-> "found", code |-> c, user |-> u]]
  /\ UNCHANGED <<code, machine, inPool, dead>>

\* An approved code is not approved again, but may still bring its machine into
\* a workspace of its owner.
ApproveAgain(c, u) ==
  /\ code[c].by # Nobody /\ machine.owner = u
  /\ inPool' = TRUE
  /\ UNCHANGED <<code, machine, enroller, dead>>

\* Mutant: anybody may enrol a retired node id again.
FindAnyMachine(p) ==
  /\ enroller[p].at = "found"
  /\ IF machine.status = "none" THEN EnrolGoto(p, "new")
     ELSE IF machine.status \in Retired THEN EnrolGoto(p, "back")
     ELSE EnrolDone(p)
  /\ UNCHANGED <<code, machine, inPool, dead>>

FindMachine(p) ==
  /\ enroller[p].at = "found"
  /\ IF machine.status = "none" THEN EnrolGoto(p, "new")
     ELSE IF machine.status \in Retired /\ machine.owner = enroller[p].user
     THEN EnrolGoto(p, "back")
     ELSE EnrolDone(p)
  /\ UNCHANGED <<code, machine, inPool, dead>>

\* Mutant: the row comes back as it was.
ReactivateAsItWas(p) ==
  /\ enroller[p].at = "back"
  /\ machine' = [machine EXCEPT !.status = "pending",
                   !.ephemeral = enroller[p].code \in Ephemeral]
InsertMachine(p) ==
  /\ enroller[p].at = "new" /\ machine.status = "none"
  /\ machine' = [status |-> "pending", owner |-> enroller[p].user,
                 token |-> NoToken, ephemeral |-> enroller[p].code \in Ephemeral]
ReactivateMachine(p) ==
  /\ enroller[p].at = "back"
  /\ machine' = [status |-> "pending", owner |-> machine.owner,
                 token |-> NoToken, ephemeral |-> enroller[p].code \in Ephemeral]
MarkedApproved(p) ==
  code' = [code EXCEPT ![enroller[p].code] =
    [state |-> IF @.state = "expired" THEN "expired" ELSE "approved",
     by |-> enroller[p].user, consumed |-> @.consumed]]

WriteMachine(p) ==
  /\ InsertMachine(p) \/ ReactivateMachine(p)
  /\ EnrolGoto(p, "written")
  /\ UNCHANGED <<code, inPool, dead>>
\* The same with a workspace: machine, code and binding commit together.
WriteMachineInPool(p) ==
  /\ InsertMachine(p) \/ ReactivateMachine(p)
  /\ MarkedApproved(p) /\ inPool' = TRUE
  /\ EnrolDone(p)
  /\ UNCHANGED dead
\* The unique node id: another approval inserted it first.
InsertRefused(p) ==
  /\ enroller[p].at = "new" /\ machine.status # "none"
  /\ EnrolDone(p)
  /\ UNCHANGED <<code, machine, inPool, dead>>
MarkDeviceCodeApproved(p) ==
  /\ enroller[p].at = "written"
  /\ MarkedApproved(p) /\ EnrolDone(p)
  /\ UNCHANGED <<machine, inPool, dead>>

-----------------------------------------------------------------------------
(* redeem_device_code: the code is consumed, then the token is written.    *)
ClaimDeviceCode(p, c) ==
  /\ enroller[p].at = "idle" /\ code[c].state = "approved" /\ ~code[c].consumed
  /\ code' = [code EXCEPT ![c].consumed = TRUE]
  /\ enroller' = [enroller EXCEPT ![p] = [at |-> "claimed", code |-> c,
                                          user |-> Nobody]]
  /\ UNCHANGED <<machine, inPool, dead>>

\* Whatever became of the machine in between.
SetMachineToken(p) ==
  /\ enroller[p].at = "claimed"
  /\ machine' = [status |-> "active", owner |-> machine.owner,
                 token |-> enroller[p].code, ephemeral |-> machine.ephemeral]
  /\ EnrolDone(p)
  /\ UNCHANGED <<code, inPool, dead>>

\* The process dies, or the statement it was about to run fails.
EnrollerDies(p) ==
  /\ enroller[p].at # "idle" /\ EnrolDone(p)
  /\ UNCHANGED <<code, machine, inPool, dead>>

-----------------------------------------------------------------------------
(* The owner, and the reaper of ephemeral machines.                        *)
RetireNow == /\ machine.status \notin Retired \cup {"none"}
             /\ machine' = [machine EXCEPT !.status = "revoked"]
             /\ dead' = dead \cup ({machine.token} \ {NoToken})
RevokeMachine(u) ==
  /\ machine.owner = u /\ RetireNow
  /\ UNCHANGED <<code, inPool, enroller>>
DeleteMachine(u) ==
  /\ machine.owner = u /\ machine.status = "revoked"
  /\ machine' = [status |-> "deleted", owner |-> machine.owner,
                 token |-> NoToken, ephemeral |-> machine.ephemeral]
  /\ inPool' = FALSE
  /\ UNCHANGED <<code, enroller, dead>>
ExpireStaleEphemeral ==
  /\ machine.ephemeral /\ RetireNow
  /\ inPool' = FALSE
  /\ UNCHANGED <<code, enroller>>

EnrolNext ==
  \/ \E c \in DeviceCode :
       \/ StartDeviceCode(c) \/ DeviceCodeExpires(c)
       \/ \E u \in User : ApproveAgain(c, u)
  \/ \E p \in Process :
       \/ FindMachine(p) \/ WriteMachine(p) \/ WriteMachineInPool(p)
       \/ InsertRefused(p) \/ MarkDeviceCodeApproved(p) \/ SetMachineToken(p)
       \/ EnrollerDies(p)
       \/ \E c \in DeviceCode : ClaimDeviceCode(p, c)
       \/ \E c \in DeviceCode, u \in User : FindCode(p, c, u)
  \/ \E u \in User : RevokeMachine(u) \/ DeleteMachine(u)
  \/ ExpireStaleEphemeral

EnrolSpec == EnrolInit /\ [][EnrolNext]_enrolVars

EnrolTypeOK ==
  /\ code \in [DeviceCode -> [state : {"none", "open", "approved", "expired"},
                              by : User \cup {Nobody}, consumed : BOOLEAN]]
  /\ machine \in [status : {"none", "pending", "active", "revoked", "deleted"},
                  owner : User \cup {Nobody}, token : DeviceCode \cup {NoToken},
                  ephemeral : BOOLEAN]
  /\ inPool \in BOOLEAN /\ dead \subseteq DeviceCode
  /\ enroller \in [Process -> [at : {"idle", "found", "new", "back", "written",
                                     "claimed"},
                               code : DeviceCode \cup {NoToken},
                               user : User \cup {Nobody}]]

-----------------------------------------------------------------------------
\* authenticate_machine: a token works while its row carries it and the machine
\* is neither revoked nor deleted ("pending" authenticates too).
Authenticates(t) == machine.token = t /\ machine.status \notin Retired

\* A token that was live when its machine was revoked, or reaped, never works
\* again: not after the owner enrols the node id again, and not when a handler
\* that claimed its code before the revocation writes its token after it.
RevokedTokenStaysDead == \A t \in dead : ~Authenticates(t)

\* Approving a code never gives a machine away: whoever is on record as the
\* approver of a code for this node id owns the machine, although the code and
\* the machine are read, written and marked in statements of their own, by two
\* processes, for two accounts.
ApproverOwnsMachine ==
  \A c \in DeviceCode : code[c].by # Nobody => code[c].by = machine.owner
=============================================================================
