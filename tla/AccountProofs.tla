--------------------------- MODULE AccountProofs ----------------------------
(***************************************************************************)
(* What is proved of the components that say who may do what, who owns     *)
(* what and who works for whom: enrolment, the login of the CLI, the       *)
(* joining of guests, workspaces and invites, the credits of an account,   *)
(* and the bids and listings of the market, each for every value of the    *)
(* constants.                                                              *)
(***************************************************************************)
EXTENDS Enrolment, CliLogin, GuestJoin, Membership, CreditLedger, Matching,
        SumTheorems, TLAPS

-----------------------------------------------------------------------------
(***************************************************************************)
(* Enrolment for any number of codes, accounts and processes: a revoked    *)
(* token stays dead, and a code gives no machine away.                     *)
(***************************************************************************)

Codes == [state: {"none", "open", "approved", "expired"}, by: User \cup {Nobody},
          consumed: BOOLEAN]
Machines == [status: {"none", "pending", "active"} \cup Retired, owner: User \cup {Nobody},
             token: DeviceCode \cup {NoToken}, ephemeral: BOOLEAN]
Enrollers == [at: {"idle", "found", "new", "back", "written", "claimed"},
              code: DeviceCode \cup {NoToken}, user: User \cup {Nobody}]

EnrolTypes ==
  /\ code \in [DeviceCode -> Codes] /\ machine \in Machines
  /\ enroller \in [Process -> Enrollers] /\ inPool \in BOOLEAN /\ dead \subseteq DeviceCode

\* A handler about to write, or to mark, does it for the machine's owner; one
\* that claimed a code holds the only right to write it as a token.
Rightful(e) ==
  /\ e.at \in {"found", "new", "back", "written"} => e.code \in DeviceCode /\ e.user \in User
  /\ e.at \in {"back", "written"} => e.user = machine.owner
  /\ e.at = "claimed" => /\ e.code \in DeviceCode /\ code[e.code].consumed
                         /\ e.code # machine.token /\ e.code \notin dead
HandlersRightful ==
  /\ \A p \in Process : Rightful(enroller[p])
  /\ \A p, q \in Process :
       (enroller[p].at = "claimed" /\ enroller[q].at = "claimed" /\ p # q) =>
         enroller[p].code # enroller[q].code

\* The machine has an owner from its first row on, and only claimed codes have
\* ever been its token; a code is claimed after somebody approved it.
MachineKept ==
  /\ machine.status = "none" <=> machine.owner = Nobody
  /\ \A c \in DeviceCode :
       /\ (c = machine.token \/ c \in dead) => code[c].consumed
       /\ (code[c].state = "approved" \/ code[c].consumed) => code[c].by # Nobody

EnrolInv == EnrolTypes /\ HandlersRightful /\ MachineKept /\ ApproverOwnsMachine
            /\ RevokedTokenStaysDead

-----------------------------------------------------------------------------
\* In the first state there is neither a machine nor a code.
LEMMA EnrolInitInv == EnrolInit => EnrolInv
<1> SUFFICES ASSUME EnrolInit PROVE EnrolInv
    OBVIOUS
<1>1. EnrolTypes
      BY DEF EnrolInit, EnrolTypes, Codes, Machines, Enrollers, IdleEnroller
<1>2. \A p \in Process : enroller[p] = IdleEnroller
      BY DEF EnrolInit
<1>3. HandlersRightful
      BY <1>2 DEF HandlersRightful, Rightful, IdleEnroller
<1>4. MachineKept /\ ApproverOwnsMachine /\ RevokedTokenStaysDead
      BY EnrolAssumption
      DEF EnrolInit, MachineKept, ApproverOwnsMachine, RevokedTokenStaysDead
<1> QED BY <1>1, <1>3, <1>4 DEF EnrolInv

\* A handler that moves, not into a claim, while the tables stay as they are.
LEMMA EnrollerMoves ==
  ASSUME EnrolInv, NEW p \in Process, NEW e \in Enrollers, Rightful(e), e.at # "claimed",
         enroller' = [enroller EXCEPT ![p] = e], UNCHANGED <<code, machine, dead>>,
         inPool' \in BOOLEAN
  PROVE  EnrolInv'
<1>1. \A q \in Process : enroller'[q] = IF q = p THEN e ELSE enroller[q]
      BY DEF EnrolInv, EnrolTypes
<1>2. EnrolTypes'
      BY DEF EnrolInv, EnrolTypes
<1>3. HandlersRightful'
      BY <1>1 DEF EnrolInv, HandlersRightful, Rightful
<1>4. MachineKept' /\ ApproverOwnsMachine' /\ RevokedTokenStaysDead'
      BY DEF EnrolInv, MachineKept, ApproverOwnsMachine, RevokedTokenStaysDead, Authenticates
<1> QED BY <1>2, <1>3, <1>4 DEF EnrolInv

\* A handler that is done, and one that goes on within an approval.
LEMMA IdleRightful ==
  IdleEnroller \in Enrollers /\ IdleEnroller.at = "idle" /\ Rightful(IdleEnroller)
  BY DEF IdleEnroller, Enrollers, Rightful

\* A handler that goes on keeps its code and its account.
LEMMA At ==
  ASSUME NEW e \in Enrollers, NEW where \in {"new", "back", "written"}
  PROVE  LET f == [e EXCEPT !.at = where] IN
         f \in Enrollers /\ f.at = where /\ f.code = e.code /\ f.user = e.user
  BY DEF Enrollers

\* A machine found is the approver's to reactivate only if it was the approver's.
LEMMA FindInv ==
  ASSUME EnrolInv, NEW p \in Process, FindMachine(p)
  PROVE  EnrolInv'
<1> DEFINE e == enroller[p]
<1>1. /\ e \in Enrollers /\ Rightful(e) /\ e.at = "found"
      /\ UNCHANGED <<code, machine, dead>> /\ inPool' \in BOOLEAN
      BY DEF FindMachine, EnrolInv, EnrolTypes, HandlersRightful
<1>2. ASSUME NEW where \in {"new", "back"}, EnrolGoto(p, where),
             where = "back" => e.user = machine.owner
      PROVE  EnrolInv'
  <2> DEFINE f == [e EXCEPT !.at = where]
  <2>1. f \in Enrollers /\ f.at = where /\ f.code = e.code /\ f.user = e.user
    <3>1. where \in {"new", "back", "written"}
          OBVIOUS
    <3> HIDE DEF e
    <3> QED BY <1>1, <3>1, At
  <2>2. enroller' = [enroller EXCEPT ![p] = f]
        BY <1>2 DEF EnrolGoto
  <2> HIDE DEF f
  <2>3. Rightful(f)
        BY <1>1, <1>2, <2>1 DEF Rightful
  <2> QED BY <1>1, <2>1, <2>2, <2>3, EnrollerMoves
<1>3. CASE machine.status = "none"
      BY <1>2, <1>3 DEF FindMachine
<1>4. CASE machine.status \in Retired /\ machine.owner = e.user
      BY <1>2, <1>4 DEF FindMachine, Retired
<1>5. CASE EnrolDone(p)
      BY <1>1, <1>5, IdleRightful, EnrollerMoves DEF EnrolDone
<1> QED BY <1>3, <1>4, <1>5 DEF FindMachine

-----------------------------------------------------------------------------
\* Writing the machine's row, for the first time or again, puts no token in it
\* and gives it to the one who had it, if anybody had.
LEMMA MachineWritten ==
  ASSUME EnrolInv, NEW p \in Process, InsertMachine(p) \/ ReactivateMachine(p)
  PROVE  /\ machine' \in Machines /\ machine'.status = "pending" /\ machine'.token = NoToken
         /\ machine'.owner = enroller[p].user /\ enroller[p].user \in User
         /\ enroller[p].code \in DeviceCode
         /\ machine.owner \in {Nobody, enroller[p].user}
<1>1. /\ enroller[p].at \in {"new", "back"} /\ enroller[p].user \in User
      /\ enroller[p].code \in DeviceCode
      /\ enroller[p].at = "back" => enroller[p].user = machine.owner
      BY DEF InsertMachine, ReactivateMachine, EnrolInv, HandlersRightful, Rightful
<1>2. CASE InsertMachine(p)
      BY <1>1, <1>2 DEF InsertMachine, Machines, EnrolInv, MachineKept
<1>3. CASE ReactivateMachine(p)
      BY <1>1, <1>3 DEF ReactivateMachine, Machines
<1> QED BY <1>2, <1>3

\* Nor does it disturb the facts of the machine.
LEMMA KeptAfterWrite ==
  ASSUME EnrolInv, NEW p \in Process, InsertMachine(p) \/ ReactivateMachine(p), dead' = dead,
         \A c \in DeviceCode :
           /\ code'[c].consumed = code[c].consumed
           /\ code'[c] = code[c] \/ code'[c].by = enroller[p].user
  PROVE  MachineKept' /\ ApproverOwnsMachine' /\ RevokedTokenStaysDead'
<1>1. /\ machine'.status = "pending" /\ machine'.token = NoToken
      /\ machine'.owner = enroller[p].user /\ enroller[p].user \in User
      /\ machine.owner \in {Nobody, enroller[p].user}
      BY MachineWritten
<1>2. MachineKept' /\ RevokedTokenStaysDead'
      BY <1>1, EnrolAssumption, DeploymentAssumption
      DEF EnrolInv, EnrolTypes, MachineKept, RevokedTokenStaysDead, Authenticates
<1>3. ApproverOwnsMachine'
      BY <1>1 DEF EnrolInv, ApproverOwnsMachine
<1> QED BY <1>2, <1>3

\* The mark names the handler's account as the approver of its code and changes
\* nothing else of it.
LEMMA CodeMarked ==
  ASSUME EnrolInv, NEW p \in Process, MarkedApproved(p), enroller[p].code \in DeviceCode,
         enroller[p].user \in User
  PROVE  /\ code' \in [DeviceCode -> Codes]
         /\ \A c \in DeviceCode :
              /\ code'[c].consumed = code[c].consumed
              /\ code'[c] = code[c] \/ code'[c].by = enroller[p].user
<1> DEFINE k == enroller[p].code
           new == [state |-> IF code[k].state = "expired" THEN "expired" ELSE "approved",
                   by |-> enroller[p].user, consumed |-> code[k].consumed]
<1>1. new \in Codes /\ new.by = enroller[p].user /\ new.consumed = code[k].consumed
      BY DEF EnrolInv, EnrolTypes, Codes
<1>2. code' = [code EXCEPT ![k] = new] /\ code \in [DeviceCode -> Codes]
      BY DEF MarkedApproved, EnrolInv, EnrolTypes
<1> HIDE DEF new
<1> QED BY <1>1, <1>2

\* Both ways of writing the row keep the invariant.
LEMMA EnrolWriteInv ==
  ASSUME EnrolInv, NEW p \in Process, WriteMachine(p) \/ WriteMachineInPool(p)
  PROVE  EnrolInv'
<1>1. (InsertMachine(p) \/ ReactivateMachine(p)) /\ dead' = dead
      BY DEF WriteMachine, WriteMachineInPool
<1>2. /\ machine' \in Machines /\ machine'.owner = enroller[p].user
      /\ enroller[p].user \in User /\ enroller[p].code \in DeviceCode
      BY <1>1, MachineWritten
<1>3. /\ code' \in [DeviceCode -> Codes] /\ inPool' \in BOOLEAN
      /\ \A c \in DeviceCode :
           /\ code'[c].consumed = code[c].consumed
           /\ code'[c] = code[c] \/ code'[c].by = enroller[p].user
  <2>1. CASE WriteMachine(p)
        BY <2>1 DEF WriteMachine, EnrolInv, EnrolTypes
  <2>2. CASE WriteMachineInPool(p)
        BY <2>2, <1>2, CodeMarked DEF WriteMachineInPool
  <2> QED BY <2>1, <2>2
<1>4. PICK e \in Enrollers : /\ enroller' = [enroller EXCEPT ![p] = e] /\ Rightful(e)'
                             /\ e.at # "claimed"
  <2>1. CASE WriteMachine(p)
    <3> DEFINE f == [enroller[p] EXCEPT !.at = "written"]
    <3>1. /\ f \in Enrollers /\ f.at = "written" /\ f.code = enroller[p].code
          /\ f.user = enroller[p].user
          BY At DEF EnrolInv, EnrolTypes
    <3>2. enroller' = [enroller EXCEPT ![p] = f]
          BY <2>1 DEF WriteMachine, EnrolGoto
    <3> HIDE DEF f
    <3> QED BY <3>1, <3>2, <1>2 DEF Rightful
  <2>2. CASE WriteMachineInPool(p)
        BY <2>2, IdleRightful DEF WriteMachineInPool, EnrolDone, Rightful, IdleEnroller
  <2> QED BY <2>1, <2>2 DEF WriteMachine
<1>5. ASSUME NEW q \in Process PROVE Rightful(enroller[q])'
  <2>1. enroller'[q] = IF q = p THEN e ELSE enroller[q]
        BY <1>4 DEF EnrolInv, EnrolTypes
  <2>2. enroller[q] \in Enrollers /\ Rightful(enroller[q])
        BY DEF EnrolInv, EnrolTypes, HandlersRightful
  <2>3. CASE q = p
        BY <2>1, <2>3, <1>4 DEF Rightful
  <2>4. CASE q # p
    <3> DEFINE f == enroller[q]
    <3>1. enroller'[q] = f /\ f \in Enrollers /\ Rightful(f)
          BY <2>1, <2>2, <2>4
    <3> HIDE DEF f
    <3>2. /\ machine'.token = NoToken
          /\ machine.owner \in {Nobody, enroller[p].user}
          BY <1>1, MachineWritten
    <3>3. f.at \in {"back", "written"} => f.user = machine'.owner
          BY <3>1, <3>2, <1>2, DeploymentAssumption DEF Rightful
    <3> QED BY <3>1, <3>2, <3>3, <1>1, <1>3, EnrolAssumption DEF Rightful
  <2> QED BY <2>3, <2>4
<1>6. HandlersRightful'
      BY <1>4, <1>5 DEF EnrolInv, EnrolTypes, HandlersRightful
<1>7. EnrolTypes'
      BY <1>1, <1>2, <1>3, <1>4 DEF EnrolInv, EnrolTypes
<1>8. MachineKept' /\ ApproverOwnsMachine' /\ RevokedTokenStaysDead'
      BY <1>1, <1>3, KeptAfterWrite
<1> QED BY <1>6, <1>7, <1>8 DEF EnrolInv

\* The mark comes after the write, when the approver owns the machine.
LEMMA MarkInv ==
  ASSUME EnrolInv, NEW p \in Process, MarkDeviceCodeApproved(p)
  PROVE  EnrolInv'
<1>1. /\ enroller[p].code \in DeviceCode /\ enroller[p].user \in User
      /\ enroller[p].user = machine.owner /\ UNCHANGED <<machine, dead, inPool>>
      BY DEF MarkDeviceCodeApproved, EnrolInv, HandlersRightful, Rightful
<1>2. /\ code' \in [DeviceCode -> Codes]
      /\ \A c \in DeviceCode :
           /\ code'[c].consumed = code[c].consumed
           /\ code'[c] = code[c] \/ code'[c].by = machine.owner
      BY <1>1, CodeMarked DEF MarkDeviceCodeApproved
<1>3. /\ IdleEnroller \in Enrollers /\ IdleEnroller.at = "idle"
      /\ \A q \in Process : enroller'[q] = IF q = p THEN IdleEnroller ELSE enroller[q]
      /\ enroller' \in [Process -> Enrollers]
      BY IdleRightful DEF MarkDeviceCodeApproved, EnrolDone, EnrolInv, EnrolTypes
<1>4. EnrolTypes'
      BY <1>1, <1>2, <1>3 DEF EnrolInv, EnrolTypes
<1>5. HandlersRightful'
      BY <1>1, <1>2, <1>3 DEF EnrolInv, HandlersRightful, Rightful
<1>6. MachineKept' /\ ApproverOwnsMachine' /\ RevokedTokenStaysDead'
      BY <1>1, <1>2, DeploymentAssumption
      DEF EnrolInv, EnrolTypes, MachineKept, ApproverOwnsMachine, RevokedTokenStaysDead,
          Authenticates
<1> QED BY <1>4, <1>5, <1>6 DEF EnrolInv

-----------------------------------------------------------------------------
\* A code that is claimed was not consumed, so it is no token, none of the dead,
\* and no other handler's.
LEMMA EnrolClaimInv ==
  ASSUME EnrolInv, NEW p \in Process, NEW k \in DeviceCode, ClaimDeviceCode(p, k)
  PROVE  EnrolInv'
<1> DEFINE e == [at |-> "claimed", code |-> k, user |-> Nobody]
           new == [code[k] EXCEPT !.consumed = TRUE]
<1>1. e \in Enrollers /\ e.at = "claimed" /\ e.code = k
      BY DEF Enrollers
<1>2. /\ code[k] \in Codes /\ ~code[k].consumed /\ code[k].by # Nobody /\ k # machine.token /\ k \notin dead
      /\ \A q \in Process : enroller[q].at = "claimed" => enroller[q].code # k
      /\ UNCHANGED <<machine, inPool, dead>>
      BY DEF ClaimDeviceCode, EnrolInv, EnrolTypes, MachineKept, HandlersRightful, Rightful
<1>3. new \in Codes /\ new.consumed /\ new.by = code[k].by
      BY <1>2 DEF Codes
<1>4. code' = [code EXCEPT ![k] = new] /\ enroller' = [enroller EXCEPT ![p] = e]
      BY DEF ClaimDeviceCode
<1> HIDE DEF e, new
<1>5. /\ code' \in [DeviceCode -> Codes] /\ enroller' \in [Process -> Enrollers]
      /\ \A c \in DeviceCode : code'[c] = IF c = k THEN new ELSE code[c]
      /\ \A q \in Process : enroller'[q] = IF q = p THEN e ELSE enroller[q]
      BY <1>1, <1>3, <1>4 DEF EnrolInv, EnrolTypes
<1>6. EnrolTypes'
      BY <1>2, <1>5 DEF EnrolInv, EnrolTypes
<1>7. HandlersRightful'
      BY <1>1, <1>2, <1>3, <1>5 DEF EnrolInv, HandlersRightful, Rightful
<1>8. MachineKept' /\ ApproverOwnsMachine' /\ RevokedTokenStaysDead'
      BY <1>2, <1>3, <1>5 DEF EnrolInv, MachineKept, ApproverOwnsMachine,
                              RevokedTokenStaysDead, Authenticates
<1> QED BY <1>6, <1>7, <1>8 DEF EnrolInv

\* The token written is the claimed code, which is not among the dead: it wakes
\* the machine, whatever became of it in between, but no token of old.
LEMMA EnrolTokenInv ==
  ASSUME EnrolInv, NEW p \in Process, SetMachineToken(p)
  PROVE  EnrolInv'
<1> DEFINE k == enroller[p].code
<1>1. /\ k \in DeviceCode /\ code[k].consumed /\ k \notin dead
      /\ UNCHANGED <<code, inPool, dead>>
      BY DEF SetMachineToken, EnrolInv, HandlersRightful, Rightful
<1>2. /\ machine' \in Machines /\ machine'.owner = machine.owner
      /\ machine'.token = k /\ machine'.status = "active"
      BY <1>1 DEF SetMachineToken, EnrolInv, EnrolTypes, Machines
<1>3. /\ IdleEnroller \in Enrollers /\ IdleEnroller.at = "idle"
      /\ \A q \in Process : enroller'[q] = IF q = p THEN IdleEnroller ELSE enroller[q]
      /\ enroller' \in [Process -> Enrollers]
      BY IdleRightful DEF SetMachineToken, EnrolDone, EnrolInv, EnrolTypes
<1>4. EnrolTypes'
      BY <1>1, <1>2, <1>3 DEF EnrolInv, EnrolTypes
<1>5. HandlersRightful'
      BY <1>1, <1>2, <1>3 DEF EnrolInv, HandlersRightful, Rightful, SetMachineToken
<1>6. machine.owner # Nobody
      BY <1>1 DEF EnrolInv, MachineKept, ApproverOwnsMachine
<1>7. MachineKept' /\ ApproverOwnsMachine' /\ RevokedTokenStaysDead'
      BY <1>1, <1>2, <1>6 DEF EnrolInv, MachineKept, ApproverOwnsMachine,
                              RevokedTokenStaysDead, Authenticates
<1> QED BY <1>4, <1>5, <1>7 DEF EnrolInv

-----------------------------------------------------------------------------
\* Steps that leave the handlers alone: what they know survives when the token
\* goes, the owner stays and only codes that were a token die.
LEMMA MachineMoves ==
  ASSUME EnrolInv, enroller' = enroller, inPool' \in BOOLEAN, code' = code,
         machine' \in Machines, machine'.owner = machine.owner,
         machine.status # "none", machine'.status \in Retired,
         machine'.token \in {machine.token, NoToken},
         dead' \subseteq dead \cup ({machine.token} \ {NoToken})
  PROVE  EnrolInv'
<1>1. EnrolTypes'
      BY DEF EnrolInv, EnrolTypes, Machines
<1>2. HandlersRightful'
      BY EnrolAssumption DEF EnrolInv, HandlersRightful, Rightful
<1>3. MachineKept'
      BY EnrolAssumption DEF EnrolInv, EnrolTypes, MachineKept, Retired
<1>4. ApproverOwnsMachine' /\ RevokedTokenStaysDead'
      BY DEF EnrolInv, ApproverOwnsMachine, RevokedTokenStaysDead, Authenticates
<1> QED BY <1>1, <1>2, <1>3, <1>4 DEF EnrolInv

\* A machine with its status replaced.
LEMMA StatusWith ==
  ASSUME NEW m \in Machines
  PROVE  LET n == [m EXCEPT !.status = "revoked"] IN
         n \in Machines /\ n.status = "revoked" /\ n.owner = m.owner /\ n.token = m.token
  BY DEF Machines, Retired

\* Revocation, by the owner or by the reaper, and deletion.
LEMMA RetireInv ==
  ASSUME EnrolInv,
         \/ \E u \in User : RevokeMachine(u) \/ DeleteMachine(u)
         \/ ExpireStaleEphemeral
  PROVE  EnrolInv'
<1>1. machine \in Machines /\ inPool \in BOOLEAN
      BY DEF EnrolInv, EnrolTypes
<1>2. ASSUME RetireNow, UNCHANGED <<code, enroller>>, inPool' \in BOOLEAN PROVE EnrolInv'
  <2> DEFINE n == [machine EXCEPT !.status = "revoked"]
  <2>1. n \in Machines /\ n.status = "revoked" /\ n.owner = machine.owner
        /\ n.token = machine.token
        BY <1>1, StatusWith
  <2>2. machine' = n /\ machine.status # "none"
        /\ dead' = dead \cup ({machine.token} \ {NoToken})
        BY <1>2 DEF RetireNow
  <2> HIDE DEF n
  <2> QED BY <1>2, <2>1, <2>2, MachineMoves DEF Retired
<1>3. ASSUME NEW u \in User, DeleteMachine(u) PROVE EnrolInv'
  <2>1. /\ machine' \in Machines /\ machine'.status = "deleted" /\ machine'.token = NoToken
        /\ machine'.owner = machine.owner
        BY <1>1, <1>3 DEF DeleteMachine, Machines, Retired
  <2> QED BY <1>3, <2>1, MachineMoves DEF DeleteMachine, Retired
<1>4. CASE \E u \in User : RevokeMachine(u)
      BY <1>1, <1>2, <1>4 DEF RevokeMachine
<1>5. CASE ExpireStaleEphemeral
      BY <1>2, <1>5 DEF ExpireStaleEphemeral
<1> QED BY <1>3, <1>4, <1>5

\* A code that is asked for or expires gives nobody a right.
LEMMA CodeStateInv ==
  ASSUME EnrolInv, NEW k \in DeviceCode, StartDeviceCode(k) \/ DeviceCodeExpires(k)
  PROVE  EnrolInv'
<1>1. PICK state \in {"open", "expired"} : code' = [code EXCEPT ![k].state = state]
      BY DEF StartDeviceCode, DeviceCodeExpires
<1> DEFINE new == [code[k] EXCEPT !.state = state]
<1>2. new \in Codes /\ new.by = code[k].by /\ new.consumed = code[k].consumed
      /\ new.state = state
  <2>1. code[k] \in Codes
        BY DEF EnrolInv, EnrolTypes
  <2> QED BY <2>1 DEF Codes
<1>3. code' = [code EXCEPT ![k] = new]
      BY <1>1
<1> HIDE DEF new
<1>4. /\ code' \in [DeviceCode -> Codes]
      /\ \A c \in DeviceCode : code'[c] = IF c = k THEN new ELSE code[c]
      /\ UNCHANGED <<machine, inPool, enroller, dead>>
      BY <1>2, <1>3 DEF EnrolInv, EnrolTypes, StartDeviceCode, DeviceCodeExpires
<1>5. EnrolTypes'
      BY <1>4 DEF EnrolInv, EnrolTypes
<1>6. HandlersRightful'
      BY <1>2, <1>4 DEF EnrolInv, HandlersRightful, Rightful
<1>7. MachineKept' /\ ApproverOwnsMachine' /\ RevokedTokenStaysDead'
      BY <1>2, <1>4 DEF EnrolInv, MachineKept, ApproverOwnsMachine,
                        RevokedTokenStaysDead, Authenticates
<1> QED BY <1>5, <1>6, <1>7 DEF EnrolInv

\* Every step keeps the invariant.
LEMMA EnrolStepInv == EnrolInv /\ [EnrolNext]_enrolVars => EnrolInv'
<1> SUFFICES ASSUME EnrolInv, [EnrolNext]_enrolVars PROVE EnrolInv'
    OBVIOUS
<1>1. ASSUME NEW c \in DeviceCode, NEW u \in User, ApproveAgain(c, u) PROVE EnrolInv'
  <2>1. inPool' \in BOOLEAN /\ UNCHANGED <<code, machine, enroller, dead>>
        BY <1>1 DEF ApproveAgain
  <2> QED BY <2>1 DEF EnrolInv, EnrolTypes, HandlersRightful, Rightful, MachineKept,
                      ApproverOwnsMachine, RevokedTokenStaysDead, Authenticates
<1>2. ASSUME NEW p \in Process, InsertRefused(p) \/ EnrollerDies(p) PROVE EnrolInv'
  <2>1. /\ enroller' = [enroller EXCEPT ![p] = IdleEnroller] /\ inPool' \in BOOLEAN
        /\ UNCHANGED <<code, machine, dead>>
        BY <1>2 DEF InsertRefused, EnrollerDies, EnrolDone, EnrolInv, EnrolTypes
  <2> QED BY <2>1, EnrollerMoves, IdleRightful
<1>3. ASSUME NEW p \in Process, NEW c \in DeviceCode, NEW u \in User, FindCode(p, c, u)
      PROVE  EnrolInv'
  <2> DEFINE e == [at |-> "found", code |-> c, user |-> u]
  <2>1. e \in Enrollers /\ e.at = "found" /\ Rightful(e)
        BY DEF Enrollers, Rightful
  <2>2. /\ enroller' = [enroller EXCEPT ![p] = e] /\ inPool' \in BOOLEAN
        /\ UNCHANGED <<code, machine, dead>>
        BY <1>3 DEF FindCode, EnrolInv, EnrolTypes
  <2> HIDE DEF e
  <2> QED BY <2>1, <2>2, EnrollerMoves
<1>4. CASE UNCHANGED enrolVars
      BY <1>4 DEF enrolVars, EnrolInv, EnrolTypes, HandlersRightful, Rightful, MachineKept,
                  ApproverOwnsMachine, RevokedTokenStaysDead, Authenticates
<1> QED BY <1>1, <1>2, <1>3, <1>4, FindInv, EnrolWriteInv, MarkInv, EnrolClaimInv, EnrolTokenInv,
           RetireInv, CodeStateInv DEF EnrolNext

-----------------------------------------------------------------------------
\* However many codes, accounts and handlers: a token that was live when its
\* machine was revoked or reaped never works again.
THEOREM DeadTokensStayDead == EnrolSpec => []RevokedTokenStaysDead
<1>1. EnrolInv => RevokedTokenStaysDead
      BY DEF EnrolInv
<1> QED BY <1>1, EnrolInitInv, EnrolStepInv, PTL DEF EnrolSpec

\* And whoever is on record as the approver of a code owns the machine.
THEOREM ApprovalGivesNothingAway == EnrolSpec => []ApproverOwnsMachine
<1>1. EnrolInv => ApproverOwnsMachine
      BY DEF EnrolInv
<1> QED BY <1>1, EnrolInitInv, EnrolStepInv, PTL DEF EnrolSpec

\* The types of the codes, the machine, its tokens and the handlers.
THEOREM EnrolTyped == EnrolSpec => []EnrolTypeOK
<1>1. EnrolInv => EnrolTypeOK
      BY DEF EnrolInv, EnrolTypes, Codes, Machines, Retired, Enrollers, EnrolTypeOK
<1> QED BY <1>1, EnrolInitInv, EnrolStepInv, PTL DEF EnrolSpec

-----------------------------------------------------------------------------
(***************************************************************************)
(* CliLogin for any number of processes, accounts and approvals: one code  *)
(* yields one credential that works.                                       *)
(***************************************************************************)

Credentials == [owner: User, token: BOOLEAN, status: {"active", "revoked"}]
CliHandlers ==
  [at: {"idle", "unapproved", "claimed"}, user: User \cup {Nobody}, credential: Nat]
CliCodes == [credential: Nat, consumed: BOOLEAN, expired: BOOLEAN]

CliTypes ==
  /\ credential \in Seq(Credentials) /\ cliCode \in CliCodes
  /\ cliHandler \in [Process -> CliHandlers]

\* What is named exists, and who approves is an account.
CredentialsExist ==
  /\ cliCode.credential <= Len(credential)
  /\ \A p \in Process :
       /\ cliHandler[p].at = "claimed" => cliHandler[p].credential \in 1..Len(credential)
       /\ cliHandler[p].at = "unapproved" => cliHandler[p].user \in User

WorkingOf(i) == i \in 1..Len(credential) /\ credential[i].token

\* A code is claimed once, and no token was written before; so one token at most
\* is written for it.
ClaimedOnce ==
  /\ \A p, q \in Process :
       (cliHandler[p].at = "claimed" /\ cliHandler[q].at = "claimed") => p = q
  /\ \A p \in Process : cliHandler[p].at = "claimed" => cliCode.consumed /\ \A i : ~WorkingOf(i)
  /\ ~cliCode.consumed => \A i : ~WorkingOf(i)
  /\ \A i, j : WorkingOf(i) /\ WorkingOf(j) => i = j

GoneForGood == \A i \in gone : WorkingOf(i) /\ credential[i].status = "revoked"

CliInv == CliTypes /\ CredentialsExist /\ ClaimedOnce /\ GoneForGood

-----------------------------------------------------------------------------
\* In the first state there is a code that nobody has read.
LEMMA CliInitInv == CliInit => CliInv
  BY DEF CliInit, CliInv, CliTypes, CliCodes, CliHandlers, CredentialsExist, ClaimedOnce,
         GoneForGood, WorkingOf, CliIdle

\* A handler that moves, not into a claim, while the table stays as it is.
LEMMA HandlerMoves ==
  ASSUME CliInv, NEW p \in Process, NEW h \in CliHandlers, h.at # "claimed",
         h.at = "unapproved" => h.user \in User,
         cliHandler' = [cliHandler EXCEPT ![p] = h], UNCHANGED <<cliCode, credential, gone>>
  PROVE  CliInv'
<1>1. \A q \in Process : cliHandler'[q] = IF q = p THEN h ELSE cliHandler[q]
      BY DEF CliInv, CliTypes
<1>2. CliTypes' /\ CredentialsExist'
      BY <1>1 DEF CliInv, CliTypes, CredentialsExist
<1>3. ClaimedOnce' /\ GoneForGood'
      BY <1>1 DEF CliInv, ClaimedOnce, GoneForGood, WorkingOf
<1> QED BY <1>2, <1>3 DEF CliInv

\* A new credential has no token, whatever the code has been marked with before.
LEMMA ApproveInv == ASSUME CliInv, NEW p \in Process, ApproveCliCode(p) PROVE CliInv'
<1> DEFINE new == [owner |-> cliHandler[p].user, token |-> FALSE, status |-> "active"]
           n == Len(credential)
<1>1. new \in Credentials /\ n \in Nat /\ credential \in Seq(Credentials)
      BY DEF ApproveCliCode, CliInv, CliTypes, CredentialsExist, Credentials
<1>2. /\ credential' = Append(credential, new) /\ ~new.token /\ gone' = gone
      /\ cliHandler' = [cliHandler EXCEPT ![p] = CliIdle]
      BY DEF ApproveCliCode, CliDone
<1> HIDE DEF new
<1>3. /\ credential' \in Seq(Credentials) /\ Len(credential') = n + 1
      /\ credential'[n + 1] = new /\ \A i \in 1..n : credential'[i] = credential[i]
      BY <1>1, <1>2
<1>4. /\ cliCode' \in CliCodes /\ cliCode'.credential = n + 1
      /\ cliCode'.consumed = cliCode.consumed
      BY <1>1, <1>3 DEF ApproveCliCode, CliInv, CliTypes, CliCodes
<1>5. /\ CliIdle \in CliHandlers /\ CliIdle.at = "idle"
      /\ \A q \in Process : cliHandler'[q] = IF q = p THEN CliIdle ELSE cliHandler[q]
      BY <1>2 DEF CliIdle, CliHandlers, CliInv, CliTypes
<1>6. \A i : WorkingOf(i)' <=> WorkingOf(i)
      BY <1>1, <1>2, <1>3 DEF WorkingOf
<1>7. CliTypes' /\ CredentialsExist'
      BY <1>1, <1>2, <1>3, <1>4, <1>5 DEF CliInv, CliTypes, CredentialsExist
<1>8. ClaimedOnce'
      BY <1>4, <1>5, <1>6 DEF CliInv, ClaimedOnce
<1>9. GoneForGood'
      BY <1>2, <1>3, <1>6 DEF CliInv, GoneForGood, WorkingOf
<1> QED BY <1>7, <1>8, <1>9 DEF CliInv

\* A claim finds the code not consumed, so no other claim and no token.
LEMMA CliClaimInv == ASSUME CliInv, NEW p \in Process, ClaimCliCode(p) PROVE CliInv'
<1> DEFINE h == [at |-> "claimed", user |-> Nobody, credential |-> cliCode.credential]
<1>1. h \in CliHandlers /\ h.at = "claimed" /\ h.credential \in 1..Len(credential)
      BY DEF ClaimCliCode, CliInv, CliTypes, CliCodes, CliHandlers, CredentialsExist
<1>2. cliHandler' = [cliHandler EXCEPT ![p] = h] /\ UNCHANGED <<credential, gone>>
      BY DEF ClaimCliCode
<1> HIDE DEF h
<1>3. \A q \in Process : cliHandler'[q] = IF q = p THEN h ELSE cliHandler[q]
      BY <1>2 DEF CliInv, CliTypes
<1>4. cliCode' \in CliCodes /\ cliCode'.consumed /\ cliCode'.credential = cliCode.credential
      BY DEF ClaimCliCode, CliInv, CliTypes, CliCodes
<1>5. /\ \A i : ~WorkingOf(i)
      /\ \A q \in Process : cliHandler[q].at # "claimed"
      BY DEF ClaimCliCode, CliInv, ClaimedOnce
<1>6. CliTypes' /\ CredentialsExist'
      BY <1>1, <1>2, <1>3, <1>4 DEF CliInv, CliTypes, CredentialsExist
<1>7. ClaimedOnce' /\ GoneForGood'
      BY <1>1, <1>2, <1>3, <1>4, <1>5 DEF CliInv, ClaimedOnce, GoneForGood, WorkingOf
<1> QED BY <1>6, <1>7 DEF CliInv

\* The one token is written by the one handler that claimed the code.
LEMMA CliTokenInv == ASSUME CliInv, NEW p \in Process, SetCliToken(p) PROVE CliInv'
<1> DEFINE k == cliHandler[p].credential
           new == [owner |-> credential[k].owner, token |-> TRUE, status |-> "active"]
<1>1. k \in 1..Len(credential) /\ credential \in Seq(Credentials) /\ new \in Credentials
  <2>1. k \in 1..Len(credential) /\ credential \in Seq(Credentials)
        BY DEF SetCliToken, CliInv, CliTypes, CredentialsExist
  <2>2. credential[k] \in Credentials
        BY <2>1
  <2> QED BY <2>1, <2>2 DEF Credentials
<1>2. /\ credential' = [credential EXCEPT ![k] = new] /\ new.token
      /\ cliHandler' = [cliHandler EXCEPT ![p] = CliIdle] /\ UNCHANGED <<cliCode, gone>>
      BY DEF SetCliToken, CliDone
<1> HIDE DEF new
<1>3. /\ credential' \in Seq(Credentials) /\ Len(credential') = Len(credential)
      /\ \A i \in 1..Len(credential) : credential'[i] = IF i = k THEN new ELSE credential[i]
      BY <1>1, <1>2
<1>4. /\ CliIdle \in CliHandlers /\ CliIdle.at = "idle"
      /\ \A q \in Process : cliHandler'[q] = IF q = p THEN CliIdle ELSE cliHandler[q]
      BY <1>2 DEF CliIdle, CliHandlers, CliInv, CliTypes
<1>5. /\ \A i : ~WorkingOf(i)
      /\ \A q \in Process : cliHandler[q].at = "claimed" => q = p
      /\ cliCode.consumed
      BY DEF SetCliToken, CliInv, ClaimedOnce
<1>6. \A i : WorkingOf(i)' => i = k
      BY <1>2, <1>3, <1>5 DEF WorkingOf
<1>7. CliTypes' /\ CredentialsExist'
      BY <1>1, <1>2, <1>3, <1>4 DEF CliInv, CliTypes, CredentialsExist
<1>8. ClaimedOnce' /\ GoneForGood'
      BY <1>2, <1>4, <1>5, <1>6 DEF CliInv, ClaimedOnce, GoneForGood
<1> QED BY <1>7, <1>8 DEF CliInv

\* A credential with its status replaced.
LEMMA StatusRevoked ==
  ASSUME NEW x \in Credentials
  PROVE  LET new == [x EXCEPT !.status = "revoked"] IN
         new \in Credentials /\ new.token = x.token /\ new.status = "revoked"
  BY DEF Credentials

\* A revocation takes no token away, it ends its use.
LEMMA RevokeInv ==
  ASSUME CliInv, NEW k \in DOMAIN credential, RevokeCliCredential(k)
  PROVE  CliInv'
<1> DEFINE new == [credential[k] EXCEPT !.status = "revoked"]
<1>1. k \in 1..Len(credential) /\ credential \in Seq(Credentials)
      BY DEF CliInv, CliTypes
<1>2. new \in Credentials /\ new.token = credential[k].token /\ new.status = "revoked"
  <2>1. credential[k] \in Credentials
        BY <1>1
  <2> QED BY <2>1, StatusRevoked
<1>3. credential' = [credential EXCEPT ![k] = new] /\ UNCHANGED <<cliCode, cliHandler>>
      BY DEF RevokeCliCredential
<1> HIDE DEF new
<1>4. /\ credential' \in Seq(Credentials) /\ Len(credential') = Len(credential)
      /\ \A i \in 1..Len(credential) : credential'[i] = IF i = k THEN new ELSE credential[i]
      BY <1>1, <1>2, <1>3
<1>5. \A i : WorkingOf(i)' <=> WorkingOf(i)
      BY <1>1, <1>2, <1>4 DEF WorkingOf
<1>6. CliTypes' /\ CredentialsExist' /\ ClaimedOnce'
      BY <1>3, <1>4, <1>5 DEF CliInv, CliTypes, CredentialsExist, ClaimedOnce
<1>7. GoneForGood'
  <2>1. \A i \in gone' : i \in gone \/ (i = k /\ WorkingOf(k))
        BY <1>1 DEF RevokeCliCredential, WorkingOf
  <2>2. ASSUME NEW i \in gone' PROVE WorkingOf(i) /\ credential'[i].status = "revoked"
        BY <2>1, <1>2, <1>4 DEF CliInv, GoneForGood, WorkingOf
  <2> QED BY <2>2, <1>5 DEF GoneForGood
<1> QED BY <1>6, <1>7 DEF CliInv

\* Every step keeps the invariant.
LEMMA CliStepInv == CliInv /\ [CliNext]_cliVars => CliInv'
<1> SUFFICES ASSUME CliInv, [CliNext]_cliVars PROVE CliInv'
    OBVIOUS
<1>1. CASE CliCodeExpires
  <2>1. /\ cliCode' \in CliCodes /\ cliCode'.credential = cliCode.credential
        /\ cliCode'.consumed = cliCode.consumed /\ UNCHANGED <<credential, cliHandler, gone>>
        BY <1>1 DEF CliCodeExpires, CliInv, CliTypes, CliCodes
  <2> QED BY <2>1 DEF CliInv, CliTypes, CredentialsExist, ClaimedOnce, GoneForGood, WorkingOf
<1>2. ASSUME NEW p \in Process, NEW u \in User, ReadCliCode(p, u) PROVE CliInv'
  <2> DEFINE h == [at |-> "unapproved", user |-> u, credential |-> 0]
  <2>1. h \in CliHandlers /\ h.at = "unapproved" /\ h.user = u
        BY DEF CliHandlers
  <2>2. cliHandler' = [cliHandler EXCEPT ![p] = h] /\ UNCHANGED <<cliCode, credential, gone>>
        BY <1>2 DEF ReadCliCode
  <2> HIDE DEF h
  <2> QED BY <2>1, <2>2, HandlerMoves
<1>3. ASSUME NEW p \in Process, CliHandlerDies(p) PROVE CliInv'
  <2>1. CliIdle \in CliHandlers /\ CliIdle.at = "idle"
        BY DEF CliIdle, CliHandlers
  <2> QED BY <1>3, <2>1, HandlerMoves DEF CliHandlerDies, CliDone
<1>4. CASE UNCHANGED cliVars
      BY <1>4 DEF cliVars, CliInv, CliTypes, CredentialsExist, ClaimedOnce, GoneForGood, WorkingOf
<1> QED BY <1>1, <1>2, <1>3, <1>4, ApproveInv, CliClaimInv, CliTokenInv, RevokeInv DEF CliNext

-----------------------------------------------------------------------------
\* However many approvals overlap, one code yields one credential that works,
\* and one that worked and was revoked stays so.
THEOREM CodeYieldsOneCredential == CliSpec => []OneCliCredential
<1>1. CliInv => OneCliCredential
  <2> SUFFICES ASSUME CliInv PROVE OneCliCredential
      OBVIOUS
  <2>1. DOMAIN credential = 1..Len(credential)
        BY DEF CliInv, CliTypes
  <2>2. ASSUME NEW i \in DOMAIN credential, NEW j \in DOMAIN credential,
               credential[i].token, credential[j].token
        PROVE  i = j
    <3>1. WorkingOf(i) /\ WorkingOf(j)
          BY <2>1, <2>2 DEF WorkingOf
    <3> QED BY <3>1 DEF CliInv, ClaimedOnce
  <2>3. \A i \in gone : credential[i].status = "revoked"
        BY DEF CliInv, GoneForGood
  <2> QED BY <2>2, <2>3 DEF OneCliCredential
<1> QED BY <1>1, CliInitInv, CliStepInv, PTL DEF CliSpec

\* Only a handler that claimed a code holds a credential.
OnlyClaimsHold == \A p \in Process : cliHandler[p].at # "claimed" => cliHandler[p].credential = 0

\* The types of the code, the credentials and the handlers.
THEOREM CliTyped == CliSpec => []CliTypeOK
<1>1. CliInit => OnlyClaimsHold
      BY DEF CliInit, CliIdle, OnlyClaimsHold
<1>2. CliInv /\ OnlyClaimsHold /\ [CliNext]_cliVars => OnlyClaimsHold'
  <2> SUFFICES ASSUME CliInv, OnlyClaimsHold, [CliNext]_cliVars PROVE OnlyClaimsHold'
      OBVIOUS
  <2>1. cliHandler \in [Process -> CliHandlers]
        BY DEF CliInv, CliTypes
  <2>2. CASE UNCHANGED cliHandler
        BY <2>2 DEF OnlyClaimsHold
  <2>3. ASSUME NEW p \in Process, NEW h, cliHandler' = [cliHandler EXCEPT ![p] = h],
               h.at # "claimed" => h.credential = 0
        PROVE  OnlyClaimsHold'
        BY <2>1, <2>3 DEF OnlyClaimsHold
  <2>4. CliIdle.at = "idle" /\ CliIdle.credential = 0
        BY DEF CliIdle
  <2>5. ASSUME NEW p \in Process, CliDone(p) PROVE OnlyClaimsHold'
        BY <2>3, <2>4, <2>5 DEF CliDone
  <2>6. ASSUME NEW p \in Process, NEW u \in User, ReadCliCode(p, u) PROVE OnlyClaimsHold'
        BY <2>3, <2>6 DEF ReadCliCode
  <2>7. ASSUME NEW p \in Process, ClaimCliCode(p) PROVE OnlyClaimsHold'
        BY <2>3, <2>7 DEF ClaimCliCode
  <2> QED BY <2>2, <2>5, <2>6, <2>7 DEF CliNext, cliVars, CliCodeExpires, ApproveCliCode,
      SetCliToken, CliHandlerDies, RevokeCliCredential
<1>3. CliInv /\ OnlyClaimsHold => CliTypeOK
  <2> SUFFICES ASSUME CliInv, OnlyClaimsHold PROVE CliTypeOK
      OBVIOUS
  <2>1. /\ credential \in Seq(Credentials) /\ cliCode \in CliCodes /\ Len(credential) \in Nat
        /\ cliHandler \in [Process -> CliHandlers]
        BY DEF CliInv, CliTypes
  <2>2. cliCode.credential \in 0..Len(credential)
        BY <2>1 DEF CliInv, CredentialsExist, CliCodes
  <2>3. cliCode \in [credential : 0..Len(credential), consumed : BOOLEAN, expired : BOOLEAN]
        BY <2>1, <2>2 DEF CliCodes
  <2>4. \A p \in Process : cliHandler[p].credential \in 0..Len(credential)
        BY <2>1 DEF CliInv, CredentialsExist, OnlyClaimsHold
  <2>5. cliHandler \in [Process -> [at : {"idle", "unapproved", "claimed"},
                                    user : User \cup {Nobody}, credential : 0..Len(credential)]]
        BY <2>1, <2>4 DEF CliHandlers
  <2>6. gone \subseteq DOMAIN credential
        BY <2>1 DEF CliInv, GoneForGood, WorkingOf
  <2>7. \A i \in DOMAIN credential : credential[i] \in Credentials
        BY <2>1
  <2> QED BY <2>3, <2>5, <2>6, <2>7 DEF CliTypeOK, Credentials
<1> QED BY <1>1, <1>2, <1>3, CliInitInv, CliStepInv, PTL DEF CliSpec

-----------------------------------------------------------------------------
(***************************************************************************)
(* GuestJoin for any number of joins and guests: the pool a guest is bound *)
(* to is the one runs go to, or was made by a join that looked too early.  *)
(***************************************************************************)

GuestSpec == GuestInit /\ [][GuestNext]_guestVars

Joiners == [at: {"idle", "create", "bind"}, owner: 0..2, pool: Nat, seen: Nat]
Pools == [owner: {1, 2}, seen: Nat]

GuestTypes ==
  /\ joiner \in [Process -> Joiners] /\ guestPools \in Seq(Pools)
  /\ joined \in [Guest -> 0..Len(guestPools)] /\ demoOwner \in {1, 2}

\* What a join that is about to make a pool has seen holds no pool of the owner
\* it makes it for; one that is about to bind knows a pool that exists.
Fits(j, pools) ==
  /\ j.seen <= Len(pools)
  /\ j.at = "create" =>
       /\ j.owner \in {1, 2}
       /\ \A i \in 1..Len(pools) : pools[i].owner = j.owner => j.seen < i
  /\ j.at = "bind" => j.pool \in 1..Len(pools)
JoinersLooked == \A p \in Process : Fits(joiner[p], guestPools)

\* Every pool was made by a join that looked before any other pool of the same
\* owner was there.
PoolsApart ==
  \A i, k \in 1..Len(guestPools) :
    (i < k /\ guestPools[i].owner = guestPools[k].owner) => guestPools[k].seen < i

GuestInv == GuestTypes /\ JoinersLooked /\ PoolsApart

-----------------------------------------------------------------------------
\* In the first state there is neither a pool nor a join.
LEMMA GuestInitInv == GuestInit => GuestInv
  BY DEF GuestInit, GuestInv, GuestTypes, Joiners, Pools, JoinersLooked, Fits, PoolsApart,
         JoinerIdle

\* A join that moves and leaves the pools alone keeps what joins know, if it
\* does itself know it.
LEMMA OneMoves ==
  ASSUME GuestInv, NEW p \in Process, NEW j \in Joiners, Fits(j, guestPools),
         joiner' = [joiner EXCEPT ![p] = j], UNCHANGED <<guestPools, demoOwner>>,
         joined' \in [Guest -> 0..Len(guestPools)]
  PROVE  GuestInv'
<1>1. GuestTypes'
      BY DEF GuestInv, GuestTypes
<1>2. ASSUME NEW q \in Process PROVE Fits(joiner'[q], guestPools)
  <2>1. joiner'[q] = IF q = p THEN j ELSE joiner[q]
        BY DEF GuestInv, GuestTypes
  <2>2. Fits(joiner[q], guestPools)
        BY DEF GuestInv, JoinersLooked
  <2> QED BY <2>1, <2>2
<1>3. JoinersLooked'
      BY <1>2 DEF JoinersLooked
<1> QED BY <1>1, <1>3 DEF GuestInv, PoolsApart

\* A join that does nothing knows enough.
LEMMA IdleFits == GuestInv => JoinerIdle \in Joiners /\ Fits(JoinerIdle, guestPools)
  BY DEF GuestInv, GuestTypes, JoinerIdle, Joiners, Fits

\* The look keeps the invariant: the oldest pool of the name exists, or the
\* owner has none among those the join saw.
LEMMA LookInv ==
  ASSUME GuestInv, NEW p \in Process, LookForPool(p)
  PROVE  GuestInv'
<1>1. PICK k \in 0..Len(guestPools) :
        /\ IsGuestPool(k, demoOwner)
        /\ joiner' = [joiner EXCEPT ![p] = Looked(IF k = 0 THEN "create" ELSE "bind", k)]
      BY DEF LookForPool
<1> DEFINE j == Looked(IF k = 0 THEN "create" ELSE "bind", k)
<1>2. /\ Len(guestPools) \in Nat /\ DOMAIN guestPools = 1..Len(guestPools)
      /\ demoOwner \in {1, 2} /\ joined \in [Guest -> 0..Len(guestPools)]
      BY DEF GuestInv, GuestTypes
<1>3. j \in Joiners
      BY <1>2 DEF Looked, Joiners
<1>4. Fits(j, guestPools)
  <2>1. CASE k = 0
        BY <2>1, <1>1, <1>2 DEF Looked, Fits, IsGuestPool
  <2>2. CASE k # 0
        BY <2>2, <1>2 DEF Looked, Fits
  <2> QED BY <2>1, <2>2
<1> QED BY <1>1, <1>2, <1>3, <1>4, OneMoves DEF LookForPool

\* Making a pool keeps the invariant: no pool of the owner is among those its
\* maker saw, and every other join that would make one saw no more than there
\* were.
LEMMA EnsureInv ==
  ASSUME GuestInv, NEW p \in Process, EnsureGuestPool(p)
  PROVE  GuestInv'
<1> DEFINE n == Len(guestPools)
           made == [owner |-> joiner[p].owner, seen |-> joiner[p].seen]
           moved == [at |-> "bind", owner |-> joiner[p].owner, pool |-> n + 1,
                     seen |-> joiner[p].seen]
<1>1. joiner[p] \in Joiners /\ guestPools \in Seq(Pools) /\ n \in Nat
      BY DEF GuestInv, GuestTypes
<1>2. Fits(joiner[p], guestPools) /\ joiner[p].at = "create"
      BY DEF GuestInv, JoinersLooked, EnsureGuestPool
<1>3. made \in Pools
      BY <1>1, <1>2 DEF Pools, Joiners, Fits
<1>4. \A i \in 1..n : guestPools[i].owner = made.owner => made.seen < i
      BY <1>2 DEF Fits
<1>5. guestPools' = Append(guestPools, made)
      BY DEF EnsureGuestPool
<1> HIDE DEF made
<1>6. /\ guestPools' \in Seq(Pools) /\ Len(guestPools') = n + 1
      /\ guestPools'[n + 1] = made /\ \A i \in 1..n : guestPools'[i] = guestPools[i]
      BY <1>1, <1>3, <1>5
<1>7. joiner' = [joiner EXCEPT ![p] = moved]
      BY <1>6 DEF EnsureGuestPool
<1>8. /\ moved \in Joiners /\ moved.at = "bind" /\ moved.pool = n + 1
      /\ moved.seen = joiner[p].seen
  <2>1. joiner[p].owner \in 0..2 /\ joiner[p].seen \in Nat
        BY <1>1 DEF Joiners
  <2> QED BY <2>1, <1>1 DEF Joiners
<1> HIDE DEF moved
<1>9. GuestTypes'
      BY <1>6, <1>7, <1>8 DEF EnsureGuestPool, GuestInv, GuestTypes
<1>10. ASSUME NEW q \in Process PROVE Fits(joiner'[q], guestPools')
  <2>1. joiner'[q] = IF q = p THEN moved ELSE joiner[q]
        BY <1>7 DEF GuestInv, GuestTypes
  <2>2. Fits(moved, guestPools')
        BY <1>1, <1>2, <1>6, <1>8 DEF Fits, Joiners
  <2>3. Fits(joiner[q], guestPools) /\ joiner[q].seen \in Nat
        BY DEF GuestInv, GuestTypes, JoinersLooked, Joiners
  <2>4. ASSUME joiner[q].at = "create", NEW i \in 1..(n + 1),
               guestPools'[i].owner = joiner[q].owner
        PROVE  joiner[q].seen < i
    <3>1. CASE i = n + 1
          BY <3>1, <2>3, <1>1 DEF Fits
    <3>2. CASE i \in 1..n
          BY <3>2, <2>3, <2>4, <1>6 DEF Fits
    <3> QED BY <3>1, <3>2, <1>1
  <2>5. Fits(joiner[q], guestPools')
        BY <2>3, <2>4, <1>1, <1>6 DEF Fits
  <2> QED BY <2>1, <2>2, <2>5
<1>11. PoolsApart'
  <2> SUFFICES ASSUME NEW i \in 1..(n + 1), NEW k \in 1..(n + 1), i < k,
                      guestPools'[i].owner = guestPools'[k].owner
               PROVE  guestPools'[k].seen < i
      BY <1>6 DEF PoolsApart
  <2>1. CASE k = n + 1
        BY <2>1, <1>1, <1>4, <1>6
  <2>2. CASE k \in 1..n
        BY <2>2, <1>1, <1>6 DEF GuestInv, PoolsApart
  <2> QED BY <2>1, <2>2, <1>1
<1> QED BY <1>9, <1>10, <1>11 DEF GuestInv, JoinersLooked

\* Every step keeps the invariant.
LEMMA GuestStepInv == GuestInv /\ [GuestNext]_guestVars => GuestInv'
<1> SUFFICES ASSUME GuestInv, [GuestNext]_guestVars PROVE GuestInv'
    OBVIOUS
<1>1. CASE \E p \in Process : LookForPool(p) \/ EnsureGuestPool(p)
      BY <1>1, LookInv, EnsureInv
<1>2. CASE \E p \in Process : JoinRefused(p)
      BY <1>2, OneMoves, IdleFits DEF JoinRefused, GuestInv, GuestTypes
<1>3. ASSUME NEW p \in Process, NEW g \in Guest, JoinPool(p, g) PROVE GuestInv'
  <2>1. joiner[p].pool \in 0..Len(guestPools)
        BY <1>3 DEF JoinPool, GuestInv, GuestTypes, JoinersLooked, Fits
  <2>2. joined' \in [Guest -> 0..Len(guestPools)]
        BY <1>3, <2>1 DEF JoinPool, GuestInv, GuestTypes
  <2> QED BY <1>3, <2>2, OneMoves, IdleFits DEF JoinPool
<1>4. CASE EarlierAccountAdmitted
      BY <1>4 DEF EarlierAccountAdmitted, GuestInv, GuestTypes, JoinersLooked, PoolsApart
<1>5. CASE UNCHANGED guestVars
      BY <1>5 DEF guestVars, GuestInv, GuestTypes, JoinersLooked, PoolsApart
<1> QED BY <1>1, <1>2, <1>3, <1>4, <1>5 DEF GuestNext

-----------------------------------------------------------------------------
\* However many strangers join at once, and whichever account owns the demo, a
\* guest is in the pool that runs of its owner go to unless the join that made
\* its pool looked before that pool was there.
THEOREM GuestsConverge == GuestSpec => []JoinsConverge
<1>1. GuestInv => JoinsConverge
  <2> SUFFICES ASSUME GuestInv, NEW g \in Guest, joined[g] # 0,
                      NEW k \in DOMAIN guestPools,
                      IsGuestPool(k, guestPools[joined[g]].owner), joined[g] # k
               PROVE  guestPools[joined[g]].seen < k
      BY DEF JoinsConverge
  <2>1. joined[g] \in DOMAIN guestPools
        BY DEF GuestInv, GuestTypes
  <2>2. k < joined[g]
        BY <2>1 DEF IsGuestPool, GuestInv, GuestTypes
  <2> QED BY <2>1, <2>2 DEF GuestInv, PoolsApart, IsGuestPool
<1> QED BY <1>1, GuestInitInv, GuestStepInv, PTL DEF GuestSpec

\* The types of the joins and of the demo's owner.
THEOREM GuestTyped == GuestSpec => []GuestTypeOK
<1>1. GuestInv => GuestTypeOK
      BY DEF GuestInv, GuestTypes, Joiners, GuestTypeOK
<1> QED BY <1>1, GuestInitInv, GuestStepInv, PTL DEF GuestSpec

-----------------------------------------------------------------------------
(***************************************************************************)
(* Membership for any number of accounts, workspaces and processes: an     *)
(* invite is spent by those it admits, whatever runs beside them.          *)
(***************************************************************************)

\* A request for access, and what an invite's guest holds.
Requests == [status : {"none", "pending", "admitted", "declined"},
             answered : BOOLEAN, pool : Workspace \cup {NoWorkspace}]
Guests == [at : {"idle", "taken", "admitted", "waiting"}, user : User \cup {Nobody},
           pool : Workspace \cup {NoWorkspace}]

\* Who is accepting an invite holds its row; once read as admitted, they are.
Accepting(p) ==
  guest[p].at # "idle" =>
    /\ guest[p].user \in User /\ guest[p].pool \in Workspace
    /\ invite[guest[p].pool] > 0
    /\ guest[p].at = "admitted" => guest[p].user \in admittedAt
OneAcceptance ==
  \A p, q \in Process :
    p # q /\ guest[p].pool = guest[q].pool => guest[p].pool = NoWorkspace
\* The inductive invariant.
MemberInv ==
  /\ MemberTypeOK /\ InviteIsHonoured
  /\ OneAcceptance /\ \A p \in Process : Accepting(p)

-----------------------------------------------------------------------------
\* In the first state nobody was admitted or invited.
LEMMA MemberInitInv == MemberInit => MemberInv
<1> SUFFICES ASSUME MemberInit PROVE MemberInv
    OBVIOUS
<1>1. NoRequest \in [status : {"none", "pending", "admitted", "declined"},
                     answered : BOOLEAN, pool : Workspace \cup {NoWorkspace}]
      BY DEF NoRequest
<1>2. /\ NoGuest \in [at : {"idle", "taken", "admitted", "waiting"}, user : User \cup {Nobody},
                      pool : Workspace \cup {NoWorkspace}]
      /\ NoGuest.at = "idle" /\ NoGuest.pool = NoWorkspace
      BY DEF NoGuest
<1>3. MemberTypeOK
      BY <1>1, <1>2, MembershipAssumption DEF MemberInit, MemberTypeOK
<1>4. InviteIsHonoured
      BY MembershipAssumption DEF MemberInit, InviteIsHonoured
<1> QED BY <1>2, <1>3, <1>4 DEF MemberInit, MemberInv, OneAcceptance, Accepting

\* The types, by variable.
LEMMA MemberFacts ==
  ASSUME MemberInv
  PROVE  /\ admittedAt \subseteq User /\ member \in [Workspace -> SUBSET User]
         /\ request \in [User -> Requests] /\ invite \in [Workspace -> 0..Uses]
         /\ guest \in [Process -> Guests] /\ accepted \in [User -> Workspace \cup {NoWorkspace}]
         /\ Uses \in Nat
  BY MembershipAssumption DEF MemberInv, MemberTypeOK, Requests, Guests

\* Requests are made, admitted, declined; members are removed.
LEMMA RequestStep ==
  ASSUME MemberInv, NEW u \in User,
         SubmitAccessRequest(u) \/ ApproveAccess(u) \/ DeclineAccess(u)
  PROVE  MemberInv'
<1>0. request[u] \in Requests
      BY MemberFacts
<1>1. PICK r \in Requests :
        /\ request' = [request EXCEPT ![u] = r] /\ r.pool = request[u].pool
        /\ r.status = "admitted" => ApproveAccess(u)
  <2>1. CASE SubmitAccessRequest(u)
    <3> DEFINE r == [request[u] EXCEPT !.status = "pending", !.answered = TRUE]
    <3>1. r \in Requests /\ r.pool = request[u].pool /\ r.status = "pending"
          BY <1>0 DEF Requests
    <3>2. request' = [request EXCEPT ![u] = r]
          BY <2>1, MemberFacts DEF SubmitAccessRequest
    <3> HIDE DEF r
    <3> QED BY <3>1, <3>2
  <2>2. CASE ApproveAccess(u)
    <3> DEFINE r == [request[u] EXCEPT !.status = "admitted"]
    <3>1. r \in Requests /\ r.pool = request[u].pool
          BY <1>0 DEF Requests
    <3>2. request' = [request EXCEPT ![u] = r]
          BY <2>2 DEF ApproveAccess
    <3> HIDE DEF r
    <3> QED BY <3>1, <3>2, <2>2
  <2>3. CASE DeclineAccess(u)
    <3> DEFINE r == [request[u] EXCEPT !.status = "declined"]
    <3>1. r \in Requests /\ r.pool = request[u].pool /\ r.status = "declined"
          BY <1>0 DEF Requests
    <3>2. request' = [request EXCEPT ![u] = r]
          BY <2>3 DEF DeclineAccess
    <3> HIDE DEF r
    <3> QED BY <3>1, <3>2
  <2> QED BY <2>1, <2>2, <2>3
<1>2. /\ admittedAt' \in {admittedAt, admittedAt \cup {u}}
      /\ member' \in [Workspace -> SUBSET User]
      /\ \A w \in Workspace : member[w] \subseteq member'[w]
      /\ \A w \in Workspace, x \in User : x \in member'[w] => x \in member[w] \/ x \in admittedAt'
      /\ UNCHANGED <<invite, guest, accepted>>
      BY MemberFacts DEF SubmitAccessRequest, ApproveAccess, DeclineAccess
<1>3. MemberTypeOK'
      BY <1>1, <1>2, MemberFacts DEF MemberTypeOK, Requests, Guests
<1>4. ASSUME NEW x \in User, NEW w \in Workspace, accepted[x] = w
      PROVE  x \in member'[w] \/ (request'[x].pool = w /\ request'[x].status # "admitted")
  <2>1. x \in member[w] \/ (request[x].pool = w /\ request[x].status # "admitted")
        BY <1>4 DEF MemberInv, InviteIsHonoured
  <2>2. request'[x] = IF x = u THEN r ELSE request[x]
        BY <1>1, MemberFacts
  <2>3. CASE x = u /\ ApproveAccess(u) /\ request[u].pool = w
        BY <2>3, MemberFacts DEF ApproveAccess
  <2> QED BY <2>1, <2>2, <2>3, <1>1, <1>2
<1>5. InviteIsHonoured'
      BY <1>2, <1>4 DEF InviteIsHonoured, MemberInv
<1> QED BY <1>2, <1>3, <1>5 DEF MemberInv, OneAcceptance, Accepting

\* Invites are made and revoked, which leaves a use being spent alone.
LEMMA InviteStep ==
  ASSUME MemberInv, NEW w \in Workspace, CreateInvite(w) \/ RevokeInvites(w)
  PROVE  MemberInv'
<1>1. PICK n \in 0..Uses : /\ invite' = [invite EXCEPT ![w] = n]
                           /\ n = 0 => \A p \in Process : guest[p].pool # w
      BY MemberFacts DEF CreateInvite, RevokeInvites
<1>2. UNCHANGED <<admittedAt, request, member, guest, accepted>>
      BY DEF CreateInvite, RevokeInvites
<1>3. MemberTypeOK'
      BY <1>1, <1>2, MemberFacts DEF MemberTypeOK, Requests, Guests
<1>4. \A p \in Process : Accepting(p)'
      BY <1>1, <1>2, MemberFacts DEF Accepting, MemberInv
<1> QED BY <1>2, <1>3, <1>4 DEF MemberInv, InviteIsHonoured, OneAcceptance

\* A handler goes on with the invite it holds, or begins with one nobody else
\* holds.
LEMMA GuestMoves ==
  ASSUME MemberInv, NEW p \in Process, NEW g \in Guests,
         guest' = [guest EXCEPT ![p] = g],
         UNCHANGED <<admittedAt, request, member, invite, accepted>>,
         \A q \in Process : q # p /\ guest[q].pool = g.pool => g.pool = NoWorkspace,
         g.at # "idle" => /\ g.user \in User /\ g.pool \in Workspace /\ invite[g.pool] > 0
                          /\ g.at = "admitted" => g.user \in admittedAt
  PROVE  MemberInv'
<1>1. \A q \in Process : guest'[q] = IF q = p THEN g ELSE guest[q]
      BY MemberFacts
<1>2. MemberTypeOK'
      BY MemberFacts DEF MemberTypeOK, Requests, Guests
<1>3. OneAcceptance'
      BY <1>1 DEF MemberInv, OneAcceptance
<1>4. \A q \in Process : Accepting(q)'
      BY <1>1 DEF MemberInv, Accepting
<1> QED BY <1>2, <1>3, <1>4 DEF MemberInv, InviteIsHonoured

\* A handler that is idle holds no invite.
LEMMA NoGuestGuests == NoGuest \in Guests /\ NoGuest.at = "idle" /\ NoGuest.pool = NoWorkspace
  BY DEF NoGuest, Guests

\* An invite is looked up, taken and read, or the handler fails.
LEMMA AcceptStep ==
  ASSUME MemberInv, NEW p \in Process,
         \/ ReadAdmission(p)
         \/ AcceptFails(p)
         \/ \E u \in User, w \in Workspace : TakeUse(p, u, w)
  PROVE  MemberInv'
<1>1. CASE AcceptFails(p)
      BY <1>1, NoGuestGuests, GuestMoves DEF AcceptFails
<1>2. CASE ReadAdmission(p)
  <2> DEFINE at == IF guest[p].user \in admittedAt THEN "admitted" ELSE "waiting"
             g == [guest[p] EXCEPT !.at = at]
  <2>1. guest[p] \in Guests /\ at \in {"admitted", "waiting"}
        BY MemberFacts
  <2>2. guest' = [guest EXCEPT ![p] = g]
        BY <1>2 DEF ReadAdmission
  <2>3. at = "admitted" => guest[p].user \in admittedAt
        OBVIOUS
  <2> HIDE DEF at
  <2>4. g \in Guests /\ g.at = at /\ g.user = guest[p].user /\ g.pool = guest[p].pool
        BY <2>1 DEF Guests
  <2> HIDE DEF g
  <2>5. Accepting(p) /\ guest[p].at # "idle"
        BY <1>2 DEF MemberInv, ReadAdmission
  <2>6. \A q \in Process : q # p /\ guest[q].pool = g.pool => g.pool = NoWorkspace
        BY <2>4 DEF MemberInv, OneAcceptance
  <2>7. UNCHANGED <<admittedAt, request, member, invite, accepted>>
        BY <1>2 DEF ReadAdmission
  <2> QED BY <2>2, <2>3, <2>4, <2>5, <2>6, <2>7, GuestMoves DEF Accepting
<1>3. CASE \E u \in User, w \in Workspace : TakeUse(p, u, w)
  <2>1. PICK u \in User, w \in Workspace : TakeUse(p, u, w)
        BY <1>3
  <2> DEFINE g == [at |-> "taken", user |-> u, pool |-> w]
  <2>2. g \in Guests /\ g.at = "taken" /\ g.user = u /\ g.pool = w
        BY DEF Guests
  <2>3. guest' = [guest EXCEPT ![p] = g]
        BY <2>1 DEF TakeUse
  <2> HIDE DEF g
  <2>4. invite[g.pool] > 0 /\ \A q \in Process : guest[q].pool # g.pool
        BY <2>1, <2>2 DEF TakeUse
  <2>5. UNCHANGED <<admittedAt, request, member, invite, accepted>>
        BY <2>1 DEF TakeUse
  <2> QED BY <2>2, <2>3, <2>4, <2>5, GuestMoves
<1> QED BY <1>1, <1>2, <1>3

\* Accepted, the use is spent and the row let go.
LEMMA SpendStep ==
  ASSUME MemberInv, NEW p \in Process, Join(p) \/ RecordPendingInvite(p)
  PROVE  MemberInv'
<1> DEFINE u == guest[p].user
           w == guest[p].pool
<1>1. /\ guest[p].at # "idle" /\ u \in User /\ w \in Workspace /\ invite[w] > 0
      /\ guest' = [guest EXCEPT ![p] = NoGuest] /\ UNCHANGED admittedAt
      BY DEF MemberInv, Accepting, Join, RecordPendingInvite
<1>2. \A q \in Process : q # p => guest[q].pool # w
      BY <1>1, MembershipAssumption DEF MemberInv, OneAcceptance
<1>3. \/ UNCHANGED <<request, invite, accepted, member>>
      \/ Spent(p)
      BY DEF Join, RecordPendingInvite
<1>4. CASE UNCHANGED <<request, invite, accepted, member>>
      BY <1>1, <1>4, NoGuestGuests, GuestMoves
<1>5. CASE Spent(p)
  <2>1. /\ invite' = [invite EXCEPT ![w] = @ - 1] /\ accepted' = [accepted EXCEPT ![u] = w]
        BY <1>5 DEF Spent
  <2>2. invite' \in [Workspace -> 0..Uses]
    <3>1. invite[w] \in 0..Uses /\ invite[w] - 1 \in 0..Uses
          BY <1>1, MemberFacts
    <3> QED BY <3>1, <2>1, <1>1, MemberFacts
  <2>3. \A q \in Process : guest'[q] = IF q = p THEN NoGuest ELSE guest[q]
        BY <1>1, MemberFacts
  <2>4. OneAcceptance'
        BY <2>3, NoGuestGuests DEF MemberInv, OneAcceptance
  <2>5. ASSUME NEW q \in Process PROVE Accepting(q)'
    <3>1. CASE q # p /\ guest[q].at # "idle"
      <4>1. guest[q].pool \in Workspace /\ guest[q].pool # w
            BY <3>1, <1>2 DEF MemberInv, Accepting
      <4>2. invite'[guest[q].pool] = invite[guest[q].pool]
            BY <4>1, <2>1, MemberFacts
      <4> QED BY <4>2, <3>1, <2>3, <1>1 DEF MemberInv, Accepting
    <3>2. CASE ~(q # p /\ guest[q].at # "idle")
          BY <3>2, <2>3, NoGuestGuests DEF Accepting
    <3> QED BY <3>1, <3>2
  <2>6. CASE Join(p)
    <3>1. /\ member' = [member EXCEPT ![w] = @ \cup {u}] /\ UNCHANGED request
          /\ u \in admittedAt
          BY <2>6 DEF Join, MemberInv, Accepting
    <3>2. InviteIsHonoured'
          BY <3>1, <2>1, <1>1, MemberFacts DEF InviteIsHonoured, MemberInv
    <3>3. MemberTypeOK'
          BY <3>1, <2>1, <2>2, <1>1, NoGuestGuests, MemberFacts DEF MemberTypeOK, Requests, Guests
    <3> QED BY <3>2, <3>3, <2>4, <2>5 DEF MemberInv
  <2>7. CASE RecordPendingInvite(p)
    <3>0. CASE request[u].status \notin {"none", "pending"}
      <4>1. UNCHANGED <<request, invite, accepted, member>>
            BY <3>0, <2>7 DEF RecordPendingInvite
      <4> QED BY <4>1, <1>4
    <3>a. CASE request[u].status \in {"none", "pending"}
      <4> DEFINE r == [request[u] EXCEPT !.pool = w, !.status = "pending"]
      <4>1. request' = [request EXCEPT ![u] = r] /\ UNCHANGED member
            BY <3>a, <2>7, <1>1, MemberFacts DEF RecordPendingInvite
      <4>2. request[u] \in Requests
            BY <1>1, MemberFacts
      <4>3. r \in Requests /\ r.pool = w /\ r.status = "pending"
            BY <4>2, <1>1 DEF Requests
      <4> HIDE DEF r, w, u
      <4>4. request' \in [User -> Requests] /\ accepted' \in [User -> Workspace \cup {NoWorkspace}]
            BY <4>1, <4>3, <2>1, <1>1, MemberFacts
      <4>5. MemberTypeOK'
            BY <4>1, <4>4, <2>2, <1>1, NoGuestGuests, MemberFacts
            DEF MemberTypeOK, Requests, Guests
      <4>6. InviteIsHonoured'
            BY <4>1, <4>3, <2>1, <1>1, MemberFacts DEF InviteIsHonoured, MemberInv
      <4> QED BY <4>5, <4>6, <2>4, <2>5 DEF MemberInv
    <3> QED BY <3>0, <3>a
  <2> QED BY <2>6, <2>7
<1> QED BY <1>3, <1>4, <1>5

\* Every step keeps the invariant.
LEMMA MemberStepInv == MemberInv /\ [MemberNext]_memberVars => MemberInv'
<1> SUFFICES ASSUME MemberInv, [MemberNext]_memberVars PROVE MemberInv'
    OBVIOUS
<1>1. CASE UNCHANGED memberVars
      BY <1>1 DEF memberVars, MemberInv, MemberTypeOK, InviteIsHonoured, OneAcceptance, Accepting
<1>2. CASE MemberNext
      BY <1>2, RequestStep, InviteStep, AcceptStep, SpendStep DEF MemberNext
<1> QED BY <1>1, <1>2

\* An invite is spent by those it admits and by no one else (InviteIsHonoured), for
\* any number of accounts, workspaces, uses and processes.
THEOREM InvitesAreHonoured == MemberSpec => []InviteIsHonoured
<1>1. MemberInv => InviteIsHonoured
      BY DEF MemberInv
<1> QED BY <1>1, MemberInitInv, MemberStepInv, PTL DEF MemberSpec

\* The types of the requests, the invites, the pools and the guests.
THEOREM MemberTyped == MemberSpec => []MemberTypeOK
<1>1. MemberInv => MemberTypeOK
      BY DEF MemberInv
<1> QED BY <1>1, MemberInitInv, MemberStepInv, PTL DEF MemberSpec

-----------------------------------------------------------------------------
(***************************************************************************)
(* CreditLedger for any amounts, accounts, requests and processes: a       *)
(* balance is what its entries come to, and nothing is posted twice.       *)
(***************************************************************************)

\* The entries of an account.
Own(u) == {e \in entry : e.user = u}
\* The amounts of some entries, and what they come to.
Worth(S) == [e \in S |-> e.zc]
Sum(S) == SumOver(Worth(S), S)

\* The states of a request, and what a line of the ledger says.
Statuses == {"pending", "approved", "declined"}
Entries == [user : User, reason : {"grant", "adjustment"}, ref : Nat, zc : Nat]

\* The types of the tables, and a teller under way is with an eligible account.
LedgerTypes ==
  /\ balance \in [User -> Nat \cup {NoAccount}]
  /\ entry \subseteq Entries /\ IsFiniteSet(entry)
  /\ asked \in [User -> Seq(Statuses)]
  /\ teller \in [Process -> [at : {"idle", "eligible", "ensured"},
                             user : User \cup {Nobody}]]
  /\ \A p \in Process : teller[p].at # "idle" => teller[p].user \in Eligible

\* One entry to a reason and a reference of an account.
KeysAreUnique ==
  \A e, d \in entry :
    e.user = d.user /\ e.reason = d.reason /\ e.ref = d.ref => e = d

\* Grants are those of eligible accounts, and have one amount and reference.
GrantsAreStarters ==
  \A e \in entry : e.reason = "grant" =>
    e.user \in Eligible /\ e.zc = StartingGrant /\ e.ref = 0

\* The adjustments of an account are its approved requests.
AdjustedAreApproved ==
  \A u \in User :
    \A i \in Nat : Written(u, "adjustment", i)
                     <=> i \in DOMAIN asked[u] /\ asked[u][i] = "approved"

\* A balance is what the entries of the account come to.
BalancesAddUp == \A u \in User : Opened(u) = Sum(Own(u))

\* The inductive invariant.
LedgerInv ==
  /\ LedgerTypes /\ KeysAreUnique /\ GrantsAreStarters
  /\ AdjustedAreApproved /\ BalancesAddUp

\* The types of an entry.
LEMMA EntryTypes ==
  ASSUME NEW e \in Entries
  PROVE  e.user \in User /\ e.reason \in {"grant", "adjustment"} /\ e.ref \in Nat /\ e.zc \in Nat
  BY DEF Entries

\* The type of an opened balance.
LEMMA OpenedType ==
  ASSUME LedgerTypes, NEW u \in User
  PROVE  Opened(u) \in Nat
  BY DEF LedgerTypes, Opened, NoAccount

\* The entries of an account are finitely many.
LEMMA OwnFinite ==
  ASSUME LedgerTypes, NEW u
  PROVE  Own(u) \subseteq entry /\ IsFiniteSet(Own(u))
  BY FS_Subset DEF LedgerTypes, Own

\* One more entry adds its amount.
LEMMA SumOfOneMore ==
  ASSUME NEW S, IsFiniteSet(S), NEW n, n \notin S, n.zc \in Nat,
         \A e \in S : e.zc \in Nat
  PROVE  Sum(S \cup {n}) = Sum(S) + n.zc
<1> DEFINE T == S \cup {n}
<1>1. IsFiniteSet(T)
  BY FS_AddElement
<1>2. \A e \in T : Worth(T)[e] = e.zc /\ Worth(T)[e] \in Int
  BY DEF Worth
<1>3. \A e \in S : Worth(S)[e] = e.zc /\ Worth(S)[e] \in Nat
  BY DEF Worth
<1>4. T \ {n} = S /\ n \in T
  OBVIOUS
<1> HIDE DEF T
<1>5. SumOver(Worth(T), T) = Worth(T)[n] + SumOver(Worth(T), S)
  BY <1>1, <1>2, <1>4, TotalRemove
<1>6. SumOver(Worth(T), S) = SumOver(Worth(S), S)
  BY <1>2, <1>3, <1>4, TotalAgree
<1>7. SumOver(Worth(S), S) \in Nat
  BY <1>3, TotalBounds
<1>8. Worth(T)[n] = n.zc
  BY <1>2, <1>4
<1>9. Sum(T) = n.zc + Sum(S) /\ Sum(S) \in Nat
  BY <1>5, <1>6, <1>7, <1>8 DEF Sum
<1> QED
  BY <1>9 DEF T

\* The sum the property speaks of is this one.
LEMMA SumIsTheirs ==
  ASSUME NEW S, IsFiniteSet(S)
  PROVE  MapThenSumSet(LAMBDA e : e.zc, S) = Sum(S)
<1> DEFINE one(s) == CHOOSE x \in s : TRUE
           it(h)  == h = [s \in SUBSET S |->
                            IF s = {} THEN 0 ELSE one(s).zc + h[s \ {one(s)}]]
<1>1. MapThenSumSet(LAMBDA e : e.zc, S) = (CHOOSE h : it(h))[S]
  BY DEF MapThenSumSet, MapThenFoldSet
<1>2. ASSUME NEW h PROVE it(h) <=> Adds(Worth(S), S, h)
  <2>1. \A s \in SUBSET S : s # {} => Worth(S)[one(s)] = one(s).zc
    BY PickIn DEF Pick, Worth
  <2>2. [s \in SUBSET S |-> IF s = {} THEN 0 ELSE one(s).zc + h[s \ {one(s)}]]
          = [s \in SUBSET S |-> IF s = {} THEN 0
                                ELSE Worth(S)[one(s)] + h[s \ {one(s)}]]
    BY <2>1
  <2> QED
    BY <2>2 DEF Adds, Pick
<1> HIDE DEF it
<1>3. it(CHOOSE h : it(h))
  BY <1>2, AddsExist
<1>4. Sum(S) = (CHOOSE h : it(h))[S]
  <2>1. S \in SUBSET S
    OBVIOUS
  <2> QED
    BY <1>2, <1>3, <2>1, TotalAdds DEF Sum
<1> QED
  BY <1>1, <1>4

\* What a posting that writes does to the accounts.
LEMMA PostWrites ==
  ASSUME LedgerInv, NEW u \in User, NEW reason \in {"grant", "adjustment"},
         NEW ref \in Nat, NEW zc \in Nat, ~Written(u, reason, ref),
         Post(u, reason, ref, zc)
  PROVE  /\ \A v \in User : Opened(v)' = Sum(Own(v))'
         /\ balance' \in [User -> Nat \cup {NoAccount}]
         /\ entry' \subseteq Entries /\ IsFiniteSet(entry')
         /\ KeysAreUnique'
         /\ \A v \in User, r \in {"grant", "adjustment"}, i \in Nat :
              Written(v, r, i)' <=> Written(v, r, i) \/ <<v, r, i>> = <<u, reason, ref>>
<1> DEFINE n == [user |-> u, reason |-> reason, ref |-> ref, zc |-> zc]
<1>1. n \in Entries /\ n \notin entry
  BY DEF Entries, Written
<1>2. entry' = entry \cup {n} /\ balance' = [balance EXCEPT ![u] = Opened(u) + zc]
  BY DEF Post
<1>0. n.user = u /\ n.reason = reason /\ n.ref = ref /\ n.zc = zc
  OBVIOUS
<1> HIDE DEF n
<1>3. entry \subseteq Entries /\ IsFiniteSet(entry) /\ Opened(u) \in Nat
  BY OpenedType DEF LedgerInv, LedgerTypes
<1>4. balance' \in [User -> Nat \cup {NoAccount}] /\ entry' \subseteq Entries
  BY <1>1, <1>2, <1>3 DEF LedgerInv, LedgerTypes
<1>5. IsFiniteSet(entry')
  BY <1>2, <1>3, FS_AddElement
<1>6. KeysAreUnique'
  BY <1>0, <1>2 DEF LedgerInv, KeysAreUnique, Written
<1>7. ASSUME NEW v \in User, v # u PROVE Opened(v)' = Sum(Own(v))'
  <2>1. Own(v)' = Own(v)
    BY <1>0, <1>2, <1>7 DEF Own
  <2>2. Opened(v)' = Opened(v)
    BY <1>2, <1>7 DEF Opened, LedgerInv, LedgerTypes
  <2> QED
    BY <1>7, <2>1, <2>2 DEF LedgerInv, BalancesAddUp, Sum
<1>8. Opened(u)' = Sum(Own(u))'
  <2>1. Own(u)' = Own(u) \cup {n} /\ n \notin Own(u)
    BY <1>0, <1>1, <1>2 DEF Own
  <2>2. IsFiniteSet(Own(u)) /\ \A e \in Own(u) : e.zc \in Nat
    BY <1>3, OwnFinite, EntryTypes DEF LedgerInv, Own
  <2>3. Sum(Own(u) \cup {n}) = Sum(Own(u)) + zc
    BY <1>0, <2>1, <2>2, SumOfOneMore
  <2>4. Opened(u)' = Opened(u) + zc
    <3>1. balance'[u] = Opened(u) + zc
      BY <1>2 DEF LedgerInv, LedgerTypes
    <3> QED
      BY <1>3, <3>1 DEF Opened, NoAccount
  <2>5. Opened(u) = Sum(Own(u))
    BY DEF LedgerInv, BalancesAddUp
  <2>6. Sum(Own(u))' = Sum(Own(u) \cup {n})
    BY <2>1 DEF Sum, Worth
  <2> QED
    BY <2>3, <2>4, <2>5, <2>6
<1>9. ASSUME NEW v \in User, NEW r \in {"grant", "adjustment"}, NEW i \in Nat
      PROVE  Written(v, r, i)' <=> Written(v, r, i) \/ <<v, r, i>> = <<u, reason, ref>>
  BY <1>0, <1>2 DEF Written
<1> QED
  BY <1>4, <1>5, <1>6, <1>7, <1>8, <1>9

\* Steps of a teller that move no money.
LEMMA TellerStep ==
  ASSUME LedgerInv, NEW p \in Process,
         EnsureAccounts(p) \/ TellerDies(p) \/ \E u \in User : ReadGranted(p, u)
  PROVE  LedgerInv'
<1>1. /\ teller' \in [Process -> [at : {"idle", "eligible", "ensured"},
                                  user : User \cup {Nobody}]]
      /\ \A q \in Process : teller'[q].at # "idle" => teller'[q].user \in Eligible
  <2>1. ASSUME NEW q \in Process
        PROVE  /\ teller'[q] \in [at : {"idle", "eligible", "ensured"},
                                  user : User \cup {Nobody}]
               /\ teller'[q].at # "idle" => teller'[q].user \in Eligible
    BY <2>1, SMTT(30) DEF LedgerInv, LedgerTypes, EnsureAccounts, TellerDies, ReadGranted,
       TellerGoto, IdleTeller
  <2>2. teller' = [q \in Process |-> teller'[q]]
    BY DEF LedgerInv, LedgerTypes, EnsureAccounts, TellerDies, ReadGranted, TellerGoto
  <2> QED
    BY <2>1, <2>2
<1>2. /\ balance' \in [User -> Nat \cup {NoAccount}]
      /\ \A u \in User : Opened(u)' = Opened(u)
  <2>1. CASE EnsureAccounts(p)
    <3>1. teller[p].user \in User
      BY <2>1, LedgerAssumption DEF LedgerInv, LedgerTypes, EnsureAccounts
    <3>2. Opened(teller[p].user) \in Nat
      BY <3>1, OpenedType DEF LedgerInv
    <3> QED
      BY <2>1, <3>1, <3>2 DEF LedgerInv, LedgerTypes, EnsureAccounts, Opened, NoAccount
  <2>2. CASE UNCHANGED balance
    BY <2>2 DEF LedgerInv, LedgerTypes, Opened
  <2> QED
    BY <2>1, <2>2 DEF TellerDies, ReadGranted
<1>3. UNCHANGED <<entry, asked>>
  BY DEF EnsureAccounts, TellerDies, ReadGranted
<1>4. LedgerTypes'
  BY <1>1, <1>2, <1>3 DEF LedgerInv, LedgerTypes
<1>5. \A u \in User : Sum(Own(u))' = Sum(Own(u))
  BY <1>3 DEF Sum, Worth, Own
<1> QED
  BY <1>2, <1>3, <1>4, <1>5 DEF LedgerInv, KeysAreUnique, GrantsAreStarters,
     AdjustedAreApproved, BalancesAddUp, Written

\* The posting of the starting grant, or its repetition, which writes nothing.
LEMMA CreditGrantStep ==
  ASSUME LedgerInv, NEW p \in Process, GrantStartingCredits(p)
  PROVE  LedgerInv'
<1> DEFINE u == teller[p].user
<1>1. u \in Eligible /\ u \in User
  BY LedgerAssumption DEF LedgerInv, LedgerTypes, GrantStartingCredits
<1>2. Post(u, "grant", 0, StartingGrant) /\ asked' = asked
      /\ teller' = [teller EXCEPT ![p] = IdleTeller]
  BY DEF GrantStartingCredits
<1> HIDE DEF u
<1>3. /\ teller' \in [Process -> [at : {"idle", "eligible", "ensured"},
                                  user : User \cup {Nobody}]]
      /\ \A q \in Process : teller'[q].at # "idle" => teller'[q].user \in Eligible
  BY <1>2 DEF LedgerInv, LedgerTypes, IdleTeller
<1>4. CASE Written(u, "grant", 0)
  <2>1. UNCHANGED <<balance, entry>>
    BY <1>2, <1>4 DEF Post
  <2>2. \A v \in User : Sum(Own(v))' = Sum(Own(v)) /\ Opened(v)' = Opened(v)
    BY <2>1 DEF Sum, Worth, Own, Opened
  <2> QED
    BY <1>2, <1>3, <2>1, <2>2 DEF LedgerInv, LedgerTypes, KeysAreUnique,
       GrantsAreStarters, AdjustedAreApproved, BalancesAddUp, Written
<1>5. CASE ~Written(u, "grant", 0)
  <2>0. StartingGrant \in Nat
    BY LedgerAssumption
  <2>1. /\ \A v \in User : Opened(v)' = Sum(Own(v))'
        /\ balance' \in [User -> Nat \cup {NoAccount}]
        /\ entry' \subseteq Entries /\ IsFiniteSet(entry') /\ KeysAreUnique'
        /\ \A v \in User, r \in {"grant", "adjustment"}, i \in Nat :
             Written(v, r, i)' <=> Written(v, r, i) \/ <<v, r, i>> = <<u, "grant", 0>>
    BY <1>1, <1>2, <1>5, <2>0, PostWrites
  <2>2. GrantsAreStarters'
    BY <1>1, <1>2, <1>5 DEF Post, LedgerInv, GrantsAreStarters
  <2>3. AdjustedAreApproved'
    <3>1. ASSUME NEW v \in User, NEW i \in Nat
          PROVE  Written(v, "adjustment", i)' <=> Written(v, "adjustment", i)
      BY <2>1
    <3> QED
      BY <1>2, <3>1 DEF LedgerInv, AdjustedAreApproved
  <2>4. LedgerTypes'
    BY <1>2, <1>3, <2>1 DEF LedgerInv, LedgerTypes
  <2> QED
    BY <2>1, <2>2, <2>3, <2>4 DEF LedgerInv, BalancesAddUp
<1> QED
  BY <1>4, <1>5

\* What becomes of a request, and of no other.
LEMMA AskedStep ==
  ASSUME LedgerTypes, NEW u \in User, NEW i \in DOMAIN asked[u],
         NEW status \in Statuses, asked' = [asked EXCEPT ![u][i] = status]
  PROVE  /\ asked' \in [User -> Seq(Statuses)]
         /\ \A v \in User : DOMAIN asked'[v] = DOMAIN asked[v]
         /\ asked'[u][i] = status
         /\ \A v \in User : \A j \in DOMAIN asked[v] :
              <<v, j>> # <<u, i>> => asked'[v][j] = asked[v][j]
<1>1. asked[u] \in Seq(Statuses)
  BY DEF LedgerTypes
<1>2. [asked[u] EXCEPT ![i] = status] \in Seq(Statuses)
  BY <1>1
<1>3. asked' = [asked EXCEPT ![u] = [asked[u] EXCEPT ![i] = status]]
  OBVIOUS
<1> QED
  BY <1>1, <1>2, <1>3 DEF LedgerTypes

\* A request is declined.
LEMMA DeclineStep ==
  ASSUME LedgerInv, NEW u \in User, NEW i \in DOMAIN asked[u],
         DeclineCreditRequest(u, i)
  PROVE  LedgerInv'
<1>1. /\ asked[u][i] = "pending" /\ asked' = [asked EXCEPT ![u][i] = "declined"]
      /\ UNCHANGED <<balance, entry, teller>>
  BY DEF DeclineCreditRequest, Pending
<1>2. /\ asked' \in [User -> Seq(Statuses)]
      /\ \A v \in User : DOMAIN asked'[v] = DOMAIN asked[v]
      /\ asked'[u][i] = "declined"
      /\ \A v \in User : \A j \in DOMAIN asked[v] :
           <<v, j>> # <<u, i>> => asked'[v][j] = asked[v][j]
  BY <1>1, AskedStep DEF LedgerInv, Statuses
<1>3. AdjustedAreApproved'
  <2> SUFFICES ASSUME NEW v \in User, NEW j \in Nat
      PROVE  Written(v, "adjustment", j)
               <=> j \in DOMAIN asked'[v] /\ asked'[v][j] = "approved"
    BY <1>1 DEF AdjustedAreApproved, Written
  <2>1. Written(v, "adjustment", j)
          <=> j \in DOMAIN asked[v] /\ asked[v][j] = "approved"
    BY DEF LedgerInv, AdjustedAreApproved
  <2>2. CASE <<v, j>> = <<u, i>>
    BY <1>1, <1>2, <2>1, <2>2
  <2>3. CASE <<v, j>> # <<u, i>>
    BY <1>2, <2>1, <2>3
  <2> QED
    BY <2>2, <2>3
<1> QED
  BY <1>1, <1>2, <1>3 DEF LedgerInv, LedgerTypes, KeysAreUnique, GrantsAreStarters,
     BalancesAddUp, Written, Opened, Sum, Own, Worth

\* A request is approved, and the posting under its reference is the first.
LEMMA ApproveStep ==
  ASSUME LedgerInv, NEW u \in User, NEW i \in DOMAIN asked[u], NEW zc \in Amounts,
         ApproveCreditRequest(u, i, zc)
  PROVE  LedgerInv'
<1>1. /\ asked[u][i] = "pending" /\ asked' = [asked EXCEPT ![u][i] = "approved"]
      /\ UNCHANGED teller /\ ~Written(u, "adjustment", i)
      /\ Post(u, "adjustment", i, zc)
  BY DEF ApproveCreditRequest, Pending
<1>2. /\ asked' \in [User -> Seq(Statuses)]
      /\ \A v \in User : DOMAIN asked'[v] = DOMAIN asked[v]
      /\ asked'[u][i] = "approved"
      /\ \A v \in User : \A j \in DOMAIN asked[v] :
           <<v, j>> # <<u, i>> => asked'[v][j] = asked[v][j]
  BY <1>1, AskedStep DEF LedgerInv, Statuses
<1>3. i \in Nat /\ zc \in Nat
  <2>1. asked[u] \in Seq(Statuses)
    BY DEF LedgerInv, LedgerTypes
  <2> QED
    BY <2>1, LedgerAssumption
<1>4. /\ \A v \in User : Opened(v)' = Sum(Own(v))'
      /\ balance' \in [User -> Nat \cup {NoAccount}]
      /\ entry' \subseteq Entries /\ IsFiniteSet(entry') /\ KeysAreUnique'
      /\ \A v \in User, r \in {"grant", "adjustment"}, j \in Nat :
           Written(v, r, j)' <=> Written(v, r, j) \/ <<v, r, j>> = <<u, "adjustment", i>>
  BY <1>1, <1>3, PostWrites
<1>5. GrantsAreStarters'
  BY <1>1 DEF Post, LedgerInv, GrantsAreStarters
<1>6. AdjustedAreApproved'
  <2> SUFFICES ASSUME NEW v \in User, NEW j \in Nat
      PROVE  Written(v, "adjustment", j)'
               <=> j \in DOMAIN asked'[v] /\ asked'[v][j] = "approved"
    BY DEF AdjustedAreApproved
  <2>1. Written(v, "adjustment", j)
          <=> j \in DOMAIN asked[v] /\ asked[v][j] = "approved"
    BY DEF LedgerInv, AdjustedAreApproved
  <2>2. Written(v, "adjustment", j)'
          <=> Written(v, "adjustment", j) \/ <<v, j>> = <<u, i>>
    BY <1>4
  <2>3. CASE <<v, j>> = <<u, i>>
    BY <1>2, <2>2, <2>3
  <2>4. CASE <<v, j>> # <<u, i>>
    BY <1>2, <2>1, <2>2, <2>4
  <2> QED
    BY <2>3, <2>4
<1> QED
  BY <1>1, <1>2, <1>4, <1>5, <1>6 DEF LedgerInv, LedgerTypes, BalancesAddUp

\* One more request.
LEMMA CreateStep ==
  ASSUME LedgerInv, NEW u \in User, CreateCreditRequest(u)
  PROVE  LedgerInv'
<1>1. /\ asked' = [asked EXCEPT ![u] = Append(asked[u], "pending")]
      /\ UNCHANGED <<balance, entry, teller>>
  BY DEF CreateCreditRequest
<1>2. asked[u] \in Seq(Statuses) /\ Append(asked[u], "pending") \in Seq(Statuses)
  BY DEF LedgerInv, LedgerTypes, Statuses
<1>3. asked' \in [User -> Seq(Statuses)]
  BY <1>1, <1>2 DEF LedgerInv, LedgerTypes
<1>4. ASSUME NEW v \in User, NEW j \in Nat
      PROVE  (j \in DOMAIN asked'[v] /\ asked'[v][j] = "approved")
               <=> (j \in DOMAIN asked[v] /\ asked[v][j] = "approved")
  <2>1. CASE v = u
    <3>1. asked'[v] = Append(asked[u], "pending")
      BY <1>1, <2>1 DEF LedgerInv, LedgerTypes
    <3> QED
      BY <1>2, <2>1, <3>1
  <2>2. CASE v # u
    BY <1>1, <2>2 DEF LedgerInv, LedgerTypes
  <2> QED
    BY <2>1, <2>2
<1>5. AdjustedAreApproved'
  BY <1>1, <1>4 DEF LedgerInv, AdjustedAreApproved, Written
<1> QED
  BY <1>1, <1>3, <1>5 DEF LedgerInv, LedgerTypes, KeysAreUnique, GrantsAreStarters,
     BalancesAddUp, Written, Opened, Sum, Own, Worth

\* In the first state there are no accounts and no entries.
LEMMA LedgerInvInit == LedgerInit => LedgerInv
<1> SUFFICES ASSUME LedgerInit PROVE LedgerInv
  OBVIOUS
<1>1. LedgerTypes
  BY FS_EmptySet DEF LedgerInit, LedgerTypes, IdleTeller, NoAccount
<1>2. ASSUME NEW u \in User PROVE Opened(u) = 0 /\ Own(u) = {}
  BY DEF LedgerInit, Opened, NoAccount, Own
<1>3. Sum({}) = 0
  BY TotalEmpty DEF Sum
<1>4. BalancesAddUp
  BY <1>2, <1>3 DEF BalancesAddUp
<1> QED
  BY <1>1, <1>4 DEF LedgerInit, LedgerInv, KeysAreUnique, GrantsAreStarters,
     AdjustedAreApproved, Written

\* Every step keeps the invariant.
LEMMA LedgerInvNext == LedgerInv /\ [LedgerNext]_ledgerVars => LedgerInv'
<1> SUFFICES ASSUME LedgerInv, [LedgerNext]_ledgerVars PROVE LedgerInv'
  OBVIOUS
<1>1. CASE UNCHANGED ledgerVars
  <2>1. \A u \in User : Sum(Own(u))' = Sum(Own(u)) /\ Opened(u)' = Opened(u)
    BY <1>1 DEF ledgerVars, Sum, Worth, Own, Opened
  <2> QED
    BY <1>1, <2>1 DEF ledgerVars, LedgerInv, LedgerTypes, KeysAreUnique,
       GrantsAreStarters, AdjustedAreApproved, BalancesAddUp, Written
<1>2. CASE LedgerNext
  BY <1>2, TellerStep, CreditGrantStep, CreateStep, DeclineStep, ApproveStep DEF LedgerNext
<1> QED
  BY <1>1, <1>2

\* No credits are minted twice and none are lost (CreditsAreMintedOnce), for any
\* amounts, accounts, requests and processes.
THEOREM MintedOnce == LedgerSpec => []CreditsAreMintedOnce
<1>1. LedgerInv => CreditsAreMintedOnce
  <2> SUFFICES ASSUME LedgerInv, NEW u \in User
      PROVE  /\ Opened(u) = MapThenSumSet(LAMBDA e : e.zc, Own(u))
             /\ \A e \in Own(u) : e.reason = "grant" => u \in Eligible /\ e.zc = StartingGrant
             /\ {e.ref : e \in {d \in Own(u) : d.reason = "adjustment"}}
                  = {i \in DOMAIN asked[u] : asked[u][i] = "approved"}
             /\ \A e, d \in Own(u) : e.reason = d.reason /\ e.ref = d.ref => e = d
    BY DEF CreditsAreMintedOnce, Own
  <2>1. Opened(u) = MapThenSumSet(LAMBDA e : e.zc, Own(u))
    <3>1. IsFiniteSet(Own(u))
      BY OwnFinite DEF LedgerInv
    <3>2. MapThenSumSet(LAMBDA e : e.zc, Own(u)) = Sum(Own(u))
      BY <3>1, SumIsTheirs
    <3> QED
      BY <3>2 DEF LedgerInv, BalancesAddUp
  <2>2. \A e \in Own(u) : e.reason = "grant" => u \in Eligible /\ e.zc = StartingGrant
    BY DEF LedgerInv, GrantsAreStarters, Own
  <2>3. {e.ref : e \in {d \in Own(u) : d.reason = "adjustment"}}
          = {i \in DOMAIN asked[u] : asked[u][i] = "approved"}
    <3>1. \A e \in Own(u) : e \in Entries /\ e.ref \in Nat
      BY EntryTypes DEF LedgerInv, LedgerTypes, Own
    <3>2. DOMAIN asked[u] \subseteq Nat
      <4>1. asked[u] \in Seq(Statuses)
        BY DEF LedgerInv, LedgerTypes
      <4> QED
        BY <4>1
    <3>3. ASSUME NEW i \in Nat
          PROVE  i \in {e.ref : e \in {d \in Own(u) : d.reason = "adjustment"}}
                   <=> Written(u, "adjustment", i)
      BY DEF Written, Own
    <3>4. ASSUME NEW i \in Nat
          PROVE  Written(u, "adjustment", i)
                   <=> i \in {j \in DOMAIN asked[u] : asked[u][j] = "approved"}
      BY DEF LedgerInv, AdjustedAreApproved
    <3> QED
      BY <3>1, <3>2, <3>3, <3>4
  <2>4. \A e, d \in Own(u) : e.reason = d.reason /\ e.ref = d.ref => e = d
    BY DEF LedgerInv, KeysAreUnique, Own
  <2> QED
    BY <2>1, <2>2, <2>3, <2>4
<1> QED
  BY <1>1, LedgerInvInit, LedgerInvNext, PTL DEF LedgerSpec

\* The types of the balances, the ledger and the requests.
THEOREM LedgerTyped == LedgerSpec => []LedgerTypeOK
<1>1. LedgerInv => LedgerTypeOK
  <2> SUFFICES ASSUME LedgerInv PROVE LedgerTypeOK
      OBVIOUS
  <2>1. LedgerTypes
        BY DEF LedgerInv
  <2>2. \A u \in User : \A i \in DOMAIN asked[u] : asked[u][i] \in Statuses
        BY <2>1 DEF LedgerTypes
  <2> QED BY <2>1, <2>2 DEF LedgerTypes, Statuses, Entries, LedgerTypeOK
<1> QED BY <1>1, LedgerInvInit, LedgerInvNext, PTL DEF LedgerSpec

-----------------------------------------------------------------------------
(***************************************************************************)
(* Ranking and Matching for any offers, jobs and number of processes: the  *)
(* ranking is an order, so a walk down it takes each ask once; a plan is   *)
(* within the bid, the offers and the newcomers' allowance and leaves out  *)
(* nothing it could use; and so do all the plans, posted and refilled in   *)
(* any order.                                                              *)
(***************************************************************************)
(* Asks in order. *)

\* Asks as the book has them, no two of which are one.
WellFormed(a) ==
  a.id \in Nat /\ a.ask \in Nat /\ a.seconds \in Nat /\ a.rate \in Nat \cup {None}
Book(book) ==
  /\ IsFiniteSet(book) /\ \A a \in book : WellFormed(a)
  /\ \A a, b \in book : a.id = b.id => a = b
Fraction(x) == x = <<x[1], x[2]>> /\ x[1] \in Nat /\ x[2] \in Nat \ {0}

\* Multiplication keeps order, and is undone.
LEMMA TimesKeeps ==
  ASSUME NEW a \in Nat, NEW b \in Nat, NEW c \in Nat, a <= b
  PROVE  a * c <= b * c
<1>1. PICK d \in Nat : b = a + d
  <2>1. b - a \in Nat /\ b = a + (b - a)
        OBVIOUS
  <2> QED BY <2>1
<1>2. b * c = a * c + d * c
      BY <1>1
<1>3. a * c \in Nat /\ d * c \in Nat
      BY <1>1
<1> QED BY <1>2, <1>3
\* By a number above zero.
LEMMA TimesUndone ==
  ASSUME NEW a \in Nat, NEW b \in Nat, NEW c \in Nat \ {0}, a * c <= b * c
  PROVE  a <= b
<1> SUFFICES ASSUME b < a PROVE FALSE
    OBVIOUS
<1>1. b + 1 <= a /\ b + 1 \in Nat
      OBVIOUS
<1>2. (b + 1) * c <= a * c
      BY <1>1, TimesKeeps
<1>3. (b + 1) * c = b * c + c
      OBVIOUS
<1>4. b * c \in Nat /\ a * c \in Nat
      OBVIOUS
<1> QED BY <1>2, <1>3, <1>4

\* Fractions are in order.
LEMMA FractionsOrdered ==
  ASSUME NEW x, NEW y, NEW z, Fraction(x), Fraction(y), Fraction(z),
         ~Under(y, x), ~Under(z, y)
  PROVE  ~Under(z, x)
<1> DEFINE a == x[1]  b == x[2]  c == y[1]  d == y[2]  e == z[1]  f == z[2]
<1>1. a \in Nat /\ b \in Nat \ {0} /\ c \in Nat /\ d \in Nat \ {0} /\ e \in Nat /\ f \in Nat \ {0}
      BY DEF Fraction
<1>2. a * d <= c * b /\ c * f <= e * d
  <2>1. ~(c * b < a * d) /\ ~(e * d < c * f)
        BY DEF Under
  <2> HIDE DEF a, b, c, d, e, f
  <2>2. a * d \in Nat /\ c * b \in Nat /\ c * f \in Nat /\ e * d \in Nat
        BY <1>1
  <2> QED BY <2>1, <2>2
<1>3. Under(z, x) <=> e * b < a * f
      BY DEF Under
<1> HIDE DEF a, b, c, d, e, f
<1>4. a * d \in Nat /\ c * b \in Nat /\ c * f \in Nat /\ e * d \in Nat /\ a * f \in Nat /\ e * b \in Nat
      BY <1>1
<1>5. (a * d) * f <= (c * b) * f /\ (c * f) * b <= (e * d) * b
      BY <1>1, <1>2, <1>4, TimesKeeps
<1>6. (c * b) * f = (c * f) * b /\ (a * d) * f = (a * f) * d /\ (e * d) * b = (e * b) * d
      BY <1>1
<1>7. (a * f) * d \in Nat /\ (c * f) * b \in Nat /\ (e * b) * d \in Nat
      BY <1>1, <1>4
<1>8. (a * f) * d <= (e * b) * d
      BY <1>5, <1>6, <1>7
<1>9. a * f <= e * b
      BY <1>1, <1>4, <1>8, TimesUndone
<1> QED BY <1>3, <1>4, <1>9

\* One is not under another and over it.
LEMMA UnderOneWay ==
  ASSUME NEW x, NEW y, Fraction(x), Fraction(y), Under(x, y)
  PROVE  ~Under(y, x)
<1> DEFINE m == x[1] * y[2]  n == y[1] * x[2]
<1>1. m \in Nat /\ n \in Nat
      BY DEF Fraction
<1>2. (Under(x, y) <=> m < n) /\ (Under(y, x) <=> n < m)
      BY DEF Under
<1> HIDE DEF m, n
<1> QED BY <1>1, <1>2

\* Some asks are within the n-th duration, so there is one, and it is no zero.
LEMMA NthIs ==
  ASSUME NEW M, IsFiniteSet(M), \A a \in M : a.seconds \in Nat \ {0},
         NEW n \in Nat \ {0}, n <= Cardinality(M)
  PROVE  NthSeconds(M, n) \in Nat \ {0}
<1> DEFINE V == {a.seconds : a \in M}
           W == {v \in V : Cardinality({a \in M : a.seconds <= v}) >= n}
<1>1. IsFiniteSet(V) /\ V \subseteq Nat \ {0}
  <2> DEFINE f == [a \in M |-> a.seconds]
  <2>1. V = {f[a] : a \in M}
        OBVIOUS
  <2>2. V \subseteq Nat \ {0}
        OBVIOUS
  <2> HIDE DEF f, V
  <2>3. IsFiniteSet(V)
        BY <2>1, ImageFinite
  <2> QED BY <2>2, <2>3
<1>2. M # {}
      BY FS_EmptySet
<1>3. Max(V) \in V /\ \A v \in V : v <= Max(V)
  <2>1. V # {} /\ V \subseteq Int
        BY <1>1, <1>2
  <2> HIDE DEF V
  <2> QED BY <1>1, <2>1, MaxIs
<1>4. {a \in M : a.seconds <= Max(V)} = M
      BY <1>3
<1>5. Max(V) \in W
  <2>1. Cardinality(M) \in Nat
        BY FS_CardinalityType
  <2>2. Cardinality(M) >= n
        BY <2>1
  <2> HIDE DEF V
  <2> QED BY <1>3, <1>4, <2>2
<1>6. IsFiniteSet(W) /\ W # {} /\ W \subseteq Int /\ W \subseteq Nat \ {0}
  <2>1. W \in SUBSET V
        OBVIOUS
  <2> HIDE DEF V, W
  <2>2. IsFiniteSet(W)
        BY <1>1, <2>1, FS_Subset
  <2> QED BY <1>1, <1>5, <2>1, <2>2
<1>7. NthSeconds(M, n) = Min(W)
      BY DEF NthSeconds
<1> HIDE DEF W
<1> QED BY <1>6, <1>7, MinIs

\* Where some are measured, the class has a median.
LEMMA MedianIs ==
  ASSUME NEW book, Book(book), NEW a \in book, Measured(a)
  PROVE  ClassMedian(book)[1] \in Nat \ {0} /\ ClassMedian(book)[2] \in Nat \ {0}
<1> DEFINE M == {b \in book : Measured(b)}
           n == Cardinality(M)
           mid == n \div 2
<1>1. IsFiniteSet(M) /\ a \in M
      BY FS_Subset DEF Book
<1>2. \A b \in M : b.seconds \in Nat \ {0}
      BY DEF Book, WellFormed, Measured
<1>3. n \in Nat \ {0}
      BY <1>1, FS_CardinalityType, FS_EmptySet
<1>4. ClassMedian(book) = IF n % 2 = 1 THEN <<NthSeconds(M, mid + 1), 1>>
                          ELSE <<NthSeconds(M, mid) + NthSeconds(M, mid + 1), 2>>
      BY DEF ClassMedian, MedianOf
<1> HIDE DEF M
<1>5. CASE n % 2 = 1
  <2>1. mid + 1 \in Nat \ {0} /\ mid + 1 <= n
    <3> HIDE DEF n
    <3> QED BY <1>3, <1>5
  <2>2. NthSeconds(M, mid + 1) \in Nat \ {0}
        BY <1>1, <1>2, <2>1, NthIs
  <2> QED BY <1>4, <1>5, <2>2
<1>6. CASE n % 2 # 1
  <2>1. mid \in Nat \ {0} /\ mid <= n /\ mid + 1 \in Nat \ {0} /\ mid + 1 <= n
    <3> HIDE DEF n
    <3> QED BY <1>3, <1>6
  <2>2. NthSeconds(M, mid) \in Nat \ {0} /\ NthSeconds(M, mid + 1) \in Nat \ {0}
        BY <1>1, <1>2, <2>1, NthIs
  <2>3. NthSeconds(M, mid) + NthSeconds(M, mid + 1) \in Nat \ {0}
        BY <2>2
  <2>4. ClassMedian(book) = <<NthSeconds(M, mid) + NthSeconds(M, mid + 1), 2>>
        BY <1>4, <1>6
  <2> HIDE DEF mid
  <2> QED BY <2>3, <2>4
<1> QED BY <1>5, <1>6

\* An ask that has a price has a score.
LEMMA ScoreIs ==
  ASSUME NEW book, Book(book), NEW a \in book, Priced(a), NEW objective
  PROVE  Fraction(RankScore(objective, a, book))
<1>1. Fraction(EffectivePrice(a))
      BY DEF Fraction, EffectivePrice, Priced, Book, WellFormed, Whole, None
<1>2. Fraction(QualityFactor(a, book))
  <2>1. Fraction(<<1, 1>>) /\ Fraction(<<1, 2>>) /\ Fraction(<<2, 1>>)
        BY DEF Fraction
  <2>2. CASE Measured(a)
    <3> DEFINE m == ClassMedian(book)
    <3>1. m[1] \in Nat \ {0} /\ m[2] \in Nat \ {0} /\ a.seconds \in Nat
          BY <2>2, MedianIs DEF Book, WellFormed
    <3>2. QualityFactor(a, book) \in {<<1, 2>>, <<2, 1>>, <<a.seconds * m[2], m[1]>>}
          BY <2>2 DEF QualityFactor, Against, Clamped
    <3> HIDE DEF m
    <3>3. Fraction(<<a.seconds * m[2], m[1]>>)
          BY <3>1 DEF Fraction
    <3> QED BY <2>1, <3>2, <3>3
  <2> QED BY <2>1, <2>2 DEF QualityFactor
<1>3. ASSUME NEW x, NEW y, Fraction(x), Fraction(y) PROVE Fraction(Times(x, y))
  <2>1. x[1] * y[1] \in Nat /\ x[2] * y[2] \in Nat /\ x[2] * y[2] # 0
        BY <1>3 DEF Fraction
  <2> QED BY <2>1 DEF Fraction, Times
<1> QED BY <1>1, <1>2, <1>3 DEF RankScore

\* The sort key of rank_asks puts any asks of a book in one order.
THEOREM RankingOrders ==
  ASSUME NEW book, Book(book), NEW objective
  PROVE  /\ \A a, b \in book : a # b => Before(objective, book, a, b) \/ Before(objective, book, b, a)
         /\ \A a, b, c \in book :
              Before(objective, book, a, b) /\ Before(objective, book, b, c) =>
                Before(objective, book, a, c)
<1> DEFINE s(a) == RankScore(objective, a, book)
           u(a, b) == Under(s(a), s(b))
           P == {a \in book : Priced(a)}
<1>1. /\ \A a, b, c \in P : ~u(b, a) /\ ~u(c, b) => ~u(c, a)
      /\ \A a, b \in P : u(a, b) => ~u(b, a)
  <2>1. \A a \in P : Fraction(s(a))
        BY ScoreIs
  <2> HIDE DEF s
  <2> QED BY <2>1, FractionsOrdered, UnderOneWay
<1>2. \A a \in book : WellFormed(a)
      BY DEF Book
<1>3. \A a, b \in book : a # b => a.id # b.id
      BY DEF Book
<1>4. /\ \A a, b \in book : a # b => Lesser(a, b) \/ Lesser(b, a)
      /\ \A a, b, c \in book : Lesser(a, b) /\ Lesser(b, c) => Lesser(a, c)
      BY <1>2, <1>3 DEF Lesser, WellFormed
<1> DEFINE B(a, b) == Before(objective, book, a, b)
           S(a, b) == ByScore(a, b, s(a), s(b))
           p(a) == Priced(a)
           m(a) == objective = "fastest" /\ Measured(a)
<1>5. \A a, b \in book :
        B(a, b) <=> \/ p(a) /\ ~p(b)
                    \/ /\ p(a) <=> p(b)
                       /\ \/ m(a) /\ ~m(b)
                          \/ m(a) /\ m(b) /\ a.seconds < b.seconds
                          \/ /\ (~m(a) /\ ~m(b)) \/ (m(a) /\ m(b) /\ a.seconds = b.seconds)
                             /\ (~p(a) /\ Lesser(a, b)) \/ (p(a) /\ S(a, b))
  <2>1. \A a \in book : Priced(a) \in BOOLEAN /\ Measured(a) \in BOOLEAN
        BY DEF Priced, Measured
  <2>2. \A a \in book : a.seconds \in Nat
        BY <1>2 DEF WellFormed
  <2>3. \A a, b \in book : S(a, b) \in BOOLEAN /\ Lesser(a, b) \in BOOLEAN
        BY DEF ByScore, Lesser
  <2> HIDE DEF S
  <2>4. \A a, b \in book :
          B(a, b) = IF Priced(a) # Priced(b) THEN Priced(a)
                    ELSE IF objective = "fastest" /\ Measured(a) # Measured(b) THEN Measured(a)
                    ELSE IF objective = "fastest" /\ Measured(a) /\ a.seconds # b.seconds
                    THEN a.seconds < b.seconds
                    ELSE IF ~Priced(a) THEN Lesser(a, b) ELSE S(a, b)
        BY Zenon DEF Before, S
  <2> HIDE DEF B
  <2>5. ASSUME NEW a \in book, NEW b \in book,
               NEW pa \in BOOLEAN, NEW pb \in BOOLEAN, NEW ma \in BOOLEAN, NEW mb \in BOOLEAN,
               pa = Priced(a), pb = Priced(b), ma = Measured(a), mb = Measured(b)
        PROVE  B(a, b) <=>
                 \/ pa /\ ~pb
                 \/ /\ pa <=> pb
                    /\ \/ objective = "fastest" /\ ma /\ ~mb
                       \/ objective = "fastest" /\ ma /\ mb /\ a.seconds < b.seconds
                       \/ /\ \/ ~(objective = "fastest" /\ ma) /\ ~(objective = "fastest" /\ mb)
                             \/ objective = "fastest" /\ ma /\ mb /\ a.seconds = b.seconds
                          /\ (~pa /\ Lesser(a, b)) \/ (pa /\ S(a, b))
    <3>1. B(a, b) = IF pa # pb THEN pa
                    ELSE IF objective = "fastest" /\ ma # mb THEN ma
                    ELSE IF objective = "fastest" /\ ma /\ a.seconds # b.seconds
                    THEN a.seconds < b.seconds
                    ELSE IF ~pa THEN Lesser(a, b) ELSE S(a, b)
          BY <2>4, <2>5
    <3>2. CASE pa /\ pb /\ ma /\ mb
      <4>1. CASE objective = "fastest" /\ a.seconds # b.seconds
        <5>1. B(a, b) = (a.seconds < b.seconds)
              BY <3>1, <3>2, <4>1
        <5> QED BY <2>2, <3>2, <4>1, <5>1
      <4>2. CASE ~(objective = "fastest" /\ a.seconds # b.seconds)
        <5>1. B(a, b) = S(a, b)
              BY <3>1, <3>2, <4>2
        <5>2. ~(objective = "fastest" /\ a.seconds < b.seconds)
              BY <2>2, <4>2
        <5> QED BY <2>3, <3>2, <4>2, <5>1, <5>2
      <4> QED BY <4>1, <4>2
    <3>3. CASE pa /\ pb /\ ~(ma /\ mb)
          BY <2>2, <2>3, <3>1, <3>3
    <3>4. CASE ~pa /\ ~pb /\ ma /\ mb
      <4>1. CASE objective = "fastest" /\ a.seconds # b.seconds
        <5>1. B(a, b) = (a.seconds < b.seconds)
              BY <3>1, <3>4, <4>1
        <5> QED BY <2>2, <3>4, <4>1, <5>1
      <4>2. CASE ~(objective = "fastest" /\ a.seconds # b.seconds)
        <5>1. B(a, b) = Lesser(a, b)
              BY <3>1, <3>4, <4>2
        <5>2. ~(objective = "fastest" /\ a.seconds < b.seconds)
              BY <2>2, <4>2
        <5> QED BY <2>3, <3>4, <4>2, <5>1, <5>2
      <4> QED BY <4>1, <4>2
    <3>5. CASE ~pa /\ ~pb /\ ~(ma /\ mb)
          BY <2>2, <2>3, <3>1, <3>5
    <3>6. CASE ~(pa <=> pb)
          BY <3>1, <3>6
    <3> QED BY <3>2, <3>3, <3>4, <3>5, <3>6
  <2> QED BY <2>1, <2>5
<1>6. /\ \A a, b \in P : a # b => S(a, b) \/ S(b, a)
      /\ \A a, b, c \in P : S(a, b) /\ S(b, c) => S(a, c)
  <2>1. \A a, b \in P : S(a, b) <=> u(a, b) \/ (~u(b, a) /\ Lesser(a, b))
        BY DEF ByScore
  <2>2. \A a \in P : a \in book
        OBVIOUS
  <2> HIDE DEF S, u, P
  <2>3. ASSUME NEW a \in P, NEW b \in P, a # b PROVE S(a, b) \/ S(b, a)
        BY <2>1, <2>2, <2>3, <1>4
  <2>4. ASSUME NEW a \in P, NEW b \in P, NEW c \in P, S(a, b), S(b, c) PROVE S(a, c)
    <3>1. ~u(b, a) /\ ~u(c, b)
          BY <2>1, <2>4, <1>1
    <3>2. ~u(c, a)
          BY <3>1, <1>1
    <3>3. CASE u(a, b) \/ u(b, c)
      <4>1. u(a, c)
        <5>1. SUFFICES ASSUME ~u(a, c) PROVE FALSE
              OBVIOUS
        <5>2. ~u(a, b)
              BY <3>1, <5>1, <1>1
        <5>3. ~u(b, c)
              BY <3>1, <5>1, <1>1
        <5> QED BY <3>3, <5>2, <5>3
      <4> QED BY <4>1, <2>1
    <3>4. CASE ~u(a, b) /\ ~u(b, c)
          BY <3>2, <3>4, <2>1, <2>2, <2>4, <1>4
    <3> QED BY <3>3, <3>4
  <2> QED BY <2>3, <2>4
<1>7. \A a \in book : p(a) => a \in P
      OBVIOUS
<1>8. \A a \in book : a.seconds \in Nat
      BY <1>2 DEF WellFormed
<1> HIDE DEF P, S, s, u, p, m, B
<1>9. ASSUME NEW a \in book, NEW b \in book, a # b PROVE B(a, b) \/ B(b, a)
      BY <1>4, <1>5, <1>6, <1>7, <1>8, <1>9
<1>10. ASSUME NEW a \in book, NEW b \in book, NEW c \in book, B(a, b), B(b, c) PROVE B(a, c)
      BY <1>4, <1>5, <1>6, <1>7, <1>8, <1>10
<1> QED BY <1>9, <1>10 DEF B

\* Of asks of a book the one a bid comes to last is one of them.
LEMMA RankedLastIn ==
  ASSUME NEW book, Book(book), NEW objective, NEW T \in SUBSET book, T # {}
  PROVE  RankedLast(objective, book, T) \in T
<1> DEFINE R == {p \in T \X T : Before(objective, book, p[1], p[2])}
<1>1. \A a, b \in T : <<a, b>> \in R <=> Before(objective, book, a, b)
      OBVIOUS
<1>2. IsFiniteSet(T)
      BY FS_Subset DEF Book
<1>3. /\ \A a, b \in T : a # b => <<a, b>> \in R \/ <<b, a>> \in R
      /\ \A a, b, c \in T : (<<a, b>> \in R /\ <<b, c>> \in R) => <<a, c>> \in R
  <2> HIDE DEF R
  <2> QED BY <1>1, RankingOrders
<1> HIDE DEF R
<1>4. PICK z \in T : \A a \in T \ {z} : <<a, z>> \in R
      BY <1>2, <1>3, LastExists
<1>5. \A a \in T \ {z} : Before(objective, book, a, z)
      BY <1>1, <1>4
<1> QED BY <1>5 DEF RankedLast

-----------------------------------------------------------------------------
(* One ask of the walk down the ranking. *)

Walks == [left: Nat, fills: [Offer -> Nat], allowance: Nat]
TheAsks == {Offers[i] : i \in Offer}

\* Where a walk down the ranking stands that has come past T: what it gave is what it
\* has no longer to give, and what it might have taken it took, or had nothing left for.
Walked(j, want, allowance, T, acc) ==
  /\ acc \in Walks
  /\ acc.left + SumOver(acc.fills, Offer) = want
  /\ acc.allowance + SumOver(acc.fills, Unproven) = allowance
  /\ \A i \in Offer : /\ acc.fills[i] <= Offers[i].tasks
                      /\ acc.fills[i] > 0 => Offers[i] \in T /\ Affordable(j, Offers[i])
  /\ \A o \in T : Affordable(j, o) => \/ acc.fills[o.id] > 0 \/ o.tasks = 0 \/ acc.left = 0
                                      \/ Newcomer(o) /\ acc.allowance = 0
TakeOf(j, acc, o) == IF Affordable(j, o) THEN Room(acc, o) ELSE 0

\* Asks are told apart by their offers.
LEMMA AskIs ==
  ASSUME NEW o \in TheAsks
  PROVE  o.id \in Offer /\ o = Offers[o.id]
  BY OfferAssumption DEF TheAsks

\* The book is one.
LEMMA BookIs == ASSUME NEW book \in SUBSET TheAsks PROVE Book(book)
<1>1. IsFiniteSet(TheAsks)
      BY OfferAssumption, ImageFinite DEF TheAsks
<1>2. IsFiniteSet(book)
      BY <1>1, FS_Subset
<1>3. \A a \in book : WellFormed(a)
      BY OfferAssumption DEF TheAsks, WellFormed
<1>4. \A a, b \in book : a.id = b.id => a = b
      BY AskIs
<1> QED BY <1>2, <1>3, <1>4 DEF Book

\* What is taken of an ask is no more than there is of it, of demand and allowance.
LEMMA RoomIs ==
  ASSUME NEW j \in Job, NEW o \in TheAsks, NEW acc \in Walks
  PROVE  /\ TakeOf(j, acc, o) \in Nat /\ TakeOf(j, acc, o) <= acc.left /\ TakeOf(j, acc, o) <= o.tasks
         /\ Newcomer(o) => TakeOf(j, acc, o) <= acc.allowance
         /\ Affordable(j, o) => \/ TakeOf(j, acc, o) > 0 \/ o.tasks = 0 \/ acc.left = 0
                                \/ Newcomer(o) /\ acc.allowance = 0
<1>1. o.tasks \in Nat
      BY OfferAssumption DEF TheAsks
<1>2. acc.left \in Nat /\ acc.allowance \in Nat
      BY DEF Walks
<1> QED BY <1>1, <1>2 DEF TakeOf, Room, Lower

\* One ask further.
LEMMA WalkStep ==
  ASSUME NEW j \in Job, NEW want \in Nat, NEW allowance \in Nat, NEW T \in SUBSET TheAsks,
         NEW acc, Walked(j, want, allowance, T, acc), NEW o \in TheAsks, o \notin T
  PROVE  Walked(j, want, allowance, T \cup {o}, Granted(acc, o, TakeOf(j, acc, o)))
<1> DEFINE t == TakeOf(j, acc, o)
           i == o.id
           f == acc.fills
           g == [f EXCEPT ![i] = t]
           r == Granted(acc, o, t)
<1>1. acc \in Walks /\ i \in Offer /\ o = Offers[i]
      BY AskIs DEF Walked
<1>2. /\ t \in Nat /\ t <= acc.left /\ t <= o.tasks /\ (Newcomer(o) => t <= acc.allowance)
      /\ Affordable(j, o) => \/ t > 0 \/ o.tasks = 0 \/ acc.left = 0
                             \/ Newcomer(o) /\ acc.allowance = 0
      /\ t > 0 => Affordable(j, o)
  <2>1. t > 0 => Affordable(j, o)
        BY DEF TakeOf
  <2> HIDE DEF t
  <2> QED BY <1>1, <2>1, RoomIs DEF t
<1>3. /\ r.left = acc.left - t /\ r.fills = g
      /\ r.allowance = IF Newcomer(o) THEN acc.allowance - t ELSE acc.allowance
      /\ r = [left |-> r.left, fills |-> r.fills, allowance |-> r.allowance]
      BY DEF Granted
<1>4. f \in [Offer -> Nat] /\ acc.left \in Nat /\ acc.allowance \in Nat
      BY <1>1 DEF Walks
<1>5. f[i] = 0
  <2>1. ~(f[i] > 0)
        BY <1>1 DEF Walked
  <2> QED BY <1>1, <1>4, <2>1
<1> HIDE DEF t, i, r
<1>6. g \in [Offer -> Nat] /\ g[i] = t /\ \A k \in Offer : k # i => g[k] = f[k]
      BY <1>1, <1>2, <1>4
<1> HIDE DEF f, g
<1>7. SumOver(g, Offer) = SumOver(f, Offer) + t
  <2>0. IsFiniteSet(Offer) /\ i \in Offer
        BY <1>1, OfferAssumption DEF TheAsks
  <2>1. /\ g[i] \in Int /\ \A x \in Offer : f[x] \in Int
        /\ \A x \in Offer : x # i => g[x] = f[x]
        BY <1>2, <1>4, <1>6
  <2>2. SumOver(g, Offer) = SumOver(f, Offer) + g[i] - f[i]
        BY <2>0, <2>1, TotalUpdate, SMTT(30)
  <2>3. SumOver(f, Offer) \in Nat
        BY <1>4, OfferAssumption, TotalBounds
  <2> QED BY <2>2, <2>3, <1>5, <1>6, <1>2
<1>8. SumOver(g, Unproven) = SumOver(f, Unproven) + IF Newcomer(o) THEN t ELSE 0
  <2>1. IsFiniteSet(Unproven) /\ Unproven \subseteq Offer
        BY OfferAssumption, FS_Subset DEF Unproven
  <2>2. SumOver(f, Unproven) \in Nat
        BY <1>4, <2>1, TotalBounds
  <2>3. i \in Unproven <=> Newcomer(o)
        BY <1>1 DEF Unproven, Newcomer
  <2>4. CASE i \in Unproven
    <3>1. \A k \in Unproven : f[k] \in Int
          BY <1>4, <2>1
    <3>2. \A k \in Unproven : k # i => g[k] = f[k]
          BY <1>6, <2>1
    <3>3. g[i] \in Int
          BY <1>6, <1>2
    <3>4. SumOver(g, Unproven) = SumOver(f, Unproven) + g[i] - f[i]
          BY <2>1, <2>4, <3>1, <3>2, <3>3, TotalUpdate
    <3> QED BY <3>4, <2>2, <2>3, <2>4, <1>5, <1>6, <1>2
  <2>5. CASE i \notin Unproven
    <3>1. \A k \in Unproven : f[k] = g[k]
          BY <1>6, <2>1, <2>5
    <3>2. SumOver(f, Unproven) = SumOver(g, Unproven)
          BY <2>1, <3>1, TotalAgree
    <3> QED BY <3>2, <2>2, <2>3, <2>5
  <2> QED BY <2>4, <2>5
<1>9. SumOver(f, Offer) \in Nat /\ SumOver(f, Unproven) \in Nat
  <2>1. IsFiniteSet(Unproven) /\ Unproven \subseteq Offer
        BY OfferAssumption, FS_Subset DEF Unproven
  <2> QED BY <1>4, <2>1, OfferAssumption, TotalBounds
<1>10. r \in Walks
  <2>1. r.left \in Nat /\ r.allowance \in Nat
        BY <1>2, <1>3, <1>4
  <2> QED BY <1>3, <1>6, <2>1 DEF Walks
<1>11. r.left + SumOver(r.fills, Offer) = want
  <2>1. acc.left + SumOver(f, Offer) = want
        BY DEF Walked, f
  <2> QED BY <2>1, <1>2, <1>3, <1>4, <1>7, <1>9
<1>12. r.allowance + SumOver(r.fills, Unproven) = allowance
  <2>1. acc.allowance + SumOver(f, Unproven) = allowance
        BY DEF Walked, f
  <2> QED BY <2>1, <1>2, <1>3, <1>4, <1>8, <1>9
<1>13. ASSUME NEW k \in Offer
       PROVE  /\ r.fills[k] <= Offers[k].tasks
              /\ r.fills[k] > 0 => Offers[k] \in T \cup {o} /\ Affordable(j, Offers[k])
  <2>1. CASE k = i
        BY <2>1, <1>1, <1>2, <1>3, <1>6
  <2>2. CASE k # i
    <3>1. f[k] <= Offers[k].tasks /\ (f[k] > 0 => Offers[k] \in T /\ Affordable(j, Offers[k]))
          BY DEF Walked, f
    <3> QED BY <2>2, <3>1, <1>3, <1>6
  <2> QED BY <2>1, <2>2
<1>14. ASSUME NEW q \in T \cup {o}, Affordable(j, q)
       PROVE  \/ r.fills[q.id] > 0 \/ q.tasks = 0 \/ r.left = 0
              \/ Newcomer(q) /\ r.allowance = 0
  <2>0. q.tasks \in Nat
        BY OfferAssumption DEF TheAsks
  <2>1. CASE q = o
    <3>1. t > 0 \/ o.tasks = 0 \/ acc.left = 0 \/ (Newcomer(o) /\ acc.allowance = 0)
          BY <1>2, <1>14, <2>1
    <3>2. r.fills[i] = t
          BY <1>3, <1>6
    <3> QED BY <3>1, <3>2, <2>1, <1>2, <1>3, <1>4 DEF i
  <2>2. CASE q # o
    <3>1. q \in T /\ q.id \in Offer /\ q = Offers[q.id]
          BY <2>2, AskIs
    <3>2. q.id # i
          BY <1>1, <2>2, <3>1
    <3>3. f[q.id] > 0 \/ q.tasks = 0 \/ acc.left = 0 \/ (Newcomer(q) /\ acc.allowance = 0)
          BY <3>1, <1>14 DEF Walked, f
    <3>4. r.fills[q.id] = f[q.id]
          BY <3>1, <3>2, <1>3, <1>6
    <3>5. acc.left = 0 => r.left = 0
          BY <1>2, <1>3, <1>4
    <3>6. acc.allowance = 0 => r.allowance = 0
          BY <1>2, <1>3, <1>4
    <3> QED BY <3>3, <3>4, <3>5, <3>6
  <2> QED BY <2>1, <2>2
<1> QED BY <1>10, <1>11, <1>12, <1>13, <1>14 DEF Walked, r, t

\* Where every walk begins.
WalkBase(want, allowance) == [left |-> want, fills |-> NoFills, allowance |-> allowance]
LEMMA WalkBegins ==
  ASSUME NEW j \in Job, NEW want \in Nat, NEW allowance \in Nat
  PROVE  Walked(j, want, allowance, {}, WalkBase(want, allowance))
<1>1. NoFills \in [Offer -> Nat] /\ \A i \in Offer : NoFills[i] = 0
      BY DEF NoFills
<1>2. IsFiniteSet(Unproven) /\ Unproven \subseteq Offer
      BY OfferAssumption, FS_Subset DEF Unproven
<1>3. SumOver(NoFills, Offer) = 0 /\ SumOver(NoFills, Unproven) = 0
      BY <1>1, <1>2, OfferAssumption, TotalZero
<1>4. \A i \in Offer : Offers[i].tasks \in Nat
      BY OfferAssumption
<1> QED BY <1>1, <1>3, <1>4 DEF Walked, Walks, WalkBase

-----------------------------------------------------------------------------
(* The walk. *)

\* A fold that begins and goes on as a walk does, where it has been a walk so far,
\* is one all along.
LEMMA WalkAlong ==
  ASSUME NEW j \in Job, NEW want \in Nat, NEW allowance \in Nat, NEW S \in SUBSET TheAsks,
         NEW pick, \A T \in SUBSET S : T # {} => pick[T] \in T,
         NEW k, k[{}] = WalkBase(want, allowance),
         \A T \in SUBSET S : T # {} /\ k[T \ {pick[T]}] \in Walks =>
           k[T] = Granted(k[T \ {pick[T]}], pick[T], TakeOf(j, k[T \ {pick[T]}], pick[T]))
  PROVE  \A T \in SUBSET S : Walked(j, want, allowance, T, k[T])
<1> DEFINE B == {T \in SUBSET S : ~Walked(j, want, allowance, T, k[T])}
<1> SUFFICES ASSUME B # {} PROVE FALSE
    OBVIOUS
<1>0. B \in SUBSET (SUBSET S)
      OBVIOUS
<1>1. IsFiniteSet(S)
      BY BookIs DEF Book
<1>2. PICK T \in B : \A U \in SUBSET T : U # T => U \notin B
  <2> HIDE DEF B
  <2> QED BY <1>0, <1>1, SmallestSet
<1>3. CASE T = {}
      BY <1>3, WalkBegins
<1>4. CASE T # {}
  <2> DEFINE o == pick[T]
             U == T \ {o}
  <2>1. T \in SUBSET S /\ o \in T /\ o \in TheAsks
        BY <1>4
  <2>2. U \in SUBSET T /\ U # T /\ U \in SUBSET S /\ U \in SUBSET TheAsks /\ o \notin U
        BY <2>1
  <2>3. Walked(j, want, allowance, U, k[U])
        BY <1>2, <2>2
  <2>4. k[U] \in Walks
        BY <2>3 DEF Walked
  <2>5. k[T] = Granted(k[U], o, TakeOf(j, k[U], o))
        BY <1>4, <2>1, <2>4
  <2>6. U \cup {o} = T
        BY <2>1
  <2> HIDE DEF o, U
  <2>7. Walked(j, want, allowance, T, k[T])
        BY <2>1, <2>2, <2>3, <2>5, <2>6, WalkStep
  <2> QED BY <2>7
<1> QED BY <1>3, <1>4

\* What match_bid gives: no more than is wanted, than there is of an ask, and to newcomers
\* than their allowance, and only what the bid affords; all of it that there is
\* demand and allowance for.
Matched(j, want, asks, allowance, r) ==
  /\ r \in Walks
  /\ r.left + SumOver(r.fills, Offer) = want
  /\ r.allowance + SumOver(r.fills, Unproven) = allowance
  /\ \A i \in Offer : /\ r.fills[i] <= Offers[i].tasks
                      /\ r.fills[i] > 0 => i \in asks /\ Affordable(j, Offers[i]) /\ ~Offers[i].workspace
  /\ \A i \in asks : Affordable(j, Offers[i]) /\ ~Offers[i].workspace =>
                       \/ r.fills[i] > 0 \/ Offers[i].tasks = 0 \/ r.left = 0
                       \/ Newcomer(Offers[i]) /\ r.allowance = 0
LEMMA MatchBidIs ==
  ASSUME NEW j \in Job, NEW want \in Nat, NEW asks \in SUBSET Offer, NEW allowance \in Nat
  PROVE  Matched(j, want, asks, allowance, MatchBid(j, want, asks, allowance))
<1> DEFINE book == {Offers[i] : i \in asks}
           S == {o \in book : ~o.workspace}
           last(T) == RankedLast(Jobs[j].objective, book, T)
           base == WalkBase(want, allowance)
           W(k) == k = [T \in SUBSET S |->
                          IF T = {} THEN base
                          ELSE Granted(k[T \ {last(T)}], last(T), TakeOf(j, k[T \ {last(T)}], last(T)))]
<1>1. book \in SUBSET TheAsks /\ S \in SUBSET book /\ S \in SUBSET TheAsks
      BY DEF TheAsks
<1>2. MatchBid(j, want, asks, allowance) = (CHOOSE k : W(k))[S]
      BY DEF MatchBid, DownTheRanking, MapThenFoldSet, TakeOf, WalkBase
<1>3. \A T \in SUBSET S : T # {} => last(T) \in T
  <2>1. Book(book)
        BY <1>1, BookIs
  <2> HIDE DEF S, book
  <2> QED BY <1>1, <2>1, RankedLastIn
<1>4. IsFiniteSet(S)
      BY <1>1, BookIs DEF Book
<1> HIDE DEF last, base, book, S
<1> DEFINE pick == [T \in SUBSET S |-> last(T)]
           step == [p \in S \X Walks |-> Granted(p[2], p[1], TakeOf(j, p[2], p[1]))]
<1>5. \A T \in SUBSET S : T # {} => pick[T] \in T /\ pick[T] = last(T)
      BY <1>3
<1>6. \A o \in S, acc \in Walks : step[<<o, acc>>] = Granted(acc, o, TakeOf(j, acc, o))
      OBVIOUS
<1> HIDE DEF pick, step
<1>7. \E k : W(k)
  <2>1. PICK h : FoldsTo(pick, step, base, S, h)
        BY <1>4, <1>5, FoldExists
  <2>2. h[{}] = WalkBase(want, allowance)
        BY <2>1, FoldEmpty DEF base
  <2>3. ASSUME NEW T \in SUBSET S, T # {}, h[T \ {pick[T]}] \in Walks
        PROVE  h[T] = Granted(h[T \ {pick[T]}], pick[T], TakeOf(j, h[T \ {pick[T]}], pick[T]))
    <3>1. h[T] = step[<<pick[T], h[T \ {pick[T]}]>>]
          BY <2>1, <2>3, FoldAt
    <3>2. pick[T] \in S
          BY <1>5, <2>3
    <3> QED BY <3>1, <3>2, <2>3, <1>6
  <2>4. \A T \in SUBSET S : Walked(j, want, allowance, T, h[T])
    <3>1. \A T \in SUBSET S : T # {} => pick[T] \in T
          BY <1>5
    <3> QED BY <1>1, <2>2, <2>3, <3>1, WalkAlong
  <2>5. ASSUME NEW T \in SUBSET S, T # {}
        PROVE  h[T] = Granted(h[T \ {last(T)}], last(T), TakeOf(j, h[T \ {last(T)}], last(T)))
    <3>1. pick[T] = last(T) /\ T \ {pick[T]} \in SUBSET S
          BY <1>5, <2>5
    <3>2. h[T \ {pick[T]}] \in Walks
          BY <2>4, <3>1 DEF Walked
    <3> QED BY <2>3, <2>5, <3>1, <3>2
  <2>6. h = [T \in SUBSET S |-> h[T]]
        BY <2>1 DEF FoldsTo
  <2>7. \A T \in SUBSET S : h[T] = IF T = {} THEN base
                                   ELSE Granted(h[T \ {last(T)}], last(T), TakeOf(j, h[T \ {last(T)}], last(T)))
        BY <2>2, <2>5 DEF base
  <2>8. W(h)
        BY <2>6, <2>7
  <2> QED BY <2>8
<1> DEFINE k == CHOOSE k : W(k)
<1>8. W(k)
      BY <1>7
<1> HIDE DEF k
<1>9. k[{}] = WalkBase(want, allowance)
      BY <1>8 DEF base
<1>10. \A T \in SUBSET S : T # {} =>
         k[T] = Granted(k[T \ {pick[T]}], pick[T], TakeOf(j, k[T \ {pick[T]}], pick[T]))
      BY <1>8, <1>5
<1>11. Walked(j, want, allowance, S, k[S])
  <2>1. \A T \in SUBSET S : T # {} => pick[T] \in T
        BY <1>5
  <2>2. S \in SUBSET S
        OBVIOUS
  <2> HIDE DEF W
  <2> QED BY <1>1, <1>9, <1>10, <2>1, <2>2, WalkAlong
<1> DEFINE r == MatchBid(j, want, asks, allowance)
<1>12. Walked(j, want, allowance, S, r)
      BY <1>2, <1>11 DEF k
<1>13. \A i \in Offer : (Offers[i] \in S) <=> (i \in asks /\ ~Offers[i].workspace)
  <2>1. \A i \in asks : i \in Offer
        OBVIOUS
  <2>2. \A i \in Offer, m \in asks : Offers[i] = Offers[m] => i = m
        BY OfferAssumption, <2>1
  <2> QED BY <2>1, <2>2 DEF S, book
<1>14. \A i \in asks : Offers[i].id = i
      BY OfferAssumption
<1> HIDE DEF r
<1> QED BY <1>12, <1>13, <1>14 DEF Walked, Matched, r

-----------------------------------------------------------------------------
(* Newcomers' allowances. *)

\* A budget is a number of tasks, and grows with them.
LEMMA BudgetIs ==
  ASSUME NEW n \in Nat
  PROVE  UnprovenTaskBudget(n) \in Nat /\ UnprovenTaskBudget(n) >= n \div 4 /\ (n # 0 => UnprovenTaskBudget(n) >= 1)
<1> DEFINE m == n \div 4
           S == {1, m}
<1>1. m \in Nat
      OBVIOUS
<1>2. n = 0 => m = 0
      OBVIOUS
<1>3. UnprovenTaskBudget(n) = IF n = 0 THEN 0 ELSE Max(S)
      BY DEF UnprovenTaskBudget
<1> HIDE DEF m
<1>4. IsFiniteSet(S) /\ S # {} /\ S \subseteq Int
  <2>1. IsFiniteSet({1}) /\ IsFiniteSet({m})
        BY FS_Singleton
  <2>2. S = {1} \cup {m}
        OBVIOUS
  <2>3. IsFiniteSet(S)
        BY <2>1, <2>2, FS_Union
  <2> QED BY <2>3, <1>1
<1>5. Max(S) \in S /\ \A x \in S : x <= Max(S)
  <2> HIDE DEF S
  <2> QED BY <1>4, MaxIs
<1>6. Max(S) \in Nat /\ Max(S) >= 1 /\ Max(S) >= m
      BY <1>1, <1>5
<1> QED BY <1>1, <1>2, <1>3, <1>6 DEF m
\* With them it does not shrink.
LEMMA BudgetGrows ==
  ASSUME NEW n \in Nat, NEW m \in Nat, n <= m
  PROVE  UnprovenTaskBudget(n) <= UnprovenTaskBudget(m)
<1>1. CASE n = 0
  <2>1. UnprovenTaskBudget(n) = 0
        BY <1>1 DEF UnprovenTaskBudget
  <2> QED BY <2>1, BudgetIs
<1>2. CASE n # 0
  <2> DEFINE a == n \div 4
             b == m \div 4
  <2>1. a \in Nat /\ b \in Nat /\ a <= b
        OBVIOUS
  <2>2. UnprovenTaskBudget(n) = Max({1, a})
        BY <1>2 DEF UnprovenTaskBudget
  <2>3. UnprovenTaskBudget(m) \in Nat /\ UnprovenTaskBudget(m) >= b /\ UnprovenTaskBudget(m) >= 1
        BY <1>2, BudgetIs
  <2> HIDE DEF a, b
  <2>4. Max({1, a}) \in {1, a}
    <3> DEFINE S == {1, a}
    <3>1. IsFiniteSet({1}) /\ IsFiniteSet({a})
          BY FS_Singleton
    <3>2. S = {1} \cup {a}
          OBVIOUS
    <3>3. IsFiniteSet(S)
          BY <3>1, <3>2, FS_Union
    <3>4. S # {} /\ S \subseteq Int
          BY <2>1
    <3> HIDE DEF S
    <3>5. Max(S) \in S
          BY <3>3, <3>4, MaxIs
    <3> QED BY <3>5 DEF S
  <2> QED BY <2>1, <2>2, <2>3, <2>4
<1> QED BY <1>1, <1>2

\* The matches of each class, counted together.
SpentBy(bids) == [c \in Class |-> SumOver(bids[c], Unproven)]
LEMMA SpentIs ==
  ASSUME NEW j, NEW bids
  PROVE  UnprovenSpent(j, bids) = SumOver(SpentBy(bids), Class)
<1> DEFINE A(h) == h = [T \in SUBSET Class |->
                          IF T = {} THEN 0
                          ELSE SumOver(bids[Pick(T)], Unproven) + h[T \ {Pick(T)}]]
           X(h) == Adds(SpentBy(bids), Class, h)
<1>1. UnprovenSpent(j, bids) = (CHOOSE h : A(h))[Class]
      BY DEF UnprovenSpent, MapThenSumSet, SumFunctionOnSet, FoldFunctionOnSet, MapThenFoldSet,
             SumOver, Adds, Pick
<1>2. \A T \in SUBSET Class : T # {} => SpentBy(bids)[Pick(T)] = SumOver(bids[Pick(T)], Unproven)
  <2>1. \A T \in SUBSET Class : T # {} => Pick(T) \in Class
        BY PickIn
  <2> QED BY <2>1 DEF SpentBy
<1>3. ASSUME NEW h PROVE A(h) <=> X(h)
  <2> DEFINE a == [T \in SUBSET Class |-> IF T = {} THEN 0
                      ELSE SumOver(bids[Pick(T)], Unproven) + h[T \ {Pick(T)}]]
             b == [T \in SUBSET Class |-> IF T = {} THEN 0
                      ELSE SpentBy(bids)[Pick(T)] + h[T \ {Pick(T)}]]
  <2>1. \A T \in SUBSET Class : a[T] = b[T]
        BY <1>2
  <2>2. a = b
        BY <2>1
  <2> QED BY <2>2 DEF Adds
<1> HIDE DEF A, X
<1>4. (CHOOSE h : A(h)) = (CHOOSE h : X(h))
      BY <1>3
<1> QED BY <1>1, <1>4 DEF SumOver, X

-----------------------------------------------------------------------------
(* One class of a plan. *)

\* Of sums of naturals: they are naturals.
LEMMA FillsSum ==
  ASSUME NEW f \in [Offer -> Nat]
  PROVE  SumOver(f, Offer) \in Nat /\ SumOver(f, Unproven) \in Nat
<1>1. IsFiniteSet(Unproven) /\ Unproven \subseteq Offer
      BY OfferAssumption, FS_Subset DEF Unproven
<1> QED BY <1>1, OfferAssumption, TotalBounds

\* Nothing granted is nothing spent.
LEMMA NoneSum == NoFills \in [Offer -> Nat] /\ SumOver(NoFills, Offer) = 0 /\ SumOver(NoFills, Unproven) = 0
<1>1. NoFills \in [Offer -> Nat] /\ \A i \in Offer : NoFills[i] = 0
      BY DEF NoFills
<1>2. IsFiniteSet(Unproven) /\ Unproven \subseteq Offer
      BY OfferAssumption, FS_Subset DEF Unproven
<1> QED BY <1>1, <1>2, OfferAssumption, TotalZero

\* There are finitely many classes.
LEMMA ClassFinite == IsFiniteSet(Class)
<1> DEFINE f == [i \in Offer |-> Offers[i].class]
<1>1. Class = {f[i] : i \in Offer}
      BY DEF Class
<1> HIDE DEF f
<1> QED BY <1>1, OfferAssumption, ImageFinite

Bids == [wanted: Nat, fills: [Offer -> Nat]]
Plannings == [left: Nat, plan: [Class -> Bids], allowance: Nat]
PlanSpent(plan) == SumOver(SpentBy([c \in Class |-> plan[c].fills]), Class)
\* The offers that a bid may be matched to.
LEMMA SuitsAre ==
  ASSUME NEW j \in Job, NEW c \in Class, NEW i \in Offer
  PROVE  i \in Suits[j][c] <=> /\ Offers[i].class = c /\ ~Offers[i].workspace
                               /\ Affordable(j, Offers[i])
  BY DEF Suits
\* An offer that a job may use.
Can(j, i) == Affordable(j, Offers[i]) /\ ~Offers[i].workspace /\ Offers[i].tasks # 0

\* A plan's bids are within the job, and its matches within the bids and the offers, of
\* offers that suit them.
BidsSound(j, plan) ==
  /\ plan \in [Class -> Bids]
  /\ \A c \in Class : /\ SumOver(plan[c].fills, Offer) <= plan[c].wanted
                      /\ plan[c].wanted <= Jobs[j].tasks
                      /\ \A i \in Offer : /\ plan[c].fills[i] <= Offers[i].tasks
                                          /\ plan[c].fills[i] > 0 => i \in Suits[j][c]
\* It is of what is open, and what is not filled had nothing open for it, or no allowance.
BidsServed(j, plan, spentUp) ==
  \A c \in Class :
    /\ \A i \in Offer : plan[c].fills[i] > 0 => i \in OpenAsks(c)
    /\ SumOver(plan[c].fills, Offer) < plan[c].wanted =>
         \A i \in OpenAsks(c) :
           Can(j, i) => plan[c].fills[i] > 0 \/ (Newcomer(Offers[i]) /\ spentUp)
Planned(j, T, acc) ==
  /\ acc \in Plannings /\ acc.left <= Jobs[j].tasks
  /\ BidsSound(j, acc.plan)
  /\ acc.allowance + PlanSpent(acc.plan) = UnprovenTaskBudget(Jobs[j].tasks)
  /\ \A c \in Class \ {Jobs[j].accept[n] : n \in T} : acc.plan[c] = NoBids[c]
  /\ BidsServed(j, acc.plan, acc.allowance = 0)

\* What a class visited is asked for.
AskedFor(acc, c, one) ==
  [left |-> one.left, allowance |-> one.allowance,
   plan |-> [acc.plan EXCEPT ![c] = [wanted |-> acc.left, fills |-> one.fills]]]
Visits(j, acc, c) ==
  IF acc.left = 0 THEN acc
  ELSE AskedFor(acc, c, MatchBid(j, acc.left, OpenAsks(c), acc.allowance))

\* The matches of a plan, summed by class.
LEMMA PlanSpentIs ==
  ASSUME NEW plan \in [Class -> Bids]
  PROVE  /\ PlanSpent(plan) \in Nat
         /\ \A c \in Class : SpentBy([d \in Class |-> plan[d].fills])[c] \in Nat
         /\ \A c \in Class : SpentBy([d \in Class |-> plan[d].fills])[c] = SumOver(plan[c].fills, Unproven)
<1>1. \A c \in Class : SpentBy([d \in Class |-> plan[d].fills])[c] = SumOver(plan[c].fills, Unproven)
      BY DEF SpentBy
<1>2. \A c \in Class : plan[c].fills \in [Offer -> Nat]
      BY DEF Bids
<1>3. \A c \in Class : SpentBy([d \in Class |-> plan[d].fills])[c] \in Nat
      BY <1>1, <1>2, FillsSum
<1>4. PlanSpent(plan) \in Nat
      BY <1>3, ClassFinite, TotalBounds DEF PlanSpent
<1> QED BY <1>1, <1>3, <1>4

\* Where every plan begins.
PlanBase(j) ==
  [left |-> Jobs[j].tasks, plan |-> NoBids, allowance |-> UnprovenTaskBudget(Jobs[j].tasks)]
LEMMA PlanBegins == ASSUME NEW j \in Job PROVE Planned(j, {}, PlanBase(j))
<1>1. Jobs[j].tasks \in Nat /\ UnprovenTaskBudget(Jobs[j].tasks) \in Nat
      BY MatchAssumption, BudgetIs
<1>2. \A c \in Class : NoBids[c] = [wanted |-> 0, fills |-> NoFills]
      BY DEF NoBids
<1>3. NoBids \in [Class -> Bids]
      BY NoneSum DEF NoBids, Bids
<1>4. PlanSpent(NoBids) = 0
  <2>1. \A c \in Class : SpentBy([d \in Class |-> NoBids[d].fills])[c] = 0
        BY <1>2, <1>3, PlanSpentIs, NoneSum
  <2> QED BY <2>1, ClassFinite, TotalZero DEF PlanSpent
<1>5. \A i \in Offer : NoFills[i] <= Offers[i].tasks /\ ~(NoFills[i] > 0)
      BY OfferAssumption DEF NoFills
<1>6. BidsSound(j, NoBids)
      BY <1>1, <1>2, <1>3, <1>5, NoneSum DEF BidsSound
<1>7. BidsServed(j, NoBids, UnprovenTaskBudget(Jobs[j].tasks) = 0)
  <2>1. \A c \in Class : ~(SumOver(NoBids[c].fills, Offer) < NoBids[c].wanted)
        BY <1>2, NoneSum
  <2> QED BY <2>1, <1>2, <1>5 DEF BidsServed
<1> QED BY <1>1, <1>3, <1>4, <1>6, <1>7 DEF Planned, PlanBase, Plannings

\* One class further.
LEMMA PlanStep ==
  ASSUME NEW j \in Job, NEW T \in SUBSET DOMAIN Jobs[j].accept, NEW acc, Planned(j, T, acc),
         NEW n \in DOMAIN Jobs[j].accept, n \notin T
  PROVE  Planned(j, T \cup {n}, Visits(j, acc, Jobs[j].accept[n]))
<1> DEFINE c == Jobs[j].accept[n]
           one == MatchBid(j, acc.left, OpenAsks(c), acc.allowance)
           bid == [wanted |-> acc.left, fills |-> one.fills]
           plan == [acc.plan EXCEPT ![c] = bid]
           r == AskedFor(acc, c, one)
           budget == UnprovenTaskBudget(Jobs[j].tasks)
<1>1. /\ c \in Class /\ \A m \in T : Jobs[j].accept[m] \in Class /\ Jobs[j].accept[m] # c
  <2>1. \A m \in DOMAIN Jobs[j].accept : Jobs[j].accept[m] \in Class
        BY MatchAssumption
  <2>2. \A m \in DOMAIN Jobs[j].accept : Jobs[j].accept[m] = c => m = n
        BY MatchAssumption DEF IsInjective
  <2> QED BY <2>1, <2>2
<1>2. acc \in Plannings /\ BidsSound(j, acc.plan) /\ acc.left \in Nat /\ acc.allowance \in Nat
      /\ acc.plan \in [Class -> Bids] /\ acc.left <= Jobs[j].tasks
      BY DEF Planned, Plannings
<1>3. CASE acc.left = 0
  <2>1. Visits(j, acc, c) = acc
        BY <1>3 DEF Visits
  <2> HIDE DEF c
  <2>2. Class \ {Jobs[j].accept[m] : m \in T \cup {n}} \subseteq Class \ {Jobs[j].accept[m] : m \in T}
        OBVIOUS
  <2> QED BY <2>1, <2>2 DEF Planned, c
<1>4. CASE acc.left # 0
  <2>1. Visits(j, acc, c) = r
        BY <1>4 DEF Visits
  <2>2. OpenAsks(c) \in SUBSET Offer
        BY DEF OpenAsks
  <2>3. Matched(j, acc.left, OpenAsks(c), acc.allowance, one)
    <3> HIDE DEF c
    <3> QED BY <1>2, <2>2, MatchBidIs
  <2>4. acc.plan[c] = NoBids[c] /\ acc.plan[c].fills = NoFills
    <3>1. c \in Class \ {Jobs[j].accept[m] : m \in T}
          BY <1>1
    <3> HIDE DEF c
    <3> QED BY <3>1 DEF Planned, NoBids
  <2> HIDE DEF one, c
  <2>5. /\ one \in Walks /\ one.left \in Nat /\ one.fills \in [Offer -> Nat] /\ one.allowance \in Nat
        /\ one.left + SumOver(one.fills, Offer) = acc.left
        /\ one.allowance + SumOver(one.fills, Unproven) = acc.allowance
        /\ SumOver(one.fills, Offer) \in Nat /\ SumOver(one.fills, Unproven) \in Nat
    <3>1. one \in Walks
          BY <2>3 DEF Matched
    <3>2. one.left \in Nat /\ one.fills \in [Offer -> Nat] /\ one.allowance \in Nat
          BY <3>1 DEF Walks
    <3> QED BY <3>1, <3>2, <2>3, FillsSum DEF Matched
  <2>6. bid \in Bids /\ bid.wanted = acc.left /\ bid.fills = one.fills
        BY <1>2, <2>5 DEF Bids
  <2> HIDE DEF bid
  <2>7. plan \in [Class -> Bids] /\ plan[c] = bid /\ \A d \in Class : d # c => plan[d] = acc.plan[d]
        BY <1>1, <1>2, <2>6
  <2>8. r.left = one.left /\ r.plan = plan /\ r.allowance = one.allowance
        /\ r = [left |-> r.left, plan |-> r.plan, allowance |-> r.allowance]
        BY DEF AskedFor, bid
  <2> HIDE DEF plan, r
  <2>9. r \in Plannings /\ r.left <= Jobs[j].tasks
    <3>1. r.left <= acc.left /\ Jobs[j].tasks \in Nat
          BY <2>5, <2>8, <1>2, MatchAssumption
    <3>2. r.left <= Jobs[j].tasks
          BY <3>1, <1>2, <2>5, <2>8
    <3> QED BY <3>2, <2>5, <2>7, <2>8 DEF Plannings
  <2>10. BidsSound(j, plan)
    <3>1. ASSUME NEW d \in Class
          PROVE  /\ SumOver(plan[d].fills, Offer) <= plan[d].wanted /\ plan[d].wanted <= Jobs[j].tasks
                 /\ \A i \in Offer : /\ plan[d].fills[i] <= Offers[i].tasks
                                     /\ plan[d].fills[i] > 0 => i \in Suits[j][d]
      <4>1. CASE d = c
        <5>1. SumOver(one.fills, Offer) <= acc.left
              BY <2>5, <1>2
        <5>2. ASSUME NEW i \in Offer
              PROVE  one.fills[i] <= Offers[i].tasks /\ (one.fills[i] > 0 => i \in Suits[j][c])
          <6>1. one.fills[i] > 0 => i \in OpenAsks(c) /\ Affordable(j, Offers[i]) /\ ~Offers[i].workspace
                BY <2>3 DEF Matched
          <6>2. one.fills[i] > 0 => i \in Suits[j][c]
                BY <6>1, <1>1, SuitsAre DEF OpenAsks
          <6> QED BY <6>2, <2>3 DEF Matched
        <5> QED BY <4>1, <5>1, <5>2, <2>6, <2>7, <1>2
      <4>2. CASE d # c
            BY <4>2, <2>7, <1>2 DEF BidsSound
      <4> QED BY <4>1, <4>2
    <3> QED BY <3>1, <2>7 DEF BidsSound
  <2>11. PlanSpent(plan) = PlanSpent(acc.plan) + SumOver(one.fills, Unproven)
    <3> DEFINE f == SpentBy([d \in Class |-> acc.plan[d].fills])
               g == SpentBy([d \in Class |-> plan[d].fills])
    <3>1. /\ \A d \in Class : f[d] \in Nat /\ f[d] = SumOver(acc.plan[d].fills, Unproven)
          /\ \A d \in Class : g[d] \in Nat /\ g[d] = SumOver(plan[d].fills, Unproven)
          /\ PlanSpent(acc.plan) \in Nat
          BY <1>2, <2>7, PlanSpentIs
    <3> HIDE DEF f, g
    <3>2. /\ \A d \in Class : f[d] \in Int
          /\ \A d \in Class : d # c => g[d] = f[d]
          /\ g[c] \in Int
          BY <3>1, <2>7, <1>1
    <3>3. SumOver(g, Class) = SumOver(f, Class) + g[c] - f[c]
          BY <3>2, <1>1, ClassFinite, TotalUpdate
    <3>4. f[c] = 0 /\ g[c] = SumOver(one.fills, Unproven)
          BY <3>1, <2>4, <2>6, <2>7, <1>1, NoneSum
    <3> QED BY <3>1, <3>3, <3>4, <2>5 DEF PlanSpent, f, g
  <2>12. r.allowance + PlanSpent(plan) = budget
    <3>1. acc.allowance + PlanSpent(acc.plan) = budget
          BY DEF Planned
    <3>2. PlanSpent(acc.plan) \in Nat
          BY <1>2, PlanSpentIs
    <3> HIDE DEF budget
    <3> QED BY <3>1, <3>2, <2>5, <2>8, <2>11
  <2>13. ASSUME NEW d \in Class \ {Jobs[j].accept[m] : m \in T \cup {n}} PROVE plan[d] = NoBids[d]
    <3>1. d # c /\ d \in Class \ {Jobs[j].accept[m] : m \in T}
          BY DEF c
    <3> QED BY <3>1, <2>7 DEF Planned
  <2>14. BidsServed(j, plan, r.allowance = 0)
    <3>0. ASSUME NEW d \in Class, NEW i \in Offer, plan[d].fills[i] > 0
          PROVE  i \in OpenAsks(d)
      <4>1. CASE d = c
            BY <3>0, <4>1, <2>3, <2>6, <2>7 DEF Matched
      <4>2. CASE d # c
        <5>1. acc.plan[d].fills[i] > 0
              BY <3>0, <4>2, <2>7
        <5> QED BY <5>1 DEF Planned, BidsServed
      <4> QED BY <4>1, <4>2
    <3> SUFFICES ASSUME NEW d \in Class, SumOver(plan[d].fills, Offer) < plan[d].wanted,
                        NEW i \in OpenAsks(d), Can(j, i)
                 PROVE  plan[d].fills[i] > 0 \/ (Newcomer(Offers[i]) /\ r.allowance = 0)
        BY <3>0 DEF BidsServed
    <3>1. CASE d = c
      <4>1. one.left # 0
            BY <3>1, <2>5, <2>6, <2>7, <1>2
      <4>2. Affordable(j, Offers[i]) /\ ~Offers[i].workspace /\ Offers[i].tasks # 0
            BY DEF Can
      <4>3. one.fills[i] > 0 \/ (Newcomer(Offers[i]) /\ one.allowance = 0)
            BY <3>1, <4>1, <4>2, <2>3 DEF Matched
      <4> QED BY <4>3, <3>1, <2>6, <2>7, <2>8
    <3>2. CASE d # c
      <4>1. acc.plan[d].fills[i] > 0 \/ (Newcomer(Offers[i]) /\ acc.allowance = 0)
            BY <3>2, <2>7 DEF Planned, BidsServed
      <4>2. acc.allowance = 0 => r.allowance = 0
            BY <2>5, <2>8
      <4> QED BY <4>1, <4>2, <3>2, <2>7
    <3> QED BY <3>1, <3>2
  <2>15. Planned(j, T \cup {n}, r)
        BY <2>8, <2>9, <2>10, <2>12, <2>13, <2>14 DEF Planned
  <2> QED BY <2>1, <2>15 DEF c
<1> QED BY <1>3, <1>4

-----------------------------------------------------------------------------
(* The plan. *)

\* The classes of a job are finitely many, in order.
LEMMA AcceptIs ==
  ASSUME NEW j \in Job, NEW T \in SUBSET DOMAIN Jobs[j].accept
  PROVE  IsFiniteSet(T) /\ (T # {} => Max(T) \in T)
<1>1. PICK n \in Nat : DOMAIN Jobs[j].accept = 1..n
  <2>1. Jobs[j].accept \in Seq(Class)
        BY MatchAssumption
  <2>2. DOMAIN Jobs[j].accept = 1..Len(Jobs[j].accept) /\ Len(Jobs[j].accept) \in Nat
        BY <2>1
  <2> QED BY <2>2
<1>2. IsFiniteSet(1..n)
      BY FS_Interval
<1>3. IsFiniteSet(T)
      BY <1>1, <1>2, FS_Subset
<1>4. T \subseteq Int
      BY <1>1
<1> QED BY <1>3, <1>4, MaxIs

\* A fold that begins and goes on as a plan does, where it has been one so far, is one
\* all along.
LEMMA PlanAlong ==
  ASSUME NEW j \in Job, NEW k, k[{}] = PlanBase(j),
         \A T \in SUBSET DOMAIN Jobs[j].accept : T # {} /\ k[T \ {Max(T)}] \in Plannings =>
           k[T] = Visits(j, k[T \ {Max(T)}], Jobs[j].accept[Max(T)])
  PROVE  \A T \in SUBSET DOMAIN Jobs[j].accept : Planned(j, T, k[T])
<1> DEFINE S == DOMAIN Jobs[j].accept
           B == {T \in SUBSET S : ~Planned(j, T, k[T])}
<1> SUFFICES ASSUME B # {} PROVE FALSE
    OBVIOUS
<1>0. B \in SUBSET (SUBSET S)
      OBVIOUS
<1>1. IsFiniteSet(S)
      BY AcceptIs
<1>2. PICK T \in B : \A U \in SUBSET T : U # T => U \notin B
  <2> HIDE DEF B
  <2> QED BY <1>0, <1>1, SmallestSet
<1>3. CASE T = {}
      BY <1>3, PlanBegins
<1>4. CASE T # {}
  <2> DEFINE n == Max(T)
             U == T \ {n}
  <2>1. T \in SUBSET S /\ n \in T /\ n \in S
        BY <1>4, AcceptIs
  <2>2. U \in SUBSET T /\ U # T /\ U \in SUBSET S /\ n \notin U
        BY <2>1
  <2>3. Planned(j, U, k[U])
        BY <1>2, <2>2
  <2>4. k[U] \in Plannings
        BY <2>3 DEF Planned
  <2>5. k[T] = Visits(j, k[U], Jobs[j].accept[n])
        BY <1>4, <2>1, <2>4
  <2>6. U \cup {n} = T
        BY <2>1
  <2> HIDE DEF n, U
  <2>7. Planned(j, T, k[T])
        BY <2>1, <2>2, <2>3, <2>5, <2>6, PlanStep
  <2> QED BY <2>7
<1> QED BY <1>3, <1>4

\* What plan_pool_routing gives: bids within the job, matches within them and the offers,
\* newcomers within one allowance; and what open asks there are for what is not filled.
LEMMA PlanIs ==
  ASSUME NEW j \in Job
  PROVE  /\ BidsSound(j, PlanPoolRouting(j))
         /\ PlanSpent(PlanPoolRouting(j)) <= UnprovenTaskBudget(Jobs[j].tasks)
         /\ BidsServed(j, PlanPoolRouting(j),
                       PlanSpent(PlanPoolRouting(j)) >= UnprovenTaskBudget(Jobs[j].tasks))
<1> DEFINE S == DOMAIN Jobs[j].accept
           base == PlanBase(j)
           W(k) == k = [T \in SUBSET S |->
                          IF T = {} THEN base
                          ELSE Visits(j, k[T \ {Max(T)}], Jobs[j].accept[Max(T)])]
<1>1. PlanPoolRouting(j) = (CHOOSE k : W(k))[S].plan
      BY DEF PlanPoolRouting, FoldLeft, MapThenFoldSet, Visits, AskedFor, PlanBase
<1>2. IsFiniteSet(S) /\ \A T \in SUBSET S : T # {} => Max(T) \in T
      BY AcceptIs
<1> DEFINE pick == [T \in SUBSET S |-> Max(T)]
           step == [p \in S \X Plannings |-> Visits(j, p[2], Jobs[j].accept[p[1]])]
<1>5. \A T \in SUBSET S : T # {} => pick[T] \in T /\ pick[T] = Max(T)
      BY <1>2
<1>6. \A n \in S, acc \in Plannings : step[<<n, acc>>] = Visits(j, acc, Jobs[j].accept[n])
      OBVIOUS
<1> HIDE DEF pick, step, base
<1>7. \E k : W(k)
  <2>1. PICK h : FoldsTo(pick, step, base, S, h)
    <3> HIDE DEF S
    <3> QED BY <1>2, <1>5, FoldExists
  <2>2. h[{}] = PlanBase(j)
        BY <2>1, FoldEmpty DEF base
  <2>3. ASSUME NEW T \in SUBSET S, T # {}, h[T \ {Max(T)}] \in Plannings
        PROVE  h[T] = Visits(j, h[T \ {Max(T)}], Jobs[j].accept[Max(T)])
    <3>1. h[T] = step[<<pick[T], h[T \ {pick[T]}]>>]
      <4>1. T \in SUBSET S /\ T # {}
            BY <2>3
      <4> HIDE DEF S
      <4> QED BY <2>1, <4>1, FoldAt
    <3>2. pick[T] \in S /\ pick[T] = Max(T)
          BY <1>5, <2>3
    <3> QED BY <3>1, <3>2, <2>3, <1>6
  <2>4. \A T \in SUBSET S : Planned(j, T, h[T])
        BY <2>2, <2>3, PlanAlong
  <2>5. ASSUME NEW T \in SUBSET S, T # {}
        PROVE  h[T] = Visits(j, h[T \ {Max(T)}], Jobs[j].accept[Max(T)])
    <3>1. h[T \ {Max(T)}] \in Plannings
          BY <2>4 DEF Planned
    <3> QED BY <2>3, <2>5, <3>1
  <2>6. h = [T \in SUBSET S |-> h[T]]
        BY <2>1 DEF FoldsTo
  <2>7. \A T \in SUBSET S : h[T] = IF T = {} THEN base
                                   ELSE Visits(j, h[T \ {Max(T)}], Jobs[j].accept[Max(T)])
        BY <2>2, <2>5 DEF base
  <2>8. W(h)
    <3> HIDE DEF S
    <3> QED BY <2>6, <2>7
  <2> QED BY <2>8
<1> DEFINE k == CHOOSE k : W(k)
<1>8. W(k)
      BY <1>7
<1> HIDE DEF k
<1>9. k[{}] = PlanBase(j)
      BY <1>8 DEF base
<1>10. \A T \in SUBSET S : T # {} => k[T] = Visits(j, k[T \ {Max(T)}], Jobs[j].accept[Max(T)])
      BY <1>8
<1>11. Planned(j, S, k[S])
  <2> HIDE DEF W
  <2> QED BY <1>9, <1>10, PlanAlong
<1> DEFINE acc == k[S]
           budget == UnprovenTaskBudget(Jobs[j].tasks)
<1>12. PlanPoolRouting(j) = acc.plan
      BY <1>1 DEF k
<1>13. /\ acc.allowance \in Nat /\ acc.plan \in [Class -> Bids]
       /\ acc.allowance + PlanSpent(acc.plan) = budget
       /\ BidsSound(j, acc.plan) /\ BidsServed(j, acc.plan, acc.allowance = 0)
      BY <1>11 DEF Planned, Plannings
<1>14. PlanSpent(acc.plan) \in Nat
      BY <1>13, PlanSpentIs
<1> HIDE DEF acc, budget
<1>15. PlanSpent(acc.plan) <= budget /\ (acc.allowance = 0 => PlanSpent(acc.plan) >= budget)
      BY <1>13, <1>14
<1>16. BidsServed(j, acc.plan, PlanSpent(acc.plan) >= budget)
      BY <1>13, <1>15 DEF BidsServed
<1> QED BY <1>12, <1>13, <1>15, <1>16 DEF budget

-----------------------------------------------------------------------------
(* A refill's plan. *)

\* What newcomers have of a job's matches, and what it allows them: of the most wanted in
\* one class.
BidsSpent(bids) == SumOver(SpentBy(bids), Class)
JobBudget(j) == UnprovenTaskBudget(Max({wanted[j][d] : d \in Class}))

\* The budget of a job with a bid.
LEMMA JobBudgetIs ==
  ASSUME wanted \in [Job -> [Class -> Nat]], NEW j \in Job, NEW c \in Class
  PROVE  /\ JobBudget(j) \in Nat
         /\ \A n \in Nat : (\A d \in Class : wanted[j][d] <= n)
                             => JobBudget(j) <= UnprovenTaskBudget(n)
<1> DEFINE f == wanted[j]
           S == {f[d] : d \in Class}
<1>1. f \in [Class -> Nat] /\ S \subseteq Nat /\ S # {}
      OBVIOUS
<1> HIDE DEF f
<1>2. IsFiniteSet(S)
      BY ClassFinite, ImageFinite
<1> HIDE DEF S
<1>3. S \subseteq Int
      BY <1>1
<1>4. Max(S) \in S /\ Max(S) \in Nat
      BY <1>1, <1>2, <1>3, MaxIs
<1>5. JobBudget(j) = UnprovenTaskBudget(Max(S))
      BY DEF JobBudget, S, f
<1>6. ASSUME NEW n \in Nat, \A d \in Class : wanted[j][d] <= n
      PROVE  JobBudget(j) <= UnprovenTaskBudget(n)
  <2>1. Max(S) <= n
        BY <1>4, <1>6 DEF S, f
  <2> QED BY <2>1, <1>4, <1>5, BudgetGrows
<1> QED BY <1>4, <1>5, <1>6, BudgetIs

\* What newcomers have is a number, and grows with the matches.
LEMMA BidsSpentIs ==
  ASSUME NEW bids \in [Class -> [Offer -> Nat]]
  PROVE  /\ BidsSpent(bids) \in Nat
         /\ \A c \in Class : SpentBy(bids)[c] = SumOver(bids[c], Unproven)
         /\ \A c \in Class : SpentBy(bids)[c] \in Nat
<1>1. \A c \in Class : SpentBy(bids)[c] = SumOver(bids[c], Unproven)
      BY DEF SpentBy
<1>2. \A c \in Class : SpentBy(bids)[c] \in Nat
      BY <1>1, FillsSum
<1> QED BY <1>1, <1>2, ClassFinite, TotalBounds DEF BidsSpent

\* A refill's plan for a bid fits into what is left of it, of the offers and of the job's
\* allowance, goes to listings that have nothing of the bid yet, and leaves none out that the
\* bid could use.
RefillSound(j, c, bids, asks, r) ==
  /\ r \in [Offer -> Nat]
  /\ SumOver(bids[c], Offer) + SumOver(r, Offer) <= wanted[j][c]
  /\ SumOver(r, Unproven) = 0 \/ BidsSpent(bids) + SumOver(r, Unproven) <= JobBudget(j)
  /\ \A i \in Offer : /\ r[i] <= Offers[i].tasks
                      /\ r[i] > 0 => i \in asks /\ i \notin Held(bids[c]) /\ Can(j, i)
  /\ \A i \in asks : Can(j, i) =>
       \/ i \in Held(bids[c]) \/ r[i] > 0
       \/ SumOver(bids[c], Offer) + SumOver(r, Offer) >= wanted[j][c]
       \/ Newcomer(Offers[i]) /\ BidsSpent(bids) + SumOver(r, Unproven) >= JobBudget(j)

LEMMA RefillIs ==
  ASSUME NEW j \in Job, NEW c \in Class, NEW bids \in [Class -> [Offer -> Nat]],
         NEW asks \in SUBSET Offer, wanted \in [Job -> [Class -> Nat]],
         SumOver(bids[c], Offer) <= wanted[j][c]
  PROVE  RefillSound(j, c, bids, asks, RefillPlan(j, c, bids, asks))
<1> DEFINE spent == BidsSpent(bids)
           budget == JobBudget(j)
           had == SumOver(bids[c], Offer)
           want == wanted[j][c] - had
           allowance == IF spent < budget THEN budget - spent ELSE 0
           fresh == asks \ Held(bids[c])
           m == MatchBid(j, want, fresh, allowance)
           r == m.fills
<1>1. SumFunction(bids[c]) = had
  <2>1. DOMAIN bids[c] = Offer
        OBVIOUS
  <2> QED BY <2>1, SumFunctionIsTotal DEF SumFunction
<1>2. RefillPlan(j, c, bids, asks) = r
      BY <1>1, SpentIs DEF RefillPlan, BidsSpent, JobBudget
<1>3. spent \in Nat /\ budget \in Nat /\ had \in Nat /\ want \in Nat /\ wanted[j][c] \in Nat
      /\ wanted[j][c] = had + want
      BY BidsSpentIs, JobBudgetIs, FillsSum
<1>4. fresh \in SUBSET Offer
      OBVIOUS
<1>5. allowance \in Nat
      BY <1>3
<1>6. Matched(j, want, fresh, allowance, m)
  <2> HIDE DEF want, fresh, allowance
  <2> QED BY <1>3, <1>4, <1>5, MatchBidIs
<1> HIDE DEF m
<1>7. /\ m.left \in Nat /\ r \in [Offer -> Nat] /\ m.allowance \in Nat
      /\ m.left + SumOver(r, Offer) = want
      /\ m.allowance + SumOver(r, Unproven) = allowance
      /\ \A i \in Offer : /\ r[i] <= Offers[i].tasks
                          /\ r[i] > 0 => i \in fresh /\ Affordable(j, Offers[i])
                                         /\ ~Offers[i].workspace
      /\ \A i \in fresh : Can(j, i) =>
           r[i] > 0 \/ m.left = 0 \/ (Newcomer(Offers[i]) /\ m.allowance = 0)
      BY <1>6 DEF Matched, Walks, Can
<1>8. SumOver(r, Offer) \in Nat /\ SumOver(r, Unproven) \in Nat
      BY <1>7, FillsSum
<1> HIDE DEF r, spent, budget, had
<1>9. had + SumOver(r, Offer) <= wanted[j][c]
      BY <1>3, <1>7, <1>8
<1>10. SumOver(r, Unproven) = 0 \/ spent + SumOver(r, Unproven) <= budget
      BY <1>3, <1>7, <1>8
<1>11. ASSUME NEW i \in Offer
       PROVE  /\ r[i] <= Offers[i].tasks
              /\ r[i] > 0 => i \in asks /\ i \notin Held(bids[c]) /\ Can(j, i)
  <2>1. r[i] <= Offers[i].tasks
        BY <1>7
  <2>2. ASSUME r[i] > 0 PROVE i \in asks /\ i \notin Held(bids[c]) /\ Can(j, i)
    <3>1. i \in fresh /\ Affordable(j, Offers[i]) /\ ~Offers[i].workspace
          BY <1>7, <2>2
    <3>2. Offers[i].tasks # 0
          BY <1>7, <2>1, <2>2, OfferAssumption
    <3> QED BY <3>1, <3>2 DEF Can
  <2> QED BY <2>1, <2>2
<1>12. ASSUME NEW i \in asks, Can(j, i)
       PROVE  \/ i \in Held(bids[c]) \/ r[i] > 0 \/ had + SumOver(r, Offer) >= wanted[j][c]
              \/ Newcomer(Offers[i]) /\ spent + SumOver(r, Unproven) >= budget
  <2>1. CASE i \in Held(bids[c])
        BY <2>1
  <2>2. CASE i \in fresh
    <3>1. r[i] > 0 \/ m.left = 0 \/ (Newcomer(Offers[i]) /\ m.allowance = 0)
          BY <1>7, <1>12, <2>2
    <3>2. m.left = 0 => had + SumOver(r, Offer) >= wanted[j][c]
          BY <1>3, <1>7, <1>8
    <3>3. m.allowance = 0 => spent + SumOver(r, Unproven) >= budget
          BY <1>3, <1>7, <1>8
    <3> QED BY <3>1, <3>2, <3>3
  <2> QED BY <2>1, <2>2
<1>13. r \in [Offer -> Nat]
      BY <1>7
<1>14. RefillSound(j, c, bids, asks, r)
      BY <1>9, <1>10, <1>11, <1>12, <1>13 DEF RefillSound, spent, budget, had
<1> QED BY <1>2, <1>14 DEF r

-----------------------------------------------------------------------------
(* The inductive invariant of the market. *)

\* A handler's record.
Routers == [at: {"idle", "planned", "listed", "refilling"}, job: Job \cup {0},
            offer: Offer \cup {0}, seen: SUBSET Offer, plan: [Class -> Bids],
            queue: SUBSET Job, granted: [Job -> [Offer -> Nat]]]
MatchTypes ==
  /\ listing \in [Offer -> {"none", "open", "away", "withdrawn"}]
  /\ wanted \in [Job -> [Class -> Nat]]
  /\ entitled \in [Job -> [Class -> [Offer -> Nat]]]
  /\ router \in [Process -> Routers]
  /\ unannounced \subseteq Offer /\ crossed \subseteq Job

\* A submit has planned for a job without bids; only a refill, of a listing, grants.
InOrder(r) ==
  /\ r.at = "planned" =>
       /\ r.job \in Job /\ \A c \in Class : wanted[r.job][c] = 0
       /\ BidsSound(r.job, r.plan)
       /\ PlanSpent(r.plan) <= UnprovenTaskBudget(Jobs[r.job].tasks)
  /\ r.at # "planned" => r.job = 0
  /\ r.at \in {"listed", "refilling"} => r.offer \in Offer
  /\ r.at # "refilling" => \A j \in Job : r.granted[j] = NoFills
RoutersInOrder == \A p \in Process : InOrder(router[p])
\* No two submits are of one job.
OnePlans ==
  \A p, q \in Process : p # q /\ router[p].job = router[q].job => router[p].job = 0

LEMMA HeldIs ==
  ASSUME NEW f, NEW i \in Offer
  PROVE  /\ f[i] > 0 => i \in Held(f)
         /\ f[i] \in Nat /\ i \notin Held(f) => f[i] = 0
  BY DEF Held, Same

\* What is matched under a bid, and what a refill has granted besides, is within the bid and
\* within the offers; of one bid one refill has granted.
Entitled ==
  \A j \in Job, c \in Class :
    /\ SumOver(entitled[j][c], Offer) <= wanted[j][c] /\ wanted[j][c] <= Jobs[j].tasks
    /\ \A i \in Offer : entitled[j][c][i] <= Offers[i].tasks
Refills(r, c) == r.at = "refilling" /\ Offers[r.offer].class = c
GrantFits(r, j, c) ==
  /\ SumOver(entitled[j][c], Offer) + SumOver(r.granted[j], Offer) <= wanted[j][c]
  /\ \A i \in Offer : entitled[j][c][i] + r.granted[j][i] <= Offers[i].tasks
GrantsFit ==
  \A p \in Process, c \in Class, j \in Job : Refills(router[p], c) => GrantFits(router[p], j, c)
OneGrants ==
  \A p, q \in Process, c \in Class, j \in Job :
    p # q /\ Refills(router[p], c) /\ Refills(router[q], c) =>
      router[p].granted[j] = NoFills \/ router[q].granted[j] = NoFills
\* Where no two classes of a job were refilled at once, one refill has granted for the job,
\* and newcomers are within the job's allowance with what it granted them.
JobSpent(j) == BidsSpent(entitled[j])
Within(r, j) == JobSpent(j) + SumOver(r.granted[j], Unproven) <= UnprovenTaskBudget(Jobs[j].tasks)
AllowanceKept ==
  \A j \in Job \ crossed :
    /\ JobSpent(j) <= UnprovenTaskBudget(Jobs[j].tasks)
    /\ \A p \in Process : Within(router[p], j)
    /\ \A p, q \in Process : p # q =>
         router[p].granted[j] = NoFills \/ router[q].granted[j] = NoFills
MatchInv ==
  /\ MatchTypes /\ RoutersInOrder /\ OnePlans
  /\ Entitled /\ GrantsFit /\ OneGrants /\ AllowanceKept

-----------------------------------------------------------------------------
\* A handler's record, field by field.
LEMMA RouterIs ==
  ASSUME NEW r \in Routers
  PROVE  /\ r.at \in {"idle", "planned", "listed", "refilling"} /\ r.job \in Job \cup {0}
         /\ r.offer \in Offer \cup {0} /\ r.seen \in SUBSET Offer /\ r.plan \in [Class -> Bids]
         /\ r.queue \in SUBSET Job /\ r.granted \in [Job -> [Offer -> Nat]]
         /\ \A j \in Job : r.granted[j] \in [Offer -> Nat]
  BY DEF Routers

LEMMA IdleIs ==
  /\ IdleRouter \in Routers /\ IdleRouter.at = "idle" /\ IdleRouter.job = 0
  /\ \A j \in Job : IdleRouter.granted[j] = NoFills
<1>1. NoBids \in [Class -> Bids]
      BY NoneSum DEF NoBids, Bids
<1>2. [j \in Job |-> NoFills] \in [Job -> [Offer -> Nat]]
      BY NoneSum
<1>3. IdleRouter \in Routers
      BY <1>1, <1>2 DEF IdleRouter, Routers
<1> QED BY <1>3 DEF IdleRouter

\* What is matched and granted are numbers.
LEMMA SumsAre ==
  ASSUME MatchTypes, NEW j \in Job
  PROVE  /\ entitled[j] \in [Class -> [Offer -> Nat]] /\ JobSpent(j) \in Nat
         /\ UnprovenTaskBudget(Jobs[j].tasks) \in Nat /\ Jobs[j].tasks \in Nat
         /\ \A c \in Class : /\ entitled[j][c] \in [Offer -> Nat] /\ wanted[j][c] \in Nat
                             /\ SumOver(entitled[j][c], Offer) \in Nat
                             /\ SumOver(entitled[j][c], Unproven) \in Nat
         /\ \A p \in Process : /\ router[p].granted[j] \in [Offer -> Nat]
                               /\ SumOver(router[p].granted[j], Offer) \in Nat
                               /\ SumOver(router[p].granted[j], Unproven) \in Nat
<1>1. entitled[j] \in [Class -> [Offer -> Nat]]
      BY DEF MatchTypes
<1>2. JobSpent(j) \in Nat
      BY <1>1, BidsSpentIs DEF JobSpent
<1>3. Jobs[j].tasks \in Nat
      BY MatchAssumption
<1>4. \A c \in Class : entitled[j][c] \in [Offer -> Nat] /\ wanted[j][c] \in Nat
      BY DEF MatchTypes
<1>5. ASSUME NEW p \in Process PROVE router[p].granted[j] \in [Offer -> Nat]
  <2>1. router[p] \in Routers
        BY DEF MatchTypes
  <2> QED BY <2>1, RouterIs
<1> QED BY <1>1, <1>2, <1>3, <1>4, <1>5, BudgetIs, FillsSum

\* Grants that sum to nothing are none.
LEMMA NothingGranted ==
  ASSUME NEW f \in [Offer -> Nat], SumOver(f, Offer) <= 0
  PROVE  f = NoFills
<1>1. SumOver(f, Offer) \in Nat /\ \A i \in Offer : f[i] \in Nat /\ f[i] <= SumOver(f, Offer)
      BY OfferAssumption, TotalBounds
<1>2. \A i \in Offer : f[i] = 0
      BY <1>1
<1> QED BY <1>2 DEF NoFills

-----------------------------------------------------------------------------
LEMMA MatchBegins == MatchInit => MatchInv
<1> SUFFICES ASSUME MatchInit PROVE MatchInv
    OBVIOUS
<1> USE DEF MatchInit
<1>1. \A p \in Process : router[p] = IdleRouter
      OBVIOUS
<1>2. \A j \in Job, c \in Class : wanted[j][c] = 0 /\ entitled[j][c] = NoFills
      OBVIOUS
<1>3. MatchTypes
      BY IdleIs, NoneSum DEF MatchTypes
<1>4. RoutersInOrder /\ OnePlans
      BY <1>1, IdleIs DEF RoutersInOrder, OnePlans, InOrder
<1>5. Entitled
  <2>1. \A j \in Job : Jobs[j].tasks \in Nat
        BY MatchAssumption
  <2>2. \A i \in Offer : NoFills[i] = 0 /\ Offers[i].tasks \in Nat
        BY OfferAssumption DEF NoFills
  <2> QED BY <1>2, <2>1, <2>2, NoneSum DEF Entitled
<1>6. GrantsFit /\ OneGrants
      BY <1>1, IdleIs DEF GrantsFit, OneGrants, Refills
<1>7. AllowanceKept
  <2>1. ASSUME NEW j \in Job PROVE JobSpent(j) = 0 /\ UnprovenTaskBudget(Jobs[j].tasks) \in Nat
    <3>1. entitled[j] \in [Class -> [Offer -> Nat]] /\ \A c \in Class : entitled[j][c] = NoFills
          BY NoneSum
    <3>2. \A c \in Class : SpentBy(entitled[j])[c] = 0
          BY <3>1, BidsSpentIs, NoneSum
    <3>3. JobSpent(j) = 0
          BY <3>2, ClassFinite, TotalZero DEF JobSpent, BidsSpent
    <3> QED BY <3>3, MatchAssumption, BudgetIs
  <2> QED BY <2>1, <1>1, IdleIs, NoneSum DEF AllowanceKept, Within
<1> QED BY <1>3, <1>4, <1>5, <1>6, <1>7 DEF MatchInv

\* A handler that ends, or begins without granting.
LEMMA HandlerTurns ==
  ASSUME MatchInv, NEW p \in Process, NEW r \in Routers,
         r.at # "planned", r.job = 0, r.at \in {"listed", "refilling"} => r.offer \in Offer,
         \A j \in Job : r.granted[j] = NoFills,
         router' = [router EXCEPT ![p] = r],
         wanted' = wanted, entitled' = entitled, crossed' = crossed,
         listing' \in [Offer -> {"none", "open", "away", "withdrawn"}], unannounced' \subseteq Offer
  PROVE  MatchInv'
<1>0. MatchTypes
      BY DEF MatchInv
<1>1. router \in [Process -> Routers]
      BY <1>0 DEF MatchTypes
<1>2. router'[p] = r /\ \A q \in Process : q # p => router'[q] = router[q]
      BY <1>1
<1>3. MatchTypes'
      BY <1>0, <1>1 DEF MatchTypes
<1>4. RoutersInOrder'
  <2>1. ASSUME NEW q \in Process PROVE InOrder(router[q])'
    <3>1. CASE q = p
          BY <3>1, <1>2 DEF InOrder
    <3>2. CASE q # p
          BY <3>2, <1>2 DEF InOrder, MatchInv, RoutersInOrder
    <3> QED BY <3>1, <3>2
  <2> QED BY <2>1 DEF RoutersInOrder
<1>5. OnePlans'
      BY <1>2 DEF MatchInv, OnePlans
<1>6. Entitled'
      BY DEF MatchInv, Entitled
<1>7. GrantsFit'
  <2> SUFFICES ASSUME NEW q \in Process, NEW c \in Class, NEW j \in Job, Refills(router'[q], c)
               PROVE  GrantFits(router[q], j, c)'
      BY DEF GrantsFit, Refills
  <2>1. CASE q = p
    <3>1. router'[q].granted[j] = NoFills
          BY <2>1, <1>2
    <3>2. SumOver(entitled[j][c], Offer) <= wanted[j][c]
          /\ \A i \in Offer : entitled[j][c][i] <= Offers[i].tasks
          BY DEF MatchInv, Entitled
    <3>3. \A i \in Offer : NoFills[i] = 0 /\ entitled[j][c][i] \in Nat
          BY <1>0, SumsAre DEF NoFills
    <3> QED BY <3>1, <3>2, <3>3, <1>0, SumsAre, NoneSum DEF GrantFits
  <2>2. CASE q # p
        BY <2>2, <1>2 DEF MatchInv, GrantsFit, GrantFits
  <2> QED BY <2>1, <2>2
<1>8. OneGrants'
      BY <1>2 DEF MatchInv, OneGrants, Refills
<1>9. AllowanceKept'
  <2> SUFFICES ASSUME NEW j \in Job, j \notin crossed
               PROVE  /\ JobSpent(j) <= UnprovenTaskBudget(Jobs[j].tasks)
                      /\ \A q \in Process : Within(router'[q], j)
                      /\ \A q, s \in Process : q # s =>
                           router'[q].granted[j] = NoFills \/ router'[s].granted[j] = NoFills
      BY DEF AllowanceKept, Within, JobSpent
  <2>1. /\ JobSpent(j) <= UnprovenTaskBudget(Jobs[j].tasks)
        /\ \A q \in Process : Within(router[q], j)
        /\ \A q, s \in Process : q # s =>
             router[q].granted[j] = NoFills \/ router[s].granted[j] = NoFills
        BY DEF MatchInv, AllowanceKept
  <2>2. Within(r, j)
        BY <2>1, <1>0, SumsAre, NoneSum DEF Within
  <2> QED BY <2>1, <2>2, <1>2
<1> QED BY <1>3, <1>4, <1>5, <1>6, <1>7, <1>8, <1>9 DEF MatchInv

-----------------------------------------------------------------------------
(* Submits and listings. *)

\* A submit plans: nobody else plans for the job, and its bids are as PlanIs has them.
LEMMA PlanKeeps ==
  ASSUME MatchInv, NEW p \in Process, NEW j \in Job, Plan(p, j)
  PROVE  MatchInv'
<1> DEFINE seen == {i \in Offer : listing[i] = "open"}
           plan == PlanPoolRouting(j)
           r == [IdleRouter EXCEPT !.at = "planned", !.job = j, !.plan = plan, !.seen = seen]
<1>1. /\ router' = [router EXCEPT ![p] = r] /\ listing' = listing /\ wanted' = wanted
      /\ entitled' = entitled /\ unannounced' = unannounced /\ crossed' = crossed
      /\ \A c \in Class : wanted[j][c] = 0
      /\ \A q \in Process : router[q].job # j
      BY DEF Plan
<1>2. /\ BidsSound(j, plan) /\ PlanSpent(plan) <= UnprovenTaskBudget(Jobs[j].tasks)
      BY PlanIs
<1>3. plan \in [Class -> Bids] /\ seen \in SUBSET Offer
      BY <1>2 DEF BidsSound
<1> HIDE DEF plan, seen
<1>4. /\ r \in Routers /\ r.at = "planned" /\ r.job = j /\ r.plan = plan
      /\ \A k \in Job : r.granted[k] = NoFills
      BY <1>3, IdleIs DEF Routers
<1> HIDE DEF r
<1>5. MatchTypes /\ router \in [Process -> Routers]
      BY DEF MatchInv, MatchTypes
<1>6. router'[p] = r /\ \A q \in Process : q # p => router'[q] = router[q]
      BY <1>1, <1>5
<1>7. j \in Nat \ {0}
      BY MatchAssumption
<1>8. MatchTypes'
      BY <1>1, <1>4, <1>5 DEF MatchTypes
<1>9. RoutersInOrder'
  <2>1. ASSUME NEW q \in Process PROVE InOrder(router[q])'
    <3>1. CASE q = p
          BY <3>1, <1>1, <1>2, <1>4, <1>6 DEF InOrder
    <3>2. CASE q # p
          BY <3>2, <1>1, <1>6 DEF InOrder, MatchInv, RoutersInOrder
    <3> QED BY <3>1, <3>2
  <2> QED BY <2>1 DEF RoutersInOrder
<1>10. OnePlans'
      BY <1>1, <1>4, <1>6 DEF MatchInv, OnePlans
<1>11. Entitled'
      BY <1>1 DEF MatchInv, Entitled
<1>12. GrantsFit' /\ OneGrants'
  <2>1. \A q \in Process, c \in Class : Refills(router'[q], c) => router'[q] = router[q]
        BY <1>4, <1>6 DEF Refills
  <2> QED BY <2>1, <1>1 DEF MatchInv, GrantsFit, OneGrants, Refills, GrantFits
<1>13. AllowanceKept'
  <2> SUFFICES ASSUME NEW k \in Job, k \notin crossed
               PROVE  /\ JobSpent(k) <= UnprovenTaskBudget(Jobs[k].tasks)
                      /\ \A q \in Process : Within(router'[q], k)
                      /\ \A q, s \in Process : q # s =>
                           router'[q].granted[k] = NoFills \/ router'[s].granted[k] = NoFills
      BY <1>1 DEF AllowanceKept, Within, JobSpent
  <2>1. /\ JobSpent(k) <= UnprovenTaskBudget(Jobs[k].tasks)
        /\ \A q \in Process : Within(router[q], k)
        /\ \A q, s \in Process : q # s =>
             router[q].granted[k] = NoFills \/ router[s].granted[k] = NoFills
        BY DEF MatchInv, AllowanceKept
  <2>2. Within(r, k)
        BY <2>1, <1>4, <1>5, SumsAre, NoneSum DEF Within
  <2> QED BY <2>1, <2>2, <1>4, <1>6
<1> QED BY <1>8, <1>9, <1>10, <1>11, <1>12, <1>13 DEF MatchInv

\* Under a job without bids nothing is matched, and no refill has granted.
LEMMA NothingWithoutBids ==
  ASSUME MatchInv, NEW j \in Job, \A c \in Class : wanted[j][c] = 0
  PROVE  /\ \A q \in Process : router[q].granted[j] = NoFills
         /\ \A c \in Class : entitled[j][c] = NoFills
<1>1. MatchTypes
      BY DEF MatchInv
<1>2. ASSUME NEW q \in Process PROVE router[q].granted[j] = NoFills
  <2>1. CASE router[q].at # "refilling"
        BY <2>1 DEF MatchInv, RoutersInOrder, InOrder
  <2>2. CASE router[q].at = "refilling"
    <3>1. router[q].offer \in Offer
          BY <2>2 DEF MatchInv, RoutersInOrder, InOrder
    <3> DEFINE c == Offers[router[q].offer].class
    <3>2. c \in Class /\ Refills(router[q], c)
          BY <2>2, <3>1 DEF Class, Refills
    <3> HIDE DEF c
    <3>3. GrantFits(router[q], j, c)
          BY <3>2 DEF MatchInv, GrantsFit
    <3>4. SumOver(router[q].granted[j], Offer) <= 0
          BY <3>2, <3>3, <1>1, SumsAre DEF GrantFits
    <3> QED BY <3>4, <1>1, SumsAre, NothingGranted
  <2> QED BY <2>1, <2>2
<1>3. ASSUME NEW c \in Class PROVE entitled[j][c] = NoFills
  <2>1. SumOver(entitled[j][c], Offer) <= 0
        BY DEF MatchInv, Entitled
  <2> QED BY <2>1, <1>1, SumsAre, NothingGranted
<1> QED BY <1>2, <1>3

\* The bids are posted as planned: no refill has granted under them yet.
LEMMA PostKeeps ==
  ASSUME MatchInv, NEW p \in Process, PostBids(p)
  PROVE  MatchInv'
<1> DEFINE j == router[p].job
           plan == router[p].plan
           bids == [c \in Class |-> plan[c].fills]
           wants == [c \in Class |-> plan[c].wanted]
<1>1. /\ router[p].at = "planned" /\ router' = [router EXCEPT ![p] = IdleRouter]
      /\ wanted' = [wanted EXCEPT ![j] = wants] /\ entitled' = [entitled EXCEPT ![j] = bids]
      /\ listing' = listing /\ crossed' = crossed
      /\ unannounced' = unannounced \cup ({i \in Offer : listing[i] = "open"} \ router[p].seen)
      BY DEF PostBids
<1>2. MatchTypes /\ router \in [Process -> Routers]
      BY DEF MatchInv, MatchTypes
<1>3. /\ j \in Job /\ \A c \in Class : wanted[j][c] = 0
      /\ BidsSound(j, plan) /\ PlanSpent(plan) <= UnprovenTaskBudget(Jobs[j].tasks)
      BY <1>1 DEF MatchInv, RoutersInOrder, InOrder
<1>4. /\ bids \in [Class -> [Offer -> Nat]] /\ wants \in [Class -> Nat]
      /\ \A c \in Class : bids[c] = plan[c].fills /\ wants[c] = plan[c].wanted
      /\ plan \in [Class -> Bids]
  <2>1. plan \in [Class -> Bids]
        BY <1>3 DEF BidsSound
  <2>2. \A c \in Class : plan[c].fills \in [Offer -> Nat] /\ plan[c].wanted \in Nat
        BY <2>1 DEF Bids
  <2> QED BY <2>1, <2>2
<1>5. /\ \A c \in Class : /\ SumOver(bids[c], Offer) <= wants[c] /\ wants[c] <= Jobs[j].tasks
                          /\ \A i \in Offer : bids[c][i] <= Offers[i].tasks
      /\ BidsSpent(bids) <= UnprovenTaskBudget(Jobs[j].tasks)
      BY <1>3, <1>4 DEF BidsSound, PlanSpent, BidsSpent
<1> HIDE DEF bids, wants, plan
<1>6. /\ router'[p] = IdleRouter /\ \A q \in Process : q # p => router'[q] = router[q]
      BY <1>1, <1>2
<1>7. /\ wanted'[j] = wants /\ entitled'[j] = bids
      /\ \A k \in Job : k # j => wanted'[k] = wanted[k] /\ entitled'[k] = entitled[k]
      BY <1>1, <1>2, <1>3 DEF MatchTypes
<1>8. \A q \in Process : q # p => router[q].job # j
  <2>1. j # 0
        BY <1>3, MatchAssumption
  <2> QED BY <2>1 DEF MatchInv, OnePlans
<1> HIDE DEF j
<1>9. MatchTypes'
      BY <1>1, <1>2, <1>3, <1>4, IdleIs DEF MatchTypes
<1>10. RoutersInOrder'
  <2>1. ASSUME NEW q \in Process PROVE InOrder(router[q])'
    <3>1. CASE q = p
          BY <3>1, <1>6, IdleIs DEF InOrder
    <3>2. CASE q # p
      <4>1. InOrder(router[q])
            BY DEF MatchInv, RoutersInOrder
      <4>2. router'[q] = router[q] /\ router[q].job # j
            BY <3>2, <1>6, <1>8
      <4> QED BY <4>1, <4>2, <1>7 DEF InOrder
    <3> QED BY <3>1, <3>2
  <2> QED BY <2>1 DEF RoutersInOrder
<1>11. OnePlans'
      BY <1>6, IdleIs DEF MatchInv, OnePlans
<1>12. Entitled'
      BY <1>5, <1>7 DEF MatchInv, Entitled
<1>13. \A q \in Process : router[q].granted[j] = NoFills
      BY <1>3, NothingWithoutBids
<1>14. \A q \in Process : router'[q].granted[j] = NoFills
      BY <1>3, <1>6, <1>13, IdleIs
<1>15. \A q \in Process, c \in Class : Refills(router'[q], c) => router'[q] = router[q]
      BY <1>6, IdleIs DEF Refills
<1>16. GrantsFit'
  <2> SUFFICES ASSUME NEW q \in Process, NEW c \in Class, NEW k \in Job, Refills(router'[q], c)
               PROVE  GrantFits(router[q], k, c)'
      BY DEF GrantsFit, Refills
  <2>1. router'[q] = router[q]
        BY <1>15
  <2>2. CASE k = j
    <3>1. \A i \in Offer : NoFills[i] = 0 /\ bids[c][i] \in Nat
          BY <1>4 DEF NoFills
    <3>2. SumOver(bids[c], Offer) \in Nat
          BY <1>4, FillsSum
    <3> QED BY <2>2, <3>1, <3>2, <1>5, <1>7, <1>14, NoneSum DEF GrantFits
  <2>3. CASE k # j
        BY <2>1, <2>3, <1>7 DEF MatchInv, GrantsFit, GrantFits
  <2> QED BY <2>2, <2>3
<1>17. OneGrants'
      BY <1>15 DEF MatchInv, OneGrants, Refills
<1>18. AllowanceKept'
  <2> SUFFICES ASSUME NEW k \in Job, k \notin crossed
               PROVE  /\ BidsSpent(entitled'[k]) <= UnprovenTaskBudget(Jobs[k].tasks)
                      /\ \A q \in Process : BidsSpent(entitled'[k]) + SumOver(router'[q].granted[k], Unproven)
                                              <= UnprovenTaskBudget(Jobs[k].tasks)
                      /\ \A q, s \in Process : q # s =>
                           router'[q].granted[k] = NoFills \/ router'[s].granted[k] = NoFills
      BY <1>1 DEF AllowanceKept, Within, JobSpent
  <2>1. CASE k = j
    <3>1. BidsSpent(bids) \in Nat
          BY <1>4, BidsSpentIs
    <3> QED BY <2>1, <3>1, <1>5, <1>7, <1>14, NoneSum
  <2>2. CASE k # j
    <3>1. /\ JobSpent(k) <= UnprovenTaskBudget(Jobs[k].tasks) /\ JobSpent(k) \in Nat
          /\ \A q \in Process : Within(router[q], k)
          /\ \A q, s \in Process : q # s =>
               router[q].granted[k] = NoFills \/ router[s].granted[k] = NoFills
          BY <1>2, SumsAre DEF MatchInv, AllowanceKept
    <3>2. BidsSpent(entitled'[k]) = JobSpent(k)
          BY <2>2, <1>7 DEF JobSpent
    <3>3. \A q \in Process : router'[q].granted[k] = NoFills \/ router'[q].granted[k] = router[q].granted[k]
          BY <1>6, IdleIs
    <3>4. SumOver(NoFills, Unproven) = 0
          BY NoneSum
    <3> QED BY <3>1, <3>2, <3>3, <3>4 DEF Within
  <2> QED BY <2>1, <2>2
<1> QED BY <1>9, <1>10, <1>11, <1>12, <1>16, <1>17, <1>18 DEF MatchInv

\* A listing or its host's record changes and no handler does.
LEMMA ListingKeeps ==
  ASSUME MatchInv, NEW i \in Offer,
         \/ WithdrawListing(i) \/ MachineLeaves(i) \/ MachineReturns(i)
         \/ \E k \in Offer : RecordChanges(i, k)
  PROVE  MatchInv'
<1>1. /\ router' = router /\ wanted' = wanted /\ entitled' = entitled /\ crossed' = crossed
      /\ listing' \in [Offer -> {"none", "open", "away", "withdrawn"}] /\ unannounced' \subseteq Offer
      BY DEF WithdrawListing, MachineLeaves, MachineReturns, RecordChanges, MatchInv, MatchTypes
<1> QED BY <1>1 DEF MatchInv, MatchTypes, RoutersInOrder, InOrder, OnePlans, Entitled, GrantsFit,
                    GrantFits, Refills, OneGrants, AllowanceKept, Within, JobSpent

-----------------------------------------------------------------------------
(* A refill comes to a bid. *)

\* What a bid still waits for.
LEMMA WaitsIs ==
  ASSUME MatchTypes, NEW j \in Job, NEW c \in Class
  PROVE  Waits(j, c) <=> wanted[j][c] > SumOver(entitled[j][c], Offer)
<1>1. DOMAIN entitled[j][c] = Offer
      BY DEF MatchTypes
<1>2. SumFunction(entitled[j][c]) = SumOver(entitled[j][c], Offer)
      BY <1>1, SumFunctionIsTotal DEF SumFunction
<1> QED BY <1>2 DEF Waits

\* A refill comes to a bid: nobody else has granted under it, and what it grants now is what
\* RefillPlan has, or nothing for a bid that no longer waits.
RefillStep(p, j, c, g, r) ==
  /\ c \in Class /\ Refills(router[p], c) /\ router[p].offer \in Offer
  /\ \A q \in Process : Refills(router[q], c) => router[q].granted[j] = NoFills
  /\ g \in [Offer -> Nat]
  /\ (~Waits(j, c) /\ g = NoFills) \/ RefillSound(j, c, entitled[j], OpenAsks(c), g)
  /\ r \in Routers /\ r.at = "refilling" /\ r.job = router[p].job /\ r.offer = router[p].offer
  /\ r.queue = router[p].queue \ {j}
  /\ r.granted[j] = g /\ \A k \in Job : k # j => r.granted[k] = router[p].granted[k]
  /\ router' = [router EXCEPT ![p] = r]
  /\ wanted' = wanted /\ entitled' = entitled /\ listing' = listing /\ unannounced' = unannounced
  /\ crossed' = IF \E q \in Process \ {p} : router[q].granted[j] # NoFills
                THEN crossed \cup {j} ELSE crossed
LEMMA RefillSteps ==
  ASSUME MatchInv, NEW p \in Process, NEW j \in Job, RefillBid(p, j)
  PROVE  \E c, g, r : RefillStep(p, j, c, g, r)
<1> DEFINE c == RefillClass(p)
           g == IF Waits(j, c) THEN RefillPlan(j, c, entitled[j], OpenAsks(c))
                ELSE router[p].granted[j]
           r == [router[p] EXCEPT !.queue = @ \ {j}, !.granted = [@ EXCEPT ![j] = g]]
<1>1. /\ router[p].at = "refilling" /\ LockedBy(j, c) = {}
      /\ router' = [router EXCEPT ![p].queue = @ \ {j}, ![p].granted[j] = g]
      /\ wanted' = wanted /\ entitled' = entitled /\ listing' = listing
      /\ unannounced' = unannounced
      /\ crossed' = IF \E q \in Process \ {p} : router[q].granted[j] # NoFills
                    THEN crossed \cup {j} ELSE crossed
      BY DEF RefillBid
<1>2. MatchTypes /\ router \in [Process -> Routers] /\ router[p] \in Routers
      BY DEF MatchInv, MatchTypes
<1>3. router[p].offer \in Offer
      BY <1>1 DEF MatchInv, RoutersInOrder, InOrder
<1>4. c \in Class /\ Refills(router[p], c)
      BY <1>1, <1>3 DEF RefillClass, Class, Refills
<1>5. \A q \in Process : Refills(router[q], c) => router[q].granted[j] = NoFills
  <2> HIDE DEF c
  <2> QED BY <1>1 DEF LockedBy, Refills, RefillClass
<1>6. g \in [Offer -> Nat] /\ ((~Waits(j, c) /\ g = NoFills) \/ RefillSound(j, c, entitled[j], OpenAsks(c), g))
  <2>1. CASE Waits(j, c)
    <3>1. OpenAsks(c) \in SUBSET Offer
          BY DEF OpenAsks
    <3>2. SumOver(entitled[j][c], Offer) <= wanted[j][c]
          BY <1>4 DEF MatchInv, Entitled
    <3>3. wanted \in [Job -> [Class -> Nat]] /\ entitled[j] \in [Class -> [Offer -> Nat]]
          BY <1>2 DEF MatchTypes
    <3>4. g = RefillPlan(j, c, entitled[j], OpenAsks(c))
          BY <2>1
    <3> HIDE DEF c, g
    <3>5. RefillSound(j, c, entitled[j], OpenAsks(c), g)
          BY <1>4, <3>1, <3>2, <3>3, <3>4, RefillIs
    <3> QED BY <3>5 DEF RefillSound
  <2>2. CASE ~Waits(j, c)
    <3>1. g = NoFills
          BY <2>2, <1>4, <1>5
    <3> HIDE DEF g
    <3> QED BY <2>2, <3>1, NoneSum
  <2> QED BY <2>1, <2>2
<1> HIDE DEF g
<1>7. /\ r \in Routers /\ r.at = "refilling" /\ r.job = router[p].job
      /\ r.offer = router[p].offer /\ r.queue = router[p].queue \ {j}
      /\ r.granted[j] = g /\ \A k \in Job : k # j => r.granted[k] = router[p].granted[k]
  <2>1. [router[p].granted EXCEPT ![j] = g] \in [Job -> [Offer -> Nat]]
        BY <1>2, <1>6 DEF Routers
  <2>2. router[p].queue \ {j} \in SUBSET Job
        BY <1>2 DEF Routers
  <2> QED BY <1>1, <1>2, <2>1, <2>2 DEF Routers
<1>8. router' = [router EXCEPT ![p] = r]
      BY <1>1, <1>2
<1> HIDE DEF r, c
<1>9. RefillStep(p, j, c, g, r)
      BY <1>1, <1>3, <1>4, <1>5, <1>6, <1>7, <1>8 DEF RefillStep
<1> QED BY <1>9

LEMMA RefillKeeps ==
  ASSUME MatchInv, NEW p \in Process, NEW j \in Job, RefillBid(p, j)
  PROVE  MatchInv'
<1>1. PICK c, g, r : RefillStep(p, j, c, g, r)
      BY RefillSteps
<1> USE DEF RefillStep
<1>2. MatchTypes /\ router \in [Process -> Routers]
      BY DEF MatchInv, MatchTypes
<1>3. /\ router'[p] = r /\ \A q \in Process : q # p => router'[q] = router[q]
      BY <1>1, <1>2
<1>4. MatchTypes'
      BY <1>1, <1>2 DEF MatchTypes
<1>5. RoutersInOrder'
  <2>1. ASSUME NEW q \in Process PROVE InOrder(router[q])'
    <3>0. InOrder(router[q])
          BY DEF MatchInv, RoutersInOrder
    <3>1. CASE q = p
          BY <3>0, <3>1, <1>1, <1>3 DEF InOrder, Refills
    <3>2. CASE q # p
          BY <3>0, <3>2, <1>1, <1>3 DEF InOrder
    <3> QED BY <3>1, <3>2
  <2> QED BY <2>1 DEF RoutersInOrder
<1>6. OnePlans'
      BY <1>1, <1>3 DEF MatchInv, OnePlans
<1>7. Entitled'
      BY <1>1 DEF MatchInv, Entitled
<1>8. \A q \in Process, d \in Class : Refills(router'[q], d) <=> Refills(router[q], d)
      BY <1>1, <1>3 DEF Refills
\* What it grants fits.
<1>9. GrantsFit'
  <2> SUFFICES ASSUME NEW q \in Process, NEW d \in Class, NEW k \in Job, Refills(router'[q], d)
               PROVE  GrantFits(router[q], k, d)'
      BY DEF GrantsFit, Refills
  <2>0. GrantFits(router[q], k, d)
        BY <1>8 DEF MatchInv, GrantsFit
  <2>1. CASE q = p /\ k = j
    <3>1. d = c
          BY <2>1, <1>1, <1>3 DEF Refills
    <3>2. SumOver(entitled[j][c], Offer) + SumOver(g, Offer) <= wanted[j][c]
          /\ \A i \in Offer : entitled[j][c][i] + g[i] <= Offers[i].tasks
      <4>1. CASE g = NoFills
        <5>1. GrantFits(router[p], j, c) /\ router[p].granted[j] = NoFills
              BY <2>0, <2>1, <3>1, <1>1
        <5> QED BY <4>1, <5>1 DEF GrantFits
      <4>2. CASE RefillSound(j, c, entitled[j], OpenAsks(c), g)
        <5>1. SumOver(entitled[j][c], Offer) + SumOver(g, Offer) <= wanted[j][c]
              BY <4>2 DEF RefillSound
        <5>2. ASSUME NEW i \in Offer PROVE entitled[j][c][i] + g[i] <= Offers[i].tasks
          <6>1. g[i] \in Nat /\ entitled[j][c][i] \in Nat /\ Offers[i].tasks \in Nat
                BY <1>1, <1>2, SumsAre, OfferAssumption
          <6>2. entitled[j][c][i] <= Offers[i].tasks
                BY <1>1 DEF MatchInv, Entitled
          <6>3. g[i] <= Offers[i].tasks /\ (g[i] > 0 => i \notin Held(entitled[j][c]))
                BY <4>2 DEF RefillSound
          <6>4. g[i] > 0 => entitled[j][c][i] = 0
                BY <6>1, <6>3, HeldIs
          <6> QED BY <6>1, <6>2, <6>3, <6>4
        <5> QED BY <5>1, <5>2
      <4> QED BY <4>1, <4>2, <1>1
    <3> QED BY <2>1, <3>1, <3>2, <1>1, <1>3 DEF GrantFits
  <2>2. CASE q = p /\ k # j
        BY <2>0, <2>2, <1>1, <1>3 DEF GrantFits
  <2>3. CASE q # p
        BY <2>0, <2>3, <1>1, <1>3 DEF GrantFits
  <2> QED BY <2>1, <2>2, <2>3
<1>10. OneGrants'
  <2> SUFFICES ASSUME NEW q \in Process, NEW s \in Process, NEW d \in Class, NEW k \in Job,
                      q # s, Refills(router'[q], d), Refills(router'[s], d)
               PROVE  router'[q].granted[k] = NoFills \/ router'[s].granted[k] = NoFills
      BY DEF OneGrants, Refills
  <2>1. Refills(router[q], d) /\ Refills(router[s], d)
        BY <1>8
  <2>2. router[q].granted[k] = NoFills \/ router[s].granted[k] = NoFills
        BY <2>1 DEF MatchInv, OneGrants
  <2>3. k = j /\ (q = p \/ s = p) => d = c
        BY <2>1, <1>1 DEF Refills
  <2> QED BY <2>1, <2>2, <2>3, <1>1, <1>3
\* Nobody else has granted for a job whose classes were not refilled at once, so the
\* allowance it was planned with is the job's.
<1>11. AllowanceKept'
  <2> SUFFICES ASSUME NEW k \in Job, k \notin crossed'
               PROVE  /\ JobSpent(k) <= UnprovenTaskBudget(Jobs[k].tasks)
                      /\ \A q \in Process : Within(router'[q], k)
                      /\ \A q, s \in Process : q # s =>
                           router'[q].granted[k] = NoFills \/ router'[s].granted[k] = NoFills
      BY <1>1 DEF AllowanceKept, Within, JobSpent
  <2>1. k \notin crossed
        BY <1>1
  <2>2. /\ JobSpent(k) <= UnprovenTaskBudget(Jobs[k].tasks)
        /\ \A q \in Process : Within(router[q], k)
        /\ \A q, s \in Process : q # s =>
             router[q].granted[k] = NoFills \/ router[s].granted[k] = NoFills
        BY <2>1 DEF MatchInv, AllowanceKept
  <2>3. CASE k = j
    <3>1. \A q \in Process : q # p => router[q].granted[j] = NoFills
          BY <2>3, <1>1
    <3>2. JobSpent(j) + SumOver(g, Unproven) <= UnprovenTaskBudget(Jobs[j].tasks)
      <4>1. CASE SumOver(g, Unproven) = 0
            BY <4>1, <2>2, <2>3, <1>2, SumsAre
      <4>2. CASE SumOver(g, Unproven) # 0
        <5>1. RefillSound(j, c, entitled[j], OpenAsks(c), g)
              BY <4>2, <1>1, NoneSum
        <5>2. JobSpent(j) + SumOver(g, Unproven) <= JobBudget(j)
              BY <4>2, <5>1 DEF RefillSound, JobSpent
        <5>3. \A d \in Class : wanted[j][d] <= Jobs[j].tasks
              BY DEF MatchInv, Entitled
        <5>4. wanted \in [Job -> [Class -> Nat]] /\ Jobs[j].tasks \in Nat
              BY <1>2, SumsAre DEF MatchTypes
        <5>5. JobBudget(j) \in Nat /\ JobBudget(j) <= UnprovenTaskBudget(Jobs[j].tasks)
              BY <1>1, <5>3, <5>4, JobBudgetIs
        <5>6. SumOver(g, Unproven) \in Nat /\ JobSpent(j) \in Nat
              /\ UnprovenTaskBudget(Jobs[j].tasks) \in Nat
              BY <1>1, <1>2, SumsAre, FillsSum
        <5> QED BY <5>2, <5>5, <5>6
      <4> QED BY <4>1, <4>2
    <3>3. \A q \in Process : Within(router'[q], j)
      <4>1. Within(router'[p], j)
            BY <3>2, <1>1, <1>3 DEF Within
      <4>2. \A q \in Process : q # p => Within(router'[q], j)
            BY <2>2, <2>3, <1>3
      <4> QED BY <4>1, <4>2
    <3> QED BY <2>2, <2>3, <3>1, <3>3, <1>3
  <2>4. CASE k # j
    <3>1. \A q \in Process : router'[q].granted[k] = router[q].granted[k]
          BY <2>4, <1>1, <1>3
    <3> QED BY <2>2, <3>1 DEF Within
  <2> QED BY <2>3, <2>4
<1> QED BY <1>4, <1>5, <1>6, <1>7, <1>9, <1>10, <1>11 DEF MatchInv

-----------------------------------------------------------------------------
(* What a refill commits. *)

\* A refill commits what it granted: the matches of its class grow by that, and so does what
\* newcomers have of each job.
CommitStep(p, c) ==
  /\ c \in Class /\ Refills(router[p], c) /\ router[p].queue = {}
  /\ router' = [router EXCEPT ![p] = IdleRouter]
  /\ wanted' = wanted /\ listing' = listing /\ unannounced' = unannounced /\ crossed' = crossed
  /\ entitled' \in [Job -> [Class -> [Offer -> Nat]]]
  /\ \A j \in Job :
       /\ \A i \in Offer : entitled'[j][c][i] = entitled[j][c][i] + router[p].granted[j][i]
       /\ SumOver(entitled'[j][c], Offer)
            = SumOver(entitled[j][c], Offer) + SumOver(router[p].granted[j], Offer)
       /\ \A d \in Class : d # c => entitled'[j][d] = entitled[j][d]
       /\ JobSpent(j)' = JobSpent(j) + SumOver(router[p].granted[j], Unproven)
LEMMA CommitSteps ==
  ASSUME MatchInv, NEW p \in Process, CommitRefill(p)
  PROVE  \E c : CommitStep(p, c)
<1> DEFINE c == RefillClass(p)
           sum(j) == [i \in Offer |-> entitled[j][c][i] + router[p].granted[j][i]]
<1>1. /\ router[p].at = "refilling" /\ router[p].queue = {}
      /\ router' = [router EXCEPT ![p] = IdleRouter]
      /\ wanted' = wanted /\ listing' = listing /\ unannounced' = unannounced /\ crossed' = crossed
      /\ entitled' = [j \in Job |-> [entitled[j] EXCEPT ![c] = sum(j)]]
      BY DEF CommitRefill
<1>2. MatchTypes
      BY DEF MatchInv
<1>3. router[p].offer \in Offer
      BY <1>1 DEF MatchInv, RoutersInOrder, InOrder
<1>4. c \in Class /\ Refills(router[p], c)
      BY <1>1, <1>3 DEF RefillClass, Class, Refills
<1> HIDE DEF c
<1>5. ASSUME NEW j \in Job
      PROVE  /\ entitled'[j] \in [Class -> [Offer -> Nat]] /\ entitled'[j][c] = sum(j)
             /\ sum(j) \in [Offer -> Nat]
             /\ \A i \in Offer : sum(j)[i] = entitled[j][c][i] + router[p].granted[j][i]
             /\ \A d \in Class : d # c => entitled'[j][d] = entitled[j][d]
  <2>1. entitled[j] \in [Class -> [Offer -> Nat]] /\ router[p].granted[j] \in [Offer -> Nat]
        BY <1>2, SumsAre
  <2>2. sum(j) \in [Offer -> Nat]
        BY <1>4, <2>1
  <2>3. entitled'[j] = [entitled[j] EXCEPT ![c] = sum(j)]
        BY <1>1
  <2> QED BY <1>4, <2>1, <2>2, <2>3
<1>6. entitled' \in [Job -> [Class -> [Offer -> Nat]]]
  <2>1. entitled' = [j \in Job |-> entitled'[j]]
        BY <1>1
  <2> QED BY <2>1, <1>5
<1>7. ASSUME NEW j \in Job
      PROVE  /\ SumOver(entitled'[j][c], Offer)
                  = SumOver(entitled[j][c], Offer) + SumOver(router[p].granted[j], Offer)
             /\ JobSpent(j)' = JobSpent(j) + SumOver(router[p].granted[j], Unproven)
  <2> DEFINE e == entitled[j][c]
             g == router[p].granted[j]
             h == sum(j)
             f == SpentBy(entitled[j])
             k == SpentBy(entitled'[j])
  <2>1. /\ e \in [Offer -> Nat] /\ g \in [Offer -> Nat] /\ h \in [Offer -> Nat]
        /\ entitled[j] \in [Class -> [Offer -> Nat]]
        BY <1>2, <1>4, <1>5, SumsAre
  <2>2. \A i \in Offer : e[i] \in Int /\ g[i] \in Int /\ h[i] = e[i] + g[i]
        BY <2>1, <1>5
  <2> HIDE DEF e, g, h
  <2>3. SumOver(h, Offer) = SumOver(e, Offer) + SumOver(g, Offer)
        BY <2>2, OfferAssumption, TotalPlus
  <2>4. SumOver(h, Unproven) = SumOver(e, Unproven) + SumOver(g, Unproven)
    <3>1. IsFiniteSet(Unproven) /\ Unproven \subseteq Offer
          BY OfferAssumption, FS_Subset DEF Unproven
    <3> QED BY <2>2, <3>1, TotalPlus
  <2>5. /\ \A d \in Class : f[d] \in Nat /\ f[d] = SumOver(entitled[j][d], Unproven)
        /\ \A d \in Class : k[d] \in Nat /\ k[d] = SumOver(entitled'[j][d], Unproven)
        BY <2>1, <1>5, BidsSpentIs
  <2> HIDE DEF f, k
  <2>6. /\ \A d \in Class : f[d] \in Int
        /\ \A d \in Class : d # c => k[d] = f[d]
        /\ k[c] \in Int
    <3>1. ASSUME NEW d \in Class, d # c PROVE k[d] = f[d]
      <4>1. entitled'[j][d] = entitled[j][d]
            BY <1>5, <3>1
      <4> QED BY <4>1, <2>5
    <3> QED BY <3>1, <2>5, <1>4
  <2>7. SumOver(k, Class) = SumOver(f, Class) + k[c] - f[c]
        BY <2>6, <1>4, ClassFinite, TotalUpdate
  <2>8. k[c] = SumOver(h, Unproven) /\ f[c] = SumOver(e, Unproven)
        BY <2>5, <1>4, <1>5 DEF h, e
  <2>9. /\ SumOver(e, Unproven) \in Nat /\ SumOver(g, Unproven) \in Nat
        /\ SumOver(f, Class) \in Nat
    <3>1. SumOver(f, Class) \in Nat
          BY <2>5, ClassFinite, TotalBounds
    <3> QED BY <3>1, <2>1, FillsSum
  <2>10. SumOver(k, Class) = SumOver(f, Class) + SumOver(g, Unproven)
        BY <2>4, <2>7, <2>8, <2>9
  <2>11. JobSpent(j)' = SumOver(k, Class) /\ JobSpent(j) = SumOver(f, Class)
        BY DEF JobSpent, BidsSpent, f, k, SpentBy
  <2> QED BY <2>3, <2>10, <2>11, <1>5 DEF e, g, h
<1>8. CommitStep(p, c)
  <2> HIDE DEF sum
  <2>1. \A j \in Job, i \in Offer : entitled'[j][c][i] = entitled[j][c][i] + router[p].granted[j][i]
        BY <1>5
  <2> QED BY <1>1, <1>4, <1>5, <1>6, <1>7, <2>1 DEF CommitStep
<1> QED BY <1>8

LEMMA CommitKeeps ==
  ASSUME MatchInv, NEW p \in Process, CommitRefill(p)
  PROVE  MatchInv'
<1>1. PICK c : CommitStep(p, c)
      BY CommitSteps
<1> USE DEF CommitStep
<1>2. MatchTypes /\ router \in [Process -> Routers]
      BY DEF MatchInv, MatchTypes
<1>3. /\ router'[p] = IdleRouter /\ \A q \in Process : q # p => router'[q] = router[q]
      BY <1>1, <1>2
<1>4. MatchTypes'
      BY <1>1, <1>2, IdleIs DEF MatchTypes
<1>5. RoutersInOrder'
  <2>1. ASSUME NEW q \in Process PROVE InOrder(router[q])'
    <3>1. CASE q = p
          BY <3>1, <1>3, IdleIs DEF InOrder
    <3>2. CASE q # p
          BY <3>2, <1>1, <1>3 DEF InOrder, MatchInv, RoutersInOrder
    <3> QED BY <3>1, <3>2
  <2> QED BY <2>1 DEF RoutersInOrder
<1>6. OnePlans'
      BY <1>3, IdleIs DEF MatchInv, OnePlans
<1>7. ASSUME NEW j \in Job PROVE GrantFits(router[p], j, c)
      BY <1>1 DEF MatchInv, GrantsFit
<1>8. Entitled'
  <2> SUFFICES ASSUME NEW j \in Job, NEW d \in Class
               PROVE  /\ SumOver(entitled'[j][d], Offer) <= wanted[j][d]
                      /\ wanted[j][d] <= Jobs[j].tasks
                      /\ \A i \in Offer : entitled'[j][d][i] <= Offers[i].tasks
      BY <1>1 DEF Entitled
  <2>1. wanted[j][d] <= Jobs[j].tasks
        BY DEF MatchInv, Entitled
  <2>2. CASE d = c
        BY <2>1, <2>2, <1>1, <1>7 DEF GrantFits
  <2>3. CASE d # c
        BY <2>3, <1>1 DEF MatchInv, Entitled
  <2> QED BY <2>2, <2>3
<1>9. \A q \in Process, d \in Class : Refills(router'[q], d) => q # p /\ Refills(router[q], d)
      BY <1>3, IdleIs DEF Refills
<1>10. GrantsFit'
  <2> SUFFICES ASSUME NEW q \in Process, NEW d \in Class, NEW j \in Job, Refills(router'[q], d)
               PROVE  GrantFits(router[q], j, d)'
      BY DEF GrantsFit, Refills
  <2>0. q # p /\ Refills(router[q], d) /\ router'[q] = router[q] /\ GrantFits(router[q], j, d)
        BY <1>3, <1>9 DEF MatchInv, GrantsFit
  <2>1. CASE d # c
        BY <2>0, <2>1, <1>1 DEF GrantFits
  <2>2. CASE d = c
    <3>0. \A i \in Offer : NoFills[i] = 0
          BY DEF NoFills
    <3>1. router[p].granted[j] = NoFills \/ router[q].granted[j] = NoFills
          BY <2>0, <2>2, <1>1 DEF MatchInv, OneGrants
    <3>2. CASE router[p].granted[j] = NoFills
      <4>1. SumOver(entitled'[j][d], Offer) = SumOver(entitled[j][d], Offer)
            BY <3>2, <2>2, <1>1, <1>2, SumsAre, NoneSum
      <4>2. \A i \in Offer : entitled'[j][d][i] = entitled[j][d][i]
        <5>1. entitled[j][d] \in [Offer -> Nat]
              BY <1>2, SumsAre
        <5>2. ASSUME NEW i \in Offer PROVE entitled'[j][d][i] = entitled[j][d][i]
          <6>1. entitled'[j][d][i] = entitled[j][d][i] + NoFills[i]
                BY <3>2, <2>2, <1>1
          <6>2. NoFills[i] = 0 /\ entitled[j][d][i] \in Nat
                BY <3>0, <5>1
          <6> QED BY <6>1, <6>2
        <5> QED BY <5>2
      <4> QED BY <2>0, <1>1, <4>1, <4>2 DEF GrantFits
    <3>3. CASE router[q].granted[j] = NoFills
      <4>1. /\ SumOver(entitled'[j][d], Offer) <= wanted[j][d]
            /\ \A i \in Offer : entitled'[j][d][i] <= Offers[i].tasks
            BY <1>1, <1>8 DEF Entitled
      <4>2. entitled'[j][d] \in [Offer -> Nat]
            BY <1>1
      <4>3. SumOver(entitled'[j][d], Offer) \in Nat /\ SumOver(NoFills, Offer) = 0
            BY <4>2, FillsSum, NoneSum
      <4>4. \A i \in Offer : entitled'[j][d][i] \in Nat
            BY <4>2
      <4> QED BY <3>0, <3>3, <2>0, <1>1, <4>1, <4>3, <4>4 DEF GrantFits
    <3> QED BY <3>1, <3>2, <3>3
  <2> QED BY <2>1, <2>2
<1>11. OneGrants'
  <2> SUFFICES ASSUME NEW q \in Process, NEW s \in Process, NEW d \in Class, NEW j \in Job,
                      q # s, Refills(router'[q], d), Refills(router'[s], d)
               PROVE  router'[q].granted[j] = NoFills \/ router'[s].granted[j] = NoFills
      BY DEF OneGrants, Refills
  <2> QED BY <1>3, <1>9 DEF MatchInv, OneGrants
<1>12. AllowanceKept'
  <2> SUFFICES ASSUME NEW j \in Job, j \notin crossed
               PROVE  /\ JobSpent(j)' <= UnprovenTaskBudget(Jobs[j].tasks)
                      /\ \A q \in Process : JobSpent(j)' + SumOver(router'[q].granted[j], Unproven)
                                              <= UnprovenTaskBudget(Jobs[j].tasks)
                      /\ \A q, s \in Process : q # s =>
                           router'[q].granted[j] = NoFills \/ router'[s].granted[j] = NoFills
      BY <1>1 DEF AllowanceKept, Within
  <2>1. /\ Within(router[p], j) /\ \A q \in Process : Within(router[q], j)
        /\ \A q, s \in Process : q # s =>
             router[q].granted[j] = NoFills \/ router[s].granted[j] = NoFills
        BY DEF MatchInv, AllowanceKept
  <2>2. JobSpent(j)' = JobSpent(j) + SumOver(router[p].granted[j], Unproven)
        BY <1>1
  <2>3. JobSpent(j)' <= UnprovenTaskBudget(Jobs[j].tasks) /\ JobSpent(j)' \in Nat
        BY <2>1, <2>2, <1>2, SumsAre DEF Within
  <2>4. ASSUME NEW q \in Process
        PROVE  JobSpent(j)' + SumOver(router'[q].granted[j], Unproven)
                 <= UnprovenTaskBudget(Jobs[j].tasks)
    <3>1. CASE router'[q].granted[j] = NoFills
          BY <3>1, <2>3, NoneSum
    <3>2. CASE router'[q].granted[j] # NoFills
      <4>1. q # p /\ router'[q] = router[q]
            BY <3>2, <1>3, IdleIs
      <4>2. router[p].granted[j] = NoFills
            BY <3>2, <4>1, <2>1
      <4>3. JobSpent(j)' = JobSpent(j)
            BY <4>2, <2>2, <1>2, SumsAre, NoneSum
      <4> QED BY <4>1, <4>3, <2>1 DEF Within
    <3> QED BY <3>1, <3>2
  <2> QED BY <2>1, <2>3, <2>4, <1>3, IdleIs
<1> QED BY <1>4, <1>5, <1>6, <1>8, <1>10, <1>11, <1>12 DEF MatchInv

-----------------------------------------------------------------------------
LEMMA MatchKeeps == MatchInv /\ [MatchNext]_matchVars => MatchInv'
<1> SUFFICES ASSUME MatchInv, [MatchNext]_matchVars PROVE MatchInv'
    OBVIOUS
<1>0. MatchTypes
      BY DEF MatchInv
<1>1. CASE UNCHANGED matchVars
      BY <1>1 DEF matchVars, MatchInv, MatchTypes, RoutersInOrder, InOrder, OnePlans, Entitled,
                  GrantsFit, GrantFits, Refills, OneGrants, AllowanceKept, Within, JobSpent
<1>2. ASSUME NEW p \in Process, PostBids(p) PROVE MatchInv'
      BY <1>2, PostKeeps
<1>3. ASSUME NEW p \in Process, StartRefill(p) PROVE MatchInv'
  <2> DEFINE r == [router[p] EXCEPT !.at = "refilling", !.queue = OpenBids(RefillClass(p))]
  <2>1. /\ router[p].at = "listed" /\ listing' = listing /\ wanted' = wanted
        /\ entitled' = entitled /\ unannounced' = unannounced /\ crossed' = crossed
        /\ router' = [router EXCEPT ![p].at = "refilling", ![p].queue = OpenBids(RefillClass(p))]
        BY <1>3 DEF StartRefill
  <2>2. OpenBids(RefillClass(p)) \in SUBSET Job
        BY DEF OpenBids
  <2>3. router \in [Process -> Routers] /\ router[p] \in Routers
        BY <1>0 DEF MatchTypes
  <2>4. /\ router[p].job = 0 /\ router[p].offer \in Offer
        /\ \A j \in Job : router[p].granted[j] = NoFills
        BY <2>1 DEF MatchInv, RoutersInOrder, InOrder
  <2>5. /\ r \in Routers /\ r.at = "refilling" /\ r.job = 0 /\ r.offer \in Offer
        /\ \A j \in Job : r.granted[j] = NoFills
        BY <2>2, <2>3, <2>4 DEF Routers
  <2>6. router' = [router EXCEPT ![p] = r]
        BY <2>1, <2>3
  <2>7. listing \in [Offer -> {"none", "open", "away", "withdrawn"}] /\ unannounced \subseteq Offer
        BY <1>0 DEF MatchTypes
  <2> HIDE DEF r
  <2> QED BY <2>1, <2>5, <2>6, <2>7, HandlerTurns
<1>4. ASSUME NEW p \in Process, CommitRefill(p) PROVE MatchInv'
      BY <1>4, CommitKeeps
<1>5. ASSUME NEW p \in Process, RouterFails(p) PROVE MatchInv'
  <2>1. /\ listing' = listing /\ wanted' = wanted /\ entitled' = entitled /\ crossed' = crossed
        /\ unannounced' = unannounced \cup ({router[p].offer} \ {0})
        /\ router' = [router EXCEPT ![p] = IdleRouter]
        BY <1>5 DEF RouterFails
  <2>2. router[p] \in Routers
        BY <1>0 DEF MatchTypes
  <2>3. unannounced' \subseteq Offer /\ listing \in [Offer -> {"none", "open", "away", "withdrawn"}]
        BY <1>0, <2>1, <2>2, RouterIs DEF MatchTypes
  <2> QED BY <2>1, <2>3, IdleIs, HandlerTurns
<1>6. ASSUME NEW p \in Process, NEW j \in Job, Plan(p, j) PROVE MatchInv'
      BY <1>6, PlanKeeps
<1>7. ASSUME NEW p \in Process, NEW j \in Job, RefillBid(p, j) PROVE MatchInv'
      BY <1>7, RefillKeeps
<1>8. ASSUME NEW p \in Process, NEW i \in Offer, CreateListing(p, i) PROVE MatchInv'
  <2> DEFINE r == [IdleRouter EXCEPT !.at = "listed", !.offer = i]
  <2>1. /\ wanted' = wanted /\ entitled' = entitled /\ unannounced' = unannounced
        /\ crossed' = crossed /\ listing' = [listing EXCEPT ![i] = "open"]
        /\ router' = [router EXCEPT ![p] = r]
        BY <1>8 DEF CreateListing
  <2>2. /\ r \in Routers /\ r.at = "listed" /\ r.job = 0 /\ r.offer \in Offer
        /\ \A j \in Job : r.granted[j] = NoFills
        BY IdleIs DEF Routers
  <2>3. /\ listing' \in [Offer -> {"none", "open", "away", "withdrawn"}]
        /\ unannounced' \subseteq Offer
        BY <1>0, <2>1 DEF MatchTypes
  <2> HIDE DEF r
  <2> QED BY <2>1, <2>2, <2>3, HandlerTurns
<1>9. ASSUME NEW i \in Offer,
             \/ WithdrawListing(i) \/ MachineLeaves(i) \/ MachineReturns(i)
             \/ \E k \in Offer : RecordChanges(i, k)
      PROVE  MatchInv'
      BY <1>9, ListingKeeps
<1> QED BY <1>1, <1>2, <1>3, <1>4, <1>5, <1>6, <1>7, <1>8, <1>9 DEF MatchNext

\* The matching's records stay well formed.
THEOREM MatchTyped == MatchSpec => []MatchTypeOK
<1>1. MatchInv => MatchTypeOK
      BY RouterIs DEF MatchInv, MatchTypes, MatchTypeOK
<1> QED BY <1>1, MatchBegins, MatchKeeps, PTL DEF MatchSpec

\* Newcomers get of a job no more than its one allowance, however many classes it spills
\* into and refills serve it, unless two classes of it were refilled at once.
THEOREM AllowanceIsOne == MatchSpec => []NewcomersShareOneAllowance
<1>1. MatchInv => NewcomersShareOneAllowance
  <2> SUFFICES ASSUME MatchInv, NEW j \in Job \ crossed
               PROVE  UnprovenSpent(j, entitled[j]) <= UnprovenTaskBudget(Jobs[j].tasks)
      BY DEF NewcomersShareOneAllowance
  <2>1. UnprovenSpent(j, entitled[j]) = JobSpent(j)
        BY SpentIs DEF JobSpent, BidsSpent
  <2> QED BY <2>1 DEF MatchInv, AllowanceKept
<1> QED BY <1>1, MatchBegins, MatchKeeps, PTL DEF MatchSpec

-----------------------------------------------------------------------------
(* The book of the market: MatchBook is implemented. *)

\* What a refill has granted and not committed goes to offers that suit the bid, of listings
\* not matched to it: the lock keeps the bid's matches as they were planned against.
Fresh(r, c, j, i) ==
  Refills(r, c) /\ r.granted[j][i] > 0 => i \notin Held(entitled[j][c]) /\ i \in Suits[j][c]
GrantsAreFresh ==
  \A p \in Process, c \in Class, j \in Job, i \in Offer : Fresh(router[p], c, j, i)

\* What has matches is held.
LEMMA FreshAtFirst == MatchInit => GrantsAreFresh
<1>1. MatchInit => \A p \in Process, c \in Class : ~Refills(router[p], c)
      BY IdleIs DEF MatchInit, Refills
<1> QED BY <1>1 DEF GrantsAreFresh, Fresh

\* Matches stay, and a handler that granted nothing takes the place of another.
LEMMA FreshWhenTurning ==
  ASSUME GrantsAreFresh, entitled' = entitled,
         \A q \in Process : \/ router'[q] = router[q] \/ router'[q].at # "refilling"
                            \/ \A j \in Job : router'[q].granted[j] = NoFills
  PROVE  GrantsAreFresh'
<1> SUFFICES ASSUME NEW q \in Process, NEW c \in Class, NEW j \in Job, NEW i \in Offer,
                    Refills(router'[q], c), router'[q].granted[j][i] > 0
             PROVE  i \notin Held(entitled[j][c]) /\ i \in Suits[j][c]
    BY DEF GrantsAreFresh, Fresh, Refills
<1>1. ~(NoFills[i] > 0)
      BY DEF NoFills
<1>2. router'[q] = router[q]
      BY <1>1 DEF Refills
<1> QED BY <1>2 DEF GrantsAreFresh, Fresh

LEMMA FreshAfterRefill ==
  ASSUME MatchInv, GrantsAreFresh, NEW p \in Process, NEW j \in Job, RefillBid(p, j)
  PROVE  GrantsAreFresh'
<1>1. PICK c, g, r : RefillStep(p, j, c, g, r)
      BY RefillSteps
<1>2. /\ c \in Class /\ Refills(router[p], c) /\ entitled' = entitled /\ g \in [Offer -> Nat]
      /\ (~Waits(j, c) /\ g = NoFills) \/ RefillSound(j, c, entitled[j], OpenAsks(c), g)
      /\ r.at = "refilling" /\ r.offer = router[p].offer
      /\ r.granted[j] = g /\ \A k \in Job : k # j => r.granted[k] = router[p].granted[k]
      /\ router' = [router EXCEPT ![p] = r]
      BY <1>1 DEF RefillStep
<1>3. router'[p] = r /\ \A q \in Process : q # p => router'[q] = router[q]
      BY <1>2 DEF MatchInv, MatchTypes
<1> SUFFICES ASSUME NEW q \in Process, NEW d \in Class, NEW k \in Job, NEW i \in Offer,
                    Refills(router'[q], d), router'[q].granted[k][i] > 0
             PROVE  i \notin Held(entitled[k][d]) /\ i \in Suits[k][d]
    BY <1>2 DEF GrantsAreFresh, Fresh, Refills
<1>4. CASE q # p
      BY <1>3, <1>4 DEF GrantsAreFresh, Fresh
<1>5. CASE q = p /\ k # j
      BY <1>2, <1>3, <1>5 DEF GrantsAreFresh, Fresh, Refills
<1>6. CASE q = p /\ k = j
  <2>1. d = c /\ g[i] > 0
        BY <1>2, <1>3, <1>6 DEF Refills
  <2>2. g # NoFills
        BY <2>1 DEF NoFills
  <2>3. i \in OpenAsks(c) /\ i \notin Held(entitled[j][c]) /\ Can(j, i)
        BY <1>2, <2>1, <2>2 DEF RefillSound
  <2>4. i \in Suits[j][c]
        BY <1>2, <2>3, SuitsAre DEF OpenAsks, Can
  <2> QED BY <1>6, <2>1, <2>3, <2>4
<1> QED BY <1>4, <1>5, <1>6

LEMMA FreshAfterPost ==
  ASSUME MatchInv, GrantsAreFresh, NEW p \in Process, PostBids(p)
  PROVE  GrantsAreFresh'
<1> DEFINE j == router[p].job
<1>1. /\ j \in Job /\ \A c \in Class : wanted[j][c] = 0
      /\ \A k \in Job : k # j => entitled'[k] = entitled[k]
      BY DEF PostBids, MatchInv, MatchTypes, RoutersInOrder, InOrder
<1>2. /\ router'[p] = IdleRouter /\ \A q \in Process : q # p => router'[q] = router[q]
      BY DEF PostBids, MatchInv, MatchTypes
<1>3. \A q \in Process : router[q].granted[j] = NoFills
  <2> HIDE DEF j
  <2> QED BY <1>1, NothingWithoutBids
<1> HIDE DEF j
<1> SUFFICES ASSUME NEW q \in Process, NEW c \in Class, NEW k \in Job, NEW i \in Offer,
                    Refills(router'[q], c), router'[q].granted[k][i] > 0
             PROVE  i \notin Held(entitled'[k][c]) /\ i \in Suits[k][c]
    BY DEF GrantsAreFresh, Fresh, Refills
<1>4. router'[q] = router[q]
      BY <1>2, IdleIs DEF Refills
<1>5. k # j
  <2>1. ~(NoFills[i] > 0)
        BY DEF NoFills
  <2> QED BY <2>1, <1>3, <1>4
<1> QED BY <1>1, <1>4, <1>5 DEF GrantsAreFresh, Fresh

LEMMA FreshAfterCommit ==
  ASSUME MatchInv, GrantsAreFresh, NEW p \in Process, CommitRefill(p)
  PROVE  GrantsAreFresh'
<1>1. PICK c : CommitStep(p, c)
      BY CommitSteps
<1>2. /\ c \in Class /\ Refills(router[p], c) /\ router' = [router EXCEPT ![p] = IdleRouter]
      /\ \A j \in Job :
           /\ \A i \in Offer : entitled'[j][c][i] = entitled[j][c][i] + router[p].granted[j][i]
           /\ \A d \in Class : d # c => entitled'[j][d] = entitled[j][d]
      BY <1>1 DEF CommitStep
<1>3. router'[p] = IdleRouter /\ \A q \in Process : q # p => router'[q] = router[q]
      BY <1>2 DEF MatchInv, MatchTypes
<1> SUFFICES ASSUME NEW q \in Process, NEW d \in Class, NEW j \in Job, NEW i \in Offer,
                    Refills(router'[q], d), router'[q].granted[j][i] > 0
             PROVE  i \notin Held(entitled'[j][d]) /\ i \in Suits[j][d]
    BY DEF GrantsAreFresh, Fresh, Refills
<1>4. q # p /\ router'[q] = router[q]
      BY <1>3, IdleIs DEF Refills
<1>5. i \notin Held(entitled[j][d]) /\ i \in Suits[j][d]
      BY <1>4 DEF GrantsAreFresh, Fresh
<1>6. CASE d # c
      BY <1>2, <1>5, <1>6
<1>7. CASE d = c
  <2>1. NoFills[i] = 0
        BY DEF NoFills
  <2>2. router[p].granted[j] = NoFills \/ router[q].granted[j] = NoFills
        BY <1>2, <1>4, <1>7 DEF MatchInv, OneGrants
  <2>3. router[p].granted[j] = NoFills
        BY <2>1, <2>2, <1>4
  <2>4. \A k \in Offer : entitled'[j][d][k] = entitled[j][d][k]
    <3> TAKE k \in Offer
    <3>1. NoFills[k] = 0 /\ entitled[j][d][k] \in Nat
          BY DEF NoFills, MatchInv, MatchTypes
    <3> QED BY <3>1, <2>3, <1>2, <1>7
  <2>5. Held(entitled'[j][d]) = Held(entitled[j][d])
        BY <2>4 DEF Held
  <2> QED BY <2>5, <1>5
<1> QED BY <1>6, <1>7

LEMMA GrantsStayFresh ==
  MatchInv /\ GrantsAreFresh /\ [MatchNext]_matchVars => GrantsAreFresh'
<1> SUFFICES ASSUME MatchInv, GrantsAreFresh, [MatchNext]_matchVars PROVE GrantsAreFresh'
    OBVIOUS
<1>0. router \in [Process -> Routers]
      BY DEF MatchInv, MatchTypes
<1>1. CASE UNCHANGED matchVars
      BY <1>1, FreshWhenTurning DEF matchVars
<1>2. ASSUME NEW p \in Process, PostBids(p) PROVE GrantsAreFresh'
      BY <1>2, FreshAfterPost
<1>3. ASSUME NEW p \in Process, StartRefill(p) PROVE GrantsAreFresh'
  <2>1. /\ entitled' = entitled /\ router[p].at = "listed"
        /\ router'[p].granted = router[p].granted
        /\ \A q \in Process : q # p => router'[q] = router[q]
        BY <1>0, <1>3 DEF StartRefill
  <2>2. \A j \in Job : router'[p].granted[j] = NoFills
        BY <2>1 DEF MatchInv, RoutersInOrder, InOrder
  <2> QED BY <2>1, <2>2, FreshWhenTurning
<1>4. ASSUME NEW p \in Process, CommitRefill(p) PROVE GrantsAreFresh'
      BY <1>4, FreshAfterCommit
<1>5. ASSUME NEW p \in Process, RouterFails(p) PROVE GrantsAreFresh'
  <2>1. /\ entitled' = entitled /\ router'[p].at # "refilling"
        /\ \A q \in Process : q # p => router'[q] = router[q]
        BY <1>0, <1>5, IdleIs DEF RouterFails
  <2> QED BY <2>1, FreshWhenTurning
<1>6. ASSUME NEW p \in Process, NEW j \in Job, Plan(p, j) PROVE GrantsAreFresh'
  <2>1. /\ entitled' = entitled /\ router'[p].at # "refilling"
        /\ \A q \in Process : q # p => router'[q] = router[q]
        BY <1>0, <1>6 DEF Plan, IdleRouter
  <2> QED BY <2>1, FreshWhenTurning
<1>7. ASSUME NEW p \in Process, NEW j \in Job, RefillBid(p, j) PROVE GrantsAreFresh'
      BY <1>7, FreshAfterRefill
<1>8. ASSUME NEW p \in Process, NEW i \in Offer, CreateListing(p, i) PROVE GrantsAreFresh'
  <2>1. /\ entitled' = entitled /\ router'[p].at # "refilling"
        /\ \A q \in Process : q # p => router'[q] = router[q]
        BY <1>0, <1>8 DEF CreateListing, IdleRouter
  <2> QED BY <2>1, FreshWhenTurning
<1>9. ASSUME NEW i \in Offer,
             \/ WithdrawListing(i) \/ MachineLeaves(i) \/ MachineReturns(i)
             \/ \E k \in Offer : RecordChanges(i, k)
      PROVE  GrantsAreFresh'
      BY <1>9, FreshWhenTurning
      DEF WithdrawListing, MachineLeaves, MachineReturns, RecordChanges
<1> QED BY <1>1, <1>2, <1>3, <1>4, <1>5, <1>6, <1>7, <1>8, <1>9 DEF MatchNext

\* The book counts as the market does.
LEMMA MarketSum ==
  ASSUME NEW f \in [Offer -> Nat]
  PROVE  Market!SumFunction(f) = SumOver(f, Offer)
<1>1. Market!SumFunction(f) = Market!SumFunctionOnSet(f, Offer)
      BY DEF Market!SumFunction
<1> QED BY <1>1 DEF Market!SumFunctionOnSet, Market!FoldFunctionOnSet, Market!MapThenFoldSet,
                    SumOver, Adds, Pick

\* A bid that grows by what is new to it, within what it wants.
LEMMA BidGrows ==
  ASSUME NEW j \in Job, NEW c \in Class, entitled'[j][c] \in [Offer -> Nat],
         SumOver(entitled'[j][c], Offer) <= wanted'[j][c],
         \A i \in Offer : entitled'[j][c][i] <= Offers[i].tasks,
         \A i \in Offer : \/ entitled'[j][c][i] = entitled[j][c][i]
                          \/ entitled[j][c][i] = 0 /\ i \in Suits[j][c]
  PROVE  Market!Grows(j, c)
<1>1. ASSUME NEW i \in Offer
      PROVE  entitled'[j][c][i] = entitled[j][c][i] \/ Market!Made(j, c, i)
  <2>1. entitled'[j][c][i] \in Nat /\ Offers[i].tasks \in Nat
        BY OfferAssumption
  <2>2. [k \in Offer |-> Offers[k].tasks][i] = Offers[i].tasks
        OBVIOUS
  <2> QED BY <2>1, <2>2 DEF Market!Made
<1>2. Market!SumFunction(entitled'[j][c]) <= wanted'[j][c]
  <2> PICK f \in [Offer -> Nat] : f = entitled'[j][c]
      OBVIOUS
  <2> QED BY MarketSum
<1> QED BY <1>1, <1>2 DEF Market!Grows

LEMMA PostIsBooked ==
  ASSUME MatchInv, NEW p \in Process, PostBids(p)
  PROVE  \E j \in Job : Market!Post(j)
<1> DEFINE j == router[p].job
           plan == router[p].plan
<1>1. MatchTypes /\ router[p].at = "planned"
      BY DEF MatchInv, PostBids
<1>2. /\ j \in Job /\ BidsSound(j, plan) /\ \A c \in Class : wanted[j][c] = 0
      BY <1>1 DEF MatchInv, RoutersInOrder, InOrder
<1>3. /\ \A c \in Class : wanted'[j][c] = plan[c].wanted /\ entitled'[j][c] = plan[c].fills
      /\ \A k \in Job : k # j => wanted'[k] = wanted[k] /\ entitled'[k] = entitled[k]
      BY <1>1, <1>2 DEF PostBids, MatchTypes
<1> HIDE DEF j, plan
<1>4. ASSUME NEW c \in Class
      PROVE  wanted[j][c] = 0 /\ wanted'[j][c] \in 0..Jobs[j].tasks /\ Market!Grows(j, c)
  <2>1. plan[c].fills \in [Offer -> Nat] /\ plan[c].wanted \in Nat
        BY <1>2 DEF BidsSound, Bids
  <2>2. /\ SumOver(plan[c].fills, Offer) <= plan[c].wanted /\ plan[c].wanted <= Jobs[j].tasks
        /\ \A i \in Offer : /\ plan[c].fills[i] <= Offers[i].tasks
                            /\ plan[c].fills[i] > 0 => i \in Suits[j][c]
        BY <1>2 DEF BidsSound
  <2>3. entitled[j][c] = NoFills
        BY <1>2, NothingWithoutBids
  <2>4. ASSUME NEW i \in Offer
        PROVE  \/ entitled'[j][c][i] = entitled[j][c][i]
               \/ entitled[j][c][i] = 0 /\ i \in Suits[j][c]
    <3>1. entitled[j][c][i] = 0
          BY <2>3 DEF NoFills
    <3>2. plan[c].fills[i] \in Nat
          BY <2>1
    <3> QED BY <3>1, <3>2, <2>2, <1>3
  <2>5. Market!Grows(j, c)
        BY <1>2, <1>3, <2>1, <2>2, <2>4, BidGrows
  <2>6. Jobs[j].tasks \in Nat
        BY <1>2, MatchAssumption
  <2> QED BY <1>2, <1>3, <2>1, <2>2, <2>5, <2>6
<1>5. [k \in Job |-> Jobs[k].tasks][j] = Jobs[j].tasks
      BY <1>2
<1>6. Market!Post(j)
      BY <1>3, <1>4, <1>5 DEF Market!Post
<1> QED BY <1>2, <1>6

LEMMA CommitIsBooked ==
  ASSUME MatchInv, GrantsAreFresh, NEW p \in Process, CommitRefill(p)
  PROVE  \E c \in Class : Market!Serve(c)
<1>1. PICK c : CommitStep(p, c)
      BY CommitSteps
<1>2. /\ c \in Class /\ Refills(router[p], c) /\ wanted' = wanted
      /\ entitled' \in [Job -> [Class -> [Offer -> Nat]]]
      /\ \A j \in Job :
           /\ \A i \in Offer : entitled'[j][c][i] = entitled[j][c][i] + router[p].granted[j][i]
           /\ \A d \in Class : d # c => entitled'[j][d] = entitled[j][d]
      BY <1>1 DEF CommitStep
<1>3. MatchTypes /\ MatchInv'
      BY CommitKeeps DEF MatchInv
<1>4. ASSUME NEW j \in Job PROVE Market!Grows(j, c)
  <2>1. /\ entitled'[j][c] \in [Offer -> Nat]
        /\ SumOver(entitled'[j][c], Offer) <= wanted'[j][c]
        /\ \A i \in Offer : entitled'[j][c][i] <= Offers[i].tasks
        BY <1>2, <1>3 DEF MatchInv, Entitled
  <2>2. ASSUME NEW i \in Offer
        PROVE  \/ entitled'[j][c][i] = entitled[j][c][i]
               \/ entitled[j][c][i] = 0 /\ i \in Suits[j][c]
    <3>1. router[p].granted[j][i] \in Nat /\ entitled[j][c][i] \in Nat
          BY <1>2, <1>3, SumsAre
    <3>2. router[p].granted[j][i] > 0 => entitled[j][c][i] = 0 /\ i \in Suits[j][c]
          BY <3>1, <1>2, HeldIs DEF GrantsAreFresh, Fresh
    <3> QED BY <3>1, <3>2, <1>2
  <2> QED BY <1>2, <2>1, <2>2, BidGrows
<1>5. Market!Serve(c)
      BY <1>2, <1>4 DEF Market!Serve
<1> QED BY <1>2, <1>5

\* Whatever handlers run at once, bids and matches are as MatchBook has them: a job's bids
\* are posted once, and under a bid matches are only added, to offers that suit it and were
\* not matched to it before, within what it wants.
THEOREM ImplementsMatchBook == MatchSpec => KeepsMatchBook
<1>1. MatchInit => Market!Init
      BY DEF MatchInit, Market!Init, NoFills
<1>2. MatchInv /\ GrantsAreFresh /\ [MatchNext]_matchVars => [Market!Next]_<<wanted, entitled>>
  <2> SUFFICES ASSUME MatchInv, GrantsAreFresh, MatchNext
               PROVE  Market!Next \/ UNCHANGED <<wanted, entitled>>
      BY DEF matchVars
  <2>1. ASSUME NEW p \in Process, PostBids(p)
        PROVE  Market!Next \/ UNCHANGED <<wanted, entitled>>
        BY <2>1, PostIsBooked DEF Market!Next
  <2>2. ASSUME NEW p \in Process, CommitRefill(p)
        PROVE  Market!Next \/ UNCHANGED <<wanted, entitled>>
        BY <2>2, CommitIsBooked DEF Market!Next
  <2>3. ASSUME NEW p \in Process,
               \/ StartRefill(p) \/ RouterFails(p)
               \/ \E j \in Job : Plan(p, j) \/ RefillBid(p, j)
               \/ \E i \in Offer : CreateListing(p, i)
        PROVE  UNCHANGED <<wanted, entitled>>
        BY <2>3, ZenonT(40) DEF StartRefill, RouterFails, Plan, RefillBid, CreateListing
  <2>4. ASSUME NEW i \in Offer,
               \/ WithdrawListing(i) \/ MachineLeaves(i) \/ MachineReturns(i)
               \/ \E k \in Offer : RecordChanges(i, k)
        PROVE  UNCHANGED <<wanted, entitled>>
        BY <2>4 DEF WithdrawListing, MachineLeaves, MachineReturns, RecordChanges
  <2> QED BY <2>1, <2>2, <2>3, <2>4 DEF MatchNext
<1> QED BY <1>1, <1>2, MatchBegins, MatchKeeps, FreshAtFirst, GrantsStayFresh, PTL
        DEF MatchSpec, KeepsMatchBook, Market!Spec

-----------------------------------------------------------------------------
(* One record of a listing's host at a time. *)

Apart(f) == \A i, k \in Offer : i # k /\ Same(i, k) => f[i] = 0 \/ f[k] = 0
OneInTheBook == \A i, k \in Offer : i # k /\ Same(i, k) => listing[i] = "none" \/ listing[k] = "none"
PlanApart(r) == r.at = "planned" => \A c \in Class : Apart(r.plan[c].fills)
RecordsApart ==
  /\ OneInTheBook /\ \A j \in Job, c \in Class : Apart(entitled[j][c])
  /\ \A p \in Process : PlanApart(router[p]) /\ \A j \in Job : Apart(router[p].granted[j])

LEMMA NoFillsApart == Apart(NoFills)
  BY DEF Apart, NoFills

\* What is taken of open asks takes no listing twice.
LEMMA OpenIsApart ==
  ASSUME OneInTheBook, NEW f \in [Offer -> Nat], NEW c,
         \A i \in Offer : f[i] > 0 => i \in OpenAsks(c)
  PROVE  Apart(f)
<1>1. \A i \in Offer : f[i] \in Nat /\ (f[i] # 0 => listing[i] = "open")
      BY DEF OpenAsks
<1> QED BY <1>1 DEF Apart, OneInTheBook

LEMMA ApartAtFirst == MatchInit => RecordsApart
<1> SUFFICES ASSUME MatchInit PROVE RecordsApart
    OBVIOUS
<1>1. /\ OneInTheBook
      /\ \A j \in Job, c \in Class : entitled[j][c] = NoFills
      /\ \A p \in Process : router[p] = IdleRouter
      BY DEF MatchInit, OneInTheBook
<1> QED BY <1>1, NoFillsApart, IdleIs DEF RecordsApart, PlanApart

\* A handler that has planned nothing takes the place of another, and matches stay.
LEMMA ApartWhenTurning ==
  ASSUME RecordsApart, entitled' = entitled, OneInTheBook',
         \A q \in Process : \/ router'[q] = router[q]
                            \/ /\ router'[q].at # "planned"
                               /\ \A j \in Job : Apart(router'[q].granted[j])
  PROVE  RecordsApart'
<1>1. \A q \in Process : PlanApart(router'[q]) /\ \A j \in Job : Apart(router'[q].granted[j])
      BY DEF RecordsApart, PlanApart
<1>2. \A j \in Job, c \in Class : Apart(entitled'[j][c])
      BY DEF RecordsApart
<1> QED BY <1>1, <1>2 DEF RecordsApart, PlanApart, Apart

LEMMA ApartAfterPlan ==
  ASSUME MatchInv, RecordsApart, NEW p \in Process, NEW j \in Job, Plan(p, j)
  PROVE  RecordsApart'
<1> DEFINE seen == {i \in Offer : listing[i] = "open"}
           plan == PlanPoolRouting(j)
           r == [IdleRouter EXCEPT !.at = "planned", !.job = j, !.plan = plan, !.seen = seen]
<1>1. router' = [router EXCEPT ![p] = r] /\ listing' = listing /\ entitled' = entitled
      BY DEF Plan
<1>2. \A c \in Class : /\ plan[c].fills \in [Offer -> Nat]
                       /\ \A i \in Offer : plan[c].fills[i] > 0 => i \in OpenAsks(c)
  <2>1. /\ BidsSound(j, plan)
        /\ BidsServed(j, plan, PlanSpent(plan) >= UnprovenTaskBudget(Jobs[j].tasks))
        BY PlanIs
  <2> HIDE DEF plan
  <2> QED BY <2>1 DEF BidsSound, BidsServed, Bids
<1> HIDE DEF plan, seen
<1>3. r.plan = plan /\ r.granted = IdleRouter.granted
      BY DEF IdleRouter
<1> HIDE DEF r
<1>4. router'[p] = r /\ \A q \in Process : q # p => router'[q] = router[q]
      BY <1>1 DEF MatchInv, MatchTypes
<1>5. \A c \in Class : Apart(plan[c].fills)
      BY <1>2, OpenIsApart DEF RecordsApart
<1>6. \A q \in Process : PlanApart(router'[q]) /\ \A k \in Job : Apart(router'[q].granted[k])
  <2> TAKE q \in Process
  <2>1. CASE q = p
        BY <2>1, <1>3, <1>4, <1>5, IdleIs, NoFillsApart DEF PlanApart
  <2>2. CASE q # p
        BY <2>2, <1>4 DEF RecordsApart
  <2> QED BY <2>1, <2>2
<1>7. (\A k \in Job, c \in Class : Apart(entitled'[k][c])) /\ OneInTheBook'
      BY <1>1 DEF RecordsApart, OneInTheBook
<1> QED BY <1>6, <1>7 DEF RecordsApart, PlanApart, Apart

LEMMA ApartAfterPost ==
  ASSUME MatchInv, RecordsApart, NEW p \in Process, PostBids(p)
  PROVE  RecordsApart'
<1> DEFINE j == router[p].job
<1>1. /\ router[p].at = "planned" /\ listing' = listing
      /\ entitled' = [entitled EXCEPT ![j] = [c \in Class |-> router[p].plan[c].fills]]
      /\ router' = [router EXCEPT ![p] = IdleRouter]
      BY DEF PostBids
<1>2. j \in Job
      BY <1>1 DEF MatchInv, RoutersInOrder, InOrder
<1>3. \A c \in Class : Apart(router[p].plan[c].fills)
      BY <1>1 DEF RecordsApart, PlanApart
<1>4. /\ \A c \in Class : entitled'[j][c] = router[p].plan[c].fills
      /\ \A k \in Job : k # j => entitled'[k] = entitled[k]
      BY <1>1, <1>2 DEF MatchInv, MatchTypes
<1> HIDE DEF j
<1>5. \A k \in Job, c \in Class : Apart(entitled'[k][c])
      BY <1>3, <1>4 DEF RecordsApart
<1>6. router'[p] = IdleRouter /\ \A q \in Process : q # p => router'[q] = router[q]
      BY <1>1 DEF MatchInv, MatchTypes
<1>7. \A q \in Process : PlanApart(router'[q]) /\ \A k \in Job : Apart(router'[q].granted[k])
  <2> TAKE q \in Process
  <2>1. CASE q = p
        BY <2>1, <1>6, IdleIs, NoFillsApart DEF PlanApart
  <2>2. CASE q # p
        BY <2>2, <1>6 DEF RecordsApart
  <2> QED BY <2>1, <2>2
<1>8. OneInTheBook'
      BY <1>1 DEF RecordsApart, OneInTheBook
<1> QED BY <1>5, <1>7, <1>8 DEF RecordsApart, PlanApart, Apart

LEMMA ApartAfterRefill ==
  ASSUME MatchInv, RecordsApart, NEW p \in Process, NEW j \in Job, RefillBid(p, j)
  PROVE  RecordsApart'
<1>1. PICK c, g, r : RefillStep(p, j, c, g, r)
      BY RefillSteps
<1>2. /\ entitled' = entitled /\ listing' = listing /\ g \in [Offer -> Nat]
      /\ (~Waits(j, c) /\ g = NoFills) \/ RefillSound(j, c, entitled[j], OpenAsks(c), g)
      /\ r.at = "refilling"
      /\ r.granted[j] = g /\ \A k \in Job : k # j => r.granted[k] = router[p].granted[k]
      /\ router' = [router EXCEPT ![p] = r]
      BY <1>1 DEF RefillStep
<1>3. Apart(g)
  <2>1. CASE g = NoFills
        BY <2>1, NoFillsApart
  <2>2. CASE RefillSound(j, c, entitled[j], OpenAsks(c), g)
    <3>1. \A i \in Offer : g[i] > 0 => i \in OpenAsks(c)
          BY <2>2 DEF RefillSound
    <3> QED BY <3>1, <1>2, OpenIsApart DEF RecordsApart
  <2> QED BY <2>1, <2>2, <1>2
<1>4. router'[p] = r /\ \A q \in Process : q # p => router'[q] = router[q]
      BY <1>2 DEF MatchInv, MatchTypes
<1>5. \A k \in Job : Apart(r.granted[k])
      BY <1>2, <1>3 DEF RecordsApart
<1>6. OneInTheBook'
      BY <1>2 DEF RecordsApart, OneInTheBook
<1>7. \A q \in Process : \/ router'[q] = router[q]
                         \/ router'[q].at # "planned" /\ \A k \in Job : Apart(router'[q].granted[k])
  <2> TAKE q \in Process
  <2>1. r.at # "planned"
        BY <1>2
  <2> QED BY <2>1, <1>4, <1>5
<1> QED BY <1>2, <1>6, <1>7, ApartWhenTurning

\* What is committed is new to the bid, so no listing comes to it twice.
LEMMA ApartAfterCommit ==
  ASSUME MatchInv, GrantsAreFresh, RecordsApart, NEW p \in Process, CommitRefill(p)
  PROVE  RecordsApart'
<1>1. PICK c : CommitStep(p, c)
      BY CommitSteps
<1>2. /\ c \in Class /\ Refills(router[p], c) /\ router' = [router EXCEPT ![p] = IdleRouter]
      /\ listing' = listing
      /\ \A j \in Job :
           /\ \A i \in Offer : entitled'[j][c][i] = entitled[j][c][i] + router[p].granted[j][i]
           /\ \A d \in Class : d # c => entitled'[j][d] = entitled[j][d]
      BY <1>1 DEF CommitStep
<1>3. router'[p] = IdleRouter /\ \A q \in Process : q # p => router'[q] = router[q]
      BY <1>2 DEF MatchInv, MatchTypes
<1>4. ASSUME NEW j \in Job PROVE Apart(entitled'[j][c])
  <2> SUFFICES ASSUME NEW i \in Offer, NEW k \in Offer, i # k, Same(i, k)
               PROVE  entitled'[j][c][i] = 0 \/ entitled'[j][c][k] = 0
      BY DEF Apart
  <2>1. /\ entitled[j][c][i] \in Nat /\ entitled[j][c][k] \in Nat
        /\ router[p].granted[j][i] \in Nat /\ router[p].granted[j][k] \in Nat
    <3>1. MatchTypes
          BY DEF MatchInv
    <3>2. entitled[j][c] \in [Offer -> Nat] /\ router[p].granted[j] \in [Offer -> Nat]
          BY <3>1, <1>2, SumsAre
    <3> QED BY <3>2
  <2>2. /\ entitled[j][c][i] = 0 \/ entitled[j][c][k] = 0
        /\ router[p].granted[j][i] = 0 \/ router[p].granted[j][k] = 0
        BY <1>2 DEF RecordsApart, Apart
  <2>3. /\ router[p].granted[j][i] > 0 => entitled[j][c][i] = 0 /\ entitled[j][c][k] = 0
        /\ router[p].granted[j][k] > 0 => entitled[j][c][i] = 0 /\ entitled[j][c][k] = 0
    <3>1. /\ router[p].granted[j][i] > 0 => i \notin Held(entitled[j][c])
          /\ router[p].granted[j][k] > 0 => k \notin Held(entitled[j][c])
          BY <1>2 DEF GrantsAreFresh, Fresh
    <3>2. i \in Held(entitled[j][c]) <=> k \in Held(entitled[j][c])
          BY DEF Held, Same
    <3> QED BY <3>1, <3>2, <2>1, HeldIs
  <2>4. /\ entitled'[j][c][i] = entitled[j][c][i] + router[p].granted[j][i]
        /\ entitled'[j][c][k] = entitled[j][c][k] + router[p].granted[j][k]
        BY <1>2
  <2> QED BY <2>1, <2>2, <2>3, <2>4
<1>5. \A j \in Job, d \in Class : Apart(entitled'[j][d])
  <2> TAKE j \in Job, d \in Class
  <2>1. CASE d = c
        BY <2>1, <1>4
  <2>2. CASE d # c
        BY <2>2, <1>2 DEF RecordsApart
  <2> QED BY <2>1, <2>2
<1>6. \A q \in Process : PlanApart(router'[q]) /\ \A k \in Job : Apart(router'[q].granted[k])
  <2> TAKE q \in Process
  <2>1. CASE q = p
        BY <2>1, <1>3, IdleIs, NoFillsApart DEF PlanApart
  <2>2. CASE q # p
        BY <2>2, <1>3 DEF RecordsApart
  <2> QED BY <2>1, <2>2
<1>7. OneInTheBook'
      BY <1>2 DEF RecordsApart, OneInTheBook
<1> QED BY <1>5, <1>6, <1>7 DEF RecordsApart, PlanApart, Apart

\* A listing is made, goes or comes back, or its host's record is another.
LEMMA BookStaysOne ==
  ASSUME MatchInv, OneInTheBook, NEW i \in Offer,
         \/ \E p \in Process : CreateListing(p, i)
         \/ WithdrawListing(i) \/ MachineLeaves(i) \/ MachineReturns(i)
         \/ \E k \in Offer : RecordChanges(i, k)
  PROVE  OneInTheBook'
<1>0. listing \in [Offer -> {"none", "open", "away", "withdrawn"}]
      BY DEF MatchInv, MatchTypes
<1>1. CASE \E p \in Process : CreateListing(p, i)
  <2>1. /\ \A k \in Offer : Same(i, k) => listing[k] = "none"
        /\ listing' = [listing EXCEPT ![i] = "open"]
        BY <1>1 DEF CreateListing
  <2> QED BY <2>1, <1>0 DEF OneInTheBook, Same
<1>2. CASE WithdrawListing(i) \/ MachineLeaves(i) \/ MachineReturns(i)
  <2>1. listing[i] # "none" /\ \E s : listing' = [listing EXCEPT ![i] = s]
        BY <1>2 DEF WithdrawListing, MachineLeaves, MachineReturns
  <2> QED BY <2>1, <1>0 DEF OneInTheBook
<1>3. ASSUME NEW k \in Offer, RecordChanges(i, k) PROVE OneInTheBook'
  <2>1. /\ listing[i] # "none" /\ k # i /\ Same(i, k)
        /\ listing' = [listing EXCEPT ![i] = "none", ![k] = listing[i]]
        BY <1>3 DEF RecordChanges
  <2>2. \A m \in Offer : m # k => listing'[m] = IF m = i THEN "none" ELSE listing[m]
        BY <2>1, <1>0
  <2>3. \A m \in Offer : m # k /\ Same(m, k) => listing'[m] = "none"
        BY <2>1, <2>2 DEF OneInTheBook, Same
  <2> QED BY <2>2, <2>3 DEF OneInTheBook, Same
<1> QED BY <1>1, <1>2, <1>3

LEMMA RecordsStayApart ==
  MatchInv /\ GrantsAreFresh /\ RecordsApart /\ [MatchNext]_matchVars => RecordsApart'
<1> SUFFICES ASSUME MatchInv, GrantsAreFresh, RecordsApart, [MatchNext]_matchVars
             PROVE  RecordsApart'
    OBVIOUS
<1>0. router \in [Process -> Routers] /\ OneInTheBook
      BY DEF MatchInv, MatchTypes, RecordsApart
<1>1. CASE UNCHANGED matchVars
  <2>1. OneInTheBook'
        BY <1>0, <1>1 DEF matchVars, OneInTheBook
  <2> QED BY <1>1, <2>1, ApartWhenTurning DEF matchVars
<1>2. ASSUME NEW p \in Process, PostBids(p) PROVE RecordsApart'
      BY <1>2, ApartAfterPost
<1>3. ASSUME NEW p \in Process, CommitRefill(p) PROVE RecordsApart'
      BY <1>3, ApartAfterCommit
<1>4. ASSUME NEW p \in Process, NEW j \in Job, Plan(p, j) PROVE RecordsApart'
      BY <1>4, ApartAfterPlan
<1>5. ASSUME NEW p \in Process, NEW j \in Job, RefillBid(p, j) PROVE RecordsApart'
      BY <1>5, ApartAfterRefill
<1>6. ASSUME NEW p \in Process, StartRefill(p) \/ RouterFails(p) PROVE RecordsApart'
  <2>1. /\ entitled' = entitled /\ listing' = listing
        /\ \A q \in Process : q # p => router'[q] = router[q]
        BY <1>0, <1>6 DEF StartRefill, RouterFails
  <2>2. \/ router'[p] = IdleRouter
        \/ router'[p].at = "refilling" /\ router'[p].granted = router[p].granted
        BY <1>0, <1>6 DEF StartRefill, RouterFails, Routers
  <2>3. router'[p].at # "planned" /\ \A j \in Job : Apart(router'[p].granted[j])
        BY <2>2, IdleIs, NoFillsApart DEF RecordsApart
  <2>4. OneInTheBook'
        BY <1>0, <2>1 DEF OneInTheBook
  <2> QED BY <2>1, <2>3, <2>4, ApartWhenTurning
<1>7. ASSUME NEW p \in Process, NEW i \in Offer, CreateListing(p, i) PROVE RecordsApart'
  <2>1. OneInTheBook'
        BY <1>0, <1>7, BookStaysOne
  <2>2. /\ entitled' = entitled /\ \A q \in Process : q # p => router'[q] = router[q]
        /\ router'[p] = [IdleRouter EXCEPT !.at = "listed", !.offer = i]
        BY <1>0, <1>7 DEF CreateListing
  <2>3. router'[p].at # "planned" /\ router'[p].granted = IdleRouter.granted
        BY <2>2 DEF IdleRouter
  <2>4. \A j \in Job : Apart(router'[p].granted[j])
        BY <2>3, IdleIs, NoFillsApart
  <2> QED BY <2>1, <2>2, <2>3, <2>4, ApartWhenTurning
<1>8. ASSUME NEW i \in Offer,
             \/ WithdrawListing(i) \/ MachineLeaves(i) \/ MachineReturns(i)
             \/ \E k \in Offer : RecordChanges(i, k)
      PROVE  RecordsApart'
  <2>1. OneInTheBook'
        BY <1>0, <1>8, BookStaysOne
  <2>2. entitled' = entitled /\ router' = router
        BY <1>8 DEF WithdrawListing, MachineLeaves, MachineReturns, RecordChanges
  <2> QED BY <2>1, <2>2, ApartWhenTurning
<1> QED BY <1>1, <1>2, <1>3, <1>4, <1>5, <1>6, <1>7, <1>8 DEF MatchNext

\* A bid is never entitled to more than it wants, nor an offer to more tasks than it listed,
\* nor a listing twice, though any number of refills plan for it at once and the records of
\* the hosts change.
THEOREM BidsAreNotOverfilled == MatchSpec => []NotOverEntitled
<1>1. MatchInv /\ RecordsApart => NotOverEntitled
  <2> SUFFICES ASSUME MatchInv, RecordsApart, NEW j \in Job, NEW c \in Class
               PROVE  /\ SumFunction(entitled[j][c]) <= wanted[j][c]
                      /\ \A i \in Offer : entitled[j][c][i] <= Offers[i].tasks
                      /\ \A i, k \in Offer :
                           i # k /\ Same(i, k) => entitled[j][c][i] = 0 \/ entitled[j][c][k] = 0
      BY DEF NotOverEntitled
  <2>1. DOMAIN entitled[j][c] = Offer
        BY DEF MatchInv, MatchTypes
  <2>2. SumFunction(entitled[j][c]) = SumOver(entitled[j][c], Offer)
        BY <2>1, SumFunctionIsTotal DEF SumFunction
  <2> QED BY <2>2 DEF MatchInv, Entitled, RecordsApart, Apart
<1> QED BY <1>1, MatchBegins, MatchKeeps, FreshAtFirst, GrantsStayFresh, ApartAtFirst,
           RecordsStayApart, PTL DEF MatchSpec

-----------------------------------------------------------------------------
(* Demand is served: submits. *)

\* With g granted besides, a listing has matches of a bid, or the bid needs no more, or the
\* offer is a newcomer and may have no more.
Covered(j, c, i, g) ==
  \/ i \in Held(entitled[j][c]) \/ g[i] > 0
  \/ SumOver(entitled[j][c], Offer) + SumOver(g, Offer) >= wanted[j][c]
  \/ Newcomer(Offers[i]) /\ JobSpent(j) + SumOver(g, Unproven) >= JobBudget(j)
\* The offer's own refill has yet to come to the bid, or has covered it.
Owed(r, j, c, i) ==
  /\ r.at \in {"listed", "refilling"} /\ r.offer = i
  /\ r.at = "refilling" => j \in r.queue \/ Covered(j, c, i, r.granted[j])
DemandServed ==
  \A j \in Job, c \in Class : \A i \in OpenAsks(c) \ unannounced :
    Can(j, i) => Covered(j, c, i, NoFills) \/ \E p \in Process : Owed(router[p], j, c, i)
\* A plan that leaves a bid short has taken what it saw.
PlanServes(r) ==
  r.at = "planned" =>
    \A c \in Class : SumOver(r.plan[c].fills, Offer) < r.plan[c].wanted =>
      \A i \in r.seen : Offers[i].class = c /\ Can(r.job, i) =>
        \/ r.plan[c].fills[i] > 0
        \/ Newcomer(Offers[i]) /\ PlanSpent(r.plan) >= UnprovenTaskBudget(Jobs[r.job].tasks)
PlansServe == \A p \in Process : PlanServes(router[p])

\* A bid that does not wait is covered.
LEMMA FilledIsCovered ==
  ASSUME MatchTypes, NEW j \in Job, NEW c \in Class, NEW i \in Offer, NEW g \in [Offer -> Nat],
         ~Waits(j, c)
  PROVE  Covered(j, c, i, g)
<1>1. /\ SumOver(entitled[j][c], Offer) \in Nat /\ wanted[j][c] \in Nat
      /\ SumOver(g, Offer) \in Nat
      BY SumsAre, FillsSum
<1>2. ~(wanted[j][c] > SumOver(entitled[j][c], Offer))
      BY WaitsIs
<1> QED BY <1>1, <1>2 DEF Covered

\* What handlers do to what they owe, where no match is made.
LEMMA OwedStays ==
  ASSUME MatchInv, DemandServed, entitled' = entitled, wanted' = wanted,
         \A c \in Class : OpenAsks(c)' \ unannounced' \subseteq OpenAsks(c) \ unannounced,
         \A p \in Process, j \in Job, c \in Class : \A i \in OpenAsks(c) \ unannounced :
           i \notin unannounced' /\ Owed(router[p], j, c, i) => Owed(router[p], j, c, i)'
  PROVE  DemandServed'
<1> SUFFICES ASSUME NEW j \in Job, NEW c \in Class, NEW i \in OpenAsks(c)' \ unannounced',
                    Can(j, i)
             PROVE  Covered(j, c, i, NoFills)' \/ \E p \in Process : Owed(router[p], j, c, i)'
    BY DEF DemandServed, Can
<1>1. i \in OpenAsks(c) \ unannounced /\ i \notin unannounced'
      OBVIOUS
<1>2. CASE Covered(j, c, i, NoFills)
      BY <1>2 DEF Covered, JobSpent, JobBudget
<1>3. CASE \E p \in Process : Owed(router[p], j, c, i)
      BY <1>1, <1>3
<1> QED BY <1>1, <1>2, <1>3 DEF DemandServed

LEMMA PlanServesDemand ==
  ASSUME MatchInv, DemandServed, PlansServe, NEW p \in Process, NEW j \in Job, Plan(p, j)
  PROVE  DemandServed' /\ PlansServe'
<1> DEFINE seen == {i \in Offer : listing[i] = "open"}
           plan == PlanPoolRouting(j)
           r == [IdleRouter EXCEPT !.at = "planned", !.job = j, !.plan = plan, !.seen = seen]
<1>1. /\ router' = [router EXCEPT ![p] = r] /\ listing' = listing /\ wanted' = wanted
      /\ entitled' = entitled /\ unannounced' = unannounced /\ router[p].at = "idle"
      BY DEF Plan
<1>2. BidsServed(j, plan, PlanSpent(plan) >= UnprovenTaskBudget(Jobs[j].tasks))
      BY PlanIs
<1>3. \A c \in Class : OpenAsks(c) = {i \in seen : Offers[i].class = c}
      BY DEF OpenAsks
<1> HIDE DEF plan, seen
<1>4. r.at = "planned" /\ r.job = j /\ r.plan = plan /\ r.seen = seen
      BY DEF IdleRouter
<1> HIDE DEF r
<1>5. router'[p] = r /\ \A q \in Process : q # p => router'[q] = router[q]
      BY <1>1 DEF MatchInv, MatchTypes
<1>6. PlanServes(r)
      BY <1>2, <1>3, <1>4 DEF PlanServes, BidsServed
<1>7. PlansServe'
  <2>1. \A q \in Process : PlanServes(router'[q])
        BY <1>5, <1>6 DEF PlansServe
  <2> QED BY <2>1 DEF PlansServe, PlanServes
<1>8. DemandServed'
  <2>1. \A c \in Class : OpenAsks(c)' = OpenAsks(c)
        BY <1>1 DEF OpenAsks
  <2>2. ASSUME NEW q \in Process, NEW k \in Job, NEW c \in Class, NEW i \in Offer,
               Owed(router[q], k, c, i)
        PROVE  Owed(router[q], k, c, i)'
    <3>1. q # p
          BY <2>2, <1>1 DEF Owed
    <3>2. router'[q] = router[q]
          BY <3>1, <1>5
    <3> QED BY <2>2, <3>2, <1>1 DEF Owed, Covered, JobSpent, JobBudget
  <2>3. \A c \in Class : OpenAsks(c) \subseteq Offer
        BY DEF OpenAsks
  <2> QED BY <2>1, <2>2, <2>3, <1>1, OwedStays
<1> QED BY <1>7, <1>8

\* Bids posted leave out nothing that the plan saw; what it did not see is unannounced.
LEMMA PostServesDemand ==
  ASSUME MatchInv, DemandServed, PlansServe, NEW p \in Process, PostBids(p), MatchInv'
  PROVE  DemandServed' /\ PlansServe'
<1>0. PICK j, plan : j = router[p].job /\ plan = router[p].plan
      OBVIOUS
<1> DEFINE bids == [c \in Class |-> plan[c].fills]
           wants == [c \in Class |-> plan[c].wanted]
<1>1. /\ router[p].at = "planned" /\ router' = [router EXCEPT ![p] = IdleRouter]
      /\ wanted' = [wanted EXCEPT ![j] = wants] /\ entitled' = [entitled EXCEPT ![j] = bids]
      /\ listing' = listing
      /\ unannounced' = unannounced \cup ({i \in Offer : listing[i] = "open"} \ router[p].seen)
      BY <1>0 DEF PostBids
<1>2. MatchTypes /\ MatchTypes'
      BY DEF MatchInv
<1>3. j \in Job /\ BidsSound(j, plan) /\ plan \in [Class -> Bids]
      BY <1>0, <1>1 DEF MatchInv, RoutersInOrder, InOrder, BidsSound
<1>4. /\ wanted'[j] = wants /\ entitled'[j] = bids
      /\ \A k \in Job : k # j => wanted'[k] = wanted[k] /\ entitled'[k] = entitled[k]
      BY <1>1, <1>2, <1>3 DEF MatchTypes
<1>5. router'[p] = IdleRouter /\ \A q \in Process : q # p => router'[q] = router[q]
      BY <1>1, <1>2 DEF MatchTypes
<1>6. \A c \in Class : bids[c] = plan[c].fills /\ wants[c] = plan[c].wanted
      OBVIOUS
<1>7. PlanServes(router[p])
      BY DEF PlansServe
<1>8. JobSpent(j)' = PlanSpent(plan)
      BY <1>4 DEF JobSpent, PlanSpent, BidsSpent
<1> HIDE DEF bids, wants
<1>9. PlansServe'
  <2>1. PlanServes(IdleRouter)
        BY IdleIs DEF PlanServes
  <2>2. \A q \in Process : PlanServes(router'[q])
        BY <2>1, <1>5 DEF PlansServe
  <2> QED BY <2>2 DEF PlansServe, PlanServes
<1>10. DemandServed'
  <2> SUFFICES ASSUME NEW k \in Job, NEW c \in Class, NEW i \in OpenAsks(c)' \ unannounced',
                      Can(k, i)
               PROVE  Covered(k, c, i, NoFills)' \/ \E q \in Process : Owed(router[q], k, c, i)'
      BY DEF DemandServed, Can
  <2>1. /\ i \in Offer /\ Offers[i].class = c /\ i \in OpenAsks(c) \ unannounced
        /\ i \in router[p].seen
        BY <1>1 DEF OpenAsks
  <2>2. CASE k = j
    <3>1. \/ ~(SumOver(plan[c].fills, Offer) < plan[c].wanted) \/ plan[c].fills[i] > 0
          \/ Newcomer(Offers[i]) /\ PlanSpent(plan) >= UnprovenTaskBudget(Jobs[j].tasks)
          BY <2>1, <2>2, <1>0, <1>1, <1>7 DEF PlanServes
    <3>2. SumOver(NoFills, Offer) = 0 /\ SumOver(NoFills, Unproven) = 0
          BY NoneSum
    <3>3. SumOver(plan[c].fills, Offer) \in Nat /\ plan[c].wanted \in Nat
      <4>1. plan[c].fills \in [Offer -> Nat] /\ plan[c].wanted \in Nat
            BY <1>3 DEF Bids
      <4> QED BY <4>1, FillsSum
    <3>4. CASE ~(SumOver(plan[c].fills, Offer) < plan[c].wanted)
          BY <3>2, <3>3, <3>4, <2>2, <1>4, <1>6 DEF Covered
    <3>5. CASE plan[c].fills[i] > 0
          BY <3>5, <2>1, <2>2, <1>4, <1>6, HeldIs DEF Covered
    <3>6. CASE Newcomer(Offers[i]) /\ PlanSpent(plan) >= UnprovenTaskBudget(Jobs[j].tasks)
      <4>1. (\A d \in Class : wanted[j][d] <= Jobs[j].tasks)'
            BY <1>3, <1>4, <1>6 DEF BidsSound
      <4>2. JobBudget(j)' \in Nat /\ JobBudget(j)' <= UnprovenTaskBudget(Jobs[j].tasks)
        <5>1. wanted' \in [Job -> [Class -> Nat]] /\ Jobs[j].tasks \in Nat
              BY <1>2, <1>3, MatchAssumption DEF MatchTypes
        <5> DEFINE w == wanted'[j]
                   S == {w[d] : d \in Class}
        <5>2. /\ \A d \in Class : w[d] \in Nat /\ w[d] <= Jobs[j].tasks
              BY <4>1, <5>1, <1>3
        <5>3. S # {} /\ S \subseteq Nat /\ S \subseteq Int
              BY <5>2
        <5>4. JobBudget(j)' = UnprovenTaskBudget(Max(S))
              BY DEF JobBudget, UnprovenTaskBudget
        <5> HIDE DEF w
        <5>5. IsFiniteSet(S)
              BY ClassFinite, ImageFinite
        <5> HIDE DEF S
        <5>6. Max(S) \in S
              BY <5>3, <5>5, MaxIs
        <5>7. Max(S) \in Nat /\ Max(S) <= Jobs[j].tasks
              BY <5>2, <5>3, <5>6 DEF S
        <5> QED BY <5>1, <5>4, <5>7, BudgetIs, BudgetGrows
      <4>3. PlanSpent(plan) \in Nat /\ UnprovenTaskBudget(Jobs[j].tasks) \in Nat
            BY <1>3, PlanSpentIs, MatchAssumption, BudgetIs
      <4>4. JobSpent(j)' + 0 >= JobBudget(j)'
            BY <3>6, <4>2, <4>3, <1>8
      <4> QED BY <3>2, <3>6, <4>4, <2>2 DEF Covered
    <3> QED BY <3>1, <3>4, <3>5, <3>6
  <2>3. CASE k # j
    <3>2. ASSUME NEW q \in Process, Owed(router[q], k, c, i) PROVE Owed(router[q], k, c, i)'
      <4>1. router'[q] = router[q]
            BY <3>2, <1>1, <1>5 DEF Owed
      <4> QED BY <3>2, <4>1, <2>3, <1>4 DEF Owed, Covered, JobSpent, JobBudget
    <3>3. Covered(k, c, i, NoFills) \/ \E q \in Process : Owed(router[q], k, c, i)
          BY <2>1 DEF DemandServed
    <3>4. Covered(k, c, i, NoFills) => Covered(k, c, i, NoFills)'
          BY <2>3, <1>4 DEF Covered, JobSpent, JobBudget, NoFills
    <3> QED BY <3>2, <3>3, <3>4
  <2> QED BY <2>2, <2>3
<1> QED BY <1>9, <1>10

-----------------------------------------------------------------------------
(* Demand is served: refills. *)

\* A handler that was no submit and is none now leaves the plans as they are.
LEMMA PlansStay ==
  ASSUME MatchInv, PlansServe, NEW p \in Process, NEW r, r.at # "planned",
         router' = [router EXCEPT ![p] = r]
  PROVE  PlansServe'
<1>1. router'[p] = r /\ \A q \in Process : q # p => router'[q] = router[q]
      BY DEF MatchInv, MatchTypes
<1>2. PlanServes(r)
      BY DEF PlanServes
<1>3. \A q \in Process : PlanServes(router'[q])
      BY <1>1, <1>2 DEF PlansServe
<1> QED BY <1>3 DEF PlansServe, PlanServes

\* A refill that begins has the bids before it that wait.
LEMMA StartServes ==
  ASSUME MatchInv, DemandServed, PlansServe, NEW p \in Process, StartRefill(p)
  PROVE  DemandServed' /\ PlansServe'
<1> DEFINE r == [router[p] EXCEPT !.at = "refilling", !.queue = OpenBids(RefillClass(p))]
<1>1. /\ router[p].at = "listed" /\ listing' = listing /\ wanted' = wanted
      /\ entitled' = entitled /\ unannounced' = unannounced
      /\ router' = [router EXCEPT ![p].at = "refilling", ![p].queue = OpenBids(RefillClass(p))]
      BY DEF StartRefill
<1>2. MatchTypes /\ router \in [Process -> Routers] /\ router[p] \in Routers
      BY DEF MatchInv, MatchTypes
<1>3. /\ r.at = "refilling" /\ r.queue = OpenBids(RefillClass(p)) /\ r.offer = router[p].offer
      /\ r.granted = router[p].granted
      BY <1>2 DEF Routers
<1>4. router' = [router EXCEPT ![p] = r]
      BY <1>1, <1>2
<1> HIDE DEF r
<1>5. router'[p] = r /\ \A q \in Process : q # p => router'[q] = router[q]
      BY <1>2, <1>4
<1>6. ASSUME NEW q \in Process, NEW k \in Job, NEW c \in Class, NEW i \in Offer,
             Offers[i].class = c, Owed(router[q], k, c, i)
      PROVE  Owed(router[q], k, c, i)'
  <2>1. CASE q # p
    <3>1. router'[q] = router[q]
          BY <2>1, <1>5
    <3> QED BY <3>1, <1>1, <1>6 DEF Owed, Covered, JobSpent, JobBudget
  <2>2. CASE q = p
    <3>1. r.offer = i /\ r.queue = OpenBids(c)
          BY <2>2, <1>3, <1>6 DEF Owed, RefillClass
    <3>2. r.granted[k] \in [Offer -> Nat]
          BY <1>2, <1>3, RouterIs
    <3>3. k \in OpenBids(c) \/ Covered(k, c, i, r.granted[k])
          BY <3>2, <1>2, <1>6, FilledIsCovered DEF OpenBids
    <3>4. router'[q] = r
          BY <2>2, <1>5
    <3> QED BY <3>1, <3>3, <3>4, <1>1, <1>3 DEF Owed, Covered, JobSpent, JobBudget
  <2> QED BY <2>1, <2>2
<1>7. \A c \in Class : OpenAsks(c)' = OpenAsks(c)
      BY <1>1 DEF OpenAsks
<1>8. \A c \in Class : \A i \in OpenAsks(c) : i \in Offer /\ Offers[i].class = c
      BY DEF OpenAsks
<1>9. DemandServed'
      BY <1>1, <1>6, <1>7, <1>8, OwedStays
<1> QED BY <1>3, <1>4, <1>9, PlansStay

\* A refill covers the bid it comes to: from what is open in its class now.
LEMMA RefillServes ==
  ASSUME MatchInv, DemandServed, PlansServe, NEW p \in Process, NEW j \in Job, RefillBid(p, j)
  PROVE  DemandServed' /\ PlansServe'
<1>1. PICK c, g, r : RefillStep(p, j, c, g, r)
      BY RefillSteps
<1> USE DEF RefillStep
<1>2. MatchTypes /\ router \in [Process -> Routers]
      BY DEF MatchInv, MatchTypes
<1>3. router'[p] = r /\ \A q \in Process : q # p => router'[q] = router[q]
      BY <1>1, <1>2
<1>4. ASSUME NEW i \in OpenAsks(c), Can(j, i) PROVE Covered(j, c, i, g)
  <2>1. CASE ~Waits(j, c)
    <3>1. i \in Offer
          BY DEF OpenAsks
    <3> QED BY <2>1, <3>1, <1>1, <1>2, FilledIsCovered
  <2>2. CASE RefillSound(j, c, entitled[j], OpenAsks(c), g)
    <3>1. \/ i \in Held(entitled[j][c]) \/ g[i] > 0
          \/ SumOver(entitled[j][c], Offer) + SumOver(g, Offer) >= wanted[j][c]
          \/ Newcomer(Offers[i]) /\ BidsSpent(entitled[j]) + SumOver(g, Unproven) >= JobBudget(j)
          BY <1>4, <2>2 DEF RefillSound
    <3> QED BY <3>1 DEF Covered, JobSpent
  <2> QED BY <2>1, <2>2, <1>1
<1>5. ASSUME NEW q \in Process, NEW k \in Job, NEW d \in Class, NEW i \in OpenAsks(d), Can(k, i),
             Owed(router[q], k, d, i)
      PROVE  Owed(router[q], k, d, i)'
  <2>1. CASE q # p
    <3>1. router'[q] = router[q]
          BY <2>1, <1>3
    <3> QED BY <3>1, <1>1, <1>5 DEF Owed, Covered, JobSpent, JobBudget
  <2>2. CASE q = p
    <3>1. router[p].offer = i /\ d = c
          BY <2>2, <1>1, <1>5 DEF Owed, OpenAsks, Refills
    <3>2. k \in r.queue \/ Covered(k, d, i, r.granted[k])
      <4>1. CASE k = j
            BY <3>1, <4>1, <1>1, <1>4, <1>5
      <4>2. CASE k # j
        <5>1. k \in router[p].queue \/ Covered(k, d, i, router[p].granted[k])
              BY <2>2, <1>1, <1>5 DEF Owed, Refills
        <5> QED BY <4>2, <5>1, <1>1
      <4> QED BY <4>1, <4>2
    <3>3. router'[q] = r
          BY <2>2, <1>3
    <3> QED BY <3>1, <3>2, <3>3, <1>1 DEF Owed, Covered, JobSpent, JobBudget
  <2> QED BY <2>1, <2>2
<1>6. DemandServed'
  <2> SUFFICES ASSUME NEW k \in Job, NEW d \in Class, NEW i \in OpenAsks(d)' \ unannounced', Can(k, i)
               PROVE  Covered(k, d, i, NoFills)' \/ \E q \in Process : Owed(router[q], k, d, i)'
      BY DEF DemandServed, Can
  <2>1. i \in OpenAsks(d) /\ i \notin unannounced
        BY <1>1 DEF OpenAsks
  <2>2. Covered(k, d, i, NoFills) \/ \E q \in Process : Owed(router[q], k, d, i)
        BY <2>1 DEF DemandServed
  <2>3. Covered(k, d, i, NoFills) => Covered(k, d, i, NoFills)'
        BY <1>1 DEF Covered, JobSpent, JobBudget
  <2> QED BY <2>1, <2>2, <2>3, <1>5
<1> QED BY <1>1, <1>6, PlansStay

\* What a refill commits covers what it covered, and nothing less than before.
LEMMA CommitServes ==
  ASSUME MatchInv, DemandServed, PlansServe, NEW p \in Process, CommitRefill(p)
  PROVE  DemandServed' /\ PlansServe'
<1>1. PICK c : CommitStep(p, c)
      BY CommitSteps
<1> USE DEF CommitStep
<1>2. MatchTypes /\ router \in [Process -> Routers]
      BY DEF MatchInv, MatchTypes
<1>3. router'[p] = IdleRouter /\ \A q \in Process : q # p => router'[q] = router[q]
      BY <1>1, <1>2
<1>4. ASSUME NEW k \in Job, NEW d \in Class, NEW i \in Offer
      PROVE  /\ entitled[k][d][i] \in Nat /\ entitled'[k][d][i] \in Nat
             /\ entitled'[k][d][i] >= entitled[k][d][i]
             /\ SumOver(entitled[k][d], Offer) \in Nat /\ SumOver(entitled'[k][d], Offer) \in Nat
             /\ SumOver(entitled'[k][d], Offer) >= SumOver(entitled[k][d], Offer)
             /\ JobSpent(k) \in Nat /\ JobSpent(k)' \in Nat /\ JobSpent(k)' >= JobSpent(k)
             /\ JobBudget(k)' = JobBudget(k) /\ JobBudget(k) \in Nat
  <2>1. /\ entitled[k][d] \in [Offer -> Nat] /\ JobSpent(k) \in Nat
        /\ SumOver(entitled[k][d], Offer) \in Nat
        /\ router[p].granted[k] \in [Offer -> Nat]
        /\ SumOver(router[p].granted[k], Offer) \in Nat
        /\ SumOver(router[p].granted[k], Unproven) \in Nat
        BY <1>2, SumsAre
  <2>2. JobSpent(k)' \in Nat /\ JobSpent(k)' >= JobSpent(k)
        BY <2>1, <1>1
  <2>3. JobBudget(k)' = JobBudget(k)
        BY <1>1 DEF JobBudget
  <2>4. JobBudget(k) \in Nat
    <3>1. wanted \in [Job -> [Class -> Nat]]
          BY <1>2 DEF MatchTypes
    <3> QED BY <3>1, JobBudgetIs
  <2>5. CASE d = c
    <3>1. entitled'[k][d][i] = entitled[k][d][i] + router[p].granted[k][i]
          BY <2>5, <1>1
    <3>2. entitled[k][d][i] \in Nat /\ router[p].granted[k][i] \in Nat
          BY <2>1
    <3>3. SumOver(entitled'[k][d], Offer)
            = SumOver(entitled[k][d], Offer) + SumOver(router[p].granted[k], Offer)
          BY <2>5, <1>1
    <3> QED BY <2>1, <2>2, <2>3, <2>4, <3>1, <3>2, <3>3
  <2>6. CASE d # c
    <3>1. entitled'[k][d] = entitled[k][d]
          BY <2>6, <1>1
    <3>2. entitled[k][d][i] \in Nat
          BY <2>1
    <3> QED BY <2>1, <2>2, <2>3, <2>4, <3>1, <3>2
  <2> QED BY <2>5, <2>6
<1>5. ASSUME NEW k \in Job, NEW d \in Class, NEW i \in Offer, NEW g \in [Offer -> Nat],
             Covered(k, d, i, g)
      PROVE  Covered(k, d, i, g)'
  <2>1. SumOver(g, Offer) \in Nat /\ SumOver(g, Unproven) \in Nat
        BY FillsSum
  <2>2. wanted'[k][d] = wanted[k][d] /\ wanted[k][d] \in Nat
        BY <1>1, <1>2, SumsAre
  <2>3. CASE i \in Held(entitled[k][d])
    <3>1. PICK o \in Offer : Same(i, o) /\ entitled[k][d][o] > 0
          BY <2>3 DEF Held
    <3>2. entitled'[k][d][o] > 0
          BY <3>1, <1>4
    <3>3. i \in Held(entitled'[k][d])
          BY <3>1, <3>2 DEF Held
    <3> QED BY <3>3 DEF Covered
  <2>4. CASE g[i] > 0
        BY <2>4 DEF Covered
  <2>5. CASE SumOver(entitled[k][d], Offer) + SumOver(g, Offer) >= wanted[k][d]
        BY <2>1, <2>2, <2>5, <1>4 DEF Covered
  <2>6. CASE Newcomer(Offers[i]) /\ JobSpent(k) + SumOver(g, Unproven) >= JobBudget(k)
        BY <2>1, <2>6, <1>4 DEF Covered
  <2> QED BY <2>3, <2>4, <2>5, <2>6, <1>5 DEF Covered
<1>6. ASSUME NEW k \in Job, NEW i \in Offer, Covered(k, c, i, router[p].granted[k])
      PROVE  Covered(k, c, i, NoFills)'
  <2> DEFINE g == router[p].granted[k]
  <2>1. /\ entitled[k][c][i] \in Nat /\ g[i] \in Nat
    <3>1. entitled[k][c] \in [Offer -> Nat] /\ g \in [Offer -> Nat]
          BY <1>1, <1>2, SumsAre
    <3> QED BY <3>1
  <2>2. /\ entitled'[k][c][i] = entitled[k][c][i] + g[i]
        /\ SumOver(entitled'[k][c], Offer) = SumOver(entitled[k][c], Offer) + SumOver(g, Offer)
        /\ JobSpent(k)' = JobSpent(k) + SumOver(g, Unproven)
        /\ JobBudget(k)' = JobBudget(k) /\ wanted'[k][c] = wanted[k][c]
        BY <1>1, <1>4
  <2>3. SumOver(NoFills, Offer) = 0 /\ SumOver(NoFills, Unproven) = 0
        BY NoneSum
  <2>4. JobSpent(k)' \in Nat /\ SumOver(entitled'[k][c], Offer) \in Nat
        BY <1>1, <1>4
  <2>5. CASE g[i] > 0
    <3>1. entitled'[k][c][i] > 0
          BY <2>1, <2>2, <2>5
    <3> QED BY <3>1, HeldIs DEF Covered
  <2>8. CASE i \in Held(entitled[k][c])
    <3>1. Covered(k, c, i, NoFills)
          BY <2>8 DEF Covered
    <3> QED BY <3>1, <1>1, <1>5, NoneSum
  <2>6. CASE SumOver(entitled[k][c], Offer) + SumOver(g, Offer) >= wanted[k][c]
    <3>1. SumOver(entitled'[k][c], Offer) + SumOver(NoFills, Offer) >= wanted'[k][c]
          BY <2>2, <2>3, <2>4, <2>6
    <3> QED BY <3>1 DEF Covered
  <2>7. CASE Newcomer(Offers[i]) /\ JobSpent(k) + SumOver(g, Unproven) >= JobBudget(k)
    <3>1. JobSpent(k)' + SumOver(NoFills, Unproven) >= JobBudget(k)'
          BY <2>2, <2>3, <2>4, <2>7
    <3> QED BY <2>7, <3>1 DEF Covered
  <2> QED BY <2>5, <2>6, <2>7, <2>8, <1>6 DEF Covered
<1>7. DemandServed'
  <2> SUFFICES ASSUME NEW k \in Job, NEW d \in Class, NEW i \in OpenAsks(d)' \ unannounced', Can(k, i)
               PROVE  Covered(k, d, i, NoFills)' \/ \E q \in Process : Owed(router[q], k, d, i)'
      BY DEF DemandServed, Can
  <2>1. i \in OpenAsks(d) /\ i \notin unannounced /\ i \in Offer /\ Offers[i].class = d
        BY <1>1 DEF OpenAsks
  <2>2. CASE Covered(k, d, i, NoFills)
        BY <2>1, <2>2, <1>5, NoneSum
  <2>3. ASSUME NEW q \in Process, Owed(router[q], k, d, i)
        PROVE  Covered(k, d, i, NoFills)' \/ Owed(router[q], k, d, i)'
    <3>1. CASE q = p
      <4>1. d = c /\ Covered(k, c, i, router[p].granted[k])
            BY <2>1, <2>3, <3>1, <1>1 DEF Owed, Refills
      <4> QED BY <4>1, <2>1, <1>6
    <3>2. CASE q # p
      <4>1. router'[q] = router[q]
            BY <3>2, <1>3
      <4>2. router[q].granted[k] \in [Offer -> Nat]
            BY <1>2, SumsAre
      <4>3. Covered(k, d, i, router[q].granted[k]) => Covered(k, d, i, router[q].granted[k])'
        <5> DEFINE g == router[q].granted[k]
        <5>1. PICK f \in [Offer -> Nat] : f = g /\ f = g'
              BY <4>1, <4>2
        <5>2. Covered(k, d, i, f) => Covered(k, d, i, f)'
              BY <2>1, <1>5
        <5> QED BY <5>1, <5>2 DEF Covered
      <4> QED BY <2>3, <4>1, <4>3 DEF Owed
    <3> QED BY <3>1, <3>2
  <2>4. Covered(k, d, i, NoFills) \/ \E q \in Process : Owed(router[q], k, d, i)
        BY <2>1 DEF DemandServed
  <2> QED BY <2>2, <2>3, <2>4
<1>8. IdleRouter.at # "planned"
      BY IdleIs
<1> QED BY <1>1, <1>7, <1>8, PlansStay

-----------------------------------------------------------------------------
(* Demand is served: every step. *)

LEMMA DemandBegins == MatchInit => DemandServed /\ PlansServe
<1> SUFFICES ASSUME MatchInit PROVE DemandServed /\ PlansServe
    OBVIOUS
<1>1. \A c \in Class : OpenAsks(c) = {}
      BY DEF MatchInit, OpenAsks
<1>2. \A p \in Process : router[p] = IdleRouter
      BY DEF MatchInit
<1>3. DemandServed
      BY <1>1 DEF DemandServed
<1>4. PlansServe
      BY <1>2, IdleIs DEF PlansServe, PlanServes
<1> QED BY <1>3, <1>4

LEMMA DemandKeeps ==
  MatchInv /\ MatchInv' /\ DemandServed /\ PlansServe /\ [MatchNext]_matchVars
    => DemandServed' /\ PlansServe'
<1> SUFFICES ASSUME MatchInv, MatchInv', DemandServed, PlansServe, [MatchNext]_matchVars
             PROVE  DemandServed' /\ PlansServe'
    OBVIOUS
<1>0. MatchTypes /\ router \in [Process -> Routers]
      BY DEF MatchInv, MatchTypes
<1>1. CASE UNCHANGED matchVars
  <2>1. /\ listing' = listing /\ wanted' = wanted /\ entitled' = entitled /\ router' = router
        /\ unannounced' = unannounced
        BY <1>1 DEF matchVars
  <2>2. \A c \in Class : OpenAsks(c)' \ unannounced' \subseteq OpenAsks(c) \ unannounced
        BY <2>1 DEF OpenAsks
  <2>3. ASSUME NEW q \in Process, NEW j \in Job, NEW c \in Class, NEW i \in OpenAsks(c),
               Owed(router[q], j, c, i)
        PROVE  Owed(router[q], j, c, i)'
        BY <2>1, <2>3 DEF Owed, Covered, JobSpent, JobBudget
  <2>4. DemandServed'
        BY <2>1, <2>2, <2>3, OwedStays
  <2> QED BY <2>1, <2>4 DEF PlansServe, PlanServes
<1>2. ASSUME NEW p \in Process, PostBids(p) PROVE DemandServed' /\ PlansServe'
      BY <1>2, PostServesDemand
<1>3. ASSUME NEW p \in Process, StartRefill(p) PROVE DemandServed' /\ PlansServe'
      BY <1>3, StartServes
<1>4. ASSUME NEW p \in Process, CommitRefill(p) PROVE DemandServed' /\ PlansServe'
      BY <1>4, CommitServes
\* A refill that fails leaves its listing unannounced.
<1>5. ASSUME NEW p \in Process, RouterFails(p) PROVE DemandServed' /\ PlansServe'
  <2>1. /\ listing' = listing /\ wanted' = wanted /\ entitled' = entitled
        /\ unannounced' = unannounced \cup ({router[p].offer} \ {0})
        /\ router' = [router EXCEPT ![p] = IdleRouter]
        BY <1>5 DEF RouterFails
  <2>2. \A q \in Process : q # p => router'[q] = router[q]
        BY <1>0, <2>1
  <2>3. ASSUME NEW q \in Process, NEW j \in Job, NEW c \in Class, NEW i \in OpenAsks(c),
               i \notin unannounced', Owed(router[q], j, c, i)
        PROVE  Owed(router[q], j, c, i)'
    <3>1. i # 0
          BY OfferAssumption DEF OpenAsks
    <3>2. q # p
          BY <2>1, <2>3, <3>1 DEF Owed
    <3>3. router'[q] = router[q]
          BY <2>2, <3>2
    <3> QED BY <2>1, <2>3, <3>3 DEF Owed, Covered, JobSpent, JobBudget
  <2>4. \A c \in Class : OpenAsks(c)' \ unannounced' \subseteq OpenAsks(c) \ unannounced
        BY <2>1 DEF OpenAsks
  <2>5. DemandServed'
        BY <2>1, <2>3, <2>4, OwedStays
  <2> QED BY <2>1, <2>5, IdleIs, PlansStay
<1>6. ASSUME NEW p \in Process, NEW j \in Job, Plan(p, j) PROVE DemandServed' /\ PlansServe'
      BY <1>6, PlanServesDemand
<1>7. ASSUME NEW p \in Process, NEW j \in Job, RefillBid(p, j) PROVE DemandServed' /\ PlansServe'
      BY <1>7, RefillServes
\* A new listing's own refill is yet to come.
<1>8. ASSUME NEW p \in Process, NEW o \in Offer, CreateListing(p, o) PROVE DemandServed' /\ PlansServe'
  <2> DEFINE r == [IdleRouter EXCEPT !.at = "listed", !.offer = o]
  <2>1. /\ router[p].at = "idle" /\ wanted' = wanted /\ entitled' = entitled
        /\ unannounced' = unannounced /\ listing' = [listing EXCEPT ![o] = "open"]
        /\ router' = [router EXCEPT ![p] = r]
        BY <1>8 DEF CreateListing
  <2>2. r.at = "listed" /\ r.offer = o
        BY DEF IdleRouter
  <2> HIDE DEF r
  <2>3. router'[p] = r /\ \A q \in Process : q # p => router'[q] = router[q]
        BY <1>0, <2>1
  <2>4. DemandServed'
    <3> SUFFICES ASSUME NEW j \in Job, NEW c \in Class, NEW i \in OpenAsks(c)' \ unannounced',
                        Can(j, i)
                 PROVE  Covered(j, c, i, NoFills)' \/ \E q \in Process : Owed(router[q], j, c, i)'
        BY DEF DemandServed, Can
    <3>1. CASE i = o
      <4>1. Owed(router[p], j, c, i)'
            BY <3>1, <2>2, <2>3 DEF Owed
      <4> QED BY <4>1
    <3>2. CASE i # o
      <4>1. i \in OpenAsks(c) \ unannounced
            BY <3>2, <2>1, <1>0 DEF OpenAsks, MatchTypes
      <4>2. Covered(j, c, i, NoFills) \/ \E q \in Process : Owed(router[q], j, c, i)
            BY <4>1 DEF DemandServed
      <4>3. Covered(j, c, i, NoFills) => Covered(j, c, i, NoFills)'
            BY <2>1 DEF Covered, JobSpent, JobBudget
      <4>4. ASSUME NEW q \in Process, Owed(router[q], j, c, i) PROVE Owed(router[q], j, c, i)'
        <5>1. router'[q] = router[q]
              BY <4>4, <2>1, <2>3 DEF Owed
        <5> QED BY <4>4, <5>1, <2>1 DEF Owed, Covered, JobSpent, JobBudget
      <4> QED BY <4>2, <4>3, <4>4
    <3> QED BY <3>1, <3>2
  <2> QED BY <2>1, <2>2, <2>4, PlansStay
\* A machine that comes back is not announced, nor is a record that changed.
<1>9. ASSUME NEW o \in Offer,
             \/ WithdrawListing(o) \/ MachineLeaves(o) \/ MachineReturns(o)
             \/ \E k \in Offer : RecordChanges(o, k)
      PROVE  DemandServed' /\ PlansServe'
  <2>1. /\ router' = router /\ wanted' = wanted /\ entitled' = entitled
        /\ unannounced \subseteq unannounced'
        /\ \A i \in Offer : listing'[i] = "open" => listing[i] = "open" \/ i \in unannounced'
        BY <1>9, <1>0
        DEF WithdrawListing, MachineLeaves, MachineReturns, RecordChanges, MatchTypes
  <2>2. \A c \in Class : OpenAsks(c)' \ unannounced' \subseteq OpenAsks(c) \ unannounced
        BY <2>1 DEF OpenAsks
  <2>3. ASSUME NEW q \in Process, NEW j \in Job, NEW c \in Class, NEW i \in OpenAsks(c),
               Owed(router[q], j, c, i)
        PROVE  Owed(router[q], j, c, i)'
        BY <2>1, <2>3 DEF Owed, Covered, JobSpent, JobBudget
  <2>4. DemandServed'
        BY <2>1, <2>2, <2>3, OwedStays
  <2> QED BY <2>1, <2>4 DEF PlansServe, PlanServes
<1> QED BY <1>1, <1>2, <1>3, <1>4, <1>5, <1>6, <1>7, <1>8, <1>9 DEF MatchNext

\* When no handler runs, a refill for any bid from all that is open and announced would find
\* nothing: every offer was planned with or had its own refill.
THEOREM DemandIsServed == MatchSpec => []NoDemandIsMissed
<1>1. MatchInv /\ DemandServed => NoDemandIsMissed
  <2> SUFFICES ASSUME MatchInv, DemandServed, \A p \in Process : router[p].at = "idle",
                      NEW j \in Job, NEW c \in Class
               PROVE  RefillPlan(j, c, entitled[j], OpenAsks(c) \ unannounced) = NoFills
      BY DEF NoDemandIsMissed
  <2> DEFINE asks == OpenAsks(c) \ unannounced
             g == RefillPlan(j, c, entitled[j], asks)
  <2>1. asks \in SUBSET Offer /\ wanted \in [Job -> [Class -> Nat]]
        /\ entitled[j] \in [Class -> [Offer -> Nat]] /\ SumOver(entitled[j][c], Offer) <= wanted[j][c]
        BY DEF OpenAsks, MatchInv, MatchTypes, Entitled
  <2>2. ASSUME NEW i \in asks, Can(j, i) PROVE Covered(j, c, i, NoFills)
    <3>1. \A p \in Process : ~Owed(router[p], j, c, i)
          BY DEF Owed
    <3> QED BY <3>1, <2>2 DEF DemandServed
  <2> HIDE DEF asks
  <2>3. RefillSound(j, c, entitled[j], asks, g)
        BY <2>1, RefillIs
  <2> HIDE DEF g
  <2>4. /\ g \in [Offer -> Nat]
        /\ SumOver(g, Offer) \in Nat /\ SumOver(g, Unproven) \in Nat
        /\ \A i \in Offer : g[i] <= SumOver(g, Offer)
        /\ \A i \in Unproven : g[i] <= SumOver(g, Unproven)
        /\ Unproven \subseteq Offer
    <3>1. IsFiniteSet(Unproven) /\ Unproven \subseteq Offer
          BY OfferAssumption, FS_Subset DEF Unproven
    <3>2. g \in [Offer -> Nat]
          BY <2>3 DEF RefillSound
    <3>3. \A i \in Offer : g[i] \in Nat
          BY <3>2
    <3>4. \A i \in Unproven : g[i] \in Nat
          BY <3>1, <3>3
    <3> QED BY <3>1, <3>2, <3>3, <3>4, OfferAssumption, TotalBounds
  <2>5. /\ SumOver(entitled[j][c], Offer) \in Nat /\ wanted[j][c] \in Nat /\ JobSpent(j) \in Nat
        /\ JobBudget(j) \in Nat
        BY <2>1, SumsAre, JobBudgetIs DEF MatchInv
  <2>6. ASSUME NEW i \in Offer, g[i] # 0 PROVE FALSE
    <3>1. g[i] \in Nat /\ g[i] > 0
          BY <2>4, <2>6
    <3>2. i \in asks /\ i \notin Held(entitled[j][c]) /\ Can(j, i)
          BY <2>3, <3>1 DEF RefillSound
    <3>3. \/ SumOver(entitled[j][c], Offer) >= wanted[j][c]
          \/ Newcomer(Offers[i]) /\ JobSpent(j) >= JobBudget(j)
      <4>1. Covered(j, c, i, NoFills) /\ NoFills[i] = 0
            BY <2>2, <3>2 DEF NoFills
      <4>2. SumOver(NoFills, Offer) = 0 /\ SumOver(NoFills, Unproven) = 0
            BY NoneSum
      <4> QED BY <4>1, <4>2, <2>5, <3>2 DEF Covered
    <3>4. SumOver(g, Offer) > 0 /\ SumOver(entitled[j][c], Offer) + SumOver(g, Offer) <= wanted[j][c]
      <4>1. g[i] <= SumOver(g, Offer)
            BY <2>4
      <4>2. SumOver(entitled[j][c], Offer) + SumOver(g, Offer) <= wanted[j][c]
            BY <2>3 DEF RefillSound
      <4> QED BY <4>1, <4>2, <3>1, <2>4
    <3>5. Newcomer(Offers[i]) => SumOver(g, Unproven) > 0
      <4>1. Newcomer(Offers[i]) => i \in Unproven
            BY DEF Newcomer, Unproven
      <4>2. i \in Unproven => g[i] <= SumOver(g, Unproven)
            BY <2>4
      <4> QED BY <4>1, <4>2, <3>1, <2>4
    <3>6. SumOver(g, Unproven) = 0 \/ JobSpent(j) + SumOver(g, Unproven) <= JobBudget(j)
          BY <2>3 DEF RefillSound, JobSpent
    <3> QED BY <3>3, <3>4, <3>5, <3>6, <2>4, <2>5
  <2>7. g = NoFills
        BY <2>4, <2>6 DEF NoFills
  <2> QED BY <2>7 DEF g, asks
<1> QED BY <1>1, MatchBegins, MatchKeeps, DemandBegins, DemandKeeps, PTL DEF MatchSpec
=============================================================================
