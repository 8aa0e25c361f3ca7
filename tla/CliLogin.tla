------------------------------ MODULE CliLogin ------------------------------
(***************************************************************************)
(* How a terminal gets its token (cli_auth.py): one device code, approvals *)
(* by whoever reads it, one redemption.  The code is read outside the      *)
(* transaction that inserts a credential and marks the code with it, so    *)
(* two approvals may both have read it as not approved.                    *)
(***************************************************************************)
EXTENDS Deployment, Naturals, Sequences

VARIABLES
  cliCode,          \* the row of device_codes: its credential, 0 while null
  credential,       \* cli_credentials, in the order they were inserted
  cliHandler,       \* of each process: where its handler stands
  gone              \* history: credentials revoked while their token worked
cliVars == <<cliCode, credential, cliHandler, gone>>

CliIdle == [at |-> "idle", user |-> Nobody, credential |-> 0]

CliInit ==
  /\ cliCode = [credential |-> 0, consumed |-> FALSE, expired |-> FALSE]
  /\ credential = <<>> /\ gone = {}
  /\ cliHandler = [p \in Process |-> CliIdle]

CliDone(p) == cliHandler' = [cliHandler EXCEPT ![p] = CliIdle]

CliCodeExpires ==
  /\ ~cliCode.expired /\ cliCode' = [cliCode EXCEPT !.expired = TRUE]
  /\ UNCHANGED <<credential, cliHandler, gone>>

\* approve_cli_code reads the row; an approved code is left as it is.
ReadCliCode(p, u) ==
  /\ cliHandler[p].at = "idle" /\ cliCode.credential = 0 /\ ~cliCode.expired
  /\ cliHandler' = [cliHandler EXCEPT ![p] = [at |-> "unapproved", user |-> u, credential |-> 0]]
  /\ UNCHANGED <<cliCode, credential, gone>>

\* One transaction: the credential, with no token yet, and the mark.
ApproveCliCode(p) ==
  /\ cliHandler[p].at = "unapproved"
  /\ credential' = Append(credential, [owner |-> cliHandler[p].user,
                                       token |-> FALSE, status |-> "active"])
  /\ cliCode' = [cliCode EXCEPT !.credential = Len(credential')]
  /\ CliDone(p)
  /\ UNCHANGED gone

\* Mutant: whoever asks first is not remembered.
ClaimCliCodeAgain(p) ==
  /\ cliHandler[p].at = "idle" /\ cliCode.credential # 0
  /\ cliHandler' = [cliHandler EXCEPT ![p] = [at |-> "claimed", user |-> Nobody,
                                              credential |-> cliCode.credential]]
  /\ UNCHANGED <<cliCode, credential, gone>>

ClaimCliCode(p) ==
  /\ cliHandler[p].at = "idle"
  /\ cliCode.credential # 0 /\ ~cliCode.consumed /\ ~cliCode.expired
  /\ cliCode' = [cliCode EXCEPT !.consumed = TRUE]
  /\ cliHandler' = [cliHandler EXCEPT ![p] = [at |-> "claimed", user |-> Nobody,
                                              credential |-> cliCode.credential]]
  /\ UNCHANGED <<credential, gone>>

\* Whatever the credential's status has become.
SetCliToken(p) ==
  /\ cliHandler[p].at = "claimed"
  /\ credential' = [credential EXCEPT ![cliHandler[p].credential] =
                       [owner |-> @.owner, token |-> TRUE, status |-> "active"]]
  /\ CliDone(p)
  /\ UNCHANGED <<cliCode, gone>>

CliHandlerDies(p) ==
  /\ cliHandler[p].at # "idle" /\ CliDone(p)
  /\ UNCHANGED <<cliCode, credential, gone>>

RevokeCliCredential(i) ==
  /\ credential[i].status # "revoked"
  /\ credential' = [credential EXCEPT ![i].status = "revoked"]
  /\ gone' = IF credential[i].token THEN gone \cup {i} ELSE gone
  /\ UNCHANGED <<cliCode, cliHandler>>

CliNext ==
  \/ CliCodeExpires
  \/ \E p \in Process :
       \/ ApproveCliCode(p) \/ ClaimCliCode(p) \/ SetCliToken(p)
       \/ CliHandlerDies(p)
       \/ \E u \in User : ReadCliCode(p, u)
  \/ \E i \in DOMAIN credential : RevokeCliCredential(i)

CliSpec == CliInit /\ [][CliNext]_cliVars

CliTypeOK ==
  /\ cliCode \in [credential : 0..Len(credential), consumed : BOOLEAN,
                  expired : BOOLEAN]
  /\ \A i \in DOMAIN credential :
       credential[i] \in [owner : User, token : BOOLEAN,
                          status : {"active", "revoked"}]
  /\ cliHandler \in [Process -> [at : {"idle", "unapproved", "claimed"},
                                 user : User \cup {Nobody},
                                 credential : 0..Len(credential)]]
  /\ gone \subseteq DOMAIN credential

-----------------------------------------------------------------------------
\* However many approvals overlap, a code yields one credential that works, and
\* a credential revoked after it worked is never made active again by a
\* redemption: the code was claimed once, before its token was written.
OneCliCredential ==
  /\ \A i, j \in DOMAIN credential :
       credential[i].token /\ credential[j].token => i = j
  /\ \A i \in gone : credential[i].status = "revoked"
=============================================================================
