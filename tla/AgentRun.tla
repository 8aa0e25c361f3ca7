------------------------------ MODULE AgentRun ------------------------------
(***************************************************************************)
(* An agent at its goal (agent_loop.py): a model is asked, its reply may   *)
(* call a tool, a tool that spends is run only with approval               *)
(* (agent_wallet.py), and the conversation is written to step-<n>.json     *)
(* before the next step.  Its process may die anywhere and is resumed from *)
(* the directory, or started over when it holds nothing.                   *)
(***************************************************************************)
EXTENDS Naturals, FiniteSetsExt

CONSTANTS
  MaxSteps,         \* of a run, however often it is resumed
  Allowances,       \* what a principal may be granted
  Prices,           \* of a purchase the model proposes
  Funds,            \* what the owner can spend at the start
  Deaths            \* bound: how often the process dies
ASSUME AgentAssumption ==
  /\ MaxSteps \in Nat /\ Funds \in Nat /\ Deaths \in Nat
  /\ Allowances \subseteq Nat /\ Prices \subseteq Nat

VARIABLES
  principal,        \* agent_principals: its status and its allowance
  agentRun,         \* the process: where it is, its AgentState (step, status,
                    \* purchases the conversation tells of), the proposed
                    \* purchase, and the approver's frozen allowance and spend
  ckpt,             \* out/ckpt: the AgentStates written, one per step
  purse,            \* the owner's spendable credits
  bought,           \* history: the purchases made, and what they cost
  deaths
agentVars == <<principal, agentRun, ckpt, purse, bought, deaths>>

NoRun == [at |-> "none", step |-> 0, status |-> "running", told |-> 0,
          price |-> 0, allowance |-> 0, spent |-> 0]

AgentInit ==
  /\ principal = [status |-> "none", allowance |-> 0]
  /\ agentRun = NoRun /\ ckpt = {} /\ purse = Funds
  /\ bought = [count |-> 0, cost |-> 0] /\ deaths = 0

-----------------------------------------------------------------------------
(* The principal an agent acts as, minted and revoked by its owner.        *)
Scopes == {"read", "submit", "spend"}
CreateAgentPrincipal(scopes, inPool, allowance) ==
  /\ principal.status = "none" /\ scopes # {}
  /\ "submit" \in scopes => inPool
  /\ "spend" \in scopes => allowance > 0
  /\ principal' = [status |-> "active", allowance |-> allowance]
  /\ UNCHANGED <<agentRun, ckpt, purse, bought, deaths>>
\* Its token stops working; an approver already made keeps what it was given.
RevokeAgentPrincipal ==
  /\ principal.status = "active" /\ principal' = [principal EXCEPT !.status = "revoked"]
  /\ UNCHANGED <<agentRun, ckpt, purse, bought, deaths>>

-----------------------------------------------------------------------------
(* The checkpoint directory.  A file appears in it whole or not at all.    *)
AgentState == [step : 0..MaxSteps, status : {"running", "done", "refused"},
               told : 0..MaxSteps]
StateOf(run) == [step |-> run.step, status |-> run.status, told |-> run.told]
\* Mutant: the first one.
FirstCheckpoint == CHOOSE s \in ckpt : \A t \in ckpt : s.step <= t.step
LatestCheckpoint == CHOOSE s \in ckpt : \A t \in ckpt : t.step <= s.step

\* make_agent_approver: the allowance and what the ledger says was spent are
\* read once, by whoever starts the process.
Approver == [allowance |-> principal.allowance, spent |-> bought.cost]
Started(state) ==
  [at |-> "ready", step |-> state.step, status |-> state.status, told |-> state.told,
   price |-> 0, allowance |-> Approver.allowance, spent |-> Approver.spent]
StartAgent ==
  /\ agentRun.at = "none" /\ ckpt = {} /\ principal.status = "active"
  /\ agentRun' = Started(StateOf(NoRun))
  /\ UNCHANGED <<principal, ckpt, purse, bought, deaths>>
ResumeAgent ==
  /\ agentRun.at = "none" /\ ckpt # {}
  /\ agentRun' = Started(LatestCheckpoint)
  /\ UNCHANGED <<principal, ckpt, purse, bought, deaths>>

-----------------------------------------------------------------------------
(* AgentLoop.step.                                                         *)
RunUnderWay == agentRun.status = "running" /\ agentRun.step < MaxSteps

\* complete(): a plain reply ends the run, a call of a tool that does not exist
\* is answered, one that spends asks first, and is refused when what it would
\* cost cannot be read (spend_cost_zc).
Refused == [agentRun EXCEPT !.at = "write", !.status = "refused"]
CompleteReply(reply, price) ==
  /\ agentRun.at = "ready" /\ RunUnderWay
  /\ agentRun' = CASE reply = "answer"  -> [agentRun EXCEPT !.at = "write", !.status = "done"]
                   [] reply = "unknown" -> [agentRun EXCEPT !.at = "write"]
                   [] reply = "free"    -> [agentRun EXCEPT !.at = "tool", !.price = 0]
                   [] reply = "garbled" -> Refused
                   [] reply = "buy"     -> [agentRun EXCEPT !.at = "approve", !.price = price]
  /\ UNCHANGED <<principal, ckpt, purse, bought, deaths>>

\* complete() raises, whatever the kind of failure, and nothing here retries:
\* the process ends between two steps.
ModelRaises ==
  /\ agentRun.at = "ready" /\ RunUnderWay /\ agentRun' = NoRun
  /\ UNCHANGED <<principal, ckpt, purse, bought, deaths>>

ApprovesSpend ==
  /\ agentRun.spent + agentRun.price <= agentRun.allowance
  /\ agentRun.price <= purse
Decide ==
  /\ agentRun.at = "approve"
  /\ agentRun' = IF ApprovesSpend THEN [agentRun EXCEPT !.at = "tool"]
                 ELSE Refused
  /\ UNCHANGED <<principal, ckpt, purse, bought, deaths>>

\* The hold is the tool's: it may find the credits gone.
RunTool ==
  LET p == agentRun.price IN
  /\ agentRun.at = "tool"
  /\ \/ /\ p > 0 /\ p <= purse
        /\ purse' = purse - p
        /\ bought' = [count |-> bought.count + 1, cost |-> bought.cost + p]
        /\ agentRun' = [agentRun EXCEPT !.at = "write", !.told = @ + 1]
     \/ /\ p = 0 \/ p > purse
        /\ agentRun' = [agentRun EXCEPT !.at = "write"]
        /\ UNCHANGED <<purse, bought>>
  /\ UNCHANGED <<principal, ckpt, deaths>>

WriteCheckpoint ==
  LET run == [agentRun EXCEPT !.at = "ready", !.step = @ + 1, !.price = 0] IN
  /\ agentRun.at = "write"
  /\ ckpt' = {s \in ckpt : s.step # run.step} \cup {StateOf(run)}
  /\ agentRun' = run
  /\ UNCHANGED <<principal, purse, bought, deaths>>

\* The tool or the disk raised, or the machine went away: a tool that raised
\* may have bought first.
ProcessDies ==
  /\ agentRun.at # "none" /\ deaths < Deaths
  /\ agentRun' = NoRun /\ deaths' = deaths + 1
  /\ UNCHANGED <<principal, ckpt, purse, bought>>
\* The owner spends elsewhere, or is paid.
PurseMoves(n) ==
  /\ n # purse /\ purse' = n
  /\ UNCHANGED <<principal, agentRun, ckpt, bought, deaths>>

AgentNext ==
  \/ \E scopes \in SUBSET Scopes, inPool \in BOOLEAN, a \in Allowances :
       CreateAgentPrincipal(scopes, inPool, a)
  \/ RevokeAgentPrincipal \/ StartAgent \/ ResumeAgent
  \/ \E reply \in {"answer", "unknown", "free", "garbled", "buy"}, price \in Prices :
       CompleteReply(reply, price)
  \/ ModelRaises \/ Decide \/ RunTool \/ WriteCheckpoint \/ ProcessDies
  \/ \E n \in {0, Funds} : PurseMoves(n)

AgentSpec == AgentInit /\ [][AgentNext]_agentVars

AgentTypeOK ==
  /\ principal.status \in {"none", "active", "revoked"} /\ principal.allowance \in Nat
  /\ agentRun.at \in {"none", "ready", "approve", "tool", "write"}
  /\ StateOf(agentRun) \in AgentState
  /\ ckpt \subseteq AgentState /\ purse \in 0..Funds /\ deaths \in 0..Deaths

-----------------------------------------------------------------------------
Told == Max({0} \cup {s.told : s \in ckpt})

\* A purchase the conversation on disk does not tell of may be made again by
\* the process that resumes it.  There is at most one for each time a process
\* died, besides the one a living process has yet to write down.
AtMostOnePurchasePerDeath ==
  bought.count <= Told + deaths + (IF agentRun.at = "write" THEN 1 ELSE 0)
=============================================================================
