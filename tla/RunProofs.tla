----------------------------- MODULE RunProofs ------------------------------
(***************************************************************************)
(* What is proved of the components that carry a run and its files: the    *)
(* agents and their allowances, the demonstration, the federated driver,   *)
(* the artifacts of a job and its submission, each for every value of the  *)
(* constants.                                                              *)
(***************************************************************************)
EXTENDS AgentRun, DemoRun, FederatedRun, JobArtifacts, Submission,
        SumTheorems, WellFoundedInduction

-----------------------------------------------------------------------------
(***************************************************************************)
(* AgentRun for any prices, allowances, funds and number of steps and      *)
(* deaths: what a run bought and its conversation does not tell of is at   *)
(* most one purchase for each death.                                       *)
(***************************************************************************)

\* The latest checkpoint tells of n purchases, and none tells of more.
TopTold(n) ==
  \/ ckpt = {} /\ n = 0
  \/ \E s \in ckpt : /\ s.told = n
                     /\ \A t \in ckpt : /\ t.step <= s.step /\ t.told <= n
                                        /\ t.step = s.step => t.told = n

AgentTypes ==
  /\ DOMAIN agentRun = DOMAIN NoRun /\ agentRun.step \in Nat /\ agentRun.told \in Nat
  /\ agentRun.at \in {"none", "ready", "approve", "tool", "write"}
  /\ bought.count \in Nat /\ DOMAIN bought = {"count", "cost"} /\ deaths \in Nat
  /\ \A s \in ckpt : s.step \in Nat /\ s.told \in Nat

\* A living process is past every checkpoint; between two steps it tells what
\* the latest tells, and before it writes of one purchase more at most.
Accounted(n) ==
  /\ n \in Nat /\ TopTold(n)
  /\ agentRun.at # "none" => \A s \in ckpt : s.step <= agentRun.step
  /\ agentRun.at \notin {"none", "write"} => agentRun.told = n
  /\ agentRun.at # "write" => bought.count <= n + deaths
  /\ agentRun.at = "write" => /\ agentRun.told \in {n, n + 1}
                              /\ bought.count <= agentRun.told + deaths

AgentInv == AgentTypes /\ \E n \in Nat : Accounted(n)

-----------------------------------------------------------------------------
\* Told is what the latest checkpoint tells of,
LEMMA ToldIsTop ==
  ASSUME AgentTypes, NEW n \in Nat, TopTold(n)
  PROVE  Told = n
<1> DEFINE T == {0} \cup {s.told : s \in ckpt}
<1>1. n \in T /\ \A x \in T : n >= x /\ x \in Nat
      BY DEF TopTold, AgentTypes
<1>2. \A m \in T : (\A x \in T : m >= x) => m = n
      BY <1>1
<1> HIDE DEF T
<1>3. Max(T) = n
      BY <1>1, <1>2 DEF Max
<1> QED BY <1>3 DEF Told, T

\* and what a process resumes from.
LEMMA LatestIsTop ==
  ASSUME AgentTypes, NEW n \in Nat, TopTold(n), ckpt # {}
  PROVE  /\ LatestCheckpoint \in ckpt /\ LatestCheckpoint.told = n
         /\ \A t \in ckpt : t.step <= LatestCheckpoint.step
<1>1. PICK s \in ckpt : \A t \in ckpt : t.step <= s.step /\ (t.step = s.step => t.told = n)
      BY DEF TopTold
<1>2. LatestCheckpoint \in ckpt /\ \A t \in ckpt : t.step <= LatestCheckpoint.step
      BY <1>1 DEF LatestCheckpoint
<1>3. LatestCheckpoint.step = s.step
      BY <1>1, <1>2 DEF AgentTypes
<1> QED BY <1>1, <1>2, <1>3

\* In the first state nothing was bought.
LEMMA AgentInitInv == AgentInit => AgentInv
<1> SUFFICES ASSUME AgentInit PROVE AgentInv
    OBVIOUS
<1>1. AgentTypes
      BY DEF AgentInit, AgentTypes, NoRun
<1>2. Accounted(0)
      BY DEF AgentInit, Accounted, TopTold, NoRun
<1> QED BY <1>1, <1>2 DEF AgentInv

\* A process that goes on, or ends between two steps, and neither buys nor
\* writes.
LEMMA GoesOn ==
  ASSUME AgentInv, UNCHANGED <<ckpt, bought, deaths>>, agentRun.at \notin {"none", "write"},
         DOMAIN agentRun' = DOMAIN agentRun, agentRun'.step \in Nat, agentRun'.told \in Nat,
         \/ agentRun'.at = "none"
         \/ /\ agentRun'.at \in {"ready", "approve", "tool", "write"}
            /\ agentRun'.step = agentRun.step /\ agentRun'.told = agentRun.told
  PROVE  AgentInv'
<1>1. PICK n \in Nat : Accounted(n)
      BY DEF AgentInv
<1>2. TopTold(n)'
      BY <1>1 DEF Accounted, TopTold
<1>3. Accounted(n)'
      BY <1>1, <1>2 DEF Accounted
<1>4. AgentTypes'
      BY DEF AgentInv, AgentTypes
<1> QED BY <1>3, <1>4 DEF AgentInv

\* A start has nothing to tell; a resumed process tells what the latest
\* checkpoint tells.
LEMMA BeginsInv == ASSUME AgentInv, StartAgent \/ ResumeAgent PROVE AgentInv'
<1>1. PICK n \in Nat : Accounted(n)
      BY DEF AgentInv
<1>2. PICK state : /\ agentRun' = Started(state) /\ state.step \in Nat /\ state.told = n
                   /\ \A t \in ckpt : t.step <= state.step
  <2>1. CASE StartAgent
        BY <2>1, <1>1 DEF StartAgent, StateOf, NoRun, Accounted, TopTold
  <2>2. CASE ResumeAgent
        BY <2>2, <1>1, LatestIsTop DEF ResumeAgent, AgentInv, AgentTypes, Accounted
  <2> QED BY <2>1, <2>2
<1>3. /\ agentRun'.at = "ready" /\ agentRun'.step = state.step /\ agentRun'.told = n
      /\ DOMAIN agentRun' = DOMAIN NoRun
      BY <1>2 DEF Started, NoRun
<1>4. agentRun.at = "none" /\ UNCHANGED <<ckpt, bought, deaths>>
      BY DEF StartAgent, ResumeAgent
<1>5. TopTold(n)'
      BY <1>1, <1>4 DEF Accounted, TopTold
<1>6. Accounted(n)'
      BY <1>1, <1>2, <1>3, <1>4, <1>5 DEF Accounted
<1>7. AgentTypes'
      BY <1>2, <1>3, <1>4 DEF AgentInv, AgentTypes
<1> QED BY <1>6, <1>7 DEF AgentInv

\* A reply, and the decision about a purchase.
LEMMA ReplyInv ==
  ASSUME AgentInv,
         \/ \E reply \in {"answer", "unknown", "free", "garbled", "buy"}, price \in Prices :
              CompleteReply(reply, price)
         \/ Decide
  PROVE  AgentInv'
<1>1. /\ DOMAIN agentRun' = DOMAIN agentRun /\ agentRun'.at \in {"approve", "tool", "write"}
      /\ agentRun'.step = agentRun.step /\ agentRun'.told = agentRun.told
  <2>1. ASSUME NEW reply \in {"answer", "unknown", "free", "garbled", "buy"},
               NEW price \in Prices, CompleteReply(reply, price)
        PROVE  /\ DOMAIN agentRun' = DOMAIN agentRun /\ agentRun'.at \in {"approve", "tool", "write"}
               /\ agentRun'.step = agentRun.step /\ agentRun'.told = agentRun.told
        BY <2>1 DEF CompleteReply, Refused, AgentInv, AgentTypes, NoRun
  <2>2. CASE Decide
        BY <2>2 DEF Decide, Refused, AgentInv, AgentTypes, NoRun
  <2> QED BY <2>1, <2>2
<1>2. UNCHANGED <<ckpt, bought, deaths>> /\ agentRun.at \in {"ready", "approve"}
      BY DEF CompleteReply, Decide
<1> QED BY <1>1, <1>2, GoesOn DEF AgentInv, AgentTypes

\* A tool buys once at most before its step is written.
LEMMA ToolInv == ASSUME AgentInv, RunTool PROVE AgentInv'
<1>1. PICK n \in Nat : Accounted(n)
      BY DEF AgentInv
<1>2. agentRun.at = "tool" /\ UNCHANGED <<ckpt, deaths>>
      BY DEF RunTool
<1>3. CASE UNCHANGED bought /\ agentRun' = [agentRun EXCEPT !.at = "write"]
  <2>1. /\ DOMAIN agentRun' = DOMAIN agentRun /\ agentRun'.at = "write"
        /\ agentRun'.step = agentRun.step /\ agentRun'.told = agentRun.told
        BY <1>3 DEF AgentInv, AgentTypes, NoRun
  <2> QED BY <1>2, <1>3, <2>1, GoesOn DEF AgentInv, AgentTypes
<1>4. CASE /\ bought' = [count |-> bought.count + 1, cost |-> bought.cost + agentRun.price]
           /\ agentRun' = [agentRun EXCEPT !.at = "write", !.told = @ + 1]
  <2>1. /\ DOMAIN agentRun' = DOMAIN agentRun /\ agentRun'.at = "write"
        /\ agentRun'.step = agentRun.step /\ agentRun'.told = agentRun.told + 1
        BY <1>4 DEF AgentInv, AgentTypes, NoRun
  <2>2. bought'.count = bought.count + 1 /\ DOMAIN bought' = {"count", "cost"}
        BY <1>4
  <2>3. TopTold(n)'
        BY <1>1, <1>2 DEF Accounted, TopTold
  <2>4. Accounted(n)'
        BY <1>1, <1>2, <2>1, <2>2, <2>3 DEF Accounted, AgentInv, AgentTypes
  <2>5. AgentTypes'
        BY <1>2, <2>1, <2>2 DEF AgentInv, AgentTypes
  <2> QED BY <2>4, <2>5 DEF AgentInv
<1> QED BY <1>3, <1>4 DEF RunTool

\* The checkpoint written is the latest, and tells what the process tells.
LEMMA AgentWriteInv == ASSUME AgentInv, WriteCheckpoint PROVE AgentInv'
<1> DEFINE run == [agentRun EXCEPT !.at = "ready", !.step = @ + 1, !.price = 0]
           new == StateOf(run)
<1>1. PICK n \in Nat : Accounted(n)
      BY DEF AgentInv
<1>2. /\ run.at = "ready" /\ run.step = agentRun.step + 1 /\ run.told = agentRun.told
      /\ DOMAIN run = DOMAIN agentRun
      BY DEF AgentInv, AgentTypes, NoRun
<1>3. new.step = agentRun.step + 1 /\ new.told = agentRun.told
      BY <1>2 DEF StateOf
<1>4. /\ agentRun' = run /\ ckpt' = {s \in ckpt : s.step # run.step} \cup {new}
      /\ agentRun.at = "write" /\ UNCHANGED <<bought, deaths>>
      BY DEF WriteCheckpoint
<1> HIDE DEF run, new
<1>5. \A s \in ckpt : s.step < new.step /\ s.told <= agentRun.told /\ s.told \in Nat
      BY <1>1, <1>3, <1>4 DEF Accounted, TopTold, AgentInv, AgentTypes
<1>6. new \in ckpt' /\ \A t \in ckpt' : t = new \/ t \in ckpt
      BY <1>4
<1>7. TopTold(agentRun.told)'
  <2>1. \A t \in ckpt' : /\ t.step <= new.step /\ t.told <= agentRun.told
                         /\ t.step = new.step => t.told = agentRun.told
        BY <1>3, <1>5, <1>6 DEF AgentInv, AgentTypes
  <2> QED BY <2>1, <1>2, <1>3, <1>4, <1>6 DEF TopTold
<1>8. \A s \in ckpt' : s.step <= agentRun'.step
      BY <1>2, <1>3, <1>4, <1>5, <1>6 DEF AgentInv, AgentTypes
<1>9. Accounted(agentRun.told)'
      BY <1>1, <1>2, <1>4, <1>7, <1>8 DEF Accounted, AgentInv, AgentTypes
<1>10. AgentTypes'
      BY <1>2, <1>3, <1>4, <1>6 DEF AgentInv, AgentTypes
<1> QED BY <1>2, <1>4, <1>9, <1>10 DEF AgentInv, AgentTypes

\* A death loses at most the purchase that was not yet written down.
LEMMA DeathInv == ASSUME AgentInv, ProcessDies PROVE AgentInv'
<1>1. PICK n \in Nat : Accounted(n)
      BY DEF AgentInv
<1>2. agentRun' = NoRun /\ deaths' = deaths + 1 /\ UNCHANGED <<ckpt, bought>>
      BY DEF ProcessDies
<1>3. TopTold(n)'
      BY <1>1, <1>2 DEF Accounted, TopTold
<1>4. Accounted(n)'
      BY <1>1, <1>2, <1>3 DEF Accounted, NoRun, AgentInv, AgentTypes
<1>5. AgentTypes'
      BY <1>2 DEF AgentInv, AgentTypes, NoRun
<1> QED BY <1>4, <1>5 DEF AgentInv

\* Steps of others leave the run alone.
LEMMA OthersInv ==
  ASSUME AgentInv, UNCHANGED <<agentRun, ckpt, bought, deaths>> PROVE AgentInv'
<1>1. PICK n \in Nat : Accounted(n)
      BY DEF AgentInv
<1>2. TopTold(n)'
      BY <1>1 DEF Accounted, TopTold
<1>3. Accounted(n)'
      BY <1>1, <1>2 DEF Accounted
<1>4. AgentTypes'
      BY DEF AgentInv, AgentTypes
<1> QED BY <1>3, <1>4 DEF AgentInv

\* Every step keeps the invariant.
LEMMA AgentStepInv == AgentInv /\ [AgentNext]_agentVars => AgentInv'
<1> SUFFICES ASSUME AgentInv, [AgentNext]_agentVars PROVE AgentInv'
    OBVIOUS
<1>1. CASE \/ \E scopes \in SUBSET Scopes, member \in BOOLEAN, a \in Allowances :
                CreateAgentPrincipal(scopes, member, a)
           \/ RevokeAgentPrincipal
           \/ \E n \in {0, Funds} : PurseMoves(n)
           \/ UNCHANGED agentVars
      BY <1>1, OthersInv DEF CreateAgentPrincipal, RevokeAgentPrincipal, PurseMoves, agentVars
<1>2. CASE ModelRaises
  <2>1. /\ agentRun'.at = "none" /\ agentRun'.step = 0 /\ agentRun'.told = 0
        /\ DOMAIN agentRun' = DOMAIN agentRun /\ agentRun.at = "ready"
        BY <1>2 DEF ModelRaises, NoRun, AgentInv, AgentTypes
  <2> QED BY <1>2, <2>1, GoesOn DEF ModelRaises
<1> QED BY <1>1, <1>2, BeginsInv, ReplyInv, ToolInv, AgentWriteInv, DeathInv DEF AgentNext

-----------------------------------------------------------------------------
\* However often its process dies, a run has made at most one purchase for each
\* death that the conversation on disk does not tell of, besides the one a
\* living process has yet to write down.
THEOREM PurchasesAccountedFor == AgentSpec => []AtMostOnePurchasePerDeath
<1>1. AgentInv => AtMostOnePurchasePerDeath
  <2> SUFFICES ASSUME AgentInv PROVE AtMostOnePurchasePerDeath
      OBVIOUS
  <2>1. PICK n \in Nat : Accounted(n)
        BY DEF AgentInv
  <2>2. Told = n
        BY <2>1, ToldIsTop DEF AgentInv, Accounted
  <2> QED BY <2>1, <2>2 DEF AgentInv, AgentTypes, Accounted, AtMostOnePurchasePerDeath
<1> QED BY <1>1, AgentInitInv, AgentStepInv, PTL DEF AgentSpec

-----------------------------------------------------------------------------
\* A conversation tells of one purchase a step at most, and a step is taken only while some
\* are left.
Principals == [status : {"none", "active", "revoked"}, allowance : Nat]
AgentPlaces == {"none", "ready", "approve", "tool", "write"}
AgentRuns == [at : AgentPlaces, step : 0..MaxSteps, status : {"running", "done", "refused"},
              told : 0..MaxSteps, price : Nat, allowance : Nat, spent : Nat]
AgentFits ==
  /\ principal \in Principals /\ agentRun \in AgentRuns /\ ckpt \subseteq AgentState
  /\ purse \in 0..Funds /\ bought \in [count : Nat, cost : Nat] /\ deaths \in 0..Deaths
  /\ \A s \in ckpt : s.told <= s.step
  /\ agentRun.told <= agentRun.step + (IF agentRun.at = "write" THEN 1 ELSE 0)
  /\ agentRun.at \in {"approve", "tool", "write"} => agentRun.step < MaxSteps

\* What a process starts from fits.
LEMMA StartsFit ==
  ASSUME AgentFits, NEW s \in AgentState, s.told <= s.step, agentRun' = Started(s),
         UNCHANGED <<principal, ckpt, purse, bought, deaths>>
  PROVE  AgentFits'
<1>1. Approver.allowance \in Nat /\ Approver.spent \in Nat
      BY DEF AgentFits, Principals, Approver
<1>2. s.step \in 0..MaxSteps /\ s.status \in {"running", "done", "refused"} /\ s.told \in 0..MaxSteps
      BY DEF AgentState
<1>3. agentRun' = [at |-> "ready", step |-> s.step, status |-> s.status, told |-> s.told,
                   price |-> 0, allowance |-> Approver.allowance, spent |-> Approver.spent]
      BY DEF Started
<1>4. agentRun' \in AgentRuns
      BY <1>1, <1>2, <1>3 DEF AgentRuns, AgentPlaces
<1>5. agentRun'.at = "ready" /\ agentRun'.told = s.told /\ agentRun'.step = s.step
      BY <1>3
<1> QED BY <1>2, <1>4, <1>5 DEF AgentFits

\* Every step of an agent fits.
LEMMA AgentFitsStep == AgentInv /\ AgentFits /\ [AgentNext]_agentVars => AgentFits'
<1> SUFFICES ASSUME AgentInv, AgentFits, [AgentNext]_agentVars PROVE AgentFits'
    OBVIOUS
<1> USE DEF AgentFits, AgentAssumption
<1>1. CASE UNCHANGED agentVars
      BY <1>1 DEF agentVars
<1>2. ASSUME NEW scopes \in SUBSET Scopes, NEW inPool \in BOOLEAN, NEW a \in Allowances,
             CreateAgentPrincipal(scopes, inPool, a)
      PROVE  AgentFits'
      BY <1>2, AgentAssumption DEF CreateAgentPrincipal, Principals
<1>3. CASE RevokeAgentPrincipal
      BY <1>3 DEF RevokeAgentPrincipal, Principals
<1>4. CASE StartAgent
  <2>1. StateOf(NoRun) \in AgentState /\ StateOf(NoRun).told <= StateOf(NoRun).step
        BY AgentAssumption DEF StateOf, NoRun, AgentState
  <2> QED BY <1>4, <2>1, StartsFit DEF StartAgent
<1>5. CASE ResumeAgent
  <2>1. LatestCheckpoint \in ckpt
        BY <1>5, LatestIsTop DEF ResumeAgent, AgentInv, Accounted
  <2> QED BY <1>5, <2>1, StartsFit DEF ResumeAgent
<1>6. ASSUME NEW reply \in {"answer", "unknown", "free", "garbled", "buy"}, NEW price \in Prices,
             CompleteReply(reply, price)
      PROVE  AgentFits'
  <2>1. price \in Nat
        BY AgentAssumption
  <2>2. /\ agentRun' \in AgentRuns /\ agentRun'.step = agentRun.step
        /\ agentRun'.told = agentRun.told
        BY <1>6, <2>1 DEF CompleteReply, Refused, AgentRuns, AgentPlaces
  <2>3. agentRun.at = "ready" /\ agentRun.step < MaxSteps
        BY <1>6 DEF CompleteReply, RunUnderWay
  <2> QED BY <1>6, <2>2, <2>3 DEF CompleteReply, AgentRuns
<1>7. CASE ModelRaises \/ ProcessDies
  <2>1. NoRun \in AgentRuns /\ NoRun.at = "none" /\ NoRun.told = 0 /\ NoRun.step = 0
        BY AgentAssumption DEF NoRun, AgentRuns, AgentPlaces
  <2>2. deaths' = deaths \/ (deaths < Deaths /\ deaths' = deaths + 1)
        BY <1>7 DEF ModelRaises, ProcessDies
  <2>3. deaths' \in 0..Deaths
        BY <2>2, AgentAssumption
  <2>4. agentRun' = NoRun /\ UNCHANGED <<principal, ckpt, purse, bought>>
        BY <1>7 DEF ModelRaises, ProcessDies
  <2> QED BY <2>1, <2>3, <2>4
<1>8. CASE Decide
  <2>1. /\ agentRun' \in AgentRuns /\ agentRun'.step = agentRun.step
        /\ agentRun'.told = agentRun.told
        BY <1>8 DEF Decide, Refused, AgentRuns, AgentPlaces
  <2> QED BY <1>8, <2>1 DEF Decide, AgentRuns
<1>9. CASE RunTool
  <2>1. /\ agentRun.at = "tool" /\ agentRun.told <= agentRun.step /\ agentRun.step < MaxSteps
        /\ agentRun.told \in Nat /\ agentRun.step \in Nat /\ agentRun.price \in Nat
        BY <1>9 DEF RunTool, AgentRuns
  <2>2. CASE /\ agentRun.price > 0 /\ agentRun.price <= purse /\ purse' = purse - agentRun.price
             /\ bought' = [count |-> bought.count + 1, cost |-> bought.cost + agentRun.price]
             /\ agentRun' = [agentRun EXCEPT !.at = "write", !.told = @ + 1]
    <3>1. agentRun' \in AgentRuns
      <4>1. agentRun.told + 1 \in 0..MaxSteps
            BY <2>1, AgentAssumption DEF AgentRuns
      <4> QED BY <2>2, <4>1 DEF AgentRuns, AgentPlaces
    <3>2. /\ agentRun'.at = "write" /\ agentRun'.told = agentRun.told + 1
          /\ agentRun'.step = agentRun.step
          BY <2>2 DEF AgentRuns
    <3>3. purse' \in 0..Funds /\ bought' \in [count : Nat, cost : Nat]
          BY <2>1, <2>2, AgentAssumption
    <3> QED BY <1>9, <2>1, <3>1, <3>2, <3>3 DEF RunTool
  <2>3. CASE agentRun' = [agentRun EXCEPT !.at = "write"] /\ UNCHANGED <<purse, bought>>
    <3>1. /\ agentRun' \in AgentRuns /\ agentRun'.at = "write"
          /\ agentRun'.told = agentRun.told /\ agentRun'.step = agentRun.step
          BY <2>3 DEF AgentRuns, AgentPlaces
    <3> QED BY <1>9, <2>1, <2>3, <3>1 DEF RunTool
  <2> QED BY <1>9, <2>2, <2>3 DEF RunTool
<1>10. CASE WriteCheckpoint
  <2>1. /\ agentRun.at = "write" /\ agentRun.told <= agentRun.step + 1
        /\ agentRun.step < MaxSteps /\ agentRun.told \in Nat /\ agentRun.step \in Nat
        BY <1>10 DEF WriteCheckpoint, AgentRuns
  <2>2. /\ agentRun' = [agentRun EXCEPT !.at = "ready", !.step = @ + 1, !.price = 0]
        /\ ckpt' \subseteq ckpt \cup {StateOf(agentRun')}
        BY <1>10 DEF WriteCheckpoint
  <2>3. /\ agentRun' \in AgentRuns /\ agentRun'.at = "ready"
        /\ agentRun'.told = agentRun.told /\ agentRun'.step = agentRun.step + 1
    <3>1. agentRun.step + 1 \in 0..MaxSteps
          BY <2>1, AgentAssumption
    <3> QED BY <2>2, <3>1 DEF AgentRuns, AgentPlaces
  <2>4. StateOf(agentRun') \in AgentState /\ StateOf(agentRun').told <= StateOf(agentRun').step
        BY <2>1, <2>3 DEF StateOf, AgentState, AgentRuns
  <2> QED BY <1>10, <2>1, <2>2, <2>3, <2>4 DEF WriteCheckpoint
<1>11. ASSUME NEW n \in {0, Funds}, PurseMoves(n) PROVE AgentFits'
       BY <1>11, AgentAssumption DEF PurseMoves
<1> QED BY <1>1, <1>2, <1>3, <1>4, <1>5, <1>6, <1>7, <1>8, <1>9, <1>10, <1>11 DEF AgentNext

\* The types of an agent's run, its directory and its funds.
THEOREM AgentTyped == AgentSpec => []AgentTypeOK
<1>1. AgentInit => AgentFits
      BY AgentAssumption DEF AgentAssumption, AgentInit, AgentFits, NoRun, AgentRuns, AgentPlaces, Principals
<1>2. AgentFits => AgentTypeOK
      BY DEF AgentFits, AgentTypeOK, Principals, AgentRuns, AgentPlaces, AgentState, StateOf
<1> QED BY <1>1, <1>2, AgentFitsStep, AgentInitInv, AgentStepInv, PTL DEF AgentSpec

-----------------------------------------------------------------------------
(***************************************************************************)
(* DemoRun for any number of handlers, buttons and runs: of one button, a  *)
(* run follows one that has not ended only by a press that looked before.  *)
(***************************************************************************)

DemoSpec == DemoInit /\ [][DemoNext]_demoVars

Rows == [button: Buttons, row: Ended \cup {"PENDING"}, state: Ended \cup {"RUNNING"},
         old: BOOLEAN, seen: Nat]
Places == {"idle", "submit", "ask", "cancel", "stamp"} \cup Ended
DemoCallers ==
  [at: Places, button: Buttons \cup {"none"}, press: BOOLEAN, run: Nat, seen: Nat]

DemoTypes ==
  /\ runs \in Seq(Rows) /\ demoCaller \in [Process -> DemoCallers]
  /\ configured \subseteq Buttons

\* What a handler read stays true of the rows as they are: the run it holds is
\* the last of its button among those it saw, and what it is about to do to that
\* run, or after it, is still due.
Knows(c, rows) ==
  c.at # "idle" =>
    /\ c.seen <= Len(rows) /\ c.run <= c.seen
    /\ c.run # 0 => rows[c.run].button = c.button
    /\ \A k \in (c.run + 1)..c.seen : rows[k].button # c.button
    /\ (c.at = "submit" /\ c.run # 0) => rows[c.run].row \in Ended
    /\ c.at # "submit" => c.run # 0
    /\ c.at \in Ended => rows[c.run].state = c.at
    /\ c.at \in {"cancel", "stamp"} => rows[c.run].old
CallersKnow == \A p \in Process : Knows(demoCaller[p], runs)

\* The two halves of the property, on rows given as a parameter.
OneAtATime(rows) ==
  \A i, j \in 1..Len(rows) :
    ( /\ i < j /\ rows[i].button = rows[j].button
      /\ \A k \in (i + 1)..(j - 1) : rows[k].button # rows[i].button
      /\ rows[i].row \notin Ended) => rows[j].seen < i
EndsAreHeard(rows) ==
  \A i \in 1..Len(rows) :
    (rows[i].row \in Ended /\ rows[i].state # rows[i].row) => rows[i].old

DemoInv == DemoTypes /\ CallersKnow /\ OneAtATime(runs) /\ EndsAreHeard(runs)

\* What a step may do to the rows that are there: ends are final, ages grow.
Onward(rows, later) ==
  /\ Len(later) = Len(rows)
  /\ \A i \in 1..Len(rows) :
       /\ later[i].button = rows[i].button /\ later[i].seen = rows[i].seen
       /\ rows[i].row \in Ended => later[i].row \in Ended
       /\ rows[i].state \in Ended => later[i].state = rows[i].state
       /\ rows[i].old => later[i].old

-----------------------------------------------------------------------------
\* In the first state there is neither a run nor a handler at work.
LEMMA DemoInitInv == DemoInit => DemoInv
  BY DEF DemoInit, DemoInv, DemoTypes, CallersKnow, Knows, OneAtATime, EndsAreHeard,
         DemoCallerIdle, DemoCallers, Places

\* What a handler knows survives what other handlers do to the rows.
LEMMA KnowsOnward ==
  ASSUME NEW c \in DemoCallers, NEW rows \in Seq(Rows), NEW later \in Seq(Rows),
         Onward(rows, later), Knows(c, rows)
  PROVE  Knows(c, later)
<1> SUFFICES ASSUME c.at # "idle"
             PROVE  /\ c.seen <= Len(later) /\ c.run <= c.seen
                    /\ c.run # 0 => later[c.run].button = c.button
                    /\ \A k \in (c.run + 1)..c.seen : later[k].button # c.button
                    /\ (c.at = "submit" /\ c.run # 0) => later[c.run].row \in Ended
                    /\ c.at # "submit" => c.run # 0
                    /\ c.at \in Ended => later[c.run].state = c.at
                    /\ c.at \in {"cancel", "stamp"} => later[c.run].old
    BY DEF Knows
<1>1. /\ c.seen \in Nat /\ c.run \in Nat /\ c.seen <= Len(rows) /\ c.run <= c.seen
      /\ Len(rows) \in Nat /\ Len(later) = Len(rows)
      BY DEF DemoCallers, Knows, Onward
<1>2. c.run # 0 => c.run \in 1..Len(rows)
      BY <1>1
<1>3. ASSUME NEW k \in (c.run + 1)..c.seen PROVE later[k].button # c.button
      BY <1>1, <1>3 DEF Knows, Onward
<1> QED BY <1>1, <1>2, <1>3 DEF Knows, Onward, Ended

\* So does the property's first half.
LEMMA OneAtATimeOnward ==
  ASSUME NEW rows \in Seq(Rows), NEW later \in Seq(Rows), Onward(rows, later),
         OneAtATime(rows)
  PROVE  OneAtATime(later)
<1> SUFFICES ASSUME NEW i \in 1..Len(later), NEW j \in 1..Len(later), i < j,
                    later[i].button = later[j].button,
                    \A k \in (i + 1)..(j - 1) : later[k].button # later[i].button,
                    later[i].row \notin Ended
             PROVE  later[j].seen < i
    BY DEF OneAtATime
<1>1. i \in 1..Len(rows) /\ j \in 1..Len(rows) /\ Len(rows) \in Nat
      BY DEF Onward
<1>2. /\ rows[i].button = rows[j].button /\ rows[i].row \notin Ended
      /\ later[j].seen = rows[j].seen
      BY <1>1 DEF Onward
<1>3. ASSUME NEW k \in (i + 1)..(j - 1) PROVE rows[k].button # rows[i].button
  <2>1. k \in 1..Len(rows)
        BY <1>1
  <2> QED BY <2>1, <1>1 DEF Onward
<1> QED BY <1>1, <1>2, <1>3 DEF OneAtATime

\* A handler that moves to a state it may be in keeps the invariant, when the
\* rows only go onward.
LEMMA Moves ==
  ASSUME DemoInv, NEW p \in Process, NEW c \in DemoCallers,
         demoCaller' = [demoCaller EXCEPT ![p] = c],
         runs' \in Seq(Rows), Onward(runs, runs'), Knows(c, runs'), EndsAreHeard(runs'),
         configured' = configured
  PROVE  DemoInv'
<1>1. DemoTypes'
      BY DEF DemoInv, DemoTypes
<1>2. ASSUME NEW q \in Process PROVE Knows(demoCaller'[q], runs')
  <2>1. demoCaller'[q] = IF q = p THEN c ELSE demoCaller[q]
        BY DEF DemoInv, DemoTypes
  <2>2. demoCaller[q] \in DemoCallers /\ runs \in Seq(Rows) /\ Knows(demoCaller[q], runs)
        BY DEF DemoInv, DemoTypes, CallersKnow
  <2>3. Knows(demoCaller[q], runs')
        BY <2>2, KnowsOnward
  <2> QED BY <2>1, <2>3
<1>3. OneAtATime(runs')
      BY OneAtATimeOnward DEF DemoInv, DemoTypes
<1> QED BY <1>1, <1>2, <1>3 DEF DemoInv, CallersKnow

\* Rows that do not change go onward.
LEMMA SameRows == ASSUME NEW rows PROVE Onward(rows, rows)
  BY DEF Onward

\* A row that is replaced by one that goes onward.
LEMMA RowReplaced ==
  ASSUME NEW rows \in Seq(Rows), NEW i \in 1..Len(rows), NEW r \in Rows,
         r.button = rows[i].button, r.seen = rows[i].seen,
         rows[i].row \in Ended => r.row \in Ended,
         rows[i].state \in Ended => r.state = rows[i].state,
         rows[i].old => r.old,
         (r.row \in Ended /\ r.state # r.row) => r.old,
         EndsAreHeard(rows)
  PROVE  LET later == [rows EXCEPT ![i] = r] IN
         /\ later \in Seq(Rows) /\ Onward(rows, later) /\ EndsAreHeard(later)
<1> DEFINE later == [rows EXCEPT ![i] = r]
<1>1. /\ later \in Seq(Rows) /\ Len(later) = Len(rows)
      /\ \A k \in 1..Len(rows) : later[k] = IF k = i THEN r ELSE rows[k]
      OBVIOUS
<1> HIDE DEF later
<1>2. Onward(rows, later)
      BY <1>1 DEF Onward
<1>3. EndsAreHeard(later)
      BY <1>1 DEF EndsAreHeard
<1> QED BY <1>1, <1>2, <1>3 DEF later

\* A row with one field replaced.
LEMMA RowWith ==
  ASSUME NEW x \in Rows, NEW status \in Ended
  PROVE  LET r == [x EXCEPT !.row = status] IN
         /\ r \in Rows /\ r.button = x.button /\ r.seen = x.seen
         /\ r.row = status /\ r.state = x.state /\ r.old = x.old
  BY DEF Rows
\* The same of its state,
LEMMA StateWith ==
  ASSUME NEW x \in Rows, NEW status \in Ended
  PROVE  LET r == [x EXCEPT !.state = status] IN
         /\ r \in Rows /\ r.button = x.button /\ r.seen = x.seen
         /\ r.row = x.row /\ r.state = status /\ r.old = x.old
  BY DEF Rows
\* and of its age.
LEMMA OldWith ==
  ASSUME NEW x \in Rows
  PROVE  LET r == [x EXCEPT !.old = TRUE] IN
         /\ r \in Rows /\ r.button = x.button /\ r.seen = x.seen
         /\ r.row = x.row /\ r.state = x.state /\ r.old = TRUE
  BY DEF Rows

\* Where DemoGoto leads: to idleness, or on with what the handler read.
Went(c, at) == IF at = "idle" THEN DemoCallerIdle ELSE [c EXCEPT !.at = at]

\* A handler that goes on knows what it knew, if the place is one its run allows.
LEMMA WentKnows ==
  ASSUME NEW c \in DemoCallers, NEW at \in Places, NEW rows \in Seq(Rows),
         Knows(c, rows), c.at # "idle", c.run # 0,
         at = "submit" => rows[c.run].row \in Ended,
         at \in Ended => rows[c.run].state = at,
         at \in {"cancel", "stamp"} => rows[c.run].old
  PROVE  Went(c, at) \in DemoCallers /\ Knows(Went(c, at), rows)
<1>1. CASE at = "idle"
      BY <1>1 DEF Went, DemoCallerIdle, DemoCallers, Places, Knows
<1>2. CASE at # "idle"
  <2> DEFINE d == [c EXCEPT !.at = at]
  <2>1. /\ d \in DemoCallers /\ d.at = at /\ d.button = c.button /\ d.run = c.run
        /\ d.seen = c.seen
        BY DEF DemoCallers
  <2>2. Went(c, at) = d
        BY <1>2 DEF Went
  <2> HIDE DEF d
  <2> QED BY <2>1, <2>2 DEF Knows
<1> QED BY <1>1, <1>2

\* A handler that is done knows nothing it may not.
LEMMA DoneKnows ==
  ASSUME NEW c, NEW rows
  PROVE  /\ Went(c, "idle") = DemoCallerIdle
         /\ DemoCallerIdle \in DemoCallers /\ Knows(DemoCallerIdle, rows)
  BY DEF Went, DemoCallerIdle, DemoCallers, Places, Knows

\* The handler of p as the invariant knows it.
LEMMA CallerKnown ==
  ASSUME DemoInv, NEW p \in Process, demoCaller[p].at # "idle"
  PROVE  LET c == demoCaller[p] IN
         /\ c \in DemoCallers /\ Knows(c, runs) /\ runs \in Seq(Rows) /\ c.run \in 0..Len(runs)
<1>1. demoCaller[p] \in DemoCallers /\ Knows(demoCaller[p], runs) /\ runs \in Seq(Rows)
      BY DEF DemoInv, DemoTypes, CallersKnow
<1>2. demoCaller[p].run \in 0..Len(runs)
      BY <1>1 DEF Knows, DemoCallers
<1> QED BY <1>1, <1>2

-----------------------------------------------------------------------------
\* Looking a run up: what is looked up is the last of its button.
LEMMA BeginInv ==
  ASSUME DemoInv, NEW p \in Process, NEW button \in Buttons, NEW press \in BOOLEAN,
         NEW i \in 0..Len(runs), IsLatest(i, button), NEW at \in {"submit", "ask"},
         (at = "submit" /\ i # 0) => runs[i].row \in Ended, at = "ask" => i # 0,
         demoCaller' = [demoCaller EXCEPT ![p] = Begun(button, press, at, i)],
         UNCHANGED <<runs, configured>>
  PROVE  DemoInv'
<1>1. runs \in Seq(Rows) /\ Len(runs) \in Nat /\ runs' = runs
      BY DEF DemoInv, DemoTypes
<1>2. Begun(button, press, at, i) \in DemoCallers
      BY <1>1 DEF Begun, DemoCallers, Places
<1>3. Knows(Begun(button, press, at, i), runs)
      BY <1>1 DEF Begun, Knows, IsLatest, Ended
<1> QED BY <1>1, <1>2, <1>3, Moves, SameRows DEF DemoInv

\* A handler that goes on, rows unchanged.
LEMMA GoesOnInv ==
  ASSUME DemoInv, NEW p \in Process, demoCaller[p].at # "idle", demoCaller[p].run # 0,
         NEW at \in Places, DemoGoto(p, at),
         at = "submit" => runs[demoCaller[p].run].row \in Ended,
         at \in Ended => runs[demoCaller[p].run].state = at,
         at \in {"cancel", "stamp"} => runs[demoCaller[p].run].old,
         UNCHANGED <<runs, configured>>
  PROVE  DemoInv'
<1>1. /\ Went(demoCaller[p], at) \in DemoCallers /\ Knows(Went(demoCaller[p], at), runs)
      /\ runs \in Seq(Rows)
      BY CallerKnown, WentKnows
<1>2. demoCaller' = [demoCaller EXCEPT ![p] = Went(demoCaller[p], at)]
      BY DEF DemoGoto, Went
<1> QED BY <1>1, <1>2, Moves, SameRows DEF DemoInv

\* A handler that writes one row and goes on.
LEMMA DemoWriteInv ==
  ASSUME DemoInv, NEW p \in Process, demoCaller[p].at # "idle", demoCaller[p].run # 0,
         NEW status \in Ended, Write(demoCaller[p].run, status), DemoGoto(p, AfterEnd(p)),
         LET r == runs[demoCaller[p].run] IN r.state # status => r.old,
         UNCHANGED configured
  PROVE  DemoInv'
<1> DEFINE c == demoCaller[p]
           r == [runs[c.run] EXCEPT !.row = status]
<1>1. c \in DemoCallers /\ Knows(c, runs) /\ runs \in Seq(Rows) /\ c.run \in 1..Len(runs)
      BY CallerKnown
<1>2. /\ r \in Rows /\ r.button = runs[c.run].button /\ r.seen = runs[c.run].seen
      /\ r.row = status /\ r.state = runs[c.run].state /\ r.old = runs[c.run].old
  <2>1. runs[c.run] \in Rows
        BY <1>1
  <2> QED BY <2>1, RowWith
<1>3. runs' = [runs EXCEPT ![c.run] = r]
      BY DEF Write
<1> HIDE DEF r
<1>4. runs' \in Seq(Rows) /\ Onward(runs, runs') /\ EndsAreHeard(runs')
      BY <1>1, <1>2, <1>3, RowReplaced DEF DemoInv
<1>5. runs'[c.run].row \in Ended
      BY <1>1, <1>2, <1>3
<1>6. Knows(c, runs')
      BY <1>1, <1>4, KnowsOnward
<1>7. AfterEnd(p) \in {"submit", "idle"}
      BY DEF AfterEnd
<1>8. /\ Went(c, AfterEnd(p)) \in DemoCallers /\ Knows(Went(c, AfterEnd(p)), runs')
      BY <1>1, <1>4, <1>5, <1>6, <1>7, WentKnows DEF Places, Ended
<1>9. demoCaller' = [demoCaller EXCEPT ![p] = Went(c, AfterEnd(p))]
      BY DEF DemoGoto, Went
<1> QED BY <1>4, <1>8, <1>9, Moves

-----------------------------------------------------------------------------
\* An answer sends a handler on to what the answer and the run's age allow.
LEMMA AskInv == ASSUME DemoInv, NEW p \in Process, AskCoordinator(p) PROVE DemoInv'
<1> DEFINE i == demoCaller[p].run
<1>1. PICK heard \in {runs[i].state, "none"} :
        DemoGoto(p, IF heard \in Ended THEN heard ELSE IF runs[i].old THEN "cancel" ELSE "idle")
      BY DEF AskCoordinator
<1>2. i # 0 /\ demoCaller[p].at # "idle" /\ UNCHANGED <<runs, configured>>
      BY CallerKnown DEF AskCoordinator, Knows, Ended
<1>3. CASE heard \in Ended
  <2>1. heard = runs[i].state
        BY <1>3 DEF Ended
  <2> QED BY <1>1, <1>2, <1>3, <2>1, GoesOnInv DEF Places, Ended
<1>4. CASE heard \notin Ended /\ runs[i].old
      BY <1>1, <1>2, <1>4, GoesOnInv DEF Places, Ended
<1>5. CASE heard \notin Ended /\ ~runs[i].old
      BY <1>1, <1>2, <1>5, GoesOnInv DEF Places, Ended
<1> QED BY <1>3, <1>4, <1>5

\* An end written down was heard of, or is that of a run past its age.
LEMMA WritesInv ==
  ASSUME DemoInv, NEW p \in Process, WriteEndSeen(p) \/ StampCancelled(p)
  PROVE  DemoInv'
<1> DEFINE c == demoCaller[p]
<1>1. /\ c.at \in Ended \cup {"stamp"} /\ c.at # "idle" /\ c.run # 0
      /\ c.at \in Ended => runs[c.run].state = c.at
      /\ c.at = "stamp" => runs[c.run].old
      BY CallerKnown DEF WriteEndSeen, StampCancelled, Knows, Ended
<1>2. CASE WriteEndSeen(p)
      BY <1>1, <1>2, DemoWriteInv DEF WriteEndSeen
<1>3. CASE StampCancelled(p)
      BY <1>1, <1>3, DemoWriteInv DEF StampCancelled, Ended
<1> QED BY <1>2, <1>3

\* A cancel reaches only runs past their age.
LEMMA CancelInv ==
  ASSUME DemoInv, NEW p \in Process, NEW arrives \in BOOLEAN, CancelStuck(p, arrives)
  PROVE  DemoInv'
<1> DEFINE c == demoCaller[p]
           r == [runs[c.run] EXCEPT !.state = "CANCELLED"]
<1>1. /\ c \in DemoCallers /\ Knows(c, runs) /\ runs \in Seq(Rows) /\ c.at = "cancel"
      /\ c.run \in 1..Len(runs) /\ runs[c.run].old /\ runs[c.run] \in Rows
      BY CallerKnown, SMTT(30) DEF CancelStuck, Knows, Ended
<1>2. CASE arrives /\ runs[c.run].state = "RUNNING"
  <2>1. /\ r \in Rows /\ r.button = runs[c.run].button /\ r.seen = runs[c.run].seen
        /\ r.row = runs[c.run].row /\ r.old = runs[c.run].old
        BY <1>1, StateWith DEF Ended
  <2>2. runs' = [runs EXCEPT ![c.run] = r]
        BY <1>2 DEF CancelStuck
  <2> HIDE DEF r
  <2>3. runs' \in Seq(Rows) /\ Onward(runs, runs') /\ EndsAreHeard(runs')
        BY <1>1, <1>2, <2>1, <2>2, RowReplaced DEF DemoInv, Ended
  <2>4. Knows(c, runs') /\ runs'[c.run].old
        BY <1>1, <2>3, KnowsOnward DEF Onward
  <2>5. Went(c, "stamp") \in DemoCallers /\ Knows(Went(c, "stamp"), runs')
        BY <1>1, <2>3, <2>4, WentKnows DEF Places, Ended
  <2>6. demoCaller' = [demoCaller EXCEPT ![p] = Went(c, "stamp")]
        BY DEF CancelStuck, DemoGoto, Went
  <2> QED BY <2>3, <2>5, <2>6, Moves DEF CancelStuck
<1>3. CASE ~(arrives /\ runs[c.run].state = "RUNNING")
      BY <1>1, <1>3, GoesOnInv DEF CancelStuck, Places, Ended
<1> QED BY <1>2, <1>3

\* A new run: the press that starts it knows that what it saw of its button has
\* ended.
LEMMA StartInv == ASSUME DemoInv, NEW p \in Process, StartRun(p) PROVE DemoInv'
<1> DEFINE c == demoCaller[p]
           n == Len(runs)
           new == [button |-> c.button, row |-> "PENDING", state |-> "RUNNING",
                   old |-> FALSE, seen |-> c.seen]
<1>1. /\ c \in DemoCallers /\ Knows(c, runs) /\ runs \in Seq(Rows) /\ c.at = "submit"
      /\ c.run \in 0..n /\ c.seen \in 0..n /\ n \in Nat
      BY CallerKnown DEF StartRun, Knows, DemoCallers
<1>2. new \in Rows /\ new.button = c.button /\ new.seen = c.seen /\ new.row \notin Ended
      BY <1>1 DEF StartRun, DemoInv, DemoTypes, Rows, Ended
<1>3. runs' = Append(runs, new)
      BY DEF StartRun
<1> HIDE DEF new
<1>4. /\ runs' \in Seq(Rows) /\ Len(runs') = n + 1 /\ runs'[n + 1] = new
      /\ \A i \in 1..n : runs'[i] = runs[i]
      BY <1>1, <1>2, <1>3
<1>5. demoCaller' = [demoCaller EXCEPT ![p] = DemoCallerIdle] /\ configured' = configured
      BY DEF StartRun, DemoGoto
<1>6. DemoTypes'
      BY <1>4, <1>5, DoneKnows DEF DemoInv, DemoTypes
<1>7. ASSUME NEW d \in DemoCallers, Knows(d, runs) PROVE Knows(d, runs')
  <2> SUFFICES ASSUME d.at # "idle" PROVE Knows(d, runs')
      BY DEF Knows
  <2>1. d.run \in 0..n /\ d.seen \in 0..n
        BY <1>1, <1>7 DEF Knows, DemoCallers
  <2>2. d.run # 0 => runs'[d.run] = runs[d.run]
        BY <1>4, <2>1
  <2>3. \A k \in (d.run + 1)..d.seen : runs'[k] = runs[k]
        BY <1>4, <2>1
  <2> QED BY <1>1, <1>4, <1>7, <2>1, <2>2, <2>3, SMTT(30) DEF Knows, Ended
<1>8. CallersKnow'
  <2>1. ASSUME NEW q \in Process PROVE Knows(demoCaller'[q], runs')
    <3>1. demoCaller'[q] = IF q = p THEN DemoCallerIdle ELSE demoCaller[q]
          BY <1>5 DEF DemoInv, DemoTypes
    <3>2. demoCaller[q] \in DemoCallers /\ Knows(demoCaller[q], runs)
          BY DEF DemoInv, DemoTypes, CallersKnow
    <3> QED BY <3>1, <3>2, <1>7, DoneKnows
  <2> QED BY <2>1 DEF CallersKnow
<1>9. OneAtATime(runs')
  <2> SUFFICES ASSUME NEW i \in 1..(n + 1), NEW j \in 1..(n + 1), i < j,
                      runs'[i].button = runs'[j].button,
                      \A k \in (i + 1)..(j - 1) : runs'[k].button # runs'[i].button,
                      runs'[i].row \notin Ended
               PROVE  runs'[j].seen < i
      BY <1>4 DEF OneAtATime
  <2>1. i \in 1..n /\ runs'[i] = runs[i]
        BY <1>1, <1>4
  <2>2. CASE j \in 1..n
    <3>1. \A k \in (i + 1)..(j - 1) : runs'[k] = runs[k]
          BY <2>1, <2>2, <1>1, <1>4, SMTT(30)
    <3> QED BY <2>1, <2>2, <3>1, <1>4 DEF DemoInv, OneAtATime
  <2>3. CASE j = n + 1
    <3> SUFFICES ASSUME i <= c.seen PROVE FALSE
        BY <2>3, <1>1, <1>2, <1>4, <2>1
    <3>1. runs[i].button = c.button
          BY <2>1, <2>3, <1>2, <1>4
    <3>2. i <= c.run
          BY <3>1, <2>1, <1>1 DEF Knows
    <3>3. c.run # 0 /\ runs[c.run].row \in Ended /\ runs[c.run].button = c.button
          BY <3>2, <2>1, <1>1 DEF Knows
    <3>4. i # c.run
          BY <3>3, <2>1
    <3>5. c.run \in (i + 1)..(j - 1) /\ c.run \in 1..n
          BY <3>2, <3>4, <2>1, <2>3, <1>1
    <3> QED BY <3>1, <3>3, <3>5, <2>1, <1>4
  <2> QED BY <2>2, <2>3, <1>1
<1>10. EndsAreHeard(runs')
  <2> SUFFICES ASSUME NEW i \in 1..(n + 1), runs'[i].row \in Ended,
                      runs'[i].state # runs'[i].row
               PROVE  runs'[i].old
      BY <1>4 DEF EndsAreHeard
  <2>1. i \in 1..n
        BY <1>1, <1>2, <1>4
  <2> QED BY <2>1, <1>4 DEF DemoInv, EndsAreHeard
<1> QED BY <1>6, <1>8, <1>9, <1>10 DEF DemoInv

\* What happens to a run outside the handlers: it ends, its owner's list writes
\* that down, it ages.
LEMMA AroundInv ==
  ASSUME DemoInv, NEW i \in DOMAIN runs, RunEnds(i) \/ OwnerLists(i) \/ PastMaxAge(i)
  PROVE  DemoInv'
<1> DEFINE x == runs[i]
<1>1. runs \in Seq(Rows) /\ i \in 1..Len(runs) /\ x \in Rows /\ EndsAreHeard(runs)
      BY DEF DemoInv, DemoTypes
<1>2. x.row \in Ended /\ x.state # x.row => x.old
      BY <1>1 DEF EndsAreHeard
<1>3. runs' \in Seq(Rows) /\ Onward(runs, runs') /\ EndsAreHeard(runs')
  <2>1. CASE RunEnds(i)
    <3> DEFINE r == [x EXCEPT !.state = "SUCCEEDED"]
    <3>1. /\ r \in Rows /\ r.button = x.button /\ r.seen = x.seen
          /\ r.row = x.row /\ r.state = "SUCCEEDED" /\ r.old = x.old
          BY <1>1, StateWith DEF Ended
    <3>2. runs' = [runs EXCEPT ![i] = r] /\ x.state = "RUNNING"
          BY <2>1 DEF RunEnds
    <3> HIDE DEF r
    <3> QED BY <1>1, <1>2, <3>1, <3>2, RowReplaced DEF Ended
  <2>2. CASE OwnerLists(i)
    <3> DEFINE r == [x EXCEPT !.row = x.state]
    <3>1. x.state \in Ended
          BY <2>2 DEF OwnerLists
    <3>2. /\ r \in Rows /\ r.button = x.button /\ r.seen = x.seen
          /\ r.row = x.state /\ r.state = x.state /\ r.old = x.old
          BY <1>1, <3>1, RowWith
    <3>3. runs' = [runs EXCEPT ![i] = r]
          BY <2>2 DEF OwnerLists, Write
    <3> HIDE DEF r
    <3> QED BY <1>1, <3>1, <3>2, <3>3, RowReplaced
  <2>3. CASE PastMaxAge(i)
    <3> DEFINE r == [x EXCEPT !.old = TRUE]
    <3>1. /\ r \in Rows /\ r.button = x.button /\ r.seen = x.seen
          /\ r.row = x.row /\ r.state = x.state /\ r.old = TRUE
          BY <1>1, OldWith
    <3>2. runs' = [runs EXCEPT ![i] = r]
          BY <2>3 DEF PastMaxAge
    <3> HIDE DEF r
    <3> QED BY <1>1, <3>1, <3>2, RowReplaced
  <2> QED BY <2>1, <2>2, <2>3
<1>4. UNCHANGED <<demoCaller, configured>>
      BY DEF RunEnds, OwnerLists, PastMaxAge
<1>5. DemoTypes' /\ OneAtATime(runs')
      BY <1>1, <1>3, <1>4, OneAtATimeOnward DEF DemoInv, DemoTypes
<1>6. ASSUME NEW q \in Process PROVE Knows(demoCaller[q], runs')
  <2>1. demoCaller[q] \in DemoCallers /\ Knows(demoCaller[q], runs)
        BY DEF DemoInv, DemoTypes, CallersKnow
  <2> QED BY <1>1, <1>3, <2>1, KnowsOnward
<1> QED BY <1>3, <1>4, <1>5, <1>6 DEF DemoInv, CallersKnow

\* Every step keeps the invariant.
LEMMA DemoStepInv == DemoInv /\ [DemoNext]_demoVars => DemoInv'
<1> SUFFICES ASSUME DemoInv, [DemoNext]_demoVars PROVE DemoInv'
    OBVIOUS
<1>1. ASSUME NEW p \in Process, NEW button \in Buttons, Press(p, button) PROVE DemoInv'
  <2>1. PICK i \in 0..Len(runs) :
          /\ IsLatest(i, button)
          /\ demoCaller' = [demoCaller EXCEPT ![p] =
               Begun(button, TRUE, IF i = 0 \/ runs[i].row \in Ended THEN "submit" ELSE "ask", i)]
        BY <1>1 DEF Press
  <2>2. CASE i = 0 \/ runs[i].row \in Ended
        BY <1>1, <2>1, <2>2, BeginInv DEF Press
  <2>3. CASE i # 0 /\ runs[i].row \notin Ended
        BY <1>1, <2>1, <2>3, BeginInv DEF Press
  <2> QED BY <2>2, <2>3
<1>2. ASSUME NEW p \in Process, NEW button \in Buttons, ReadPage(p, button) PROVE DemoInv'
  <2>1. PICK i \in DOMAIN runs :
          /\ IsLatest(i, button)
          /\ demoCaller' = [demoCaller EXCEPT ![p] = Begun(button, FALSE, "ask", i)]
        BY <1>2 DEF ReadPage
  <2>2. i \in 0..Len(runs) /\ i # 0
        BY DEF DemoInv, DemoTypes
  <2> QED BY <1>2, <2>1, <2>2, BeginInv DEF ReadPage
<1>3. ASSUME NEW p \in Process, RunRefused(p) PROVE DemoInv'
  <2>1. demoCaller' = [demoCaller EXCEPT ![p] = DemoCallerIdle]
        BY <1>3 DEF RunRefused, DemoGoto
  <2> QED BY <1>3, <2>1, Moves, DoneKnows, SameRows DEF RunRefused, DemoInv, DemoTypes
<1>4. CASE \E button \in Buttons \ configured : Configured(button)
      BY <1>4, SameRows DEF Configured, DemoInv, DemoTypes, CallersKnow
<1>5. CASE UNCHANGED demoVars
      BY <1>5 DEF demoVars, DemoInv, DemoTypes, CallersKnow
<1> QED BY <1>1, <1>2, <1>3, <1>4, <1>5, AskInv, WritesInv, CancelInv, StartInv, AroundInv
        DEF DemoNext

-----------------------------------------------------------------------------
\* However many press at once, a run follows an unended run of its button only
\* by a press that looked before that one was there, so a press that sees a run
\* joins it; and a row says of an end only what the coordinator says, but for a
\* run past its age.
THEOREM DemoPressesJoin == DemoSpec => []PressesJoinTheRun
<1>1. DemoInv => PressesJoinTheRun
  <2> SUFFICES ASSUME DemoInv PROVE PressesJoinTheRun
      OBVIOUS
  <2>1. DOMAIN runs = 1..Len(runs)
        BY DEF DemoInv, DemoTypes
  <2>2. ASSUME NEW i \in DOMAIN runs, NEW j \in DOMAIN runs, Follows(i, j),
               runs[i].row \notin Ended
        PROVE  runs[j].seen < i
        BY <2>1, <2>2 DEF DemoInv, OneAtATime, Follows
  <2>3. ASSUME NEW i \in DOMAIN runs, runs[i].row \in Ended, runs[i].state # runs[i].row
        PROVE  runs[i].old
        BY <2>1, <2>3 DEF DemoInv, EndsAreHeard
  <2> QED BY <2>2, <2>3 DEF PressesJoinTheRun
<1> QED BY <1>1, DemoInitInv, DemoStepInv, PTL DEF DemoSpec

\* The types of the runs and of the buttons.
THEOREM DemoTyped == DemoSpec => []DemoTypeOK
<1>1. DemoInv => DemoTypeOK
  <2> SUFFICES ASSUME DemoInv PROVE DemoTypeOK
      OBVIOUS
  <2>1. DOMAIN runs = 1..Len(runs) /\ \A i \in DOMAIN runs : runs[i] \in Rows
        BY DEF DemoInv, DemoTypes
  <2> QED BY <2>1 DEF DemoInv, DemoTypes, Rows, DemoTypeOK
<1> QED BY <1>1, DemoInitInv, DemoStepInv, PTL DEF DemoSpec

-----------------------------------------------------------------------------
(***************************************************************************)
(* FederatedRun for any number of rounds, drivers and failures: until its  *)
(* owner deletes it, the rows of a run are one history.                    *)
(***************************************************************************)

\* The rounds' jobs, and the driver.
RoundJobs == [round : Round, base : Nat, weights : BOOLEAN]
DriverPlaces == {"none", "begin", "resume", "round", "wait", "row", "credit", "succeed", "fail",
                 "measure", "measured"}
Drivers == [at : DriverPlaces, next : 0..Rounds, base : Nat, bytes : Nat]

\* The types of the rows, the jobs, the driver and the deletion.
FedTypes ==
  /\ roundJob \in Seq(RoundJobs) /\ roundRow \in [Round -> 0..Len(roundJob)]
  /\ driver \in Drivers /\ purged \in BOOLEAN
  /\ runStatus \in {"none", "PENDING", "RUNNING"} \cup Finished
  /\ eraser.targets \subseteq RecordedJobs

\* The rows written are the first ones, each of a job of its round; until a
\* deletion, of one that has its weights and started from those of the row before;
\* whatever job was submitted started from weights on record.
RowsInOrder ==
  /\ \A r \in Round : roundRow[r] # 0 => roundJob[roundRow[r]].round = r
  /\ \A r, s \in Round : s < r /\ roundRow[r] # 0 => roundRow[s] # 0
  /\ runStatus = "SUCCEEDED" => \A r \in Round : roundRow[r] # 0
RowsAreAChain ==
  /\ \A j \in 1..Len(roundJob) : roundJob[j].base \in RecordedJobs \cup {0}
  /\ \A r \in Round : roundRow[r] # 0 =>
       /\ roundJob[roundRow[r]].weights
       /\ roundJob[roundRow[r]].base = IF r = 0 THEN 0 ELSE roundRow[r - 1]

\* The driver has the rows of all rounds before its own, and its own job is the
\* last submitted.
DriverAt(d) ==
  /\ d.at \in {"round", "wait", "row", "credit"} =>
       /\ d.next \in Round
       /\ \A r \in Round : r < d.next => roundRow[r] # 0
  /\ d.at \in {"wait", "row", "credit"} => roundJob # <<>>
  /\ d.at \in {"wait", "row"} => roundJob[Len(roundJob)].round = d.next
  /\ d.at = "credit" => roundRow[d.next] # 0
  /\ d.at = "succeed" => \A r \in Round : roundRow[r] # 0
\* Until a deletion it does what no row has yet, from the row before.
DriverExtends(d) ==
  /\ d.at \in {"round", "wait", "row"} =>
       /\ \A r \in Round : d.next <= r => roundRow[r] = 0
       /\ d.base = IF d.next = 0 THEN 0 ELSE roundRow[d.next - 1]
  /\ d.at \in {"wait", "row"} => roundJob[Len(roundJob)].base = d.base
  /\ d.at = "row" => roundJob[Len(roundJob)].weights
  /\ d.at = "credit" =>
       /\ roundRow[d.next] = Len(roundJob)
       /\ \A r \in Round : d.next < r => roundRow[r] = 0

\* The inductive invariant.
FedInv ==
  /\ FedTypes /\ RowsInOrder /\ DriverAt(driver)
  /\ ~purged => RowsAreAChain /\ DriverExtends(driver)

-----------------------------------------------------------------------------
\* Some rounds have a latest.
LEMMA LatestOfSome ==
  ASSUME NEW T \in SUBSET Round, T # {}
  PROVE  Max(T) \in T /\ \A r \in T : r <= Max(T)
<1> DEFINE D == {Rounds - r : r \in T}
<1>0. Rounds \in Nat /\ \A r \in T : r \in Int /\ Rounds - r \in Nat
      BY FederatedAssumption DEF Round
<1>1. D \subseteq Nat /\ D # {}
      BY <1>0
<1>2. PICK m \in D : \A k \in D : <<k, m>> \notin OpToRel(<, Nat)
      BY <1>1, NatLessThanWellFounded, WFMin, Zenon
<1>3. \A k \in D : ~(k < m)
      BY <1>1, <1>2, Zenon DEF OpToRel
<1>4. PICK x \in T : m = Rounds - x
      OBVIOUS
<1>5. ASSUME NEW r \in T PROVE x >= r
  <2>1. Rounds - r \in D
        OBVIOUS
  <2>2. ~(Rounds - r < Rounds - x)
        BY <2>1, <1>3, <1>4
  <2> QED BY <2>2, <1>0
<1>6. \A r \in T : x >= r
      BY <1>5
<1>7. Max(T) \in T /\ \A r \in T : Max(T) >= r
      BY <1>6 DEF Max
<1> QED BY <1>0, <1>7

\* The types, by variable.
LEMMA FedFacts ==
  ASSUME FedInv
  PROVE  /\ roundJob \in Seq(RoundJobs) /\ roundRow \in [Round -> 0..Len(roundJob)]
         /\ driver \in Drivers /\ purged \in BOOLEAN
         /\ runStatus \in {"none", "PENDING", "RUNNING"} \cup Finished
         /\ eraser.targets \subseteq RecordedJobs /\ RowsInOrder /\ DriverAt(driver)
         /\ Rounds \in Nat \ {0} /\ Len(roundJob) \in Nat /\ DOMAIN roundJob = 1..Len(roundJob)
  BY FederatedAssumption DEF FedInv, FedTypes

\* In the first state the run was not submitted.
LEMMA FedInitInv == FedInit => FedInv
<1> SUFFICES ASSUME FedInit PROVE FedInv
    OBVIOUS
<1>1. NoDriver \in Drivers /\ NoDriver.at = "none"
      BY FederatedAssumption DEF NoDriver, Drivers, DriverPlaces
<1>2. roundJob \in Seq(RoundJobs) /\ Len(roundJob) = 0
      BY DEF FedInit
<1>3. FedTypes
  <2>1. roundRow \in [Round -> 0..Len(roundJob)]
        BY <1>2 DEF FedInit
  <2>2. eraser.targets = {}
        BY DEF FedInit, NoEraser
  <2> QED BY <1>1, <1>2, <2>1, <2>2 DEF FedInit, FedTypes
<1>4. RowsInOrder /\ RowsAreAChain
      BY DEF FedInit, RowsInOrder, RowsAreAChain
<1>5. DriverAt(driver) /\ DriverExtends(driver)
      BY <1>1 DEF FedInit, DriverAt, DriverExtends
<1> QED BY <1>3, <1>4, <1>5 DEF FedInv

\* The driver goes on, the rows as they are.
LEMMA DriverMoves ==
  ASSUME FedInv, NEW d \in Drivers, driver' = d, UNCHANGED <<roundRow, roundJob, purged>>,
         DriverAt(d), ~purged => DriverExtends(d),
         runStatus' \in {"none", "PENDING", "RUNNING"} \cup Finished,
         runStatus' = "SUCCEEDED" /\ runStatus # "SUCCEEDED" => \A r \in Round : roundRow[r] # 0,
         eraser'.targets \subseteq RecordedJobs
  PROVE  FedInv'
<1>1. UNCHANGED RecordedJobs
      BY DEF RecordedJobs
<1>2. FedTypes'
      BY <1>1, FedFacts DEF FedTypes
<1>3. RowsInOrder'
      BY FedFacts DEF RowsInOrder
<1>4. DriverAt(driver)'
      BY DEF DriverAt
<1>5. ~purged => (RowsAreAChain /\ DriverExtends(driver))'
      BY <1>1 DEF FedInv, RowsAreAChain, DriverExtends
<1> QED BY <1>2, <1>3, <1>4, <1>5 DEF FedInv

\* Where the driver goes on with what it had.
LEMMA DriverGoes ==
  ASSUME FedInv, NEW at \in DriverPlaces, NEW d, d = [driver EXCEPT !.at = at]
  PROVE  /\ d \in Drivers /\ d.at = at /\ d.next = driver.next /\ d.base = driver.base
  BY FedFacts DEF Drivers

\* The places at which nothing is said of the driver.
LEMMA IdlePlaces ==
  ASSUME NEW d, d.at \in {"none", "begin", "resume", "fail", "measure", "measured"}
  PROVE  DriverAt(d) /\ DriverExtends(d)
  BY DEF DriverAt, DriverExtends

\* A driver that is not there is at one of them.
LEMMA NoDriverIdle == NoDriver \in Drivers /\ NoDriver.at = "none"
  BY FederatedAssumption DEF NoDriver, Drivers, DriverPlaces

\* The run is submitted, started, stopped, fails, succeeds; its driver dies.
LEMMA StatusStep ==
  ASSUME FedInv, \/ SubmitFederated
                 \/ OperatorResumes
                 \/ DriverBegins
                 \/ DriverRaises
                 \/ FinishRun
                 \/ DriverDies
  PROVE  FedInv'
<1>1. UNCHANGED <<roundRow, roundJob, purged, credited, eraser>>
      BY DEF SubmitFederated, OperatorResumes, DriverBegins, DriverRaises, FinishRun, DriverDies
<1>2. /\ driver \in Drivers /\ DriverAt(driver)
      /\ ~purged => DriverExtends(driver)
      /\ eraser'.targets \subseteq RecordedJobs
      BY <1>1, FedFacts DEF FedInv, RowsAreAChain
<1>3. /\ runStatus' \in {"none", "PENDING", "RUNNING"} \cup Finished
      /\ runStatus' = "SUCCEEDED" /\ runStatus # "SUCCEEDED" => \A r \in Round : roundRow[r] # 0
      BY FedFacts
      DEF SubmitFederated, OperatorResumes, DriverBegins, DriverRaises, FinishRun, DriverDies,
          DriverAt, Finished
<1>4. \/ \E at \in {"begin", "resume", "fail", "measure"} : driver' = [driver EXCEPT !.at = at]
      \/ driver' = NoDriver
      \/ driver' = driver
      BY DEF SubmitFederated, OperatorResumes, DriverBegins, DriverRaises, FinishRun, DriverDies,
             DriverGoto
<1>5. CASE \E at \in {"begin", "resume", "fail", "measure"} : driver' = [driver EXCEPT !.at = at]
  <2>1. PICK at \in {"begin", "resume", "fail", "measure"} : driver' = [driver EXCEPT !.at = at]
        BY <1>5
  <2>2. driver' \in Drivers /\ driver'.at = at
        BY <2>1, DriverGoes DEF DriverPlaces
  <2>3. DriverAt(driver') /\ DriverExtends(driver')
        BY <2>2, IdlePlaces
  <2> QED BY <1>1, <1>2, <1>3, <2>2, <2>3, DriverMoves
<1>6. CASE driver' = NoDriver
  <2>1. driver' \in Drivers /\ DriverAt(driver') /\ DriverExtends(driver')
        BY <1>6, NoDriverIdle, IdlePlaces
  <2> QED BY <1>1, <1>2, <1>3, <2>1, DriverMoves
<1>7. CASE driver' = driver
      BY <1>1, <1>2, <1>3, <1>7, DriverMoves
<1> QED BY <1>4, <1>5, <1>6, <1>7

\* A new driver finds the latest row, and goes on after it.
LEMMA ResumeInv ==
  ASSUME FedInv, ResumeState
  PROVE  FedInv'
<1>1. /\ UNCHANGED <<roundRow, roundJob, purged, credited, eraser, runStatus>>
      /\ runStatus \in {"none", "PENDING", "RUNNING"} \cup Finished
      /\ eraser.targets \subseteq RecordedJobs
      BY FedFacts DEF ResumeState, FedInv, RowsAreAChain
<1>2. Committed \subseteq Round /\ \A r \in Committed : roundRow[r] # 0
      BY DEF Committed
<1>3. ~purged => \A r \in Round : roundRow[r] # 0 => r \in Committed
      BY DEF FedInv, RowsAreAChain, Committed
<1>4. CASE Committed = {}
  <2>1. driver' = [at |-> "round", next |-> 0, base |-> 0, bytes |-> 0]
        BY <1>4 DEF ResumeState, NoDriver
  <2>2. /\ driver' \in Drivers /\ driver'.at = "round" /\ driver'.next = 0 /\ driver'.base = 0
        /\ 0 \in Round
        BY <2>1, FedFacts DEF Drivers, DriverPlaces, Round
  <2>3. DriverAt(driver')
        BY <2>2 DEF DriverAt, Round
  <2>4. ~purged => DriverExtends(driver')
        BY <2>2, <1>3, <1>4 DEF DriverExtends
  <2> QED BY <2>2, <2>3, <2>4, <1>1, DriverMoves
<1>5. CASE Committed # {}
  <2> DEFINE r == Max(Committed)
  <2>1. r \in Committed /\ \A s \in Committed : s <= r
        BY <1>2, <1>5, LatestOfSome
  <2>2. driver' = [at |-> AfterRound(r), next |-> r + 1, base |-> roundRow[r], bytes |-> 0]
        BY <1>5 DEF ResumeState, NoDriver
  <2> HIDE DEF r
  <2>3. r \in Round /\ r \in Nat /\ r + 1 \in 0..Rounds /\ roundRow[r] \in Nat /\ roundRow[r] # 0
        BY <2>1, <1>2, FedFacts DEF Round
  <2>4. AfterRound(r) \in {"round", "succeed"}
        BY DEF AfterRound
  <2>5. /\ driver' \in Drivers /\ driver'.at = AfterRound(r) /\ driver'.next = r + 1
        /\ driver'.base = roundRow[r]
        BY <2>2, <2>3, <2>4 DEF Drivers, DriverPlaces
  <2>6. \A s \in Round : s < r + 1 => roundRow[s] # 0
    <3> TAKE s \in Round
    <3>1. s \in Int
          BY DEF Round
    <3> QED BY <3>1, <2>3, FedFacts DEF RowsInOrder
  <2>7. DriverAt(driver')
    <3>1. CASE r + 1 < Rounds
      <4>1. AfterRound(r) = "round" /\ r + 1 \in Round
            BY <3>1, <2>3, FedFacts DEF AfterRound, Round
      <4> QED BY <4>1, <2>5, <2>6 DEF DriverAt
    <3>2. CASE ~(r + 1 < Rounds)
      <4>1. AfterRound(r) = "succeed" /\ \A s \in Round : s < r + 1
            BY <3>2, <2>3, FedFacts DEF AfterRound, Round
      <4> QED BY <4>1, <2>5, <2>6 DEF DriverAt
    <3> QED BY <3>1, <3>2
  <2>8. ASSUME ~purged PROVE DriverExtends(driver')
    <3>1. \A s \in Round : r + 1 <= s => roundRow[s] = 0
      <4> TAKE s \in Round
      <4>1. s \in Int
            BY DEF Round
      <4> QED BY <4>1, <2>1, <2>3, <2>8, <1>3
    <3>2. roundRow[r] = roundRow[(r + 1) - 1] /\ r + 1 # 0
          BY <2>3
    <3> QED BY <3>1, <3>2, <2>4, <2>5 DEF DriverExtends
  <2> QED BY <2>5, <2>7, <2>8, <1>1, DriverMoves
<1> QED BY <1>4, <1>5

\* The contributions of a round are recorded, and the next one begins.
LEMMA CreditInv ==
  ASSUME FedInv, RecordContributions
  PROVE  FedInv'
<1> DEFINE n == driver.next
           k == Len(roundJob)
<1>1. /\ UNCHANGED <<roundRow, roundJob, purged, eraser, runStatus>>
      /\ runStatus \in {"none", "PENDING", "RUNNING"} \cup Finished
      /\ eraser.targets \subseteq RecordedJobs
      /\ driver \in Drivers /\ driver.at = "credit" /\ DriverAt(driver) /\ k \in Nat
      /\ driver' = [driver EXCEPT !.at = AfterRound(n), !.next = n + 1, !.base = k]
      BY FedFacts DEF RecordContributions
<1>2. n \in Round /\ roundRow[n] # 0 /\ \A r \in Round : r < n => roundRow[r] # 0
      BY <1>1 DEF DriverAt
<1>3. n \in Nat /\ n + 1 \in 0..Rounds /\ n < Rounds
      BY <1>2, FedFacts DEF Round
<1>4. /\ driver' \in Drivers /\ driver'.at = AfterRound(n) /\ driver'.next = n + 1
      /\ driver'.base = k
  <2> DEFINE at == AfterRound(n)
             m == n + 1
  <2>1. at \in DriverPlaces /\ m \in 0..Rounds
        BY <1>3 DEF AfterRound, DriverPlaces
  <2>2. driver' = [driver EXCEPT !.at = at, !.next = m, !.base = k]
        BY <1>1
  <2> HIDE DEF at, m, k
  <2> QED BY <2>1, <2>2, <1>1 DEF Drivers
<1>5. DriverAt(driver')
  <2>1. \A s \in Round : s < n + 1 => roundRow[s] # 0
    <3> TAKE s \in Round
    <3>1. s \in Int
          BY DEF Round
    <3> QED BY <3>1, <1>2, <1>3
  <2>2. CASE n + 1 < Rounds
    <3>1. AfterRound(n) = "round" /\ n + 1 \in Round
          BY <2>2, <1>3, FedFacts DEF AfterRound, Round
    <3> QED BY <3>1, <1>4, <2>1 DEF DriverAt
  <2>3. CASE ~(n + 1 < Rounds)
    <3>1. AfterRound(n) = "succeed" /\ \A s \in Round : s < n + 1
          BY <2>3, <1>3, FedFacts DEF AfterRound, Round
    <3> QED BY <3>1, <1>4, <2>1 DEF DriverAt
  <2> QED BY <2>2, <2>3
<1>6. ASSUME ~purged PROVE DriverExtends(driver')
  <2>1. roundRow[n] = k /\ \A r \in Round : n < r => roundRow[r] = 0
        BY <1>1, <1>6 DEF FedInv, DriverExtends
  <2>2. \A s \in Round : n + 1 <= s => roundRow[s] = 0
    <3> TAKE s \in Round
    <3>1. s \in Int
          BY DEF Round
    <3> QED BY <3>1, <2>1, <1>3
  <2>3. k = roundRow[(n + 1) - 1] /\ n + 1 # 0
        BY <1>3, <2>1
  <2>4. AfterRound(n) \in {"round", "succeed"}
        BY DEF AfterRound
  <2> QED BY <2>2, <2>3, <2>4, <1>4 DEF DriverExtends
<1> QED BY <1>1, <1>4, <1>5, <1>6, DriverMoves

\* A task is accepted and credited: the rows and the driver are as they were.
LEMMA AcceptInv ==
  ASSUME FedInv, NEW j \in DOMAIN roundJob, CreditAccepted(j)
  PROVE  FedInv'
<1>1. UNCHANGED <<roundRow, roundJob, purged, eraser, runStatus, driver>>
      BY DEF CreditAccepted
<1>2. /\ runStatus \in {"none", "PENDING", "RUNNING"} \cup Finished
      /\ eraser.targets \subseteq RecordedJobs
      /\ driver \in Drivers /\ DriverAt(driver)
      /\ ~purged => DriverExtends(driver)
      BY FedFacts DEF FedInv
<1> QED BY <1>1, <1>2, DriverMoves

\* The ended run is measured.
LEMMA MeasureInv ==
  ASSUME FedInv, MeasureRun \/ RecordRunFootprint
  PROVE  FedInv'
<1>1. /\ UNCHANGED <<roundRow, roundJob, purged, credited, eraser, runStatus>>
      /\ runStatus \in {"none", "PENDING", "RUNNING"} \cup Finished
      /\ eraser.targets \subseteq RecordedJobs
      BY FedFacts DEF MeasureRun, RecordRunFootprint, FedInv, RowsAreAChain
<1>2. CASE driver' = NoDriver
  <2>1. driver' \in Drivers /\ DriverAt(driver') /\ DriverExtends(driver')
        BY <1>2, NoDriverIdle, IdlePlaces
  <2> QED BY <1>1, <2>1, DriverMoves
<1>3. CASE driver' # NoDriver
  <2> DEFINE T == {j \in RecordedJobs : roundJob[j].weights}
             b == Cardinality(T)
  <2>1. T \subseteq 1..Len(roundJob)
        BY FedFacts DEF RecordedJobs
  <2>6. IsFiniteSet(1..Len(roundJob))
        BY FedFacts, FS_Interval
  <2>7. IsFiniteSet(T)
        BY <2>1, <2>6, FS_Subset
  <2>2. b \in Nat
        BY <2>7, FS_CardinalityType
  <2>3. driver' = [driver EXCEPT !.at = "measured", !.bytes = b]
        BY <1>3 DEF MeasureRun, RecordRunFootprint
  <2> HIDE DEF b
  <2>4. driver' \in Drivers /\ driver'.at = "measured"
        BY <2>2, <2>3, FedFacts DEF Drivers, DriverPlaces
  <2>5. DriverAt(driver') /\ DriverExtends(driver')
        BY <2>4, IdlePlaces
  <2> QED BY <1>1, <2>4, <2>5, DriverMoves
<1> QED BY <1>2, <1>3

\* A round's job is submitted: it starts from the weights the driver has.
LEMMA SubmitInv ==
  ASSUME FedInv, SubmitRound
  PROVE  FedInv'
<1> DEFINE new == [round |-> driver.next, base |-> driver.base, weights |-> FALSE]
           k == Len(roundJob)
<1>1. /\ driver.at = "round" /\ driver' = [driver EXCEPT !.at = "wait"]
      /\ roundJob' = Append(roundJob, new)
      /\ UNCHANGED <<runStatus, roundRow, credited, eraser, purged>>
      BY DEF SubmitRound, DriverGoto
<1>2. driver \in Drivers /\ driver.next \in Round /\ k \in Nat
      BY <1>1, FedFacts DEF DriverAt
<1>3. new \in RoundJobs /\ new.round = driver.next /\ new.base = driver.base
      BY <1>2 DEF RoundJobs, Drivers
<1> HIDE DEF new
<1>4. /\ roundJob' \in Seq(RoundJobs) /\ Len(roundJob') = k + 1
      /\ \A j \in 1..k : roundJob'[j] = roundJob[j]
      /\ roundJob'[k + 1] = new /\ roundJob' # <<>>
      BY <1>1, <1>3, FedFacts
<1>5. \A r \in Round : roundRow[r] # 0 => roundJob'[roundRow[r]] = roundJob[roundRow[r]]
      BY <1>4, FedFacts
<1>6. /\ driver' \in Drivers /\ driver'.at = "wait" /\ driver'.next = driver.next
      /\ driver'.base = driver.base
      BY <1>1, DriverGoes DEF DriverPlaces
<1>7. roundRow' \in [Round -> 0..Len(roundJob')]
  <2>1. 0..k \subseteq 0..(k + 1)
        BY <1>2
  <2> QED BY <2>1, <1>1, <1>4, FedFacts
<1>8. FedTypes'
  <2>1. UNCHANGED RecordedJobs
        BY <1>1 DEF RecordedJobs
  <2> QED BY <2>1, <1>1, <1>4, <1>6, <1>7, FedFacts DEF FedTypes
<1>9. RowsInOrder'
      BY <1>1, <1>5, FedFacts DEF RowsInOrder
<1>10. DriverAt(driver)'
       BY <1>1, <1>2, <1>3, <1>4, <1>6, FedFacts DEF DriverAt
<1>11. ASSUME ~purged PROVE (RowsAreAChain /\ DriverExtends(driver))'
  <2>1. RowsAreAChain /\ DriverExtends(driver)
        BY <1>11 DEF FedInv
  <2>2. driver.base \in RecordedJobs \cup {0}
    <3>1. driver.next # 0 => driver.next - 1 \in Round
          BY <1>2, FedFacts DEF Round
    <3> QED BY <3>1, <2>1, <1>1 DEF DriverExtends, RecordedJobs
  <2>3. \A j \in 1..Len(roundJob') : roundJob'[j].base \in RecordedJobs \cup {0}
    <3> TAKE j \in 1..Len(roundJob')
    <3>1. CASE j = k + 1
          BY <3>1, <2>2, <1>3, <1>4
    <3>2. CASE j # k + 1
      <4>1. j \in 1..k
            BY <3>2, <1>2, <1>4
      <4> QED BY <4>1, <2>1, <1>4 DEF RowsAreAChain
    <3> QED BY <3>1, <3>2
  <2>4. RowsAreAChain'
    <3>1. /\ UNCHANGED RecordedJobs
          /\ \A j \in 1..Len(roundJob') : roundJob'[j].base \in RecordedJobs' \cup {0}
          BY <2>3, <1>1 DEF RecordedJobs
    <3>2. \A r \in Round : roundRow'[r] # 0 =>
            /\ roundJob'[roundRow'[r]].weights
            /\ roundJob'[roundRow'[r]].base = IF r = 0 THEN 0 ELSE roundRow'[r - 1]
          BY <2>1, <1>1, <1>5 DEF RowsAreAChain
    <3> QED BY <3>1, <3>2 DEF RowsAreAChain
  <2>5. DriverExtends(driver)'
        BY <2>1, <1>1, <1>3, <1>4, <1>6 DEF DriverExtends
  <2> QED BY <2>4, <2>5
<1> QED BY <1>1, <1>8, <1>9, <1>10, <1>11 DEF FedInv

\* A job whose weights are written or gone, and the others, which stay.
LEMMA JobWeights ==
  ASSUME FedInv, NEW k \in 1..Len(roundJob), NEW b \in BOOLEAN,
         roundJob' = [roundJob EXCEPT ![k].weights = b]
  PROVE  /\ roundJob' \in Seq(RoundJobs) /\ Len(roundJob') = Len(roundJob)
         /\ \A j \in 1..Len(roundJob) :
              /\ roundJob'[j].round = roundJob[j].round /\ roundJob'[j].base = roundJob[j].base
              /\ roundJob'[j].weights = IF j = k THEN b ELSE roundJob[j].weights
<1> DEFINE job == [roundJob[k] EXCEPT !.weights = b]
<1>1. roundJob \in Seq(RoundJobs) /\ roundJob[k] \in RoundJobs
      BY FedFacts
<1>2. /\ job \in RoundJobs /\ job.round = roundJob[k].round /\ job.base = roundJob[k].base
      /\ job.weights = b
      BY <1>1 DEF RoundJobs
<1>3. roundJob' = [roundJob EXCEPT ![k] = job]
      OBVIOUS
<1> HIDE DEF job
<1> QED BY <1>1, <1>2, <1>3

\* The last job submitted commits its weights.
LEMMA CommitInv ==
  ASSUME FedInv, CommitWeights
  PROVE  FedInv'
<1> DEFINE k == Len(roundJob)
<1>1. /\ driver.at = "wait" /\ driver' = [driver EXCEPT !.at = "row"]
      /\ roundJob' = [roundJob EXCEPT ![k].weights = TRUE]
      /\ UNCHANGED <<runStatus, roundRow, credited, eraser, purged>>
      BY DEF CommitWeights, DriverGoto
<1>2. k \in 1..k /\ k \in Nat
      BY <1>1, FedFacts DEF DriverAt
<1>3. /\ roundJob' \in Seq(RoundJobs) /\ Len(roundJob') = k
      /\ \A j \in 1..k :
           /\ roundJob'[j].round = roundJob[j].round /\ roundJob'[j].base = roundJob[j].base
           /\ roundJob'[j].weights = IF j = k THEN TRUE ELSE roundJob[j].weights
      BY <1>1, <1>2, JobWeights
<1>4. /\ driver' \in Drivers /\ driver'.at = "row" /\ driver'.next = driver.next
      /\ driver'.base = driver.base
      BY <1>1, DriverGoes DEF DriverPlaces
<1>5. FedTypes'
  <2>1. UNCHANGED RecordedJobs
        BY <1>1 DEF RecordedJobs
  <2> QED BY <2>1, <1>1, <1>3, <1>4, FedFacts DEF FedTypes
<1>6. \A r \in Round : roundRow[r] # 0 => roundRow[r] \in 1..k
      BY FedFacts
<1>7. RowsInOrder'
      BY <1>1, <1>3, <1>6, FedFacts DEF RowsInOrder
<1>8. DriverAt(driver)'
      BY <1>1, <1>2, <1>3, <1>4, FedFacts DEF DriverAt
<1>9. ASSUME ~purged PROVE (RowsAreAChain /\ DriverExtends(driver))'
  <2>1. RowsAreAChain /\ DriverExtends(driver)
        BY <1>9 DEF FedInv
  <2>2. RowsAreAChain'
        BY <2>1, <1>1, <1>3, <1>6 DEF RowsAreAChain, RecordedJobs
  <2>3. DriverExtends(driver)'
        BY <2>1, <1>1, <1>2, <1>3, <1>4 DEF DriverExtends
  <2> QED BY <2>2, <2>3
<1> QED BY <1>1, <1>5, <1>7, <1>8, <1>9 DEF FedInv

\* The round's row is written, of the last job submitted.
LEMMA RowInv ==
  ASSUME FedInv, InsertJobRound
  PROVE  FedInv'
<1> DEFINE k == Len(roundJob)
           n == driver.next
<1>1. /\ driver.at = "row" /\ driver' = [driver EXCEPT !.at = "credit"]
      /\ roundRow' = [roundRow EXCEPT ![n] = IF @ = 0 THEN k ELSE @]
      /\ UNCHANGED <<runStatus, roundJob, credited, eraser, purged>>
      BY DEF InsertJobRound, DriverGoto
<1>2. /\ n \in Round /\ k \in Nat /\ k # 0 /\ roundJob[k].round = n
      /\ \A r \in Round : r < n => roundRow[r] # 0
      BY <1>1, FedFacts DEF DriverAt
<1>3. /\ roundRow' \in [Round -> 0..k]
      /\ \A r \in Round : roundRow'[r] = IF r = n /\ roundRow[n] = 0 THEN k ELSE roundRow[r]
      BY <1>1, <1>2, FedFacts
<1>4. /\ driver' \in Drivers /\ driver'.at = "credit" /\ driver'.next = n
      /\ driver'.base = driver.base
      BY <1>1, DriverGoes DEF DriverPlaces
<1>5. RecordedJobs \subseteq RecordedJobs'
      BY <1>3 DEF RecordedJobs
<1>6. FedTypes'
      BY <1>1, <1>3, <1>4, <1>5, FedFacts DEF FedTypes
<1>7. RowsInOrder'
  <2>1. \A r, s \in Round : s < r /\ roundRow'[r] # 0 => roundRow'[s] # 0
    <3> TAKE r, s \in Round
    <3>1. CASE r = n
          BY <3>1, <1>2, <1>3
    <3>2. CASE r # n
          BY <3>2, <1>2, <1>3, FedFacts DEF RowsInOrder
    <3> QED BY <3>1, <3>2
  <2> QED BY <2>1, <1>1, <1>2, <1>3, FedFacts DEF RowsInOrder
<1>8. DriverAt(driver)'
      BY <1>1, <1>2, <1>3, <1>4 DEF DriverAt
<1>9. ASSUME ~purged PROVE (RowsAreAChain /\ DriverExtends(driver))'
  <2>1. RowsAreAChain /\ DriverExtends(driver)
        BY <1>9 DEF FedInv
  <2>2. /\ \A r \in Round : n <= r => roundRow[r] = 0
        /\ driver.base = IF n = 0 THEN 0 ELSE roundRow[n - 1]
        /\ roundJob[k].base = driver.base /\ roundJob[k].weights
        BY <2>1, <1>1 DEF DriverExtends
  <2>3. n \in Int /\ \A r \in Round : r \in Int /\ 0 <= r /\ (r # 0 => r - 1 \in Round)
        BY <1>2, FedFacts DEF Round
  <2>4. roundRow[n] = 0 /\ roundRow'[n] = k
        BY <1>2, <1>3, <2>2, <2>3
  <2>5. ASSUME NEW r \in Round, roundRow'[r] # 0
        PROVE  /\ roundJob[roundRow'[r]].weights
               /\ roundJob[roundRow'[r]].base = IF r = 0 THEN 0 ELSE roundRow'[r - 1]
    <3>1. CASE r = n
          BY <3>1, <2>2, <2>3, <2>4, <1>2, <1>3
    <3>2. CASE r # n
      <4>0. roundRow'[r] = roundRow[r] /\ ~(n <= r)
            BY <3>2, <2>2, <2>5, <1>3
      <4>1. roundRow[r] # 0 /\ roundRow'[r] = roundRow[r] /\ r < n
            BY <4>0, <2>3, <2>5
      <4>2. r # 0 => roundRow'[r - 1] = roundRow[r - 1]
            BY <4>1, <2>3, <1>3
      <4> QED BY <4>1, <4>2, <2>1 DEF RowsAreAChain
    <3> QED BY <3>1, <3>2
  <2>6. RowsAreAChain'
        BY <2>1, <2>5, <1>1, <1>5 DEF RowsAreAChain
  <2>7. \A r \in Round : n < r => roundRow'[r] = 0
    <3> SUFFICES ASSUME NEW r \in Round, n < r PROVE roundRow'[r] = 0
        OBVIOUS
    <3>1. r # n /\ n <= r
          BY <2>3
    <3> QED BY <3>1, <2>2, <1>3
  <2>8. DriverExtends(driver)'
        BY <2>4, <2>7, <1>1, <1>4 DEF DriverExtends
  <2> QED BY <2>6, <2>8
<1> QED BY <1>1, <1>6, <1>7, <1>8, <1>9 DEF FedInv

\* A deletion begins, is recorded, fails.
LEMMA EraserInv ==
  ASSUME FedInv, AskDeleteRun \/ RecordErased \/ EraserFails
  PROVE  FedInv'
<1>1. UNCHANGED <<roundRow, roundJob, purged, credited, runStatus, driver>>
      BY DEF AskDeleteRun, RecordErased, EraserFails
<1>2. eraser'.targets \subseteq RecordedJobs
      BY DEF AskDeleteRun, RecordErased, EraserFails, NoEraser
<1>3. /\ driver \in Drivers /\ DriverAt(driver)
      /\ ~purged => DriverExtends(driver)
      /\ runStatus \in {"none", "PENDING", "RUNNING"} \cup Finished
      BY FedFacts DEF FedInv, RowsAreAChain
<1> QED BY <1>1, <1>2, <1>3, DriverMoves

\* A deletion takes away the files of a job on record: from then on the run is
\* purged.
LEMMA EraseInv ==
  ASSUME FedInv, NEW j \in DOMAIN roundJob, EraseRound(j)
  PROVE  FedInv'
<1>1. /\ roundJob' = [roundJob EXCEPT ![j].weights = FALSE] /\ purged' = TRUE
      /\ eraser' = [eraser EXCEPT !.targets = @ \ {j}]
      /\ UNCHANGED <<runStatus, roundRow, credited, driver>>
      BY DEF EraseRound
<1>2. /\ roundJob' \in Seq(RoundJobs) /\ Len(roundJob') = Len(roundJob)
      /\ \A i \in 1..Len(roundJob) : roundJob'[i].round = roundJob[i].round
      BY <1>1, FedFacts, JobWeights
<1>3. eraser'.targets \subseteq RecordedJobs
      BY <1>1, FedFacts
<1>4. FedTypes'
  <2>1. UNCHANGED RecordedJobs
        BY <1>1 DEF RecordedJobs
  <2> QED BY <2>1, <1>1, <1>2, <1>3, FedFacts DEF FedTypes
<1>5. \A r \in Round : roundRow[r] # 0 => roundRow[r] \in 1..Len(roundJob)
      BY FedFacts
<1>6. RowsInOrder'
      BY <1>1, <1>2, <1>5, FedFacts DEF RowsInOrder
<1>7. DriverAt(driver)'
  <2>1. roundJob # <<>> => roundJob' # <<>> /\ Len(roundJob) \in 1..Len(roundJob)
        BY <1>2, FedFacts
  <2> QED BY <2>1, <1>1, <1>2, FedFacts DEF DriverAt
<1> QED BY <1>1, <1>4, <1>6, <1>7 DEF FedInv

\* Every step keeps the invariant.
LEMMA FedStepInv == FedInv /\ [FedNext]_fedVars => FedInv'
<1> SUFFICES ASSUME FedInv, [FedNext]_fedVars PROVE FedInv'
    OBVIOUS
<1>1. CASE UNCHANGED fedVars
      BY <1>1 DEF fedVars, FedInv, FedTypes, RowsInOrder, RowsAreAChain, RecordedJobs, DriverAt,
                  DriverExtends
<1>2. CASE FedNext
      BY <1>2, StatusStep, ResumeInv, CreditInv, MeasureInv, SubmitInv, CommitInv, RowInv,
         EraserInv, EraseInv, AcceptInv
      DEF FedNext
<1> QED BY <1>1, <1>2

-----------------------------------------------------------------------------
\* What the driver has and has counted, the credits and the restarts are within the jobs
\* there are and the bounds.
FedFits ==
  /\ credited \subseteq 1..Len(roundJob)
  /\ driver.base \in 0..Len(roundJob) /\ driver.bytes \in 0..Rounds
  /\ runUsage \in 0..Rounds /\ resumes \in 0..Resumes

\* A run has no more jobs on record than rounds.
LEMMA RecordedAreFew ==
  ASSUME FedInv
  PROVE  Cardinality({j \in RecordedJobs : roundJob[j].weights}) \in 0..Rounds
<1> DEFINE T == {j \in RecordedJobs : roundJob[j].weights}
           all == {roundRow[r] : r \in Round}
<1>1. Rounds - 1 \in Int /\ 0 \in Int /\ Rounds \in Nat
      BY FedFacts
<1>2. IsFiniteSet(Round) /\ Cardinality(Round) = Rounds
      BY <1>1, FS_Interval DEF Round
<1>3. IsFiniteSet(all) /\ Cardinality(all) <= Rounds
  <2>1. roundRow \in Surjection(Round, all)
        BY FedFacts DEF Surjection
  <2> QED BY <1>2, <2>1, FS_Surjection
<1>4. T \subseteq all
      BY DEF RecordedJobs
<1>5. IsFiniteSet(T) /\ Cardinality(T) <= Cardinality(all)
      BY <1>3, <1>4, FS_Subset, Zenon
<1>6. Cardinality(T) \in Nat /\ Cardinality(all) \in Nat
      BY <1>3, <1>5, FS_CardinalityType
<1> QED BY <1>1, <1>3, <1>5, <1>6

\* The jobs only grow in number.
LEMMA JobsGrow ==
  ASSUME FedInv, FedInv', FedNext
  PROVE  Len(roundJob) \in Nat /\ Len(roundJob') \in Nat /\ Len(roundJob) <= Len(roundJob')
<1>1. Len(roundJob) \in Nat /\ roundJob \in Seq(RoundJobs)
      BY FedFacts
<1>2. \/ UNCHANGED roundJob
      \/ \E new : roundJob' = Append(roundJob, new)
      \/ \E f : roundJob' = [roundJob EXCEPT ![Len(roundJob)] = f]
      \/ \E j \in DOMAIN roundJob : \E f : roundJob' = [roundJob EXCEPT ![j] = f]
      BY DEF FedNext, SubmitFederated, OperatorResumes, DriverBegins, ResumeState, SubmitRound,
         CommitWeights, InsertJobRound, RecordContributions, DriverRaises, FinishRun, MeasureRun,
         RecordRunFootprint, DriverDies, AskDeleteRun, RecordErased, EraserFails, EraseRound,
         CreditAccepted
<1> QED BY <1>1, <1>2

\* Every step of a run keeps within them.
LEMMA FedFitsStep == FedInv /\ FedInv' /\ FedFits /\ [FedNext]_fedVars => FedFits'
<1> SUFFICES ASSUME FedInv, FedInv', FedFits, [FedNext]_fedVars PROVE FedFits'
    OBVIOUS
<1>1. CASE UNCHANGED fedVars
      BY <1>1 DEF fedVars, FedFits
<1>2. CASE FedNext
  <2> DEFINE k == Len(roundJob)
  <2>1. k \in Nat /\ Len(roundJob') \in Nat /\ k <= Len(roundJob')
        BY <1>2, JobsGrow
  <2>2. driver \in Drivers /\ Rounds \in Nat /\ Resumes \in Nat
        BY FedFacts, FederatedAssumption DEF FederatedAssumption
  <2>3. credited' \subseteq 1..k
    <3>1. CASE RecordContributions
      <4>1. k \in 1..k
            BY <3>1, <2>1, FedFacts DEF RecordContributions, DriverAt
      <4> QED BY <3>1, <4>1 DEF RecordContributions, FedFits
    <3>2. CASE UNCHANGED credited
          BY <3>2 DEF FedFits
    <3>3. CASE \E j \in DOMAIN roundJob : CreditAccepted(j)
          BY <3>3, FedFacts DEF CreditAccepted, FedFits
    <3> QED BY <1>2, <3>1, <3>2, <3>3
        DEF FedNext, SubmitFederated, OperatorResumes, DriverBegins, ResumeState, SubmitRound,
            CommitWeights, InsertJobRound, DriverRaises, FinishRun, MeasureRun,
            RecordRunFootprint, DriverDies, AskDeleteRun, RecordErased, EraserFails, EraseRound
  <2>4. driver'.base \in 0..k /\ driver'.bytes \in 0..Rounds
    <3>1. CASE ResumeState
      <4>1. CASE Committed = {}
        <5>1. driver' = [at |-> "round", next |-> 0, base |-> 0, bytes |-> 0]
              BY <3>1, <4>1 DEF ResumeState, NoDriver
        <5> QED BY <5>1, <2>1, <2>2
      <4>2. CASE Committed # {}
        <5> DEFINE r == Max(Committed)
        <5>1. Committed \subseteq Round
              BY DEF Committed
        <5>2. r \in Committed
              BY <4>2, <5>1, LatestOfSome
        <5>3. driver' = [at |-> AfterRound(r), next |-> r + 1, base |-> roundRow[r], bytes |-> 0]
              BY <3>1, <4>2 DEF ResumeState, NoDriver
        <5> HIDE DEF r
        <5> QED BY <5>1, <5>2, <5>3, <2>2, FedFacts
      <4> QED BY <4>1, <4>2
    <3>2. CASE RecordContributions
      <4>1. driver' = [driver EXCEPT !.at = AfterRound(driver.next), !.next = driver.next + 1,
                                     !.base = k]
            BY <3>2 DEF RecordContributions
      <4>2. driver'.base = k /\ driver'.bytes = driver.bytes
            BY <4>1, <2>2 DEF Drivers
      <4> QED BY <4>2, <2>1 DEF FedFits
    <3>3. CASE MeasureRun /\ driver' # NoDriver
      <4> DEFINE b == Cardinality({j \in RecordedJobs : roundJob[j].weights})
      <4>1. b \in 0..Rounds
            BY RecordedAreFew
      <4>2. driver' = [driver EXCEPT !.at = "measured", !.bytes = b]
            BY <3>3 DEF MeasureRun
      <4> HIDE DEF b
      <4>3. driver'.base = driver.base /\ driver'.bytes = b
            BY <4>2, <2>2 DEF Drivers
      <4> QED BY <4>1, <4>3 DEF FedFits
    <3>4. CASE driver' = NoDriver
          BY <3>4, <2>1, <2>2 DEF NoDriver
    <3>5. CASE UNCHANGED driver
          BY <3>5 DEF FedFits
    <3>6. CASE \E at : driver' = [driver EXCEPT !.at = at]
      <4>1. driver'.base = driver.base /\ driver'.bytes = driver.bytes
            BY <3>6, <2>2 DEF Drivers
      <4> QED BY <4>1 DEF FedFits
    <3> QED BY <1>2, <3>1, <3>2, <3>3, <3>4, <3>5, <3>6
        DEF FedNext, SubmitFederated, OperatorResumes, DriverBegins, SubmitRound, CommitWeights,
            InsertJobRound, DriverRaises, FinishRun, MeasureRun, RecordRunFootprint, DriverDies,
            AskDeleteRun, RecordErased, EraserFails, EraseRound, CreditAccepted, DriverGoto
  <2>5. runUsage' \in 0..Rounds
    <3>1. runUsage' \in {runUsage, driver.bytes, 0}
          BY <1>2
          DEF FedNext, SubmitFederated, OperatorResumes, DriverBegins, ResumeState, SubmitRound,
              CommitWeights, InsertJobRound, RecordContributions, DriverRaises, FinishRun,
              MeasureRun, RecordRunFootprint, DriverDies, AskDeleteRun, RecordErased, EraserFails,
              EraseRound, CreditAccepted
    <3> QED BY <3>1, <2>2 DEF FedFits
  <2>6. resumes' \in 0..Resumes
    <3>1. resumes' = resumes \/ (resumes < Resumes /\ resumes' = resumes + 1)
          BY <1>2
          DEF FedNext, SubmitFederated, OperatorResumes, DriverBegins, ResumeState, SubmitRound,
              CommitWeights, InsertJobRound, RecordContributions, DriverRaises, FinishRun,
              MeasureRun, RecordRunFootprint, DriverDies, AskDeleteRun, RecordErased, EraserFails,
              EraseRound, CreditAccepted
    <3> QED BY <3>1, <2>2 DEF FedFits
  <2> QED BY <2>1, <2>3, <2>4, <2>5, <2>6 DEF FedFits
<1> QED BY <1>1, <1>2

\* The rows of a run are one history (RowsAreOneHistory), each round trained from
\* the weights of the one before and no work credited on top of others, for any
\* number of rounds, drivers and failures.
THEOREM TrainingIsOneHistory == FedSpec => []RowsAreOneHistory
<1>1. FedInit => FedFits
      BY FederatedAssumption DEF FederatedAssumption, FedInit, FedFits, NoDriver
<1>2. FedInv /\ FedFits => RowsAreOneHistory
      BY DEF FedInv, FedFits, RowsInOrder, RowsAreAChain, RowsAreOneHistory
<1> QED BY <1>1, <1>2, FedFitsStep, FedInitInv, FedStepInv, PTL DEF FedSpec

\* The types of a federated run.
THEOREM FedTyped == FedSpec => []FedTypeOK
<1>1. FedInit => FedFits
      BY FederatedAssumption DEF FederatedAssumption, FedInit, FedFits, NoDriver
<1>2. FedInv /\ FedFits => FedTypeOK
  <2> SUFFICES ASSUME FedInv, FedFits PROVE FedTypeOK
      OBVIOUS
  <2>1. RecordedJobs \subseteq 1..Len(roundJob)
        BY FedFacts DEF RecordedJobs
  <2> QED BY <2>1, FedFacts DEF FedFits, FedTypeOK, Drivers
<1> QED BY <1>1, <1>2, FedFitsStep, FedInitInv, FedStepInv, PTL DEF FedSpec

-----------------------------------------------------------------------------
(***************************************************************************)
(* JobArtifacts for any number of files and processes: a manifest          *)
(* certifies a whole mirror, and deletions are honest.                     *)
(***************************************************************************)

\* The places of a handler, and what it holds.
ClerkPlaces == {"idle", "opened", "list", "measured", "mirror", "compare", "copy",
                "put", "mark", "free", "unmirror", "purge"}
Deleting == {"unmirror", "purge"}
Clerks == [at : ClerkPlaces, recorded : BOOLEAN, mirrored : BOOLEAN,
           keys : SUBSET (1..Files), rest : SUBSET Nat]
Usages == [bytes : Nat, recorded : BOOLEAN, mirrored : BOOLEAN]

\* A manifest that names no file, or none at all.
NamesNothing == manifest \in {NoManifest, {}}

\* The types of the three places the files are in, and of the handlers.
ArtTypes ==
  /\ disk \subseteq 1..Files /\ bucket \subseteq Accepted
  /\ usage \in Usages /\ clerk \in [Process -> Clerks]

\* A handler works on an ended job, and with what it has read: what it measures
\* is on the disk still or gone, what it copies is accepted, and when it empties
\* the bucket the disk is empty.
Fit(c) ==
  /\ c.at \notin {"idle", "opened"} => ended
  /\ c.at = "measured" => disk \subseteq c.keys
  /\ c.at \in {"compare", "copy", "put"} => c.keys \subseteq Accepted
  /\ c.at \in {"copy", "put"} => c.rest \subseteq c.keys
  /\ c.at = "put" => c.rest # {}
  /\ c.at \in Deleting => disk = {}

\* While the bucket is emptied, and after, nobody holds a file.
Emptied == freed \/ \E p \in Process : clerk[p].at \in Deleting
NobodyHolds(c) == ~overtaken /\ Emptied => c.keys = {}

\* What was to be copied and is not left to be copied is in the bucket, and what
\* a listing of the bucket leaves out is not in it or beyond the first page.
Kept(c) ==
  ~overtaken =>
    /\ c.at \in {"copy", "put"} => c.keys \ c.rest \subseteq bucket
    /\ c.at = "purge" =>
         /\ 0 \notin c.rest => NamesNothing
         /\ \A o \in bucket \ c.rest : BeyondThePage(o)

ClerksFit == \A p \in Process : Fit(clerk[p])
ClerksHold == \A p \in Process : NobodyHolds(clerk[p])
ClerksKeep == \A p \in Process : Kept(clerk[p])

\* What a recorded usage or a deletion that succeeded says.
Outcome ==
  /\ usage.recorded => ended
  /\ freed => ended /\ disk = {}
  /\ freed /\ ~overtaken => NamesNothing /\ \A o \in bucket : BeyondThePage(o)
  /\ freed /\ ~overtaken => usage.bytes = 0

\* The inductive invariant.
ArtInv ==
  /\ ArtTypes /\ ClerksFit /\ ClerksHold /\ ClerksKeep
  /\ Outcome /\ UsageNeverUnderstated /\ ManifestIsWhole

-----------------------------------------------------------------------------
\* Some objects have a first.
LEMMA MinIsFirst ==
  ASSUME NEW T, T \subseteq Nat, T # {}
  PROVE  Min(T) \in T /\ (0 \in T => Min(T) = 0)
<1>1. PICK v \in T : \A w \in T : <<w, v>> \notin OpToRel(<, Nat)
  BY NatLessThanWellFounded, WFMin, Zenon
<1>2. \A w \in T : ~(w < v)
  BY <1>1, Zenon DEF OpToRel
<1>3. \A w \in T : v =< w
  BY <1>2
<1> DEFINE m == Min(T)
<1>4. m \in T /\ \A w \in T : m =< w
  BY <1>3, Zenon DEF Min
<1> HIDE DEF m
<1>5. 0 \in T => m = 0
  BY <1>4
<1>6. m \in T
  BY <1>4
<1> QED
  BY <1>5, <1>6 DEF m

\* A set of the job's files is finite and counted.
LEMMA FilesAreFinite ==
  ASSUME NEW S, S \subseteq 1..Files
  PROVE  /\ IsFiniteSet(S) /\ Cardinality(S) \in Nat
         /\ \A T \in SUBSET S : Cardinality(T) <= Cardinality(S)
<1>1. Files \in Nat
  BY ArtifactAssumption
<1>2. IsFiniteSet(1..Files)
  BY <1>1, FS_Interval
<1>3. IsFiniteSet(S)
  BY <1>2, FS_Subset
<1> QED
  BY <1>3, FS_Subset, FS_CardinalityType

\* What one call leaves of its handler.
LEMMA ClerkFacts ==
  ASSUME ArtTypes, NEW p \in Process
  PROVE  /\ clerk[p] \in Clerks
         /\ clerk[p].keys \in SUBSET (1..Files) /\ clerk[p].rest \in SUBSET Nat
         /\ clerk[p].at \in ClerkPlaces
BY DEF ArtTypes, Clerks

\* An idle handler has nothing.
LEMMA IdleClerkIsFit ==
  IdleClerk \in Clerks /\ IdleClerk.at = "idle" /\ IdleClerk.keys = {}
BY DEF IdleClerk, Clerks, ClerkPlaces

\* The handler that steps is the only one that changes.
LEMMA ClerkStep ==
  ASSUME ArtTypes, NEW p \in Process, NEW c \in Clerks,
         clerk' = [clerk EXCEPT ![p] = c]
  PROVE  /\ clerk' \in [Process -> Clerks]
         /\ \A q \in Process : clerk'[q] = IF q = p THEN c ELSE clerk[q]
BY DEF ArtTypes

\* A handler that only moves, or has the usage recorded.
LEMMA QuietStep ==
  ASSUME ArtInv, NEW p \in Process, NEW c \in Clerks,
         clerk' = [clerk EXCEPT ![p] = c],
         UNCHANGED <<ended, disk, bucket, manifest, freed, overtaken>>,
         Fit(c), NobodyHolds(c), Kept(c),
         c.at \in Deleting => clerk[p].at \in Deleting,
         usage' \in Usages, usage'.recorded => ended,
         usage'.recorded => usage'.bytes >= Cardinality(disk),
         freed /\ ~overtaken => usage'.bytes = 0
  PROVE  ArtInv'
<1>1. /\ clerk' \in [Process -> Clerks]
      /\ \A q \in Process : clerk'[q] = IF q = p THEN c ELSE clerk[q]
  BY ClerkStep DEF ArtInv
<1>2. ArtTypes'
  BY <1>1 DEF ArtInv, ArtTypes
<1>3. ClerksFit'
  BY <1>1 DEF ArtInv, ClerksFit, Fit
<1>4. Emptied' => Emptied
  BY <1>1 DEF Emptied
<1>5. ClerksHold'
  BY <1>1, <1>4 DEF ArtInv, ClerksHold, NobodyHolds
<1>6. ClerksKeep'
  BY <1>1 DEF ArtInv, ClerksKeep, Kept, NamesNothing
<1>7. Outcome'
  BY DEF ArtInv, Outcome, NamesNothing
<1>8. UsageNeverUnderstated' /\ ManifestIsWhole'
  BY DEF ArtInv, UsageNeverUnderstated, ManifestIsWhole
<1> QED
  BY <1>2, <1>3, <1>5, <1>6, <1>7, <1>8 DEF ArtInv

\* The same, where the usage is as it was.
LEMMA MoveStep ==
  ASSUME ArtInv, NEW p \in Process, NEW c \in Clerks,
         clerk' = [clerk EXCEPT ![p] = c],
         UNCHANGED <<ended, disk, bucket, manifest, usage, freed, overtaken>>,
         Fit(c), NobodyHolds(c), Kept(c),
         c.at \in Deleting => clerk[p].at \in Deleting
  PROVE  ArtInv'
<1>1. /\ usage' \in Usages
      /\ usage'.recorded => ended
      /\ usage'.recorded => usage'.bytes >= Cardinality(disk)
      /\ freed /\ ~overtaken => usage'.bytes = 0
  BY DEF ArtInv, ArtTypes, Outcome, UsageNeverUnderstated
<1> QED
  BY <1>1, QuietStep

\* A handler that ends.
LEMMA EndsQuietly ==
  ASSUME ArtInv, NEW p \in Process
  PROVE  /\ IdleClerk \in Clerks /\ Fit(IdleClerk) /\ NobodyHolds(IdleClerk)
         /\ Kept(IdleClerk) /\ IdleClerk.at \notin Deleting
         /\ ClerkDone(p) => clerk' = [clerk EXCEPT ![p] = IdleClerk]
BY IdleClerkIsFit DEF Fit, NobodyHolds, Kept, Deleting, ClerkDone

\* A handler that ends, with nothing done.
LEMMA ClerkDoneStep ==
  ASSUME ArtInv, NEW p \in Process, ClerkDone(p),
         UNCHANGED <<ended, disk, bucket, manifest, usage, freed, overtaken>>
  PROVE  ArtInv'
BY EndsQuietly, MoveStep

\* From the measurement to the mirror, or to the end.
LEMMA GotoMirrorMoves ==
  ASSUME ArtInv, NEW p \in Process, GotoMirror(p), clerk[p].at \in ClerkPlaces, ended
  PROVE  \E c \in Clerks : /\ clerk' = [clerk EXCEPT ![p] = c]
                           /\ Fit(c) /\ NobodyHolds(c) /\ Kept(c)
                           /\ c.at \notin Deleting
<1>1. CASE ClerkDone(p)
  BY <1>1, EndsQuietly
<1>2. CASE ClerkGoto(p, "mirror")
  <2> DEFINE c == [clerk[p] EXCEPT !.at = "mirror"]
  <2>1. clerk[p] \in Clerks
    BY ClerkFacts DEF ArtInv
  <2>2. c \in Clerks /\ c.at = "mirror" /\ c.keys = clerk[p].keys
    BY <2>1 DEF Clerks, ClerkPlaces
  <2>3. clerk' = [clerk EXCEPT ![p] = c]
    BY <1>2 DEF ClerkGoto
  <2>4. NobodyHolds(c)
    BY <2>2 DEF ArtInv, ClerksHold, NobodyHolds
  <2> HIDE DEF c
  <2>5. Fit(c) /\ Kept(c) /\ c.at \notin Deleting
    BY <2>2 DEF Fit, Kept, Deleting
  <2> QED
    BY <2>2, <2>3, <2>4, <2>5
<1> QED
  BY <1>1, <1>2 DEF GotoMirror

-----------------------------------------------------------------------------
\* A job's page is opened and its end seen.
LEMMA OpenStep ==
  ASSUME ArtInv, NEW p \in Process, OpenJob(p) \/ ObserveEnd(p)
  PROVE  ArtInv'
<1>0. clerk[p] \in Clerks /\ ArtTypes
  BY ClerkFacts DEF ArtInv
<1>1. CASE OpenJob(p)
  <2> DEFINE c == [IdleClerk EXCEPT !.at = "opened",
                 !.recorded = usage.recorded, !.mirrored = usage.mirrored]
  <2>1. c \in Clerks /\ c.at = "opened" /\ c.keys = {}
    BY <1>0 DEF ArtTypes, Usages, Clerks, ClerkPlaces, IdleClerk
  <2>2. clerk' = [clerk EXCEPT ![p] = c]
    BY <1>1 DEF OpenJob
  <2> HIDE DEF c
  <2>3. Fit(c) /\ NobodyHolds(c) /\ Kept(c) /\ c.at \notin Deleting
    BY <2>1 DEF Fit, NobodyHolds, Kept, Deleting
  <2> QED
    BY <1>1, <2>1, <2>2, <2>3, MoveStep DEF OpenJob
<1>2. CASE ObserveEnd(p) /\ GotoMirror(p)
  BY <1>0, <1>2, GotoMirrorMoves, MoveStep DEF ObserveEnd, Clerks
<1>3. CASE ObserveEnd(p) /\ ClerkGoto(p, "list")
  <2> DEFINE c == [clerk[p] EXCEPT !.at = "list"]
  <2>1. c \in Clerks /\ c.at = "list" /\ c.keys = clerk[p].keys
    BY <1>0 DEF Clerks, ClerkPlaces
  <2>2. clerk' = [clerk EXCEPT ![p] = c]
    BY <1>3 DEF ClerkGoto
  <2>3. NobodyHolds(c)
    BY <2>1 DEF ArtInv, ClerksHold, NobodyHolds
  <2> HIDE DEF c
  <2>4. Fit(c) /\ Kept(c) /\ c.at \notin Deleting
    BY <1>3, <2>1 DEF Fit, Kept, Deleting, ObserveEnd
  <2> QED
    BY <1>3, <2>1, <2>2, <2>3, <2>4, MoveStep DEF ObserveEnd
<1> QED
  BY <1>1, <1>2, <1>3 DEF ObserveEnd

\* The disk is listed, and what was listed recorded.
LEMMA MeasureStep ==
  ASSUME ArtInv, NEW p \in Process, ListArtifacts(p) \/ RecordFootprint(p)
  PROVE  ArtInv'
<1>0. /\ clerk[p] \in Clerks /\ clerk[p].at \in ClerkPlaces /\ ArtTypes /\ ended
      /\ Fit(clerk[p]) /\ NobodyHolds(clerk[p])
  BY ClerkFacts DEF ArtInv, ListArtifacts, RecordFootprint, ClerksFit, Fit, ClerksHold
<1>1. CASE /\ ListArtifacts(p)
           /\ clerk' = [clerk EXCEPT ![p].at = "measured", ![p].keys = disk]
  <2> DEFINE c == [clerk[p] EXCEPT !.at = "measured", !.keys = disk]
  <2>1. c \in Clerks /\ c.at = "measured" /\ c.keys = disk
    BY <1>0 DEF ArtTypes, Clerks, ClerkPlaces
  <2>2. clerk' = [clerk EXCEPT ![p] = c]
    BY <1>1
  <2>3. Emptied => disk = {}
    BY DEF ArtInv, Emptied, ClerksFit, Fit, Outcome
  <2> HIDE DEF c
  <2>4. Fit(c) /\ NobodyHolds(c) /\ Kept(c) /\ c.at \notin Deleting
    BY <1>0, <2>1, <2>3 DEF Fit, NobodyHolds, Kept, Deleting
  <2> QED
    BY <1>1, <2>1, <2>2, <2>4, MoveStep DEF ListArtifacts
<1>2. CASE ListArtifacts(p) /\ GotoMirror(p)
  BY <1>0, <1>2, GotoMirrorMoves, MoveStep DEF ListArtifacts
<1>3. CASE RecordFootprint(p)
  <2>1. PICK c \in Clerks : /\ clerk' = [clerk EXCEPT ![p] = c]
                            /\ Fit(c) /\ NobodyHolds(c) /\ Kept(c)
                            /\ c.at \notin Deleting
    BY <1>0, <1>3, GotoMirrorMoves DEF RecordFootprint
  <2> DEFINE n == Cardinality(clerk[p].keys)
  <2>2. clerk[p].keys \subseteq 1..Files /\ disk \subseteq clerk[p].keys
    BY <1>0, <1>3 DEF RecordFootprint, Fit, Clerks
  <2>3. n \in Nat /\ Cardinality(disk) <= n /\ Cardinality(disk) \in Nat
    BY <2>2, FilesAreFinite
  <2>4. freed /\ ~overtaken => n = 0
    BY <1>0, FS_EmptySet DEF NobodyHolds, Emptied
  <2> HIDE DEF n
  <2>5. usage' \in Usages /\ usage'.recorded /\ usage'.bytes = n
    <3>1. usage' = [usage EXCEPT !.bytes = n, !.recorded = TRUE]
      BY <1>3 DEF RecordFootprint, n
    <3> QED
      BY <1>0, <2>3, <3>1 DEF ArtTypes, Usages
  <2>6. usage'.recorded => usage'.bytes >= Cardinality(disk)
    BY <2>3, <2>5
  <2> QED
    BY <1>0, <1>3, <2>1, <2>4, <2>5, <2>6, QuietStep DEF RecordFootprint
<1> QED
  BY <1>1, <1>2, <1>3 DEF ListArtifacts

\* What is to be mirrored is chosen and compared with the manifest.
LEMMA CompareStep ==
  ASSUME ArtInv, NEW p \in Process, SelectAccepted(p) \/ ReadManifest(p)
  PROVE  ArtInv'
<1>0. /\ clerk[p] \in Clerks /\ ArtTypes /\ ended
      /\ Fit(clerk[p]) /\ NobodyHolds(clerk[p])
  BY ClerkFacts DEF ArtInv, SelectAccepted, ReadManifest, ClerksFit, Fit, ClerksHold
<1>1. CASE SelectAccepted(p)
  <2> DEFINE c == [clerk[p] EXCEPT !.at = "compare", !.keys = disk \cap Accepted]
  <2>1. c \in Clerks /\ c.at = "compare" /\ c.keys = disk \cap Accepted
    BY <1>0 DEF ArtTypes, Clerks, ClerkPlaces
  <2>2. clerk' = [clerk EXCEPT ![p] = c]
    BY <1>1 DEF SelectAccepted
  <2>3. Emptied => disk = {}
    BY DEF ArtInv, Emptied, ClerksFit, Fit, Outcome
  <2> HIDE DEF c
  <2>4. Fit(c) /\ NobodyHolds(c) /\ Kept(c) /\ c.at \notin Deleting
    BY <1>0, <2>1, <2>3 DEF Fit, NobodyHolds, Kept, Deleting
  <2> QED
    BY <1>1, <2>1, <2>2, <2>4, MoveStep DEF SelectAccepted
<1>2. CASE ReadManifest(p) /\ clerk' = [clerk EXCEPT ![p].at = "mark"]
  <2> DEFINE c == [clerk[p] EXCEPT !.at = "mark"]
  <2>1. c \in Clerks /\ c.at = "mark" /\ c.keys = clerk[p].keys
    BY <1>0 DEF Clerks, ClerkPlaces
  <2>2. clerk' = [clerk EXCEPT ![p] = c]
    BY <1>2
  <2> HIDE DEF c
  <2>3. Fit(c) /\ NobodyHolds(c) /\ Kept(c) /\ c.at \notin Deleting
    BY <1>0, <2>1 DEF Fit, NobodyHolds, Kept, Deleting
  <2> QED
    BY <1>2, <2>1, <2>2, <2>3, MoveStep DEF ReadManifest
<1>3. CASE /\ ReadManifest(p)
           /\ clerk' = [clerk EXCEPT ![p].at = "copy", ![p].rest = clerk[p].keys]
  <2> DEFINE c == [clerk[p] EXCEPT !.at = "copy", !.rest = clerk[p].keys]
  <2>1. clerk[p].keys \subseteq Nat /\ clerk[p].keys \subseteq Accepted
    BY <1>0, <1>3 DEF Clerks, ReadManifest, Fit
  <2>2. /\ c \in Clerks /\ c.at = "copy" /\ c.keys = clerk[p].keys
        /\ c.rest = clerk[p].keys
    BY <1>0, <2>1 DEF Clerks, ClerkPlaces
  <2>3. clerk' = [clerk EXCEPT ![p] = c]
    BY <1>3
  <2> HIDE DEF c
  <2>4. Fit(c) /\ NobodyHolds(c) /\ Kept(c) /\ c.at \notin Deleting
    BY <1>0, <2>1, <2>2 DEF Fit, NobodyHolds, Kept, Deleting
  <2> QED
    BY <1>3, <2>2, <2>3, <2>4, MoveStep DEF ReadManifest
<1> QED
  BY <1>1, <1>2, <1>3 DEF ReadManifest

\* A file is read, or is gone; the mirror is marked complete.
LEMMA ReadStep ==
  ASSUME ArtInv, NEW p \in Process, ReadFile(p) \/ MarkMirrored(p)
  PROVE  ArtInv'
<1>0. /\ clerk[p] \in Clerks /\ ArtTypes /\ ended
      /\ Fit(clerk[p]) /\ NobodyHolds(clerk[p]) /\ Kept(clerk[p])
  BY ClerkFacts DEF ArtInv, ReadFile, MarkMirrored, ClerksFit, Fit, ClerksHold,
     ClerksKeep
<1>1. CASE ReadFile(p) /\ ClerkDone(p)
  BY <1>1, ClerkDoneStep DEF ReadFile
<1>2. CASE ReadFile(p) /\ ClerkGoto(p, "put")
  <2> DEFINE c == [clerk[p] EXCEPT !.at = "put"]
  <2>1. /\ c \in Clerks /\ c.at = "put" /\ c.keys = clerk[p].keys
        /\ c.rest = clerk[p].rest
    BY <1>0 DEF Clerks, ClerkPlaces
  <2>2. clerk' = [clerk EXCEPT ![p] = c]
    BY <1>2 DEF ClerkGoto
  <2>3. clerk[p].at = "copy" /\ clerk[p].rest # {}
    BY <1>2 DEF ReadFile
  <2> HIDE DEF c
  <2>4. Fit(c) /\ NobodyHolds(c) /\ Kept(c) /\ c.at \notin Deleting
    BY <1>0, <2>1, <2>3 DEF Fit, NobodyHolds, Kept, Deleting
  <2> QED
    BY <1>2, <2>1, <2>2, <2>4, MoveStep DEF ReadFile
<1>3. CASE MarkMirrored(p)
  <2>1. /\ usage' \in Usages /\ usage'.bytes = usage.bytes
        /\ usage'.recorded = usage.recorded
    BY <1>0, <1>3 DEF MarkMirrored, ArtTypes, Usages
  <2>2. /\ usage'.recorded => ended
        /\ usage'.recorded => usage'.bytes >= Cardinality(disk)
        /\ freed /\ ~overtaken => usage'.bytes = 0
    BY <2>1 DEF ArtInv, Outcome, UsageNeverUnderstated
  <2>3. /\ clerk' = [clerk EXCEPT ![p] = IdleClerk]
        /\ UNCHANGED <<ended, disk, bucket, manifest, freed, overtaken>>
    BY <1>3 DEF MarkMirrored, ClerkDone
  <2> QED
    BY <2>1, <2>2, <2>3, EndsQuietly, QuietStep
<1> QED
  BY <1>1, <1>2, <1>3 DEF ReadFile

\* A copy gets into the bucket: while it is emptied nobody has one to put there.
LEMMA PutStep ==
  ASSUME ArtInv, NEW p \in Process, PutFile(p)
  PROVE  ArtInv'
<1> DEFINE o == Min(clerk[p].rest)
           c == [clerk[p] EXCEPT !.at = "copy", !.rest = @ \ {o}]
<1>0. /\ clerk[p] \in Clerks /\ ArtTypes /\ ended /\ clerk[p].at = "put"
      /\ Fit(clerk[p]) /\ NobodyHolds(clerk[p]) /\ Kept(clerk[p])
  BY ClerkFacts DEF ArtInv, PutFile, ClerksFit, Fit, ClerksHold, ClerksKeep
<1>1. o \in clerk[p].rest /\ o \in clerk[p].keys /\ o \in Accepted
  <2>1. clerk[p].rest \subseteq Nat /\ clerk[p].rest # {}
    BY <1>0 DEF Clerks, Fit
  <2>2. o \in clerk[p].rest
    BY <2>1, MinIsFirst
  <2> QED
    BY <1>0, <2>2 DEF Fit
<1>2. ~overtaken => ~Emptied
  BY <1>0, <1>1 DEF NobodyHolds
<1>3. /\ c \in Clerks /\ c.at = "copy" /\ c.keys = clerk[p].keys
      /\ c.rest = clerk[p].rest \ {o}
  BY <1>0 DEF Clerks, ClerkPlaces
<1>4. /\ clerk' = [clerk EXCEPT ![p] = c] /\ bucket' = bucket \cup {o}
      /\ UNCHANGED <<ended, disk, manifest, usage, freed, overtaken>>
  BY DEF PutFile
<1> HIDE DEF c, o
<1>5. /\ clerk' \in [Process -> Clerks]
      /\ \A q \in Process : clerk'[q] = IF q = p THEN c ELSE clerk[q]
  BY <1>0, <1>3, <1>4, ClerkStep
<1>6. ArtTypes'
  BY <1>0, <1>1, <1>4, <1>5 DEF ArtTypes
<1>7. ClerksFit'
  BY <1>0, <1>3, <1>4, <1>5 DEF ArtInv, ClerksFit, Fit, Deleting
<1>8. Emptied' => Emptied
  BY <1>3, <1>4, <1>5 DEF Emptied, Deleting
<1>9. ClerksHold'
  BY <1>2, <1>4, <1>8 DEF ClerksHold, NobodyHolds
<1>10. ClerksKeep'
  <2>1. ASSUME NEW q \in Process, ~overtaken
        PROVE  /\ clerk'[q].at \in {"copy", "put"} =>
                    clerk'[q].keys \ clerk'[q].rest \subseteq bucket'
               /\ clerk'[q].at # "purge"
    BY <1>0, <1>2, <1>3, <1>4, <1>5, <2>1
       DEF ArtInv, ClerksKeep, Kept, Emptied, Deleting
  <2> QED
    BY <1>4, <2>1 DEF ClerksKeep, Kept
<1>11. Outcome' /\ UsageNeverUnderstated' /\ ManifestIsWhole'
  <2>1. ~overtaken => ~freed
    BY <1>2 DEF Emptied
  <2> QED
    BY <1>4, <2>1 DEF ArtInv, Outcome, UsageNeverUnderstated, ManifestIsWhole
<1> QED
  BY <1>6, <1>7, <1>9, <1>10, <1>11 DEF ArtInv

\* The manifest goes up last, when every copy it names is in the bucket.
LEMMA CertifyStep ==
  ASSUME ArtInv, NEW p \in Process, WriteManifest(p)
  PROVE  ArtInv'
<1> DEFINE c == [clerk[p] EXCEPT !.at = "mark"]
<1>0. /\ clerk[p] \in Clerks /\ ArtTypes /\ ended
      /\ clerk[p].at = "copy" /\ clerk[p].rest = {}
      /\ Fit(clerk[p]) /\ NobodyHolds(clerk[p]) /\ Kept(clerk[p])
  BY ClerkFacts DEF ArtInv, WriteManifest, ClerksFit, Fit, ClerksHold, ClerksKeep
<1>1. /\ c \in Clerks /\ c.at = "mark" /\ c.keys = clerk[p].keys
  BY <1>0 DEF Clerks, ClerkPlaces
<1>2. /\ clerk' = [clerk EXCEPT ![p] = c] /\ manifest' = clerk[p].keys
      /\ UNCHANGED <<ended, disk, bucket, usage, freed, overtaken>>
  BY DEF WriteManifest, ClerkGoto
<1> HIDE DEF c
<1>3. /\ clerk' \in [Process -> Clerks]
      /\ \A q \in Process : clerk'[q] = IF q = p THEN c ELSE clerk[q]
  BY <1>0, <1>1, <1>2, ClerkStep
<1>4. /\ ~overtaken => manifest' \subseteq bucket
      /\ ~overtaken /\ Emptied => NamesNothing'
  BY <1>0, <1>2 DEF Kept, NobodyHolds, NamesNothing
<1>5. Emptied' => Emptied
  BY <1>1, <1>2, <1>3 DEF Emptied, Deleting
<1>6. ArtTypes' /\ ClerksFit'
  BY <1>0, <1>1, <1>2, <1>3 DEF ArtInv, ArtTypes, ClerksFit, Fit, Deleting
<1>7. ClerksHold'
  BY <1>0, <1>1, <1>2, <1>3, <1>5 DEF ArtInv, ClerksHold, NobodyHolds
<1>8. ClerksKeep'
  <2>1. ASSUME NEW q \in Process, ~overtaken
        PROVE  /\ clerk'[q].at \in {"copy", "put"} =>
                    clerk'[q].keys \ clerk'[q].rest \subseteq bucket'
               /\ clerk'[q].at = "purge" =>
                    /\ NamesNothing'
                    /\ \A o \in bucket' \ clerk'[q].rest : BeyondThePage(o)
    <3>1. clerk'[q].at \in {"copy", "put", "purge"} => clerk'[q] = clerk[q]
      BY <1>1, <1>3
    <3>2. clerk[q].at = "purge" => NamesNothing'
      BY <1>4, <2>1 DEF Emptied, Deleting
    <3>3. Kept(clerk[q])
      BY DEF ArtInv, ClerksKeep
    <3> QED
      BY <1>2, <2>1, <3>1, <3>2, <3>3 DEF Kept
  <2> QED
    BY <1>2, <2>1 DEF ClerksKeep, Kept
<1>9. Outcome' /\ UsageNeverUnderstated' /\ ManifestIsWhole'
  <2>1. freed => Emptied
    BY DEF Emptied
  <2> QED
    BY <1>2, <1>4, <2>1 DEF ArtInv, Outcome, UsageNeverUnderstated, ManifestIsWhole
<1> QED
  BY <1>6, <1>7, <1>8, <1>9 DEF ArtInv

-----------------------------------------------------------------------------
\* A deletion begins, once the coordinator said that the job has ended.
LEMMA RequireStep ==
  ASSUME ArtInv, NEW p \in Process, RequireStopped(p)
  PROVE  ArtInv'
<1> DEFINE c == [clerk[p] EXCEPT !.at = "free"]
<1>0. /\ clerk[p] \in Clerks /\ ArtTypes /\ ended /\ NobodyHolds(clerk[p])
  BY ClerkFacts DEF ArtInv, RequireStopped, ClerksHold
<1>1. /\ c \in Clerks /\ c.at = "free" /\ c.keys = clerk[p].keys
  BY <1>0 DEF Clerks, ClerkPlaces
<1>2. /\ clerk' = [clerk EXCEPT ![p] = c] /\ ~freed'
      /\ UNCHANGED <<ended, disk, bucket, manifest, usage, overtaken>>
  BY DEF RequireStopped, ClerkGoto
<1> HIDE DEF c
<1>3. /\ clerk' \in [Process -> Clerks]
      /\ \A q \in Process : clerk'[q] = IF q = p THEN c ELSE clerk[q]
  BY <1>0, <1>1, <1>2, ClerkStep
<1>4. Emptied' => Emptied
  BY <1>1, <1>2, <1>3 DEF Emptied, Deleting
<1>5. ArtTypes' /\ ClerksFit'
  BY <1>0, <1>1, <1>2, <1>3 DEF ArtInv, ArtTypes, ClerksFit, Fit, Deleting
<1>6. ClerksHold'
  BY <1>0, <1>1, <1>2, <1>3, <1>4 DEF ArtInv, ClerksHold, NobodyHolds
<1>7. ClerksKeep'
  BY <1>1, <1>2, <1>3 DEF ArtInv, ClerksKeep, Kept, NamesNothing
<1>8. Outcome' /\ UsageNeverUnderstated' /\ ManifestIsWhole'
  BY <1>2 DEF ArtInv, Outcome, UsageNeverUnderstated, ManifestIsWhole
<1> QED
  BY <1>5, <1>6, <1>7, <1>8 DEF ArtInv

\* The disk is emptied, or only in part: a handler that has listed it is then
\* overtaken.
LEMMA FreeStep ==
  ASSUME ArtInv, NEW p \in Process, FreeDisk(p)
  PROVE  ArtInv'
<1>0. /\ clerk[p] \in Clerks /\ ArtTypes /\ ended
      /\ Fit(clerk[p]) /\ NobodyHolds(clerk[p])
  BY ClerkFacts DEF ArtInv, FreeDisk, ClerksFit, Fit, ClerksHold
<1>1. PICK c \in Clerks :
        /\ clerk' = [clerk EXCEPT ![p] = c]
        /\ c.at \in {"idle", "unmirror"} /\ (c.at = "unmirror" => disk' = {})
        /\ c.keys \in {clerk[p].keys, {}}
  <2>1. CASE disk' = {} /\ ClerkGoto(p, "unmirror")
    <3> DEFINE c == [clerk[p] EXCEPT !.at = "unmirror"]
    <3>1. c \in Clerks /\ c.at = "unmirror" /\ c.keys = clerk[p].keys
      BY <1>0 DEF Clerks, ClerkPlaces
    <3>2. clerk' = [clerk EXCEPT ![p] = c]
      BY <2>1 DEF ClerkGoto
    <3> HIDE DEF c
    <3> QED
      BY <2>1, <3>1, <3>2
  <2>2. CASE ClerkDone(p)
    BY <2>2, IdleClerkIsFit DEF ClerkDone
  <2> QED
    BY <2>1, <2>2 DEF FreeDisk
<1>2. /\ disk' \subseteq disk
      /\ UNCHANGED <<ended, bucket, manifest, usage, freed>>
      /\ overtaken' = (overtaken \/ \E q \in Process : Holds(q))
  BY DEF FreeDisk
<1>3. /\ clerk' \in [Process -> Clerks]
      /\ \A q \in Process : clerk'[q] = IF q = p THEN c ELSE clerk[q]
  BY <1>0, <1>1, ClerkStep
<1>4. ~overtaken' => ~overtaken /\ \A q \in Process : clerk[q].keys = {}
  BY <1>2 DEF Holds
<1>5. ArtTypes' /\ ClerksFit'
  BY <1>0, <1>1, <1>2, <1>3 DEF ArtInv, ArtTypes, ClerksFit, Fit, Deleting
<1>6. ClerksHold'
  BY <1>1, <1>3, <1>4 DEF ClerksHold, NobodyHolds
<1>7. ClerksKeep'
  BY <1>1, <1>2, <1>3, <1>4 DEF ArtInv, ClerksKeep, Kept, NamesNothing
<1>8. Outcome'
  BY <1>2, <1>4 DEF ArtInv, Outcome, NamesNothing
<1>9. UsageNeverUnderstated'
  <2>1. /\ Cardinality(disk') <= Cardinality(disk)
        /\ Cardinality(disk') \in Nat /\ Cardinality(disk) \in Nat
    BY <1>0, <1>2, FilesAreFinite DEF ArtTypes
  <2>2. usage.bytes \in Nat
    BY <1>0 DEF ArtTypes, Usages
  <2> QED
    BY <1>2, <2>1, <2>2 DEF ArtInv, UsageNeverUnderstated
<1>10. ManifestIsWhole'
  BY <1>2, <1>4 DEF ArtInv, ManifestIsWhole
<1> QED
  BY <1>5, <1>6, <1>7, <1>8, <1>9, <1>10 DEF ArtInv

\* The manifest comes first in a listing, and what a listing leaves out has a page of
\* objects before it.
LEMMA FirstPage ==
  ASSUME ArtTypes,
         NEW T, T = {o \in Objects : Cardinality({q \in Objects : q < o}) < Page}
  PROVE  /\ T \subseteq Nat
         /\ 0 \notin T => NamesNothing
         /\ \A m \in bucket \ T : BeyondThePage(m)
<1> DEFINE Before(o) == {q \in Objects : q < o}
           All(o) == {q \in Accepted \cup {0} : q < o}
<1>1. /\ bucket \subseteq Accepted /\ Accepted \subseteq 1..Files /\ Files \in Nat
      /\ Page \in Nat \ {0}
  BY ArtifactAssumption DEF ArtTypes
<1>2. IsFiniteSet(Accepted \cup {0}) /\ Accepted \cup {0} \subseteq Nat
  <2>1. IsFiniteSet(Accepted)
    BY <1>1, FilesAreFinite
  <2> QED
    BY <1>1, <2>1, FS_AddElement
<1>3. Objects \subseteq Accepted \cup {0} /\ bucket \subseteq Objects
  BY <1>1 DEF Objects
<1>4. T \subseteq Nat
  BY <1>2, <1>3
<1>5. Before(0) = {}
  BY <1>2, <1>3
<1>6. \A o : Before(o) \subseteq All(o) /\ All(o) \subseteq Accepted \cup {0}
  BY <1>3
<1>7. T = {o \in Objects : Cardinality(Before(o)) < Page}
  OBVIOUS
<1>8. \A o : BeyondThePage(o) <=> Cardinality(All(o)) >= Page
  BY DEF BeyondThePage
<1> HIDE DEF Before, All
<1>9. ASSUME NEW o
      PROVE  /\ Cardinality(Before(o)) \in Nat /\ Cardinality(All(o)) \in Nat
             /\ Cardinality(Before(o)) <= Cardinality(All(o))
  <2>1. IsFiniteSet(All(o))
    BY <1>2, <1>6, FS_Subset
  <2> QED
    BY <1>6, <2>1, FS_Subset, FS_CardinalityType
<1>10. ASSUME 0 \notin T PROVE NamesNothing
  <2>1. Cardinality(Before(0)) = 0
    BY <1>5, FS_EmptySet
  <2>2. 0 \notin Objects
    BY <1>1, <1>7, <1>10, <2>1
  <2> QED
    BY <2>2 DEF NamesNothing, Objects
<1>11. ASSUME NEW m \in bucket \ T PROVE BeyondThePage(m)
  <2>1. ~(Cardinality(Before(m)) < Page)
    BY <1>3, <1>7, <1>11
  <2> QED
    BY <1>1, <1>8, <1>9, <2>1
<1> QED
  BY <1>4, <1>10, <1>11

\* The prefix is listed.
LEMMA ListStep ==
  ASSUME ArtInv, NEW p \in Process, ListPrefix(p)
  PROVE  ArtInv'
<1> DEFINE T == {o \in Objects : Cardinality({q \in Objects : q < o}) < Page}
           c == [clerk[p] EXCEPT !.at = "purge", !.rest = T]
<1>0. /\ clerk[p] \in Clerks /\ ArtTypes /\ clerk[p].at = "unmirror"
      /\ Fit(clerk[p]) /\ NobodyHolds(clerk[p])
  BY ClerkFacts DEF ArtInv, ListPrefix, ClerksFit, ClerksHold
<1>1. /\ T \subseteq Nat
      /\ 0 \notin T => NamesNothing
      /\ \A m \in bucket \ T : BeyondThePage(m)
  <2> HIDE DEF T
  <2>1. T = {o \in Objects : Cardinality({q \in Objects : q < o}) < Page}
    BY DEF T
  <2> QED
    BY <1>0, <2>1, FirstPage
<1>2. /\ clerk' = [clerk EXCEPT ![p] = c]
      /\ UNCHANGED <<ended, disk, bucket, manifest, usage, freed, overtaken>>
  BY DEF ListPrefix
<1> HIDE DEF T
<1>3. /\ c \in Clerks /\ c.at = "purge" /\ c.keys = clerk[p].keys /\ c.rest = T
  BY <1>0, <1>1 DEF Clerks, ClerkPlaces
<1> HIDE DEF c
<1>4. Fit(c) /\ NobodyHolds(c) /\ Kept(c)
  BY <1>0, <1>1, <1>3 DEF Fit, NobodyHolds, Kept, Deleting
<1>5. clerk[p].at \in Deleting
  BY <1>0 DEF Deleting
<1> QED
  BY <1>2, <1>3, <1>4, <1>5, MoveStep

\* An object goes, the manifest first.
LEMMA DeleteStep ==
  ASSUME ArtInv, NEW p \in Process, DeleteObject(p)
  PROVE  ArtInv'
<1> DEFINE o == Min(clerk[p].rest)
           c == [clerk[p] EXCEPT !.rest = @ \ {o}]
<1>0. /\ clerk[p] \in Clerks /\ ArtTypes /\ clerk[p].at = "purge"
      /\ clerk[p].rest # {} /\ clerk[p].rest \subseteq Nat
      /\ Fit(clerk[p]) /\ NobodyHolds(clerk[p]) /\ Kept(clerk[p])
  BY ClerkFacts DEF ArtInv, DeleteObject, ClerksFit, ClerksHold, ClerksKeep
<1>1. o \in clerk[p].rest /\ (0 \in clerk[p].rest => o = 0)
  BY <1>0, MinIsFirst
<1>2. /\ c \in Clerks /\ c.at = "purge" /\ c.keys = clerk[p].keys
      /\ c.rest = clerk[p].rest \ {o}
  BY <1>0 DEF Clerks
<1>3. /\ clerk' = [clerk EXCEPT ![p] = c] /\ bucket' = bucket \ {o}
      /\ manifest' = IF o = 0 THEN NoManifest ELSE manifest
      /\ UNCHANGED <<ended, disk, usage, freed, overtaken>>
  BY DEF DeleteObject
<1> HIDE DEF c, o
<1>4. /\ clerk' \in [Process -> Clerks]
      /\ \A q \in Process : clerk'[q] = IF q = p THEN c ELSE clerk[q]
  BY <1>0, <1>2, <1>3, ClerkStep
<1>5. Emptied /\ (Emptied' => Emptied)
  BY <1>0 DEF Emptied, Deleting
<1>6. ~overtaken => NamesNothing'
  BY <1>0, <1>1, <1>3 DEF Kept, NamesNothing
<1>7. ~overtaken => \A q \in Process : clerk[q].keys = {}
  BY <1>5 DEF ArtInv, ClerksHold, NobodyHolds
<1>8. ArtTypes' /\ ClerksFit'
  BY <1>0, <1>2, <1>3, <1>4 DEF ArtInv, ArtTypes, ClerksFit, Fit, Deleting
<1>9. ClerksHold'
  BY <1>2, <1>3, <1>4, <1>7 DEF ClerksHold, NobodyHolds
<1>10. ClerksKeep'
  <2>1. ASSUME NEW q \in Process, ~overtaken
        PROVE  /\ clerk'[q].keys = {}
               /\ clerk'[q].at = "purge" =>
                    \A m \in bucket' \ clerk'[q].rest : BeyondThePage(m)
    <3>1. CASE q = p
      BY <1>0, <1>2, <1>3, <1>4, <1>7, <2>1, <3>1 DEF Kept
    <3>2. CASE q # p
      BY <1>3, <1>4, <1>7, <2>1, <3>2 DEF ArtInv, ClerksKeep, Kept
    <3> QED
      BY <3>1, <3>2
  <2> QED
    BY <1>3, <1>6, <2>1 DEF ClerksKeep, Kept
<1>11. Outcome' /\ UsageNeverUnderstated' /\ ManifestIsWhole'
  BY <1>3, <1>6 DEF ArtInv, Outcome, UsageNeverUnderstated, ManifestIsWhole, NamesNothing
<1> QED
  BY <1>8, <1>9, <1>10, <1>11 DEF ArtInv

\* The deletion is recorded: nothing was left, but what is beyond the first page.
LEMMA FreedStep ==
  ASSUME ArtInv, NEW p \in Process, RecordFreed(p)
  PROVE  ArtInv'
<1>0. /\ clerk[p] \in Clerks /\ ArtTypes /\ clerk[p].at = "purge"
      /\ clerk[p].rest = {} /\ ended /\ disk = {}
      /\ NobodyHolds(clerk[p]) /\ Kept(clerk[p])
  BY ClerkFacts DEF ArtInv, RecordFreed, ClerksFit, Fit, ClerksHold, ClerksKeep, Deleting
<1>1. /\ clerk' = [clerk EXCEPT ![p] = IdleClerk] /\ freed'
      /\ usage' = [usage EXCEPT !.bytes = 0, !.recorded = TRUE]
      /\ UNCHANGED <<ended, disk, bucket, manifest, overtaken>>
  BY DEF RecordFreed, ClerkDone
<1>2. /\ clerk' \in [Process -> Clerks]
      /\ \A q \in Process : clerk'[q] = IF q = p THEN IdleClerk ELSE clerk[q]
  BY <1>0, <1>1, ClerkStep, IdleClerkIsFit
<1>3. usage' \in Usages /\ usage'.bytes = 0
  BY <1>0, <1>1 DEF ArtTypes, Usages
<1>4. Emptied
  BY <1>0 DEF Emptied, Deleting
<1>5. ~overtaken => NamesNothing /\ \A o \in bucket : BeyondThePage(o)
  BY <1>0 DEF Kept
<1>6. ArtTypes'
  BY <1>0, <1>1, <1>2, <1>3 DEF ArtTypes
<1>7. ClerksFit'
  BY <1>1, <1>2, IdleClerkIsFit DEF ArtInv, ClerksFit, Fit, Deleting
<1>8. ClerksHold'
  BY <1>1, <1>2, <1>4, IdleClerkIsFit DEF ArtInv, ClerksHold, NobodyHolds
<1>9. ClerksKeep'
  BY <1>1, <1>2, IdleClerkIsFit DEF ArtInv, ClerksKeep, Kept, NamesNothing
<1>10. Outcome'
  BY <1>0, <1>1, <1>3, <1>5 DEF Outcome, NamesNothing
<1>11. UsageNeverUnderstated'
  BY <1>0, <1>1, <1>3, FS_EmptySet DEF UsageNeverUnderstated
<1>12. ManifestIsWhole'
  BY <1>1 DEF ArtInv, ManifestIsWhole
<1> QED
  BY <1>6, <1>7, <1>8, <1>9, <1>10, <1>11, <1>12 DEF ArtInv

\* The job writes, before it ends and anybody works on its files; it ends.
LEMMA JobFilesStep ==
  ASSUME ArtInv, JobWrites \/ JobEnds
  PROVE  ArtInv'
<1>1. CASE JobWrites
  <2>1. ~ended /\ UNCHANGED <<ended, bucket, manifest, usage, clerk, freed, overtaken>>
    BY <1>1 DEF JobWrites
  <2>2. /\ \A p \in Process : clerk[p].at \in {"idle", "opened"}
        /\ ~usage.recorded /\ ~freed
    BY <2>1 DEF ArtInv, ClerksFit, Fit, Outcome
  <2>3. disk' \subseteq 1..Files
    <3> DEFINE left == 1..Files \ disk
    <3>0. Files \in Nat /\ disk \subseteq 1..Files /\ disk # 1..Files
      BY <1>1, ArtifactAssumption DEF JobWrites, ArtInv, ArtTypes
    <3>1. left \subseteq Nat
      BY <3>0
    <3>2. left # {}
      BY <3>0, Zenon
    <3>3. Min(left) \in left
      BY <3>1, <3>2, MinIsFirst
    <3> QED
      BY <1>1, <3>3 DEF JobWrites, ArtInv, ArtTypes
  <2>4. ArtTypes'
    BY <2>1, <2>3 DEF ArtInv, ArtTypes
  <2>5. ClerksFit' /\ Outcome' /\ UsageNeverUnderstated'
    BY <2>1, <2>2 DEF ArtInv, ClerksFit, Fit, Deleting, Outcome, UsageNeverUnderstated
  <2>6. ClerksHold' /\ ClerksKeep' /\ ManifestIsWhole'
    BY <2>1 DEF ArtInv, ClerksHold, NobodyHolds, Emptied, ClerksKeep, Kept, NamesNothing,
       ManifestIsWhole
  <2> QED
    BY <2>4, <2>5, <2>6 DEF ArtInv
<1>2. CASE JobEnds
  BY <1>2 DEF JobEnds, ArtInv, ArtTypes, ClerksFit, Fit, ClerksHold, NobodyHolds,
     Emptied, ClerksKeep, Kept, NamesNothing, Outcome, UsageNeverUnderstated,
     ManifestIsWhole
<1> QED
  BY <1>1, <1>2

-----------------------------------------------------------------------------
\* In the first state there are no files.
LEMMA ArtInvInit == ArtifactInit => ArtInv
<1> SUFFICES ASSUME ArtifactInit PROVE ArtInv
  OBVIOUS
<1>1. usage \in Usages
  BY DEF ArtifactInit, Usages
<1>2. clerk \in [Process -> Clerks] /\ \A p \in Process : clerk[p] = IdleClerk
  BY IdleClerkIsFit DEF ArtifactInit
<1>3. ArtTypes
  BY <1>1, <1>2 DEF ArtifactInit, ArtTypes
<1>4. ClerksFit /\ ClerksHold /\ ClerksKeep
  BY <1>2, IdleClerkIsFit DEF ClerksFit, Fit, ClerksHold, NobodyHolds, ClerksKeep, Kept,
     Deleting
<1>5. Outcome /\ UsageNeverUnderstated /\ ManifestIsWhole
  BY DEF ArtifactInit, Outcome, UsageNeverUnderstated, ManifestIsWhole
<1> QED
  BY <1>3, <1>4, <1>5 DEF ArtInv

\* Every step keeps the invariant.
LEMMA ArtInvNext == ArtInv /\ [ArtifactNext]_artifactVars => ArtInv'
<1> SUFFICES ASSUME ArtInv, [ArtifactNext]_artifactVars PROVE ArtInv'
  OBVIOUS
<1>1. CASE JobWrites \/ JobEnds
  BY <1>1, JobFilesStep
<1>2. ASSUME NEW p \in Process,
             OpenJob(p) \/ ObserveEnd(p) \/ ListArtifacts(p) \/ RecordFootprint(p)
      PROVE  ArtInv'
  BY <1>2, OpenStep, MeasureStep
<1>3. ASSUME NEW p \in Process,
             \/ SelectAccepted(p) \/ ReadManifest(p) \/ ReadFile(p) \/ PutFile(p)
             \/ WriteManifest(p) \/ MarkMirrored(p)
      PROVE  ArtInv'
  BY <1>3, CompareStep, ReadStep, PutStep, CertifyStep
<1>4. ASSUME NEW p \in Process,
             \/ RequireStopped(p) \/ FreeDisk(p) \/ ListPrefix(p) \/ DeleteObject(p)
             \/ RecordFreed(p)
      PROVE  ArtInv'
  BY <1>4, RequireStep, FreeStep, ListStep, DeleteStep, FreedStep
<1>5. ASSUME NEW p \in Process, ClerkFails(p)
      PROVE  ArtInv'
  BY <1>5, ClerkDoneStep DEF ClerkFails
<1>6. CASE UNCHANGED artifactVars
  BY <1>6 DEF artifactVars, ArtInv, ArtTypes, ClerksFit, Fit, ClerksHold, NobodyHolds,
     Emptied, ClerksKeep, Kept, NamesNothing, Outcome, UsageNeverUnderstated,
     ManifestIsWhole
<1> QED
  BY <1>1, <1>2, <1>3, <1>4, <1>5, <1>6 DEF ArtifactNext

\* The manifest is whole (ManifestIsWhole), whatever the number of files, of
\* processes and of objects on a page.
THEOREM ManifestsAreWhole == ArtifactSpec => []ManifestIsWhole
<1>1. ArtInv => ManifestIsWhole
  BY DEF ArtInv
<1> QED
  BY <1>1, ArtInvInit, ArtInvNext, PTL DEF ArtifactSpec

\* Deletions are honest (DeletionIsHonest), for any number of files and any size of a
\* listing: delete_prefix lists once, and nothing is left but what came behind a page of
\* others.
THEOREM DeletionsAreHonest == ArtifactSpec => []DeletionIsHonest
<1>1. ArtInv => DeletionIsHonest
  BY DEF ArtInv, Outcome, DeletionIsHonest, NothingLeft, NamesNothing
<1> QED
  BY <1>1, ArtInvInit, ArtInvNext, PTL DEF ArtifactSpec

-----------------------------------------------------------------------------
\* A manifest names accepted files, a usage is no more than the job's files, and a handler
\* goes through objects of the job.
ArtFits ==
  /\ manifest = NoManifest \/ manifest \subseteq Accepted
  /\ usage.bytes \in 0..Files
  /\ ended \in BOOLEAN /\ freed \in BOOLEAN /\ overtaken \in BOOLEAN
  /\ \A p \in Process : clerk[p].rest \subseteq 0..Files

\* The step of a handler changes nobody else's objects.
LEMMA RestFits ==
  ASSUME ArtTypes, ArtFits, NEW p \in Process, NEW c, clerk' = [clerk EXCEPT ![p] = c],
         c.rest \subseteq 0..Files
  PROVE  \A q \in Process : clerk'[q].rest \subseteq 0..Files
<1>1. \A q \in Process : clerk'[q] = IF q = p THEN c ELSE clerk[q]
      BY DEF ArtTypes
<1> QED BY <1>1 DEF ArtFits

\* One call of a handler.
ClerkCalls(p) ==
  \/ OpenJob(p) \/ ObserveEnd(p) \/ ListArtifacts(p) \/ RecordFootprint(p)
  \/ SelectAccepted(p) \/ ReadManifest(p) \/ ReadFile(p) \/ PutFile(p)
  \/ WriteManifest(p) \/ MarkMirrored(p) \/ RequireStopped(p)
  \/ FreeDisk(p) \/ ListPrefix(p) \/ DeleteObject(p) \/ RecordFreed(p)
  \/ ClerkFails(p)

\* What a handler has left to go through after a call is of the job.
LEMMA CallRestFits ==
  ASSUME ArtInv, ArtFits, NEW p \in Process, ClerkCalls(p)
  PROVE  \A q \in Process : clerk'[q].rest \subseteq 0..Files
<1>1. ArtTypes /\ clerk[p] \in Clerks /\ clerk[p].keys \subseteq 1..Files /\ 1..Files \subseteq 0..Files
  <2>1. ArtTypes
        BY DEF ArtInv
  <2>2. 1..Files \subseteq 0..Files
        BY ArtifactAssumption
  <2> QED BY <2>1, <2>2, ClerkFacts
<1>2. clerk[p].rest \subseteq 0..Files
      BY DEF ArtFits
<1>3. CASE clerk' = [clerk EXCEPT ![p] = IdleClerk]
  <2>1. IdleClerk.rest \subseteq 0..Files
        BY DEF IdleClerk
  <2> QED BY <1>1, <1>3, <2>1, RestFits
<1>4. CASE \E at : clerk' = [clerk EXCEPT ![p].at = at]
  <2>1. PICK at : clerk' = [clerk EXCEPT ![p].at = at]
        BY <1>4
  <2> DEFINE c == [clerk[p] EXCEPT !.at = at]
  <2>2. c.rest = clerk[p].rest
        BY <1>1 DEF Clerks
  <2>3. clerk' = [clerk EXCEPT ![p] = c]
        BY <2>1
  <2> HIDE DEF c
  <2> QED BY <1>1, <1>2, <2>2, <2>3, RestFits
<1>5. CASE \E at, keys : clerk' = [clerk EXCEPT ![p].at = at, ![p].keys = keys]
  <2>1. PICK at, keys : clerk' = [clerk EXCEPT ![p].at = at, ![p].keys = keys]
        BY <1>5
  <2> DEFINE c == [clerk[p] EXCEPT !.at = at, !.keys = keys]
  <2>2. c.rest = clerk[p].rest
        BY <1>1 DEF Clerks
  <2>3. clerk' = [clerk EXCEPT ![p] = c]
        BY <1>1, <2>1 DEF ArtTypes
  <2> HIDE DEF c
  <2> QED BY <1>1, <1>2, <2>2, <2>3, RestFits
<1>6. CASE \E at, rest : rest \subseteq 0..Files /\ clerk' = [clerk EXCEPT ![p].at = at, ![p].rest = rest]
  <2>1. PICK at, rest : rest \subseteq 0..Files /\ clerk' = [clerk EXCEPT ![p].at = at, ![p].rest = rest]
        BY <1>6
  <2> DEFINE c == [clerk[p] EXCEPT !.at = at, !.rest = rest]
  <2>2. c.rest = rest
        BY <1>1 DEF Clerks
  <2>3. clerk' = [clerk EXCEPT ![p] = c]
        BY <1>1, <2>1 DEF ArtTypes
  <2> HIDE DEF c
  <2> QED BY <1>1, <2>1, <2>2, <2>3, RestFits
<1>7. CASE OpenJob(p)
  <2> DEFINE c == [IdleClerk EXCEPT !.at = "opened", !.recorded = usage.recorded,
                                    !.mirrored = usage.mirrored]
  <2>1. c.rest = {}
        BY DEF IdleClerk
  <2>2. clerk' = [clerk EXCEPT ![p] = c]
        BY <1>7 DEF OpenJob
  <2> HIDE DEF c
  <2> QED BY <1>1, <2>1, <2>2, RestFits
<1>8. CASE ReadManifest(p)
  <2>1. CASE clerk' = [clerk EXCEPT ![p].at = "copy", ![p].rest = clerk[p].keys]
        BY <1>1, <1>6, <2>1
  <2> QED BY <1>4, <1>8, <2>1 DEF ReadManifest
<1>9. CASE PutFile(p)
  <2>1. clerk' = [clerk EXCEPT ![p].at = "copy", ![p].rest = clerk[p].rest \ {Min(clerk[p].rest)}]
        BY <1>1, <1>9 DEF PutFile, ArtTypes, Clerks
  <2> QED BY <1>2, <1>6, <2>1
<1>10. CASE ListPrefix(p)
  <2>1. Objects \subseteq 0..Files
    <3>1. 0 \in 0..Files
          BY ArtifactAssumption
    <3> QED BY <1>1, <3>1, ArtifactAssumption DEF Objects, ArtTypes
  <2>2. PICK rest \in SUBSET Objects : clerk' = [clerk EXCEPT ![p].at = "purge", ![p].rest = rest]
        BY <1>10 DEF ListPrefix
  <2> QED BY <1>6, <2>1, <2>2
<1>11. CASE DeleteObject(p)
  <2> DEFINE c == [clerk[p] EXCEPT !.rest = clerk[p].rest \ {Min(clerk[p].rest)}]
  <2>1. c.rest = clerk[p].rest \ {Min(clerk[p].rest)}
        BY <1>1 DEF Clerks
  <2>2. clerk' = [clerk EXCEPT ![p] = c]
        BY <1>11 DEF DeleteObject
  <2> HIDE DEF c
  <2> QED BY <1>1, <1>2, <2>1, <2>2, RestFits
<1> QED BY <1>3, <1>4, <1>5, <1>7, <1>8, <1>9, <1>10, <1>11
    DEF ClerkCalls, ObserveEnd, ListArtifacts, RecordFootprint, SelectAccepted, ReadFile,
        WriteManifest, MarkMirrored, RequireStopped, FreeDisk, RecordFreed, ClerkFails,
        GotoMirror, ClerkGoto, ClerkDone

\* Every step of a job's files fits.
LEMMA ArtFitsStep == ArtInv /\ ArtFits /\ [ArtifactNext]_artifactVars => ArtFits'
<1> SUFFICES ASSUME ArtInv, ArtFits, [ArtifactNext]_artifactVars PROVE ArtFits'
    OBVIOUS
<1>1. CASE UNCHANGED artifactVars
      BY <1>1 DEF artifactVars, ArtFits
<1>2. CASE JobWrites \/ JobEnds
      BY <1>2 DEF JobWrites, JobEnds, ArtFits
<1>3. ASSUME NEW p \in Process, ClerkCalls(p) PROVE ArtFits'
  <2>1. \A q \in Process : clerk'[q].rest \subseteq 0..Files
        BY <1>3, CallRestFits
  <2>2. ArtTypes /\ Fit(clerk[p]) /\ clerk[p].keys \subseteq 1..Files
        BY ClerkFacts DEF ArtInv, ClerksFit
  <2>3. manifest' = NoManifest \/ manifest' \subseteq Accepted
    <3>1. CASE WriteManifest(p)
          BY <3>1, <2>2 DEF WriteManifest, Fit
    <3>2. CASE UNCHANGED manifest \/ manifest' = NoManifest
          BY <3>2 DEF ArtFits
    <3> QED BY <1>3, <3>1, <3>2
        DEF ClerkCalls, OpenJob, ObserveEnd, ListArtifacts, RecordFootprint, SelectAccepted,
            ReadManifest, ReadFile, PutFile, MarkMirrored, RequireStopped, FreeDisk, ListPrefix,
            DeleteObject, RecordFreed, ClerkFails
  <2>4. usage'.bytes \in 0..Files
    <3>1. CASE RecordFootprint(p)
      <4> DEFINE b == Cardinality(clerk[p].keys)
      <4>1. b \in 0..Files
        <5>1. 1..Files \subseteq 1..Files /\ Files \in Nat
              BY ArtifactAssumption
        <5>2. Cardinality(1..Files) = Files /\ b \in Nat /\ b <= Cardinality(1..Files)
              BY <2>2, <5>1, FilesAreFinite, FS_Interval
        <5> QED BY <5>1, <5>2
      <4>2. usage' = [usage EXCEPT !.bytes = b, !.recorded = TRUE]
            BY <3>1 DEF RecordFootprint
      <4> HIDE DEF b
      <4> QED BY <2>2, <4>1, <4>2 DEF ArtTypes, Usages
    <3>2. CASE MarkMirrored(p)
          BY <3>2, <2>2 DEF MarkMirrored, ArtFits, ArtTypes, Usages
    <3>3. CASE RecordFreed(p)
          BY <3>3, <2>2, ArtifactAssumption DEF RecordFreed, ArtTypes, Usages
    <3>4. CASE UNCHANGED usage
          BY <3>4 DEF ArtFits
    <3> QED BY <1>3, <3>1, <3>2, <3>3, <3>4
        DEF ClerkCalls, OpenJob, ObserveEnd, ListArtifacts, SelectAccepted, ReadManifest,
            ReadFile, PutFile, WriteManifest, RequireStopped, FreeDisk, ListPrefix,
            DeleteObject, ClerkFails
  <2>5. ended' \in BOOLEAN /\ freed' \in BOOLEAN /\ overtaken' \in BOOLEAN
    <3>1. ended' = ended /\ (freed' = freed \/ freed' = TRUE \/ freed' = FALSE)
          BY <1>3
          DEF ClerkCalls, OpenJob, ObserveEnd, ListArtifacts, RecordFootprint, SelectAccepted,
              ReadManifest, ReadFile, PutFile, WriteManifest, MarkMirrored, RequireStopped,
              FreeDisk, ListPrefix, DeleteObject, RecordFreed, ClerkFails
    <3>2. CASE overtaken' = overtaken
          BY <3>1, <3>2 DEF ArtFits
    <3>3. CASE FreeDisk(p)
          BY <3>1, <3>3, Zenon DEF ArtFits, FreeDisk
    <3> QED BY <1>3, <3>2, <3>3
        DEF ClerkCalls, OpenJob, ObserveEnd, ListArtifacts, RecordFootprint, SelectAccepted,
            ReadManifest, ReadFile, PutFile, WriteManifest, MarkMirrored, RequireStopped,
            ListPrefix, DeleteObject, RecordFreed, ClerkFails
  <2> QED BY <2>1, <2>3, <2>4, <2>5 DEF ArtFits
<1> QED BY <1>1, <1>2, <1>3 DEF ArtifactNext, ClerkCalls

\* The types of a job's files and of its handlers.
THEOREM ArtTyped == ArtifactSpec => []ArtifactTypeOK
<1>1. ArtifactInit => ArtFits
  <2> SUFFICES ASSUME ArtifactInit PROVE ArtFits
      OBVIOUS
  <2>1. \A p \in Process : clerk[p].rest = {}
        BY DEF ArtifactInit, IdleClerk
  <2>2. usage.bytes \in 0..Files
        BY ArtifactAssumption DEF ArtifactInit
  <2> QED BY <2>1, <2>2 DEF ArtifactInit, ArtFits
<1>2. ArtInv /\ ArtFits => ArtifactTypeOK
  <2> SUFFICES ASSUME ArtInv, ArtFits PROVE ArtifactTypeOK
      OBVIOUS
  <2>1. ArtTypes /\ \A p \in Process : clerk[p].keys \subseteq 1..Files
        BY ClerkFacts DEF ArtInv
  <2> QED BY <2>1 DEF ArtTypes, ArtFits, Usages, ArtifactTypeOK
<1> QED BY <1>1, <1>2, ArtFitsStep, ArtInvInit, ArtInvNext, PTL DEF ArtifactSpec

-----------------------------------------------------------------------------
(***************************************************************************)
(* Submission for any files, pages and slots: wherever it ends or is       *)
(* refused, a job that runs finds its code at its coordinator.             *)
(***************************************************************************)

\* The places of a submission, in the order they are passed.
Checking == {"edge", "fetch", "tree", "preflight"}
Compiling == {"parsed", "list", "listed", "resolved", "compiled", "admitted"}
Staged == {"staged", "posted", "started", "route", "end"}

\* What is asked for is of a known venue; what a federated run asks for once it
\* has passed the preflight, of the one its driver addresses.
SubAsks ==
  /\ {"at", "federated", "venue"} \subseteq DOMAIN sub
  /\ sub.at \in {"idle"} \cup Checking \cup Compiling \cup Staged
  /\ sub.venue \in SubVenue /\ sub.federated \in BOOLEAN
  /\ sub.at \in Compiling \cup Staged /\ sub.federated => sub.venue = DefaultVenue

\* What was done by the time it has got to a place.
SubProgress ==
  /\ sub.at \in Staged => sub.venue \in staged
  /\ sub.at \in Checking \cup Compiling \cup {"staged"} =>
       posted = "nowhere" /\ rowVenue = "none" /\ ~started
  /\ sub.at = "posted" =>
       ~sub.federated /\ posted = sub.venue /\ rowVenue = "none" /\ ~started
  /\ sub.at = "started" =>
       sub.federated /\ posted = "nowhere" /\ rowVenue = sub.venue /\ ~started

\* The inductive invariant.
SubInv == SubAsks /\ SubProgress /\ JobFindsItsCode

-----------------------------------------------------------------------------
\* A submission goes to a place and asks for the same.
LEMMA SubMoves ==
  ASSUME SubAsks, NEW place, SubGoto(place)
  PROVE  /\ DOMAIN sub' = DOMAIN sub /\ sub'.at = place
         /\ sub'.venue = sub.venue /\ sub'.federated = sub.federated
         /\ sub.at \in Compiling \cup Staged /\ place \in Compiling \cup Staged => SubAsks'
<1>1. /\ DOMAIN sub' = DOMAIN sub /\ sub'.at = place
      /\ sub'.venue = sub.venue /\ sub'.federated = sub.federated
  BY DEF SubAsks, SubGoto
<1> QED BY <1>1 DEF SubAsks

\* It is refused, or over unheard.
LEMMA SubEnds ==
  ASSUME sub' = NoSub
  PROVE  SubAsks' /\ sub'.at = "idle"
  BY DEF NoSub, SubAsks, SubVenue, DefaultVenue, Checking, Compiling, Staged

\* At the first it is at the edge.
LEMMA SubInitInv == SubInit => SubInv
  BY DEF SubInit, NoSub, SubInv, SubAsks, SubProgress, JobFindsItsCode, SubVenue, DefaultVenue,
         Checking, Compiling, Staged

\* Until its code is staged, a step changes where it is and what it asks for,
\* and nothing outside it.
LEMMA SubAsking ==
  ASSUME SubInv, UNCHANGED <<staged, posted, rowVenue, started>>,
         sub.at \in Checking \cup Compiling,
         SubAsks', sub'.at \in {"idle"} \cup Checking \cup Compiling
  PROVE  SubInv'
  BY DEF SubInv, SubProgress, JobFindsItsCode, Checking, Compiling, Staged

\* The checks of the tree, up to its datasets.
LEMMA CheckStep ==
  ASSUME SubInv,
         \/ FetchRepo \/ \E v \in SubVenue : FromRepo(v)
         \/ \E v \in SubVenue : \E w, f : FromUpload(v, w, f)
         \/ \E config : ParseTree(config) \/ \E errors : Preflight(errors)
  PROVE  SubInv'
<1>1. SubAsks
  BY DEF SubInv
<1>2. CASE FetchRepo \/ \E errors : Preflight(errors)
  BY <1>1, <1>2, SubMoves, SubAsking, SMTT(30)
     DEF FetchRepo, Preflight, SubAsks, Checking, Compiling, Staged
<1>3. CASE \E v \in SubVenue : FromRepo(v) \/ \E w, f : FromUpload(v, w, f)
  <2>1. PICK v \in SubVenue, place \in {"fetch", "tree"} :
          /\ sub.at = "edge" /\ sub' = [sub EXCEPT !.at = place, !.venue = v]
          /\ UNCHANGED <<staged, posted, rowVenue, started>>
    BY <1>3 DEF FromRepo, FromUpload
  <2> QED BY <1>1, <2>1, SubAsking, SMTT(30) DEF SubAsks, Checking, Compiling, Staged
<1>4. CASE \E config : ParseTree(config)
  <2>1. PICK b \in BOOLEAN :
          /\ sub.at = "tree" /\ sub' = [sub EXCEPT !.at = "preflight", !.federated = b]
          /\ UNCHANGED <<staged, posted, rowVenue, started>>
    BY <1>4 DEF ParseTree
  <2> QED BY <1>1, <2>1, SubAsking DEF SubAsks, Checking, Compiling, Staged
<1> QED BY <1>2, <1>3, <1>4

\* The datasets, the tasks and the admission.
LEMMA CompileStep ==
  ASSUME SubInv,
         \/ NoDataset \/ \E origin : DeclareDataset(origin)
         \/ \E files, more : ListHf(files, more) \/ ReadManifestUrl(files)
         \/ \E files, more, token : ListBucket(files, more, token)
         \/ \E kept : BuildManifest(kept)
         \/ \E n, split : CompileToJobspec(n, split) \/ CompileFederatedRound(n, split)
         \/ \E best : AdmitDatasets(best)
  PROVE  SubInv'
<1>1. SubAsks
  BY DEF SubInv
<1>2. /\ sub.at \in Compiling /\ UNCHANGED <<staged, posted, rowVenue, started>>
      /\ \/ sub' = NoSub
         \/ /\ sub'.at \in Compiling /\ DOMAIN sub' = DOMAIN sub
            /\ sub'.venue = sub.venue /\ sub'.federated = sub.federated
  <2>1. CASE NoDataset \/ \E best : AdmitDatasets(best)
    BY <1>1, <2>1, SubMoves, SMTT(30) DEF NoDataset, AdmitDatasets, Compiling
  <2>2. CASE \E origin : DeclareDataset(origin)
    BY <1>1, <2>2, ZenonT(60) DEF DeclareDataset, Compiling, SubAsks
  <2>3. CASE \/ \E files, more : ListHf(files, more) \/ ReadManifestUrl(files)
             \/ \E files, more, token : ListBucket(files, more, token)
    BY <1>1, <2>3, ZenonT(60)
       DEF ListHf, ReadManifestUrl, ListBucket, Listing, ListPage, Compiling, SubAsks
  <2>4. CASE \E kept : BuildManifest(kept)
    BY <1>1, <2>4 DEF BuildManifest, Compiling, SubAsks
  <2>5. CASE \E n, split : CompileToJobspec(n, split) \/ CompileFederatedRound(n, split)
    <3>1. \E chunks, split : Compile(chunks, split)
      BY <2>5 DEF CompileToJobspec, CompileFederatedRound
    <3> QED BY <1>1, <3>1 DEF Compile, Compiling, SubAsks
  <2> QED BY <2>1, <2>2, <2>3, <2>4, <2>5
<1>3. CASE sub' = NoSub
  BY <1>2, <1>3, SubEnds, SubAsking
<1>4. CASE sub' # NoSub
  BY <1>1, <1>2, <1>4, SubAsking DEF SubAsks
<1> QED BY <1>3, <1>4

\* The code, the job, its row and its driver.
LEMMA PostStep ==
  ASSUME SubInv,
         \/ \E heard : StageCode(heard) \/ PostSubmission(heard)
         \/ InsertSubmission \/ StartDriver \/ RouteSubmission \/ SubRefused
  PROVE  SubInv'
<1>1. SubAsks
  BY DEF SubInv
<1>2. SubProgress /\ JobFindsItsCode
  BY DEF SubInv
<1>3. ASSUME NEW heard, StageCode(heard) PROVE SubInv'
  <2>1. /\ sub.at = "admitted" /\ staged' = staged \cup {sub.venue}
        /\ UNCHANGED <<posted, rowVenue, started>>
    BY <1>3 DEF StageCode
  <2>2. SubAsks' /\ sub'.at \in {"idle", "staged"} /\ (sub'.at = "staged" => sub'.venue = sub.venue)
    BY <1>1, <1>3, <2>1, SubEnds, SubMoves DEF StageCode, Compiling, Staged
  <2>3. SubProgress'
    BY <1>2, <2>1, <2>2 DEF SubProgress, Checking, Compiling, Staged
  <2> QED BY <1>2, <2>1, <2>2, <2>3 DEF SubInv, JobFindsItsCode
<1>4. ASSUME NEW heard, PostSubmission(heard) PROVE SubInv'
  <2>1. /\ sub.at = "staged" /\ ~sub.federated /\ posted' = sub.venue
        /\ UNCHANGED <<staged, rowVenue, started>>
    BY <1>4 DEF PostSubmission
  <2>2. /\ SubAsks' /\ sub'.at \in {"idle", "posted"}
        /\ sub'.at = "posted" => sub'.venue = sub.venue /\ sub'.federated = sub.federated
    BY <1>1, <1>4, <2>1, SubEnds, SubMoves DEF PostSubmission, Staged
  <2>3. SubProgress'
    BY <1>2, <2>1, <2>2 DEF SubProgress, Checking, Compiling, Staged
  <2>4. JobFindsItsCode'
    BY <1>2, <2>1 DEF SubProgress, JobFindsItsCode, Staged
  <2> QED BY <2>2, <2>3, <2>4 DEF SubInv
<1>5. CASE InsertSubmission
  <2>1. /\ sub.at = "posted" \/ (sub.at = "staged" /\ sub.federated)
        /\ rowVenue' = sub.venue /\ UNCHANGED <<staged, posted, started>>
    BY <1>5 DEF InsertSubmission
  <2>2. /\ SubAsks' /\ sub'.at = IF sub.federated THEN "started" ELSE "route"
        /\ sub'.venue = sub.venue /\ sub'.federated = sub.federated
    BY <1>1, <1>5, <2>1, SubMoves DEF InsertSubmission, Staged
  <2>3. SubProgress'
    BY <1>2, <2>1, <2>2 DEF SubProgress, Checking, Compiling, Staged
  <2>4. JobFindsItsCode'
    BY <1>2, <2>1 DEF SubProgress, JobFindsItsCode, Checking, Compiling, Staged
  <2> QED BY <2>2, <2>3, <2>4 DEF SubInv
<1>6. CASE StartDriver \/ RouteSubmission
  <2>1. /\ sub.at \in {"started", "route"} /\ UNCHANGED <<staged, posted, rowVenue>>
        /\ started' = started \/ (started' = TRUE /\ sub.at = "started")
    BY <1>6 DEF StartDriver, RouteSubmission
  <2>2. /\ SubAsks' /\ sub'.at = "end" /\ sub'.venue = sub.venue
    BY <1>1, <1>6, <2>1, SubMoves DEF StartDriver, RouteSubmission, Staged
  <2>3. SubProgress'
    BY <1>2, <2>1, <2>2 DEF SubProgress, Checking, Compiling, Staged
  <2>4. sub.at = "started" => sub.venue = DefaultVenue /\ sub.venue \in staged /\ rowVenue = sub.venue
    BY <1>1, <1>2 DEF SubAsks, SubProgress, Staged
  <2>5. JobFindsItsCode'
    BY <1>2, <2>1, <2>4 DEF JobFindsItsCode
  <2> QED BY <2>2, <2>3, <2>5 DEF SubInv
<1>7. CASE SubRefused
  <2>1. SubAsks' /\ sub'.at = "idle" /\ UNCHANGED <<staged, posted, rowVenue, started>>
    BY <1>7, SubEnds DEF SubRefused
  <2> QED
    BY <1>2, <2>1 DEF SubInv, SubProgress, JobFindsItsCode, Checking, Compiling, Staged
<1> QED BY <1>3, <1>4, <1>5, <1>6, <1>7

\* Every step keeps the invariant.
LEMMA SubStepInv == SubInv /\ [SubNext]_subVars => SubInv'
<1>1. CASE UNCHANGED subVars
  BY <1>1 DEF subVars, SubInv, SubAsks, SubProgress, JobFindsItsCode
<1>2. CASE SubNext /\ SubInv
  BY <1>2, CheckStep, CompileStep, PostStep DEF SubNext
<1> QED BY <1>1, <1>2

\* The half of PostedJobIsWhole that is about what failed on the way: a job that
\* runs finds its code at its coordinator, for any submission and wherever it ends.
THEOREM CodeIsThere == SubSpec => []JobFindsItsCode
<1>1. SubInv => JobFindsItsCode
  BY DEF SubInv
<1> QED BY <1>1, SubInitInv, SubStepInv, PTL DEF SubSpec

-----------------------------------------------------------------------------
(***************************************************************************)
(* The slices of a dataset, for files of any sizes and any number of       *)
(* tasks: what dataset_chunks makes of them, and that a submission keeps   *)
(* what it was cut into.                                                   *)
(***************************************************************************)

\* The files of a manifest, and a number of chunks to cut them into.
Manifest(files) == files \in Seq(Nat) /\ files # <<>>

\* The bytes before a file and up to it; those of a run of files.
LEMMA BytesAre ==
  ASSUME NEW files, Manifest(files)
  PROVE  /\ IsFiniteSet(DOMAIN files) /\ Len(files) \in Nat \ {0} /\ DOMAIN files = 1..Len(files)
         /\ \A S \in SUBSET DOMAIN files : /\ IsFiniteSet(S) /\ Bytes(files, S) \in Nat
                                           /\ Bytes(files, S) <= Total(files)
<1>1. Len(files) \in Nat \ {0} /\ DOMAIN files = 1..Len(files) /\ \A i \in DOMAIN files : files[i] \in Nat
  BY DEF Manifest
<1>2. IsFiniteSet(DOMAIN files)
  BY <1>1, FS_Interval
<1>3. ASSUME NEW S \in SUBSET DOMAIN files
      PROVE  IsFiniteSet(S) /\ Bytes(files, S) \in Nat /\ Bytes(files, S) <= Total(files)
  <2>1. IsFiniteSet(S) /\ \A i \in S : files[i] \in Nat
    BY <1>1, <1>2, FS_Subset
  <2>2. SumOver(files, S) \in Nat
    BY <2>1, TotalBounds
  <2>3. SumOver(files, S) <= SumOver(files, DOMAIN files)
    BY <1>1, <1>2, TotalPart
  <2>4. Bytes(files, S) = SumOver(files, S) /\ Total(files) = SumOver(files, DOMAIN files)
    BY SumFunctionIsTotal DEF Bytes, Total
  <2> QED BY <2>1, <2>2, <2>3, <2>4
<1> QED BY <1>1, <1>2, <1>3

\* A run of files is what lies before its end and not before its start.
LEMMA RunBytes ==
  ASSUME NEW files, Manifest(files), NEW a \in DOMAIN files, NEW b \in DOMAIN files, a <= b,
         NEW S \in SUBSET (a..b)
  PROVE  /\ FilesBefore(files, a) \in Nat /\ FilesBefore(files, b) \in Nat
         /\ FilesBefore(files, b) + files[b] <= Total(files)
         /\ FilesBefore(files, a) + Bytes(files, S) <= FilesBefore(files, b) + files[b]
<1>1. /\ IsFiniteSet(DOMAIN files) /\ Len(files) \in Nat /\ DOMAIN files = 1..Len(files)
      /\ a \in Nat /\ b \in Nat /\ files[b] \in Nat /\ \A i \in DOMAIN files : files[i] \in Nat
  BY BytesAre DEF Manifest
<1> DEFINE P == 1..a - 1
           Q == 1..b - 1
           W == 1..b
<1>2. /\ P \in SUBSET DOMAIN files /\ Q \in SUBSET DOMAIN files /\ W \in SUBSET DOMAIN files
      /\ S \in SUBSET DOMAIN files
      /\ P \cup S \in SUBSET W /\ P \cap S = {} /\ W = Q \cup {b} /\ Q \cap {b} = {}
      /\ W \ {b} = Q /\ b \in W
  <2>1. \A x \in S : x \in a..b
    OBVIOUS
  <2>2. W = Q \cup {b} /\ Q \cap {b} = {} /\ W \ {b} = Q /\ b \in W
    BY <1>1
  <2>3. P \in SUBSET DOMAIN files /\ Q \in SUBSET DOMAIN files /\ W \in SUBSET DOMAIN files
    BY <1>1
  <2>4. \A x \in S : x \in W /\ x \notin P
    BY <1>1, <2>1
  <2>5. \A x \in P : x \in W
    BY <1>1
  <2> HIDE DEF P, Q, W
  <2> QED BY <2>2, <2>3, <2>4, <2>5
<1>3. FilesBefore(files, a) = SumOver(files, P) /\ FilesBefore(files, b) = SumOver(files, Q)
  BY SumFunctionIsTotal DEF FilesBefore, Bytes
<1>4. Bytes(files, S) = SumOver(files, S) /\ Bytes(files, W) = SumOver(files, W)
      /\ Bytes(files, P) = SumOver(files, P) /\ Bytes(files, Q) = SumOver(files, Q)
  BY SumFunctionIsTotal DEF Bytes
<1> HIDE DEF P, Q, W
<1>5. /\ IsFiniteSet(P) /\ IsFiniteSet(Q) /\ IsFiniteSet(W) /\ IsFiniteSet(S)
      /\ SumOver(files, P) \in Nat /\ SumOver(files, Q) \in Nat /\ SumOver(files, W) \in Nat
      /\ SumOver(files, S) \in Nat /\ SumOver(files, W) <= Total(files)
  BY <1>2, <1>4, BytesAre
<1>6. SumOver(files, W) = files[b] + SumOver(files, Q)
  <2>1. \A x \in W : files[x] \in Int
    BY <1>1, <1>2
  <2> QED BY <2>1, <1>2, <1>5, TotalRemove
<1>7. SumOver(files, P \cup S) = SumOver(files, P) + SumOver(files, S)
  <2>1. \A x \in P \cup S : files[x] \in Int
    BY <1>1, <1>2
  <2> QED BY <2>1, <1>2, <1>5, TotalUnion
<1>8. SumOver(files, P \cup S) <= SumOver(files, W)
  <2>1. \A x \in W : files[x] \in Nat
    BY <1>1, <1>2
  <2> QED BY <2>1, <1>2, <1>5, TotalPart
<1> QED BY <1>1, <1>3, <1>4, <1>5, <1>6, <1>7, <1>8

\* Where a file's middle lies, in halves of a byte.
Middle(files, i) == 2 * FilesBefore(files, i) + files[i]

\* Later files have later middles, all within the whole.
LEMMA MiddleIs ==
  ASSUME NEW files, Manifest(files), NEW a \in DOMAIN files, NEW b \in DOMAIN files, a <= b
  PROVE  /\ Middle(files, a) \in Nat /\ Middle(files, b) \in Nat
         /\ Middle(files, a) <= Middle(files, b) /\ Middle(files, b) <= 2 * Total(files)
<1>1. files[a] \in Nat /\ files[b] \in Nat /\ a \in Int /\ b \in Int /\ Total(files) \in Nat
  BY BytesAre DEF Manifest, Total
<1>2. /\ FilesBefore(files, a) \in Nat /\ FilesBefore(files, b) \in Nat
      /\ FilesBefore(files, b) + files[b] <= Total(files)
  BY RunBytes
<1>3. CASE a = b
  BY <1>1, <1>2, <1>3 DEF Middle
<1>4. CASE a < b
  <2> DEFINE c == b - 1
  <2>1. c \in DOMAIN files /\ a <= c /\ {a} \in SUBSET (a..c) /\ 1..a \in SUBSET DOMAIN files
    BY <1>4, <1>1, BytesAre
  <2>2. FilesBefore(files, a) + files[a] <= FilesBefore(files, b)
    <3>1. FilesBefore(files, b) = Bytes(files, 1..b - 1)
      BY DEF FilesBefore
    <3>2. Bytes(files, 1..a) = FilesBefore(files, a) + files[a]
      <4>1. (1..a) \ {a} = 1..a - 1 /\ a \in 1..a /\ 1..a - 1 \in SUBSET DOMAIN files
        BY <1>1, <2>1, BytesAre
      <4>2. IsFiniteSet(1..a) /\ \A x \in 1..a : files[x] \in Int
        BY <2>1, BytesAre DEF Manifest
      <4>3. SumOver(files, 1..a) = files[a] + SumOver(files, 1..a - 1)
        BY <4>1, <4>2, TotalRemove
      <4>4. Bytes(files, 1..a) = SumOver(files, 1..a) /\ FilesBefore(files, a) = SumOver(files, 1..a - 1)
        BY SumFunctionIsTotal DEF Bytes, FilesBefore
      <4> QED BY <1>1, <1>2, <4>3, <4>4
    <3>3. Bytes(files, 1..a) <= Bytes(files, 1..b - 1)
      <4>1. 1..a \in SUBSET (1..b - 1) /\ 1..b - 1 \in SUBSET DOMAIN files
        BY <1>1, <1>4, BytesAre
      <4>2. IsFiniteSet(1..b - 1) /\ \A x \in 1..b - 1 : files[x] \in Nat
        BY <4>1, BytesAre DEF Manifest
      <4>3. SumOver(files, 1..a) <= SumOver(files, 1..b - 1)
        BY <4>1, <4>2, TotalPart
      <4> QED BY <4>3, SumFunctionIsTotal DEF Bytes
    <3> QED BY <3>1, <3>2, <3>3
  <2> QED BY <1>1, <1>2, <2>2 DEF Middle
<1> QED BY <1>1, <1>3, <1>4

-----------------------------------------------------------------------------
\* Every file has a chunk, and none is in an earlier one than those before it.
Dealt(files, chunks, place) ==
  /\ \A i \in DOMAIN files : place[i] \in 0..chunks - 1
  /\ \A i, j \in DOMAIN files : i <= j => place[i] <= place[j]

\* By count.
LEMMA CountDeals ==
  ASSUME NEW files, Manifest(files), NEW chunks \in Nat \ {0}
  PROVE  Dealt(files, chunks, [i \in DOMAIN files |-> ByCount(files, chunks, i)])
<1> DEFINE n == Len(files)
           q(i) == ((i - 1) * chunks) \div n
<1>1. n \in Nat \ {0} /\ DOMAIN files = 1..n /\ chunks - 1 \in Nat
  BY BytesAre
<1> HIDE DEF n
<1>2. ASSUME NEW i \in 1..n
      PROVE  q(i) \in Nat /\ ByCount(files, chunks, i) = IF q(i) <= chunks - 1 THEN q(i) ELSE chunks - 1
  <2>1. (i - 1) * chunks \in Nat
    <3>1. i - 1 \in Nat
      BY <1>1
    <3> QED BY <3>1
  <2>2. q(i) \in Nat
    BY <1>1, <2>1, DivBounds
  <2>3. ByCount(files, chunks, i) = Min({q(i), chunks - 1})
    BY DEF ByCount, n
  <2> HIDE DEF q
  <2> QED BY <1>1, <2>2, <2>3, MinOfTwo
<1>3. ASSUME NEW i \in 1..n, NEW j \in 1..n, i <= j PROVE q(i) <= q(j)
  <2>1. PICK d \in Nat : j = i + d
    <3>1. j - i \in Nat
      BY <1>1, <1>3
    <3> QED BY <1>1, <3>1
  <2>2. (j - 1) * chunks = (i - 1) * chunks + d * chunks /\ d * chunks \in Nat /\ (i - 1) * chunks \in Nat
    <3>1. i - 1 \in Nat /\ j - 1 = (i - 1) + d
      BY <1>1, <2>1
    <3> QED BY <3>1, <2>1
  <2>3. (i - 1) * chunks <= (j - 1) * chunks /\ (j - 1) * chunks \in Nat
    BY <2>2
  <2> QED BY <1>1, <2>2, <2>3, DivMonotone
<1> HIDE DEF q
<1> QED BY <1>1, <1>2, <1>3 DEF Dealt

\* By the bytes: where a file's middle lies among the chunks.
Share(files, chunks, i) == (Middle(files, i) * chunks) \div (2 * Total(files))

\* A share is at most that of the whole, and grows with the file.
LEMMA ShareIs ==
  ASSUME NEW files, Manifest(files), Total(files) # 0, NEW chunks \in Nat \ {0},
         NEW a \in DOMAIN files, NEW b \in DOMAIN files, a <= b
  PROVE  /\ Share(files, chunks, a) \in Nat /\ Share(files, chunks, b) \in Nat
         /\ Share(files, chunks, a) <= Share(files, chunks, b)
         /\ Share(files, chunks, a) * (2 * Total(files)) <= Middle(files, a) * chunks
         /\ Middle(files, b) * chunks
              < Share(files, chunks, b) * (2 * Total(files)) + 2 * Total(files)
         /\ Midpoint(files, chunks, a)
              = IF Share(files, chunks, a) <= chunks - 1 THEN Share(files, chunks, a) ELSE chunks - 1
         /\ Midpoint(files, chunks, b)
              = IF Share(files, chunks, b) <= chunks - 1 THEN Share(files, chunks, b) ELSE chunks - 1
<1> DEFINE t == 2 * Total(files)
           x == Middle(files, a)
           y == Middle(files, b)
<1>1. x \in Nat /\ y \in Nat /\ x <= y
  BY MiddleIs
<1>2. t \in Nat /\ t > 0
  <2>1. Total(files) \in Nat
    BY BytesAre DEF Total
  <2> QED BY <2>1
<1>3. /\ Share(files, chunks, a) = (x * chunks) \div t
      /\ Share(files, chunks, b) = (y * chunks) \div t
      /\ Midpoint(files, chunks, a) = Min({(x * chunks) \div t, chunks - 1})
      /\ Midpoint(files, chunks, b) = Min({(y * chunks) \div t, chunks - 1})
  BY DEF Share, Midpoint, Middle
<1> HIDE DEF t, x, y
<1>4. x * chunks \in Nat /\ y * chunks \in Nat /\ x * chunks <= y * chunks
  <2>1. PICK d \in Nat : y = x + d
    <3>1. y - x \in Nat
      BY <1>1
    <3> QED BY <1>1, <3>1
  <2>2. y * chunks = x * chunks + d * chunks /\ d * chunks \in Nat /\ x * chunks \in Nat
    BY <1>1, <2>1
  <2> QED BY <2>2
<1>5. /\ (x * chunks) \div t \in Nat /\ ((x * chunks) \div t) * t <= x * chunks
      /\ (y * chunks) \div t \in Nat /\ y * chunks < ((y * chunks) \div t) * t + t
  BY <1>2, <1>4, DivBounds
<1>6. (x * chunks) \div t <= (y * chunks) \div t
  BY <1>2, <1>4, DivMonotone
<1> DEFINE p == Share(files, chunks, a)
           r == Share(files, chunks, b)
<1>7. p \in Nat /\ r \in Nat /\ p <= r /\ p * t <= x * chunks /\ y * chunks < r * t + t
  BY <1>3, <1>5, <1>6
<1>8. Midpoint(files, chunks, a) = Min({p, chunks - 1}) /\ Midpoint(files, chunks, b) = Min({r, chunks - 1})
  BY <1>3
<1> HIDE DEF p, r
<1>9. /\ Midpoint(files, chunks, a) = IF p <= chunks - 1 THEN p ELSE chunks - 1
      /\ Midpoint(files, chunks, b) = IF r <= chunks - 1 THEN r ELSE chunks - 1
  <2>1. p \in Int /\ r \in Int /\ chunks - 1 \in Int
    BY <1>7
  <2> QED BY <2>1, <1>8, MinOfTwo
<1> QED BY <1>7, <1>9 DEF p, r, t, x, y

\* So the cursor of dataset_chunks never needs to be held back.
LEMMA CursorIsMidpoint ==
  ASSUME NEW files, Manifest(files), Total(files) # 0, NEW chunks \in Nat \ {0}, NEW i \in DOMAIN files
  PROVE  ChunkOf(files, chunks, i) = Midpoint(files, chunks, i)
<1> DEFINE f == [k \in 1..i |-> Midpoint(files, chunks, k)]
           S == {f[k] : k \in 1..i}
<1>1. 1..i \subseteq DOMAIN files /\ i \in 1..i /\ IsFiniteSet(1..i)
  <2>1. i \in Int /\ i >= 1 /\ \A k \in 1..i : k \in DOMAIN files
    BY BytesAre
  <2> QED BY <2>1, FS_Interval
<1>2. ASSUME NEW k \in 1..i
      PROVE  f[k] \in Nat /\ f[k] <= Midpoint(files, chunks, i) /\ Midpoint(files, chunks, i) \in Nat
  <2>1. k \in DOMAIN files /\ k <= i /\ chunks - 1 \in Nat
    BY <1>1
  <2> QED BY <2>1, ShareIs
<1>3. S = {Midpoint(files, chunks, k) : k \in 1..i}
  OBVIOUS
<1>4. f[i] = Midpoint(files, chunks, i)
  BY <1>1
<1> HIDE DEF f
<1>5. IsFiniteSet(S)
  BY <1>1, ImageFinite
<1>6. S # {} /\ S \subseteq Int
  BY <1>1, <1>2
<1>7. Max(S) \in S /\ \A x \in S : x <= Max(S)
  <2> HIDE DEF S
  <2> QED BY <1>5, <1>6, MaxIs
<1>8. Max(S) = Midpoint(files, chunks, i)
  <2>1. f[i] \in S
    BY <1>1
  <2>2. \A x \in S : x \in Nat /\ x <= Midpoint(files, chunks, i)
    BY <1>2
  <2>3. Midpoint(files, chunks, i) <= Max(S) /\ Max(S) <= Midpoint(files, chunks, i) /\ Max(S) \in Nat
        /\ Midpoint(files, chunks, i) \in Nat
    <3> HIDE DEF S
    <3> QED BY <1>1, <1>2, <1>4, <1>7, <2>1, <2>2
  <2> QED BY <2>3
<1> QED BY <1>3, <1>8 DEF ChunkOf

\* By bytes.
LEMMA BytesDeal ==
  ASSUME NEW files, Manifest(files), Total(files) # 0, NEW chunks \in Nat \ {0}
  PROVE  Dealt(files, chunks, [i \in DOMAIN files |-> ChunkOf(files, chunks, i)])
<1>1. ASSUME NEW i \in DOMAIN files, NEW j \in DOMAIN files, i <= j
      PROVE  /\ ChunkOf(files, chunks, i) \in 0..chunks - 1
             /\ ChunkOf(files, chunks, i) <= ChunkOf(files, chunks, j)
  BY <1>1, ShareIs, CursorIsMidpoint
<1>2. ASSUME NEW i \in DOMAIN files PROVE ChunkOf(files, chunks, i) \in 0..chunks - 1
  <2>1. i <= i
    BY BytesAre
  <2> QED BY <1>1, <2>1
<1> QED BY <1>1, <1>2 DEF Dealt

\* However they are dealt, the chunks hold every file, one chunk each and in order.
LEMMA ChunksCover ==
  ASSUME NEW files, Manifest(files), NEW chunks \in Nat \ {0}
  PROVE  CoversOnce(files, DatasetChunks(files, chunks))
<1> DEFINE place == [i \in DOMAIN files |-> ChunkOf(files, chunks, i)]
           groups == DatasetChunks(files, chunks)
<1>1. Dealt(files, chunks, place)
  <2>1. CASE Total(files) = 0
    <3>1. place = [i \in DOMAIN files |-> ByCount(files, chunks, i)]
      BY <2>1 DEF ChunkOf
    <3> QED BY <3>1, CountDeals
  <2>2. CASE Total(files) # 0
    BY <2>2, BytesDeal
  <2> QED BY <2>1, <2>2
<1>2. groups = [c \in 1..chunks |-> {i \in DOMAIN files : place[i] = c - 1}]
  BY DEF DatasetChunks
<1>3. DOMAIN files \subseteq Nat
  BY BytesAre
<1> HIDE DEF place, groups
<1>4. ASSUME NEW i \in DOMAIN files PROVE i \in UNION Range(groups)
  <2>1. place[i] \in 0..chunks - 1
    BY <1>1 DEF Dealt
  <2>2. place[i] + 1 \in 1..chunks /\ place[i] = (place[i] + 1) - 1
    BY <2>1
  <2>3. i \in groups[place[i] + 1] /\ place[i] + 1 \in DOMAIN groups
    BY <1>2, <2>2
  <2> QED BY <2>3 DEF Range
<1>5. ASSUME NEW i \in UNION Range(groups) PROVE i \in DOMAIN files
  BY <1>2, <1>5 DEF Range
<1>6. ASSUME NEW c \in 1..chunks, NEW d \in 1..chunks, c < d,
             NEW i \in groups[c], NEW j \in groups[d]
      PROVE  i < j
  <2>1. i \in DOMAIN files /\ j \in DOMAIN files /\ place[i] = c - 1 /\ place[j] = d - 1
    BY <1>2
  <2>2. i \in Nat /\ j \in Nat /\ place[i] < place[j] /\ place[i] \in Int /\ place[j] \in Int
    BY <1>3, <1>6, <2>1
  <2>3. j <= i => place[j] <= place[i]
    BY <1>1, <2>1 DEF Dealt
  <2> QED BY <2>2, <2>3
<1>7. DOMAIN groups = 1..chunks
  BY <1>2
<1>8. DOMAIN files = UNION Range(groups)
  BY <1>4, <1>5
<1>9. CoversOnce(files, groups)
  BY <1>6, <1>7, <1>8 DEF CoversOnce
<1> QED BY <1>9 DEF groups

\* No chunk is heavier than its share of the bytes and the largest file.
LEMMA ChunksBalance ==
  ASSUME NEW files, Manifest(files), NEW chunks \in Nat \ {0}
  PROVE  Balanced(files, DatasetChunks(files, chunks))
<1> DEFINE groups == DatasetChunks(files, chunks)
           T == Total(files)
           M == Max(Range(files))
<1>1. /\ IsFiniteSet(DOMAIN files) /\ DOMAIN files # {} /\ DOMAIN files \subseteq Int
      /\ \A i \in DOMAIN files : files[i] \in Nat
  <2>1. Len(files) \in Nat \ {0} /\ DOMAIN files = 1..Len(files) /\ 1 \in 1..Len(files)
    BY BytesAre
  <2> QED BY <2>1, BytesAre DEF Manifest
<1>2. groups = [c \in 1..chunks |-> {i \in DOMAIN files : ChunkOf(files, chunks, i) = c - 1}]
  BY DEF DatasetChunks
<1>3. M \in Nat /\ \A i \in DOMAIN files : files[i] <= M
  <2>1. Range(files) = {files[x] : x \in DOMAIN files}
    BY DEF Range
  <2>2. IsFiniteSet(Range(files)) /\ Range(files) # {} /\ Range(files) \subseteq Nat
        /\ \A i \in DOMAIN files : files[i] \in Range(files)
    BY <1>1, <2>1, ImageFinite
  <2>3. Max(Range(files)) \in Range(files) /\ \A x \in Range(files) : x <= Max(Range(files))
    BY <2>2, MaxIs
  <2> QED BY <2>2, <2>3
<1>4. T \in Nat
  BY BytesAre DEF Total
<1>5. Len(groups) = chunks /\ DOMAIN groups = 1..chunks
  BY <1>2
<1> HIDE DEF groups, T, M
<1>6. ASSUME NEW c \in 1..chunks
      PROVE  chunks * Bytes(files, groups[c]) <= T + chunks * M
  <2> DEFINE g == groups[c]
             s == Bytes(files, g)
  <2>1. g = {i \in DOMAIN files : ChunkOf(files, chunks, i) = c - 1}
    BY <1>2
  <2>2. IsFiniteSet(g) /\ s \in Nat /\ s <= T
    BY <2>1, BytesAre DEF T
  <2>3. chunks * M \in Nat /\ chunks * 0 = 0
    BY <1>3
  <2> HIDE DEF g, s
  <2>4. CASE T = 0
    <3>1. s = 0
      BY <2>2, <2>4
    <3> QED BY <1>4, <2>3, <3>1 DEF g, s
  <2>5. CASE g = {}
    <3>1. s = 0
      BY <2>5, SumFunctionIsTotal, TotalEmpty DEF s, Bytes
    <3> QED BY <1>4, <2>3, <3>1 DEF g, s
  <2>6. CASE T # 0 /\ g # {}
    <3> DEFINE a == Min(g)
               b == Max(g)
    <3>1. /\ a \in g /\ b \in g /\ a \in DOMAIN files /\ b \in DOMAIN files
          /\ a \in Int /\ b \in Int /\ a <= b /\ \A x \in g : a <= x /\ x <= b /\ x \in Int
      <4>1. g \subseteq Int /\ g \subseteq DOMAIN files
        BY <1>1, <2>1
      <4>2. a \in g /\ b \in g /\ \A x \in g : a <= x /\ x <= b
        BY <4>1, <2>2, <2>6, MinIs, MaxIs
      <4> QED BY <4>1, <4>2
    <3> HIDE DEF a, b
    <3> DEFINE x == Middle(files, a)
               y == Middle(files, b)
               p == Share(files, chunks, a)
               r == Share(files, chunks, b)
               A == FilesBefore(files, a)
               B == FilesBefore(files, b)
    <3>2. /\ x \in Nat /\ y \in Nat /\ x <= y /\ y <= 2 * T
          /\ p \in Nat /\ r \in Nat /\ p * (2 * T) <= x * chunks /\ y * chunks < r * (2 * T) + 2 * T
      BY <2>6, <3>1, MiddleIs, ShareIs DEF T
    <3>3. p >= c - 1 /\ (r = c - 1 \/ c = chunks)
      <4>1. Midpoint(files, chunks, a) = c - 1 /\ Midpoint(files, chunks, b) = c - 1
        BY <2>1, <2>6, <3>1, CursorIsMidpoint DEF T
      <4>2. /\ c - 1 = IF p <= chunks - 1 THEN p ELSE chunks - 1
            /\ c - 1 = IF r <= chunks - 1 THEN r ELSE chunks - 1
        BY <2>6, <3>1, <4>1, ShareIs DEF T
      <4> HIDE DEF p, r
      <4> QED BY <3>2, <4>2
    <3>4. A \in Nat /\ B \in Nat /\ A + s <= B + files[b] /\ x = 2 * A + files[a] /\ y = 2 * B + files[b]
      <4>1. g \in SUBSET (a..b)
        BY <3>1
      <4> QED BY <3>1, <4>1, RunBytes DEF s, Middle
    <3>5. files[a] \in Nat /\ files[b] \in Nat /\ files[a] <= M /\ files[b] <= M
      BY <1>1, <1>3, <3>1
    <3> HIDE DEF x, y, p, r, A, B
    <3>6. (c - 1) * (2 * T) <= x * chunks
      <4>1. PICK d \in Nat : p = (c - 1) + d
        <5>1. p - (c - 1) \in Nat
          BY <3>2, <3>3
        <5> QED BY <3>2, <5>1
      <4>2. p * (2 * T) = (c - 1) * (2 * T) + d * (2 * T) /\ d * (2 * T) \in Nat
        BY <1>4, <4>1
      <4>3. (c - 1) * (2 * T) \in Int /\ x * chunks \in Int
        BY <1>4, <3>2
      <4> QED BY <3>2, <4>2, <4>3
    <3>7. y * chunks <= (c - 1) * (2 * T) + 2 * T
      <4>1. CASE r = c - 1
        <5>1. y * chunks \in Int /\ (c - 1) * (2 * T) \in Int
          BY <1>4, <3>2
        <5> QED BY <1>4, <3>2, <4>1, <5>1
      <4>2. CASE c = chunks
        <5>1. PICK d \in Nat : 2 * T = y + d
          <6>1. 2 * T - y \in Nat /\ 2 * T = y + (2 * T - y)
            BY <1>4, <3>2
          <6> QED BY <6>1
        <5>2. (y + d) * chunks = y * chunks + d * chunks /\ d * chunks \in Nat /\ y * chunks \in Nat
          BY <3>2, <5>1
        <5>3. (c - 1) * (2 * T) + 2 * T = c * (2 * T) /\ c * (2 * T) = (2 * T) * c
          BY <1>4
        <5>4. (2 * T) * chunks = (y + d) * chunks
          BY <5>1
        <5> QED BY <4>2, <5>2, <5>3, <5>4
      <4> QED BY <3>3, <4>1, <4>2
    <3>8. y * chunks <= x * chunks + 2 * T
      <4>1. y * chunks \in Int /\ x * chunks \in Int /\ (c - 1) * (2 * T) \in Int
        BY <1>4, <3>2
      <4> QED BY <1>4, <3>6, <3>7, <4>1
    <3>9. chunks * s <= T + chunks * M
      <4>1. PICK e \in Nat : 2 * s + x + e = y + (2 * M)
        <5>1. 2 * s + x <= y + 2 * M
          BY <1>3, <2>2, <3>2, <3>4, <3>5
        <5>2. y + 2 * M - (2 * s + x) \in Nat
          BY <1>3, <2>2, <3>2, <5>1
        <5> QED BY <1>3, <2>2, <3>2, <5>2
      <4>2. chunks * (2 * s + x + e) = 2 * (chunks * s) + x * chunks + chunks * e
        BY <2>2, <3>2, <4>1
      <4>3. chunks * (y + 2 * M) = y * chunks + 2 * (chunks * M)
        BY <1>3, <3>2
      <4>4. chunks * s \in Nat /\ chunks * e \in Nat /\ x * chunks \in Nat /\ y * chunks \in Nat
        BY <2>2, <3>2, <4>1
      <4>5. 2 * (chunks * s) + x * chunks + chunks * e = y * chunks + 2 * (chunks * M)
        BY <4>1, <4>2, <4>3
      <4> QED BY <1>4, <2>3, <3>8, <4>4, <4>5
    <3> QED BY <3>9 DEF g, s
  <2> QED BY <2>4, <2>5, <2>6
<1>7. Balanced(files, groups)
  BY <1>5, <1>6 DEF Balanced, T, M
<1> QED BY <1>7 DEF groups

-----------------------------------------------------------------------------
\* A submission under way, and those of its places at which it has no tasks yet.
Submissions == [at : {"idle"} \cup Checking \cup Compiling \cup Staged, federated : BOOLEAN,
                venue : SubVenue, origin : {"none", "hf", "bucket", "manifest"}, page : Nat,
                files : Seq(Nat), tasks : Seq(SUBSET Nat)]
Uncut == {"idle", "parsed", "list", "listed", "resolved"} \cup Checking

\* The inductive invariant: it is cut once, from the files it has since then.
WholeInv ==
  /\ sub \in Submissions
  /\ sub.at \in Uncut => sub.tasks = <<>>
  /\ WholeJob

\* A step that cuts nothing anew.
LEMMA SameCut ==
  ASSUME WholeInv, sub' \in Submissions,
         \/ sub'.files = sub.files /\ sub.at \notin Uncut
         \/ sub.at \in Uncut,
         sub'.tasks = sub.tasks,
         sub.at \notin Uncut => sub'.at \notin Uncut
  PROVE  WholeInv'
<1>1. CASE sub.at \in Uncut
  BY <1>1 DEF WholeInv, WholeJob
<1>2. CASE sub'.files = sub.files /\ sub.at \notin Uncut
  BY <1>2 DEF WholeInv, WholeJob
<1> QED BY <1>1, <1>2

\* One that refuses it.
LEMMA NothingIsCut ==
  ASSUME sub' = NoSub
  PROVE  WholeInv'
  BY DEF NoSub, WholeInv, WholeJob, Submissions, Uncut, Checking, Compiling, Staged, SubVenue, DefaultVenue

\* It goes to a later place.
LEMMA GoesUncut ==
  ASSUME WholeInv, NEW place \in Checking \cup Compiling \cup Staged, SubGoto(place),
         sub.at \notin Uncut => place \notin Uncut
  PROVE  WholeInv'
<1>1. /\ sub' \in Submissions /\ sub'.files = sub.files /\ sub'.tasks = sub.tasks /\ sub'.at = place
  BY DEF SubGoto, WholeInv, Submissions
<1> QED BY <1>1, SameCut

\* The files a listing or a selection gives.
LEMMA ListedAre ==
  ASSUME SubmissionAssumption, NEW n \in Int, NEW s \in BoundedSeq(Sizes, n)
  PROVE  s \in Seq(Nat)
<1>1. \E m \in 0..n : s \in [1..m -> Sizes]
  BY DEF BoundedSeq, SeqOf
<1>2. \A m \in Int : \A f : f \in [1..m -> Sizes] => f \in [1..m -> Nat]
  BY DEF SubmissionAssumption
<1>3. \E m \in Nat : s \in [1..m -> Nat]
  BY <1>1, <1>2
<1> QED BY <1>3

\* A list of chunks is as long as asked, and is none for none.
LEMMA CutIs ==
  ASSUME NEW files, Manifest(files), NEW chunks \in Nat, NEW split
  PROVE  /\ Slices(files, chunks, split) \in Seq(SUBSET Nat)
         /\ LET cut == Slices(files, chunks, split)
            IN cut # <<>> => \/ cut = WholeEach(files, Len(cut))
                             \/ CoversOnce(files, cut) /\ Balanced(files, cut)
<1>1. DOMAIN files \subseteq Nat
  BY BytesAre
<1>2. CASE split = "replica"
  <2> DEFINE cut == WholeEach(files, chunks)
  <2>1. Slices(files, chunks, split) = cut
    BY <1>2 DEF Slices
  <2>2. cut = [c \in 1..chunks |-> DOMAIN files]
    BY DEF WholeEach
  <2>3. cut \in Seq(SUBSET Nat) /\ Len(cut) = chunks
    BY <1>1, <2>2
  <2> QED BY <2>1, <2>3
<1>3. CASE split # "replica"
  <2> DEFINE groups == DatasetChunks(files, chunks)
             cut == Slices(files, chunks, split)
  <2>1. cut = [c \in 1..chunks |-> groups[((c - 1 + ChunkOffset(0, chunks)) % chunks) + 1]]
    BY <1>3 DEF Slices
  <2>2. DOMAIN groups = 1..chunks /\ groups = [c \in 1..chunks |-> groups[c]]
    BY DEF DatasetChunks
  <2>3. ASSUME NEW c \in 1..chunks PROVE ((c - 1 + ChunkOffset(0, chunks)) % chunks) + 1 = c
    <3>1. chunks > 0 /\ c - 1 \in Nat /\ c - 1 < chunks
      BY <2>3
    <3>2. CoverageTarget(chunks) \in Int
      <4>1. IsFiniteSet({1, chunks}) /\ {1, chunks} # {} /\ {1, chunks} \subseteq Int
        <5>1. IsFiniteSet({1}) /\ {1, chunks} = {1} \cup {chunks}
          BY FS_Singleton
        <5> QED BY <5>1, FS_AddElement
      <4> QED BY <4>1, MaxIs DEF CoverageTarget
    <3>3. 0 * CoverageTarget(chunks) = 0
      BY <3>2
    <3>4. ChunkOffset(0, chunks) = 0
      BY <3>1, <3>3 DEF ChunkOffset
    <3>5. (c - 1) % chunks = c - 1
      BY <3>1
    <3> QED BY <3>1, <3>4, <3>5
  <2>4. cut = groups
    BY <2>1, <2>2, <2>3
  <2>5. ASSUME NEW c \in 1..chunks PROVE groups[c] \in SUBSET Nat
    BY <1>1, <2>5 DEF DatasetChunks
  <2>6. groups \in Seq(SUBSET Nat) /\ Len(groups) = chunks
    <3> HIDE DEF groups
    <3> QED BY <2>2, <2>5
  <2>7. CASE chunks # 0
    <3>1. CoversOnce(files, groups) /\ Balanced(files, groups)
      BY <2>7, ChunksCover, ChunksBalance
    <3> HIDE DEF cut, groups
    <3> QED BY <2>4, <2>6, <3>1 DEF cut
  <2>8. CASE chunks = 0
    <3>1. groups = <<>>
      <4> HIDE DEF groups
      <4> QED BY <2>6, <2>8
    <3> HIDE DEF cut, groups
    <3> QED BY <2>4, <2>6, <3>1 DEF cut
  <2> QED BY <2>7, <2>8
<1> QED BY <1>2, <1>3

\* The slots of a round, and the points of a sweep.
LEMMA SlotsAre ==
  ASSUME SubmissionAssumption, NEW n \in Nat
  PROVE  FleetSlots(n) \in Nat /\ Max({1, n}) \in Nat
<1>1. Max({1, n}) \in Nat
  <2>1. IsFiniteSet({1}) /\ {1, n} = {1} \cup {n}
    BY FS_Singleton
  <2>2. IsFiniteSet({1, n}) /\ {1, n} # {} /\ {1, n} \subseteq Int
    BY <2>1, FS_AddElement
  <2> QED BY <2>2, MaxIs
<1>2. MaxSlots \in Nat
  BY DEF SubmissionAssumption
<1> QED BY <1>1, <1>2, MinOfTwo DEF FleetSlots

\* Compiling cuts the files it has.
LEMMA CompileCuts ==
  ASSUME SubmissionAssumption, WholeInv, NEW n \in Nat, NEW split,
         CompileToJobspec(n, split) \/ CompileFederatedRound(n, split)
  PROVE  WholeInv'
<1> DEFINE chunks == IF sub.federated THEN FleetSlots(n) ELSE Max({1, n})
           tasks == IF sub.files = <<>> THEN [c \in 1..chunks |-> {}]
                    ELSE Slices(sub.files, chunks, split)
<1>1. chunks \in Nat /\ sub \in Submissions /\ sub.files \in Seq(Nat)
  BY SlotsAre DEF WholeInv, Submissions
<1>2. /\ sub.at = "resolved"
      /\ sub' = [sub EXCEPT !.at = "compiled", !.origin = "none", !.page = 0, !.tasks = tasks]
  BY DEF Compile, CompileToJobspec, CompileFederatedRound
<1> HIDE DEF chunks
<1>3. /\ tasks \in Seq(SUBSET Nat)
      /\ sub.files # <<>> /\ tasks # <<>> =>
           \/ tasks = WholeEach(sub.files, Len(tasks))
           \/ CoversOnce(sub.files, tasks) /\ Balanced(sub.files, tasks)
  <2>1. CASE sub.files = <<>>
    BY <1>1, <2>1
  <2>2. CASE sub.files # <<>>
    <3>1. Manifest(sub.files)
      BY <1>1, <2>2 DEF Manifest
    <3> QED BY <1>1, <2>2, <3>1, CutIs
  <2> QED BY <2>1, <2>2
<1> HIDE DEF tasks
<1>4. /\ sub' \in Submissions /\ sub'.at = "compiled" /\ sub'.files = sub.files /\ sub'.tasks = tasks
  BY <1>1, <1>2, <1>3 DEF Submissions, Compiling
<1> QED BY <1>3, <1>4 DEF WholeInv, WholeJob, Uncut, Checking

\* A page adds to the files.
LEMMA PageLists ==
  ASSUME WholeInv, NEW more, NEW files \in Seq(Nat), sub.at = "list", ListPage(files, more)
  PROVE  WholeInv'
<1>1. CASE sub' = NoSub
  BY <1>1, NothingIsCut
<1>2. CASE sub' = [sub EXCEPT !.at = IF more THEN "list" ELSE "listed",
                              !.files = @ \o files, !.page = @ + 1]
  <2>1. sub \in Submissions /\ sub.files \o files \in Seq(Nat) /\ sub.page + 1 \in Nat
    BY DEF WholeInv, Submissions
  <2>2. sub' \in Submissions /\ sub'.tasks = sub.tasks
    BY <1>2, <2>1 DEF Submissions, Compiling
  <2> QED BY <2>2, SameCut DEF Uncut
<1> QED BY <1>1, <1>2 DEF ListPage

\* What is kept of them are some of the files.
LEMMA KeptAre ==
  ASSUME WholeInv, NEW kept, BuildManifest(kept)
  PROVE  WholeInv'
<1>1. PICK sorted \in [1..Cardinality(kept) -> kept] :
        sub' = [sub EXCEPT !.at = "resolved",
                           !.files = [i \in DOMAIN sorted |-> sub.files[sorted[i]]]]
  BY DEF BuildManifest, Bijection, Injection
<1>2. /\ sub.at = "listed" /\ kept \subseteq DOMAIN sub.files /\ Cardinality(kept) \in Int
      /\ Cardinality(kept) >= 1
      /\ sub \in Submissions /\ sub.files \in Seq(Nat)
  BY DEF BuildManifest, WholeInv, Submissions
<1> DEFINE files == [i \in DOMAIN sorted |-> sub.files[sorted[i]]]
           n == Cardinality(kept)
<1>3. n \in Nat /\ files \in [1..n -> Nat]
  BY <1>2
<1>4. files \in Seq(Nat)
  <2> HIDE DEF files, n
  <2> QED BY <1>3
<1> HIDE DEF files
<1>5. sub' \in Submissions /\ sub'.tasks = sub.tasks
  BY <1>1, <1>2, <1>4 DEF Submissions, Compiling, files
<1> QED BY <1>2, <1>5, SameCut DEF Uncut

\* Every step keeps it.
LEMMA WholeStep ==
  ASSUME SubmissionAssumption, WholeInv, [SubNext]_subVars
  PROVE  WholeInv'
<1>1. CASE UNCHANGED subVars
  BY <1>1 DEF subVars, WholeInv, WholeJob
<1>2. sub \in Submissions
  BY DEF WholeInv
<1>3. CASE SubRefused
  BY <1>3, NothingIsCut DEF SubRefused
<1>4. CASE FetchRepo \/ NoDataset \/ (\E errors \in 0..1 : Preflight(errors)) \/ InsertSubmission
           \/ StartDriver \/ RouteSubmission
           \/ \E best \in {0, Max(Sizes), MaxFiles * Max(Sizes)} : AdmitDatasets(best)
  <2>1. \E place \in Checking \cup Compiling \cup Staged :
          SubGoto(place) /\ (sub.at \notin Uncut => place \notin Uncut)
    BY <1>4 DEF FetchRepo, NoDataset, Preflight, InsertSubmission, StartDriver, RouteSubmission,
       AdmitDatasets, Uncut, Checking, Compiling, Staged
  <2> QED BY <2>1, GoesUncut
<1>5. CASE \/ \E v \in SubVenue : FromRepo(v)
           \/ \E v \in SubVenue : \E w \in BOOLEAN : \E f \in {"unsaid", "true", "false"} : FromUpload(v, w, f)
  <2>1. PICK v \in SubVenue, place \in {"fetch", "tree"} :
          sub.at = "edge" /\ sub' = [sub EXCEPT !.at = place, !.venue = v]
    BY <1>5 DEF FromRepo, FromUpload
  <2>2. sub' \in Submissions /\ sub'.tasks = sub.tasks
    BY <1>2, <2>1 DEF Submissions, Checking
  <2> QED BY <2>1, <2>2, SameCut DEF Uncut, Checking
<1>6. ASSUME NEW config, ParseTree(config) PROVE WholeInv'
  <2>1. PICK b \in BOOLEAN :
          sub.at = "tree" /\ sub' = [sub EXCEPT !.at = "preflight", !.federated = b]
    BY <1>6 DEF ParseTree
  <2>2. sub' \in Submissions /\ sub'.tasks = sub.tasks
    BY <1>2, <2>1 DEF Submissions, Checking
  <2> QED BY <2>1, <2>2, SameCut DEF Uncut, Checking
<1>7. ASSUME NEW heard, StageCode(heard) \/ PostSubmission(heard) PROVE WholeInv'
  <2>1. CASE sub' = NoSub
    BY <2>1, NothingIsCut
  <2>2. CASE sub' # NoSub
    <3>1. \E place \in Staged : SubGoto(place) /\ place \notin Uncut
      BY <1>7, <2>2 DEF StageCode, PostSubmission, Staged, Uncut, Checking
    <3> QED BY <3>1, GoesUncut
  <2> QED BY <2>1, <2>2
<1>8. ASSUME NEW origin \in {"hf", "bucket", "manifest"}, DeclareDataset(origin) PROVE WholeInv'
  <2>1. sub.at = "parsed" /\ sub' = [sub EXCEPT !.at = "list", !.origin = origin]
    BY <1>8 DEF DeclareDataset
  <2>2. sub' \in Submissions /\ sub'.tasks = sub.tasks
    BY <1>2, <1>8, <2>1 DEF Submissions, Compiling
  <2> QED BY <2>1, <2>2, SameCut DEF Uncut
<1>9. ASSUME NEW files \in BoundedSeq(Sizes, MaxFiles - 1), NEW more,
             \/ ListHf(files, more) \/ ReadManifestUrl(files)
             \/ \E token : ListBucket(files, more, token)
      PROVE  WholeInv'
  <2>1. sub.at = "list" /\ \E again : ListPage(files, again)
    BY <1>9 DEF ListHf, ReadManifestUrl, ListBucket, Listing
  <2>2. MaxFiles - 1 \in Int
    BY DEF SubmissionAssumption
  <2> QED BY <2>1, <2>2, ListedAre, PageLists
<1>10. ASSUME NEW kept, BuildManifest(kept) PROVE WholeInv'
  BY <1>10, KeptAre
<1>11. ASSUME NEW n \in 0..MaxSlots + 1, NEW split,
              CompileToJobspec(n, split) \/ CompileFederatedRound(n, split)
       PROVE  WholeInv'
  BY <1>11, CompileCuts DEF SubmissionAssumption
<1> QED BY <1>1, <1>3, <1>4, <1>5, <1>6, <1>7, <1>8, <1>9, <1>10, <1>11 DEF SubNext

\* At the first it has neither files nor tasks.
LEMMA WholeInit == SubInit => WholeInv
<1>1. NoSub \in Submissions
  BY DEF NoSub, Submissions, SubVenue, DefaultVenue
<1>2. ASSUME SubInit PROVE sub \in Submissions /\ sub.tasks = <<>>
  BY <1>1, <1>2 DEF SubInit, NoSub, Submissions, Checking
<1> QED BY <1>2 DEF WholeInv, WholeJob

\* A submission is cut from the files it has: a replica gives every task all of them,
\* and a shard every file to one task, in order and in balanced shares.
THEOREM TasksAreWhole == SubSpec => []WholeJob
<1>1. WholeInv => WholeJob
  BY DEF WholeInv
<1> QED BY <1>1, WholeInit, WholeStep, SubmissionAssumption, PTL DEF SubSpec

\* Whatever failed on the way, a job that runs finds its code, and its tasks hold the
\* data it was submitted for, for files of any sizes and any number of tasks.
THEOREM JobsAreWhole == SubSpec => []PostedJobIsWhole
<1>1. WholeJob /\ JobFindsItsCode => PostedJobIsWhole
  BY DEF PostedJobIsWhole
<1> QED BY <1>1, TasksAreWhole, CodeIsThere, PTL

-----------------------------------------------------------------------------
\* What was staged, posted, recorded and started is of known venues.
SubFits ==
  /\ staged \subseteq SubVenue /\ posted \in SubVenue \cup {"nowhere"}
  /\ rowVenue \in SubVenue \cup {"none"} /\ started \in BOOLEAN

\* The types of a submission and of what it leaves.
THEOREM SubTyped == SubSpec => []SubTypeOK
<1>1. SubInit => SubFits
      BY DEF SubInit, SubFits
<1>2. SubInv /\ SubFits /\ [SubNext]_subVars => SubFits'
  <2> SUFFICES ASSUME SubInv, SubFits, [SubNext]_subVars PROVE SubFits'
      OBVIOUS
  <2>1. sub.venue \in SubVenue
        BY DEF SubInv, SubAsks
  <2>2. CASE UNCHANGED <<staged, posted, rowVenue, started>>
        BY <2>2 DEF SubFits
  <2>3. ASSUME NEW heard, StageCode(heard) \/ PostSubmission(heard) PROVE SubFits'
        BY <2>1, <2>3 DEF StageCode, PostSubmission, SubFits
  <2>4. CASE InsertSubmission \/ StartDriver
        BY <2>1, <2>4 DEF InsertSubmission, StartDriver, SubFits
  <2> QED BY <2>2, <2>3, <2>4
      DEF SubNext, subVars, SubRefused, FetchRepo, FromRepo, FromUpload, ParseTree, Preflight,
          NoDataset, DeclareDataset, ListHf, ListBucket, ReadManifestUrl, Listing, BuildManifest,
          Compile, CompileToJobspec, CompileFederatedRound, AdmitDatasets, RouteSubmission
<1>3. SubInv /\ SubFits => SubTypeOK
      BY DEF SubInv, SubAsks, SubFits, SubTypeOK
<1> QED BY <1>1, <1>2, <1>3, SubInitInv, SubStepInv, PTL DEF SubSpec
=============================================================================
