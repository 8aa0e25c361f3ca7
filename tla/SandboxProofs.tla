---------------------------- MODULE SandboxProofs ----------------------------
(***************************************************************************)
(* SandboxSession for any number of requests, failed calls, deaths and     *)
(* evaluation jobs: its types; HIBERNATED is never written over a sandbox  *)
(* that runs; a session asks for one evaluation; a TERMINATED row leaves   *)
(* neither a sandbox nor a token behind; and the row keeps SessionBook.    *)
(***************************************************************************)
EXTENDS SandboxSession, TLAPS

\* Where each actor can be.

StartEarly   == StartUnrecorded \cup {"bootstrap", "prepared"}
CleanPlaces  == {"fail", "mark", "cleanup", "kill", "settle_kill", "revoke", "close",
                 "terminate"}
StartPlaces  == StartEarly \cup CleanPlaces
                \cup {"pause", "settle_pause", "hibernate", "done"}
SweepPlaces  == CleanPlaces \cup {"idle", "inspect", "catchup"}
DrivePlaces  == {"connect", "settle_connect", "verify", "resumed", "deliver", "lookup",
                 "list", "post", "note", "evaluate"}
BeforePlaces == CleanPlaces \cup {"idle", "head", "claim"}
RequestPlaces == BeforePlaces \cup DrivePlaces \cup {"await", "join", "accept"}

PlacesInv ==
  /\ pc["start"] \in StartPlaces /\ pc["sweep"] \in SweepPlaces
  /\ \A q \in Request : pc[q] \in RequestPlaces

\* The row has not yet been claimed for the evaluation.
Before == \/ row.state \in {"none", "REQUESTED", "PREPARED", "HIBERNATED"}
          \/ row.state = "ACTIVE" /\ ~row.marker

\* Where start_session is tells what the row can hold, and which calls of its
\* own can still be out.
StartInv ==
  /\ pc["start"] \in StartUnrecorded => ~row.sandbox
  /\ pc["start"] \in StartEarly => ~row.marker /\ "create" \notin late
  /\ row.sandbox => "create" \notin late
  /\ row.state \in {"ACTIVE", "PREPARED", "HIBERNATED", "RESUMING"} => row.sandbox
  /\ row.state \in {"PREPARED", "HIBERNATED", "RESUMING"} => row.marker

\* Until the claim nobody wakes the sandbox, now or late.
BeforeInv ==
  Before => "connect" \notin late /\ \A q \in Request : pc[q] \in BeforePlaces

\* Who is about to write HIBERNATED has seen the sandbox paused.
AsleepInv ==
  /\ row.state = "HIBERNATED" => box # "RUNNING"
  /\ row.state = "PREPARED" /\ pc["start"] = "hibernate" => box # "RUNNING"
  /\ row.state = "PREPARED" /\ pc["sweep"] = "catchup" => box # "RUNNING"

\* The reconciler catches up a row that once was PREPARED.
SweepInv ==
  /\ pc["sweep"] = "catchup" => row.marker
  /\ pc["sweep"] = "inspect" /\ loc["sweep"].seen = "PREPARED" => row.marker


\* One controller drives, and posts only what the coordinator does not have.
OneDriver ==
  ~blind => /\ \A c, d \in Request : Driving(c) /\ Driving(d) => c = d
            /\ \A c \in Request : pc[c] = "post" => jobs = 0
            /\ jobs <= 1

\* Nobody else is at work on a session before it is recorded or given up, but for
\* a cleanup that remembers that it was too early.
CleanersAfterStart ==
  \A a \in Actor \ {"start"} :
    pc[a] \notin {"idle", "cleanup"} =>
      \/ pc["start"] \notin StartUnrecorded
      \/ pc[a] \in {"revoke", "close", "terminate"} /\ loc[a].early
\* Who takes the sandbox for destroyed is right, and stays right.
GoneInv ==
  /\ \A a \in Actor : pc[a] \in {"kill", "settle_kill"} => ~loc[a].killed
  /\ \A a \in Actor : pc[a] = "revoke" /\ loc[a].killed /\ ~loc[a].early => SandboxGone
  /\ \A a \in Actor : pc[a] \in {"close", "terminate"} /\ ~loc[a].early => SandboxGone
  /\ row.state = "TERMINATED" /\ ~early => SandboxGone
\* Who has revoked, had nothing to revoke or did not find it leaves no token that
\* works, but for what the history says.
RevokedInv ==
  /\ \A a \in Actor : /\ pc[a] \in {"kill", "settle_kill", "revoke"}
                       /\ ~loc[a].machine /\ ~loc[a].early => TokenRevoked
  /\ \A a \in Actor : pc[a] \in {"close", "terminate"} /\ ~loc[a].early => TokenRevoked
  /\ row.state = "TERMINATED" /\ ~early => TokenRevoked /\ pc["start"] \notin StartUnrecorded
SettledInv == CleanersAfterStart /\ GoneInv /\ RevokedInv

-----------------------------------------------------------------------------
Places == StartPlaces \cup SweepPlaces \cup RequestPlaces

\* The places named in the component are those of the actors.
LEMMA PlaceOfIs == PlaceOf = Places
  BY DEF PlaceOf, Places, Target, Settle, StartPlaces, StartEarly, StartUnrecorded,
         SweepPlaces,
         RequestPlaces, BeforePlaces, CleanPlaces, DrivePlaces

\* What each gateway call does, entry by entry.
LEMMA CallTable ==
  /\ DOMAIN Target = {"pause", "connect", "kill"}
  /\ Target["pause"] = "PAUSED" /\ Target["connect"] = "RUNNING" /\ Target["kill"] = "TERMINATED"
  /\ Success["pause"] = "hibernate" /\ Success["connect"] = "verify" /\ Success["kill"] = "revoke"
  /\ Giveup["pause"] = "fail" /\ Giveup["connect"] = "fail" /\ Giveup["kill"] = "revoke"
  /\ Settle["pause"] = "settle_pause" /\ Settle["connect"] = "settle_connect"
  /\ Settle["kill"] = "settle_kill"
  BY DEF Target, Success, Giveup, Settle


PcInv == pc \in [Actor -> Places] /\ PlacesInv

\* An actor that goes to a place of its own kind.
LEMMA PcGoto ==
  ASSUME PcInv, NEW a \in Actor, NEW w, Goto(a, w),
         a = "start" => w \in StartPlaces, a = "sweep" => w \in SweepPlaces,
         a \in Request => w \in RequestPlaces
  PROVE  PcInv' /\ pc'[a] = w /\ \A b \in Actor : b # a => pc'[b] = pc[b]
  BY SandboxAssumption DEF PcInv, PlacesInv, Goto, Actor, Places

\* An actor that returns.
LEMMA PcReturn ==
  ASSUME PcInv, NEW a \in Actor, Return(a)
  PROVE  /\ PcInv' /\ pc'[a] = IF a = "start" THEN "done" ELSE "idle"
         /\ \A b \in Actor : b # a => pc'[b] = pc[b]
<1>1. a \in Request => a # "start"
   BY SandboxAssumption
<1>2. "done" \in StartPlaces /\ "idle" \in SweepPlaces /\ "idle" \in RequestPlaces
  BY DEF StartPlaces, SweepPlaces, RequestPlaces, BeforePlaces
<1>3. CASE a = "start"
  BY <1>3, <1>1, <1>2, PcGoto DEF Return
<1>4. CASE a # "start"
  BY <1>4, <1>1, <1>2, PcGoto DEF Return
<1> QED BY <1>3, <1>4

\* start_session goes only where it can be.
LEMMA PcStart == ASSUME PcInv, StartNext PROVE PcInv'
<1>1. "start" \in Actor /\ "start" \notin Request BY SandboxAssumption DEF Actor
<1>2. \E w \in StartPlaces : Goto("start", w)
  <2> DEFINE To(w) == Goto("start", w)
  <2>1. \/ To("mint") \/ To("create") \/ To("record") \/ To("fail") \/ To("bootstrap")
        \/ To("prepared") \/ To("pause") \/ To("done")
    BY DEF StartNext, CreateSession, Mint, Create, Record, Bootstrap, Prepared, Hibernate,
           Return
  <2>2. \A w \in {"mint", "create", "record", "fail", "bootstrap", "prepared", "pause", "done"} : w \in StartPlaces
    BY DEF StartPlaces, StartEarly, StartUnrecorded, CleanPlaces
  <2> QED BY <2>1, <2>2
<1> QED BY <1>1, <1>2, PcGoto

\* A cleanup can be anybody's.
LEMMA PcClean == ASSUME PcInv, NEW a \in Actor, CleanupNext(a) PROVE PcInv'
<1>1. \E w \in CleanPlaces : Goto(a, w) \/ Return(a)
  BY DEF CleanupNext, Fail, MarkFailed, Cleanup, CleanupOver, Revoke, Close, Terminate, CleanPlaces
<1>2. \A w \in CleanPlaces : w \in StartPlaces /\ w \in SweepPlaces /\ w \in RequestPlaces
  BY DEF StartPlaces, SweepPlaces, RequestPlaces, BeforePlaces
<1> QED BY <1>1, <1>2, PcGoto, PcReturn

\* Only start_session pauses, and only a request connects.
LEMMA PcGateway == ASSUME PcInv, NEW a \in Actor, GatewayNext(a) PROVE PcInv'
<1>1. PICK op \in {"pause", "connect", "kill"} : \/ CallApplies(a, op) \/ CallFindsNothing(a, op) \/ CallRefused(a, op)
    \/ CallAbandoned(a, op) \/ SettleAfter(a, op)
   BY CallTable DEF GatewayNext
<1>2. pc[a] \in {op, Settle[op]}
   BY <1>1 DEF CallApplies, CallFindsNothing, CallRefused, CallAbandoned, SettleAfter
<1>3. \E w \in {op, Settle[op], Giveup[op], Success[op]} : Goto(a, w)
   BY <1>1
      DEF CallApplies, CallFindsNothing, CallRefused, CallAbandoned, SettleAfter, Through,
          Again
<1>4. PICK w \in {op, Settle[op], Giveup[op], Success[op]} : Goto(a, w)
   BY <1>3
<1>5. CASE op = "kill"
  BY <1>5, <1>4, CallTable, PcGoto
     DEF StartPlaces, SweepPlaces, RequestPlaces, BeforePlaces, CleanPlaces
<1>6. CASE op = "pause"
  <2>1. a = "start" BY <1>2, <1>6, CallTable, SandboxAssumption
                       DEF PcInv, PlacesInv, Actor, SweepPlaces, RequestPlaces,
                           BeforePlaces, CleanPlaces, DrivePlaces
  <2> QED BY <2>1, <1>6, <1>4, CallTable, PcGoto, SandboxAssumption
             DEF StartPlaces, CleanPlaces
<1>7. CASE op = "connect"
  <2>1. a \in Request /\ a # "start" /\ a # "sweep" BY <1>2, <1>7, CallTable,
                                                       SandboxAssumption DEF PcInv,
                                                                             PlacesInv,
                                                                             Actor,
                                                                             StartPlaces,
                                                                             StartEarly,
                                                                             StartUnrecorded, SweepPlaces, CleanPlaces
  <2> QED BY <2>1, <1>7, <1>4, CallTable, PcGoto
             DEF RequestPlaces, BeforePlaces, DrivePlaces, CleanPlaces
<1> QED BY <1>5, <1>6, <1>7

\* on_model_ready is a request's.
LEMMA PcController == ASSUME PcInv, NEW c \in Request, ControllerNext(c) PROVE PcInv'
<1>1. \E w \in RequestPlaces \ {"idle"} : Goto(c, w) \/ Return(c)
  <2> DEFINE To(w) == Goto(c, w)
  <2>1. \/ Return(c) \/ To("head") \/ To("claim") \/ To("connect") \/ To("join")
        \/ To("resumed") \/ To("deliver") \/ To("lookup")
        \/ To("fail") \/ To("list") \/ To("post") \/ To("note") \/ To("evaluate")
        \/ To("await") \/ To("accept") \/ To("cleanup")
    BY DEF ControllerNext, ModelReady, HeadModel, Claim, Verify, Resumed, Deliver, Lookup,
           List, Post, Note, Evaluate,
      Await, Accept
  <2>2. \A w \in {"head", "claim", "connect", "join", "resumed", "deliver", "lookup", "fail", "list", "post", "note", "evaluate", "await", "accept", "cleanup"} : w \in RequestPlaces \ {"idle"}
    BY DEF RequestPlaces, BeforePlaces, DrivePlaces, CleanPlaces
  <2> QED BY <2>1, <2>2
<1>2. c \in Actor /\ c # "start" /\ c # "sweep"
  BY SandboxAssumption DEF Actor
<1>3. PICK v \in RequestPlaces : Goto(c, v)
   BY <1>1, <1>2 DEF Return, RequestPlaces, BeforePlaces
<1> QED BY <1>2, <1>3, PcGoto

\* No step takes an actor to a place of another kind.
LEMMA PcStep == PcInv /\ [Next]_vars => PcInv'
<1> SUFFICES ASSUME PcInv, [Next]_vars PROVE PcInv'
  OBVIOUS
<1>1. ASSUME NEW a \in Actor, Crash(a) PROVE PcInv'
  BY <1>1, PcReturn DEF Crash
<1>2. ASSUME NEW q \in Request, OwnerCleansUp(q) PROVE PcInv'
  BY <1>2, PcGoto, SandboxAssumption
     DEF OwnerCleansUp, Actor, RequestPlaces, BeforePlaces, CleanPlaces
<1>3. CASE SweepLists \/ SweepJudges \/ SweepExpires \/ SweepCatchesUp
  <2>1. "sweep" \in Actor /\ "sweep" \notin Request BY SandboxAssumption DEF Actor
  <2>2. \E w \in SweepPlaces : Goto("sweep", w)
     BY <1>3
        DEF SweepLists, SweepJudges, SweepExpires, SweepCatchesUp, Return, SweepPlaces,
            CleanPlaces
  <2> QED BY <2>1, <2>2, PcGoto
<1>4. CASE (\E op \in late : LateCall(op)) \/ Reclaim \/ UNCHANGED vars
  BY <1>4 DEF PcInv, PlacesInv, LateCall, Reclaim, vars
<1> QED BY <1>1, <1>2, <1>3, <1>4, PcStart, PcClean, PcGateway, PcController DEF Next, Actor

-----------------------------------------------------------------------------
Rows == [state : States \cup {"none"}, sandbox : BOOLEAN, marker : BOOLEAN, job : Nat]
WorldTypes ==
  /\ box \in {"NONE", "RUNNING", "PAUSED", "TERMINATED"}
  /\ late \in SUBSET {"create", "pause", "connect", "kill"}
  /\ cred \in {"none", "active", "revoked"}
  /\ unrevoked \in BOOLEAN /\ blind \in BOOLEAN /\ early \in BOOLEAN
  /\ jobs \in Nat /\ noted \in Nat /\ faults \in Nat /\ crashes \in Nat
DataTypes == row \in Rows /\ loc \in [Actor -> Local] /\ WorldTypes
\* TypeOK, with each actor in a place of its own kind.
Types == PcInv /\ DataTypes

\* The invariant the proofs use contains the component's TypeOK.
LEMMA TypesAreTypeOK == Types => TypeOK
  BY PlaceOfIs DEF Types, DataTypes, TypeOK, PcInv, Rows, WorldTypes

\* A row with some of its columns written is a row.
LEMMA RowUpdates ==
  ASSUME NEW r \in Rows
  PROVE  /\ r.state \in States \cup {"none"} /\ r.job \in Nat
         /\ r.sandbox \in BOOLEAN /\ r.marker \in BOOLEAN
         /\ \A s \in States : [r EXCEPT !.state = s] \in Rows
         /\ \A s \in States : [r EXCEPT !.state = s, !.sandbox = TRUE] \in Rows
         /\ \A s \in States : [r EXCEPT !.state = s, !.marker = TRUE] \in Rows
         /\ \A s \in States : \A j \in Nat : [r EXCEPT !.state = s, !.job = j] \in Rows
  BY DEF Rows

\* What an actor remembers has its type,
LEMMA LocalFields ==
  ASSUME NEW l \in Local
  PROVE  /\ l.job \in Nat /\ l.tries \in 0..2 /\ l.state \in States \cup {"none"}
         /\ l.early \in BOOLEAN
  BY DEF Local, Attempts

\* and keeps it when the state it read is replaced,
LEMMA LocalState ==
  ASSUME NEW l \in Local,
         NEW s \in States \cup {"none"} PROVE [l EXCEPT !.state = s] \in Local
  BY DEF Local

\* the job it found,
LEMMA LocalJob ==
  ASSUME NEW l \in Local, NEW j \in Nat PROVE [l EXCEPT !.job = j] \in Local
  BY DEF Local

\* or what it saw.
LEMMA LocalSeen ==
  ASSUME NEW l \in Local, NEW u \in States \cup {"none", "RUNNING", "UNKNOWN"}
  PROVE [l EXCEPT !.seen = u] \in Local
  BY DEF Local

\* Remembering nothing is a memory.
LEMMA NowhereLocal == Nowhere \in Local
  BY DEF Nowhere, Local, Attempts

\* One actor's memory replaced.
LEMMA LocTypes ==
  ASSUME loc \in [Actor -> Local], NEW a \in Actor, NEW l \in Local,
         loc' = [loc EXCEPT ![a] = l]
  PROVE  loc' \in [Actor -> Local]
  OBVIOUS

\* What start_session remembers has its type.
LEMMA StartLoc == ASSUME Types, StartNext PROVE loc' \in [Actor -> Local]
<1>1. "start" \in Actor /\ loc["start"] \in Local /\ loc \in [Actor -> Local]
  BY DEF Actor, Types, DataTypes
<1>2. CASE CreateSession
  BY <1>2, <1>1, LocTypes, NowhereLocal DEF CreateSession, Return, Forget
<1>3. CASE Mint
  BY <1>3, <1>1, LocTypes, NowhereLocal DEF Mint, Return, Forget
<1>4. CASE Create
  BY <1>4, <1>1, LocTypes, NowhereLocal, LocalSeen DEF Create, Return, Forget
<1>5. CASE Record
  BY <1>5, <1>1, LocTypes, NowhereLocal DEF Record, Return, Forget
<1>6. CASE Bootstrap
  BY <1>6, <1>1, LocTypes, NowhereLocal DEF Bootstrap, Return, Forget
<1>7. CASE Prepared
  <2>1. [loc["start"] EXCEPT !.tries = 1] \in Local
    BY <1>1 DEF Local, Attempts
  <2> QED BY <1>7, <1>1, <2>1, LocTypes DEF Prepared
<1>8. CASE Hibernate
  BY <1>8, <1>1, LocTypes, NowhereLocal DEF Hibernate, Return, Forget
<1> QED BY <1>2, <1>3, <1>4, <1>5, <1>6, <1>7, <1>8 DEF StartNext

\* What a cleanup remembers has its type.
LEMMA CleanLoc ==
  ASSUME Types, NEW a \in Actor, CleanupNext(a)
  PROVE  loc' \in [Actor -> Local]
<1>1. loc[a] \in Local /\ loc \in [Actor -> Local] /\ row \in Rows
  BY DEF Types, DataTypes
<1>2. CASE Fail(a)
  BY <1>2, <1>1, LocTypes, NowhereLocal, RowUpdates, LocalState DEF Fail, Return, Forget
<1>3. CASE MarkFailed(a)
  BY <1>3, <1>1, LocTypes, NowhereLocal DEF MarkFailed, Return, Forget
<1>4. CASE Cleanup(a)
  <2>1. PICK m \in BOOLEAN :
          loc' = [loc EXCEPT ![a] = [Nowhere EXCEPT !.machine = m, !.killed = ~row.sandbox,
                                       !.tries = IF row.sandbox THEN 1 ELSE 0,
                                       !.early = pc["start"] \in StartUnrecorded]]
    BY <1>4 DEF Cleanup
  <2> DEFINE k == ~row.sandbox
             n == IF row.sandbox THEN 1 ELSE 0
             e == pc["start"] \in StartUnrecorded
             l == [Nowhere EXCEPT !.machine = m, !.killed = k, !.tries = n, !.early = e]
  <2>2. k \in BOOLEAN /\ n \in 0..2 /\ e \in BOOLEAN
    OBVIOUS
  <2>3. loc' = [loc EXCEPT ![a] = l]
    BY <2>1
  <2> HIDE DEF k, n, e
  <2>4. l \in Local
    BY <2>2, NowhereLocal DEF Local, Attempts
  <2> QED BY <1>1, <2>3, <2>4, LocTypes
<1>5. CASE Revoke(a)
  <2> DEFINE l == [Nowhere EXCEPT !.early = loc[a].early]
  <2>1. l \in Local
    BY <1>1, NowhereLocal DEF Local
  <2>2. loc' = [loc EXCEPT ![a] = l] \/ loc' = [loc EXCEPT ![a] = Nowhere]
    BY <1>5 DEF Revoke, Return
  <2> QED BY <1>1, <2>1, <2>2, LocTypes, NowhereLocal
<1>6. CASE Close(a)
  BY <1>6, <1>1, LocTypes, NowhereLocal, RowUpdates, LocalState DEF Close, Return, Forget
<1>7. CASE Terminate(a)
  BY <1>7, <1>1, LocTypes, NowhereLocal DEF Terminate, Return, Forget
<1>8. CASE CleanupOver(a)
  BY <1>8, <1>1, LocTypes, NowhereLocal DEF CleanupOver, Return
<1> QED BY <1>2, <1>3, <1>4, <1>5, <1>6, <1>7, <1>8 DEF CleanupNext

\* What on_model_ready remembers has its type.
LEMMA ControllerLoc ==
  ASSUME Types, NEW c \in Request, ControllerNext(c)
  PROVE  loc' \in [Actor -> Local]
<1>1. /\ c \in Actor /\ loc[c] \in Local /\ loc \in [Actor -> Local] /\ row \in Rows
      /\ jobs \in Nat /\ noted \in Nat
  BY DEF Types, DataTypes, WorldTypes, Actor
<1>2. CASE ModelReady(c)
  <2> DEFINE r == row.state # "ACTIVE"
             o == loc[c]
             n == 1
             l == [o EXCEPT !.resuming = r, !.tries = n]
  <2>1. r \in BOOLEAN /\ n \in 0..2 /\ o \in Local
    BY <1>1
  <2>2. loc' \in {[loc EXCEPT ![c] = Nowhere], [loc EXCEPT ![c] = l]}
    BY <1>2 DEF ModelReady, Return
  <2> HIDE DEF r, n, o
  <2>3. l \in Local
    BY <2>1 DEF Local, Attempts
  <2> QED BY <1>1, <2>2, <2>3, LocTypes, NowhereLocal
<1>3. CASE HeadModel(c)
  BY <1>3, <1>1, LocTypes, NowhereLocal DEF HeadModel, Return, Forget
<1>4. CASE Claim(c)
  BY <1>4, <1>1, LocTypes, NowhereLocal DEF Claim, Return, Forget
<1>5. CASE Verify(c)
  BY <1>5, <1>1, LocTypes, NowhereLocal DEF Verify, Return, Forget
<1>6. CASE Resumed(c)
  BY <1>6, <1>1, LocTypes, NowhereLocal DEF Resumed, Return, Forget
<1>7. CASE Deliver(c)
  BY <1>7, <1>1, LocTypes, NowhereLocal DEF Deliver, Return, Forget
<1>8. CASE Lookup(c)
  BY <1>8, <1>1, LocTypes, NowhereLocal, RowUpdates, LocalJob DEF Lookup, Return, Forget
<1>9. CASE List(c)
  BY <1>9, <1>1, LocTypes, NowhereLocal, LocalJob DEF List, Return, Forget
<1>10. CASE Post(c)
  BY <1>10, <1>1, LocTypes, NowhereLocal, LocalJob DEF Post, Return, Forget
<1>11. CASE Note(c)
  BY <1>11, <1>1, LocTypes, NowhereLocal DEF Note, Return, Forget
<1>12. CASE Evaluate(c)
  BY <1>12, <1>1, LocTypes, NowhereLocal DEF Evaluate, Return, Forget
<1>13. CASE Await(c)
  BY <1>13, <1>1, LocTypes, NowhereLocal DEF Await, Return, Forget
<1>14. CASE Accept(c)
  BY <1>14, <1>1, LocTypes, NowhereLocal DEF Accept, Return, Forget
<1> QED BY <1>2, <1>3, <1>4, <1>5, <1>6, <1>7, <1>8, <1>9, <1>10, <1>11, <1>12, <1>13,
           <1>14 DEF ControllerNext

\* What the reconciler remembers has its type.
LEMMA SweepLoc ==
  ASSUME Types,
         SweepLists \/ SweepJudges \/ SweepExpires \/ SweepCatchesUp PROVE loc' \in [Actor -> Local]
<1>1. "sweep" \in Actor /\ loc["sweep"] \in Local /\ loc \in [Actor -> Local] /\ row \in Rows
  BY DEF Actor, Types, DataTypes
<1>2. CASE SweepLists
  <2>1. \A old \in BOOLEAN : [loc["sweep"] EXCEPT !.seen = row.state, !.stale = old] \in Local
    BY <1>1, RowUpdates DEF Local
  <2>2. PICK old \in BOOLEAN : loc' = [loc EXCEPT !["sweep"].seen = row.state, !["sweep"].stale = old]
    BY <1>2 DEF SweepLists
  <2> QED BY <1>1, <2>1, <2>2, LocTypes
<1>3. CASE SweepJudges
  BY <1>3, <1>1, LocTypes, NowhereLocal DEF SweepJudges, Return, Forget
<1>4. CASE SweepExpires
  BY <1>4, <1>1, LocTypes, NowhereLocal DEF SweepExpires, Return, Forget
<1>5. CASE SweepCatchesUp
  BY <1>5, <1>1, LocTypes, NowhereLocal DEF SweepCatchesUp, Return, Forget
<1> QED BY <1>2, <1>3, <1>4, <1>5

\* Attempts are counted up to their limit.
LEMMA GatewayLoc ==
  ASSUME Types, NEW a \in Actor, GatewayNext(a)
  PROVE  loc' \in [Actor -> Local]
<1>1. loc[a] \in Local /\ loc \in [Actor -> Local]
  BY DEF Types, DataTypes
<1>2. PICK op \in {"pause", "connect", "kill"} : \/ CallApplies(a, op) \/ CallFindsNothing(a, op) \/ CallRefused(a, op)
    \/ CallAbandoned(a, op) \/ SettleAfter(a, op)
  BY CallTable DEF GatewayNext
<1>9. [loc[a] EXCEPT !.tries = 0] \in Local
  BY <1>1 DEF Local, Attempts
<1>3. ASSUME NEW w, Again(a, w) PROVE loc' \in [Actor -> Local]
  <2>1. loc[a].tries < 2 => [loc[a] EXCEPT !.tries = @ + 1] \in Local
    BY <1>1, LocalFields DEF Local, Attempts
  <2> QED BY <1>1, <1>3, <1>9, <2>1, LocTypes DEF Again, Attempts
<1>4. ASSUME NEW w, Through(a, w) PROVE loc' \in [Actor -> Local]
  <2> DEFINE k == w = "kill"
             o == loc[a]
             n == 0
             l == [o EXCEPT !.tries = n, !.killed = k]
  <2>1. k \in BOOLEAN /\ n \in 0..2 /\ o \in Local
    BY <1>1
  <2>2. loc' = [loc EXCEPT ![a] = l]
    BY <1>4 DEF Through
  <2> HIDE DEF k, n, o
  <2>3. l \in Local
    BY <2>1 DEF Local, Attempts
  <2> QED BY <1>1, <2>2, <2>3, LocTypes
<1>5. CASE CallApplies(a, op)
  BY <1>5, <1>3, <1>4 DEF CallApplies
<1>6. CASE CallFindsNothing(a, op)
  BY <1>6, <1>1, <1>4, <1>9, LocTypes DEF CallFindsNothing
<1>7. CASE CallRefused(a, op)
  BY <1>7, <1>1, <1>3, <1>9, LocTypes DEF CallRefused
<1>8. CASE CallAbandoned(a, op) \/ SettleAfter(a, op)
  BY <1>8, <1>1, <1>3, <1>4 DEF CallAbandoned, SettleAfter
<1> QED BY <1>2, <1>5, <1>6, <1>7, <1>8

\* start_session keeps the types of the row and of the world,
LEMMA StartData == ASSUME Types, StartNext PROVE row' \in Rows /\ WorldTypes'
<1>0. row \in Rows
  BY DEF Types, DataTypes
<1>1. row' \in Rows
  <2>1. CASE CreateSession \/ Hibernate
    BY <1>0, <2>1, RowUpdates DEF CreateSession, Hibernate, Transition, Lost, States
  <2>2. CASE Record \/ Prepared
    BY <1>0, <2>2, RowUpdates DEF Record, Prepared, Lost, States
  <2>3. CASE Mint \/ Create \/ Bootstrap
    BY <1>0, <2>3 DEF Mint, Create, Bootstrap
  <2> QED BY <2>1, <2>2, <2>3 DEF StartNext
<1>3. WorldTypes'
  BY DEF Types, DataTypes, WorldTypes, StartNext, CreateSession, Mint, Create, Record,
         Bootstrap, Prepared, Hibernate, world, Fault
<1> QED BY <1>1, <1>3

\* and so does a cleanup,
LEMMA CleanData ==
  ASSUME Types, NEW a \in Actor, CleanupNext(a)
  PROVE  row' \in Rows /\ WorldTypes'
<1>1. row' \in Rows
  <2>1. row' = row \/ \E s \in {"FAILED", "TERMINATED"} : row' = [row EXCEPT !.state = s]
    <3>1. CASE Fail(a) \/ Cleanup(a) \/ CleanupOver(a) \/ Revoke(a) \/ Close(a)
      BY <3>1 DEF Fail, Cleanup, CleanupOver, Revoke, Close
    <3>2. CASE MarkFailed(a) \/ Terminate(a)
      BY <3>2 DEF MarkFailed, Terminate, Transition, Lost
    <3> QED
      BY <3>1, <3>2 DEF CleanupNext
  <2>2. row \in Rows
    BY DEF Types, DataTypes
  <2>3. "FAILED" \in States /\ "TERMINATED" \in States
    BY DEF States
  <2>4. \A s \in States : [row EXCEPT !.state = s] \in Rows
    BY <2>2, RowUpdates
  <2> QED
    BY <2>1, <2>2, <2>3, <2>4
<1>0. loc[a].early \in BOOLEAN
  BY LocalFields DEF Types, DataTypes
<1>2. /\ cred' \in {cred, "revoked"} /\ unrevoked' \in BOOLEAN /\ early' \in BOOLEAN
      /\ faults' \in {faults, faults + 1} /\ UNCHANGED <<box, late, jobs, noted, blind, crashes>>
  BY <1>0 DEF Types, DataTypes, WorldTypes, CleanupNext, Fail, MarkFailed, Cleanup, CleanupOver,
         Revoke, Close, Terminate, world, Fault
<1> QED BY <1>1, <1>2 DEF Types, DataTypes, WorldTypes

\* a gateway call,
LEMMA GatewayData ==
  ASSUME Types, NEW a \in Actor, GatewayNext(a)
  PROVE  row' \in Rows /\ WorldTypes'
<1>1. PICK op \in {"pause", "connect", "kill"} : \/ CallApplies(a, op) \/ CallFindsNothing(a, op) \/ CallRefused(a, op)
    \/ CallAbandoned(a, op) \/ SettleAfter(a, op)
   BY CallTable DEF GatewayNext
<1>2. row' \in Rows
  BY <1>1
     DEF Types, DataTypes, CallApplies, CallFindsNothing, CallRefused, CallAbandoned,
         SettleAfter
<1>4. WorldTypes'
  BY <1>1, CallTable
     DEF Types, DataTypes, WorldTypes, CallApplies, CallFindsNothing, CallRefused,
         CallAbandoned, SettleAfter, world, Fault
<1> QED BY <1>2, <1>4

\* on_model_ready, for the row
LEMMA ControllerRow ==
  ASSUME Types, NEW c \in Request, ControllerNext(c)
  PROVE  row' \in Rows
<1>1. c \in Actor /\ loc[c].job \in Nat /\ row \in Rows
  BY LocalFields DEF Types, DataTypes, Actor
<1>2. CASE Evaluate(c)
  <2>1. [row EXCEPT !.state = "EVALUATING", !.job = loc[c].job] \in Rows
    BY <1>1 DEF Rows, States
  <2> QED BY <1>1, <1>2, <2>1 DEF Evaluate, Lost
<1>3. CASE Claim(c) \/ Resumed(c) \/ Accept(c)
  BY <1>1, <1>3, RowUpdates DEF Claim, Resumed, Accept, Transition, Lost, States
<1>4. CASE \/ ModelReady(c) \/ HeadModel(c) \/ Verify(c) \/ Deliver(c) \/ Lookup(c)
           \/ List(c) \/ Post(c) \/ Note(c) \/ Await(c)
  BY <1>1, <1>4 DEF ModelReady, HeadModel, Verify, Deliver, Lookup, List, Post, Note, Await
<1> QED BY <1>2, <1>3, <1>4 DEF ControllerNext

\* and for the world,
LEMMA ControllerWorld ==
  ASSUME Types, NEW c \in Request, ControllerNext(c)
  PROVE  WorldTypes'
<1>1. WorldTypes /\ loc[c].job \in Nat
  BY LocalFields DEF Types, DataTypes, Actor
<1>2. CASE ModelReady(c)
  BY <1>1, <1>2 DEF ModelReady, WorldTypes
<1>3. CASE Verify(c) \/ Deliver(c) \/ Await(c)
  <2>1. box' \in {box, "RUNNING"} /\ faults' \in {faults, faults + 1} /\ UNCHANGED <<world, crashes>>
    BY <1>3 DEF Verify, Deliver, Await, Fault
  <2> QED BY <1>1, <2>1 DEF WorldTypes, world
<1>4. CASE List(c)
  <2>1. blind' \in BOOLEAN /\ faults' \in {faults, faults + 1} /\ UNCHANGED <<box, late, cred, unrevoked, early, jobs, noted, crashes>>
    BY <1>1, <1>4 DEF List, Fault, WorldTypes
  <2> QED BY <1>1, <2>1 DEF WorldTypes
<1>5. CASE Post(c)
  <2>1. jobs' \in {jobs, jobs + 1} /\ faults' \in {faults, faults + 1} /\ UNCHANGED <<box, late, cred, unrevoked, early, blind, noted, crashes>>
    BY <1>5 DEF Post, Fault
  <2> QED BY <1>1, <2>1 DEF WorldTypes
<1>6. CASE Note(c)
  <2>1. noted' \in {noted, loc[c].job} /\ faults' \in {faults, faults + 1} /\ UNCHANGED <<box, late, cred, unrevoked, early, blind, jobs, crashes>>
    BY <1>6 DEF Note, Fault
  <2> QED BY <1>1, <2>1 DEF WorldTypes
<1>7. CASE UNCHANGED <<box, world, faults, crashes>>
  BY <1>1, <1>7 DEF WorldTypes, world
<1>8. \/ ModelReady(c) \/ Verify(c) \/ Deliver(c) \/ List(c) \/ Post(c) \/ Note(c)
      \/ Await(c)
      \/ UNCHANGED <<box, world, faults, crashes>>
  BY DEF ControllerNext, HeadModel, Claim, Resumed, Lookup, Evaluate, Accept
<1> QED BY <1>2, <1>3, <1>4, <1>5, <1>6, <1>7, <1>8

\* and the reconciler.
LEMMA SweepData ==
  ASSUME Types, SweepLists \/ SweepJudges \/ SweepExpires \/ SweepCatchesUp
  PROVE  row' \in Rows /\ WorldTypes'
<1>1. row' \in Rows
  <2>1. row \in Rows
    BY DEF Types, DataTypes
  <2>2. CASE SweepLists \/ SweepJudges \/ SweepExpires
    BY <2>1, <2>2 DEF SweepLists, SweepJudges, SweepExpires
  <2>3. CASE SweepCatchesUp
    BY <2>1, <2>3, RowUpdates DEF SweepCatchesUp, Transition, Lost, States
  <2> QED BY <2>2, <2>3
<1>2. faults' \in {faults, faults + 1} /\ UNCHANGED <<box, world, crashes>>
  BY DEF SweepLists, SweepJudges, SweepExpires, SweepCatchesUp, Fault
<1> QED BY <1>1, <1>2 DEF Types, DataTypes, WorldTypes, world

\* Every step keeps the types.
LEMMA TypesStep == Types /\ [Next]_vars => Types'
<1> SUFFICES ASSUME Types, [Next]_vars PROVE Types'
  OBVIOUS
<1>1. PcInv'
  BY PcStep DEF Types
<1>2. ASSUME NEW a \in Actor, Crash(a) PROVE DataTypes'
  <2>1. row' \in Rows /\ WorldTypes'
    BY <1>2 DEF Types, DataTypes, WorldTypes, Crash, world
  <2>2. loc' \in [Actor -> Local]
    BY <1>2, NowhereLocal, LocTypes DEF Types, DataTypes, Crash, Return
  <2> QED BY <2>1, <2>2 DEF DataTypes
<1>3. ASSUME NEW q \in Request, OwnerCleansUp(q) PROVE DataTypes'
  BY <1>3 DEF Types, DataTypes, WorldTypes, OwnerCleansUp, world
<1>5. ASSUME NEW op \in late, LateCall(op) PROVE DataTypes'
  BY <1>5, CallTable DEF Types, DataTypes, LateCall, WorldTypes
<1>6. CASE Reclaim \/ UNCHANGED vars
  BY <1>6, <1>1 DEF Types, DataTypes, Reclaim, WorldTypes, world, vars
<1> QED BY <1>1, <1>2, <1>3, <1>5, <1>6, StartLoc, StartData, CleanLoc, CleanData,
           GatewayLoc, GatewayData, ControllerLoc, ControllerRow, ControllerWorld,
           SweepLoc, SweepData DEF Next, Types, DataTypes

-----------------------------------------------------------------------------
\* The first state has the types.
LEMMA InitTypes == Init => Types
<1> SUFFICES ASSUME Init PROVE Types
  OBVIOUS
<1>1. PcInv
  BY DEF Init, PcInv, PlacesInv, Places, StartPlaces, StartEarly, StartUnrecorded,
         SweepPlaces, RequestPlaces, BeforePlaces, Actor
<1>2. row \in Rows
  BY DEF Init, Rows
<1>3. loc \in [Actor -> Local]
  BY NowhereLocal DEF Init
<1>4. WorldTypes
  BY DEF Init, WorldTypes
<1> QED BY <1>1, <1>2, <1>3, <1>4 DEF Types, DataTypes

\* What HibernatedIsNotBilled rests on.
SleepInv == StartInv /\ BeforeInv /\ AsleepInv /\ SweepInv

\* A transition changes the state of the row and nothing else.
LEMMA RowMoves ==
  ASSUME NEW r \in Rows, NEW s, NEW x, x = [r EXCEPT !.state = s]
  PROVE  x.state = s /\ x.sandbox = r.sandbox /\ x.marker = r.marker /\ x.job = r.job
  BY DEF Rows

\* The actors are different from each other.
LEMMA Actors == "start" \in Actor /\ "sweep" \in Actor /\ Request \subseteq Actor
                /\ "start" \notin Request /\ "sweep" \notin Request
  BY SandboxAssumption DEF Actor

\* Moves of the row and of one actor that cannot bring a sandbox back.
LEMMA SleepMoves ==
  ASSUME Types, SleepInv, NEW a \in Actor, \A b \in Actor : b # a => pc'[b] = pc[b],
         pc'[a] \in CleanPlaces \cup {"idle", "done"}, a \in Request => pc'[a] # "done",
         a = "start" => pc'[a] # "idle",
         \A b \in Actor : b # a => loc'[b] = loc[b],
         UNCHANGED <<box, late>>, row'.sandbox = row.sandbox, row'.marker = row.marker,
         row'.state \in {row.state, "FAILED", "TERMINATED"}
  PROVE  SleepInv'
<1>1. StartInv'
  BY Actors DEF SleepInv, StartInv, CleanPlaces, StartEarly, StartUnrecorded
<1>2. BeforeInv'
  BY Actors DEF SleepInv, BeforeInv, Before, BeforePlaces
<1>3. AsleepInv'
  BY Actors DEF SleepInv, AsleepInv, CleanPlaces
<1>4. SweepInv'
  BY Actors DEF SleepInv, SweepInv, CleanPlaces
<1> QED BY <1>1, <1>2, <1>3, <1>4 DEF SleepInv

\* A cleanup only fails or ends a row.
LEMMA CleanSleep ==
  ASSUME Types, SleepInv, NEW a \in Actor, CleanupNext(a)
  PROVE  SleepInv'
<1>1. row \in Rows /\ pc \in [Actor -> Places]
  BY DEF Types, DataTypes, PcInv
<1>2. /\ UNCHANGED <<box, late>>
      /\ row' = row \/ row' = [row EXCEPT !.state = "FAILED"] \/ row' = [row EXCEPT !.state = "TERMINATED"]
  BY DEF CleanupNext, Fail, MarkFailed, Cleanup, CleanupOver, Revoke, Close, Terminate, Transition,
         Lost, world
<1>3. Goto(a, "cleanup") \/ Goto(a, "mark") \/ Goto(a, "kill") \/ Goto(a, "revoke") \/ Goto(a, "close") \/ Goto(a, "terminate") \/ Return(a)
  BY DEF CleanupNext, Fail, MarkFailed, Cleanup, CleanupOver, Revoke, Close, Terminate
<1>4. /\ \A b \in Actor : b # a => pc'[b] = pc[b]
      /\ pc'[a] \in CleanPlaces \cup {"idle", "done"}
      /\ pc'[a] = "done" => a = "start"
      /\ pc'[a] = "idle" => a # "start"
  BY <1>1, <1>3 DEF Goto, Return, CleanPlaces
<1>7. loc \in [Actor -> Local]
  BY DEF Types, DataTypes
<1>5. row'.sandbox = row.sandbox /\ row'.marker = row.marker /\ row'.state \in {row.state, "FAILED", "TERMINATED"}
  BY <1>1, <1>2, RowMoves
<1>6. \A b \in Actor : b # a => loc'[b] = loc[b]
  BY <1>7
     DEF CleanupNext, Fail, MarkFailed, Cleanup, CleanupOver, Revoke, Close, Terminate, Return, Forget
<1> QED BY <1>2, <1>4, <1>5, <1>6, SleepMoves, Actors

\* start_session: the marker is written when no create can be out any more, and
\* HIBERNATED after the sandbox was seen paused.
LEMMA StartSleep == ASSUME Types, SleepInv, StartNext PROVE SleepInv'
<1>1. row \in Rows /\ pc \in [Actor -> Places]
  BY DEF Types, DataTypes, PcInv
<1>2. \A b \in Actor : b # "start" => pc'[b] = pc[b]
  BY <1>1, Actors
     DEF StartNext, CreateSession, Mint, Create, Record, Bootstrap, Prepared, Hibernate,
         Goto, Return
<1>8. loc'["sweep"] = loc["sweep"]
  BY Actors
     DEF Types, DataTypes, StartNext, CreateSession, Mint, Create, Record, Bootstrap,
         Prepared, Hibernate, Return, Forget
<1>3. CASE CreateSession \/ Mint \/ Create
  <2>0. /\ Goto("start", "mint") \/ Goto("start", "create") \/ Goto("start", "record") \/ Goto("start", "fail")
        /\ late' = late \/ (late' = late \cup {"create"} /\ Goto("start", "fail"))
        /\ pc["start"] \in {"idle", "mint", "create"}
        /\ box' = box \/ pc["start"] = "create"
    BY <1>3 DEF CreateSession, Mint, Create, world
  <2>7. row' = row \/ (row.state = "none" /\ row' = [row EXCEPT !.state = "REQUESTED"])
    BY <1>3 DEF CreateSession, Mint, Create
  <2>1. /\ pc["start"] \in StartUnrecorded /\ pc'["start"] \in {"mint", "create", "record", "fail"}
        /\ \/ late' = late
           \/ late' = late \cup {"create"} /\ pc'["start"] = "fail"
    BY <2>0, <1>1, Actors DEF Goto, StartUnrecorded
  <2>2. row'.sandbox = row.sandbox /\ row'.marker = row.marker /\ row'.state \in {row.state, "REQUESTED"}
       /\ (row' # row => Before)
    <3>1. CASE row' = row
      BY <3>1
    <3>2. CASE row.state = "none" /\ row' = [row EXCEPT !.state = "REQUESTED"]
      BY <1>1, <3>2, RowMoves DEF Before
    <3> QED
      BY <2>7, <3>1, <3>2
  <2>3. ~row.sandbox /\ ~row.marker
    BY <2>1, RowMoves DEF SleepInv, StartInv, StartUnrecorded, StartEarly
  <2>4. StartInv'
    BY <2>1, <2>2, <2>3 DEF SleepInv, StartInv, StartUnrecorded, StartEarly
  <2>5. BeforeInv'
    <3>1. Before' => Before
      BY <2>2 DEF Before
    <3>2. "connect" \in late' => "connect" \in late
      BY <2>1
    <3> QED BY <3>1, <3>2, <1>2, Actors DEF SleepInv, BeforeInv
  <2>6. AsleepInv'
    BY <2>1, <2>2, <2>3, <1>2, Actors DEF SleepInv, AsleepInv, StartInv
  <2> QED BY <2>4, <2>5, <2>6, <2>2, <1>2, <1>8, Actors DEF SleepInv, SweepInv
<1>4. CASE Record
  <2>0. /\ Goto("start", "bootstrap") \/ Goto("start", "fail")
        /\ pc["start"] = "record" /\ UNCHANGED <<box, late>>
    BY <1>4 DEF Record, world, Lost
  <2>3. row' = row \/ (row.state = "REQUESTED" /\ row' = [row EXCEPT !.state = "ACTIVE", !.sandbox = TRUE])
    BY <1>4 DEF Record, world, Lost
  <2>1. pc'["start"] \in {"bootstrap", "fail"}
    BY <2>0, <1>1, Actors DEF Goto
  <2>2. row' = row \/ (row.state = "REQUESTED" /\ row'.state = "ACTIVE" /\ row'.sandbox /\ row'.marker = row.marker)
    <3>1. ASSUME NEW to, NEW yes \in BOOLEAN, row' = [row EXCEPT !.state = to,
                 !.sandbox = yes]
          PROVE  row'.state = to /\ row'.sandbox = yes /\ row'.marker = row.marker
      BY <1>1, <3>1 DEF Rows
    <3> QED BY <2>3, <3>1
  <2> QED BY <2>0, <2>1, <2>2, <1>2, <1>8, Actors
             DEF SleepInv, StartInv, BeforeInv, AsleepInv, SweepInv, Before,
                 StartUnrecorded, StartEarly
<1>5. CASE Bootstrap
  <2>1. /\ pc["start"] = "bootstrap" /\ pc'["start"] \in {"prepared", "fail"} /\ UNCHANGED <<row, late>>
    BY <1>1, <1>5, Actors DEF Bootstrap, Goto, world
  <2> QED BY <2>1, <1>2, <1>8, Actors
             DEF SleepInv, StartInv, BeforeInv, AsleepInv, SweepInv, Before,
                 StartUnrecorded, StartEarly
<1>6. CASE Prepared
  <2>0. /\ Goto("start", "pause") \/ Goto("start", "fail")
        /\ pc["start"] = "prepared" /\ UNCHANGED <<box, late>>
    BY <1>6 DEF Prepared, world, Lost
  <2>3. row' = row \/ (row.state = "ACTIVE" /\ row' = [row EXCEPT !.state = "PREPARED", !.marker = TRUE])
    BY <1>6 DEF Prepared, world, Lost
  <2>1. pc'["start"] \in {"pause", "fail"}
    BY <2>0, <1>1, Actors DEF Goto
  <2>2. row' = row \/ (row.state = "ACTIVE" /\ row'.state = "PREPARED" /\ row'.sandbox = row.sandbox /\ row'.marker)
    BY <2>3, <1>1 DEF Rows
  <2> QED BY <2>0, <2>1, <2>2, <1>2, <1>8, Actors
             DEF SleepInv, StartInv, BeforeInv, AsleepInv, SweepInv, Before,
                 StartUnrecorded, StartEarly
<1>7. CASE Hibernate
  <2>0. /\ Goto("start", "done") \/ Goto("start", "fail")
        /\ pc["start"] = "hibernate" /\ UNCHANGED <<box, late>>
    BY <1>7 DEF Hibernate, Return, world, Transition, Lost
  <2>3. row' = row \/ (row.state = "PREPARED" /\ row' = [row EXCEPT !.state = "HIBERNATED"])
    BY <1>7 DEF Hibernate, Return, world, Transition, Lost
  <2>1. pc'["start"] \in {"done", "fail"}
    BY <2>0, <1>1, Actors DEF Goto
  <2>2. row' = row \/ (row.state = "PREPARED" /\ row'.state = "HIBERNATED" /\ row'.sandbox = row.sandbox /\ row'.marker = row.marker)
    BY <2>3, <1>1, RowMoves
  <2> QED BY <2>0, <2>1, <2>2, <1>2, <1>8, Actors
             DEF SleepInv, StartInv, BeforeInv, AsleepInv, SweepInv, Before,
                 StartUnrecorded, StartEarly
<1> QED BY <1>3, <1>4, <1>5, <1>6, <1>7 DEF StartNext

\* on_model_ready: nothing is woken before the claim, and the claim leaves
\* HIBERNATED behind.
LEMMA ControllerSleep ==
  ASSUME Types, SleepInv, NEW c \in Request, ControllerNext(c)
  PROVE  SleepInv'
<1>1. row \in Rows /\ pc \in [Actor -> Places]
  BY DEF Types, DataTypes, PcInv
<1>2. late' = late /\ \A b \in Actor : b # c => pc'[b] = pc[b]
  BY <1>1, Actors
     DEF ControllerNext, ModelReady, HeadModel, Claim, Verify, Resumed, Deliver, Lookup,
         List, Post, Note, Evaluate,
      Await, Accept, Goto, Return, world
<1>3. \/ row' = row /\ (pc[c] \in BeforePlaces => box' = box)
      \/ row.state = "HIBERNATED" /\ row' = [row EXCEPT !.state = "RESUMING"]
      \/ row.state = "RESUMING" /\ row' = [row EXCEPT !.state = "ACTIVE"]
      \/ row.state = "ACTIVE" /\ row' = [row EXCEPT !.state = "EVALUATING", !.job = loc[c].job]
      \/ row.state = "EVALUATING" /\ row' = [row EXCEPT !.state = "SUCCEEDED"]
  BY DEF ControllerNext, ModelReady, HeadModel, Claim, Verify, Resumed, Deliver, Lookup,
         List, Post, Note, Evaluate,
      Await, Accept, Transition, Lost, world, BeforePlaces, CleanPlaces
<1>4. row' = row \/ /\ row'.sandbox = row.sandbox /\ row'.marker = row.marker
                    /\ \/ row'.state \in {"RESUMING", "EVALUATING", "SUCCEEDED"} /\ (row'.state = "RESUMING" => row.state = "HIBERNATED")
                       \/ row.state = "RESUMING" /\ row'.state = "ACTIVE"
  <2>1. ASSUME NEW to, row' = [row EXCEPT !.state = to]
        PROVE  row'.state = to /\ row'.sandbox = row.sandbox /\ row'.marker = row.marker
    BY <1>1, <2>1, RowMoves
  <2>2. ASSUME NEW j, row' = [row EXCEPT !.state = "EVALUATING", !.job = j]
        PROVE  row'.state = "EVALUATING" /\ row'.sandbox = row.sandbox /\ row'.marker = row.marker
    BY <1>1, <2>2 DEF Rows
  <2> QED BY <1>3, <2>1, <2>2
<1>5. StartInv'
  BY <1>2, <1>4, Actors DEF SleepInv, StartInv
<1>6. Before' => Before /\ row' = row
  BY <1>4, <1>5 DEF SleepInv, StartInv, Before
<1>7. Before => pc'[c] \in BeforePlaces \/ row' # row
  <2> SUFFICES ASSUME Before, row' = row PROVE pc'[c] \in BeforePlaces
    OBVIOUS
  <2>1. pc[c] \in BeforePlaces
     BY DEF SleepInv, BeforeInv
  <2>2. ModelReady(c) \/ HeadModel(c) \/ Claim(c)
     BY <2>1
        DEF ControllerNext, Verify, Resumed, Deliver, Lookup, List, Post, Note, Evaluate,
      Await, Accept, BeforePlaces, CleanPlaces
  <2>3. CASE ModelReady(c)
    <3>1. row.state \notin {"RESUMING", "EVALUATING"} /\ ~(row.state = "ACTIVE" /\ row.marker)
      BY DEF Before
    <3> QED BY <1>1, <2>3, <3>1, Actors DEF ModelReady, Wakes, Goto, Return, BeforePlaces
  <2>4. CASE HeadModel(c)
    BY <1>1, <2>4, Actors DEF HeadModel, Goto, Return, BeforePlaces
  <2>5. CASE Claim(c)
    <3>1. Return(c)
      BY <2>5, <1>1, RowMoves DEF Claim, Transition
    <3> QED BY <1>1, <3>1, Actors DEF Return, Goto, BeforePlaces
  <2> QED BY <2>2, <2>3, <2>4, <2>5
<1>8. BeforeInv'
  BY <1>2, <1>6, <1>7, Actors DEF SleepInv, BeforeInv
<1>9. AsleepInv'
  <2>1. ASSUME row'.state \in {"PREPARED", "HIBERNATED"} PROVE row' = row /\ box' = box
    <3>1. Before /\ row' = row
      BY <2>1, <1>6 DEF Before
    <3>2. pc[c] \in BeforePlaces
      BY <3>1 DEF SleepInv, BeforeInv
    <3>3. row.state \in {"PREPARED", "HIBERNATED"} /\ row.state = row'.state
      BY <2>1, <3>1
    <3> QED BY <3>1, <3>2, <3>3, <1>1, <1>3, RowMoves
  <2> QED BY <2>1, <1>2, Actors DEF SleepInv, AsleepInv
<1>10. SweepInv'
  <2>1. loc'["sweep"] = loc["sweep"]
    BY Actors
       DEF Types, DataTypes, ControllerNext, ModelReady, HeadModel, Claim, Verify, Resumed,
           Deliver, Lookup, List, Post, Note, Evaluate,
      Await, Accept, Return, Forget
  <2> QED BY <2>1, <1>2, <1>4, Actors DEF SleepInv, SweepInv
<1> QED BY <1>5, <1>8, <1>9, <1>10 DEF SleepInv


\* The reconciler writes HIBERNATED only over a sandbox it saw paused.
LEMMA SweepSleep ==
  ASSUME Types, SleepInv,
         SweepLists \/ SweepJudges \/ SweepExpires \/ SweepCatchesUp PROVE SleepInv'
<1>1. row \in Rows /\ pc \in [Actor -> Places] /\ loc \in [Actor -> Local]
  BY DEF Types, DataTypes, PcInv
<1>2. UNCHANGED <<box, late>> /\ \A b \in Actor : b # "sweep" => pc'[b] = pc[b]
  BY <1>1 DEF SweepLists, SweepJudges, SweepExpires, SweepCatchesUp, Goto, Return, world
<1>3. CASE SweepLists
  <2>1. row' = row /\ pc'["sweep"] = "inspect"
    BY <1>1, <1>3, Actors DEF SweepLists, Goto
  <2>2. loc'["sweep"].seen = row.state
    <3>1. PICK old : loc' = [loc EXCEPT !["sweep"].seen = row.state, !["sweep"].stale = old]
      BY <1>3 DEF SweepLists
    <3> QED BY <1>1, <3>1, Actors DEF Local
  <2> QED BY <2>1, <2>2, <1>2, Actors
             DEF SleepInv, StartInv, BeforeInv, AsleepInv, SweepInv, Before
<1>4. CASE SweepJudges
  <2>1. /\ row' = row /\ pc["sweep"] = "inspect"
        /\ \/ Goto("sweep", "idle") \/ Goto("sweep", "cleanup") \/ Goto("sweep", "fail")
           \/ Goto("sweep", "catchup") /\ loc["sweep"].seen = "PREPARED" /\ box = "PAUSED"
    BY <1>4 DEF SweepJudges
  <2>2. pc'["sweep"] \in {"idle", "cleanup", "fail"} \/ (pc'["sweep"] = "catchup" /\ loc["sweep"].seen = "PREPARED" /\ box = "PAUSED")
    BY <1>1, <2>1, Actors DEF Goto
  <2> QED BY <2>1, <2>2, <1>2, Actors
             DEF SleepInv, StartInv, BeforeInv, AsleepInv, SweepInv, Before
<1>5. CASE SweepExpires
  <2>1. row' = row /\ pc'["sweep"] = "fail"
    BY <1>1, <1>5, Actors DEF SweepExpires, Goto
  <2> QED BY <2>1, <1>2, Actors
             DEF SleepInv, StartInv, BeforeInv, AsleepInv, SweepInv, Before
<1>6. CASE SweepCatchesUp
  <2>1. pc["sweep"] = "catchup" /\ pc'["sweep"] = "idle"
    BY <1>1, <1>6, Actors DEF SweepCatchesUp, Return, Goto
  <2>2. row' = row \/ (row.state = "PREPARED" /\ row' = [row EXCEPT !.state = "HIBERNATED"])
    BY <1>6 DEF SweepCatchesUp, Transition, Lost
  <2>3. row' = row \/ (row.state = "PREPARED" /\ row'.state = "HIBERNATED" /\ row'.sandbox = row.sandbox /\ row'.marker = row.marker)
    BY <2>2, <1>1, RowMoves
  <2> QED BY <2>1, <2>3, <1>2, Actors
             DEF SleepInv, StartInv, BeforeInv, AsleepInv, SweepInv, Before
<1> QED BY <1>3, <1>4, <1>5, <1>6

\* A gateway call: pause puts the sandbox to sleep, kill ends it, and connect is
\* called only after the claim.
LEMMA GatewaySleep ==
  ASSUME Types, SleepInv, NEW a \in Actor, GatewayNext(a)
  PROVE  SleepInv'
<1>1. row \in Rows /\ pc \in [Actor -> Places] /\ loc \in [Actor -> Local]
  BY DEF Types, DataTypes, PcInv
<1>2. PICK op \in {"pause", "connect", "kill"} : \/ CallApplies(a, op) \/ CallFindsNothing(a, op) \/ CallRefused(a, op)
    \/ CallAbandoned(a, op) \/ SettleAfter(a, op)
  BY CallTable DEF GatewayNext
<1>3. /\ row' = row /\ (box' = box \/ box' = Target[op])
      /\ late' \in {late, late \cup {op}} /\ pc[a] \in {op, Settle[op]}
  BY <1>2 DEF CallApplies, CallFindsNothing, CallRefused, CallAbandoned, SettleAfter, world
<1>4. /\ \A b \in Actor : b # a => pc'[b] = pc[b]
      /\ \A b \in Actor : b # a => loc'[b] = loc[b]
  BY <1>1, <1>2
     DEF CallApplies, CallFindsNothing, CallRefused, CallAbandoned, SettleAfter, Through,
         Again, Goto
<1>5. pc'[a] \in {op, Settle[op], Giveup[op], Success[op]}
  BY <1>1, <1>2
     DEF CallApplies, CallFindsNothing, CallRefused, CallAbandoned, SettleAfter, Through,
         Again, Goto
<1>6. pc'[a] = "hibernate" => box' = "PAUSED"
  <2>1. CASE op = "pause"
    <3>1. \/ pc'[a] # "hibernate"
          \/ CallApplies(a, op) \/ SettleAfter(a, op)
      BY <1>2, <1>1, CallTable, <2>1
         DEF CallFindsNothing, CallRefused, CallAbandoned, Again, Goto
    <3>2. CASE CallApplies(a, op)
      BY <3>2, <2>1, CallTable DEF CallApplies
    <3>3. CASE SettleAfter(a, op)
      <4>1. \/ box = "PAUSED" /\ box' = box
            \/ Again(a, op)
        BY <3>3, <2>1, CallTable DEF SettleAfter
      <4>2. Again(a, op) => pc'[a] # "hibernate"
        BY <1>1, <2>1, CallTable DEF Again, Goto
      <4> QED BY <4>1, <4>2
    <3> QED BY <3>1, <3>2, <3>3
  <2>2. CASE op # "pause"
    BY <2>2, <1>5, CallTable
  <2> QED BY <2>1, <2>2
<1>7. CASE op = "kill"
  <2>1. pc'[a] \in CleanPlaces /\ late' \in {late, late \cup {"kill"}} /\ (box' = box \/ box' = "TERMINATED")
    BY <1>7, <1>3, <1>5, CallTable DEF CleanPlaces
  <2>2. StartInv'
    BY <2>1, <1>3, <1>4, Actors
       DEF SleepInv, StartInv, CleanPlaces, StartEarly, StartUnrecorded
  <2>3. BeforeInv'
    BY <2>1, <1>3, <1>4, Actors DEF SleepInv, BeforeInv, Before, BeforePlaces
  <2>4. AsleepInv' /\ SweepInv'
    BY <2>1, <1>3, <1>4, Actors DEF SleepInv, AsleepInv, SweepInv, CleanPlaces
  <2> QED BY <2>2, <2>3, <2>4 DEF SleepInv
<1>8. CASE op = "pause"
  <2>1. a = "start"
    BY <1>3, <1>8, CallTable, Actors
       DEF Types, PcInv, PlacesInv, Actor, SweepPlaces, RequestPlaces, BeforePlaces,
           CleanPlaces, DrivePlaces
  <2>2. /\ pc'["start"] \in {"pause", "settle_pause", "fail", "hibernate"}
        /\ late' \in {late, late \cup {"pause"}} /\ (box' = box \/ box' = "PAUSED")
    BY <2>1, <1>8, <1>3, <1>5, CallTable
  <2>3. StartInv'
    BY <2>1, <2>2, <1>3, <1>4, Actors DEF SleepInv, StartInv, StartEarly, StartUnrecorded
  <2>4. BeforeInv'
    BY <2>1, <2>2, <1>3, <1>4, Actors DEF SleepInv, BeforeInv, Before
  <2>5. AsleepInv' /\ SweepInv'
    BY <2>1, <2>2, <1>3, <1>4, <1>6, Actors DEF SleepInv, AsleepInv, SweepInv
  <2> QED BY <2>3, <2>4, <2>5 DEF SleepInv
<1>9. CASE op = "connect"
  <2>1. a \in Request /\ pc[a] \in {"connect", "settle_connect"}
    BY <1>3, <1>9, CallTable, Actors
       DEF Types, PcInv, PlacesInv, Actor, StartPlaces, StartEarly, StartUnrecorded,
           SweepPlaces, CleanPlaces
  <2>2. ~Before /\ ~Before'
    BY <2>1, <1>3 DEF SleepInv, BeforeInv, Before, BeforePlaces, CleanPlaces
  <2>3. late' \in {late, late \cup {"connect"}}
    BY <1>9, <1>3
  <2>4. StartInv' /\ BeforeInv' /\ SweepInv'
    BY <2>1, <2>2, <2>3, <1>3, <1>4, Actors DEF SleepInv, StartInv, BeforeInv, SweepInv
  <2>5. AsleepInv'
    BY <2>2, <1>3 DEF AsleepInv, Before
  <2> QED BY <2>4, <2>5 DEF SleepInv
<1> QED BY <1>7, <1>8, <1>9

\* A late call: before the claim it can only pause or kill, once the row is
\* PREPARED.
LEMMA WorldSleep ==
  ASSUME Types, SleepInv,
         Reclaim \/ UNCHANGED vars \/ \E op \in late : LateCall(op) PROVE SleepInv'
<1>1. CASE Reclaim \/ UNCHANGED vars
  <2>1. (box' = box \/ box' = "TERMINATED") /\ UNCHANGED <<row, late, pc, loc>>
    BY <1>1 DEF Reclaim, vars, world
  <2> QED BY <2>1 DEF SleepInv, StartInv, BeforeInv, AsleepInv, SweepInv, Before
<1>2. ASSUME NEW op \in late, LateCall(op) PROVE SleepInv'
  <2>1. UNCHANGED <<row, pc, loc>> /\ late' \subseteq late
    BY <1>2 DEF LateCall
  <2>2. op \in {"create", "pause", "connect", "kill"}
    BY <1>2 DEF Types, DataTypes, WorldTypes
  <2>3. op \in {"pause", "kill"} => box' \in {box, "PAUSED", "TERMINATED"}
    BY <1>2, CallTable DEF LateCall
  <2>4. row.state \in {"PREPARED", "HIBERNATED"} => op \in {"pause", "kill"}
    BY <2>2 DEF SleepInv, StartInv, BeforeInv, Before
  <2>5. StartInv' /\ BeforeInv' /\ SweepInv'
    BY <2>1 DEF SleepInv, StartInv, BeforeInv, SweepInv, Before
  <2>6. AsleepInv'
    BY <2>1, <2>3, <2>4 DEF SleepInv, AsleepInv
  <2> QED BY <2>5, <2>6 DEF SleepInv
<1> QED BY <1>1, <1>2

\* Every step keeps it.
LEMMA SleepStep == Types /\ SleepInv /\ [Next]_vars => SleepInv'
<1> SUFFICES ASSUME Types, SleepInv, [Next]_vars PROVE SleepInv'
  OBVIOUS
<1>1. pc \in [Actor -> Places] /\ loc \in [Actor -> Local]
  BY DEF Types, DataTypes, PcInv
<1>2. ASSUME NEW a \in Actor, Crash(a) PROVE SleepInv'
  <2>1. UNCHANGED <<row, box, late>> /\ Return(a)
    BY <1>2 DEF Crash, world
  <2>2. /\ pc'[a] = IF a = "start" THEN "done" ELSE "idle"
        /\ \A b \in Actor : b # a => pc'[b] = pc[b]
        /\ \A b \in Actor : b # a => loc'[b] = loc[b]
    BY <1>1, <2>1 DEF Return, Goto
  <2> QED BY <2>1, <2>2, SleepMoves, Actors
<1>3. ASSUME NEW q \in Request, OwnerCleansUp(q) PROVE SleepInv'
  <2>1. UNCHANGED <<row, box, late, loc>> /\ Goto(q, "cleanup")
    BY <1>3 DEF OwnerCleansUp, world
  <2>2. pc'[q] = "cleanup" /\ \A b \in Actor : b # q => pc'[b] = pc[b]
    BY <1>1, <2>1, Actors DEF Goto
  <2>3. pc'[q] \in CleanPlaces
    BY <2>2 DEF CleanPlaces
  <2> QED BY <2>1, <2>2, <2>3, SleepMoves, Actors
<1> QED BY <1>2, <1>3, StartSleep, CleanSleep, GatewaySleep, ControllerSleep, SweepSleep,
           WorldSleep DEF Next

\* It holds in the first state.
LEMMA InitSleep == Init => SleepInv
  BY Actors
     DEF Init, SleepInv, StartInv, BeforeInv, AsleepInv, SweepInv, Before, BeforePlaces

\* Whatever is interleaved, refused, abandoned or applied late, the row, the
\* sandbox, the token and what each actor remembers stay well-formed.
THEOREM SandboxTypes == Spec => []TypeOK
<1> QED BY InitTypes, TypesStep, TypesAreTypeOK, PTL DEF Spec

\* HIBERNATED is written on a sighting: while the row says it, the sandbox is not
\* on billed time, whoever wrote it and whatever applies late.
THEOREM HibernationIsFree == Spec => []HibernatedIsNotBilled
<1>1. Init => Types /\ SleepInv
  BY InitTypes, InitSleep
<1>2. Types /\ SleepInv /\ [Next]_vars => Types' /\ SleepInv'
  BY TypesStep, SleepStep
<1>3. SleepInv => HibernatedIsNotBilled
  BY DEF SleepInv, AsleepInv, HibernatedIsNotBilled
<1> QED BY <1>1, <1>2, <1>3, PTL DEF Spec

-----------------------------------------------------------------------------
\* The actors that do not move.
Others(a) == \A b \in Actor : b # a => pc'[b] = pc[b] /\ loc'[b] = loc[b]

\* start_session moves itself,
LEMMA StartOthers == ASSUME Types, StartNext PROVE Others("start")
  BY DEF Types, DataTypes, PcInv, Others, StartNext, CreateSession, Mint, Create, Record,
         Bootstrap, Prepared, Hibernate,
         Goto, Return, Forget

\* a cleanup whoever runs it,
LEMMA CleanOthers == ASSUME Types, NEW a \in Actor, CleanupNext(a) PROVE Others(a)
  BY DEF Types, DataTypes, PcInv, Others, CleanupNext, Fail, MarkFailed, Cleanup, CleanupOver, Revoke,
         Close, Terminate,
         Goto, Return, Forget

\* a gateway call its caller,
LEMMA GatewayOthers == ASSUME Types, NEW a \in Actor, GatewayNext(a) PROVE Others(a)
<1>1. PICK op \in DOMAIN Target : \/ CallApplies(a, op) \/ CallFindsNothing(a, op) \/ CallRefused(a, op)
    \/ CallAbandoned(a, op) \/ SettleAfter(a, op)
  BY DEF GatewayNext
<1> QED BY <1>1
           DEF Types, DataTypes, PcInv, Others, CallApplies, CallFindsNothing, CallRefused,
               CallAbandoned,
         SettleAfter, Through, Again, Goto

\* on_model_ready its request,
LEMMA ControllerOthers ==
  ASSUME Types, NEW c \in Request, ControllerNext(c)
  PROVE  Others(c)
  BY Actors
     DEF Types, DataTypes, PcInv, Others, ControllerNext, ModelReady, HeadModel, Claim,
         Verify, Resumed, Deliver,
         Lookup, List, Post, Note, Evaluate, Await, Accept, Goto, Return, Forget

\* and the reconciler itself.
LEMMA SweepOthers ==
  ASSUME Types,
         SweepLists \/ SweepJudges \/ SweepExpires \/ SweepCatchesUp PROVE Others("sweep")
  BY DEF Types, DataTypes, PcInv, Others, SweepLists, SweepJudges, SweepExpires,
         SweepCatchesUp, Goto, Return, Forget

-----------------------------------------------------------------------------
\* No job, and nobody new who drives or posts.
LEMMA DriverMoves ==
  ASSUME OneDriver, UNCHANGED <<jobs, blind>>,
         \A c \in Request : pc'[c] = pc[c] \/ pc'[c] \notin DrivePlaces \/ (pc[c] \in DrivePlaces /\ pc'[c] # "post")
  PROVE  OneDriver'
  BY DEF OneDriver, Driving, DrivePlaces

\* A second controller that joins one that drives is blind; the claim finds none;
\* a job is posted by the one that drives, after a list without it.
LEMMA ControllerDriver ==
  ASSUME Types, SleepInv, OneDriver, NEW c \in Request, ControllerNext(c)
  PROVE  OneDriver'
<1>1. /\ pc \in [Actor -> Places] /\ c \in Actor /\ Request \subseteq Actor /\ jobs \in Nat /\ blind \in BOOLEAN
      /\ \A d \in Request : d # c => pc'[d] = pc[d]
  BY Actors, ControllerOthers DEF Types, DataTypes, WorldTypes, PcInv, Others
<1>2. CASE ModelReady(c)
  <2>1. CASE Return(c) /\ UNCHANGED <<jobs, blind>>
    <3>1. pc'[c] = "idle"
      BY <2>1, <1>1, Actors DEF Return, Goto
    <3> QED BY <2>1, <3>1, <1>1, DriverMoves DEF DrivePlaces
  <2>2. CASE ~(Return(c) /\ UNCHANGED <<jobs, blind>>)
    <3> DEFINE wakes == row.state = "RESUMING" \/ (row.state = "ACTIVE" /\ row.marker)
    <3>1. /\ jobs' = jobs /\ pc[c] = "idle"
          /\ blind' = (blind \/ (wakes /\ \E d \in Request : Driving(d)))
          /\ \/ Goto(c, "join") /\ row.state = "EVALUATING"
             \/ Goto(c, "head") /\ row.state = "HIBERNATED"
             \/ Goto(c, "connect") /\ wakes
      BY <1>2, <2>2 DEF ModelReady, Wakes
    <3>2. pc'[c] \in {"join", "head", "connect"} /\ (pc'[c] = "connect" => wakes)
      BY <3>1, <1>1 DEF Goto
    <3>3. ~blind' => ~blind /\ (wakes => \A d \in Request : ~Driving(d))
      BY <3>1, <1>1
    <3>4. Driving(c)' => wakes
      BY <3>2 DEF Driving
    <3>5. \A d \in Request : d # c => (Driving(d)' <=> Driving(d))
      BY <1>1 DEF Driving
    <3> HIDE DEF wakes
    <3>6. ASSUME ~blind', NEW d \in Request, NEW e \in Request, Driving(d)',
                 Driving(e)' PROVE d = e
      BY <3>3, <3>4, <3>5, <3>6 DEF OneDriver
    <3>7. ~blind' => (\A d \in Request : pc'[d] = "post" => jobs' = 0) /\ jobs' <= 1
      BY <3>1, <3>2, <3>3, <1>1 DEF OneDriver
    <3> QED BY <3>6, <3>7 DEF OneDriver
  <2> QED BY <2>1, <2>2
<1>3. CASE Claim(c)
  <2>1. UNCHANGED <<jobs, blind>>
    BY <1>3 DEF Claim, world
  <2>2. CASE Return(c)
    <3>1. pc'[c] = "idle"
      BY <2>2, <1>1, Actors DEF Return, Goto
    <3> QED BY <2>1, <3>1, <1>1, DriverMoves DEF DrivePlaces
  <2>3. CASE ~Return(c)
    <3>1. row.state = "HIBERNATED" /\ Goto(c, "connect")
      BY <1>3, <2>3 DEF Claim, Transition
    <3>2. \A d \in Request : ~Driving(d)
      BY <3>1 DEF SleepInv, BeforeInv, Before, Driving, BeforePlaces, CleanPlaces
    <3>3. pc'[c] = "connect"
      BY <3>1, <1>1 DEF Goto
    <3> QED BY <2>1, <3>2, <3>3, <1>1 DEF OneDriver, Driving
  <2> QED BY <2>2, <2>3
<1>4. CASE List(c)
  <2>1. /\ jobs' = jobs /\ pc[c] = "list"
        /\ \/ Goto(c, "note") /\ blind' = blind
           \/ Goto(c, "post") /\ jobs = 0 /\ blind' = blind
           \/ blind' = TRUE
    BY <1>4 DEF List
  <2>2. CASE blind'
    BY <2>2 DEF OneDriver
  <2>3. CASE ~blind'
    <3>1. ~blind /\ pc'[c] \in {"note", "post"} /\ (pc'[c] = "post" => jobs = 0)
      BY <2>1, <2>3, <1>1 DEF Goto
    <3> QED BY <2>1, <3>1, <1>1 DEF OneDriver, Driving
  <2> QED BY <2>2, <2>3
<1>5. CASE Post(c)
  <2>1. /\ pc[c] = "post" /\ blind' = blind /\ jobs' \in {jobs, jobs + 1}
        /\ Goto(c, "note") \/ Goto(c, "fail")
    BY <1>5 DEF Post
  <2>2. pc'[c] \in {"note", "fail"}
    BY <2>1, <1>1 DEF Goto
  <2>3. ASSUME ~blind PROVE jobs = 0 /\ \A d \in Request : pc[d] = "post" => d = c
    BY <2>1, <2>3 DEF OneDriver, Driving
  <2> QED BY <2>1, <2>2, <2>3, <1>1 DEF OneDriver, Driving
<1>6. ASSUME UNCHANGED <<jobs, blind>>, NEW w, Goto(c, w),
             w \notin DrivePlaces \/ (pc[c] \in DrivePlaces /\ w # "post")
      PROVE  OneDriver'
  <2>1. pc'[c] = w
    BY <1>1, <1>6 DEF Goto
  <2> QED BY <1>1, <1>6, <2>1, DriverMoves
<1>7. CASE Verify(c) \/ Deliver(c) \/ Lookup(c) \/ Note(c) \/ Resumed(c) \/ Evaluate(c)
  <2>1. UNCHANGED <<jobs, blind>>
    BY <1>7 DEF Verify, Deliver, Lookup, Note, Resumed, Evaluate, world
  <2>2. /\ pc[c] \in DrivePlaces
        /\ \/ Goto(c, "resumed") \/ Goto(c, "deliver") \/ Goto(c, "fail")
           \/ Goto(c, "lookup")
           \/ Goto(c, "evaluate") \/ Goto(c, "list") \/ Goto(c, "await")
           \/ Goto(c, IF c = "start" THEN "done" ELSE "idle")
    BY <1>7 DEF Verify, Deliver, Lookup, Note, Resumed, Evaluate, DrivePlaces, Return
  <2> QED BY <1>6, <2>1, <2>2
<1>8. CASE HeadModel(c) \/ Await(c) \/ Accept(c)
  <2>1. UNCHANGED <<jobs, blind>>
    BY <1>8 DEF HeadModel, Await, Accept, world
  <2>2. \/ Goto(c, "claim") \/ Goto(c, "accept") \/ Goto(c, "fail") \/ Goto(c, "cleanup")
        \/ Goto(c, IF c = "start" THEN "done" ELSE "idle")
    BY <1>8 DEF HeadModel, Await, Accept, Return
  <2> QED BY <1>6, <2>1, <2>2 DEF DrivePlaces
<1> QED BY <1>2, <1>3, <1>4, <1>5, <1>7, <1>8 DEF ControllerNext

\* Every step keeps it.
LEMMA DriverStep == Types /\ SleepInv /\ OneDriver /\ [Next]_vars => OneDriver'
<1> SUFFICES ASSUME Types, SleepInv, OneDriver, [Next]_vars PROVE OneDriver'
  OBVIOUS
<1>1. pc \in [Actor -> Places]
  BY DEF Types, PcInv
<1>2. CASE StartNext
  <2>1. UNCHANGED <<jobs, blind>>
    BY <1>2
       DEF StartNext, CreateSession, Mint, Create, Record, Bootstrap, Prepared, Hibernate,
           world
  <2> QED BY <1>2, <2>1, StartOthers, Actors, DriverMoves DEF Others
<1>3. CASE SweepLists \/ SweepJudges \/ SweepExpires \/ SweepCatchesUp
  <2>1. UNCHANGED <<jobs, blind>>
    BY <1>3 DEF SweepLists, SweepJudges, SweepExpires, SweepCatchesUp, world
  <2> QED BY <1>3, <2>1, SweepOthers, Actors, DriverMoves DEF Others
<1>4. ASSUME NEW a \in Actor, CleanupNext(a) PROVE OneDriver'
  <2>1. UNCHANGED <<jobs, blind>>
    BY <1>4 DEF CleanupNext, Fail, MarkFailed, Cleanup, CleanupOver, Revoke, Close, Terminate, world
  <2>2. Goto(a, "cleanup") \/ Goto(a, "mark") \/ Goto(a, "kill") \/ Goto(a, "revoke") \/ Goto(a, "close") \/ Goto(a, "terminate") \/ Return(a)
    BY <1>4 DEF CleanupNext, Fail, MarkFailed, Cleanup, CleanupOver, Revoke, Close, Terminate
  <2>3. pc'[a] \notin DrivePlaces
    BY <1>1, <2>2 DEF Goto, Return, DrivePlaces
  <2> QED BY <1>4, <2>1, <2>3, CleanOthers, Actors, DriverMoves DEF Others
<1>5. ASSUME NEW a \in Actor, GatewayNext(a) PROVE OneDriver'
  <2>1. PICK op \in {"pause", "connect", "kill"} : \/ CallApplies(a, op) \/ CallFindsNothing(a, op) \/ CallRefused(a, op)
        \/ CallAbandoned(a, op) \/ SettleAfter(a, op)
    BY <1>5, CallTable DEF GatewayNext
  <2>2. UNCHANGED <<jobs, blind>> /\ pc[a] \in {op, Settle[op]}
    BY <2>1
       DEF CallApplies, CallFindsNothing, CallRefused, CallAbandoned, SettleAfter, world
  <2>3. pc'[a] \in {op, Settle[op], Giveup[op], Success[op]}
    BY <1>1, <2>1
       DEF CallApplies, CallFindsNothing, CallRefused, CallAbandoned, SettleAfter, Through,
           Again, Goto
  <2>4. pc'[a] \notin DrivePlaces \/ (pc[a] \in DrivePlaces /\ pc'[a] # "post")
    BY <2>2, <2>3, CallTable DEF DrivePlaces
  <2> QED BY <1>5, <2>2, <2>4, GatewayOthers, Actors, DriverMoves DEF Others
<1>6. ASSUME NEW a \in Actor, Crash(a) PROVE OneDriver'
  <2>1. UNCHANGED <<jobs, blind>> /\ Return(a)
    BY <1>6 DEF Crash, world
  <2>2. pc'[a] \in {"idle", "done"} /\ \A b \in Actor : b # a => pc'[b] = pc[b]
    BY <1>1, <2>1 DEF Return, Goto
  <2> QED BY <2>1, <2>2, Actors, DriverMoves DEF DrivePlaces
<1>7. ASSUME NEW q \in Request, OwnerCleansUp(q) PROVE OneDriver'
  <2>1. UNCHANGED <<jobs, blind>> /\ Goto(q, "cleanup")
    BY <1>7 DEF OwnerCleansUp, world
  <2>2. pc'[q] = "cleanup" /\ \A b \in Actor : b # q => pc'[b] = pc[b]
    BY <1>1, <2>1, Actors DEF Goto
  <2> QED BY <2>1, <2>2, Actors, DriverMoves DEF DrivePlaces
<1>8. CASE (\E op \in late : LateCall(op)) \/ Reclaim \/ UNCHANGED vars
  BY <1>8 DEF LateCall, Reclaim, vars, world, OneDriver, Driving
<1> QED BY <1>2, <1>3, <1>4, <1>5, <1>6, <1>7, <1>8, ControllerDriver DEF Next

\* Two evaluation jobs of one session take two controllers driving at once or a
\* listing that failed: no crash, no lost answer and no late call is enough.
THEOREM OneEvaluationIsAsked == Spec => []OneEvaluation
<1>1. Init => Types /\ SleepInv /\ OneDriver
  <2>1. Init => OneDriver
    BY Actors DEF Init, OneDriver, Driving
  <2> QED BY <2>1, InitTypes, InitSleep
<1>2. Types /\ SleepInv /\ OneDriver /\ [Next]_vars => Types' /\ SleepInv' /\ OneDriver'
  BY TypesStep, SleepStep, DriverStep
<1>3. Types /\ OneDriver => OneEvaluation
  BY DEF Types, DataTypes, WorldTypes, OneDriver, OneEvaluation
<1> QED BY <1>1, <1>2, <1>3, PTL DEF Spec

-----------------------------------------------------------------------------
\* What a step of one actor must show to keep SettledInv.
LEMMA SettleMoves ==
  ASSUME SettledInv, NEW a \in Actor, Others(a),
         SandboxGone => SandboxGone', TokenRevoked => TokenRevoked',
         pc'[a] = "revoke" /\ loc'[a].killed /\ ~loc'[a].early => SandboxGone',
         pc'[a] \in {"close", "terminate"} /\ ~loc'[a].early => SandboxGone' /\ TokenRevoked',
         pc'[a] \in {"kill", "settle_kill"} => ~loc'[a].killed,
         pc'[a] \in {"kill", "settle_kill", "revoke"} /\ ~loc'[a].machine /\ ~loc'[a].early => TokenRevoked',
         row'.state = "TERMINATED" /\ ~early' =>
           \/ row.state = "TERMINATED" /\ ~early
           \/ SandboxGone' /\ TokenRevoked' /\ pc'["start"] \notin StartUnrecorded,
         pc'["start"] \in StartUnrecorded => pc["start"] \in StartUnrecorded,
         a # "start" /\ pc'[a] \notin {"idle", "cleanup"} =>
           \/ pc["start"] \notin StartUnrecorded
           \/ pc'[a] \in {"revoke", "close", "terminate"} /\ loc'[a].early
  PROVE  SettledInv'
<1>1. CleanersAfterStart'
  BY Actors DEF SettledInv, CleanersAfterStart, Others
<1>2. GoneInv'
  BY DEF SettledInv, GoneInv, Others
<1>3. RevokedInv'
  BY DEF SettledInv, RevokedInv, Others
<1> QED BY <1>1, <1>2, <1>3 DEF SettledInv

\* A sandbox that is gone stays gone where nothing creates one.
LEMMA GoneStays ==
  ASSUME row'.sandbox = row.sandbox, box' \in {"RUNNING", "PAUSED"} => Alive, SandboxGone
  PROVE  SandboxGone'
  BY DEF SandboxGone, Alive

\* While start_session can still mint or create, who cleans up is too early.
LEMMA StartSettled == ASSUME Types, SleepInv, SettledInv, StartNext PROVE SettledInv'
<1>1. row \in Rows /\ pc \in [Actor -> Places] /\ Others("start")
  BY StartOthers DEF Types, DataTypes, PcInv
<1>2. pc'["start"] \notin {"revoke", "close", "terminate", "kill", "settle_kill"}
  <2>1. \/ Goto("start", "mint") \/ Goto("start", "create") \/ Goto("start", "record")
        \/ Goto("start", "fail")
        \/ Goto("start", "bootstrap") \/ Goto("start", "prepared")
        \/ Goto("start", "pause") \/ Goto("start", "done")
    BY DEF StartNext, CreateSession, Mint, Create, Record, Bootstrap, Prepared, Hibernate,
           Return
  <2> QED BY <1>1, <2>1, Actors DEF Goto
<1>3. CASE Bootstrap \/ Prepared \/ Hibernate
  <2>1. /\ UNCHANGED <<cred, unrevoked, early>> /\ pc["start"] \notin StartUnrecorded
        /\ Goto("start", "prepared") \/ Goto("start", "fail") \/ Goto("start", "pause") \/ Goto("start", "done")
        /\ box' \in {"RUNNING", "PAUSED"} => Alive
    BY <1>3 DEF Bootstrap, Prepared, Hibernate, StartUnrecorded, world, Return, Alive
  <2>2. \/ row' = row
        \/ row' = [row EXCEPT !.state = "PREPARED", !.marker = TRUE]
        \/ row' = [row EXCEPT !.state = "HIBERNATED"]
    BY <1>3 DEF Bootstrap, Prepared, Hibernate, Transition, Lost
  <2>3. row'.sandbox = row.sandbox /\ (row'.state = "TERMINATED" => row.state = "TERMINATED")
    BY <2>2, <1>1, RowMoves DEF Rows
  <2>4. pc'["start"] \notin StartUnrecorded
    BY <2>1, <1>1, Actors DEF Goto, StartUnrecorded
  <2>5. TokenRevoked => TokenRevoked'
    BY <2>1 DEF TokenRevoked
  <2> QED BY <1>1, <1>2, <2>1, <2>3, <2>4, <2>5, GoneStays, SettleMoves, Actors
<1>4. CASE CreateSession \/ Mint \/ Create \/ Record
  <2>1. pc["start"] \in StartUnrecorded
    BY <1>4 DEF CreateSession, Mint, Create, Record, StartUnrecorded
  <2>2. \A a \in Actor \ {"start"} :
          /\ pc'[a] = pc[a] /\ loc'[a] = loc[a]
          /\ \/ pc[a] \in {"idle", "cleanup"}
             \/ pc[a] \in {"revoke", "close", "terminate"} /\ loc[a].early
    BY <1>1, <2>1 DEF SettledInv, CleanersAfterStart, Others
  <2>3. early' = early /\ (row.state = "TERMINATED" => early)
    BY <1>4, <2>1 DEF SettledInv, RevokedInv, CreateSession, Mint, Create, Record, world
  <2>4. \/ row' = row \/ row' = [row EXCEPT !.state = "REQUESTED"]
        \/ row' = [row EXCEPT !.state = "ACTIVE", !.sandbox = TRUE]
    BY <1>4 DEF CreateSession, Mint, Create, Record, Lost
  <2>5. row'.state = "TERMINATED" => early'
    BY <2>3, <2>4, <1>1, RowMoves DEF Rows
  <2>6. CleanersAfterStart' /\ GoneInv' /\ RevokedInv'
    BY <2>2, <2>5, <1>2 DEF SettledInv, CleanersAfterStart, GoneInv, RevokedInv
  <2> QED BY <2>6 DEF SettledInv
<1> QED BY <1>3, <1>4 DEF StartNext

\* A cleanup: the sandbox was never recorded, or was killed before the revoke; the
\* machine is looked up before it; and the row is closed only after both.
LEMMA CleanSettled ==
  ASSUME Types, SleepInv, SettledInv, NEW a \in Actor, CleanupNext(a)
  PROVE  SettledInv'
<1>1. /\ row \in Rows /\ pc \in [Actor -> Places] /\ Others(a) /\ loc \in [Actor -> Local]
      /\ cred \in {"none", "active", "revoked"}
  BY CleanOthers DEF Types, DataTypes, PcInv, WorldTypes
<1>2. pc[a] \in CleanPlaces
  BY DEF CleanupNext, Fail, MarkFailed, Cleanup, CleanupOver, Revoke, Close, Terminate, CleanPlaces
<1>3. a = "start" \/ pc[a] \in {"fail", "mark", "kill", "settle_kill"} => pc["start"] \notin StartUnrecorded
  BY <1>2 DEF SettledInv, CleanersAfterStart, CleanPlaces, StartUnrecorded
<1>4. Goto(a, "cleanup") \/ Goto(a, "mark") \/ Goto(a, "kill") \/ Goto(a, "revoke") \/ Goto(a, "close") \/ Goto(a, "terminate") \/ Return(a)
  BY DEF CleanupNext, Fail, MarkFailed, Cleanup, CleanupOver, Revoke, Close, Terminate
<1>5. pc'["start"] \in StartUnrecorded => pc["start"] \in StartUnrecorded /\ a # "start"
  BY <1>1, <1>3, <1>4, Actors DEF Goto, Return, StartUnrecorded, Others
<1>6. /\ UNCHANGED box /\ (cred' = cred \/ cred' = "revoked") /\ (unrevoked' = unrevoked \/ unrevoked' = TRUE)
      /\ \/ row' = row \/ row' = [row EXCEPT !.state = "FAILED"]
         \/ Terminate(a) /\ row' = [row EXCEPT !.state = "TERMINATED"]
  BY DEF CleanupNext, Fail, MarkFailed, Cleanup, CleanupOver, Revoke, Close, Terminate, Transition,
         Lost, world
<1>7. row'.sandbox = row.sandbox /\ (row'.state = "TERMINATED" => row.state = "TERMINATED" \/ Terminate(a))
  BY <1>1, <1>6, RowMoves
<1>8. /\ SandboxGone => SandboxGone'
      /\ TokenRevoked => TokenRevoked'
  BY <1>6, <1>7 DEF SandboxGone, TokenRevoked, Alive
<1>0. ~Terminate(a) => early' = early
  BY DEF CleanupNext, Fail, MarkFailed, Cleanup, CleanupOver, Revoke, Close, world
<1>9. CASE Fail(a) \/ MarkFailed(a)
  <2>1. pc'[a] \in {"cleanup", "mark"} /\ pc[a] \in {"fail", "mark"}
    BY <1>1, <1>9 DEF Fail, MarkFailed, Goto
  <2>2. ~Terminate(a)
    BY <1>9 DEF Fail, MarkFailed, Terminate
  <2> QED BY <1>0, <1>1, <1>3, <1>5, <1>7, <1>8, <2>1, <2>2, SettleMoves
<1>10. CASE CleanupOver(a)
  <2>1. ~Terminate(a) /\ pc'[a] \in {"idle", "done"}
    BY <1>1, <1>10 DEF CleanupOver, Terminate, Return, Goto
  <2>2. a # "start" => pc'[a] = "idle"
    BY <1>1, <1>10 DEF CleanupOver, Return, Goto
  <2> QED BY <1>0, <1>1, <1>3, <1>5, <1>7, <1>8, <2>1, <2>2, SettleMoves
<1>14. CASE Cleanup(a)
  <2>1. ~Terminate(a)
    BY <1>14 DEF Cleanup, Terminate
  <2>2. PICK found \in BOOLEAN :
          /\ loc' = [loc EXCEPT ![a] = [Nowhere EXCEPT !.machine = found, !.killed = ~row.sandbox,
                                          !.tries = IF row.sandbox THEN 1 ELSE 0,
                                          !.early = pc["start"] \in StartUnrecorded]]
          /\ found = (cred # "none") \/ (~found /\ unrevoked' = TRUE)
    BY <1>14 DEF Cleanup
  <2>3. /\ loc'[a].machine = found
        /\ loc'[a].killed <=> ~row.sandbox
        /\ loc'[a].early <=> pc["start"] \in StartUnrecorded
    BY <1>1, <2>2 DEF Nowhere
  <2>4. pc'[a] = IF row.sandbox THEN "kill" ELSE "revoke"
    BY <1>1, <1>14 DEF Cleanup, Goto
  <2>5. ~row.sandbox => SandboxGone'
    BY <1>7 DEF SandboxGone
  <2>6. row.sandbox => pc["start"] \notin StartUnrecorded
    BY DEF SleepInv, StartInv
  <2>7. ~loc'[a].machine => TokenRevoked'
    BY <1>14, <2>2, <2>3 DEF Cleanup, TokenRevoked
  <2> QED BY <1>0, <1>1, <1>5, <1>7, <1>8, <2>1, <2>3, <2>4, <2>5, <2>6, <2>7, SettleMoves
<1>11. CASE Revoke(a)
  <2>1. ~Terminate(a) /\ pc[a] = "revoke"
    BY <1>11 DEF Revoke, Terminate
  <2>2. \/ pc'[a] = (IF a = "start" THEN "done" ELSE "idle")
        \/ pc'[a] = "close" /\ loc[a].killed /\ loc'[a].early = loc[a].early
    BY <1>1, <1>11 DEF Revoke, Goto, Return, Nowhere
  <2>3. loc[a].killed /\ ~loc[a].early => SandboxGone
    BY <1>11 DEF Revoke, SettledInv, GoneInv
  <2>4. ~loc[a].early => TokenRevoked'
    <3>1. ~loc[a].machine /\ ~loc[a].early => TokenRevoked
      BY <2>1 DEF SettledInv, RevokedInv
    <3> QED BY <1>11, <3>1 DEF Revoke, TokenRevoked
  <2>5. a # "start" => \/ pc["start"] \notin StartUnrecorded
                       \/ loc[a].early
    BY <2>1 DEF SettledInv, CleanersAfterStart
  <2> QED BY <1>0, <1>1, <1>5, <1>7, <1>8, <2>1, <2>2, <2>3, <2>4, <2>5, SettleMoves
<1>12. CASE Close(a)
  <2>1. ~Terminate(a) /\ pc[a] = "close"
    BY <1>12 DEF Close, Terminate
  <2>2. \/ pc'[a] = (IF a = "start" THEN "done" ELSE "idle")
        \/ pc'[a] = "terminate" /\ loc'[a].early = loc[a].early
    BY <1>1, <1>12 DEF Close, Goto, Return, Local
  <2>3. ~loc[a].early => SandboxGone /\ TokenRevoked
    BY <2>1 DEF SettledInv, GoneInv, RevokedInv
  <2>4. a # "start" => \/ pc["start"] \notin StartUnrecorded
                       \/ loc[a].early
    BY <2>1 DEF SettledInv, CleanersAfterStart
  <2> QED BY <1>0, <1>1, <1>5, <1>7, <1>8, <2>1, <2>2, <2>3, <2>4, SettleMoves
<1>13. CASE Terminate(a)
  <2>1. pc[a] = "terminate" /\ pc'[a] = (IF a = "start" THEN "done" ELSE "idle")
    BY <1>1, <1>13 DEF Terminate, Goto, Return
  <2>2. ~loc[a].early => SandboxGone /\ TokenRevoked
    BY <2>1 DEF SettledInv, GoneInv, RevokedInv
  <2>3. a # "start" /\ ~loc[a].early => pc["start"] \notin StartUnrecorded
    BY <2>1 DEF SettledInv, CleanersAfterStart
  <2>4. early' = loc[a].early \/ (row' = row /\ early' = early)
    BY <1>13 DEF Terminate, Lost
  <2> QED BY <1>1, <1>5, <1>7, <1>8, <2>1, <2>2, <2>3, <2>4, SettleMoves
<1> QED BY <1>9, <1>10, <1>11, <1>12, <1>13, <1>14 DEF CleanupNext

\* A kill counts when it applied, when the sandbox was found gone, or was seen gone.
LEMMA GatewaySettled ==
  ASSUME Types, SleepInv, SettledInv, NEW a \in Actor, GatewayNext(a)
  PROVE  SettledInv'
<1>1. /\ row \in Rows /\ pc \in [Actor -> Places] /\ Others(a) /\ loc \in [Actor -> Local]
  BY GatewayOthers DEF Types, DataTypes, PcInv
<1>2. PICK op \in {"pause", "connect", "kill"} : \/ CallApplies(a, op) \/ CallFindsNothing(a, op) \/ CallRefused(a, op)
        \/ CallAbandoned(a, op) \/ SettleAfter(a, op)
  BY CallTable DEF GatewayNext
<1>3. /\ UNCHANGED <<row, cred, unrevoked, early>> /\ pc[a] \in {op, Settle[op]}
      /\ box' = box \/ (Alive /\ box' = Target[op])
  BY <1>2 DEF CallApplies, CallFindsNothing, CallRefused, CallAbandoned, SettleAfter, world
<1>4. pc'[a] \in {op, Settle[op], Giveup[op], Success[op]}
  BY <1>1, <1>2
     DEF CallApplies, CallFindsNothing, CallRefused, CallAbandoned, SettleAfter, Through,
         Again, Goto
<1>5. /\ SandboxGone => SandboxGone'
      /\ TokenRevoked => TokenRevoked'
  BY <1>3 DEF SandboxGone, TokenRevoked, Alive
<1>6. pc["start"] \notin StartUnrecorded
  BY <1>3, CallTable DEF SettledInv, CleanersAfterStart, StartUnrecorded
<1>7. pc'["start"] \notin StartUnrecorded
  BY <1>1, <1>4, <1>6, CallTable, Actors DEF Others, StartUnrecorded
<1>8. CASE op # "kill"
  <2>1. pc'[a] \notin {"revoke", "close", "terminate", "kill", "settle_kill"}
    BY <1>8, <1>4, CallTable
  <2> QED BY <1>1, <1>3, <1>5, <1>6, <1>7, <2>1, SettleMoves
<1>9. CASE op = "kill"
  <2>1. pc'[a] \in {"kill", "settle_kill", "revoke"}
    BY <1>9, <1>4, CallTable
  <2>2. ~loc[a].killed /\ (~loc[a].machine /\ ~loc[a].early => TokenRevoked)
    BY <1>3, <1>9, CallTable DEF SettledInv, GoneInv, RevokedInv
  <2>3. loc'[a].machine = loc[a].machine /\ loc'[a].early = loc[a].early
    BY <1>1, <1>2
       DEF CallApplies, CallFindsNothing, CallRefused, CallAbandoned, SettleAfter, Through,
           Again, Local
  <2>4. CASE Through(a, op) /\ box' \notin {"RUNNING", "PAUSED"}
    <3>1. SandboxGone' /\ pc'[a] = "revoke"
      BY <2>4, <1>1, <1>9, CallTable DEF SandboxGone, Alive, Through, Goto
    <3> QED BY <1>1, <1>3, <1>5, <1>6, <1>7, <2>2, <2>3, <3>1, SettleMoves
  <2>5. CASE loc'[a].killed = loc[a].killed
    BY <1>1, <1>3, <1>5, <1>6, <1>7, <2>1, <2>2, <2>3, <2>5, SettleMoves
  <2>6. ASSUME Again(a, op) PROVE loc'[a].killed = loc[a].killed
    BY <1>1, <2>6 DEF Again, Local
  <2>7. ASSUME loc' = [loc EXCEPT ![a].tries = 0] PROVE loc'[a].killed = loc[a].killed
    BY <1>1, <2>7 DEF Local
  <2>8. \/ Through(a, op) /\ box' \notin {"RUNNING", "PAUSED"}
        \/ Again(a, op) \/ loc' = [loc EXCEPT ![a].tries = 0] \/ loc' = loc
    BY <1>2, <1>9, CallTable
       DEF CallApplies, CallFindsNothing, CallRefused, CallAbandoned, SettleAfter, Alive
  <2> QED BY <2>4, <2>5, <2>6, <2>7, <2>8
<1> QED BY <1>8, <1>9

\* on_model_ready needs a recorded sandbox, and brings back none that is gone.
LEMMA ControllerSettled ==
  ASSUME Types, SleepInv, SettledInv, NEW c \in Request, ControllerNext(c)
  PROVE  SettledInv'
<1>1. /\ row \in Rows /\ pc \in [Actor -> Places] /\ Others(c) /\ c \in Actor /\ c # "start"
  BY ControllerOthers, Actors DEF Types, DataTypes, PcInv
<1>2. pc'["start"] = pc["start"]
  BY <1>1, Actors DEF Others
<1>3. UNCHANGED <<cred, unrevoked, early>> /\ (box' = box \/ Alive)
  BY DEF ControllerNext, ModelReady, HeadModel, Claim, Verify, Resumed, Deliver, Lookup,
         List, Post, Note, Evaluate,
         Await, Accept, world
<1>4. \/ row' = row
      \/ row' = [row EXCEPT !.state = "RESUMING"] \/ row' = [row EXCEPT !.state = "ACTIVE"]
      \/ row' = [row EXCEPT !.state = "EVALUATING", !.job = loc[c].job]
      \/ row' = [row EXCEPT !.state = "SUCCEEDED"]
  BY DEF ControllerNext, ModelReady, HeadModel, Claim, Verify, Resumed, Deliver, Lookup,
         List, Post, Note, Evaluate,
         Await, Accept, Transition, Lost
<1>5. row'.sandbox = row.sandbox /\ (row'.state = "TERMINATED" => row.state = "TERMINATED")
  <2>1. ASSUME NEW to,
               row' = [row EXCEPT !.state = to] PROVE row'.state = to /\ row'.sandbox = row.sandbox
    BY <1>1, <2>1, RowMoves
  <2>2. ASSUME NEW j, row' = [row EXCEPT !.state = "EVALUATING", !.job = j]
        PROVE  row'.state = "EVALUATING" /\ row'.sandbox = row.sandbox
    BY <1>1, <2>2 DEF Rows
  <2> QED BY <1>4, <2>1, <2>2
<1>6. /\ SandboxGone => SandboxGone'
      /\ TokenRevoked => TokenRevoked'
  BY <1>3, <1>5 DEF SandboxGone, TokenRevoked, Alive
<1>7. pc'[c] \notin {"revoke", "close", "terminate", "kill", "settle_kill"}
  <2>1. \/ Return(c) \/ Goto(c, "head") \/ Goto(c, "claim") \/ Goto(c, "connect")
        \/ Goto(c, "join") \/ Goto(c, "resumed")
        \/ Goto(c, "deliver") \/ Goto(c, "lookup") \/ Goto(c, "fail") \/ Goto(c, "list")
        \/ Goto(c, "post") \/ Goto(c, "note")
        \/ Goto(c, "evaluate") \/ Goto(c, "await") \/ Goto(c, "accept")
        \/ Goto(c, "cleanup")
    BY DEF ControllerNext, ModelReady, HeadModel, Claim, Verify, Resumed, Deliver, Lookup,
           List, Post, Note, Evaluate,
      Await, Accept
  <2> QED BY <1>1, <2>1 DEF Return, Goto
<1>8. pc'[c] \notin {"idle", "cleanup"} => pc["start"] \notin StartUnrecorded
  <2>1. CASE ModelReady(c)
    <3>1. pc'[c] # "idle" => row.sandbox
      BY <1>1, <2>1 DEF ModelReady, Return, Goto
    <3> QED BY <3>1 DEF SleepInv, StartInv
  <2>2. CASE ~ModelReady(c)
    <3>1. pc[c] \notin {"idle", "cleanup", "revoke", "close", "terminate"}
      BY <2>2
         DEF ControllerNext, HeadModel, Claim, Verify, Resumed, Deliver, Lookup, List,
             Post, Note, Evaluate,
         Await, Accept
    <3> QED BY <1>1, <3>1 DEF SettledInv, CleanersAfterStart
  <2> QED BY <2>1, <2>2
<1> QED BY <1>1, <1>2, <1>3, <1>5, <1>6, <1>7, <1>8, SettleMoves

\* The reconciler lists only rows with a recorded sandbox.
LEMMA SweepSettled ==
  ASSUME Types, SleepInv, SettledInv,
         SweepLists \/ SweepJudges \/ SweepExpires \/ SweepCatchesUp PROVE SettledInv'
<1>1. row \in Rows /\ pc \in [Actor -> Places] /\ Others("sweep")
  BY SweepOthers DEF Types, DataTypes, PcInv
<1>2. pc'["start"] = pc["start"]
  BY <1>1, Actors DEF Others
<1>3. UNCHANGED <<cred, unrevoked, early, box>> /\ (row' = row \/ row' = [row EXCEPT !.state = "HIBERNATED"])
  BY DEF SweepLists, SweepJudges, SweepExpires, SweepCatchesUp, world, Transition, Lost
<1>4. row'.sandbox = row.sandbox /\ (row'.state = "TERMINATED" => row.state = "TERMINATED")
  BY <1>1, <1>3, RowMoves
<1>5. /\ SandboxGone => SandboxGone'
      /\ TokenRevoked => TokenRevoked'
  BY <1>3, <1>4 DEF SandboxGone, TokenRevoked, Alive
<1>6. pc'["sweep"] \notin {"revoke", "close", "terminate", "kill", "settle_kill"}
  <2>1. \/ Return("sweep") \/ Goto("sweep", "inspect") \/ Goto("sweep", "cleanup")
        \/ Goto("sweep", "fail")
        \/ Goto("sweep", "catchup") \/ Goto("sweep", "idle")
    BY DEF SweepLists, SweepJudges, SweepExpires, SweepCatchesUp
  <2> QED BY <1>1, <2>1, Actors DEF Return, Goto
<1>7. pc["start"] \notin StartUnrecorded
  <2>1. pc["sweep"] \notin {"idle", "cleanup", "revoke", "close", "terminate"} \/ row.sandbox
    BY DEF SweepLists, SweepJudges, SweepExpires, SweepCatchesUp, Unfinished
  <2> QED BY <2>1, Actors DEF SettledInv, CleanersAfterStart, SleepInv, StartInv
<1> QED BY <1>1, <1>2, <1>3, <1>4, <1>5, <1>6, <1>7, Actors, SettleMoves

\* A late create belongs to a session that recorded no sandbox.
LEMMA WorldSettled ==
  ASSUME Types, SleepInv, SettledInv,
         Reclaim \/ UNCHANGED vars \/ \E op \in late : LateCall(op) PROVE SettledInv'
<1>1. UNCHANGED <<row, pc, loc, cred, unrevoked, early>>
  BY DEF Reclaim, vars, world, LateCall
<1>2. SandboxGone => SandboxGone'
  <2>1. CASE Reclaim \/ UNCHANGED vars
    BY <1>1, <2>1 DEF Reclaim, vars, SandboxGone, Alive
  <2>2. ASSUME NEW op \in late, LateCall(op) PROVE SandboxGone => SandboxGone'
    <3>1. op # "create" => (box' = box \/ Alive)
      BY <2>2 DEF LateCall
    <3>2. op = "create" => ~row.sandbox
      BY <2>2 DEF SleepInv, StartInv
    <3> QED BY <1>1, <3>1, <3>2 DEF SandboxGone, Alive
  <2> QED BY <2>1, <2>2
<1>3. CleanersAfterStart' /\ GoneInv' /\ RevokedInv'
  BY <1>1, <1>2 DEF SettledInv, CleanersAfterStart, GoneInv, RevokedInv, TokenRevoked
<1> QED BY <1>3 DEF SettledInv

\* Every step keeps it.
LEMMA SettledStep == Types /\ SleepInv /\ SettledInv /\ [Next]_vars => SettledInv'
<1> SUFFICES ASSUME Types, SleepInv, SettledInv, [Next]_vars PROVE SettledInv'
  OBVIOUS
<1>1. pc \in [Actor -> Places] /\ loc \in [Actor -> Local]
  BY DEF Types, DataTypes, PcInv
<1>2. ASSUME NEW a \in Actor, Crash(a) PROVE SettledInv'
  <2>1. UNCHANGED <<row, box, cred, unrevoked, early>> /\ Return(a)
    BY <1>2 DEF Crash, world
  <2>2. pc'[a] = (IF a = "start" THEN "done" ELSE "idle") /\ Others(a)
    BY <1>1, <2>1 DEF Return, Goto, Others
  <2>3. (SandboxGone => SandboxGone') /\ (TokenRevoked => TokenRevoked')
    BY <2>1 DEF SandboxGone, TokenRevoked, Alive
  <2>4. pc'["start"] \in StartUnrecorded => pc["start"] \in StartUnrecorded
    BY <2>2, Actors DEF Others, StartUnrecorded
  <2> QED BY <2>1, <2>2, <2>3, <2>4, Actors, SettleMoves
<1>3. ASSUME NEW q \in Request, OwnerCleansUp(q) PROVE SettledInv'
  <2>1. UNCHANGED <<row, box, cred, unrevoked, early, loc>> /\ Goto(q, "cleanup")
    BY <1>3 DEF OwnerCleansUp, world
  <2>2. pc'[q] = "cleanup" /\ Others(q)
    BY <1>1, <2>1, Actors DEF Goto, Others
  <2>3. (SandboxGone => SandboxGone') /\ (TokenRevoked => TokenRevoked')
    BY <2>1 DEF SandboxGone, TokenRevoked, Alive
  <2>4. pc'["start"] = pc["start"]
    BY <2>2, Actors DEF Others
  <2> QED BY <2>1, <2>2, <2>3, <2>4, Actors, SettleMoves
<1> QED BY <1>2, <1>3, StartSettled, CleanSettled, GatewaySettled, ControllerSettled,
           SweepSettled, WorldSettled DEF Next

\* A TERMINATED row, which is swept no more, leaves no sandbox that runs and no
\* token that works, whoever cleaned up and whatever failed: but where revoking
\* the token failed, its machine could not be looked up, or the cleanup read the
\* row before start_session had filled it in.
THEOREM TerminatedSessionIsOver == Spec => []TerminatedIsOver
<1>1. Init => Types /\ SleepInv /\ SettledInv
  <2>1. Init => SettledInv
    BY Actors DEF Init, SettledInv, CleanersAfterStart, GoneInv, RevokedInv
  <2> QED BY <2>1, InitTypes, InitSleep
<1>2. Types /\ SleepInv /\ SettledInv /\ [Next]_vars => Types' /\ SleepInv' /\ SettledInv'
  BY TypesStep, SleepStep, SettledStep
<1>3. SettledInv => TerminatedIsOver
  BY DEF SettledInv, GoneInv, RevokedInv, TerminatedIsOver
<1> QED BY <1>1, <1>2, <1>3, PTL DEF Spec

-----------------------------------------------------------------------------
\* Before there is a row nobody is at work, and there is nothing to work on.
NothingYet ==
  row.state = "none" => (\A a \in Actor : pc[a] = "idle") /\ box = "NONE" /\ late = {}

\* Who fails or ends a session has read a state that can be left that way.
ReadInv ==
  \A a \in Actor : /\ pc[a] = "mark" => loc[a].state \notin {"none", "FAILED", "TERMINATED"}
                   /\ pc[a] = "terminate" => loc[a].state \notin {"none", "TERMINATED"}

\* Who is about to record a job has it from the coordinator.
JobsInv ==
  /\ row.job \in 0..jobs /\ noted \in 0..jobs
  /\ row.job # 0 => row.state \in {"EVALUATING", "SUCCEEDED", "FAILED", "TERMINATED"}
  /\ \A c \in Request : pc[c] \in {"note", "evaluate"} => loc[c].job \in 1..jobs

\* Who drives drives a sandbox that was prepared.
DriveInv == \A c \in Request : pc[c] \in DrivePlaces => row.marker

BookInv == NothingYet /\ ReadInv /\ JobsInv /\ DriveInv

\* A step of the row's book, or none.
Booked == Lifecycle!Next \/ UNCHANGED Lifecycle!vars

\* It holds in the first state.
LEMMA InitBook == Init => BookInv /\ Lifecycle!Init
  BY Actors DEF Init, BookInv, NothingYet, ReadInv, JobsInv, DriveInv, DrivePlaces, Lifecycle!Init

\* Where there is no row, there is none but the one start_session makes.
LEMMA FirstStep ==
  ASSUME Types, SleepInv, BookInv, Next, row.state = "none"
  PROVE  CreateSession
<1>1. (\A a \in Actor : pc[a] = "idle") /\ box = "NONE" /\ late = {} /\ ~row.sandbox
  BY Actors DEF BookInv, NothingYet, SleepInv, StartInv, StartUnrecorded
<1>2. StartNext => CreateSession
  BY <1>1, Actors DEF StartNext, Mint, Create, Record, Bootstrap, Prepared, Hibernate
<1>3. ASSUME NEW a \in Actor PROVE ~GatewayNext(a) /\ ~CleanupNext(a) /\ ~Crash(a)
  <2>1. ASSUME NEW op \in {"pause", "connect", "kill"} PROVE pc[a] # op /\ pc[a] # Settle[op]
    BY <1>1, <1>3, <2>1, CallTable
  <2>2. ~GatewayNext(a)
    BY <2>1, CallTable
       DEF GatewayNext, CallApplies, CallFindsNothing, CallRefused, CallAbandoned, SettleAfter
  <2>3. ~CleanupNext(a) /\ ~Crash(a)
    BY <1>1, <1>3 DEF CleanupNext, Fail, MarkFailed, Cleanup, CleanupOver, Revoke, Close, Terminate, Crash
  <2> QED BY <2>2, <2>3
<1>4. ASSUME NEW q \in Request PROVE ~ControllerNext(q) /\ ~OwnerCleansUp(q)
  BY <1>1, <1>4, Actors
     DEF ControllerNext, ModelReady, HeadModel, Claim, Verify, Resumed, Deliver, Lookup,
         List, Post, Note, Evaluate, Await, Accept, OwnerCleansUp
<1>5. ~(SweepLists \/ SweepJudges \/ SweepExpires \/ SweepCatchesUp)
  BY <1>1, Actors DEF SweepLists, SweepJudges, SweepExpires, SweepCatchesUp, Unfinished
<1>6. ~Reclaim
  BY <1>1 DEF Reclaim, Alive
<1> QED BY <1>1, <1>2, <1>3, <1>4, <1>5, <1>6 DEF Next

\* A step that leaves the row and the jobs alone: the sandbox moves, if it may.
LEMMA Stirred ==
  ASSUME UNCHANGED <<row, jobs>>, row.state # "none",
         row.state = "HIBERNATED" => box' = box \/ box' # "RUNNING"
  PROVE  Booked
<1>1. CASE (box' = "RUNNING") = (box = "RUNNING")
  BY <1>1 DEF Booked, Lifecycle!vars
<1>2. CASE (box' = "RUNNING") # (box = "RUNNING")
  <2>1. (box' = "RUNNING") = ~(box = "RUNNING")
    BY <1>2
  <2>2. box' = "RUNNING" => row.state # "HIBERNATED"
    BY <1>2
  <2>3. Lifecycle!Stir
    BY <2>1, <2>2 DEF Lifecycle!Stir
  <2> QED BY <2>3 DEF Booked, Lifecycle!Next
<1> QED BY <1>1, <1>2

\* A transition of the row alone is one of the lifecycle, if the row is there.
LEMMA RowMoved ==
  ASSUME row \in Rows, UNCHANGED <<box, jobs>>, NEW s, row' = [row EXCEPT !.state = s],
         \/ row.state = "none" /\ s = "REQUESTED"
         \/ row.state = "PREPARED" /\ s = "HIBERNATED" /\ box # "RUNNING"
         \/ row.state = "HIBERNATED" /\ s = "RESUMING"
         \/ row.state = "RESUMING" /\ s = "ACTIVE"
         \/ row.state = "EVALUATING" /\ s = "SUCCEEDED"
         \/ row.state \notin {"none", "FAILED", "TERMINATED"} /\ s = "FAILED"
         \/ row.state \notin {"none", "TERMINATED"} /\ s = "TERMINATED"
  PROVE  Booked
<1>1. /\ row'.state = s /\ row'.sandbox = row.sandbox /\ row'.marker = row.marker
      /\ row'.job = row.job
  BY RowMoves
<1>2. UNCHANGED Lifecycle!facts
  BY <1>1 DEF Lifecycle!facts
<1> QED BY <1>1, <1>2
           DEF Booked, Lifecycle!Next, Lifecycle!Begin, Lifecycle!Hibernate, Lifecycle!Wake,
               Lifecycle!Resume, Lifecycle!Succeed, Lifecycle!Fail, Lifecycle!Terminate,
               Lifecycle!Move

\* start_session: the sandbox is recorded once, and prepared once.
LEMMA StartBook == ASSUME Types, SleepInv, BookInv, StartNext PROVE Booked
<1>1. row \in Rows /\ (row.state = "none" => CreateSession)
  BY FirstStep DEF Types, DataTypes, Next
<1>2. CASE CreateSession
  <2>1. row.state = "none" /\ row' = [row EXCEPT !.state = "REQUESTED"] /\ UNCHANGED <<box, jobs>>
    BY <1>2 DEF CreateSession, world
  <2> QED BY <1>1, <2>1, RowMoved
<1>3. CASE Mint \/ Create \/ Bootstrap
  <2>1. row.state # "none"
    BY <1>1, <1>3, Actors DEF BookInv, NothingYet, Mint, Create, Bootstrap
  <2>2. UNCHANGED <<row, jobs>> /\ (box' = box \/ pc["start"] \in {"create", "bootstrap"})
    BY <1>3 DEF Mint, Create, Bootstrap, world
  <2>3. pc["start"] \in {"create", "bootstrap"} => row.state # "HIBERNATED"
    BY DEF SleepInv, StartInv, StartEarly, StartUnrecorded
  <2> QED BY <2>1, <2>2, <2>3, Stirred
<1>4. CASE Record
  <2>1. UNCHANGED <<box, jobs>> /\ pc["start"] = "record" /\ row.state # "none"
    BY <1>1, <1>4, Actors DEF Record, world, BookInv, NothingYet
  <2>2. CASE row' = row
    BY <2>1, <2>2, Stirred
  <2>3. CASE row.state = "REQUESTED" /\ row' = [row EXCEPT !.state = "ACTIVE", !.sandbox = TRUE]
    <3>1. /\ row'.state = "ACTIVE" /\ row'.sandbox = TRUE /\ row'.marker = row.marker
          /\ row'.job = row.job
      <4> DEFINE yes == TRUE
      <4>1. yes \in BOOLEAN /\ row' = [row EXCEPT !.state = "ACTIVE", !.sandbox = yes]
        BY <2>3
      <4> HIDE DEF yes
      <4>2. row'.state = "ACTIVE" /\ row'.sandbox = yes /\ row'.marker = row.marker /\ row'.job = row.job
        BY <1>1, <4>1 DEF Rows
      <4> QED BY <4>2 DEF yes
    <3>2. ~row.sandbox
      BY <2>1 DEF SleepInv, StartInv, StartUnrecorded
    <3> QED BY <2>1, <2>3, <3>1, <3>2 DEF Booked, Lifecycle!Next, Lifecycle!Create, Lifecycle!Move
  <2> QED BY <1>4, <2>2, <2>3 DEF Record, Lost
<1>5. CASE Prepared
  <2>1. UNCHANGED <<box, jobs>> /\ pc["start"] = "prepared" /\ row.state # "none"
    BY <1>1, <1>5, Actors DEF Prepared, world, BookInv, NothingYet
  <2>2. CASE row' = row
    BY <2>1, <2>2, Stirred
  <2>3. CASE row.state = "ACTIVE" /\ row' = [row EXCEPT !.state = "PREPARED", !.marker = TRUE]
    <3>1. /\ row'.state = "PREPARED" /\ row'.sandbox = row.sandbox /\ row'.marker = TRUE
          /\ row'.job = row.job
      <4> DEFINE yes == TRUE
      <4>1. yes \in BOOLEAN /\ row' = [row EXCEPT !.state = "PREPARED", !.marker = yes]
        BY <2>3
      <4> HIDE DEF yes
      <4>2. row'.state = "PREPARED" /\ row'.sandbox = row.sandbox /\ row'.marker = yes /\ row'.job = row.job
        BY <1>1, <4>1 DEF Rows
      <4> QED BY <4>2 DEF yes
    <3>2. row.sandbox /\ ~row.marker
      BY <2>1, <2>3 DEF SleepInv, StartInv, StartEarly
    <3> QED BY <2>1, <2>3, <3>1, <3>2 DEF Booked, Lifecycle!Next, Lifecycle!Prepare, Lifecycle!Move
  <2> QED BY <1>5, <2>2, <2>3 DEF Prepared, Lost
<1>6. CASE Hibernate
  <2>1. UNCHANGED <<box, jobs>> /\ pc["start"] = "hibernate" /\ row.state # "none"
    BY <1>1, <1>6, Actors DEF Hibernate, world, BookInv, NothingYet
  <2>2. \/ row' = row
        \/ row.state = "PREPARED" /\ row' = [row EXCEPT !.state = "HIBERNATED"]
    BY <1>6 DEF Hibernate, Transition, Lost
  <2>3. row.state = "PREPARED" => box # "RUNNING"
    BY <2>1 DEF SleepInv, AsleepInv
  <2> QED BY <1>1, <2>1, <2>2, <2>3, Stirred, RowMoved
<1> QED BY <1>2, <1>3, <1>4, <1>5, <1>6 DEF StartNext

\* A cleanup fails or ends what it read could be.
LEMMA CleanBook ==
  ASSUME Types, SleepInv, BookInv, NEW a \in Actor, CleanupNext(a)
  PROVE  Booked
<1>1. row \in Rows /\ row.state # "none" /\ UNCHANGED <<box, jobs>>
  <2>1. row \in Rows /\ pc[a] # "idle"
    BY DEF Types, DataTypes, CleanupNext, Fail, MarkFailed, Cleanup, CleanupOver, Revoke, Close, Terminate
  <2> QED BY <2>1 DEF BookInv, NothingYet, CleanupNext, Fail, MarkFailed, Cleanup, CleanupOver, Revoke,
                      Close, Terminate, world
<1>2. \/ row' = row
      \/ row.state \notin {"none", "FAILED", "TERMINATED"} /\ row' = [row EXCEPT !.state = "FAILED"]
      \/ row.state \notin {"none", "TERMINATED"} /\ row' = [row EXCEPT !.state = "TERMINATED"]
  <2>1. CASE Fail(a) \/ Cleanup(a) \/ CleanupOver(a) \/ Revoke(a) \/ Close(a)
    BY <2>1 DEF Fail, Cleanup, CleanupOver, Revoke, Close
  <2>2. CASE MarkFailed(a)
    BY <2>2 DEF MarkFailed, Transition, Lost, BookInv, ReadInv
  <2>3. CASE Terminate(a)
    BY <2>3 DEF Terminate, Transition, Lost, BookInv, ReadInv
  <2> QED BY <2>1, <2>2, <2>3 DEF CleanupNext
<1> QED BY <1>1, <1>2, Stirred, RowMoved

\* A gateway call wakes nothing that hibernates.
LEMMA GatewayBook ==
  ASSUME Types, SleepInv, BookInv, NEW a \in Actor, GatewayNext(a)
  PROVE  Booked
<1>1. UNCHANGED <<row, jobs>>
  BY DEF GatewayNext, CallApplies, CallFindsNothing, CallRefused, CallAbandoned, SettleAfter, world
<1>2. row.state # "none"
  BY <1>1, FirstStep DEF Next, Types, DataTypes, Rows, CreateSession
<1>3. row'.state = "HIBERNATED" => box' # "RUNNING"
  BY GatewaySleep DEF SleepInv, AsleepInv
<1> QED BY <1>1, <1>2, <1>3, Stirred

\* on_model_ready claims, resumes, evaluates once and settles.
LEMMA ControllerBook ==
  ASSUME Types, SleepInv, BookInv, NEW c \in Request, ControllerNext(c)
  PROVE  Booked
<1>1. row \in Rows /\ c \in Actor /\ jobs \in Nat
  BY Actors DEF Types, DataTypes, WorldTypes
<1>2. row.state # "none"
  <2>1. pc[c] # "idle" \/ ModelReady(c)
    BY DEF ControllerNext, HeadModel, Claim, Verify, Resumed, Deliver, Lookup, List, Post,
           Note, Evaluate, Await, Accept
  <2> QED BY <1>1, <2>1 DEF BookInv, NothingYet, ModelReady
<1>3. CASE \/ ModelReady(c) \/ HeadModel(c) \/ Verify(c) \/ Deliver(c) \/ Lookup(c)
           \/ List(c) \/ Note(c) \/ Await(c)
  <2>1. UNCHANGED <<row, jobs>>
    BY <1>3 DEF ModelReady, HeadModel, Verify, Deliver, Lookup, List, Note, Await, world
  <2>2. row'.state = "HIBERNATED" => box' # "RUNNING"
    BY ControllerSleep DEF SleepInv, AsleepInv
  <2> QED BY <1>2, <2>1, <2>2, Stirred
<1>4. CASE Claim(c) \/ Resumed(c) \/ Accept(c)
  <2>1. /\ UNCHANGED <<box, jobs>>
        /\ \/ row' = row
           \/ row.state = "HIBERNATED" /\ row' = [row EXCEPT !.state = "RESUMING"]
           \/ row.state = "RESUMING" /\ row' = [row EXCEPT !.state = "ACTIVE"]
           \/ row.state = "EVALUATING" /\ row' = [row EXCEPT !.state = "SUCCEEDED"]
    BY <1>4 DEF Claim, Resumed, Accept, Transition, Lost, world
  <2> QED BY <1>1, <1>2, <2>1, Stirred, RowMoved
<1>5. CASE Post(c)
  <2>1. /\ UNCHANGED <<row, box>> /\ jobs' \in {jobs, jobs + 1} /\ pc[c] = "post"
    BY <1>5 DEF Post
  <2>2. row.marker
    BY <2>1 DEF BookInv, DriveInv, DrivePlaces
  <2>3. CASE jobs' = jobs
    BY <1>2, <2>1, <2>3, Stirred
  <2>4. CASE jobs' = jobs + 1
    BY <2>1, <2>2, <2>4 DEF Booked, Lifecycle!Next, Lifecycle!Ask
  <2> QED BY <2>1, <2>3, <2>4
<1>6. CASE Evaluate(c)
  <2>1. UNCHANGED <<box, jobs>> /\ pc[c] = "evaluate"
    BY <1>6 DEF Evaluate, world
  <2>2. CASE row' = row
    BY <1>2, <2>1, <2>2, Stirred
  <2>3. CASE row.state = "ACTIVE" /\ row' = [row EXCEPT !.state = "EVALUATING", !.job = loc[c].job]
    <3> DEFINE j == loc[c].job
    <3>1. row.marker /\ row.job = 0 /\ j \in 1..jobs
      BY <2>1, <2>3, <1>1 DEF BookInv, DriveInv, JobsInv, DrivePlaces
    <3> HIDE DEF j
    <3>2. /\ row'.state = "EVALUATING" /\ row'.sandbox = row.sandbox
          /\ row'.marker = row.marker /\ row'.job = j
      <4>1. row' = [row EXCEPT !.state = "EVALUATING", !.job = j]
        BY <2>3 DEF j
      <4> QED BY <1>1, <4>1 DEF Rows
    <3> QED BY <2>1, <2>3, <3>1, <3>2 DEF Booked, Lifecycle!Next, Lifecycle!Evaluate, Lifecycle!Move
  <2> QED BY <1>6, <2>2, <2>3 DEF Evaluate, Lost
<1> QED BY <1>3, <1>4, <1>5, <1>6 DEF ControllerNext

\* The reconciler writes HIBERNATED over a sandbox that is asleep, and nothing else.
LEMMA SweepBook ==
  ASSUME Types, SleepInv, BookInv,
         SweepLists \/ SweepJudges \/ SweepExpires \/ SweepCatchesUp
  PROVE  Booked
<1>1. row \in Rows /\ UNCHANGED <<box, jobs>>
  BY DEF Types, DataTypes, SweepLists, SweepJudges, SweepExpires, SweepCatchesUp, world
<1>2. row.state # "none"
  <2>1. ~CreateSession
    BY Actors DEF CreateSession, SweepLists, SweepJudges, SweepExpires, SweepCatchesUp, Types,
                  PcInv, Goto, Return
  <2> QED BY <2>1, FirstStep DEF Next
<1>3. CASE SweepLists \/ SweepJudges \/ SweepExpires
  <2>1. row' = row
    BY <1>3 DEF SweepLists, SweepJudges, SweepExpires
  <2> QED BY <1>1, <1>2, <2>1, Stirred
<1>4. CASE SweepCatchesUp
  <2>1. \/ row' = row
        \/ /\ row.state = "PREPARED" /\ row' = [row EXCEPT !.state = "HIBERNATED"]
           /\ box # "RUNNING"
    BY <1>4 DEF SweepCatchesUp, Transition, Lost, SleepInv, AsleepInv
  <2> QED BY <1>1, <1>2, <2>1, Stirred, RowMoved
<1> QED BY <1>3, <1>4

\* Deaths, the provider and late calls leave the row alone.
LEMMA WorldBook ==
  ASSUME Types, SleepInv, BookInv,
         \/ Reclaim \/ (\E op \in late : LateCall(op)) \/ (\E a \in Actor : Crash(a))
         \/ \E q \in Request : OwnerCleansUp(q)
  PROVE  Booked
<1>1. UNCHANGED <<row, jobs>>
  BY DEF Reclaim, LateCall, Crash, OwnerCleansUp, world
<1>2. row.state # "none"
  BY <1>1, FirstStep DEF Next, Types, DataTypes, Rows, CreateSession
<1>3. SleepInv'
  BY SleepStep DEF Next
<1> QED BY <1>1, <1>2, <1>3, Stirred DEF SleepInv, AsleepInv

\* What a step of the book leaves of it.
LEMMA BookedKeeps ==
  ASSUME Types, BookInv, Booked
  PROVE  /\ row.state # "none" => row'.state # "none"
         /\ row.marker => row'.marker
         /\ jobs' \in Nat /\ jobs <= jobs' /\ row'.job \in 0..jobs'
         /\ row'.job # 0 => row'.state \in {"EVALUATING", "SUCCEEDED", "FAILED", "TERMINATED"}
<1>1. /\ row.job \in 0..jobs /\ jobs \in Nat
      /\ row.job # 0 => row.state \in {"EVALUATING", "SUCCEEDED", "FAILED", "TERMINATED"}
  BY DEF Types, DataTypes, WorldTypes, BookInv, JobsInv
<1>2. CASE UNCHANGED Lifecycle!vars
  BY <1>1, <1>2 DEF Lifecycle!vars
<1>3. CASE Lifecycle!Create \/ Lifecycle!Prepare \/ Lifecycle!Evaluate
  BY <1>1, <1>3 DEF Lifecycle!Create, Lifecycle!Prepare, Lifecycle!Evaluate, Lifecycle!Move
<1>4. CASE Lifecycle!Ask \/ Lifecycle!Stir
  BY <1>1, <1>4 DEF Lifecycle!Ask, Lifecycle!Stir
<1>5. CASE \/ Lifecycle!Begin \/ Lifecycle!Hibernate \/ Lifecycle!Wake \/ Lifecycle!Resume
           \/ Lifecycle!Succeed \/ Lifecycle!Fail \/ Lifecycle!Terminate
  <2>1. /\ UNCHANGED <<row.marker, row.job, jobs>>
        /\ row.state = "none" => row'.state = "REQUESTED"
        /\ row.state # "none" => row'.state # "none"
        /\ \/ row.state \notin {"EVALUATING", "SUCCEEDED", "FAILED", "TERMINATED"}
           \/ row'.state \in {"SUCCEEDED", "FAILED", "TERMINATED"}
    BY <1>5 DEF Lifecycle!Begin, Lifecycle!Hibernate, Lifecycle!Wake, Lifecycle!Resume,
                Lifecycle!Succeed, Lifecycle!Fail, Lifecycle!Terminate, Lifecycle!Move,
                Lifecycle!facts
  <2> QED BY <1>1, <2>1
<1> QED BY <1>2, <1>3, <1>4, <1>5 DEF Booked, Lifecycle!Next

\* What a step of one actor must show to keep BookInv.
LEMMA BookMoves ==
  ASSUME Types, BookInv, Booked, NEW a \in Actor, Others(a), row'.state # "none",
         noted' \in 0..jobs',
         pc'[a] = "mark" => loc'[a].state \notin {"none", "FAILED", "TERMINATED"},
         pc'[a] = "terminate" => loc'[a].state \notin {"none", "TERMINATED"},
         a \in Request /\ pc'[a] \in {"note", "evaluate"} => loc'[a].job \in 1..jobs',
         a \in Request /\ pc'[a] \in DrivePlaces => row'.marker
  PROVE  BookInv'
<1>1. NothingYet'
  BY DEF NothingYet
<1>2. ReadInv'
  BY DEF BookInv, ReadInv, Others
<1>3. JobsInv'
  <2>1. ASSUME NEW c \in Request, c # a, pc'[c] \in {"note", "evaluate"}
        PROVE  loc'[c].job \in 1..jobs'
    <3>1. pc[c] \in {"note", "evaluate"} /\ loc'[c] = loc[c]
      BY <2>1, Actors DEF Others
    <3>2. loc[c].job \in 1..jobs /\ jobs \in Nat
      BY <3>1 DEF BookInv, JobsInv, Types, DataTypes, WorldTypes
    <3> QED BY <3>1, <3>2, BookedKeeps
  <2> QED BY <2>1, BookedKeeps DEF JobsInv
<1>4. DriveInv'
  BY BookedKeeps, Actors DEF BookInv, DriveInv, Others
<1> QED BY <1>1, <1>2, <1>3, <1>4 DEF BookInv

\* on_model_ready: a prepared sandbox is driven, and a job of the coordinator noted.
LEMMA ControllerBooked ==
  ASSUME Types, SleepInv, BookInv, NEW c \in Request, ControllerNext(c)
  PROVE  BookInv'
<1>1. /\ pc \in [Actor -> Places] /\ loc \in [Actor -> Local] /\ c \in Actor /\ jobs \in Nat
      /\ c # "start" /\ noted \in 0..jobs /\ row.job \in 0..jobs
  BY Actors DEF Types, DataTypes, WorldTypes, PcInv, BookInv, JobsInv
<1>2. Booked /\ Others(c)
  BY ControllerBook, ControllerOthers
<1>3. row'.state # "none" /\ (row.marker => row'.marker) /\ jobs' \in Nat /\ jobs <= jobs'
  <2>1. row.state # "none"
    <3>1. ~CreateSession
      BY <1>1, <1>2, Actors DEF CreateSession, Goto, Others
    <3> QED BY <3>1, FirstStep DEF Next
  <2> QED BY <1>2, <2>1, BookedKeeps
<1>4. ASSUME NEW w, Goto(c, w), w \notin {"mark", "terminate", "note", "evaluate"},
             w \notin DrivePlaces \/ row'.marker, noted' = noted
      PROVE  BookInv'
  <2>1. pc'[c] = w /\ noted' \in 0..jobs'
    BY <1>1, <1>3, <1>4 DEF Goto
  <2> QED BY <1>2, <1>3, <1>4, <2>1, BookMoves, <1>1
<1>5. pc[c] \in DrivePlaces => row'.marker
  BY <1>3 DEF BookInv, DriveInv
<1>6. CASE ModelReady(c)
  <2>1. /\ noted' = noted
        /\ \/ Goto(c, "idle") \/ Goto(c, "join") \/ Goto(c, "head")
           \/ Goto(c, "connect") /\ Wakes
    BY <1>1, <1>6 DEF ModelReady, Return
  <2>2. Wakes => row.marker
    BY DEF Wakes, SleepInv, StartInv
  <2> QED BY <2>1, <2>2, <1>3, <1>4 DEF DrivePlaces
<1>7. CASE Claim(c)
  <2>1. /\ noted' = noted
        /\ Goto(c, "idle") \/ (Goto(c, "connect") /\ row.state = "HIBERNATED")
    BY <1>1, <1>7 DEF Claim, Return, Transition, world
  <2>2. row.state = "HIBERNATED" => row.marker
    BY DEF SleepInv, StartInv
  <2> QED BY <2>1, <2>2, <1>3, <1>4 DEF DrivePlaces
<1>8. CASE HeadModel(c) \/ Await(c) \/ Accept(c)
  <2>1. /\ noted' = noted
        /\ \/ Goto(c, "claim") \/ Goto(c, "idle") \/ Goto(c, "accept") \/ Goto(c, "fail")
           \/ Goto(c, "cleanup")
    BY <1>1, <1>8 DEF HeadModel, Await, Accept, Return, world
  <2> QED BY <2>1, <1>4 DEF DrivePlaces
<1>9. CASE Verify(c) \/ Resumed(c) \/ Deliver(c) \/ Evaluate(c)
  <2>1. /\ noted' = noted /\ pc[c] \in DrivePlaces
        /\ \/ Goto(c, "resumed") \/ Goto(c, "deliver") \/ Goto(c, "fail") \/ Goto(c, "idle")
           \/ Goto(c, "lookup") \/ Goto(c, "await")
    BY <1>1, <1>9 DEF Verify, Resumed, Deliver, Evaluate, Return, world, DrivePlaces
  <2> QED BY <2>1, <1>4, <1>5
<1>10. ASSUME pc[c] \in DrivePlaces, NEW w, Goto(c, w), w \notin {"mark", "terminate"},
              noted' \in 0..jobs', w \in {"note", "evaluate"} => loc'[c].job \in 1..jobs'
       PROVE  BookInv'
  <2>1. pc'[c] = w
    BY <1>1, <1>10 DEF Goto
  <2> QED BY <1>1, <1>2, <1>3, <1>5, <1>10, <2>1, BookMoves
<1>11. CASE Lookup(c)
  <2> DEFINE known == IF row.job # 0 THEN row.job ELSE noted
  <2>1. /\ pc[c] \in DrivePlaces /\ noted' = noted /\ jobs' = jobs
        /\ loc' = [loc EXCEPT ![c].job = known]
        /\ (Goto(c, "evaluate") /\ known # 0) \/ Goto(c, "list")
    BY <1>11 DEF Lookup, world, DrivePlaces
  <2>2. known \in 0..jobs
    BY <1>1
  <2> HIDE DEF known
  <2>3. loc'[c].job = known
    BY <1>1, <2>1 DEF Local
  <2> QED BY <1>1, <1>10, <2>1, <2>2, <2>3
<1>12. CASE List(c)
  <2>1. /\ pc[c] \in DrivePlaces /\ noted' = noted /\ jobs' = jobs
        /\ \/ Goto(c, "note") /\ jobs > 0 /\ loc' = [loc EXCEPT ![c].job = 1]
           \/ Goto(c, "post")
    BY <1>12 DEF List, DrivePlaces
  <2>2. loc' = [loc EXCEPT ![c].job = 1] => loc'[c].job = 1
    BY <1>1 DEF Local
  <2> QED BY <1>1, <1>10, <2>1, <2>2
<1>13. CASE Post(c)
  <2>1. /\ pc[c] \in DrivePlaces /\ noted' = noted /\ jobs' \in {jobs, jobs + 1}
        /\ \/ Goto(c, "note") /\ jobs' = jobs + 1 /\ loc' = [loc EXCEPT ![c].job = jobs + 1]
           \/ Goto(c, "fail")
    BY <1>13 DEF Post, DrivePlaces
  <2>2. loc' = [loc EXCEPT ![c].job = jobs + 1] => loc'[c].job = jobs + 1
    <3> DEFINE j == jobs + 1
    <3> HIDE DEF j
    <3>1. loc' = [loc EXCEPT ![c].job = j] => loc'[c].job = j
      BY <1>1 DEF Local
    <3> QED BY <3>1 DEF j
  <2> QED BY <1>1, <1>10, <2>1, <2>2
<1>14. CASE Note(c)
  <2>1. /\ pc[c] = "note" /\ jobs' = jobs /\ loc' = loc /\ Goto(c, "evaluate")
        /\ noted' \in {noted, loc[c].job}
    BY <1>14 DEF Note
  <2>2. loc[c].job \in 1..jobs /\ pc[c] \in DrivePlaces
    BY <2>1 DEF BookInv, JobsInv, DrivePlaces
  <2> QED BY <1>1, <1>10, <2>1, <2>2
<1> QED BY <1>6, <1>7, <1>8, <1>9, <1>11, <1>12, <1>13, <1>14 DEF ControllerNext

\* Every step is one of the book, and keeps what that rests on.
LEMMA BookStep ==
  ASSUME Types, SleepInv, BookInv, [Next]_vars
  PROVE  Booked /\ BookInv'
<1>1. /\ pc \in [Actor -> Places] /\ loc \in [Actor -> Local] /\ noted \in 0..jobs /\ jobs \in Nat
  BY DEF Types, DataTypes, WorldTypes, PcInv, BookInv, JobsInv
<1>2. ASSUME NEW a \in Actor, Others(a), Booked, row'.state # "none",
             UNCHANGED <<noted, jobs>>,
             pc'[a] \notin {"mark", "terminate", "note", "evaluate"},
             pc'[a] \notin DrivePlaces \/ (a \in Request => row'.marker)
      PROVE  BookInv'
  BY <1>1, <1>2, BookMoves
<1>3. Next /\ Booked => row'.state # "none" \/ CreateSession
  BY FirstStep, BookedKeeps
<1>4. CASE StartNext
  <2>1. row'.state # "none" /\ Booked
    <3>1. CreateSession => row'.state # "none"
      BY RowMoves DEF CreateSession, Types, DataTypes
    <3> QED BY <1>3, <1>4, <3>1, StartBook DEF Next
  <2>2. /\ UNCHANGED <<noted, jobs>>
        /\ \/ Goto("start", "mint") \/ Goto("start", "create") \/ Goto("start", "record")
           \/ Goto("start", "fail") \/ Goto("start", "bootstrap") \/ Goto("start", "prepared")
           \/ Goto("start", "pause") \/ Goto("start", "done")
    BY <1>4 DEF StartNext, CreateSession, Mint, Create, Record, Bootstrap, Prepared, Hibernate,
                Return, world
  <2>3. pc'["start"] \in {"mint", "create", "record", "fail", "bootstrap", "prepared", "pause", "done"}
    BY <1>1, <2>2, Actors DEF Goto
  <2> QED BY <1>2, <1>4, <2>1, <2>2, <2>3, StartOthers, Actors DEF DrivePlaces
<1>5. ASSUME NEW a \in Actor, CleanupNext(a) PROVE Booked /\ BookInv'
  <2>1. Booked /\ Others(a) /\ UNCHANGED <<noted, jobs>>
    BY <1>5, CleanBook, CleanOthers
       DEF CleanupNext, Fail, MarkFailed, Cleanup, CleanupOver, Revoke, Close, Terminate, world
  <2>2. row.state # "none" /\ row'.state # "none"
    <3>1. pc[a] # "idle"
      BY <1>5 DEF CleanupNext, Fail, MarkFailed, Cleanup, CleanupOver, Revoke, Close, Terminate
    <3> QED BY <2>1, <3>1, BookedKeeps DEF BookInv, NothingYet
  <2>3. CASE Fail(a)
    <3>1. \/ pc'[a] = "cleanup"
          \/ pc'[a] = "mark" /\ row.state \notin {"FAILED", "TERMINATED"} /\ loc'[a].state = row.state
      <4>1. \/ Goto(a, "cleanup")
            \/ /\ Goto(a, "mark") /\ row.state \notin {"FAILED", "TERMINATED"}
               /\ loc' = [loc EXCEPT ![a] = [Nowhere EXCEPT !.state = row.state]]
        BY <2>3 DEF Fail, Terminal
      <4> QED BY <1>1, <4>1 DEF Goto, Nowhere
    <3> QED BY <1>1, <2>1, <2>2, <3>1, BookMoves DEF DrivePlaces
  <2>4. CASE Close(a)
    <3>1. \/ pc'[a] \in {"idle", "done"}
          \/ pc'[a] = "terminate" /\ row.state # "TERMINATED" /\ loc'[a].state = row.state
      <4>1. \/ Return(a)
            \/ /\ Goto(a, "terminate") /\ row.state # "TERMINATED"
               /\ loc' = [loc EXCEPT ![a].state = row.state]
        BY <2>4 DEF Close, Terminal
      <4>2. CASE Return(a)
        BY <1>1, <4>2 DEF Return, Goto
      <4>3. CASE ~Return(a)
        BY <1>1, <4>1, <4>3 DEF Goto, Local
      <4> QED BY <4>2, <4>3
    <3> QED BY <1>1, <2>1, <2>2, <3>1, BookMoves DEF DrivePlaces
  <2>5. CASE MarkFailed(a) \/ Cleanup(a) \/ CleanupOver(a) \/ Revoke(a) \/ Terminate(a)
    <3>1. \/ Goto(a, "cleanup") \/ Goto(a, "kill") \/ Goto(a, "revoke") \/ Goto(a, "close")
          \/ Return(a)
      BY <2>5 DEF MarkFailed, Cleanup, CleanupOver, Revoke, Terminate
    <3>2. pc'[a] \in {"cleanup", "kill", "revoke", "close", "idle", "done"}
      BY <1>1, <3>1 DEF Goto, Return
    <3> QED BY <1>2, <2>1, <2>2, <3>2 DEF DrivePlaces
  <2> QED BY <1>5, <2>1, <2>3, <2>4, <2>5 DEF CleanupNext
<1>6. ASSUME NEW a \in Actor, GatewayNext(a) PROVE Booked /\ BookInv'
  <2>1. PICK op \in {"pause", "connect", "kill"} : \/ CallApplies(a, op) \/ CallFindsNothing(a, op) \/ CallRefused(a, op)
        \/ CallAbandoned(a, op) \/ SettleAfter(a, op)
    BY <1>6, CallTable DEF GatewayNext
  <2>2. UNCHANGED <<row, jobs, noted>> /\ pc[a] \in {op, Settle[op]}
    BY <2>1
       DEF CallApplies, CallFindsNothing, CallRefused, CallAbandoned, SettleAfter, world
  <2>3. pc'[a] \in {op, Settle[op], Giveup[op], Success[op]}
    BY <1>1, <2>1
       DEF CallApplies, CallFindsNothing, CallRefused, CallAbandoned, SettleAfter, Through,
           Again, Goto
  <2>4. /\ pc[a] # "idle" /\ pc'[a] \notin {"mark", "terminate", "note", "evaluate"}
        /\ pc'[a] \notin DrivePlaces \/ pc[a] \in DrivePlaces
    BY <2>2, <2>3, CallTable DEF DrivePlaces
  <2>5. row.state # "none" /\ (a \in Request /\ pc[a] \in DrivePlaces => row.marker)
    BY <2>4 DEF BookInv, NothingYet, DriveInv
  <2> QED BY <1>2, <1>6, <2>2, <2>4, <2>5, GatewayBook, GatewayOthers
<1>7. CASE SweepLists \/ SweepJudges \/ SweepExpires \/ SweepCatchesUp
  <2>1. Booked /\ Others("sweep") /\ UNCHANGED <<noted, jobs>>
    BY <1>7, SweepBook, SweepOthers DEF SweepLists, SweepJudges, SweepExpires, SweepCatchesUp, world
  <2>2. \/ Goto("sweep", "inspect") \/ Goto("sweep", "cleanup") \/ Goto("sweep", "fail")
        \/ Goto("sweep", "catchup") \/ Goto("sweep", "idle")
    BY <1>7 DEF SweepLists, SweepJudges, SweepExpires, SweepCatchesUp, Return
  <2>3. pc'["sweep"] \in {"inspect", "cleanup", "fail", "catchup", "idle"}
    BY <1>1, <2>2, Actors DEF Goto
  <2>4. row'.state # "none"
    <3>1. ~CreateSession
      BY <1>1, <2>1, Actors DEF CreateSession, Goto, Others
    <3> QED BY <1>3, <1>7, <2>1, <3>1 DEF Next
  <2> QED BY <1>2, <2>1, <2>3, <2>4, Actors DEF DrivePlaces
<1>8. ASSUME NEW a \in Actor, NEW w, Others(a), Goto(a, w), w \in {"idle", "done", "cleanup"},
             UNCHANGED <<row, jobs, noted>>, Booked, row.state # "none"
      PROVE  BookInv'
  <2>1. pc'[a] = w
    BY <1>1, <1>8 DEF Goto
  <2> QED BY <1>2, <1>8, <2>1 DEF DrivePlaces
<1>9. ASSUME NEW a \in Actor, Crash(a) PROVE Booked /\ BookInv'
  <2>1. Booked
    BY <1>9, WorldBook
  <2>2. row.state # "none" /\ UNCHANGED <<row, jobs, noted>> /\ Return(a)
    BY <1>9 DEF Crash, world, BookInv, NothingYet
  <2>3. Others(a)
    BY <1>1, <2>2 DEF Others, Return, Goto
  <2> QED BY <1>8, <2>1, <2>2, <2>3 DEF Return
<1>10. ASSUME NEW q \in Request, OwnerCleansUp(q) PROVE Booked /\ BookInv'
  <2>1. Booked
    BY <1>10, WorldBook
  <2>2. row.state # "none" /\ UNCHANGED <<row, jobs, noted, loc>> /\ Goto(q, "cleanup")
    BY <1>10 DEF OwnerCleansUp, world
  <2>3. Others(q)
    BY <1>1, <2>2 DEF Others, Goto
  <2> QED BY <1>8, <2>1, <2>2, <2>3, Actors
<1>11. CASE Reclaim \/ \E op \in late : LateCall(op)
  <2>1. Booked
    BY <1>11, WorldBook
  <2>2. row.state # "none" /\ UNCHANGED <<row, jobs, noted, pc, loc>>
    BY <1>11 DEF Reclaim, LateCall, world, BookInv, NothingYet, Alive
  <2> QED BY <2>1, <2>2 DEF BookInv, NothingYet, ReadInv, JobsInv, DriveInv
<1>12. CASE UNCHANGED vars
  BY <1>12 DEF vars, Booked, Lifecycle!vars, BookInv, NothingYet, ReadInv, JobsInv, DriveInv
<1> QED BY <1>4, StartBook, <1>5, <1>6, <1>7, SweepBook, <1>9, <1>10, <1>11, WorldBook, <1>12,
           ControllerBook, ControllerBooked DEF Next

\* The session implements SessionBook: whichever actors race, die half-way or act
\* on what they read before an await, the row moves along the lifecycle, what is
\* written in it stays, and no job is asked for before the sandbox was prepared.
THEOREM ImplementsSessionBook == Spec => KeepsSessionBook
<1>1. Init => Types /\ SleepInv /\ BookInv /\ Lifecycle!Init
  BY InitTypes, InitSleep, InitBook
<1>2. Types /\ SleepInv /\ BookInv /\ [Next]_vars
        => Types' /\ SleepInv' /\ BookInv' /\ [Lifecycle!Next]_Lifecycle!vars
  BY TypesStep, SleepStep, BookStep DEF Booked
<1> QED BY <1>1, <1>2, PTL DEF Spec, KeepsSessionBook, Lifecycle!Spec
=============================================================================
