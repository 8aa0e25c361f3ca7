--------------------------- MODULE PlatformProofs ---------------------------
(***************************************************************************)
(* What is proved of the components the others run on: the migrations of   *)
(* the database, its pool of connections, the routing of calls to the      *)
(* venues, the bootstrap of a sandbox, and the router's plans and quotes,  *)
(* each for every value of the constants.                                  *)
(***************************************************************************)
EXTENDS Migrations, ConnectionPool, VenueRouting, SandboxBootstrap, RouterPlan, SumTheorems,
        FiniteSetTheorems, SequenceTheorems, WellFoundedInduction, TLAPS

-----------------------------------------------------------------------------
(***************************************************************************)
(* Migrations for any number of versions and runners: the schema has the   *)
(* SQL of a recorded version once, and no other version's.                 *)
(***************************************************************************)

MigrationFiles == [Version -> Content \cup {"none"}]
Runners == [at: {"idle", "loop", "reconcile"}, mode: {"apply", "baseline"}, through: Nat,
            todo: SUBSET Version, sql: MigrationFiles \cup {<<>>}]

MigrateTypes ==
  /\ files \in MigrationFiles /\ applied \in MigrationFiles /\ ran \in [Version -> {0, 1}]
  /\ stamped \subseteq Version /\ runner \in [Process -> Runners]

\* What a runner has yet to do, it has a file for; what it is to reconcile is
\* on record, and a record is not taken back.
HasWork(r, record) ==
  /\ r.at = "idle" => r.todo = {}
  /\ r.todo # {} => r.sql \in MigrationFiles
  /\ \A v \in r.todo : r.sql[v] # "none" /\ (r.at = "reconcile" => record[v] # "none")
RunnersHaveWork == \A p \in Process : HasWork(runner[p], applied)

MigrateInv == MigrateTypes /\ RunnersHaveWork /\ SchemaIsWhatIsRecorded

-----------------------------------------------------------------------------
\* Among versions left there is a lowest.
LEMMA LowestOfSome ==
  ASSUME NEW T, T \subseteq Version, T # {}
  PROVE  \E v \in T : \A w \in T : v <= w
<1>1. Version \subseteq Nat
      BY DEF Version
<1>2. PICK v \in T : \A w \in T : <<w, v>> \notin OpToRel(<, Nat)
      BY <1>1, NatLessThanWellFounded, WFMin, Zenon
<1>3. \A w \in T : ~(w < v)
      BY <1>1, <1>2, Zenon DEF OpToRel
<1> QED BY <1>1, <1>3

\* Lowest is one of them.
LEMMA LowestIsLeft ==
  ASSUME MigrateInv, NEW p \in Process, runner[p].todo # {}
  PROVE  Lowest(p) \in runner[p].todo /\ Lowest(p) \in Version
<1>1. runner[p].todo \subseteq Version
      BY DEF MigrateInv, MigrateTypes, Runners
<1>2. \E v \in runner[p].todo : \A w \in runner[p].todo : v <= w
      BY <1>1, LowestOfSome
<1> QED BY <1>1, <1>2 DEF Lowest

\* In the first state there is neither a file nor a record nor a runner.
LEMMA MigrateInitInv == MigrateInit => MigrateInv
  BY DEF MigrateInit, MigrateInv, MigrateTypes, MigrationFiles, Runners, RunnersHaveWork, HasWork,
         IdleRunner, SchemaIsWhatIsRecorded

\* A runner that begins or ends, the record unchanged.
LEMMA RunnerMoves ==
  ASSUME MigrateInv, NEW p \in Process, NEW r \in Runners, HasWork(r, applied),
         runner' = [runner EXCEPT ![p] = r], UNCHANGED <<files, applied, ran, stamped>>
  PROVE  MigrateInv'
<1>1. \A q \in Process : runner'[q] = IF q = p THEN r ELSE runner[q]
      BY DEF MigrateInv, MigrateTypes
<1>2. MigrateTypes' /\ SchemaIsWhatIsRecorded'
      BY DEF MigrateInv, MigrateTypes, SchemaIsWhatIsRecorded
<1>3. RunnersHaveWork'
      BY <1>1 DEF MigrateInv, RunnersHaveWork
<1> QED BY <1>2, <1>3 DEF MigrateInv

\* A runner that is done.
LEMMA IdleHasNone == IdleRunner \in Runners /\ \A record : HasWork(IdleRunner, record)
  BY DEF IdleRunner, Runners, HasWork

\* A runner with one version less to do.
LEMMA OneLess ==
  ASSUME NEW r \in Runners, NEW v, NEW record, HasWork(r, record)
  PROVE  LET s == [r EXCEPT !.todo = @ \ {v}] IN s \in Runners /\ HasWork(s, record)
<1> DEFINE s == [r EXCEPT !.todo = @ \ {v}]
<1>1. /\ s \in Runners /\ s.at = r.at /\ s.sql = r.sql /\ s.todo = r.todo \ {v}
      BY DEF Runners
<1> HIDE DEF s
<1>2. HasWork(s, record)
      BY <1>1 DEF HasWork
<1> QED BY <1>1, <1>2 DEF s

\* A record that grows leaves the runners their work.
LEMMA RecordGrows ==
  ASSUME NEW r, NEW record \in MigrationFiles, NEW later \in MigrationFiles, HasWork(r, record),
         \A v \in Version : record[v] # "none" => later[v] # "none", r.todo \subseteq Version
  PROVE  HasWork(r, later)
  BY DEF HasWork

\* A write of the record by runner p, which has then one version less to do.
LEMMA RecordInv ==
  ASSUME MigrateInv, NEW p \in Process, NEW v \in runner[p].todo, NEW t \in MigrationFiles,
         t = [applied EXCEPT ![v] = runner[p].sql[v]], applied' = t,
         runner' = [runner EXCEPT ![p].todo = @ \ {v}]
  PROVE  /\ RunnersHaveWork' /\ applied' \in MigrationFiles /\ runner' \in [Process -> Runners]
         /\ v \in Version /\ applied'[v] # "none"
         /\ \A w \in Version : w # v => applied'[w] = applied[w]
<1>1. /\ runner[p] \in Runners /\ HasWork(runner[p], applied) /\ applied \in MigrationFiles
      /\ v \in Version /\ runner[p].sql[v] # "none"
      BY DEF MigrateInv, MigrateTypes, RunnersHaveWork, HasWork, Runners
<1>2. \A w \in Version : t[w] = IF w = v THEN runner[p].sql[v] ELSE applied[w]
      BY <1>1 DEF MigrationFiles
<1> DEFINE s == [runner[p] EXCEPT !.todo = @ \ {v}]
<1>3. s \in Runners /\ HasWork(s, applied)
      BY <1>1, OneLess
<1>4. runner' = [runner EXCEPT ![p] = s]
      OBVIOUS
<1> HIDE DEF s
<1>5. runner' \in [Process -> Runners] /\ \A q \in Process : runner'[q] = IF q = p THEN s ELSE runner[q]
      BY <1>3, <1>4 DEF MigrateInv, MigrateTypes
<1>6. ASSUME NEW q \in Process PROVE HasWork(runner'[q], t)
  <2>1. runner'[q] \in Runners /\ HasWork(runner'[q], applied)
        BY <1>3, <1>5 DEF MigrateInv, RunnersHaveWork
  <2>2. runner'[q].todo \subseteq Version
        BY <2>1 DEF Runners
  <2>3. \A w \in Version : applied[w] # "none" => t[w] # "none"
        BY <1>1, <1>2
  <2> QED BY <1>1, <2>1, <2>2, <2>3, RecordGrows
<1> QED BY <1>1, <1>2, <1>5, <1>6 DEF RunnersHaveWork

\* What the record becomes when a version's file is written to it.
LEMMA RecordTyped ==
  ASSUME MigrateInv, NEW p \in Process, NEW v \in runner[p].todo
  PROVE  [applied EXCEPT ![v] = runner[p].sql[v]] \in MigrationFiles
<1>1. runner[p].sql \in MigrationFiles /\ v \in Version /\ applied \in MigrationFiles
      BY DEF MigrateInv, MigrateTypes, RunnersHaveWork, HasWork, Runners
<1> QED BY <1>1 DEF MigrationFiles

\* A migration is run, or stamped, where its row is new, and with its row.
LEMMA RunInv == ASSUME MigrateInv, NEW p \in Process, RunMigration(p) PROVE MigrateInv'
<1> DEFINE v == Lowest(p)
<1>1. v \in runner[p].todo /\ v \in Version
      BY LowestIsLeft DEF RunMigration
<1>2. CASE applied[v] # "none"
      BY <1>2, RunnerMoves, IdleHasNone DEF RunMigration
<1>3. CASE applied[v] = "none"
  <2>1. /\ ran' = [ran EXCEPT ![v] = @ + Runs(p)]
        /\ applied' = [applied EXCEPT ![v] = runner[p].sql[v]]
        /\ stamped' = IF runner[p].mode = "baseline" THEN stamped \cup {v} ELSE stamped
        /\ runner' = [runner EXCEPT ![p].todo = @ \ {v}] /\ files' = files
        BY <1>3 DEF RunMigration
  <2>2. runner[p].mode \in {"apply", "baseline"}
        BY DEF MigrateInv, MigrateTypes, Runners
  <2> HIDE DEF v
  <2>3. /\ RunnersHaveWork' /\ applied' \in MigrationFiles /\ runner' \in [Process -> Runners]
        /\ applied'[v] # "none" /\ \A w \in Version : w # v => applied'[w] = applied[w]
        BY <1>1, <2>1, RecordTyped, RecordInv
  <2>4. ran[v] = 0 /\ v \notin stamped
        BY <1>1, <1>3 DEF MigrateInv, MigrateTypes, SchemaIsWhatIsRecorded
  <2>5. /\ ran' \in [Version -> {0, 1}] /\ stamped' \subseteq Version
        /\ \A w \in Version : w # v => ran'[w] = ran[w] /\ (w \in stamped' <=> w \in stamped)
        /\ ran'[v] = Runs(p) /\ (v \in stamped' <=> runner[p].mode = "baseline")
        BY <1>1, <2>1, <2>2, <2>4 DEF MigrateInv, MigrateTypes, Runs
  <2>6. SchemaIsWhatIsRecorded'
    <3> SUFFICES ASSUME NEW w \in Version
                 PROVE  /\ ran'[w] <= 1
                        /\ (ran'[w] = 1 \/ w \in stamped') <=> applied'[w] # "none"
                        /\ ~(ran'[w] = 1 /\ w \in stamped')
        BY DEF SchemaIsWhatIsRecorded
    <3>1. CASE w = v
          BY <3>1, <2>2, <2>3, <2>5 DEF Runs
    <3>2. CASE w # v
          BY <3>2, <2>3, <2>5 DEF MigrateInv, SchemaIsWhatIsRecorded
    <3> QED BY <3>1, <3>2
  <2>7. MigrateTypes'
        BY <2>1, <2>3, <2>5 DEF MigrateInv, MigrateTypes
  <2> QED BY <2>3, <2>6, <2>7 DEF MigrateInv
<1> QED BY <1>2, <1>3

\* A reconciliation changes records that are there.
LEMMA ReconcileInv == ASSUME MigrateInv, NEW p \in Process, ReconcileOne(p) PROVE MigrateInv'
<1>1. CASE runner[p].todo = {}
      BY <1>1, RunnerMoves, IdleHasNone DEF ReconcileOne
<1>2. CASE runner[p].todo # {}
  <2> DEFINE v == Lowest(p)
  <2>1. /\ v \in runner[p].todo /\ v \in Version /\ applied[v] # "none"
        BY <1>2, LowestIsLeft DEF ReconcileOne, MigrateInv, RunnersHaveWork, HasWork
  <2>2. /\ applied' = [applied EXCEPT ![v] = runner[p].sql[v]]
        /\ runner' = [runner EXCEPT ![p].todo = @ \ {v}] /\ UNCHANGED <<files, ran, stamped>>
        BY <1>2 DEF ReconcileOne
  <2> HIDE DEF v
  <2>3. /\ RunnersHaveWork' /\ applied' \in MigrationFiles /\ runner' \in [Process -> Runners]
        /\ applied'[v] # "none" /\ \A w \in Version : w # v => applied'[w] = applied[w]
        BY <2>1, <2>2, RecordTyped, RecordInv
  <2>4. SchemaIsWhatIsRecorded'
        BY <2>1, <2>2, <2>3 DEF MigrateInv, SchemaIsWhatIsRecorded
  <2> QED BY <2>2, <2>3, <2>4 DEF MigrateInv, MigrateTypes
<1> QED BY <1>1, <1>2

\* Every step keeps the invariant.
LEMMA MigrateStepInv == MigrateInv /\ [MigrateNext]_migrateVars => MigrateInv'
<1> SUFFICES ASSUME MigrateInv, [MigrateNext]_migrateVars PROVE MigrateInv'
    OBVIOUS
<1>1. ASSUME NEW v \in Version, WriteFile(v) PROVE MigrateInv'
  <2>1. files' \in MigrationFiles /\ UNCHANGED <<applied, ran, stamped, runner>>
        BY <1>1 DEF WriteFile, MigrateInv, MigrateTypes, MigrationFiles, Content
  <2> QED BY <2>1 DEF MigrateInv, MigrateTypes, RunnersHaveWork, SchemaIsWhatIsRecorded
<1>2. ASSUME NEW p \in Process, NEW mode \in {"apply", "baseline"}, NEW through \in Version,
             BeginApply(p, mode, through)
      PROVE  MigrateInv'
  <2> DEFINE r == [at |-> "loop", mode |-> mode, through |-> through,
                   todo |-> {v \in NotRecorded : v <= through}, sql |-> files]
  <2>1. r \in Runners /\ HasWork(r, applied)
        BY DEF Runners, HasWork, NotRecorded, Discovered, MigrateInv, MigrateTypes, Version
  <2>2. runner' = [runner EXCEPT ![p] = r] /\ UNCHANGED <<files, applied, ran, stamped>>
        BY <1>2 DEF BeginApply
  <2> HIDE DEF r
  <2> QED BY <2>1, <2>2, RunnerMoves
<1>3. ASSUME NEW p \in Process, EndApply(p) \/ RunnerDies(p) PROVE MigrateInv'
      BY <1>3, RunnerMoves, IdleHasNone DEF EndApply, RunnerDies
<1>4. ASSUME NEW p \in Process, BeginReconcile(p) PROVE MigrateInv'
  <2> DEFINE r == [at |-> "reconcile", mode |-> "apply", through |-> 0, todo |-> Drifted,
                   sql |-> files]
  <2>1. r \in Runners /\ HasWork(r, applied)
        BY DEF Runners, HasWork, Drifted, Discovered, MigrateInv, MigrateTypes
  <2>2. runner' = [runner EXCEPT ![p] = r] /\ UNCHANGED <<files, applied, ran, stamped>>
        BY <1>4 DEF BeginReconcile
  <2> HIDE DEF r
  <2> QED BY <2>1, <2>2, RunnerMoves
<1>5. CASE UNCHANGED migrateVars
      BY <1>5 DEF migrateVars, MigrateInv, MigrateTypes, RunnersHaveWork, SchemaIsWhatIsRecorded
<1> QED BY <1>1, <1>2, <1>3, <1>4, <1>5, RunInv, ReconcileInv DEF MigrateNext

-----------------------------------------------------------------------------
\* Whatever runners overlap or die, a version is on record if and only if its
\* SQL ran, once, or it was recorded by hand.
THEOREM SchemaMatchesRecord == MigrateSpec => []SchemaIsWhatIsRecorded
<1>1. MigrateInv => SchemaIsWhatIsRecorded
      BY DEF MigrateInv
<1> QED BY <1>1, MigrateInitInv, MigrateStepInv, PTL DEF MigrateSpec

\* The types of the directory, the record, the schema and the runners.
THEOREM MigrateTyped == MigrateSpec => []MigrateTypeOK
<1>1. MigrateInv => MigrateTypeOK
      BY DEF MigrateInv, MigrateTypes, MigrationFiles, Runners, MigrateTypeOK
<1> QED BY <1>1, MigrateInitInv, MigrateStepInv, PTL DEF MigrateSpec

-----------------------------------------------------------------------------
(***************************************************************************)
(* ConnectionPool for any size of the pool and any number of threads: no   *)
(* connection is in two hands, and the pool counts what it owns.           *)
(***************************************************************************)

\* What a connection is to the pool, and where a thread stands.
States == {"checked_out", "idle", "unpooled"}
Connection == [state : States, served : BOOLEAN]
ConnectionPlace == {"idle", "again", "opening", "looking", "holds"}

\* The threads that have a pooled connection in hand, and those opening one.
Owning == {p \in Process : /\ borrower[p].at \in {"looking", "holds"}
                           /\ borrower[p].conn # 0}
Opening == {p \in Process : borrower[p].at = "opening"}

\* The types of the pool, all of whose parts are finite.
PoolTypes ==
  /\ conn \in Seq(Connection) /\ idleStack \in Seq(1..Len(conn))
  /\ live \in Int /\ poolClosed \in BOOLEAN
  /\ borrower \in [Process -> [at : ConnectionPlace, conn : 0..Len(conn)]]
  /\ query \subseteq 1..Len(conn) /\ leaked \subseteq 1..Len(conn)
  /\ IsFiniteSet(Owning) /\ IsFiniteSet(Opening)

\* The idle stack has each of its connections once, and they are idle.
StackIsIdle ==
  /\ \A i, j \in 1..Len(idleStack) : idleStack[i] = idleStack[j] => i = j
  /\ \A i \in 1..Len(idleStack) : conn[idleStack[i]].state = "idle"

\* A connection in hand is checked out, and in one hand.
HandsApart ==
  /\ \A p, q \in Owning : borrower[p].conn = borrower[q].conn => p = q
  /\ \A p \in Owning : conn[borrower[p].conn].state = "checked_out"

\* A connection that is looked over is in hand.
LookersOwn == \A p \in Process : borrower[p].at = "looking" => borrower[p].conn # 0

\* An abandoned connection stays checked out, and in nobody's hand.
LeakedStayOut ==
  /\ \A c \in leaked : conn[c].state = "checked_out"
  /\ \A p \in Owning : borrower[p].conn \notin leaked

\* A worker is inside an abandoned connection, or one that is held.
WorkersInside ==
  \A c \in query \ leaked : \E p \in Process :
    borrower[p].at = "holds" /\ borrower[p].conn = c

\* The pool counts what it owns.
Counted ==
  /\ live = Len(idleStack) + Cardinality(Owning) + Cardinality(Opening)
              + Cardinality(leaked)
  /\ live <= MaxSize

\* The inductive invariant, until a second close() takes a connection that was
\* lent again.
PoolInv ==
  stolen \/ /\ PoolTypes /\ StackIsIdle /\ HandsApart /\ LookersOwn
            /\ LeakedStayOut /\ WorkersInside /\ Counted

-----------------------------------------------------------------------------
\* A set that gains or loses one element.
LEMMA OneElement ==
  ASSUME NEW S, IsFiniteSet(S), NEW T, NEW x, S \ {x} = T \ {x}
  PROVE  /\ IsFiniteSet(T)
         /\ x \in S /\ x \in T => Cardinality(T) = Cardinality(S)
         /\ x \notin S /\ x \in T => Cardinality(T) = Cardinality(S) + 1
         /\ x \in S /\ x \notin T => Cardinality(T) = Cardinality(S) - 1
         /\ x \notin S /\ x \notin T => Cardinality(T) = Cardinality(S)
<1>1. CASE x \in S <=> x \in T
  <2>1. S = T
    BY <1>1
  <2> QED
    BY <2>1
<1>2. CASE x \notin S /\ x \in T
  <2>1. T = S \cup {x}
    BY <1>2
  <2> QED
    BY <1>2, <2>1, FS_AddElement
<1>3. CASE x \in S /\ x \notin T
  <2>1. T = S \ {x}
    BY <1>3
  <2> QED
    BY <1>3, <2>1, FS_RemoveElement
<1> QED
  BY <1>1, <1>2, <1>3

\* What one thread's move does to the sets the pool counts.
LEMMA HandsMove ==
  ASSUME PoolTypes, NEW p \in Process,
         \A q \in Process : q # p => borrower'[q] = borrower[q]
  PROVE  /\ IsFiniteSet(Owning') /\ IsFiniteSet(Opening')
         /\ \A q \in Process : q # p => (q \in Owning' <=> q \in Owning)
         /\ Cardinality(Owning') = Cardinality(Owning)
              + (IF p \in Owning' THEN 1 ELSE 0) - (IF p \in Owning THEN 1 ELSE 0)
         /\ Cardinality(Opening') = Cardinality(Opening)
              + (IF p \in Opening' THEN 1 ELSE 0) - (IF p \in Opening THEN 1 ELSE 0)
<1>1. Owning \ {p} = Owning' \ {p} /\ Opening \ {p} = Opening' \ {p}
  BY DEF Owning, Opening
<1>2. /\ IsFiniteSet(Owning) /\ IsFiniteSet(Opening)
      /\ Cardinality(Owning) \in Nat /\ Cardinality(Opening) \in Nat
  BY FS_CardinalityType DEF PoolTypes
<1>3. \A q \in Process : q # p => (q \in Owning' <=> q \in Owning)
  BY <1>1
<1>4. /\ IsFiniteSet(Owning')
      /\ Cardinality(Owning') = Cardinality(Owning)
           + (IF p \in Owning' THEN 1 ELSE 0) - (IF p \in Owning THEN 1 ELSE 0)
  BY <1>1, <1>2, OneElement
<1>5. /\ IsFiniteSet(Opening')
      /\ Cardinality(Opening') = Cardinality(Opening)
           + (IF p \in Opening' THEN 1 ELSE 0) - (IF p \in Opening THEN 1 ELSE 0)
  BY <1>1, <1>2, OneElement
<1> QED
  BY <1>3, <1>4, <1>5

\* The counters of the pool are numbers.
LEMMA CountTypes ==
  ASSUME PoolTypes
  PROVE  /\ Cardinality(Owning) \in Nat /\ Cardinality(Opening) \in Nat
         /\ IsFiniteSet(leaked) /\ Cardinality(leaked) \in Nat
         /\ Len(idleStack) \in Nat /\ Len(conn) \in Nat
<1>1. IsFiniteSet(leaked)
  <2>1. IsFiniteSet(1..Len(conn))
    BY FS_Interval DEF PoolTypes
  <2> QED
    BY <2>1, FS_Subset DEF PoolTypes
<1> QED
  BY <1>1, FS_CardinalityType DEF PoolTypes

\* What a thread stands for.
LEMMA BorrowerTypes ==
  ASSUME PoolTypes, NEW p \in Process
  PROVE  /\ borrower[p].at \in ConnectionPlace /\ borrower[p].conn \in 0..Len(conn)
         /\ DOMAIN borrower = Process
         /\ p \in Owning <=> /\ borrower[p].at \in {"looking", "holds"}
                             /\ borrower[p].conn # 0
         /\ p \in Opening <=> borrower[p].at = "opening"
<1>1. borrower[p] \in [at : ConnectionPlace, conn : 0..Len(conn)]
  BY DEF PoolTypes
<1> QED
  BY <1>1 DEF Owning, Opening, PoolTypes

\* A connection whose state changes, and the others, which stay.
LEMMA StateMoves ==
  ASSUME PoolTypes, NEW c \in 1..Len(conn), NEW s \in States,
         conn' = [conn EXCEPT ![c].state = s]
  PROVE  /\ conn' \in Seq(Connection) /\ Len(conn') = Len(conn)
         /\ conn'[c].state = s
         /\ \A d \in 1..Len(conn) : d # c => conn'[d] = conn[d]
<1>1. conn[c] \in Connection
  BY DEF PoolTypes
<1>2. [conn[c] EXCEPT !.state = s] \in Connection
      /\ [conn[c] EXCEPT !.state = s].state = s
  BY <1>1 DEF Connection
<1> DEFINE new == [conn[c] EXCEPT !.state = s]
<1>3. conn' = [conn EXCEPT ![c] = new]
  OBVIOUS
<1>4. new \in Connection /\ new.state = s
  BY <1>2
<1> HIDE DEF new
<1>5. conn \in Seq(Connection)
  BY DEF PoolTypes
<1> QED
  BY <1>3, <1>4, <1>5

\* The types after a step of one thread.
LEMMA TypesKept ==
  ASSUME PoolTypes, NEW p \in Process, NEW b \in [at : ConnectionPlace, conn : 0..Len(conn')],
         borrower' = [borrower EXCEPT ![p] = b],
         conn' \in Seq(Connection), Len(conn') >= Len(conn),
         idleStack' \in Seq(1..Len(conn')), live' \in Int, poolClosed' \in BOOLEAN,
         query' \subseteq 1..Len(conn'), leaked' \subseteq 1..Len(conn')
  PROVE  PoolTypes'
<1>1. \A q \in Process : q # p => borrower'[q] = borrower[q]
  BY DEF PoolTypes
<1>2. IsFiniteSet(Owning') /\ IsFiniteSet(Opening')
  BY <1>1, HandsMove
<1>3. borrower' \in [Process -> [at : ConnectionPlace, conn : 0..Len(conn')]]
  <2>1. Len(conn) \in Nat /\ Len(conn') \in Nat
    BY DEF PoolTypes
  <2>2. \A q \in Process : borrower[q] \in [at : ConnectionPlace, conn : 0..Len(conn')]
    BY <2>1 DEF PoolTypes
  <2> QED
    BY <2>2 DEF PoolTypes
<1> QED
  BY <1>2, <1>3 DEF PoolTypes

-----------------------------------------------------------------------------
\* A thread goes somewhere without taking or leaving a connection, an opening or
\* a place on the stack.
LEMMA GotoTypes ==
  ASSUME PoolTypes, NEW p \in Process, NEW where \in ConnectionPlace, BorrowerGoto(p, where)
  PROVE  \E b \in [at : ConnectionPlace, conn : 0..Len(conn)] :
           /\ borrower' = [borrower EXCEPT ![p] = b]
           /\ b.at = where /\ b.conn = borrower[p].conn
<1> DEFINE b == [borrower[p] EXCEPT !.at = where]
<1>1. borrower[p] \in [at : ConnectionPlace, conn : 0..Len(conn)]
  BY DEF PoolTypes
<1>2. b \in [at : ConnectionPlace, conn : 0..Len(conn)] /\ b.at = where /\ b.conn = borrower[p].conn
  BY <1>1
<1>3. borrower' = [borrower EXCEPT ![p] = b]
  BY DEF BorrowerGoto
<1> QED
  BY <1>2, <1>3

\* The top of the idle stack changes hands.
LEMMA PopIdleStep ==
  ASSUME PoolInv, ~stolen, NEW p \in Process, PopIdle(p)
  PROVE  PoolInv'
<1> USE DEF PoolInv
<1> DEFINE n == Len(idleStack)
           c == idleStack[n]
           b == [at |-> "looking", conn |-> c]
<1>1. /\ borrower[p].at \in {"idle", "again"} /\ idleStack # <<>>
      /\ borrower' = [borrower EXCEPT ![p] = b]
      /\ conn' = [conn EXCEPT ![c].state = "checked_out"]
      /\ idleStack' = SubSeq(idleStack, 1, n - 1)
      /\ UNCHANGED <<live, poolClosed, query, leaked, stolen>>
  BY DEF PopIdle
<1>2. n \in Nat /\ n >= 1 /\ c \in 1..Len(conn) /\ conn[c].state = "idle"
      /\ idleStack \in Seq(1..Len(conn)) /\ Len(conn) \in Nat
  BY <1>1 DEF PoolTypes, StackIsIdle
<1>3. b \in [at : ConnectionPlace, conn : 0..Len(conn)] /\ b.at = "looking" /\ b.conn = c /\ c # 0
  BY <1>2 DEF ConnectionPlace
<1> HIDE DEF b, c, n
<1>4. /\ idleStack' \in Seq(1..Len(conn)) /\ Len(idleStack') = n - 1
      /\ \A i \in 1..(n - 1) : idleStack'[i] = idleStack[i]
  <2> DEFINE S == 1..Len(conn)
  <2>1. idleStack \in Seq(S) /\ n = Len(idleStack) /\ n >= 1 /\ n \in Nat
    BY <1>2 DEF n
  <2> HIDE DEF S
  <2>2. /\ SubSeq(idleStack, 1, n - 1) \in Seq(S)
        /\ Len(SubSeq(idleStack, 1, n - 1)) = n - 1
        /\ \A i \in 1..(n - 1) : SubSeq(idleStack, 1, n - 1)[i] = idleStack[i]
    BY <2>1
  <2> QED
    BY <1>1, <2>2 DEF S
<1>5. /\ conn' \in Seq(Connection) /\ Len(conn') = Len(conn)
      /\ conn'[c].state = "checked_out"
      /\ \A d \in 1..Len(conn) : d # c => conn'[d] = conn[d]
  BY <1>1, <1>2, StateMoves DEF States
<1>6. PoolTypes'
  <2>1. /\ PoolTypes /\ Len(conn') >= Len(conn) /\ live' \in Int
        /\ poolClosed' \in BOOLEAN /\ query' \subseteq 1..Len(conn')
        /\ leaked' \subseteq 1..Len(conn')
    BY <1>1, <1>2, <1>5 DEF PoolTypes
  <2>2. idleStack' \in Seq(1..Len(conn')) /\ b \in [at : ConnectionPlace, conn : 0..Len(conn')]
    BY <1>3, <1>4, <1>5
  <2> QED
    BY <1>1, <1>5, <2>1, <2>2, TypesKept
<1>7. \A i \in 1..(n - 1) : idleStack[i] # c
  <2>1. \A i, j \in 1..Len(idleStack) : idleStack[i] = idleStack[j] => i = j
    BY DEF StackIsIdle
  <2>2. n \in Nat /\ n >= 1 /\ n = Len(idleStack) /\ c = idleStack[n]
    BY <1>2 DEF n, c
  <2> QED
    BY <2>1, <2>2
<1>8. StackIsIdle'
  <2>1. \A i \in 1..(n - 1) : i \in 1..n /\ idleStack[i] \in 1..Len(conn)
    BY <1>2 DEF n
  <2> QED
    BY <1>4, <1>5, <1>7, <2>1, SMTT(30) DEF StackIsIdle, n
<1>9. /\ borrower'[p] = b /\ \A q \in Process : q # p => borrower'[q] = borrower[q]
      /\ p \notin Owning /\ p \notin Opening
  BY <1>1, BorrowerTypes DEF PoolTypes
<1>10. p \in Owning' /\ p \notin Opening' /\ Owning' \subseteq Process
  BY <1>3, <1>9 DEF Owning, Opening
<1>11. /\ \A q \in Process : q # p => (q \in Owning' <=> q \in Owning)
       /\ Cardinality(Owning') = Cardinality(Owning) + 1
       /\ Cardinality(Opening') = Cardinality(Opening)
  BY <1>9, <1>10, HandsMove, CountTypes
<1>12. \A q \in Owning : borrower[q].conn # c /\ borrower[q].conn \in 1..Len(conn)
  <2>1. \A q \in Owning : borrower[q].conn \in 1..Len(conn)
    BY <1>2, BorrowerTypes DEF Owning
  <2> QED
    BY <1>2, <2>1 DEF HandsApart
<1>13. HandsApart'
  BY <1>3, <1>5, <1>9, <1>10, <1>11, <1>12 DEF HandsApart
<1>14. c \notin leaked /\ leaked \subseteq 1..Len(conn)
  BY <1>2 DEF LeakedStayOut, PoolTypes
<1>15. LeakedStayOut'
  BY <1>1, <1>3, <1>5, <1>9, <1>10, <1>11, <1>14 DEF LeakedStayOut
<1>16. WorkersInside'
  <2> SUFFICES ASSUME NEW d \in query \ leaked
      PROVE  \E q \in Process : borrower'[q].at = "holds" /\ borrower'[q].conn = d
    BY <1>1 DEF WorkersInside
  <2>1. PICK q \in Process : borrower[q].at = "holds" /\ borrower[q].conn = d
    BY DEF WorkersInside
  <2>2. q # p
    BY <1>1, <2>1
  <2> QED
    BY <1>9, <2>1, <2>2
<1>17. LookersOwn'
  BY <1>3, <1>9 DEF LookersOwn
<1>18. Counted'
  BY <1>1, <1>2, <1>4, <1>11, CountTypes DEF Counted, n
<1> QED
  BY <1>6, <1>8, <1>13, <1>15, <1>16, <1>17, <1>18

\* The types and the stack, when the connections and the stack stay.
LEMMA ThreadOnly ==
  ASSUME PoolInv, ~stolen, NEW p \in Process, NEW b \in [at : ConnectionPlace, conn : 0..Len(conn)],
         borrower' = [borrower EXCEPT ![p] = b],
         UNCHANGED <<conn, idleStack, poolClosed, query, leaked>>, live' \in Int,
         b.at \in {"looking", "holds"} /\ b.conn # 0
           => p \in Owning /\ b.conn = borrower[p].conn,
         b.at = "looking" => b.conn # 0,
         borrower[p].at = "holds"
           => borrower[p].conn \notin query \/ (b.at = "holds" /\ b.conn = borrower[p].conn)
  PROVE  /\ PoolTypes' /\ StackIsIdle' /\ HandsApart' /\ LookersOwn' /\ LeakedStayOut'
         /\ WorkersInside'
         /\ p \in Owning' <=> b.at \in {"looking", "holds"} /\ b.conn # 0
         /\ p \in Opening' <=> b.at = "opening"
         /\ Cardinality(Owning') = Cardinality(Owning)
              + (IF p \in Owning' THEN 1 ELSE 0) - (IF p \in Owning THEN 1 ELSE 0)
         /\ Cardinality(Opening') = Cardinality(Opening)
              + (IF p \in Opening' THEN 1 ELSE 0) - (IF p \in Opening THEN 1 ELSE 0)
<1> USE DEF PoolInv
<1>1. PoolTypes'
  <2>1. /\ PoolTypes /\ conn' = conn /\ Len(conn) \in Nat /\ Len(conn') >= Len(conn)
        /\ conn' \in Seq(Connection) /\ idleStack' \in Seq(1..Len(conn'))
        /\ poolClosed' \in BOOLEAN /\ query' \subseteq 1..Len(conn')
        /\ leaked' \subseteq 1..Len(conn')
    BY DEF PoolTypes
  <2> QED
    BY <2>1, TypesKept
<1>2. borrower'[p] = b /\ \A q \in Process : q # p => borrower'[q] = borrower[q]
  BY DEF PoolTypes
<1>3. /\ \A q \in Process : q # p => (q \in Owning' <=> q \in Owning)
      /\ Cardinality(Owning') = Cardinality(Owning)
           + (IF p \in Owning' THEN 1 ELSE 0) - (IF p \in Owning THEN 1 ELSE 0)
      /\ Cardinality(Opening') = Cardinality(Opening)
           + (IF p \in Opening' THEN 1 ELSE 0) - (IF p \in Opening THEN 1 ELSE 0)
  BY <1>2, HandsMove
<1>4. /\ p \in Owning' <=> b.at \in {"looking", "holds"} /\ b.conn # 0
      /\ p \in Opening' <=> b.at = "opening"
      /\ Owning' \subseteq Process
  BY <1>2 DEF Owning, Opening
<1>5. \A q \in Owning' : q \in Owning /\ borrower'[q].conn = borrower[q].conn
  BY <1>2, <1>3, <1>4
<1>6. StackIsIdle' /\ HandsApart' /\ LeakedStayOut'
  BY <1>5 DEF StackIsIdle, HandsApart, LeakedStayOut
<1>7. WorkersInside'
  <2> SUFFICES ASSUME NEW d \in query \ leaked
      PROVE  \E q \in Process : borrower'[q].at = "holds" /\ borrower'[q].conn = d
    BY DEF WorkersInside
  <2>1. PICK q \in Process : borrower[q].at = "holds" /\ borrower[q].conn = d
    BY DEF WorkersInside
  <2>2. CASE q # p
    BY <1>2, <2>1, <2>2
  <2>3. CASE q = p
    BY <1>2, <2>1, <2>3
  <2> QED
    BY <2>2, <2>3
<1>8. LookersOwn'
  BY <1>2 DEF LookersOwn
<1> QED
  BY <1>1, <1>3, <1>4, <1>6, <1>7, <1>8

\* A place is reserved for a connection to be opened.
LEMMA ReserveStep ==
  ASSUME PoolInv, ~stolen, NEW p \in Process, Reserve(p)
  PROVE  PoolInv'
<1>1. /\ borrower[p].at \in {"idle", "again"} /\ live < MaxSize /\ live' = live + 1
      /\ BorrowerGoto(p, "opening")
      /\ UNCHANGED <<conn, idleStack, poolClosed, query, leaked, stolen>>
  BY DEF Reserve
<1>2. PoolTypes
  BY DEF PoolInv
<1>3. PICK b \in [at : ConnectionPlace, conn : 0..Len(conn)] :
        borrower' = [borrower EXCEPT ![p] = b] /\ b.at = "opening"
  BY <1>1, <1>2, GotoTypes DEF ConnectionPlace
<1>4. live' \in Int /\ live + 1 <= MaxSize
  BY <1>1, <1>2, PoolAssumption DEF PoolTypes
<1>5. p \notin Owning /\ p \notin Opening
  BY <1>1, <1>2, BorrowerTypes
<1>6. /\ PoolTypes' /\ StackIsIdle' /\ HandsApart' /\ LookersOwn' /\ LeakedStayOut'
      /\ WorkersInside'
      /\ p \notin Owning' /\ p \in Opening'
      /\ Cardinality(Owning') = Cardinality(Owning)
           + (IF p \in Owning' THEN 1 ELSE 0) - (IF p \in Owning THEN 1 ELSE 0)
      /\ Cardinality(Opening') = Cardinality(Opening)
           + (IF p \in Opening' THEN 1 ELSE 0) - (IF p \in Opening THEN 1 ELSE 0)
  BY <1>1, <1>3, <1>4, ThreadOnly
<1>7. Counted'
  BY <1>1, <1>2, <1>4, <1>5, <1>6, CountTypes DEF PoolInv, Counted
<1> QED
  BY <1>6, <1>7 DEF PoolInv

\* A thread opens a connection that the pool does not count.
LEMMA OverflowStep ==
  ASSUME PoolInv, ~stolen, NEW p \in Process, Overflow(p)
  PROVE  PoolInv'
<1> DEFINE b == [at |-> "holds", conn |-> 0]
<1>1. /\ borrower[p].at \in {"idle", "again"} /\ borrower' = [borrower EXCEPT ![p] = b]
      /\ UNCHANGED <<conn, idleStack, live, poolClosed, query, leaked, stolen>>
  BY DEF Overflow
<1>2. PoolTypes /\ live \in Int
  BY DEF PoolInv, PoolTypes
<1>3. b \in [at : ConnectionPlace, conn : 0..Len(conn)] /\ b.at = "holds" /\ b.conn = 0
  BY <1>2, CountTypes DEF ConnectionPlace
<1> HIDE DEF b
<1>5. p \notin Owning /\ p \notin Opening
  BY <1>1, <1>2, BorrowerTypes
<1>6. /\ PoolTypes' /\ StackIsIdle' /\ HandsApart' /\ LookersOwn' /\ LeakedStayOut'
      /\ WorkersInside'
      /\ p \notin Owning' /\ p \notin Opening'
      /\ Cardinality(Owning') = Cardinality(Owning)
           + (IF p \in Owning' THEN 1 ELSE 0) - (IF p \in Owning THEN 1 ELSE 0)
      /\ Cardinality(Opening') = Cardinality(Opening)
           + (IF p \in Opening' THEN 1 ELSE 0) - (IF p \in Opening THEN 1 ELSE 0)
  BY <1>1, <1>2, <1>3, ThreadOnly
<1>7. Counted'
  BY <1>1, <1>2, <1>5, <1>6, CountTypes DEF PoolInv, Counted
<1> QED
  BY <1>6, <1>7 DEF PoolInv

\* The place that was reserved is given back.
LEMMA OpenFailsStep ==
  ASSUME PoolInv, ~stolen, NEW p \in Process, OpenFails(p)
  PROVE  PoolInv'
<1>1. /\ borrower[p].at = "opening" /\ live' = live - 1 /\ BorrowerGoto(p, "idle")
      /\ UNCHANGED <<conn, idleStack, poolClosed, query, leaked, stolen>>
  BY DEF OpenFails
<1>2. PoolTypes
  BY DEF PoolInv
<1>3. PICK b \in [at : ConnectionPlace, conn : 0..Len(conn)] :
        borrower' = [borrower EXCEPT ![p] = b] /\ b.at = "idle"
  BY <1>1, <1>2, GotoTypes DEF ConnectionPlace
<1>4. live \in Int /\ live' \in Int /\ MaxSize \in Nat
  BY <1>1, <1>2, PoolAssumption DEF PoolTypes
<1>5. p \notin Owning /\ p \in Opening
  BY <1>1, <1>2, BorrowerTypes
<1>6. /\ PoolTypes' /\ StackIsIdle' /\ HandsApart' /\ LookersOwn' /\ LeakedStayOut'
      /\ WorkersInside'
      /\ p \notin Owning' /\ p \notin Opening'
      /\ Cardinality(Owning') = Cardinality(Owning)
           + (IF p \in Owning' THEN 1 ELSE 0) - (IF p \in Owning THEN 1 ELSE 0)
      /\ Cardinality(Opening') = Cardinality(Opening)
           + (IF p \in Opening' THEN 1 ELSE 0) - (IF p \in Opening THEN 1 ELSE 0)
  BY <1>1, <1>3, <1>4, ThreadOnly
<1>7. Counted'
  BY <1>1, <1>2, <1>4, <1>5, <1>6, CountTypes, SMTT(30) DEF PoolInv, Counted
<1> QED
  BY <1>6, <1>7 DEF PoolInv

\* What was popped is good.
LEMMA ReusableStep ==
  ASSUME PoolInv, ~stolen, NEW p \in Process, Reusable(p)
  PROVE  PoolInv'
<1>1. /\ borrower[p].at = "looking" /\ BorrowerGoto(p, "holds")
      /\ UNCHANGED <<conn, idleStack, live, poolClosed, query, leaked, stolen>>
  BY DEF Reusable
<1>2. PoolTypes /\ live \in Int
  BY DEF PoolInv, PoolTypes
<1>3. PICK b \in [at : ConnectionPlace, conn : 0..Len(conn)] :
        /\ borrower' = [borrower EXCEPT ![p] = b] /\ b.at = "holds"
        /\ b.conn = borrower[p].conn
  BY <1>1, <1>2, GotoTypes DEF ConnectionPlace
<1>5. (p \in Owning <=> b.conn # 0) /\ p \notin Opening
  BY <1>1, <1>2, <1>3, BorrowerTypes
<1>6. /\ PoolTypes' /\ StackIsIdle' /\ HandsApart' /\ LookersOwn' /\ LeakedStayOut'
      /\ WorkersInside'
      /\ (p \in Owning' <=> b.conn # 0) /\ p \notin Opening'
      /\ Cardinality(Owning') = Cardinality(Owning)
           + (IF p \in Owning' THEN 1 ELSE 0) - (IF p \in Owning THEN 1 ELSE 0)
      /\ Cardinality(Opening') = Cardinality(Opening)
           + (IF p \in Opening' THEN 1 ELSE 0) - (IF p \in Opening THEN 1 ELSE 0)
  BY <1>1, <1>2, <1>3, <1>5, ThreadOnly
<1>7. Counted'
  BY <1>1, <1>2, <1>5, <1>6, CountTypes, SMTT(30) DEF PoolInv, Counted
<1> QED
  BY <1>6, <1>7 DEF PoolInv

\* A connection that was opened is a new one, in one hand.
LEMMA OpenConnectionStep ==
  ASSUME PoolInv, ~stolen, NEW p \in Process, OpenConnection(p)
  PROVE  PoolInv'
<1> DEFINE n == Len(conn)
           new == [state |-> "checked_out", served |-> TRUE]
           b == [at |-> "holds", conn |-> n + 1]
<1>1. PoolTypes /\ n \in Nat /\ conn \in Seq(Connection)
  BY CountTypes DEF PoolInv, PoolTypes
<1>2. new \in Connection /\ new.state = "checked_out"
  BY DEF Connection, States
<1>3. /\ borrower[p].at = "opening" /\ conn' = Append(conn, new)
      /\ UNCHANGED <<idleStack, live, poolClosed, query, leaked, stolen>>
  BY DEF OpenConnection, Open
<1> HIDE DEF new
<1>4. /\ conn' \in Seq(Connection) /\ Len(conn') = n + 1
      /\ conn'[n + 1].state = "checked_out"
      /\ \A d \in 1..n : conn'[d] = conn[d]
  BY <1>1, <1>2, <1>3
<1>5. borrower' = [borrower EXCEPT ![p] = b]
  BY <1>4 DEF OpenConnection
<1>6. b \in [at : ConnectionPlace, conn : 0..Len(conn')] /\ b.at = "holds" /\ b.conn = n + 1
  BY <1>1, <1>4 DEF ConnectionPlace
<1>7. \A d \in 1..n : d \in 1..(n + 1) /\ d # n + 1
  BY <1>1
<1>8. /\ idleStack' \in Seq(1..Len(conn')) /\ idleStack \in Seq(1..n)
      /\ query \subseteq 1..n /\ leaked \subseteq 1..n
      /\ query' \subseteq 1..Len(conn') /\ leaked' \subseteq 1..Len(conn')
      /\ live' \in Int /\ poolClosed' \in BOOLEAN
  BY <1>1, <1>3, <1>4, <1>7 DEF PoolTypes
<1> HIDE DEF b, n
<1>9. PoolTypes'
  <2>1. Len(conn') >= Len(conn)
    BY <1>1, <1>4 DEF n
  <2> QED
    BY <1>1, <1>4, <1>5, <1>6, <1>8, <2>1, TypesKept
<1>10. /\ borrower'[p] = b /\ \A q \in Process : q # p => borrower'[q] = borrower[q]
       /\ p \notin Owning /\ p \in Opening
  BY <1>1, <1>3, <1>5, BorrowerTypes DEF PoolTypes
<1>11. p \in Owning' /\ p \notin Opening' /\ Owning' \subseteq Process
  BY <1>1, <1>6, <1>10 DEF Owning, Opening
<1>12. /\ \A q \in Process : q # p => (q \in Owning' <=> q \in Owning)
       /\ Cardinality(Owning') = Cardinality(Owning) + 1
       /\ Cardinality(Opening') = Cardinality(Opening) - 1
  BY <1>1, <1>10, <1>11, HandsMove, CountTypes
<1>13. \A q \in Owning : borrower[q].conn \in 1..n
  BY <1>1, BorrowerTypes DEF Owning, n
<1>14. StackIsIdle'
  <2>1. \A i \in 1..Len(idleStack) : idleStack[i] \in 1..n
    <3> DEFINE S == 1..n
    <3>1. idleStack \in Seq(S)
      BY <1>8
    <3> HIDE DEF S
    <3>2. \A i \in 1..Len(idleStack) : idleStack[i] \in S
      BY <3>1
    <3> QED
      BY <3>2 DEF S
  <2> QED
    BY <1>3, <1>4, <2>1 DEF PoolInv, StackIsIdle
<1>15. HandsApart'
  BY <1>4, <1>6, <1>7, <1>10, <1>11, <1>12, <1>13 DEF PoolInv, HandsApart
<1>16. LeakedStayOut'
  BY <1>3, <1>4, <1>6, <1>7, <1>8, <1>10, <1>11, <1>12 DEF PoolInv, LeakedStayOut
<1>17. WorkersInside'
  <2> SUFFICES ASSUME NEW d \in query \ leaked
      PROVE  \E q \in Process : borrower'[q].at = "holds" /\ borrower'[q].conn = d
    BY <1>3 DEF WorkersInside
  <2>1. PICK q \in Process : borrower[q].at = "holds" /\ borrower[q].conn = d
    BY DEF PoolInv, WorkersInside
  <2> QED
    BY <1>3, <1>10, <2>1
<1>18. Counted'
  BY <1>1, <1>3, <1>12, CountTypes DEF PoolInv, PoolTypes, Counted
<1>19. LookersOwn'
  BY <1>6, <1>10 DEF PoolInv, LookersOwn
<1> QED
  BY <1>3, <1>9, <1>14, <1>15, <1>16, <1>17, <1>18, <1>19 DEF PoolInv

\* A thread lets go of its connection, which nobody is inside: filed or hung up,
\* it is in no hand.
LEMMA LetsGo ==
  ASSUME PoolInv, ~stolen, NEW p \in Owning, NEW s \in {"idle", "unpooled"},
         NEW b \in [at : ConnectionPlace, conn : 0..Len(conn)], b.at \in {"idle", "again"},
         borrower' = [borrower EXCEPT ![p] = b],
         conn' = [conn EXCEPT ![borrower[p].conn].state = s],
         borrower[p].conn \notin query,
         UNCHANGED <<poolClosed, query, leaked>>,
         idleStack' \in Seq(1..Len(conn)), live' \in Int
  PROVE  /\ borrower[p].conn \in 1..Len(conn)
         /\ conn'[borrower[p].conn].state = s
         /\ \A d \in 1..Len(conn) : d # borrower[p].conn => conn'[d] = conn[d]
         /\ \A i \in 1..Len(idleStack) : /\ idleStack[i] # borrower[p].conn
                                         /\ idleStack[i] \in 1..Len(conn)
         /\ PoolTypes' /\ HandsApart' /\ LookersOwn' /\ LeakedStayOut'
         /\ WorkersInside'
         /\ Cardinality(Owning') = Cardinality(Owning) - 1
         /\ Cardinality(Opening') = Cardinality(Opening)
<1> DEFINE c == borrower[p].conn
<1>1. PoolTypes /\ p \in Process
  BY DEF PoolInv, Owning
<1>2. c \in 1..Len(conn) /\ borrower[p].at \in {"looking", "holds"}
      /\ p \notin Opening /\ conn[c].state = "checked_out" /\ c \notin leaked
  BY <1>1, BorrowerTypes DEF PoolInv, HandsApart, LeakedStayOut
<1>3. /\ conn' \in Seq(Connection) /\ Len(conn') = Len(conn)
      /\ conn'[c].state = s
      /\ \A d \in 1..Len(conn) : d # c => conn'[d] = conn[d]
  <2>1. s \in States
    BY DEF States
  <2> QED
    BY <1>1, <1>2, <2>1, StateMoves
<1>4. PoolTypes'
  <2>1. /\ Len(conn') >= Len(conn) /\ poolClosed' \in BOOLEAN
        /\ query' \subseteq 1..Len(conn') /\ leaked' \subseteq 1..Len(conn')
        /\ idleStack' \in Seq(1..Len(conn')) /\ b \in [at : ConnectionPlace, conn : 0..Len(conn')]
    BY <1>1, <1>3 DEF PoolTypes
  <2> QED
    BY <1>1, <1>3, <2>1, TypesKept
<1>5. \A i \in 1..Len(idleStack) : idleStack[i] # c /\ idleStack[i] \in 1..Len(conn)
  <2>1. \A i \in 1..Len(idleStack) : conn[idleStack[i]].state = "idle"
    BY DEF PoolInv, StackIsIdle
  <2>2. \A i \in 1..Len(idleStack) : idleStack[i] \in 1..Len(conn)
    BY <1>1 DEF PoolTypes
  <2> QED
    BY <1>2, <2>1, <2>2
<1>6. /\ borrower'[p] = b /\ \A q \in Process : q # p => borrower'[q] = borrower[q]
  BY <1>1 DEF PoolTypes
<1>7. p \notin Owning' /\ p \notin Opening' /\ Owning' \subseteq Process
  BY <1>6 DEF Owning, Opening
<1>8. /\ \A q \in Process : q # p => (q \in Owning' <=> q \in Owning)
      /\ Cardinality(Owning') = Cardinality(Owning) - 1
      /\ Cardinality(Opening') = Cardinality(Opening)
  <2>1. /\ \A q \in Process : q # p => (q \in Owning' <=> q \in Owning)
        /\ Cardinality(Owning') = Cardinality(Owning)
             + (IF p \in Owning' THEN 1 ELSE 0) - (IF p \in Owning THEN 1 ELSE 0)
        /\ Cardinality(Opening') = Cardinality(Opening)
             + (IF p \in Opening' THEN 1 ELSE 0) - (IF p \in Opening THEN 1 ELSE 0)
    BY <1>1, <1>6, HandsMove
  <2>2. Cardinality(Owning) \in Nat /\ Cardinality(Opening) \in Nat
    BY <1>1, CountTypes
  <2> QED
    BY <1>2, <1>7, <2>1, <2>2
<1>9. \A q \in Owning' : /\ q \in Owning /\ borrower'[q].conn = borrower[q].conn
                         /\ borrower[q].conn # c /\ borrower[q].conn \in 1..Len(conn)
  <2> TAKE q \in Owning'
  <2>1. q \in Owning /\ q # p /\ borrower'[q].conn = borrower[q].conn
    BY <1>6, <1>7, <1>8
  <2>2. borrower[q].conn \in 1..Len(conn)
    BY <1>1, <2>1, BorrowerTypes, CountTypes DEF Owning
  <2> QED
    BY <2>1, <2>2 DEF PoolInv, HandsApart
<1>10. HandsApart'
  BY <1>3, <1>9 DEF PoolInv, HandsApart
<1>11. LeakedStayOut'
  <2>1. \A d \in leaked : d \in 1..Len(conn) /\ d # c
    BY <1>1, <1>2 DEF PoolTypes
  <2> QED
    BY <1>3, <1>9, <2>1 DEF PoolInv, LeakedStayOut
<1>12. WorkersInside'
  <2> SUFFICES ASSUME NEW d \in query \ leaked
      PROVE  \E q \in Process : borrower'[q].at = "holds" /\ borrower'[q].conn = d
    BY DEF WorkersInside
  <2>1. PICK q \in Process : borrower[q].at = "holds" /\ borrower[q].conn = d
    BY DEF PoolInv, WorkersInside
  <2>2. q # p
    BY <2>1
  <2> QED
    BY <1>6, <2>1, <2>2
<1>13. LookersOwn'
  BY <1>6 DEF PoolInv, LookersOwn
<1> QED
  BY <1>2, <1>3, <1>4, <1>5, <1>8, <1>10, <1>11, <1>12, <1>13

\* One connection less in hand, and one less to count.
LEMMA OneFewerInHand ==
  ASSUME PoolTypes, Counted, NEW i, NEW k, NEW o, NEW e, NEW v,
         i = Len(idleStack), k = Cardinality(leaked),
         o = Cardinality(Owning) - 1, e = Cardinality(Opening), v = live - 1
  PROVE  v = i + o + e + k /\ v <= MaxSize
<1>1. /\ Cardinality(Owning) \in Nat /\ Cardinality(Opening) \in Nat
      /\ Cardinality(leaked) \in Nat /\ Len(idleStack) \in Nat
  BY CountTypes
<1>2. live \in Int /\ MaxSize \in Nat
  BY PoolAssumption DEF PoolTypes
<1> QED
  BY <1>1, <1>2, SMTT(30) DEF Counted

\* What was popped is hung up, and its place given back.
LEMMA DiscardStep ==
  ASSUME PoolInv, ~stolen, NEW p \in Process, Discard(p)
  PROVE  PoolInv'
<1>1. /\ borrower[p].at = "looking" /\ live' = live - 1
      /\ conn' = [conn EXCEPT ![borrower[p].conn].state = "unpooled"]
      /\ BorrowerGoto(p, "again")
      /\ UNCHANGED <<idleStack, poolClosed, query, leaked, stolen>>
  BY DEF Discard
<1>2. PoolTypes /\ live' \in Int /\ MaxSize \in Nat /\ idleStack' \in Seq(1..Len(conn))
  BY <1>1, PoolAssumption DEF PoolInv, PoolTypes
<1>3. PICK b \in [at : ConnectionPlace, conn : 0..Len(conn)] :
        borrower' = [borrower EXCEPT ![p] = b] /\ b.at = "again"
  BY <1>1, <1>2, GotoTypes DEF ConnectionPlace
<1>4. p \in Owning
  BY <1>1, <1>2, BorrowerTypes DEF PoolInv, LookersOwn
<1>5. borrower[p].conn \notin query
  <2> SUFFICES ASSUME borrower[p].conn \in query PROVE FALSE
    OBVIOUS
  <2>1. borrower[p].conn \notin leaked
    BY <1>4 DEF PoolInv, LeakedStayOut
  <2>2. PICK q \in Process : /\ borrower[q].at = "holds"
                             /\ borrower[q].conn = borrower[p].conn
    BY <2>1 DEF PoolInv, WorkersInside
  <2>3. q \in Owning
    BY <1>4, <2>2 DEF Owning
  <2> QED
    BY <1>1, <1>4, <2>2, <2>3 DEF PoolInv, HandsApart
<1>6. /\ PoolTypes' /\ HandsApart' /\ LookersOwn' /\ LeakedStayOut'
      /\ WorkersInside'
      /\ Cardinality(Owning') = Cardinality(Owning) - 1
      /\ Cardinality(Opening') = Cardinality(Opening)
      /\ \A d \in 1..Len(conn) : d # borrower[p].conn => conn'[d] = conn[d]
      /\ \A i \in 1..Len(idleStack) : /\ idleStack[i] # borrower[p].conn
                                      /\ idleStack[i] \in 1..Len(conn)
  BY <1>1, <1>2, <1>3, <1>4, <1>5, LetsGo
<1>7. StackIsIdle'
  BY <1>1, <1>6 DEF PoolInv, StackIsIdle
<1>8. Counted'
  <2>1. PoolTypes /\ Counted /\ live' = live - 1
        /\ Len(idleStack') = Len(idleStack) /\ Cardinality(leaked') = Cardinality(leaked)
    BY <1>1 DEF PoolInv
  <2>2. /\ live' = Len(idleStack') + Cardinality(Owning') + Cardinality(Opening')
                     + Cardinality(leaked')
        /\ live' <= MaxSize
    BY <1>6, <2>1, OneFewerInHand
  <2> QED
    BY <2>2 DEF Counted
<1> QED
  BY <1>6, <1>7, <1>8 DEF PoolInv

\* A connection is returned: filed if the pool is open and it is sound, or hung
\* up.
LEMMA CloseConnectionStep ==
  ASSUME PoolInv, ~stolen, NEW p \in Process, CloseConnection(p)
  PROVE  PoolInv'
<1> DEFINE c == borrower[p].conn
<1>1. /\ borrower[p].at = "holds" /\ c \notin query /\ BorrowerGoto(p, "idle")
      /\ UNCHANGED <<poolClosed, query, leaked, stolen>>
  BY DEF CloseConnection
<1>2. PoolTypes /\ live \in Int /\ MaxSize \in Nat /\ idleStack \in Seq(1..Len(conn))
  BY PoolAssumption DEF PoolInv, PoolTypes
<1>3. PICK b \in [at : ConnectionPlace, conn : 0..Len(conn)] :
        /\ borrower' = [borrower EXCEPT ![p] = b] /\ b.at = "idle"
  BY <1>1, <1>2, GotoTypes DEF ConnectionPlace
<1>4. CASE c = 0
  <2>1. UNCHANGED <<conn, idleStack, live>>
    BY <1>4 DEF CloseConnection
  <2>2. p \notin Owning /\ p \notin Opening
    BY <1>1, <1>2, <1>4, BorrowerTypes
  <2>3. /\ PoolTypes' /\ StackIsIdle' /\ HandsApart' /\ LookersOwn' /\ LeakedStayOut'
        /\ WorkersInside'
        /\ p \notin Owning' /\ p \notin Opening'
        /\ Cardinality(Owning') = Cardinality(Owning)
             + (IF p \in Owning' THEN 1 ELSE 0) - (IF p \in Owning THEN 1 ELSE 0)
        /\ Cardinality(Opening') = Cardinality(Opening)
             + (IF p \in Opening' THEN 1 ELSE 0) - (IF p \in Opening THEN 1 ELSE 0)
    BY <1>1, <1>2, <1>3, <2>1, ThreadOnly
  <2>4. Counted'
    BY <1>1, <1>2, <2>1, <2>2, <2>3, CountTypes DEF PoolInv, Counted
  <2> QED
    BY <2>3, <2>4 DEF PoolInv
<1>5. CASE c # 0
  <2>1. p \in Owning /\ conn[c].state = "checked_out" /\ c \in 1..Len(conn)
    BY <1>1, <1>2, <1>5, BorrowerTypes, CountTypes DEF PoolInv, HandsApart
  <2>2. Put(c)
    BY <1>5 DEF CloseConnection
  <2>3. CASE poolClosed
    <3>1. /\ conn' = [conn EXCEPT ![c].state = "unpooled"]
          /\ live' = live - 1 /\ UNCHANGED idleStack
      BY <2>1, <2>2, <2>3 DEF Put
    <3>2. live' \in Int /\ idleStack' \in Seq(1..Len(conn))
      BY <1>2, <3>1
    <3>3. /\ PoolTypes' /\ HandsApart' /\ LookersOwn' /\ LeakedStayOut'
          /\ WorkersInside'
          /\ Cardinality(Owning') = Cardinality(Owning) - 1
          /\ Cardinality(Opening') = Cardinality(Opening)
          /\ \A d \in 1..Len(conn) : d # c => conn'[d] = conn[d]
          /\ \A i \in 1..Len(idleStack) : /\ idleStack[i] # c
                                          /\ idleStack[i] \in 1..Len(conn)
      BY <1>1, <1>3, <2>1, <3>1, <3>2, LetsGo
    <3>4. StackIsIdle'
      BY <3>1, <3>3 DEF PoolInv, StackIsIdle
    <3>5. Counted'
      <4>1. PoolTypes /\ Counted /\ live' = live - 1
            /\ Len(idleStack') = Len(idleStack) /\ Cardinality(leaked') = Cardinality(leaked)
        BY <1>1, <3>1 DEF PoolInv
      <4>2. /\ live' = Len(idleStack') + Cardinality(Owning') + Cardinality(Opening')
                         + Cardinality(leaked')
            /\ live' <= MaxSize
        BY <3>3, <4>1, OneFewerInHand
      <4> QED
        BY <4>2 DEF Counted
    <3> QED
      BY <3>3, <3>4, <3>5 DEF PoolInv
  <2>4. CASE ~poolClosed
    <3>1. /\ conn' = [conn EXCEPT ![c].state = "idle"]
          /\ idleStack' = Append(idleStack, c) /\ UNCHANGED live
      BY <2>1, <2>2, <2>4 DEF Put
    <3>2. /\ live' \in Int /\ idleStack' \in Seq(1..Len(conn))
          /\ Len(idleStack') = Len(idleStack) + 1 /\ Len(idleStack) \in Nat
          /\ \A i \in 1..Len(idleStack) : idleStack'[i] = idleStack[i]
          /\ idleStack'[Len(idleStack) + 1] = c
      BY <1>2, <2>1, <3>1
    <3>3. /\ PoolTypes' /\ HandsApart' /\ LookersOwn' /\ LeakedStayOut'
          /\ WorkersInside'
          /\ Cardinality(Owning') = Cardinality(Owning) - 1
          /\ Cardinality(Opening') = Cardinality(Opening)
          /\ conn'[c].state = "idle"
          /\ \A d \in 1..Len(conn) : d # c => conn'[d] = conn[d]
          /\ \A i \in 1..Len(idleStack) : /\ idleStack[i] # c
                                          /\ idleStack[i] \in 1..Len(conn)
      BY <1>1, <1>3, <2>1, <3>1, <3>2, LetsGo
    <3>4. \A i \in 1..(Len(idleStack) + 1) :
             i \in 1..Len(idleStack) \/ i = Len(idleStack) + 1
      BY <3>2
    <3>5. StackIsIdle'
      <4>1. \A i, j \in 1..Len(idleStack) : idleStack[i] = idleStack[j] => i = j
        BY DEF PoolInv, StackIsIdle
      <4>2. \A i \in 1..Len(idleStack) : conn[idleStack[i]].state = "idle"
        BY DEF PoolInv, StackIsIdle
      <4>3. \A i, j \in 1..Len(idleStack') : idleStack'[i] = idleStack'[j] => i = j
        BY <3>2, <3>3, <3>4, <4>1
      <4>4. \A i \in 1..Len(idleStack') : conn'[idleStack'[i]].state = "idle"
        BY <3>2, <3>3, <3>4, <4>2
      <4> QED
        BY <4>3, <4>4 DEF StackIsIdle
    <3>6. Counted'
      BY <1>1, <1>2, <3>1, <3>2, <3>3, CountTypes DEF PoolInv, Counted
    <3> QED
      BY <3>3, <3>5, <3>6 DEF PoolInv
  <2> QED
    BY <2>3, <2>4
<1> QED
  BY <1>4, <1>5

\* A request is cancelled while its worker is inside: the connection is leaked.
LEMMA AbandonStep ==
  ASSUME PoolInv, ~stolen, NEW p \in Process, Abandon(p)
  PROVE  PoolInv'
<1> DEFINE c == borrower[p].conn
           b == [at |-> "idle", conn |-> 0]
<1>1. /\ borrower[p].at = "holds" /\ c \in query /\ leaked' = leaked \cup {c}
      /\ borrower' = [borrower EXCEPT ![p] = b]
      /\ UNCHANGED <<conn, idleStack, live, poolClosed, query, stolen>>
  BY DEF Abandon
<1>2. PoolTypes /\ live \in Int /\ MaxSize \in Nat /\ idleStack \in Seq(1..Len(conn))
  BY PoolAssumption DEF PoolInv, PoolTypes
<1>3. b \in [at : ConnectionPlace, conn : 0..Len(conn)] /\ b.at = "idle" /\ b.conn = 0
  BY <1>2, CountTypes DEF ConnectionPlace
<1> HIDE DEF b
<1>4. c \in 1..Len(conn) /\ c # 0
  BY <1>1, <1>2, CountTypes DEF PoolTypes
<1>5. p \in Owning /\ p \notin Opening /\ conn[c].state = "checked_out" /\ c \notin leaked
  BY <1>1, <1>2, <1>4, BorrowerTypes DEF PoolInv, HandsApart, LeakedStayOut
<1>6. PoolTypes'
  <2>1. /\ conn' \in Seq(Connection) /\ Len(conn') = Len(conn)
        /\ poolClosed' \in BOOLEAN /\ live' \in Int
        /\ query' \subseteq 1..Len(conn') /\ idleStack' \in Seq(1..Len(conn'))
    BY <1>1, <1>2 DEF PoolTypes
  <2>2. leaked' \subseteq 1..Len(conn') /\ b \in [at : ConnectionPlace, conn : 0..Len(conn')]
    BY <1>1, <1>2, <1>3, <1>4 DEF PoolTypes
  <2>3. Len(conn') >= Len(conn)
    BY <1>1, <1>2, CountTypes
  <2> QED
    BY <1>1, <1>2, <2>1, <2>2, <2>3, TypesKept
<1>7. /\ borrower'[p] = b /\ \A q \in Process : q # p => borrower'[q] = borrower[q]
  BY <1>1, <1>2 DEF PoolTypes
<1>8. p \notin Owning' /\ p \notin Opening' /\ Owning' \subseteq Process
  BY <1>3, <1>7 DEF Owning, Opening
<1>9. /\ \A q \in Process : q # p => (q \in Owning' <=> q \in Owning)
      /\ Cardinality(Owning') = Cardinality(Owning) - 1
      /\ Cardinality(Opening') = Cardinality(Opening)
  <2>1. /\ \A q \in Process : q # p => (q \in Owning' <=> q \in Owning)
        /\ Cardinality(Owning') = Cardinality(Owning)
             + (IF p \in Owning' THEN 1 ELSE 0) - (IF p \in Owning THEN 1 ELSE 0)
        /\ Cardinality(Opening') = Cardinality(Opening)
             + (IF p \in Opening' THEN 1 ELSE 0) - (IF p \in Opening THEN 1 ELSE 0)
    BY <1>2, <1>7, HandsMove
  <2>2. Cardinality(Owning) \in Nat /\ Cardinality(Opening) \in Nat
    BY <1>2, CountTypes
  <2> QED
    BY <1>5, <1>8, <2>1, <2>2
<1>10. Cardinality(leaked') = Cardinality(leaked) + 1
  BY <1>1, <1>2, <1>5, CountTypes, FS_AddElement
<1>11. \A q \in Owning' : /\ q \in Owning /\ borrower'[q].conn = borrower[q].conn
                          /\ borrower[q].conn # c
  BY <1>5, <1>7, <1>8, <1>9 DEF PoolInv, HandsApart
<1>12. StackIsIdle' /\ HandsApart' /\ LeakedStayOut'
  BY <1>1, <1>5, <1>11 DEF PoolInv, StackIsIdle, HandsApart, LeakedStayOut
<1>13. WorkersInside'
  <2> SUFFICES ASSUME NEW d \in query \ leaked, d # c
      PROVE  \E q \in Process : borrower'[q].at = "holds" /\ borrower'[q].conn = d
    BY <1>1 DEF WorkersInside
  <2>1. PICK q \in Process : borrower[q].at = "holds" /\ borrower[q].conn = d
    BY DEF PoolInv, WorkersInside
  <2>2. q # p
    BY <2>1
  <2> QED
    BY <1>7, <2>1, <2>2
<1>14. Counted'
  BY <1>1, <1>2, <1>9, <1>10, CountTypes DEF PoolInv, Counted
<1>15. LookersOwn'
  BY <1>3, <1>7 DEF PoolInv, LookersOwn
<1> QED
  BY <1>6, <1>12, <1>13, <1>14, <1>15 DEF PoolInv

\* A second close() either finds the connection filed, and changes nothing, or is
\* the theft the history variable records.
LEMMA CloseAgainStep ==
  ASSUME PoolInv, ~stolen, NEW p \in Process, CloseAgain(p)
  PROVE  PoolInv'
<1> DEFINE c == borrower[p].conn
           b == [borrower[p] EXCEPT !.conn = 0]
<1>1. /\ borrower[p].at = "idle" /\ Put(c)
      /\ stolen' = (stolen \/ conn[c].state = "checked_out")
      /\ borrower' = [borrower EXCEPT ![p] = b]
      /\ UNCHANGED <<poolClosed, query, leaked>>
  BY DEF CloseAgain
<1>2. CASE conn[c].state = "checked_out"
  BY <1>1, <1>2 DEF PoolInv
<1>3. CASE conn[c].state # "checked_out"
  <2>1. UNCHANGED <<conn, idleStack, live>>
    BY <1>1, <1>3 DEF Put
  <2>2. PoolTypes /\ live \in Int /\ MaxSize \in Nat
    BY PoolAssumption DEF PoolInv, PoolTypes
  <2>3. b \in [at : ConnectionPlace, conn : 0..Len(conn)] /\ b.at = "idle"
    <3>1. borrower[p] \in [at : ConnectionPlace, conn : 0..Len(conn)] /\ Len(conn) \in Nat
      BY <2>2 DEF PoolTypes
    <3> QED
      BY <1>1, <3>1
  <2> HIDE DEF b
  <2>4. p \notin Owning /\ p \notin Opening
    BY <1>1, <2>2, BorrowerTypes
  <2>5. /\ PoolTypes' /\ StackIsIdle' /\ HandsApart' /\ LookersOwn' /\ LeakedStayOut'
        /\ WorkersInside'
        /\ p \notin Owning' /\ p \notin Opening'
        /\ Cardinality(Owning') = Cardinality(Owning)
             + (IF p \in Owning' THEN 1 ELSE 0) - (IF p \in Owning THEN 1 ELSE 0)
        /\ Cardinality(Opening') = Cardinality(Opening)
             + (IF p \in Opening' THEN 1 ELSE 0) - (IF p \in Opening THEN 1 ELSE 0)
    BY <1>1, <2>1, <2>2, <2>3, ThreadOnly
  <2>6. Counted'
    BY <1>1, <2>1, <2>2, <2>4, <2>5, CountTypes DEF PoolInv, Counted
  <2> QED
    BY <2>5, <2>6 DEF PoolInv
<1> QED
  BY <1>2, <1>3

\* Workers come and go, and the server drops connections, without the pool.
LEMMA OutsideStep ==
  ASSUME PoolInv, ~stolen,
         \/ \E p \in Process : WorkerStarts(p)
         \/ \E c \in DOMAIN conn : WorkerEnds(c) \/ ServerDrops(c)
  PROVE  PoolInv'
<1>1. PoolTypes /\ UNCHANGED <<idleStack, live, poolClosed, borrower, leaked, stolen>>
  BY DEF PoolInv, WorkerStarts, WorkerEnds, ServerDrops
<1>2. /\ conn' \in Seq(Connection) /\ Len(conn') = Len(conn)
      /\ \A d \in 1..Len(conn) : conn'[d].state = conn[d].state
  <2>1. CASE UNCHANGED conn
    BY <1>1, <2>1 DEF PoolTypes
  <2>2. ASSUME NEW c \in DOMAIN conn, ServerDrops(c)
      PROVE  /\ conn' \in Seq(Connection) /\ Len(conn') = Len(conn)
             /\ \A d \in 1..Len(conn) : conn'[d].state = conn[d].state
    <3> DEFINE new == [conn[c] EXCEPT !.served = FALSE]
    <3>1. conn[c] \in Connection /\ c \in 1..Len(conn) /\ conn \in Seq(Connection)
      BY <1>1 DEF PoolTypes
    <3>2. new \in Connection /\ new.state = conn[c].state
      BY <3>1 DEF Connection
    <3>3. conn' = [conn EXCEPT ![c] = new]
      BY <2>2 DEF ServerDrops
    <3> HIDE DEF new
    <3> QED
      BY <3>1, <3>2, <3>3
  <2> QED
    BY <2>1, <2>2 DEF WorkerStarts, WorkerEnds
<1>3. query' \subseteq 1..Len(conn)
      /\ \A d \in query' : d \in query \/ \E p \in Process :
            borrower[p].at = "holds" /\ borrower[p].conn = d
  <2>1. ASSUME NEW p \in Process, WorkerStarts(p)
      PROVE  /\ query' \subseteq 1..Len(conn)
             /\ \A d \in query' : d \in query \/ \E q \in Process :
                   borrower[q].at = "holds" /\ borrower[q].conn = d
    <3>1. borrower[p].conn \in 1..Len(conn)
      BY <1>1, <2>1, BorrowerTypes, CountTypes DEF WorkerStarts
    <3> QED
      BY <1>1, <2>1, <3>1 DEF WorkerStarts, PoolTypes
  <2>2. CASE \E c \in DOMAIN conn : WorkerEnds(c) \/ ServerDrops(c)
    BY <1>1, <2>2 DEF WorkerEnds, ServerDrops, PoolTypes
  <2> QED
    BY <2>1, <2>2
<1>4. UNCHANGED <<Owning, Opening>>
  BY <1>1 DEF Owning, Opening
<1>5. PoolTypes'
  BY <1>1, <1>2, <1>3, <1>4 DEF PoolTypes
<1>6. StackIsIdle'
  <2>1. \A i \in 1..Len(idleStack) : idleStack[i] \in 1..Len(conn)
    BY <1>1 DEF PoolTypes
  <2> QED
    BY <1>1, <1>2, <2>1 DEF PoolInv, StackIsIdle
<1>7. HandsApart' /\ LeakedStayOut'
  <2>1. \A p \in Owning : borrower[p].conn \in 1..Len(conn)
    BY <1>1, BorrowerTypes, CountTypes DEF Owning
  <2>2. leaked \subseteq 1..Len(conn)
    BY <1>1 DEF PoolTypes
  <2> QED
    BY <1>1, <1>2, <1>4, <2>1, <2>2 DEF PoolInv, HandsApart, LeakedStayOut
<1>8. WorkersInside' /\ LookersOwn'
  BY <1>1, <1>3 DEF PoolInv, WorkersInside, LookersOwn
<1>9. Counted'
  BY <1>1, <1>4 DEF PoolInv, Counted
<1> QED
  BY <1>5, <1>6, <1>7, <1>8, <1>9 DEF PoolInv

\* The pool is closed.
LEMMA PoolCloseStep ==
  ASSUME PoolInv, ~stolen, PoolClose
  PROVE  PoolInv'
<1>1. /\ poolClosed' = TRUE /\ live' = live - Len(idleStack) /\ idleStack' = <<>>
      /\ conn' = [c \in DOMAIN conn |->
                    IF c \in Stacked THEN [conn[c] EXCEPT !.state = "unpooled"] ELSE conn[c]]
      /\ UNCHANGED <<borrower, query, leaked, stolen>>
  BY DEF PoolClose
<1>2. PoolTypes /\ conn \in Seq(Connection) /\ MaxSize \in Nat
      /\ DOMAIN conn = 1..Len(conn) /\ Len(conn) \in Nat
  BY PoolAssumption DEF PoolInv, PoolTypes
<1>3. \A d \in 1..Len(conn) : [conn[d] EXCEPT !.state = "unpooled"] \in Connection
  <2>1. \A d \in 1..Len(conn) : conn[d] \in Connection
    BY <1>2
  <2> QED
    BY <2>1 DEF Connection, States
<1>4. /\ conn' \in [1..Len(conn) -> Connection]
      /\ \A d \in 1..Len(conn) : d \notin Stacked => conn'[d] = conn[d]
  BY <1>1, <1>2, <1>3
<1>5. conn' \in Seq(Connection) /\ Len(conn') = Len(conn)
  BY <1>2, <1>4
<1>6. \A d \in Stacked : conn[d].state = "idle"
  BY <1>2 DEF PoolInv, PoolTypes, StackIsIdle, Stacked
<1>7. UNCHANGED <<Owning, Opening>>
  BY <1>1 DEF Owning, Opening
<1>8. PoolTypes'
  <2>1. live' \in Int /\ idleStack' \in Seq(1..Len(conn'))
    BY <1>1, <1>2 DEF PoolTypes
  <2> QED
    BY <1>1, <1>2, <1>5, <1>7, <2>1 DEF PoolTypes
<1>9. StackIsIdle'
  BY <1>1 DEF StackIsIdle
<1>10. HandsApart' /\ LeakedStayOut'
  <2>1. \A p \in Owning : borrower[p].conn \in 1..Len(conn)
    BY <1>2, BorrowerTypes DEF Owning
  <2>2. leaked \subseteq 1..Len(conn)
    BY <1>2 DEF PoolTypes
  <2> QED
    BY <1>1, <1>4, <1>6, <1>7, <2>1, <2>2 DEF PoolInv, HandsApart, LeakedStayOut
<1>11. WorkersInside' /\ LookersOwn'
  BY <1>1 DEF PoolInv, WorkersInside, LookersOwn
<1>12. Counted'
  <2>1. Len(idleStack') = 0
    BY <1>1
  <2> QED
    BY <1>1, <1>2, <1>7, <2>1, CountTypes DEF PoolInv, PoolTypes, Counted
<1> QED
  BY <1>8, <1>9, <1>10, <1>11, <1>12 DEF PoolInv

\* In the first state there are no connections.
LEMMA PoolInvInit == PoolInit => PoolInv
<1> SUFFICES ASSUME PoolInit PROVE PoolInv
  OBVIOUS
<1>1. Owning = {} /\ Opening = {} /\ leaked = {} /\ Len(idleStack) = 0 /\ Len(conn) = 0
  BY DEF PoolInit, Owning, Opening
<1>2. PoolTypes
  <2>1. borrower \in [Process -> [at : ConnectionPlace, conn : 0..0]]
    BY DEF PoolInit, ConnectionPlace
  <2>2. conn \in Seq(Connection) /\ idleStack \in Seq(1..0)
    BY DEF PoolInit
  <2>3. live \in Int /\ query = {}
    BY DEF PoolInit
  <2>4. poolClosed \in BOOLEAN
    BY Zenon DEF PoolInit
  <2> QED
    BY <1>1, <2>1, <2>2, <2>3, <2>4, FS_EmptySet DEF PoolTypes
<1>3. Counted
  BY <1>1, FS_EmptySet, PoolAssumption DEF PoolInit, Counted
<1> QED
  BY <1>1, <1>2, <1>3 DEF PoolInit, PoolInv, StackIsIdle, HandsApart, LookersOwn,
     LeakedStayOut, WorkersInside

\* Every step keeps the invariant.
LEMMA PoolInvNext == PoolInv /\ [PoolNext]_poolVars => PoolInv'
<1> SUFFICES ASSUME PoolInv, [PoolNext]_poolVars PROVE PoolInv'
  OBVIOUS
<1>1. CASE UNCHANGED poolVars
  <2>1. UNCHANGED <<Owning, Opening>>
    BY <1>1 DEF poolVars, Owning, Opening
  <2> QED
    BY <1>1, <2>1 DEF poolVars, PoolInv, PoolTypes, StackIsIdle, HandsApart,
       LookersOwn, LeakedStayOut, WorkersInside, Counted
<1>2. CASE PoolNext
  <2>1. ~stolen
    BY <1>2 DEF PoolNext
  <2>2. ASSUME NEW p \in Process,
               \/ PopIdle(p) \/ Reserve(p) \/ Overflow(p) \/ OpenConnection(p)
               \/ OpenFails(p) \/ Reusable(p) \/ Discard(p) \/ CloseConnection(p)
               \/ Abandon(p) \/ CloseAgain(p) \/ WorkerStarts(p)
        PROVE  PoolInv'
    BY <2>1, <2>2, PopIdleStep, ReserveStep, OverflowStep, OpenConnectionStep,
       OpenFailsStep, ReusableStep, DiscardStep, CloseConnectionStep, AbandonStep,
       CloseAgainStep, OutsideStep
  <2>3. CASE \E c \in DOMAIN conn : WorkerEnds(c) \/ ServerDrops(c)
    BY <2>1, <2>3, OutsideStep
  <2>4. CASE PoolClose
    BY <2>1, <2>4, PoolCloseStep
  <2> QED
    BY <1>2, <2>2, <2>3, <2>4 DEF PoolNext
<1> QED
  BY <1>1, <1>2

\* No connection is in two hands, and none that the pool lends is (OneBorrowerEach),
\* for any size of the pool and any number of threads.
THEOREM ConnectionsAreNotShared == PoolSpec => []OneBorrowerEach
<1>1. PoolInv => OneBorrowerEach
  <2> SUFFICES ASSUME PoolInv, ~stolen
      PROVE  /\ \A p, q \in Owning : borrower[p].conn = borrower[q].conn => p = q
             /\ \A p \in Owning : conn[borrower[p].conn].state = "checked_out"
             /\ \A c \in query : conn[c].state = "checked_out"
             /\ live = Len(idleStack) + Cardinality(Owning) + Cardinality(Opening)
                         + Cardinality(leaked)
             /\ live <= MaxSize
    BY DEF OneBorrowerEach, Owning, Opening
  <2>1. ASSUME NEW c \in query PROVE conn[c].state = "checked_out"
    <3>1. CASE c \in leaked
      BY <3>1 DEF PoolInv, LeakedStayOut
    <3>2. CASE c \notin leaked
      <4>1. PICK p \in Process : borrower[p].at = "holds" /\ borrower[p].conn = c
        BY <3>2 DEF PoolInv, WorkersInside
      <4>2. c # 0
        <5>1. c \in 1..Len(conn) /\ Len(conn) \in Nat
          BY DEF PoolInv, PoolTypes
        <5> QED
          BY <5>1
      <4> QED
        BY <4>1, <4>2 DEF PoolInv, HandsApart, Owning
    <3> QED
      BY <3>1, <3>2
  <2> QED
    BY <2>1 DEF PoolInv, HandsApart, Counted
<1> QED
  BY <1>1, PoolInvInit, PoolInvNext, PTL DEF PoolSpec

-----------------------------------------------------------------------------
\* The types that hold whatever was stolen: all but the count of the pool.
PoolShape ==
  /\ conn \in Seq(Connection) /\ idleStack \in Seq(1..Len(conn))
  /\ borrower \in [Process -> [at : ConnectionPlace, conn : 0..Len(conn)]]
  /\ query \subseteq 1..Len(conn) /\ leaked \subseteq 1..Len(conn)

\* The close() that steals a connection keeps them.
LEMMA TheftKeepsShape ==
  ASSUME PoolInv, ~stolen, NEW p \in Process, CloseAgain(p)
  PROVE  PoolShape'
<1> DEFINE c == borrower[p].conn
<1>1. /\ conn \in Seq(Connection) /\ idleStack \in Seq(1..Len(conn)) /\ Len(conn) \in Nat
      /\ borrower \in [Process -> [at : ConnectionPlace, conn : 0..Len(conn)]]
      /\ query \subseteq 1..Len(conn) /\ leaked \subseteq 1..Len(conn)
      BY DEF PoolInv, PoolTypes
<1>2. c \in 1..Len(conn) /\ Put(c) /\ borrower' = [borrower EXCEPT ![p].conn = 0]
      /\ query' = query /\ leaked' = leaked
      BY <1>1 DEF CloseAgain
<1>3. conn[c] \in Connection
      BY <1>1, <1>2
<1> HIDE DEF c
<1>4. conn' \in Seq(Connection) /\ Len(conn') = Len(conn) /\ idleStack' \in Seq(1..Len(conn))
  <2>1. CASE UNCHANGED <<conn, idleStack>>
        BY <1>1, <2>1
  <2>2. ASSUME NEW s \in States, conn' = [conn EXCEPT ![c].state = s]
        PROVE  conn' \in Seq(Connection) /\ Len(conn') = Len(conn)
    <3>1. [conn[c] EXCEPT !.state = s] \in Connection
          BY <1>3 DEF Connection
    <3>2. conn' = [conn EXCEPT ![c] = [conn[c] EXCEPT !.state = s]]
          BY <2>2
    <3> QED BY <1>1, <1>2, <3>1, <3>2
  <2>3. CASE conn' = [conn EXCEPT ![c].state = "unpooled"] /\ UNCHANGED idleStack
        BY <1>1, <2>2, <2>3 DEF States
  <2>4. CASE conn' = [conn EXCEPT ![c].state = "idle"] /\ idleStack' = Append(idleStack, c)
        BY <1>1, <1>2, <2>2, <2>4 DEF States
  <2> QED BY <1>2, <2>1, <2>3, <2>4 DEF Put
<1>5. borrower' \in [Process -> [at : ConnectionPlace, conn : 0..Len(conn)]]
  <2>1. borrower[p] \in [at : ConnectionPlace, conn : 0..Len(conn)]
        BY <1>1
  <2>2. [borrower[p] EXCEPT !.conn = 0] \in [at : ConnectionPlace, conn : 0..Len(conn)]
        BY <1>1, <2>1
  <2> QED BY <1>1, <1>2, <2>2
<1> QED BY <1>1, <1>2, <1>4, <1>5 DEF PoolShape

\* The types of the pool, also once a connection was stolen.
THEOREM PoolTyped == PoolSpec => []PoolTypeOK
<1>1. PoolInv /\ ~stolen => PoolShape /\ live \in Nat
  <2> SUFFICES ASSUME PoolInv, ~stolen PROVE PoolShape /\ live \in Nat
      OBVIOUS
  <2>1. PoolTypes /\ Counted
        BY DEF PoolInv
  <2>2. Cardinality(Owning) \in Nat /\ Cardinality(Opening) \in Nat
        BY <2>1, FS_CardinalityType DEF PoolTypes
  <2>3. Cardinality(leaked) \in Nat /\ Len(idleStack) \in Nat
    <3>1. IsFiniteSet(1..Len(conn))
          BY <2>1, FS_Interval DEF PoolTypes
    <3>2. IsFiniteSet(leaked)
          BY <2>1, <3>1, FS_Subset DEF PoolTypes
    <3> QED BY <2>1, <3>2, FS_CardinalityType DEF PoolTypes
  <2> QED BY <2>1, <2>2, <2>3 DEF PoolTypes, PoolShape, Counted
<1>2. PoolInit => PoolShape
      BY <1>1, PoolInvInit DEF PoolInit
<1>3. PoolInv /\ PoolShape /\ [PoolNext]_poolVars => PoolShape'
  <2> SUFFICES ASSUME PoolInv, PoolShape, [PoolNext]_poolVars PROVE PoolShape'
      OBVIOUS
  <2>1. CASE ~stolen'
    <3>1. PoolInv'
          BY PoolInvNext
    <3> QED BY <2>1, <3>1 DEF PoolInv, PoolTypes, PoolShape
  <2>2. CASE UNCHANGED poolVars
        BY <2>2 DEF poolVars, PoolShape
  <2>3. CASE stolen' /\ PoolNext
    <3>1. ~stolen /\ \E p \in Process : CloseAgain(p)
          BY <2>3 DEF PoolNext, PopIdle, Reserve, Overflow, OpenConnection, OpenFails, Reusable,
             Discard, CloseConnection, Abandon, WorkerStarts, WorkerEnds, ServerDrops, PoolClose
    <3> QED BY <3>1, TheftKeepsShape
  <2> QED BY <2>1, <2>2, <2>3
<1>4. PoolInv /\ PoolShape => PoolTypeOK
  <2> SUFFICES ASSUME PoolInv, PoolShape PROVE PoolTypeOK
      OBVIOUS
  <2>1. DOMAIN conn = 1..Len(conn) /\ \A c \in DOMAIN conn : conn[c] \in Connection
        BY DEF PoolShape
  <2>2. Stacked \subseteq 1..Len(conn)
        BY DEF PoolShape, Stacked
  <2>3. \A p \in Process : borrower[p].conn \in 0..Len(conn)
        BY DEF PoolShape
  <2> QED BY <1>1, <2>1, <2>2, <2>3 DEF PoolShape, PoolTypeOK, Connection, States
<1> QED BY <1>2, <1>3, <1>4, PoolInvInit, PoolInvNext, PTL DEF PoolSpec

-----------------------------------------------------------------------------
(***************************************************************************)
(* VenueRouting for any number of jobs, machines, leases and processes: a  *)
(* claim comes back empty only if no job waited for the whole of it.       *)
(***************************************************************************)

LeaseRows == [venue : Venue, job : Work, live : BOOLEAN, recorded : BOOLEAN]
JobRows == [venue : Venue, task : {"none", "queued", "leased", "ended"},
            row : {"none", "active", "ended"}]
AskPlaces == {"ask", "register", "reask"}
ClaimPlaces == {"idle", "granted", "empty"} \cup AskPlaces
Claims == [at : ClaimPlaces, node : Node \cup {Nobody}, rest : Seq(Venue), lease : Nat,
           owed : SUBSET Work]

\* The types of the tables and of the claims under way.
RoutingTypes ==
  /\ job \in [Work -> JobRows] /\ lease \in Seq(LeaseRows)
  /\ registry \in [Node -> {"unknown", "online", "quiet"}]
  /\ claimer \in [Process -> Claims]

\* A live lease is of a job that is leased, and is the only one of that job.
LiveIsLeased ==
  \A l \in 1..Len(lease) :
    lease[l].live =>
      /\ job[lease[l].job].task = "leased"
      /\ \A k \in 1..Len(lease) : lease[k].live /\ lease[k].job = lease[l].job => k = l

\* What a claim owes while it asks is queued at a venue it has still to ask, and when
\* the last has answered it owes nothing.
Owing(c, jobs) ==
  \A j \in c.owed : /\ jobs[j].task = "queued"
                    /\ \E i \in 1..Len(c.rest) : c.rest[i] = jobs[j].venue
ClaimFits(c, jobs, n) ==
  /\ c.at \in AskPlaces => c.rest # <<>> /\ Owing(c, jobs)
  /\ c.at = "granted" => c.lease \in 1..n
  /\ c.at = "empty" => c.owed = {}
ClaimsFit == \A p \in Process : ClaimFits(claimer[p], job, Len(lease))

\* The inductive invariant.
RoutingInv == RoutingTypes /\ LiveIsLeased /\ ClaimsFit

\* What is queued stays queued at its venue, the jobs of `but` apart.
QueuedStay(but) ==
  \A j \in Work \ but : job[j].task = "queued" => /\ job'[j].task = "queued"
                                                  /\ job'[j].venue = job[j].venue

-----------------------------------------------------------------------------
LEMMA IdleIsClaim == IdleClaim \in Claims /\ IdleClaim.at = "idle" /\ IdleClaim.owed = {}
  BY DEF Claims, ClaimPlaces, IdleClaim

\* In the first state nobody claims and nothing is leased.
LEMMA RoutingInitInv == VenueInit => RoutingInv
<1> SUFFICES ASSUME VenueInit PROVE RoutingInv
    OBVIOUS
<1>1. IdleClaim \in Claims /\ IdleClaim.at = "idle"
      BY IdleIsClaim
<1>2. lease \in Seq(LeaseRows) /\ Len(lease) = 0
      BY DEF VenueInit
<1>3. job \in [Work -> JobRows]
      BY DEF VenueInit, JobRows, Venue, Default
<1>4. /\ registry \in [Node -> {"unknown", "online", "quiet"}]
      /\ claimer \in [Process -> Claims] /\ \A p \in Process : claimer[p].at = "idle"
      BY <1>1 DEF VenueInit
<1>5. RoutingTypes
      BY <1>2, <1>3, <1>4 DEF RoutingTypes
<1>6. LiveIsLeased
      BY <1>2 DEF LiveIsLeased
<1>7. ClaimsFit
      BY <1>4 DEF ClaimsFit, ClaimFits, AskPlaces
<1> QED BY <1>5, <1>6, <1>7 DEF RoutingInv

\* A claim fits what becomes of the tables, if what it owes stays queued.
LEMMA ClaimStands ==
  ASSUME RoutingInv, NEW c \in Claims, NEW j, NEW m \in Nat, Len(lease) <= m,
         ClaimFits(c, job, Len(lease)), QueuedStay({j})
  PROVE  /\ NoLonger(j, c) \in Claims /\ ClaimFits(NoLonger(j, c), job', m)
         /\ (j \notin c.owed => ClaimFits(c, job', m))
<1> DEFINE d == NoLonger(j, c)
<1>1. /\ d \in Claims /\ d.at = c.at /\ d.rest = c.rest /\ d.lease = c.lease
      /\ d.owed = c.owed \ {j}
      BY DEF NoLonger, Claims
<1>2. c.owed \subseteq Work /\ Len(lease) \in Nat
      BY DEF Claims, RoutingInv, RoutingTypes
<1> HIDE DEF d
<1>3. ASSUME c.at \in AskPlaces, NEW k \in c.owed, k # j
      PROVE  /\ job'[k].task = "queued"
             /\ \E i \in 1..Len(c.rest) : c.rest[i] = job'[k].venue
      BY <1>2, <1>3 DEF ClaimFits, Owing, QueuedStay
<1>4. c.at = "granted" => c.lease \in 1..m
      BY <1>2 DEF ClaimFits
<1>5. ClaimFits(d, job', m)
      BY <1>1, <1>3, <1>4 DEF ClaimFits, Owing
<1>6. j \notin c.owed => ClaimFits(c, job', m)
      BY <1>3, <1>4 DEF ClaimFits, Owing
<1> QED BY <1>1, <1>5, <1>6 DEF d

\* A step that leaves the claims alone and unqueues nothing.
LEMMA TablesMove ==
  ASSUME RoutingInv, job' \in [Work -> JobRows], lease' \in Seq(LeaseRows),
         registry' \in [Node -> {"unknown", "online", "quiet"}],
         claimer' = claimer, Len(lease') = Len(lease), QueuedStay({}), LiveIsLeased'
  PROVE  RoutingInv'
<1>1. RoutingTypes'
      BY DEF RoutingInv, RoutingTypes
<1>2. ASSUME NEW p \in Process PROVE ClaimFits(claimer[p], job', Len(lease))
  <2>1. claimer[p] \in Claims /\ Len(lease) \in Nat /\ ClaimFits(claimer[p], job, Len(lease))
        BY DEF RoutingInv, RoutingTypes, ClaimsFit
  <2>2. claimer[p].owed \subseteq Work
        BY <2>1 DEF Claims
  <2> QED BY <2>1, <2>2 DEF ClaimFits, Owing, QueuedStay
<1>3. ClaimsFit'
      BY <1>2 DEF ClaimsFit
<1> QED BY <1>1, <1>3 DEF RoutingInv

\* The types of one lease.
LEMMA LeaseIs ==
  ASSUME RoutingTypes, NEW l \in 1..Len(lease)
  PROVE  lease[l] \in LeaseRows /\ lease[l].job \in Work
<1>1. lease[l] \in LeaseRows
      BY DEF RoutingTypes
<1> QED BY <1>1 DEF LeaseRows

\* A job is posted, recorded, or seen to have ended.
LEMMA JobRowStep ==
  ASSUME RoutingInv, NEW j \in Work, NEW v \in Venue,
         PostJob(j, v) \/ InsertJob(j) \/ SyncObservedState(j)
  PROVE  RoutingInv'
<1>0. RoutingTypes /\ job[j] \in JobRows
      BY DEF RoutingInv, RoutingTypes
<1>1. PICK r \in JobRows :
        /\ job' = [job EXCEPT ![j] = r]
        /\ (r.task = job[j].task /\ r.venue = job[j].venue) \/ job[j].task = "none"
  <2>1. CASE PostJob(j, v)
    <3>1. [venue |-> v, task |-> "queued", row |-> "none"] \in JobRows
          BY DEF JobRows
    <3> QED BY <2>1, <3>1 DEF PostJob
  <2>2. CASE InsertJob(j)
    <3>1. [job[j] EXCEPT !.row = "active"] \in JobRows
          BY <1>0 DEF JobRows
    <3>2. job' = [job EXCEPT ![j] = [job[j] EXCEPT !.row = "active"]]
          BY <2>2 DEF InsertJob
    <3> QED BY <1>0, <3>1, <3>2 DEF JobRows
  <2>3. CASE SyncObservedState(j)
    <3>1. [job[j] EXCEPT !.row = "ended"] \in JobRows
          BY <1>0 DEF JobRows
    <3>2. job' = [job EXCEPT ![j] = [job[j] EXCEPT !.row = "ended"]]
          BY <2>3 DEF SyncObservedState
    <3> QED BY <1>0, <3>1, <3>2 DEF JobRows
  <2> QED BY <2>1, <2>2, <2>3
<1>2. lease' = lease /\ registry' = registry /\ claimer' = claimer
      BY DEF PostJob, InsertJob, SyncObservedState
<1>3. job' \in [Work -> JobRows] /\ \A k \in Work : job'[k] = IF k = j THEN r ELSE job[k]
      BY <1>0, <1>1 DEF RoutingTypes
<1>4. QueuedStay({})
      BY <1>1, <1>3 DEF QueuedStay
<1>5. LiveIsLeased'
  <2>1. \A k \in Work : job[k].task = "leased" => job'[k].task = "leased"
        BY <1>1, <1>3
  <2>2. \A l \in 1..Len(lease) : lease[l].job \in Work
        BY <1>0, LeaseIs
  <2> QED BY <1>2, <2>1, <2>2 DEF RoutingInv, LiveIsLeased
<1> QED BY <1>0, <1>2, <1>3, <1>4, <1>5, TablesMove DEF RoutingTypes

\* What a lease that is over leaves.
LEMMA OverIs ==
  ASSUME NEW r \in LeaseRows
  PROVE  Over(r) \in LeaseRows /\ ~Over(r).live /\ Over(r).job = r.job
  BY DEF LeaseRows, Over

\* A lease ends: its task is queued again, or done.
LEMMA LeaseEndStep ==
  ASSUME RoutingInv, NEW l \in DOMAIN lease,
         LeaseAgesOut(l) \/ \E answer \in {"complete", "fail"} : CallLease(l, answer)
  PROVE  RoutingInv'
<1>0. /\ RoutingTypes /\ l \in 1..Len(lease) /\ lease[l] \in LeaseRows
      /\ lease[l].live /\ Len(lease) \in Nat
      BY DEF RoutingInv, RoutingTypes, LeaseAgesOut, CallLease
<1> DEFINE j == lease[l].job
<1>1. /\ j \in Work /\ job[j].task = "leased" /\ job[j] \in JobRows
      /\ \A k \in 1..Len(lease) : lease[k].live /\ lease[k].job = j => k = l
      BY <1>0 DEF RoutingInv, RoutingTypes, LiveIsLeased, LeaseRows
<1>2. PICK t \in {"queued", "ended"} : job' = [job EXCEPT ![j].task = t]
      BY DEF LeaseAgesOut, CallLease
<1>3. lease' = [lease EXCEPT ![l] = Over(lease[l])] /\ registry' = registry /\ claimer' = claimer
      BY DEF LeaseAgesOut, CallLease
<1>4. Over(lease[l]) \in LeaseRows /\ ~Over(lease[l]).live
      BY <1>0, OverIs
<1>5. /\ lease' \in Seq(LeaseRows) /\ Len(lease') = Len(lease)
      /\ \A k \in 1..Len(lease) : lease'[k] = IF k = l THEN Over(lease[l]) ELSE lease[k]
      BY <1>0, <1>3, <1>4 DEF RoutingTypes
<1> HIDE DEF j
<1>6. [job[j] EXCEPT !.task = t] \in JobRows
      BY <1>1, <1>2 DEF JobRows
<1>7. /\ job' \in [Work -> JobRows]
      /\ \A k \in Work : k # j => job'[k] = job[k]
      BY <1>0, <1>1, <1>2, <1>6 DEF RoutingTypes
<1>8. QueuedStay({})
      BY <1>1, <1>7 DEF QueuedStay
<1>9. LiveIsLeased'
  <2> SUFFICES ASSUME NEW k \in 1..Len(lease), lease'[k].live
               PROVE  /\ job'[lease'[k].job].task = "leased"
                      /\ \A m \in 1..Len(lease) :
                           lease'[m].live /\ lease'[m].job = lease'[k].job => m = k
      BY <1>5 DEF LiveIsLeased
  <2>1. k # l /\ lease'[k] = lease[k] /\ lease[k] \in LeaseRows
        BY <1>0, <1>4, <1>5 DEF RoutingTypes
  <2>2. lease[k].job \in Work /\ lease[k].job # j
        BY <1>1, <2>1 DEF LeaseRows
  <2>3. job'[lease[k].job].task = "leased"
        BY <1>7, <2>1, <2>2 DEF RoutingInv, LiveIsLeased
  <2>4. ASSUME NEW m \in 1..Len(lease), lease'[m].live, lease'[m].job = lease[k].job
        PROVE  m = k
    <3>1. m # l /\ lease'[m] = lease[m]
          BY <1>4, <1>5, <2>4
    <3> QED BY <2>1, <2>4, <3>1 DEF RoutingInv, LiveIsLeased
  <2> QED BY <2>1, <2>3, <2>4
<1> QED BY <1>0, <1>3, <1>5, <1>7, <1>8, <1>9, TablesMove DEF RoutingTypes

\* A job is cancelled: no claim owes it any more.
LEMMA CancelStep == ASSUME RoutingInv, NEW j \in Work, CancelJob(j) PROVE RoutingInv'
<1>0. RoutingTypes /\ job[j] \in JobRows /\ Len(lease) \in Nat
      BY DEF RoutingInv, RoutingTypes
<1>1. /\ job' = [job EXCEPT ![j].task = "ended"] /\ registry' = registry
      /\ claimer' = [p \in Process |-> NoLonger(j, claimer[p])]
      /\ lease' = [l \in DOMAIN lease |-> IF lease[l].job = j THEN Over(lease[l]) ELSE lease[l]]
      BY DEF CancelJob
<1>2. [job[j] EXCEPT !.task = "ended"] \in JobRows
      BY <1>0 DEF JobRows
<1>3. /\ job' \in [Work -> JobRows] /\ \A k \in Work : k # j => job'[k] = job[k]
      BY <1>0, <1>1, <1>2 DEF RoutingTypes
<1>4. /\ DOMAIN lease = 1..Len(lease)
      /\ \A l \in 1..Len(lease) : lease[l] \in LeaseRows /\ lease[l].job \in Work
      BY <1>0, LeaseIs DEF RoutingTypes
<1>5. \A l \in 1..Len(lease) :
        /\ lease'[l] = IF lease[l].job = j THEN Over(lease[l]) ELSE lease[l]
        /\ lease'[l] \in LeaseRows /\ lease'[l].job = lease[l].job
        /\ lease'[l].live => lease'[l] = lease[l] /\ lease[l].job # j
      BY <1>1, <1>4, OverIs
<1>6. lease' \in Seq(LeaseRows) /\ Len(lease') = Len(lease)
  <2>1. lease' = [l \in 1..Len(lease) |-> lease'[l]]
        BY <1>1, <1>4
  <2> DEFINE s == [l \in 1..Len(lease) |-> lease'[l]]
  <2>2. s \in [1..Len(lease) -> LeaseRows]
        BY <1>5
  <2> QED BY <1>0, <2>1, <2>2
<1>7. QueuedStay({j})
      BY <1>3 DEF QueuedStay
<1>8. \A p \in Process : NoLonger(j, claimer[p]) \in Claims
                         /\ ClaimFits(NoLonger(j, claimer[p]), job', Len(lease))
  <2> TAKE p \in Process
  <2>1. claimer[p] \in Claims /\ ClaimFits(claimer[p], job, Len(lease))
        BY DEF RoutingInv, RoutingTypes, ClaimsFit
  <2> QED BY <1>0, <1>7, <2>1, ClaimStands
<1>9. RoutingTypes' /\ ClaimsFit'
      BY <1>0, <1>1, <1>3, <1>6, <1>8 DEF RoutingTypes, ClaimsFit
<1>10. LiveIsLeased'
      BY <1>3, <1>4, <1>5, <1>6 DEF RoutingInv, LiveIsLeased
<1> QED BY <1>9, <1>10 DEF RoutingInv

\* The second venue restarts, loses a machine from sight or hears of it.
LEMMA RegistryStep ==
  ASSUME RoutingInv, FcRestarts \/ \E n \in Node : NodeGoesQuiet(n) \/ Heartbeat(n)
  PROVE  RoutingInv'
<1>1. job' = job /\ lease' = lease /\ claimer' = claimer
      BY DEF FcRestarts, NodeGoesQuiet, Heartbeat
<1>2. registry' \in [Node -> {"unknown", "online", "quiet"}]
      BY DEF FcRestarts, NodeGoesQuiet, Heartbeat, RoutingInv, RoutingTypes
<1>3. QueuedStay({}) /\ LiveIsLeased'
      BY <1>1 DEF RoutingInv, LiveIsLeased, QueuedStay
<1> QED BY <1>1, <1>2, <1>3, TablesMove DEF RoutingInv, RoutingTypes

-----------------------------------------------------------------------------
\* One claim goes on, and with it at most the registry.
LEMMA ClaimMoves ==
  ASSUME RoutingInv, NEW p \in Process, NEW c \in Claims, ClaimFits(c, job, Len(lease)),
         claimer' = [claimer EXCEPT ![p] = c], job' = job, lease' = lease,
         registry' \in [Node -> {"unknown", "online", "quiet"}]
  PROVE  RoutingInv'
<1>1. RoutingTypes'
      BY DEF RoutingInv, RoutingTypes
<1>2. ClaimsFit'
      BY DEF RoutingInv, RoutingTypes, ClaimsFit
<1>3. LiveIsLeased'
      BY DEF RoutingInv, LiveIsLeased
<1> QED BY <1>1, <1>2, <1>3 DEF RoutingInv

\* The next venue: one that was heard has none of what the claim owes.
LEMMA NextFits ==
  ASSUME RoutingInv, NEW c \in Claims, c.at \in AskPlaces, ClaimFits(c, job, Len(lease)),
         NEW heard \in BOOLEAN, heard => Queue(Head(c.rest)) = {}
  PROVE  NextVenue(c, heard) \in Claims /\ ClaimFits(NextVenue(c, heard), job, Len(lease))
<1> DEFINE d == NextVenue(c, heard)
<1>1. /\ c.rest \in Seq(Venue) /\ c.rest # <<>> /\ Len(c.rest) \in Nat /\ Len(c.rest) >= 1
      /\ Tail(c.rest) \in Seq(Venue) /\ Len(Tail(c.rest)) = Len(c.rest) - 1
      /\ \A i \in 1..Len(c.rest) : i # 1 => Tail(c.rest)[i - 1] = c.rest[i]
      /\ Head(c.rest) = c.rest[1] /\ c.owed \subseteq Work
      BY DEF ClaimFits, Claims
<1>2. /\ d \in Claims /\ d.at = (IF Len(c.rest) = 1 THEN "empty" ELSE "ask")
      /\ d.rest = Tail(c.rest) /\ d.owed = (IF heard THEN c.owed ELSE {})
      BY <1>1 DEF NextVenue, Claims, ClaimPlaces, AskPlaces
<1> HIDE DEF d
<1>3. ASSUME NEW j \in d.owed
      PROVE  /\ job[j].task = "queued"
             /\ \E i \in 1..Len(d.rest) : d.rest[i] = job[j].venue
  <2>1. heard /\ j \in c.owed /\ j \in Work
        BY <1>1, <1>2, <1>3
  <2>2. job[j].task = "queued" /\ \E i \in 1..Len(c.rest) : c.rest[i] = job[j].venue
        BY <2>1 DEF ClaimFits, Owing
  <2>3. PICK i \in 1..Len(c.rest) : c.rest[i] = job[j].venue
        BY <2>2
  <2>4. i # 1
        BY <1>1, <2>1, <2>2, <2>3 DEF Queue
  <2>5. i - 1 \in 1..Len(d.rest) /\ d.rest[i - 1] = job[j].venue
        BY <1>1, <1>2, <2>3, <2>4
  <2> QED BY <2>2, <2>5
<1>4. Len(c.rest) = 1 => d.owed = {}
      BY <1>1, <1>2, <1>3
<1>5. Len(c.rest) # 1 => d.rest # <<>>
  <2>1. Len(c.rest) # 1 => Len(d.rest) # 0
        BY <1>1, <1>2
  <2> QED BY <2>1
<1>6. ClaimFits(d, job, Len(lease))
      BY <1>2, <1>3, <1>4, <1>5 DEF ClaimFits, Owing, AskPlaces
<1> QED BY <1>2, <1>6 DEF d

\* The venues a claim asks: the second if it has work, and the default last.
LEMMA VenuesAre ==
  /\ ClaimableVenues \in Seq(Venue) /\ Len(ClaimableVenues) \in {1, 2}
  /\ ClaimableVenues[Len(ClaimableVenues)] = "render"
  /\ Active("fc") => Len(ClaimableVenues) = 2 /\ ClaimableVenues[1] = "fc"
<1> DEFINE a == IF Active("fc") THEN <<"fc">> ELSE <<>>
           b == <<"render">>
<1>1. /\ a \in Seq(Venue) /\ b \in Seq(Venue) /\ Len(b) = 1 /\ b[1] = "render"
      /\ Len(a) = (IF Active("fc") THEN 1 ELSE 0) /\ (Active("fc") => a[1] = "fc")
  <2>1. /\ <<"fc">> \in Seq(Venue) /\ Len(<<"fc">>) = 1 /\ <<"fc">>[1] = "fc"
        /\ b \in Seq(Venue) /\ Len(b) = 1 /\ b[1] = "render"
        BY DEF Venue
  <2>2. <<>> \in Seq(Venue) /\ Len(<<>>) = 0
        OBVIOUS
  <2>3. CASE Active("fc")
    <3>1. a = <<"fc">>
          BY <2>3
    <3> QED BY <2>1, <2>3, <3>1
  <2>4. CASE ~Active("fc")
    <3>1. a = <<>>
          BY <2>4
    <3> QED BY <2>1, <2>2, <2>4, <3>1
  <2> QED BY <2>3, <2>4
<1>2. ClaimableVenues = a \o b
      BY DEF ClaimableVenues, Default
<1> HIDE DEF a, b
<1>3. /\ a \o b \in Seq(Venue) /\ Len(a \o b) = Len(a) + Len(b)
      /\ \A i \in 1..Len(a) + Len(b) : (a \o b)[i] = IF i <= Len(a) THEN a[i] ELSE b[i - Len(a)]
      BY <1>1, ConcatProperties
<1>4. Len(a \o b) = Len(a) + 1 /\ Len(a) \in {0, 1}
      BY <1>1, <1>3
<1>5. (a \o b)[Len(a) + 1] = "render" /\ (Active("fc") => (a \o b)[1] = "fc")
      BY <1>1, <1>3, <1>4
<1> QED BY <1>1, <1>2, <1>3, <1>4, <1>5

\* What a claim owes when it begins is at the venues it will ask.
LEMMA ClaimableIsAsked ==
  ASSUME RoutingInv, NEW j \in Claimable
  PROVE  /\ job[j].task = "queued"
         /\ \E i \in 1..Len(ClaimableVenues) : ClaimableVenues[i] = job[j].venue
<1>1. /\ j \in Work /\ job[j].task = "queued" /\ job[j].venue \in {"render", "fc"}
      /\ job[j].venue = Default \/ job[j].row = "active"
      BY DEF Claimable, RoutingInv, RoutingTypes, JobRows, Venue
<1>2. job[j].venue = "fc" => 1 \in 1..Len(ClaimableVenues) /\ ClaimableVenues[1] = "fc"
      BY <1>1, VenuesAre DEF Active, Default
<1>3. Len(ClaimableVenues) \in 1..Len(ClaimableVenues)
      BY VenuesAre
<1> QED BY <1>1, <1>2, <1>3, VenuesAre

\* A claim begins.
LEMMA BeginStep ==
  ASSUME RoutingInv, NEW p \in Process, NEW n \in Node, BeginClaim(p, n) PROVE RoutingInv'
<1>1. PICK rest \in {ClaimableVenues, <<Default>>} :
        claimer' = [claimer EXCEPT ![p] =
          [IdleClaim EXCEPT !.at = "ask", !.node = n, !.rest = rest,
                            !.owed = IF rest = ClaimableVenues THEN Claimable ELSE {}]]
      BY DEF BeginClaim
<1> DEFINE c == [IdleClaim EXCEPT !.at = "ask", !.node = n, !.rest = rest,
                                  !.owed = IF rest = ClaimableVenues THEN Claimable ELSE {}]
<1>2. rest \in Seq(Venue) /\ rest # <<>>
  <2>1. <<Default>> \in Seq(Venue) /\ <<Default>> # <<>>
        BY DEF Venue, Default
  <2>2. ClaimableVenues \in Seq(Venue) /\ ClaimableVenues # <<>>
        BY VenuesAre
  <2> QED BY <1>1, <2>1, <2>2
<1>3. /\ c.at = "ask" /\ c.rest = rest
      /\ c.owed = (IF rest = ClaimableVenues THEN Claimable ELSE {}) /\ Claimable \subseteq Work
      BY DEF IdleClaim, Claimable
<1>4. c \in Claims
      BY <1>2, <1>3 DEF IdleClaim, Claims, ClaimPlaces, AskPlaces
<1> HIDE DEF c
<1>5. Owing(c, job)
      BY <1>3, ClaimableIsAsked DEF Owing
<1>6. ClaimFits(c, job, Len(lease))
      BY <1>2, <1>3, <1>5 DEF ClaimFits, AskPlaces
<1>7. claimer' = [claimer EXCEPT ![p] = c] /\ job' = job /\ lease' = lease /\ registry' = registry
      BY <1>1 DEF BeginClaim, c
<1> QED BY <1>4, <1>6, <1>7, ClaimMoves DEF RoutingInv, RoutingTypes

\* What is known of a claim that asks.
LEMMA AskerFacts ==
  ASSUME RoutingInv, NEW p \in Process
  PROVE  /\ claimer[p] \in Claims /\ ClaimFits(claimer[p], job, Len(lease))
         /\ Asking(p) => claimer[p].at \in AskPlaces
  BY DEF RoutingInv, RoutingTypes, ClaimsFit, Asking, AskPlaces

\* A venue has nothing, or refuses, or is told of the machine.
LEMMA AskStep ==
  ASSUME RoutingInv, NEW p \in Process,
         VenueHasNothing(p) \/ VenueRefuses(p) \/ RegisterWithVenue(p)
  PROVE  RoutingInv'
<1> DEFINE c == claimer[p]
<1>1. c \in Claims /\ ClaimFits(c, job, Len(lease)) /\ c.at \in AskPlaces
      BY AskerFacts DEF VenueHasNothing, VenueRefuses, RegisterWithVenue, AskPlaces
<1>2. job' = job /\ lease' = lease
      BY DEF VenueHasNothing, VenueRefuses, RegisterWithVenue
<1>3. registry' \in [Node -> {"unknown", "online", "quiet"}]
  <2>1. registry' = registry \/ \E n : registry' = [registry EXCEPT ![n] = "online"]
        BY DEF VenueHasNothing, VenueRefuses, RegisterWithVenue
  <2> QED BY <2>1 DEF RoutingInv, RoutingTypes
<1>4. NextVenue(c, FALSE) \in Claims /\ ClaimFits(NextVenue(c, FALSE), job, Len(lease))
      BY <1>1, NextFits
<1>5. ASSUME NEW where \in AskPlaces
      PROVE  [c EXCEPT !.at = where] \in Claims /\ ClaimFits([c EXCEPT !.at = where], job, Len(lease))
  <2>1. /\ [c EXCEPT !.at = where] \in Claims /\ [c EXCEPT !.at = where].at = where
        /\ [c EXCEPT !.at = where].rest = c.rest /\ [c EXCEPT !.at = where].owed = c.owed
        BY <1>1 DEF Claims, ClaimPlaces
  <2> QED BY <1>1, <2>1 DEF ClaimFits, Owing, AskPlaces
<1>6. \E d \in Claims : ClaimFits(d, job, Len(lease)) /\ claimer' = [claimer EXCEPT ![p] = d]
  <2>1. CASE VenueHasNothing(p)
    <3> DEFINE heard == Standing(c.node, Head(c.rest)) = "online"
    <3>1. /\ heard \in BOOLEAN /\ (heard => Queue(Head(c.rest)) = {})
          /\ claimer' = [claimer EXCEPT ![p] = NextVenue(c, heard)]
          BY <2>1 DEF VenueHasNothing
    <3> HIDE DEF heard
    <3>2. NextVenue(c, heard) \in Claims /\ ClaimFits(NextVenue(c, heard), job, Len(lease))
          BY <1>1, <3>1, NextFits
    <3> QED BY <3>1, <3>2
  <2>2. CASE VenueRefuses(p)
    <3>1. \/ claimer' = [claimer EXCEPT ![p] = [c EXCEPT !.at = "register"]]
          \/ claimer' = [claimer EXCEPT ![p] = NextVenue(c, FALSE)]
          BY <2>2 DEF VenueRefuses
    <3>2. "register" \in AskPlaces
          BY DEF AskPlaces
    <3> QED BY <1>4, <1>5, <3>1, <3>2
  <2>3. CASE RegisterWithVenue(p)
    <3>1. \/ claimer' = [claimer EXCEPT ![p] = [c EXCEPT !.at = "reask"]]
          \/ claimer' = [claimer EXCEPT ![p] = NextVenue(c, FALSE)]
          BY <2>3 DEF RegisterWithVenue
    <3>2. "reask" \in AskPlaces
          BY DEF AskPlaces
    <3> QED BY <1>4, <1>5, <3>1, <3>2
  <2> QED BY <2>1, <2>2, <2>3
<1> QED BY <1>2, <1>3, <1>6, ClaimMoves

\* A claim that is over.
LEMMA OverFits ==
  ASSUME NEW jobs, NEW m PROVE IdleClaim \in Claims /\ ClaimFits(IdleClaim, jobs, m)
  BY DEF IdleClaim, Claims, ClaimPlaces, ClaimFits, AskPlaces

\* A lease is issued, and of a job nobody holds.
LEMMA GrantKeeps ==
  ASSUME RoutingInv, NEW n, NEW v \in Venue, NEW j \in Work, Grant(n, v, j)
  PROVE  /\ lease' \in Seq(LeaseRows) /\ Len(lease') = Len(lease) + 1
         /\ job' \in [Work -> JobRows] /\ QueuedStay({j}) /\ LiveIsLeased'
<1>0. /\ RoutingTypes /\ job[j] \in JobRows /\ job[j].task = "queued" /\ Len(lease) \in Nat
      /\ job' = [job EXCEPT ![j].task = "leased"]
      BY DEF RoutingInv, RoutingTypes, Grant, Queue
<1> DEFINE r == [venue |-> v, job |-> j, live |-> TRUE, recorded |-> FALSE]
<1>1. lease' = Append(lease, r) /\ r \in LeaseRows /\ r.job = j
      BY DEF Grant, LeaseRows
<1> HIDE DEF r
<1>2. /\ lease' \in Seq(LeaseRows) /\ Len(lease') = Len(lease) + 1
      /\ \A l \in 1..Len(lease) : lease'[l] = lease[l]
      /\ lease'[Len(lease) + 1] = r
      BY <1>0, <1>1 DEF RoutingTypes
<1>3. [job[j] EXCEPT !.task = "leased"] \in JobRows
      BY <1>0 DEF JobRows
<1>4. /\ job' \in [Work -> JobRows] /\ \A k \in Work : k # j => job'[k] = job[k]
      /\ job'[j].task = "leased"
  <2>1. job' = [job EXCEPT ![j] = [job[j] EXCEPT !.task = "leased"]]
        BY <1>0
  <2>2. [job[j] EXCEPT !.task = "leased"].task = "leased"
        BY <1>0 DEF JobRows
  <2> QED BY <1>0, <1>3, <2>1, <2>2 DEF RoutingTypes
<1>5. QueuedStay({j})
      BY <1>4 DEF QueuedStay
<1>6. \A l \in 1..Len(lease) :
        /\ lease[l].job \in Work
        /\ lease[l].live => lease[l].job # j /\ job'[lease[l].job].task = "leased"
  <2> TAKE l \in 1..Len(lease)
  <2>1. lease[l].job \in Work
        BY <1>0, LeaseIs
  <2>2. lease[l].live => job[lease[l].job].task = "leased"
        BY DEF RoutingInv, LiveIsLeased
  <2> QED BY <1>0, <1>4, <2>1, <2>2
<1>7. LiveIsLeased'
  <2> SUFFICES ASSUME NEW l \in 1..Len(lease) + 1, lease'[l].live
               PROVE  /\ job'[lease'[l].job].task = "leased"
                      /\ \A k \in 1..Len(lease) + 1 :
                           lease'[k].live /\ lease'[k].job = lease'[l].job => k = l
      BY <1>2 DEF LiveIsLeased
  <2>1. CASE l = Len(lease) + 1
    <3>1. \A k \in 1..Len(lease) + 1 : k # l => k \in 1..Len(lease)
          BY <1>0, <2>1
    <3> QED BY <1>1, <1>2, <1>4, <1>6, <2>1, <3>1
  <2>2. CASE l \in 1..Len(lease)
    <3>1. lease'[l] = lease[l] /\ lease[l].live /\ lease[l].job # j
          BY <1>2, <1>6, <2>2
    <3>2. ASSUME NEW k \in 1..Len(lease) + 1, lease'[k].live, lease'[k].job = lease[l].job
          PROVE  k = l
      <4>1. k \in 1..Len(lease)
            BY <1>0, <1>1, <1>2, <3>1, <3>2
      <4> QED BY <1>2, <2>2, <3>1, <3>2, <4>1 DEF RoutingInv, LiveIsLeased
    <3> QED BY <1>6, <2>2, <3>1, <3>2
  <2> QED BY <1>0, <2>1, <2>2
<1> QED BY <1>2, <1>4, <1>5, <1>7

\* With a lease issued, the claim that got it goes on, and no other owes its job.
LEMMA GrantMoves ==
  ASSUME RoutingInv, NEW p \in Process, NEW n, NEW v \in Venue, NEW j \in Work,
         Grant(n, v, j), NEW c \in Claims, ClaimFits(c, job', Len(lease) + 1),
         \A q \in Process : claimer'[q] = IF q = p THEN c ELSE NoLonger(j, claimer[q]),
         claimer' = [q \in Process |-> claimer'[q]], registry' = registry
  PROVE  RoutingInv'
<1>1. /\ lease' \in Seq(LeaseRows) /\ Len(lease') = Len(lease) + 1
      /\ job' \in [Work -> JobRows] /\ QueuedStay({j}) /\ LiveIsLeased'
      BY GrantKeeps
<1>2. Len(lease) \in Nat /\ Len(lease) + 1 \in Nat /\ Len(lease) <= Len(lease) + 1
      BY DEF RoutingInv, RoutingTypes
<1>3. \A q \in Process : claimer'[q] \in Claims /\ ClaimFits(claimer'[q], job', Len(lease) + 1)
  <2> TAKE q \in Process
  <2>1. claimer[q] \in Claims /\ ClaimFits(claimer[q], job, Len(lease))
        BY AskerFacts
  <2>2. /\ NoLonger(j, claimer[q]) \in Claims
        /\ ClaimFits(NoLonger(j, claimer[q]), job', Len(lease) + 1)
        BY <1>1, <1>2, <2>1, ClaimStands
  <2> QED BY <2>2
<1>4. claimer' \in [Process -> Claims]
      BY <1>3
<1>5. RoutingTypes' /\ ClaimsFit'
      BY <1>1, <1>3, <1>4 DEF RoutingInv, RoutingTypes, ClaimsFit
<1> QED BY <1>1, <1>5 DEF RoutingInv

\* A venue grants a lease.
LEMMA VenueGrantStep == ASSUME RoutingInv, NEW p \in Process, VenueGrants(p) PROVE RoutingInv'
<1>1. claimer[p] \in Claims /\ claimer[p].rest # <<>> /\ Head(claimer[p].rest) \in Venue
  <2>1. /\ claimer[p] \in Claims /\ claimer[p].at \in AskPlaces
        /\ ClaimFits(claimer[p], job, Len(lease))
        BY AskerFacts DEF VenueGrants
  <2>2. claimer[p].rest \in Seq(Venue) /\ claimer[p].rest # <<>>
        BY <2>1 DEF Claims, ClaimFits
  <2> QED BY <2>1, <2>2
<1> DEFINE c == [IdleClaim EXCEPT !.at = "granted", !.lease = Len(lease) + 1]
<1>2. PICK j \in Work :
        /\ Grant(claimer[p].node, Head(claimer[p].rest), j)
        /\ claimer' = [q \in Process |-> IF q = p THEN c ELSE NoLonger(j, claimer[q])]
      BY DEF VenueGrants
<1>3. Len(lease) \in Nat
      BY DEF RoutingInv, RoutingTypes
<1>4. c \in Claims /\ c.at = "granted" /\ c.lease = Len(lease) + 1
  <2> DEFINE n == Len(lease) + 1
  <2>1. n \in Nat
        BY <1>3
  <2> HIDE DEF n
  <2>2. /\ [IdleClaim EXCEPT !.at = "granted", !.lease = n] \in Claims
        /\ [IdleClaim EXCEPT !.at = "granted", !.lease = n].at = "granted"
        /\ [IdleClaim EXCEPT !.at = "granted", !.lease = n].lease = n
        BY <2>1, IdleIsClaim DEF Claims, ClaimPlaces
  <2> QED BY <2>2 DEF n
<1> HIDE DEF c
<1>5. ClaimFits(c, job', Len(lease) + 1)
      BY <1>3, <1>4 DEF ClaimFits, AskPlaces
<1>6. \A q \in Process : claimer'[q] = IF q = p THEN c ELSE NoLonger(j, claimer[q])
      BY <1>2
<1>7. claimer' = [q \in Process |-> claimer'[q]]
      BY <1>2, <1>6
<1>8. registry' = registry
      BY DEF VenueGrants
<1> QED BY <1>1, <1>2, <1>4, <1>5, <1>6, <1>7, <1>8, GrantMoves

\* A venue is not heard, whether it granted or not.
LEMMA UnheardStep == ASSUME RoutingInv, NEW p \in Process, VenueUnheard(p) PROVE RoutingInv'
<1> DEFINE c == claimer[p]
<1>1. c \in Claims /\ c.at \in AskPlaces /\ ClaimFits(c, job, Len(lease)) /\ registry' = registry
      BY AskerFacts DEF VenueUnheard
<1>2. Head(c.rest) \in Venue
  <2>1. c.rest \in Seq(Venue) /\ c.rest # <<>>
        BY <1>1 DEF Claims, ClaimFits
  <2> QED BY <2>1
<1>3. PICK over \in {NextVenue(c, FALSE), IdleClaim} :
        \/ \E j \in Work :
             /\ Grant(c.node, Head(c.rest), j)
             /\ claimer' = [q \in Process |-> NoLonger(j, IF q = p THEN over ELSE claimer[q])]
        \/ claimer' = [claimer EXCEPT ![p] = over] /\ UNCHANGED <<job, lease>>
      BY DEF VenueUnheard
<1>4. over \in Claims /\ ClaimFits(over, job, Len(lease))
      BY <1>1, <1>3, NextFits, OverFits
<1>5. CASE claimer' = [claimer EXCEPT ![p] = over] /\ UNCHANGED <<job, lease>>
      BY <1>1, <1>4, <1>5, ClaimMoves DEF RoutingInv, RoutingTypes
<1>6. ASSUME NEW j \in Work, Grant(c.node, Head(c.rest), j),
             claimer' = [q \in Process |-> NoLonger(j, IF q = p THEN over ELSE claimer[q])]
      PROVE  RoutingInv'
  <2> DEFINE d == NoLonger(j, over)
  <2>1. QueuedStay({j}) /\ Len(lease) \in Nat
        BY <1>2, <1>6, GrantKeeps DEF RoutingInv, RoutingTypes
  <2>2. d \in Claims /\ ClaimFits(d, job', Len(lease) + 1)
        BY <1>4, <2>1, ClaimStands
  <2>3. \A q \in Process : claimer'[q] = IF q = p THEN d ELSE NoLonger(j, claimer[q])
        BY <1>6
  <2>4. claimer' = [q \in Process |-> claimer'[q]]
        BY <1>6, <2>3
  <2> HIDE DEF d
  <2> QED BY <1>1, <1>2, <1>6, <2>2, <2>3, <2>4, GrantMoves
<1> QED BY <1>3, <1>5, <1>6

\* A claim is answered, and its lease recorded or not.
LEMMA AnswerStep == ASSUME RoutingInv, NEW p \in Process, AnswerClaim(p) PROVE RoutingInv'
<1> DEFINE l == claimer[p].lease
<1>0. /\ RoutingTypes /\ Len(lease) \in Nat /\ claimer[p] \in Claims
      /\ claimer[p].at = "granted" => l \in 1..Len(lease)
      BY AskerFacts DEF RoutingInv, RoutingTypes, ClaimFits
<1>1. job' = job /\ registry' = registry /\ claimer' = [claimer EXCEPT ![p] = IdleClaim]
      BY DEF AnswerClaim
<1>2. /\ lease' \in Seq(LeaseRows) /\ Len(lease') = Len(lease)
      /\ \A k \in 1..Len(lease) : lease'[k].live = lease[k].live /\ lease'[k].job = lease[k].job
  <2>1. CASE UNCHANGED lease
        BY <1>0, <2>1 DEF RoutingTypes
  <2>2. CASE claimer[p].at = "granted" /\ lease' = [lease EXCEPT ![l].recorded = lease[l].live]
    <3> DEFINE r == [lease[l] EXCEPT !.recorded = lease[l].live]
    <3>1. l \in 1..Len(lease) /\ lease[l] \in LeaseRows /\ lease' = [lease EXCEPT ![l] = r]
          BY <1>0, <2>2 DEF RoutingTypes
    <3>2. r \in LeaseRows /\ r.live = lease[l].live /\ r.job = lease[l].job
          BY <3>1 DEF LeaseRows
    <3> HIDE DEF r
    <3> QED BY <1>0, <3>1, <3>2 DEF RoutingTypes
  <2> QED BY <2>1, <2>2 DEF AnswerClaim
<1>3. RoutingTypes'
      BY <1>0, <1>1, <1>2, OverFits DEF RoutingTypes
<1>4. LiveIsLeased'
      BY <1>1, <1>2 DEF RoutingInv, LiveIsLeased
<1>5. ClaimsFit'
  <2>1. \A q \in Process : claimer'[q] = IF q = p THEN IdleClaim ELSE claimer[q]
        BY <1>0, <1>1 DEF RoutingTypes
  <2> QED BY <1>1, <1>2, <2>1, OverFits DEF RoutingInv, ClaimsFit
<1> QED BY <1>3, <1>4, <1>5 DEF RoutingInv

LEMMA RoutingStepInv == RoutingInv /\ [VenueNext]_venueVars => RoutingInv'
<1> SUFFICES ASSUME RoutingInv, [VenueNext]_venueVars PROVE RoutingInv'
    OBVIOUS
<1>1. CASE UNCHANGED venueVars
      BY <1>1 DEF venueVars, RoutingInv, RoutingTypes, LiveIsLeased, ClaimsFit
<1>2. ASSUME NEW j \in Work, NEW v \in Venue, PostJob(j, v) PROVE RoutingInv'
      BY <1>2, JobRowStep
<1>3. ASSUME NEW j \in Work, InsertJob(j) \/ SyncObservedState(j) PROVE RoutingInv'
  <2>1. Default \in Venue
        BY DEF Default, Venue
  <2> QED BY <1>3, <2>1, JobRowStep
<1>4. ASSUME NEW j \in Work, CancelJob(j) PROVE RoutingInv'
      BY <1>4, CancelStep
<1>5. CASE FcRestarts \/ \E n \in Node : NodeGoesQuiet(n) \/ Heartbeat(n)
      BY <1>5, RegistryStep
<1>6. ASSUME NEW l \in DOMAIN lease,
             LeaseAgesOut(l) \/ \E answer \in {"complete", "fail"} : CallLease(l, answer)
      PROVE  RoutingInv'
      BY <1>6, LeaseEndStep
<1>7. ASSUME NEW p \in Process, NEW n \in Node, BeginClaim(p, n) PROVE RoutingInv'
      BY <1>7, BeginStep
<1>8. ASSUME NEW p \in Process, VenueGrants(p) PROVE RoutingInv'
      BY <1>8, VenueGrantStep
<1>9. ASSUME NEW p \in Process, VenueHasNothing(p) \/ VenueRefuses(p) \/ RegisterWithVenue(p)
      PROVE  RoutingInv'
      BY <1>9, AskStep
<1>10. ASSUME NEW p \in Process, VenueUnheard(p) PROVE RoutingInv'
      BY <1>10, UnheardStep
<1>11. ASSUME NEW p \in Process, AnswerClaim(p) PROVE RoutingInv'
      BY <1>11, AnswerStep
<1> QED BY <1>1, <1>2, <1>3, <1>4, <1>5, <1>6, <1>7, <1>8, <1>9, <1>10, <1>11 DEF VenueNext

\* A claim comes back empty only past jobs that did not wait for the whole of it
\* (NoWorkIsPassedBy): whatever jobs are posted and cancelled meanwhile, whatever other
\* claims are given, and however often the second venue restarts.
THEOREM ClaimsFindWork == VenueSpec => []NoWorkIsPassedBy
<1>1. RoutingInv => NoWorkIsPassedBy
      BY DEF RoutingInv, ClaimsFit, ClaimFits, NoWorkIsPassedBy
<1> QED BY <1>1, RoutingInitInv, RoutingStepInv, PTL DEF VenueSpec

\* The types of the venues, their jobs and their leases (VenueTypeOK).
THEOREM VenueTyped == VenueSpec => []VenueTypeOK
<1>1. RoutingInv => VenueTypeOK
  <2> SUFFICES ASSUME RoutingInv PROVE VenueTypeOK
      OBVIOUS
  <2>1. \A j \in Work : job[j] \in [venue : Venue, row : {"none", "active", "ended"},
                                    task : {"none", "queued", "leased", "ended"}]
        BY DEF RoutingInv, RoutingTypes, JobRows
  <2>2. \A l \in DOMAIN lease : lease[l] \in [venue : Venue, job : Work, live : BOOLEAN,
                                              recorded : BOOLEAN]
        BY LeaseIs DEF RoutingInv, RoutingTypes, LeaseRows
  <2>3. \A p \in Process : claimer[p].node \in Node \cup {Nobody} /\ claimer[p].owed \subseteq Work
        BY DEF RoutingInv, RoutingTypes, Claims
  <2> QED BY <2>1, <2>2, <2>3 DEF RoutingInv, RoutingTypes, VenueTypeOK
<1> QED BY <1>1, RoutingInitInv, RoutingStepInv, PTL DEF VenueSpec

-----------------------------------------------------------------------------
(***************************************************************************)
(* SandboxBootstrap for any number of calls and launches: one worker at    *)
(* most is left to work, and no credential on the disk.                    *)
(***************************************************************************)

\* How a worker stands, and the places of a call.
WorkerStates == {"starting", "registered", "cut", "mended", "fatal", "dead"}
BeforeLaunch == {"marker", "credential", "launch"}
Beside == {"await", "delete", "capabilities", "write"}
BootPlaces == {"idle", "receipt"} \cup BeforeLaunch \cup Beside

\* The workers that run and were not told to stop.
AtWork == {w \in DOMAIN worker : Alive(w) /\ w \notin told}

\* The types of the sandbox and of the call.
BootTypes ==
  /\ worker \in Seq(WorkerStates) /\ told \subseteq 1..Len(worker)
  /\ box \in [marker : BOOLEAN, credential : BOOLEAN, receipt : 0..Len(worker)]
  /\ boot \in [at : BootPlaces, attempt : Nat, pid : 0..Len(worker)]
  /\ result \in {"none", "prepared", "reused", "error"}

\* One worker at most, and none while a call gets ready to launch its own.
Alone ==
  /\ \A v, w \in AtWork : v = w
  /\ boot.at \in BeforeLaunch => AtWork = {}
  /\ boot.at \in Beside => /\ boot.pid # 0 /\ boot.pid \notin told
                           /\ AtWork \subseteq {boot.pid}

\* What the call has done by the time it has got to a place.
Progress ==
  /\ boot.at \in {"credential", "launch"} \cup Beside => box.marker
  /\ boot.at \in {"capabilities", "write"} => ~box.credential

\* A receipt's worker was never told to stop; while it lives no call is past the
\* receipt, and the sandbox is as the call that wrote it left it.
ReceiptStands ==
  box.receipt # 0 =>
    /\ box.receipt \notin told
    /\ boot.at \in Beside => box.receipt # boot.pid
    /\ Alive(box.receipt) =>
         /\ boot.at \in {"idle", "receipt"}
         /\ ~box.credential /\ box.marker

\* What a call that returned a worker promises.
ResultStands ==
  result \in {"prepared", "reused"} =>
    /\ boot.at = "idle" /\ ~box.credential /\ box.marker /\ box.receipt # 0
    /\ AtWork \subseteq {box.receipt}

\* The inductive invariant, until a call goes on over a live worker.
BootInv ==
  excused \/ /\ BootTypes /\ Alone /\ Progress
             /\ ReceiptStands /\ ResultStands

-----------------------------------------------------------------------------
\* The parts of the state, out of the records that hold them.
LEMMA BootFacts ==
  ASSUME BootTypes
  PROVE  /\ worker \in Seq(WorkerStates) /\ Len(worker) \in Nat
         /\ DOMAIN worker = 1..Len(worker)
         /\ box.marker \in BOOLEAN /\ box.credential \in BOOLEAN
         /\ box.receipt \in 0..Len(worker)
         /\ boot.at \in BootPlaces /\ boot.attempt \in Nat /\ boot.pid \in 0..Len(worker)
BY DEF BootTypes

\* Going somewhere, or returning, moves nothing else of the call.
LEMMA BootMoves ==
  ASSUME BootTypes
  PROVE  /\ \A where \in BootPlaces : BootGoto(where) =>
              /\ boot' \in [at : BootPlaces, attempt : Nat, pid : 0..Len(worker)]
              /\ boot'.at = where /\ boot'.pid = boot.pid
         /\ \A r \in {"none", "prepared", "reused", "error"} : Returns(r) =>
              /\ boot' \in [at : BootPlaces, attempt : Nat, pid : 0..Len(worker)]
              /\ boot'.at = "idle" /\ result' = r
<1>1. boot \in [at : BootPlaces, attempt : Nat, pid : 0..Len(worker)]
      /\ Len(worker) \in Nat
  BY DEF BootTypes
<1>2. ASSUME NEW where \in BootPlaces, BootGoto(where)
      PROVE  /\ boot' \in [at : BootPlaces, attempt : Nat, pid : 0..Len(worker)]
             /\ boot'.at = where /\ boot'.pid = boot.pid
  BY <1>1, <1>2 DEF BootGoto
<1>3. BootIdle \in [at : BootPlaces, attempt : Nat, pid : 0..Len(worker)]
      /\ BootIdle.at = "idle"
  BY <1>1 DEF BootIdle, BootPlaces
<1>4. ASSUME NEW r \in {"none", "prepared", "reused", "error"}, Returns(r)
      PROVE  /\ boot' \in [at : BootPlaces, attempt : Nat, pid : 0..Len(worker)]
             /\ boot'.at = "idle" /\ result' = r
  BY <1>3, <1>4 DEF Returns
<1> QED
  BY <1>2, <1>4

\* A call begins: it is excused if an earlier one left a worker running.
LEMMA BootCallStep ==
  ASSUME BootInv, ~excused, BootCall \/ Reuse \/ BootstrapAgain
  PROVE  BootInv'
<1> SUFFICES ASSUME ~excused' PROVE BootInv'
  BY DEF BootInv
<1>1. BootTypes /\ Alone /\ Progress /\ ReceiptStands /\ ResultStands
      /\ UNCHANGED <<worker, told, box>> /\ AtWork' = AtWork
  BY DEF BootInv, BootCall, Reuse, BootstrapAgain, AtWork, Alive
<1>2. CASE BootCall
  <2>1. /\ boot.at = "idle" /\ boot'.at = "receipt" /\ result' = "none"
        /\ boot' \in [at : BootPlaces, attempt : Nat, pid : 0..Len(worker)]
    BY <1>1, <1>2, BootMoves DEF BootCall, BootPlaces
  <2>2. BootTypes'
    BY <1>1, <2>1 DEF BootTypes
  <2>3. Alone'
    BY <1>1, <2>1 DEF Alone, BeforeLaunch, Beside
  <2>4. Progress' /\ ReceiptStands' /\ ResultStands'
    BY <1>1, <2>1 DEF Progress, ReceiptStands, ResultStands, Beside, Alive
  <2> QED
    BY <2>2, <2>3, <2>4 DEF BootInv
<1>3. CASE Reuse
  <2>1. /\ boot.at = "receipt" /\ boot'.at = "idle" /\ result' = "reused"
        /\ box.receipt # 0 /\ Alive(box.receipt)
        /\ boot' \in [at : BootPlaces, attempt : Nat, pid : 0..Len(worker)]
    BY <1>1, <1>3, BootMoves DEF Reuse, Healthy
  <2>2. BootTypes'
    BY <1>1, <2>1 DEF BootTypes
  <2>3. Alone'
    BY <1>1, <2>1 DEF Alone, BeforeLaunch, Beside
  <2>4. box.receipt \in AtWork
    BY <1>1, <2>1, BootFacts DEF AtWork, ReceiptStands
  <2>5. AtWork \subseteq {box.receipt}
    BY <1>1, <2>4 DEF Alone
  <2>6. Progress' /\ ReceiptStands'
    BY <1>1, <2>1 DEF Progress, ReceiptStands, Beside, Alive
  <2>7. ResultStands'
    BY <1>1, <2>1, <2>5 DEF ReceiptStands, ResultStands
  <2> QED
    BY <2>2, <2>3, <2>6, <2>7 DEF BootInv
<1>4. CASE BootstrapAgain
  <2>1. /\ boot.at = "receipt" /\ boot'.at = "marker" /\ result' = result
        /\ boot' \in [at : BootPlaces, attempt : Nat, pid : 0..Len(worker)]
        /\ ~Running
    BY <1>1, <1>4, BootMoves DEF BootstrapAgain, BootPlaces, BeforeLaunch
  <2>2. AtWork = {}
    BY <2>1 DEF Running, AtWork
  <2>3. box.receipt # 0 => ~Alive(box.receipt)
    BY <1>1, <2>2, BootFacts DEF AtWork, ReceiptStands
  <2>4. BootTypes'
    BY <1>1, <2>1 DEF BootTypes
  <2>5. Alone'
    BY <1>1, <2>1, <2>2 DEF Alone, BeforeLaunch, Beside
  <2>6. Progress' /\ ReceiptStands'
    BY <1>1, <2>1, <2>3 DEF Progress, ReceiptStands, Beside, Alive
  <2>7. ResultStands'
    BY <1>1, <2>1 DEF ResultStands
  <2> QED
    BY <2>4, <2>5, <2>6, <2>7 DEF BootInv
<1> QED
  BY <1>2, <1>3, <1>4

\* A receipt's worker is dead once a call is past the receipt.
LEMMA ReceiptIsDead ==
  ASSUME BootTypes, ReceiptStands, boot.at \in BeforeLaunch \cup Beside
  PROVE  box.receipt # 0 => ~Alive(box.receipt)
BY DEF ReceiptStands, BeforeLaunch, Beside

\* No result stands while a call is under way.
LEMMA NoResultYet ==
  ASSUME ResultStands, boot.at # "idle"
  PROVE  result \notin {"prepared", "reused"}
BY DEF ResultStands

\* The files are written, the worker is launched.
LEMMA PrepareStep ==
  ASSUME BootInv, ~excused, WriteMarker \/ WriteCredential
  PROVE  BootInv'
<1>1. /\ BootTypes /\ Alone /\ Progress /\ ReceiptStands /\ ResultStands
      /\ UNCHANGED <<worker, told, excused>> /\ AtWork' = AtWork
      /\ boot.at \in {"marker", "credential"}
  BY DEF BootInv, WriteMarker, WriteCredential, AtWork, Alive
<1>2. /\ AtWork = {} /\ (box.receipt # 0 => ~Alive(box.receipt))
      /\ result \in {"none", "error"}
  BY <1>1, ReceiptIsDead, NoResultYet DEF Alone, BeforeLaunch, BootTypes
<1>3. /\ box' \in [marker : BOOLEAN, credential : BOOLEAN, receipt : 0..Len(worker)]
      /\ box'.receipt = box.receipt /\ box'.marker
  <2>0. box \in [marker : BOOLEAN, credential : BOOLEAN, receipt : 0..Len(worker)]
    BY <1>1 DEF BootTypes
  <2>1. CASE WriteMarker
    BY <2>0, <2>1 DEF WriteMarker
  <2>2. CASE WriteCredential
    <3>1. box.marker
      BY <1>1, <2>2 DEF WriteCredential, Progress
    <3> QED
      BY <2>0, <2>2, <3>1 DEF WriteCredential
  <2> QED
    BY <2>1, <2>2
<1>4. /\ boot' \in [at : BootPlaces, attempt : Nat, pid : 0..Len(worker)]
      /\ \/ boot'.at \in {"credential", "launch"} /\ result' = result
         \/ boot'.at = "idle" /\ result' = "error"
  <2>1. CASE WriteMarker
    BY <1>1, <2>1, BootMoves DEF WriteMarker, BootPlaces, BeforeLaunch
  <2>2. CASE WriteCredential
    BY <1>1, <2>2, BootMoves DEF WriteCredential, BootPlaces, BeforeLaunch
  <2> QED
    BY <2>1, <2>2
<1>5. BootTypes'
  BY <1>1, <1>2, <1>3, <1>4 DEF BootTypes
<1>6. Alone'
  BY <1>1, <1>2, <1>4 DEF Alone, BeforeLaunch, Beside
<1>7. Progress'
  BY <1>3, <1>4 DEF Progress, Beside
<1>8. ReceiptStands'
  BY <1>1, <1>2, <1>3, <1>4 DEF ReceiptStands, Alive, Beside
<1>9. ResultStands'
  BY <1>2, <1>4 DEF ResultStands
<1> QED
  BY <1>5, <1>6, <1>7, <1>8, <1>9 DEF BootInv

\* A worker is launched, where none is working.
LEMMA LaunchStep ==
  ASSUME BootInv, ~excused, Launch
  PROVE  BootInv'
<1> DEFINE n == Len(worker)
<1>1. /\ BootTypes /\ Alone /\ Progress /\ ReceiptStands /\ ResultStands
      /\ UNCHANGED <<told, box, excused>> /\ boot.at = "launch"
      /\ worker' = Append(worker, "starting")
  BY DEF BootInv, Launch
<1>2. /\ AtWork = {} /\ (box.receipt # 0 => ~Alive(box.receipt))
      /\ result \in {"none", "error"} /\ box.marker
  BY <1>1, ReceiptIsDead, NoResultYet DEF Alone, BeforeLaunch, BootTypes, Progress
<1>3. /\ worker' \in Seq(WorkerStates) /\ Len(worker') = n + 1 /\ n \in Nat
      /\ DOMAIN worker' = 1..(n + 1) /\ DOMAIN worker = 1..n
      /\ \A w \in 1..n : worker'[w] = worker[w]
  <2>1. worker \in Seq(WorkerStates) /\ "starting" \in WorkerStates
    BY <1>1 DEF BootTypes, WorkerStates
  <2> QED
    BY <1>1, <2>1
<1>4. told \subseteq 1..n /\ box.receipt \in 0..n
  BY <1>1, BootFacts DEF BootTypes
<1>5. AtWork' \subseteq {n + 1}
  <2>1. \A w \in 1..(n + 1) : w \in 1..n \/ w = n + 1
    BY <1>3
  <2> QED
    BY <1>1, <1>2, <1>3, <2>1 DEF AtWork, Alive
<1>6. /\ boot' \in [at : BootPlaces, attempt : Nat, pid : 0..Len(worker')]
      /\ \/ boot'.at = "await" /\ boot'.pid = n + 1 /\ result' = result
         \/ boot'.at = "idle" /\ result' = "error"
  <2>1. CASE Returns("error")
    <3>1. /\ boot' \in [at : BootPlaces, attempt : Nat, pid : 0..n]
          /\ boot'.at = "idle" /\ result' = "error"
      BY <1>1, <2>1, BootMoves
    <3> QED
      BY <1>3, <3>1
  <2>2. CASE /\ boot' = [at |-> "await", attempt |-> boot.attempt + 1,
                         pid |-> Len(worker')]
             /\ UNCHANGED result
    <3>1. boot.attempt \in Nat
      BY <1>1, BootFacts
    <3> QED
      BY <1>3, <2>2, <3>1 DEF BootPlaces, Beside
  <2> QED
    BY <2>1, <2>2 DEF Launch
<1>7. BootTypes'
  <2>1. told' \subseteq 1..Len(worker')
    BY <1>1, <1>3, <1>4
  <2>2. box' \in [marker : BOOLEAN, credential : BOOLEAN, receipt : 0..Len(worker')]
    BY <1>1, <1>3 DEF BootTypes
  <2> QED
    BY <1>2, <1>3, <1>6, <2>1, <2>2 DEF BootTypes
<1>8. Alone'
  <2>1. n + 1 # 0 /\ n + 1 \notin told'
    BY <1>1, <1>3, <1>4
  <2> QED
    BY <1>5, <1>6, <2>1 DEF Alone, BeforeLaunch, Beside
<1>9. Progress'
  BY <1>1, <1>2, <1>6 DEF Progress, Beside
<1>10. ReceiptStands'
  <2>1. box.receipt # 0 => box.receipt \in 1..n
    BY <1>3, <1>4
  <2> QED
    BY <1>1, <1>2, <1>3, <1>6, <2>1 DEF ReceiptStands, Alive, Beside
<1>11. ResultStands'
  BY <1>2, <1>6 DEF ResultStands
<1> QED
  BY <1>7, <1>8, <1>9, <1>10, <1>11 DEF BootInv

\* The call is done with its worker or waits on: neither it nor the files change.
LEMMA WatchStep ==
  ASSUME BootInv, ~excused,
         \/ Registered \/ RegistrationTimesOut \/ DeleteCredential
         \/ AssertNotSandboxCapable \/ WriteReceipt
  PROVE  BootInv'
<1>1. /\ BootTypes /\ Alone /\ Progress /\ ReceiptStands /\ ResultStands
      /\ UNCHANGED <<worker, told, excused>> /\ AtWork' = AtWork
      /\ boot.at \in Beside
  BY DEF BootInv, Registered, RegistrationTimesOut, DeleteCredential,
     AssertNotSandboxCapable, WriteReceipt, AtWork, Alive, Beside
<1>2. /\ \A v, w \in AtWork : v = w
      /\ boot.pid # 0 /\ boot.pid \notin told /\ AtWork \subseteq {boot.pid}
      /\ (box.receipt # 0 => ~Alive(box.receipt))
      /\ result \in {"none", "error"} /\ box.marker
  <2>1. boot.at # "idle"
    BY <1>1 DEF Beside
  <2> QED
    BY <1>1, <2>1, ReceiptIsDead, NoResultYet DEF Alone, BootTypes, Progress
<1>3. box \in [marker : BOOLEAN, credential : BOOLEAN, receipt : 0..Len(worker)]
      /\ boot.pid \in 0..Len(worker)
  BY <1>1, BootFacts DEF BootTypes
<1>4. CASE Registered \/ AssertNotSandboxCapable \/ DeleteCredential
  <2>1. /\ boot' \in [at : BootPlaces, attempt : Nat, pid : 0..Len(worker)]
        /\ boot'.at \in Beside /\ boot'.pid = boot.pid /\ result' = result
        /\ box' \in [marker : BOOLEAN, credential : BOOLEAN, receipt : 0..Len(worker)]
        /\ box'.receipt = box.receipt /\ box'.marker
        /\ boot'.at \in {"capabilities", "write"} => ~box'.credential
    <3>1. CASE Registered
      BY <1>1, <1>2, <1>3, <3>1, BootMoves DEF Registered, BootPlaces, Beside
    <3>2. CASE AssertNotSandboxCapable
      BY <1>1, <1>2, <1>3, <3>2, BootMoves DEF AssertNotSandboxCapable, BootPlaces,
         Beside, Progress
    <3>3. CASE DeleteCredential
      BY <1>1, <1>2, <1>3, <3>3, BootMoves DEF DeleteCredential, BootPlaces, Beside
    <3> QED
      BY <1>4, <3>1, <3>2, <3>3
  <2>2. BootTypes'
    BY <1>1, <1>2, <2>1 DEF BootTypes
  <2>3. Alone'
    BY <1>1, <1>2, <2>1 DEF Alone, BeforeLaunch, Beside
  <2>4. Progress' /\ ReceiptStands' /\ ResultStands'
    BY <1>1, <1>2, <2>1 DEF Progress, ReceiptStands, ResultStands, Alive
  <2> QED
    BY <2>2, <2>3, <2>4 DEF BootInv
<1>5. CASE RegistrationTimesOut
  <2>1. /\ boot' \in [at : BootPlaces, attempt : Nat, pid : 0..Len(worker)]
        /\ boot'.at = "idle" /\ result' = "error" /\ box' = box
    BY <1>1, <1>5, BootMoves DEF RegistrationTimesOut
  <2>2. BootTypes'
    BY <1>1, <1>2, <2>1 DEF BootTypes
  <2>3. Alone'
    BY <1>1, <1>2, <2>1 DEF Alone, BeforeLaunch, Beside
  <2>4. Progress' /\ ReceiptStands' /\ ResultStands'
    BY <1>1, <1>2, <2>1 DEF Progress, ReceiptStands, ResultStands, Beside, Alive
  <2> QED
    BY <2>2, <2>3, <2>4 DEF BootInv
<1>6. CASE WriteReceipt
  <2>1. /\ boot' \in [at : BootPlaces, attempt : Nat, pid : 0..Len(worker)]
        /\ boot'.at = "idle" /\ result' = "prepared"
        /\ box' = [box EXCEPT !.receipt = boot.pid] /\ ~box.credential
    BY <1>1, <1>6, BootMoves DEF WriteReceipt, Progress
  <2>2. /\ box' \in [marker : BOOLEAN, credential : BOOLEAN, receipt : 0..Len(worker)]
        /\ box'.receipt = boot.pid /\ box'.marker /\ ~box'.credential
    BY <1>2, <1>3, <2>1
  <2>3. BootTypes'
    BY <1>1, <2>1, <2>2 DEF BootTypes
  <2>4. Alone'
    BY <1>1, <1>2, <2>1 DEF Alone, BeforeLaunch, Beside
  <2>5. Progress' /\ ReceiptStands' /\ ResultStands'
    BY <1>1, <1>2, <2>1, <2>2 DEF Progress, ReceiptStands, ResultStands, Beside, Alive
  <2> QED
    BY <2>3, <2>4, <2>5 DEF BootInv
<1> QED
  BY <1>4, <1>5, <1>6

\* A worker is told to stop, or an excuse is recorded: the rest tell nobody.
LEMMA GiveUpStep ==
  ASSUME BootInv, ~excused, Relaunch \/ BootFails
  PROVE  BootInv'
<1> SUFFICES ASSUME ~excused' PROVE BootInv'
  BY DEF BootInv
<1>1. /\ BootTypes /\ Alone /\ Progress /\ ReceiptStands /\ ResultStands
      /\ UNCHANGED <<worker, box>> /\ boot.at # "idle"
  BY DEF BootInv, Relaunch, BootFails
<1>2. /\ told' = told \/ (boot.at \in Beside /\ told' = told \cup {boot.pid})
      /\ boot.at = "await" /\ Relaunch => boot.pid \in told' \/ ~Alive(boot.pid)
  BY DEF Relaunch, BootFails, KillWorker, Beside
<1>3. /\ boot' \in [at : BootPlaces, attempt : Nat, pid : 0..Len(worker)]
      /\ \/ boot'.at = "idle" /\ result' = "error"
         \/ /\ boot'.at = "launch" /\ boot'.pid = boot.pid /\ result' = result
            /\ boot.at = "await" /\ Relaunch
  <2>1. CASE Relaunch
    BY <1>1, <2>1, BootMoves DEF Relaunch, BootPlaces, BeforeLaunch
  <2>2. CASE BootFails
    BY <1>1, <2>2, BootMoves DEF BootFails
  <2> QED
    BY <2>1, <2>2
<1>4. told' \subseteq 1..Len(worker) /\ AtWork' \subseteq AtWork
  <2>1. boot.at \in Beside => boot.pid \in 1..Len(worker)
    BY <1>1, BootFacts DEF Alone
  <2> QED
    BY <1>1, <1>2, <2>1 DEF BootTypes, AtWork, Alive
<1>5. boot'.at = "launch" => AtWork' = {}
  <2> SUFFICES ASSUME boot'.at = "launch" PROVE AtWork' = {}
    OBVIOUS
  <2>1. boot.at = "await" /\ Relaunch
    BY <1>3
  <2>2. AtWork \subseteq {boot.pid}
    BY <1>1, <2>1 DEF Alone, Beside
  <2>3. boot.pid \in told' \/ ~Alive(boot.pid)
    BY <1>2, <2>1
  <2> QED
    BY <1>1, <1>4, <2>2, <2>3 DEF AtWork, Alive
<1>6. box.receipt # 0 =>
        /\ box.receipt \notin told'
        /\ boot'.at = "launch" => ~Alive(box.receipt)
  <2> SUFFICES ASSUME box.receipt # 0
      PROVE  box.receipt \notin told' /\ (boot'.at = "launch" => ~Alive(box.receipt))
    OBVIOUS
  <2>1. CASE boot.at \in Beside
    <3>1. ~Alive(box.receipt)
      BY <1>1, <2>1, ReceiptIsDead
    <3>2. boot.pid \in 1..Len(worker)
      BY <1>1, <2>1, BootFacts DEF Alone
    <3>3. box.receipt \notin told /\ (told' = told \/ told' = told \cup {boot.pid})
      BY <1>1, <1>2 DEF ReceiptStands
    <3>4. box.receipt # boot.pid
      BY <1>1, <2>1 DEF ReceiptStands
    <3> QED
      BY <3>1, <3>3, <3>4
  <2>2. CASE boot.at \notin Beside
    BY <1>1, <1>2, <1>3, <2>2 DEF ReceiptStands, Beside
  <2> QED
    BY <2>1, <2>2
<1>7. BootTypes'
  BY <1>1, <1>3, <1>4 DEF BootTypes
<1>8. Alone'
  BY <1>1, <1>3, <1>4, <1>5 DEF Alone, BeforeLaunch, Beside
<1>9. Progress'
  BY <1>1, <1>3 DEF Progress, Beside
<1>10. ReceiptStands'
  BY <1>1, <1>3, <1>6 DEF ReceiptStands, Alive, Beside
<1>11. ResultStands'
  BY <1>1, <1>3, NoResultYet DEF ResultStands
<1> QED
  BY <1>7, <1>8, <1>9, <1>10, <1>11 DEF BootInv

\* The worker's own steps: the dead stay dead.
LEMMA WorkerStepKeeps ==
  ASSUME BootInv, ~excused, NEW v \in DOMAIN worker, WorkerStep(v)
  PROVE  BootInv'
<1>1. /\ BootTypes /\ Alone /\ Progress /\ ReceiptStands /\ ResultStands
      /\ UNCHANGED <<told, box, boot, result, excused>>
  BY DEF BootInv, WorkerStep
<1>2. /\ worker \in Seq(WorkerStates) /\ v \in 1..Len(worker) /\ worker[v] # "dead"
      /\ \E s \in WorkerStates : worker' = [worker EXCEPT ![v] = s]
  BY <1>1 DEF WorkerStep, BootTypes, WorkerStates, Alive
<1>3. /\ worker' \in Seq(WorkerStates) /\ Len(worker') = Len(worker)
      /\ \A w \in 1..Len(worker) : w # v => worker'[w] = worker[w]
  BY <1>2
<1>4. /\ DOMAIN worker' = DOMAIN worker /\ DOMAIN worker = 1..Len(worker)
      /\ \A w \in 1..Len(worker) : Alive(w)' => Alive(w)
  BY <1>2, <1>3 DEF Alive
<1>5. AtWork' \subseteq AtWork
  BY <1>1, <1>4 DEF AtWork
<1>6. BootTypes'
  BY <1>1, <1>3 DEF BootTypes
<1>7. Alone' /\ Progress' /\ ResultStands'
  BY <1>1, <1>5 DEF Alone, Progress, ResultStands
<1>8. ReceiptStands'
  <2>1. box.receipt # 0 => box.receipt \in 1..Len(worker)
    BY <1>1, BootFacts
  <2> QED
    BY <1>1, <1>4, <2>1 DEF ReceiptStands
<1> QED
  BY <1>6, <1>7, <1>8 DEF BootInv

\* In the first state the sandbox is bare.
LEMMA BootInvInit == BootInit => BootInv
<1> SUFFICES ASSUME BootInit PROVE BootInv
  OBVIOUS
<1>1. worker = <<>> /\ Len(worker) = 0 /\ DOMAIN worker = {} /\ told = {}
  BY DEF BootInit
<1>2. BootTypes
  <2>1. box \in [marker : BOOLEAN, credential : BOOLEAN, receipt : 0..0]
    BY DEF BootInit
  <2>2. boot \in [at : BootPlaces, attempt : Nat, pid : 0..0]
    BY DEF BootInit, BootIdle, BootPlaces
  <2>3. result \in {"none", "prepared", "reused", "error"}
    BY DEF BootInit
  <2> QED
    BY <1>1, <2>1, <2>2, <2>3 DEF BootTypes
<1>3. AtWork = {}
  BY <1>1 DEF AtWork
<1>4. boot.at = "idle" /\ box.receipt = 0 /\ result = "none"
  BY DEF BootInit, BootIdle
<1> QED
  BY <1>2, <1>3, <1>4 DEF BootInv, Alone, Progress, ReceiptStands, ResultStands,
     BeforeLaunch, Beside

\* Every step keeps the invariant.
LEMMA BootInvNext == BootInv /\ [BootNext]_bootVars => BootInv'
<1> SUFFICES ASSUME BootInv, [BootNext]_bootVars PROVE BootInv'
  OBVIOUS
<1>1. CASE excused
  <2>1. excused'
    BY <1>1 DEF BootNext, bootVars, BootCall, Reuse, BootstrapAgain, WriteMarker,
       WriteCredential, Launch, Registered, Relaunch, KillWorker,
       RegistrationTimesOut, DeleteCredential, AssertNotSandboxCapable, WriteReceipt,
       BootFails, WorkerStep
  <2> QED
    BY <2>1 DEF BootInv
<1>2. CASE ~excused /\ BootNext
  BY <1>2, BootCallStep, PrepareStep, LaunchStep, WatchStep, GiveUpStep, WorkerStepKeeps
     DEF BootNext
<1>3. CASE UNCHANGED bootVars
  BY <1>3 DEF bootVars, BootInv, BootTypes, Alone, Progress, ReceiptStands,
     ResultStands, AtWork, Alive
<1> QED
  BY <1>1, <1>2, <1>3

\* One worker at most is left to work, and a result names it and leaves no
\* credential on the disk (OneWorkerNoCredential), for any number of calls and of
\* launches.
THEOREM OneWorkerIsLeft == BootSpec => []OneWorkerNoCredential
<1>1. BootInv => OneWorkerNoCredential
  <2> SUFFICES ASSUME BootInv, ~excused
      PROVE  /\ Cardinality(AtWork) <= 1
             /\ result \in {"prepared", "reused"} =>
                  /\ ~box.credential /\ box.marker /\ box.receipt # 0
                  /\ \A w \in DOMAIN worker : Alive(w) => w = box.receipt \/ w \in told
    BY DEF OneWorkerNoCredential, AtWork
  <2>1. Cardinality(AtWork) <= 1
    <3>1. CASE AtWork = {}
      BY <3>1, FS_EmptySet
    <3>2. CASE AtWork # {}
      <4>1. PICK w : w \in AtWork
        BY <3>2
      <4>2. AtWork = {w}
        BY <4>1 DEF BootInv, Alone
      <4>3. Cardinality({w}) = 1
        BY FS_Singleton, Zenon
      <4> QED
        BY <4>2, <4>3
    <3> QED
      BY <3>1, <3>2
  <2> QED
    BY <2>1 DEF BootInv, ResultStands, AtWork
<1> QED
  BY <1>1, BootInvInit, BootInvNext, PTL DEF BootSpec

-----------------------------------------------------------------------------
\* A call has launches left where it is about to launch, and has made none before.
LaunchesLeft ==
  /\ boot.attempt <= LaunchAttempts
  /\ boot.at = "launch" => boot.attempt < LaunchAttempts
  /\ boot.at \in {"idle", "receipt", "marker", "credential"} => boot.attempt = 0
  /\ boot.at \in Beside => boot.pid # 0

\* What the call does to its own record keeps it in its type, wherever it goes.
LEMMA CallGoes ==
  ASSUME BootTypes, LaunchesLeft, NEW where \in BootPlaces, BootGoto(where),
         worker' = worker,
         where = "launch" => boot.attempt < LaunchAttempts,
         where \in {"idle", "receipt", "marker", "credential"} => boot.attempt = 0,
         where \in Beside => boot.pid # 0
  PROVE  /\ boot' \in [at : BootPlaces, attempt : Nat, pid : 0..Len(worker')]
         /\ LaunchesLeft'
<1>1. boot \in [at : BootPlaces, attempt : Nat, pid : 0..Len(worker)]
      BY DEF BootTypes
<1>2. boot' = [boot EXCEPT !.at = where]
      BY DEF BootGoto
<1> QED BY <1>1, <1>2 DEF LaunchesLeft

\* A call that returns starts over.
LEMMA CallEnds ==
  ASSUME BootTypes, NEW r \in {"none", "prepared", "reused", "error"}, Returns(r),
         worker' \in Seq(WorkerStates)
  PROVE  /\ boot' \in [at : BootPlaces, attempt : Nat, pid : 0..Len(worker')]
         /\ LaunchesLeft' /\ result' \in {"none", "prepared", "reused", "error"}
<1>1. Len(worker') \in Nat
      OBVIOUS
<1>2. boot' = BootIdle /\ result' = r
      BY DEF Returns
<1> QED BY <1>1, <1>2, BootAssumption DEF BootIdle, LaunchesLeft, BootPlaces, Beside

\* The types as the steps that leave the workers alone keep them.
LEMMA BootFitsStep ==
  BootTypes /\ LaunchesLeft /\ [BootNext]_bootVars => BootTypes' /\ LaunchesLeft'
<1> SUFFICES ASSUME BootTypes, LaunchesLeft, [BootNext]_bootVars
             PROVE  BootTypes' /\ LaunchesLeft'
    OBVIOUS
<1> DEFINE Results == {"none", "prepared", "reused", "error"}
           Calling == /\ boot' \in [at : BootPlaces, attempt : Nat, pid : 0..Len(worker')]
                      /\ LaunchesLeft' /\ result' \in Results
<1>1. /\ worker \in Seq(WorkerStates) /\ Len(worker) \in Nat /\ DOMAIN worker = 1..Len(worker)
      /\ told \subseteq 1..Len(worker) /\ result \in Results
      /\ box \in [marker : BOOLEAN, credential : BOOLEAN, receipt : 0..Len(worker)]
      /\ boot.at \in BootPlaces /\ boot.attempt \in Nat /\ boot.pid \in 0..Len(worker)
      BY DEF BootTypes
<1>2. {"idle", "receipt", "marker", "credential", "launch", "await", "delete", "capabilities",
       "write"} \subseteq BootPlaces
      BY DEF BootPlaces, BeforeLaunch, Beside
<1>3. ASSUME NEW where \in BootPlaces, BootGoto(where), worker' = worker, result' = result,
             where \in {"receipt", "marker", "credential", "launch"} => boot.attempt = 0,
             where \in {"receipt", "marker", "credential", "launch", "await", "delete",
                        "capabilities", "write"},
             where \in Beside => boot.pid # 0
      PROVE  Calling
      BY <1>1, <1>3, CallGoes, BootAssumption DEF LaunchesLeft
<1>4. ASSUME NEW r \in Results, Returns(r), worker' = worker
      PROVE  Calling
      BY <1>1, <1>4, CallEnds
<1>5. ASSUME worker' = worker, box' \in [marker : BOOLEAN, credential : BOOLEAN,
                                          receipt : 0..Len(worker)],
             told' \subseteq 1..Len(worker), Calling
      PROVE  BootTypes' /\ LaunchesLeft'
      BY <1>1, <1>5 DEF BootTypes
<1>18. ASSUME boot.at \in Beside, KillWorker PROVE told' \subseteq 1..Len(worker)
  <2>1. boot.pid \in 1..Len(worker)
        BY <1>1, <1>18 DEF LaunchesLeft
  <2>2. told' = told \/ told' = told \cup {boot.pid}
        BY <1>18 DEF KillWorker
  <2> QED BY <1>1, <2>1, <2>2
<1>6. CASE BootCall
  <2>1. BootGoto("receipt") /\ boot.attempt = 0 /\ result' = "none" /\ worker' = worker
        /\ told' = told /\ box' = box
        BY <1>6 DEF BootCall, LaunchesLeft
  <2>2. "receipt" \notin Beside /\ "receipt" # "launch"
        BY DEF Beside
  <2>3. Calling
        BY <1>1, <1>2, <2>1, <2>2, CallGoes
  <2> QED BY <1>1, <1>5, <2>1, <2>3
<1>7. CASE Reuse
      BY <1>1, <1>4, <1>5, <1>7 DEF Reuse
<1>8. CASE BootstrapAgain
      BY <1>1, <1>2, <1>3, <1>5, <1>8 DEF BootstrapAgain, LaunchesLeft, Beside
<1>9. CASE WriteMarker \/ WriteCredential
  <2>1. /\ boot.attempt = 0 /\ worker' = worker /\ told' = told
        /\ box' \in [marker : BOOLEAN, credential : BOOLEAN, receipt : 0..Len(worker)]
        BY <1>1, <1>9 DEF WriteMarker, WriteCredential, LaunchesLeft
  <2>2. Calling
        BY <1>2, <1>3, <1>4, <1>9, <2>1 DEF WriteMarker, WriteCredential, Beside
  <2> QED BY <1>1, <1>5, <2>1, <2>2
<1>10. CASE Launch
  <2>1. /\ worker' = Append(worker, "starting") /\ told' = told /\ box' = box
        BY <1>10 DEF Launch
  <2>2. worker' \in Seq(WorkerStates) /\ Len(worker') = Len(worker) + 1
        BY <1>1, <2>1 DEF WorkerStates
  <2>3. Calling
    <3>1. CASE /\ boot' = [at |-> "await", attempt |-> boot.attempt + 1, pid |-> Len(worker')]
               /\ UNCHANGED result
      <4>1. boot.attempt < LaunchAttempts
            BY <1>10 DEF Launch, LaunchesLeft
      <4> QED BY <1>1, <1>2, <2>2, <3>1, <4>1, BootAssumption DEF LaunchesLeft, Beside
    <3>2. CASE Returns("error")
          BY <2>2, <3>2, CallEnds
    <3> QED BY <1>10, <3>1, <3>2 DEF Launch
  <2>4. box \in [marker : BOOLEAN, credential : BOOLEAN, receipt : 0..Len(worker')]
        /\ told \subseteq 1..Len(worker')
        BY <1>1, <2>2
  <2> QED BY <2>1, <2>2, <2>3, <2>4 DEF BootTypes
<1>11. CASE Registered \/ RegistrationTimesOut
      BY <1>1, <1>2, <1>3, <1>4, <1>5, <1>11 DEF Registered, RegistrationTimesOut, LaunchesLeft, Beside
<1>12. CASE Relaunch
  <2>1. boot.at = "await" /\ worker' = worker /\ box' = box
        BY <1>12 DEF Relaunch
  <2>2. told' = told \/ KillWorker
        BY <1>12 DEF Relaunch
  <2>3. told' \subseteq 1..Len(worker)
        BY <1>1, <1>18, <2>1, <2>2 DEF Beside
  <2>4. Calling
    <3>1. CASE boot.attempt < LaunchAttempts /\ BootGoto("launch") /\ UNCHANGED result
          BY <1>1, <1>2, <2>1, <3>1, CallGoes DEF Beside
    <3>2. CASE Returns("error")
          BY <1>4, <2>1, <3>2
    <3> QED BY <1>12, <3>1, <3>2 DEF Relaunch
  <2> QED BY <1>1, <1>5, <2>1, <2>3, <2>4
<1>13. CASE DeleteCredential \/ AssertNotSandboxCapable
      BY <1>1, <1>2, <1>3, <1>5, <1>13 DEF DeleteCredential, AssertNotSandboxCapable, LaunchesLeft, Beside
<1>14. CASE WriteReceipt
      BY <1>1, <1>4, <1>5, <1>14 DEF WriteReceipt
<1>15. CASE BootFails
  <2>1. Calling /\ worker' = worker /\ box' = box
        BY <1>4, <1>15 DEF BootFails
  <2>2. told' = told \/ (boot.at \in Beside /\ KillWorker)
        BY <1>15 DEF BootFails, Beside
  <2>3. told' \subseteq 1..Len(worker)
        BY <1>1, <1>18, <2>2
  <2> QED BY <1>1, <1>5, <2>1, <2>3
<1>16. ASSUME NEW w \in DOMAIN worker, WorkerStep(w)
       PROVE  BootTypes' /\ LaunchesLeft'
  <2>1. worker' \in Seq(WorkerStates) /\ Len(worker') = Len(worker)
        BY <1>1, <1>16 DEF WorkerStep, WorkerStates
  <2> QED BY <1>16, <2>1 DEF WorkerStep, BootTypes, LaunchesLeft
<1>17. CASE UNCHANGED bootVars
      BY <1>17 DEF bootVars, BootTypes, LaunchesLeft
<1> QED BY <1>6, <1>7, <1>8, <1>9, <1>10, <1>11, <1>12, <1>13, <1>14, <1>15, <1>16, <1>17
     DEF BootNext

\* The types of a sandbox that becomes a node, and of the calls that make it one,
\* also once a call went on over a live worker.
THEOREM BootTyped == BootSpec => []BootTypeOK
<1>1. BootInit => BootTypes /\ LaunchesLeft
  <2> SUFFICES ASSUME BootInit PROVE BootTypes /\ LaunchesLeft
      OBVIOUS
  <2>1. worker = <<>> /\ Len(worker) = 0 /\ boot = BootIdle
        BY DEF BootInit
  <2> QED BY <2>1, BootAssumption DEF BootInit, BootTypes, LaunchesLeft, BootIdle, BootPlaces, Beside
<1>2. BootTypes /\ LaunchesLeft => BootTypeOK
      BY DEF BootTypes, LaunchesLeft, BootTypeOK, WorkerStates
<1> QED BY <1>1, <1>2, BootFitsStep, PTL DEF BootSpec

-----------------------------------------------------------------------------
(***************************************************************************)
(* RouterPlan for any fleets, durations and task counts: the types of what *)
(* is shown, and everything a quote says: the advice on renting, what the  *)
(* three plans cost and when they end, and which of them is recommended.   *)
(***************************************************************************)

Recommended == Range(Preference) \cup {"none"}

\* What a page shows, in the order it is asked for.
RouterFits ==
  /\ (fleet = {} \/ fleet \in Fleets) /\ samples \in [Ladder -> Seq(Nat)]
  /\ quote.at \in {"none", "shown", "stale", "costed", "curve"}
  /\ quote.at = "none" => quote = NoQuote
  /\ quote.at \in {"shown", "stale"} =>
       /\ quote = [x \in DOMAIN quote |-> quote[x]] /\ {"at", "recommended"} \subseteq DOMAIN quote
       /\ quote.recommended \in Recommended

\* A recommendation names a plan or none.
LEMMA RecommendationIs == ASSUME NEW plans PROVE Recommend(plans) \in Recommended
<1> DEFINE S == Preferred(plans, {i \in DOMAIN plans : Starred(plans, i)})
<1>1. S \subseteq 1..3 /\ DOMAIN Preference = 1..3
      BY DEF Preferred, Preference
<1>2. CASE S = {}
      BY <1>2 DEF Recommend, Choice, Recommended
<1>3. CASE S # {}
  <2>1. IsFiniteSet(1..3)
    <3>1. \A a, b \in Int : IsFiniteSet(a..b)
          BY FS_Interval
    <3>2. 1 \in Int /\ 3 \in Int
          OBVIOUS
    <3> QED BY <3>1, <3>2, Zenon
  <2>3. IsFiniteSet(S) /\ S \subseteq Int
        BY <1>1, <2>1, FS_Subset
  <2>2. Min(S) \in 1..3
        BY <1>1, <1>3, <2>3, MinIs
  <2> QED BY <1>1, <1>3, <2>2 DEF Recommend, Choice, Recommended, Range
<1> QED BY <1>2, <1>3

\* A plan that is shown says so, and what it recommends.
LEMMA PlanIsShown ==
  ASSUME NEW machines, NEW posted, NEW seen, NEW tasks, NEW deadline,
         NEW q, q = PlanJob(machines, posted, seen, tasks, deadline)
  PROVE  /\ q = [x \in DOMAIN q |-> q[x]] /\ {"at", "recommended"} \subseteq DOMAIN q /\ q.at = "shown"
         /\ q.recommended \in Recommended
<1> DEFINE survivors == Admitted(EligibleFleet(machines), Classify(posted), posted.gpus)
           members == Resolve(survivors, posted, seen)
           plans == Plans(members, tasks, deadline)
           best == Recommend(plans)
           thin == Thin(OneDuration(machines, posted, seen))
           canary == CanaryFor(plans, survivors, tasks, thin)
<1>1. best \in Recommended
      BY RecommendationIs
<1>2. q = [at |-> "shown", job |-> posted, tasks |-> tasks, deadline |-> deadline,
           members |-> members, plans |-> plans, recommended |-> best, probed |-> FALSE,
           canary |-> canary]
      BY DEF PlanJob, Shown
<1> HIDE DEF best, plans, members, survivors, canary, thin
<1> QED BY <1>1, <1>2

\* At first there is nothing on the page.
LEMMA RouterFitsInit == RouterInit => RouterFits
<1> SUFFICES ASSUME RouterInit PROVE RouterFits
    OBVIOUS
<1>1. samples \in [Ladder -> Seq(Nat)]
      BY DEF RouterInit
<1>2. NoQuote.at = "none"
      BY DEF NoQuote
<1> QED BY <1>1, <1>2 DEF RouterInit, RouterFits

\* Every page keeps what is known of it.
LEMMA RouterFitsStep == RouterFits /\ [RouterNext]_routerVars => RouterFits'
<1> SUFFICES ASSUME RouterFits, [RouterNext]_routerVars PROVE RouterFits'
    OBVIOUS
<1>1. /\ fleet = {} \/ fleet \in Fleets
      /\ samples \in [Ladder -> Seq(Nat)]
      BY DEF RouterFits
<1>2. [Ladder -> Durations] \subseteq [Ladder -> Seq(Nat)]
      BY RouterAssumption
<1>3. ASSUME NEW machines \in Fleets, NEW seen \in [Ladder -> Durations], NEW posted \in Workloads,
             NEW tasks \in TaskCounts, NEW deadline \in Deadlines,
             PreviewPlans(machines, seen, posted, tasks, deadline)
      PROVE  RouterFits'
  <2>1. /\ fleet' = machines /\ samples' = seen
        /\ quote' = PlanJob(machines, posted, seen, tasks, deadline)
        BY <1>3 DEF PreviewPlans, Read
  <2>2. /\ quote' = [x \in DOMAIN quote' |-> quote'[x]] /\ {"at", "recommended"} \subseteq DOMAIN quote'
        /\ quote'.at = "shown" /\ quote'.recommended \in Recommended
        BY <2>1, PlanIsShown
  <2> QED BY <1>2, <2>1, <2>2 DEF RouterFits
<1>4. ASSUME NEW seconds \in UNION {Range(d) : d \in Durations}, CreditPeer(seconds)
      PROVE  RouterFits'
  <2>1. seconds \in Nat
        BY RouterAssumption DEF Range
  <2>2. PICK m \in fleet : /\ m.class \in Ladder
                           /\ samples' = [samples EXCEPT ![m.class] = Append(@, seconds)]
        BY <1>4 DEF CreditPeer
  <2>3. samples' \in [Ladder -> Seq(Nat)]
    <3>1. samples[m.class] \in Seq(Nat)
          BY <1>1, <2>2
    <3>2. Append(samples[m.class], seconds) \in Seq(Nat)
          BY <2>1, <3>1
    <3> QED BY <1>1, <2>2, <3>2
  <2>4. /\ quote = [x \in DOMAIN quote |-> quote[x]] /\ {"at", "recommended"} \subseteq DOMAIN quote
        /\ quote.recommended \in Recommended
        /\ quote' = [quote EXCEPT !.at = "stale", !.probed = TRUE] /\ fleet' = fleet
        BY <1>4 DEF CreditPeer, RouterFits
  <2>5. /\ quote' = [x \in DOMAIN quote' |-> quote'[x]] /\ {"at", "recommended"} \subseteq DOMAIN quote'
        /\ quote'.at = "stale" /\ quote'.recommended = quote.recommended
        BY <2>4
  <2> QED BY <1>1, <2>3, <2>4, <2>5 DEF RouterFits
<1>5. CASE PreviewAgain
  <2> DEFINE q == PlanJob(fleet, quote.job, samples, quote.tasks, quote.deadline)
  <2>1. /\ q = [x \in DOMAIN q |-> q[x]] /\ {"at", "recommended"} \subseteq DOMAIN q /\ q.at = "shown"
        /\ q.recommended \in Recommended
        BY PlanIsShown
  <2>2. quote' = [q EXCEPT !.probed = TRUE] /\ fleet' = fleet /\ samples' = samples
        BY <1>5 DEF PreviewAgain
  <2> HIDE DEF q
  <2>3. /\ quote' = [x \in DOMAIN quote' |-> quote'[x]] /\ {"at", "recommended"} \subseteq DOMAIN quote'
        /\ quote'.at = "shown" /\ quote'.recommended = q.recommended
        BY <2>1, <2>2
  <2> QED BY <1>1, <2>1, <2>2, <2>3 DEF RouterFits
<1>6. ASSUME NEW machines \in Fleets, NEW seen \in [Ladder -> Durations], NEW posted \in Workloads,
             NEW tasks \in TaskCounts, NEW given \in Deadlines,
             CostQuote(machines, seen, posted, tasks, given)
      PROVE  RouterFits'
  <2>1. fleet' = machines /\ samples' = seen /\ quote'.at = "costed"
        BY <1>6 DEF CostQuote, Read
  <2> QED BY <1>2, <2>1 DEF RouterFits
<1>7. ASSUME NEW machines \in Fleets, NEW posted \in Workloads, NEW tasks \in TaskCounts,
             NEW affordable \in 0..MaxRented, JobTradeoff(machines, posted, tasks, affordable)
      PROVE  RouterFits'
  <2>1. fleet' = machines /\ samples' = samples /\ quote'.at = "curve"
        BY <1>7 DEF JobTradeoff, Read
  <2> QED BY <1>1, <2>1 DEF RouterFits
<1>8. CASE UNCHANGED routerVars
      BY <1>8 DEF routerVars, RouterFits
<1> QED BY <1>3, <1>4, <1>5, <1>6, <1>7, <1>8 DEF RouterNext

\* The types of the fleet, the durations and what a page shows.
THEOREM RouterTyped == RouterSpec => []RouterTypeOK
<1>1. RouterFits => RouterTypeOK
      BY DEF RouterFits, RouterTypeOK, Recommended
<1> QED BY <1>1, RouterFitsInit, RouterFitsStep, PTL DEF RouterSpec
\* A wave is as many tasks as there are slots, the last one what is left.
LEMMA WavesAre ==
  ASSUME NEW n \in Nat \ {0}, NEW s \in Nat \ {0}
  PROVE  /\ Waves(n, s) \in Nat \ {0} /\ n <= Waves(n, s) * s
         /\ Waves(n, s) * s <= n + s - 1
<1> DEFINE a == n + s - 1
           w == a \div s
<1>1. a \in Nat /\ Waves(n, s) = w
      BY DEF Waves
<1> HIDE DEF a
<1>2. w \in Nat /\ w * s <= a /\ a < w * s + s
      BY <1>1, DivBounds
<1> HIDE DEF w
<1>3. w # 0
  <2> SUFFICES ASSUME w = 0 PROVE FALSE
      OBVIOUS
  <2>1. w * s = 0
        OBVIOUS
  <2> QED BY <1>2, <2>1 DEF a
<1>4. w * s \in Nat
      BY <1>2
<1> QED BY <1>1, <1>2, <1>3, <1>4 DEF a

\* More slots take no more waves.
LEMMA WavesFall ==
  ASSUME NEW n \in Nat \ {0}, NEW s \in Nat \ {0}, NEW t \in Nat \ {0}, s <= t
  PROVE  Waves(n, t) <= Waves(n, s)
<1> DEFINE w == Waves(n, s)
           v == Waves(n, t)
<1>1. w \in Nat /\ n <= w * s /\ w * s \in Nat
      BY WavesAre
<1>2. v \in Nat /\ v * t <= n + t - 1
      BY WavesAre
<1> HIDE DEF w, v
<1> SUFFICES ASSUME ~(v <= w) PROVE FALSE
    BY DEF w, v
<1>3. PICK d \in Nat : v = w + 1 + d
  <2>1. v - w - 1 \in Nat /\ v = w + 1 + (v - w - 1)
        BY <1>1, <1>2
  <2> QED BY <2>1
<1>4. v * t = w * t + t + d * t /\ w * t \in Nat /\ d * t \in Nat
      BY <1>1, <1>3
<1>5. PICK e \in Nat : t = s + e
  <2>1. t - s \in Nat /\ t = s + (t - s)
        OBVIOUS
  <2> QED BY <2>1
<1>6. w * t = w * s + w * e /\ w * e \in Nat
      BY <1>1, <1>5
<1> QED BY <1>1, <1>2, <1>4, <1>6

\* Where there is a slot for every task one wave is all.
LEMMA OneWave ==
  ASSUME NEW n \in Nat \ {0}, NEW s \in Nat \ {0}, n <= s
  PROVE  Waves(n, s) = 1
<1> DEFINE w == Waves(n, s)
<1>1. w \in Nat \ {0} /\ w * s <= n + s - 1 /\ w * s \in Nat
      BY WavesAre
<1> HIDE DEF w
<1> SUFFICES ASSUME w # 1 PROVE FALSE
    BY DEF w
<1>2. PICK d \in Nat : w = 2 + d
  <2>1. w - 2 \in Nat /\ w = 2 + (w - 2)
        BY <1>1
  <2> QED BY <2>1
<1>3. w * s = 2 * s + d * s /\ d * s \in Nat
      BY <1>2
<1> QED BY <1>1, <1>3

\* What is said of one fleet size is true of it.
LEMMA AdviceIs ==
  ASSUME NEW tasks \in Nat \ {0}, tasks > 1, NEW owned \in Nat, NEW r \in Nat \ {0}
  PROVE  (Advice(tasks, owned, r) = "helps") <=>
           \A s \in 0..(r - 1) :
             owned + s > 0 => Waves(tasks, owned + r) < Waves(tasks, owned + s)
<1> DEFINE Ends(s) == Waves(tasks, owned + s)
           Sooner == \A s \in 0..(r - 1) : owned + s > 0 => Ends(r) < Ends(s)
<1>1. \A s \in Nat : owned + s > 0 => Ends(s) \in Nat \ {0}
      BY WavesAre
<1>2. owned + r \in Nat \ {0} /\ r - 1 \in 0..(r - 1) /\ r - 1 \in Nat
      OBVIOUS
<1>3. CASE owned + r > tasks
  <2>1. Advice(tasks, owned, r) = "beyond_task_count"
        BY <1>3 DEF Advice
  <2>2. owned + (r - 1) \in Nat \ {0} /\ tasks <= owned + (r - 1) /\ tasks <= owned + r
        BY <1>3
  <2>3. Ends(r) = 1 /\ Ends(r - 1) = 1
        BY <1>2, <2>2, OneWave
  <2>4. ~Sooner
        BY <1>2, <2>2, <2>3
  <2> QED BY <2>1, <2>4
<1>4. CASE ~(owned + r > tasks) /\ owned + r = 1
  <2>1. Advice(tasks, owned, r) = "helps"
        BY <1>4 DEF Advice
  <2>2. \A s \in 0..(r - 1) : ~(owned + s > 0)
        BY <1>4
  <2> QED BY <2>1, <2>2
<1>5. CASE ~(owned + r > tasks) /\ owned + r > 1
  <2>1. owned + (r - 1) \in Nat \ {0} /\ owned + (r - 1) = owned + r - 1
        BY <1>5
  <2>2. Advice(tasks, owned, r) =
          IF Ends(r) >= Ends(r - 1) THEN "no_marginal_gain" ELSE "helps"
        BY <1>5, <2>1 DEF Advice
  <2>3. Ends(r) \in Nat /\ Ends(r - 1) \in Nat
        BY <1>1, <1>2, <2>1
  <2>4. Sooner <=> Ends(r) < Ends(r - 1)
    <3>1. ASSUME Ends(r) < Ends(r - 1), NEW s \in 0..(r - 1), owned + s > 0
          PROVE  Ends(r) < Ends(s)
      <4>1. owned + s \in Nat \ {0} /\ owned + s <= owned + (r - 1) /\ s \in Nat
            BY <3>1
      <4>2. Ends(r - 1) <= Ends(s)
            BY <2>1, <4>1, WavesFall
      <4>3. Ends(s) \in Nat
            BY <1>1, <3>1, <4>1
      <4> HIDE DEF Ends
      <4> QED BY <2>3, <3>1, <4>2, <4>3
    <3>2. ASSUME Sooner PROVE Ends(r) < Ends(r - 1)
          BY <1>2, <2>1, <3>2
    <3> QED BY <3>1, <3>2
  <2> HIDE DEF Ends
  <2>5. (Ends(r) >= Ends(r - 1)) <=> ~(Ends(r) < Ends(r - 1))
        BY <2>3
  <2>6. (Advice(tasks, owned, r) = "helps") <=> Sooner
        BY <2>2, <2>4, <2>5
  <2> QED BY <2>6 DEF Ends
<1> QED BY <1>2, <1>3, <1>4, <1>5

\* How many rented machines a curve shows is the least of three numbers.
LEMMA RentedSlotsAre ==
  ASSUME NEW tasks \in Nat \ {0}, NEW owned \in Nat, NEW affordable \in Nat
  PROVE  LET n == RentedSlots(tasks, owned, affordable)
             most == UsefulSlots(tasks, owned)
         IN /\ n \in Nat /\ most \in Nat /\ MaxRentedSteps \in Nat
            /\ n = affordable \/ n = most \/ n = MaxRentedSteps
            /\ n <= affordable /\ n <= most /\ n <= MaxRentedSteps
<1> DEFINE most == UsefulSlots(tasks, owned)
           S == {affordable, MaxRentedSteps, most}
<1>1. most \in Nat /\ MaxRentedSteps \in Nat
      BY RouterAssumption DEF UsefulSlots
<1> HIDE DEF most
<1>2. IsFiniteSet(S)
  <2>1. IsFiniteSet({affordable})
        BY FS_Singleton
  <2>2. IsFiniteSet({affordable} \cup {MaxRentedSteps})
        BY <2>1, FS_AddElement
  <2>3. IsFiniteSet(({affordable} \cup {MaxRentedSteps}) \cup {most})
        BY <2>2, FS_AddElement
  <2>4. S = ({affordable} \cup {MaxRentedSteps}) \cup {most}
        OBVIOUS
  <2> QED BY <2>3, <2>4
<1>3. S \subseteq Int /\ S # {}
      BY <1>1
<1>4. RentedSlots(tasks, owned, affordable) = Min(S)
      BY DEF RentedSlots, most
<1>5. affordable \in S /\ MaxRentedSteps \in S /\ most \in S
      OBVIOUS
<1>7. \A x \in S : x = affordable \/ x = MaxRentedSteps \/ x = most
      OBVIOUS
<1> HIDE DEF S
<1>6. Min(S) \in S /\ \A x \in S : Min(S) <= x
      BY <1>2, <1>3, MinIs
<1> QED BY <1>1, <1>4, <1>5, <1>6, <1>7 DEF most

\* And a fleet the curve leaves out, which could be paid for, ends no sooner, unless it
\* is the answer that was cut.
LEMMA LeftOutHelpsNot ==
  ASSUME NEW tasks \in Nat \ {0}, NEW owned \in Nat, NEW affordable \in Nat,
         NEW r \in 1..affordable, r > RentedSlots(tasks, owned, affordable),
         \A s \in 0..(r - 1) :
           owned + s > 0 => Waves(tasks, owned + r) < Waves(tasks, owned + s)
  PROVE  CutShort(tasks, owned, affordable) /\ r > MaxRentedSteps
<1> DEFINE most == UsefulSlots(tasks, owned)
           n == RentedSlots(tasks, owned, affordable)
<1>1. /\ n \in Nat /\ most \in Nat /\ MaxRentedSteps \in Nat
      /\ n = affordable \/ n = most \/ n = MaxRentedSteps
      /\ n <= affordable /\ n <= most /\ n <= MaxRentedSteps
      BY RentedSlotsAre
<1>2. r \in Nat /\ r <= affordable /\ r > n
      OBVIOUS
<1> HIDE DEF n
<1>3. CASE r > most
  <2>0. most = IF owned >= tasks THEN 1 ELSE tasks + 1 - owned
        BY DEF UsefulSlots
  <2>1. /\ owned + (r - 1) \in Nat \ {0} /\ tasks <= owned + (r - 1) /\ owned + r \in Nat \ {0}
        /\ tasks <= owned + r /\ r - 1 \in 0..(r - 1) /\ owned + (r - 1) > 0
        BY <1>3, <2>0
  <2>2. Waves(tasks, owned + r) = 1 /\ Waves(tasks, owned + (r - 1)) = 1
        BY <2>1, OneWave
  <2> QED BY <2>1, <2>2
<1>4. CASE ~(r > most)
  <2>1. n = MaxRentedSteps /\ most > MaxRentedSteps /\ affordable > MaxRentedSteps
        BY <1>1, <1>2, <1>4
  <2> QED BY <1>2, <2>1 DEF CutShort, most
<1> QED BY <1>3, <1>4

\* The slots of a fleet are a number.
LEMMA SlotsOfFleet ==
  ASSUME NEW machines \in Fleets
  PROVE  OwnedSlots(EligibleFleet(machines)) \in Nat
<1> DEFINE E == EligibleFleet(machines)
           f == [m \in E |-> m.slots]
<1>1. E \subseteq machines
      BY DEF EligibleFleet
<1>2. IsFiniteSet(E) /\ \A m \in E : m.slots \in Nat
      BY <1>1, RouterAssumption, FS_Subset
<1> HIDE DEF E
<1>3. \A m \in E : f[m] \in Nat
      BY <1>2
<1>4. DOMAIN f = E
      OBVIOUS
<1> HIDE DEF f
<1>5. SumOver(f, E) \in Nat
      BY <1>2, <1>3, TotalBounds
<1>6. OwnedSlots(E) = SumOver(f, E)
      BY <1>4, SumFunctionIsTotal DEF OwnedSlots, SumFunction, f
<1> QED BY <1>5, <1>6 DEF E

\* The advice on renting (AdviceIsSound), for any fleet, any number of tasks and
\* anything the account can pay for: a fleet is said to help exactly where it ends
\* before every smaller one, and one left out that would is larger than the largest
\* shown, where the answer says it was cut.
THEOREM AdviceHolds == RouterSpec => []AdviceIsSound
<1>1. RouterInit => AdviceIsSound
      BY DEF RouterInit, NoQuote, AdviceIsSound
<1>2. RouterFits /\ AdviceIsSound /\ [RouterNext]_routerVars => AdviceIsSound'
  <2> SUFFICES ASSUME RouterFits, AdviceIsSound, [RouterNext]_routerVars
               PROVE  AdviceIsSound'
      OBVIOUS
  <2>1. ASSUME NEW machines \in Fleets, NEW posted \in Workloads, NEW tasks \in TaskCounts,
               NEW affordable \in 0..MaxRented, JobTradeoff(machines, posted, tasks, affordable)
        PROVE  AdviceIsSound'
    <3> DEFINE owned == OwnedSlots(EligibleFleet(machines))
               rents == CanRent(posted)
               rentable == IF rents THEN RentedSlots(tasks, owned, affordable) ELSE 0
               curve == Curve(tasks, owned, rentable)
               Ends(r) == Waves(tasks, owned + r)
               shown == {r \in 0..rentable : owned + r > 0}
               Sooner(r) == \A s \in 0..(r - 1) : owned + s > 0 => Ends(r) < Ends(s)
               cut == rents /\ CutShort(tasks, owned, affordable)
    <3>1. owned \in Nat /\ tasks \in Nat \ {0} /\ affordable \in Nat
          BY <2>1, SlotsOfFleet, RouterAssumption
    <3>2. quote' = [at |-> "curve", tasks |-> tasks, owned |-> owned, affordable |-> affordable,
                    rents |-> rents, curve |-> curve, cut |-> cut]
          BY <2>1 DEF JobTradeoff
    <3>3. curve = [r \in shown |-> Advice(tasks, owned, r)]
          BY DEF Curve
    <3>7. rents => (cut <=> CutShort(tasks, owned, affordable))
          OBVIOUS
    <3> HIDE DEF owned, rents, curve, rentable, cut
    <3>4. /\ quote'.at = "curve" /\ quote'.tasks = tasks /\ quote'.owned = owned
          /\ quote'.affordable = affordable /\ quote'.rents = rents /\ quote'.curve = curve
          /\ quote'.cut = cut /\ DOMAIN curve = shown
          BY <3>2, <3>3
    <3>5. ASSUME NEW r \in shown \ {0}, tasks > 1 PROVE curve[r] = "helps" <=> Sooner(r)
      <4>1. r \in Nat \ {0}
            BY <3>5
      <4>2. (Advice(tasks, owned, r) = "helps") <=> Sooner(r)
            BY <3>1, <3>5, <4>1, AdviceIs
      <4> QED BY <3>3, <3>5, <4>2
    <3>6. ASSUME rents, NEW r \in 1..affordable \ shown, Sooner(r)
          PROVE  cut /\ r > MaxRentedSteps
      <4>1. RentedSlots(tasks, owned, affordable) \in Nat
            BY <3>1, RentedSlotsAre
      <4>2. rentable = RentedSlots(tasks, owned, affordable)
            BY <3>6 DEF rentable
      <4>3. r > RentedSlots(tasks, owned, affordable)
            BY <3>1, <3>6, <4>1, <4>2
      <4>4. CutShort(tasks, owned, affordable) /\ r > MaxRentedSteps
            BY <3>1, <3>6, <4>3, LeftOutHelpsNot
      <4> QED BY <3>6, <3>7, <4>4
    <3> QED BY <3>4, <3>5, <3>6 DEF AdviceIsSound
  <2>2. CASE UNCHANGED routerVars
        BY <2>2 DEF routerVars, AdviceIsSound
  <2>3. CASE quote'.at # "curve"
        BY <2>3 DEF AdviceIsSound
  <2>4. ASSUME NEW seconds, CreditPeer(seconds) PROVE quote'.at # "curve"
    <3>1. quote' = [quote EXCEPT !.at = "stale", !.probed = TRUE] /\ "at" \in DOMAIN quote
          BY <2>4 DEF CreditPeer, RouterFits
    <3> QED BY <3>1
  <2>5. CASE PreviewAgain
    <3> DEFINE q == PlanJob(fleet, quote.job, samples, quote.tasks, quote.deadline)
    <3>1. q.at = "shown" /\ q = [x \in DOMAIN q |-> q[x]] /\ {"at", "recommended"} \subseteq DOMAIN q
          BY PlanIsShown
    <3>2. quote' = [q EXCEPT !.probed = TRUE]
          BY <2>5 DEF PreviewAgain
    <3> HIDE DEF q
    <3> QED BY <2>3, <3>1, <3>2
  <2>6. ASSUME NEW machines \in Fleets, NEW seen \in [Ladder -> Durations], NEW posted \in Workloads,
               NEW tasks \in TaskCounts, NEW deadline \in Deadlines,
               PreviewPlans(machines, seen, posted, tasks, deadline)
        PROVE  AdviceIsSound'
    <3>1. quote' = PlanJob(machines, posted, seen, tasks, deadline)
          BY <2>6 DEF PreviewPlans
    <3> QED BY <2>3, <3>1, PlanIsShown
  <2>7. ASSUME NEW machines, NEW seen, NEW posted, NEW tasks, NEW given,
               CostQuote(machines, seen, posted, tasks, given)
        PROVE  quote'.at # "curve"
        BY <2>7 DEF CostQuote
  <2> QED BY <2>1, <2>2, <2>3, <2>4, <2>5, <2>6, <2>7 DEF RouterNext
<1> QED BY <1>1, <1>2, RouterFitsInit, RouterFitsStep, PTL DEF RouterSpec

\* As many waves as are needed, and no more.
LEMMA WavesCover ==
  ASSUME NEW a \in Nat, NEW s \in Nat \ {0}
  PROVE  /\ Waves(a, s) \in Nat /\ a <= Waves(a, s) * s
         /\ \A q \in Nat : a <= q * s => Waves(a, s) <= q
<1> DEFINE b == a + s - 1
           w == b \div s
<1>1. b \in Nat /\ Waves(a, s) = w
      BY DEF Waves
<1> HIDE DEF b
<1>2. w \in Nat /\ w * s <= b /\ b < w * s + s
      BY <1>1, DivBounds
<1> HIDE DEF w
<1>3. w * s \in Nat
      BY <1>2
<1>4. a <= w * s
      BY <1>2, <1>3 DEF b
<1>5. ASSUME NEW q \in Nat, a <= q * s, w > q PROVE FALSE
  <2>1. PICK d \in Nat : w = q + 1 + d
    <3>1. w - q - 1 \in Nat /\ w = q + 1 + (w - q - 1)
          BY <1>2, <1>5
    <3> QED BY <3>1
  <2>2. w * s = q * s + s + d * s /\ q * s \in Nat /\ d * s \in Nat
        BY <2>1
  <2> QED BY <1>2, <1>5, <2>2 DEF b
<1> QED BY <1>1, <1>2, <1>4, <1>5

\* What is known of the members of a plan.
Team(M) ==
  /\ IsFiniteSet(M)
  /\ \A m \in M : /\ m.id \in Nat /\ m.seconds \in Nat /\ m.unit \in Nat /\ m.tier \in Nat
                  /\ m.slots \in Nat \ {0} /\ m.rank \in {0, 1}
                  /\ m.rank = 0 => m.unit = 0
Lanes(m, n) == {m} \X (1..Min({m.slots, n}))

\* How many slots a machine offers.
LEMMA LanesAre ==
  ASSUME NEW m, m.slots \in Nat \ {0}, NEW n \in Nat
  PROVE  /\ IsFiniteSet(Lanes(m, n))
         /\ Cardinality(Lanes(m, n)) = IF m.slots <= n THEN m.slots ELSE n
         /\ Lanes(m, n) = {m} \X (1..(IF m.slots <= n THEN m.slots ELSE n))
<1> DEFINE K == IF m.slots <= n THEN m.slots ELSE n
<1>1. Min({m.slots, n}) = K /\ K \in Nat
      BY MinOfTwo
<1> HIDE DEF K
<1>2. IsFiniteSet({m}) /\ Cardinality({m}) = 1
      BY FS_Singleton
<1>3. IsFiniteSet(1..K) /\ Cardinality(1..K) = K
      BY <1>1, FS_Interval
<1>4. IsFiniteSet({m} \X (1..K)) /\ Cardinality({m} \X (1..K)) = K
  <2> DEFINE A == {m}
             B == 1..K
  <2>1. IsFiniteSet(A) /\ IsFiniteSet(B) /\ Cardinality(A) = 1 /\ Cardinality(B) = K
        BY <1>2, <1>3
  <2> HIDE DEF A, B
  <2>2. IsFiniteSet(A \X B) /\ Cardinality(A \X B) = Cardinality(A) * Cardinality(B)
        BY <2>1, FS_Product
  <2>3. 1 * K = K
        BY <1>1
  <2> QED BY <2>1, <2>2, <2>3 DEF A, B
<1>5. Lanes(m, n) = {m} \X (1..K)
      BY <1>1 DEF Lanes
<1>6. IsFiniteSet(Lanes(m, n)) /\ Cardinality(Lanes(m, n)) = K
      BY <1>4, <1>5
<1> QED BY <1>5, <1>6 DEF K

\* A machine whose slots all have at least q tasks has what takes q waves, and more
\* where one of them has more.
LEMMA LevelOfLanes ==
  ASSUME NEW m, m.slots \in Nat \ {0}, NEW n \in Nat, NEW load,
         \A t \in Lanes(m, n) : load[t] \in Nat, NEW a \in Nat,
         \A t \in Lanes(m, n) : Waves(a, m.slots) <= load[t],
         NEW c, c = SumOver(load, Lanes(m, n)), n > 0
  PROVE  /\ c < n => a <= c
         /\ a <= n => a <= c
         /\ (a <= n /\ \E t \in Lanes(m, n) : Waves(a, m.slots) < load[t]) => a < c
<1> DEFINE S == Lanes(m, n)
           q == Waves(a, m.slots)
           K == IF m.slots <= n THEN m.slots ELSE n
<1>1. q \in Nat /\ a <= q * m.slots
      BY WavesCover
<1>2. IsFiniteSet(S) /\ Cardinality(S) = K
      BY LanesAre
<1>3. \A t \in S : load[t] \in Nat /\ q <= load[t]
      OBVIOUS
<1> HIDE DEF q, S
<1>4. q * Cardinality(S) <= SumOver(load, S) /\ SumOver(load, S) \in Nat
      BY <1>1, <1>2, <1>3, TotalAtLeast, TotalBounds
<1>5. c \in Nat /\ q * K <= c
      BY <1>2, <1>4 DEF S
<1>6. ASSUME NEW t \in S, q < load[t] PROVE q * K < c
  <2> DEFINE even == [x \in S |-> q]
  <2>1. \A x \in S : even[x] = q /\ even[x] \in Nat /\ even[x] <= load[x]
        BY <1>1, <1>3
  <2> HIDE DEF even
  <2>2. SumOver(even, S) < SumOver(load, S)
        BY <1>2, <1>3, <1>6, <2>1, TotalStrict
  <2>3. q * Cardinality(S) <= SumOver(even, S) /\ SumOver(even, S) \in Nat
        BY <1>1, <1>2, <2>1, TotalAtLeast, TotalBounds
  <2> HIDE DEF K
  <2>4. K \in Nat /\ q * K \in Nat
        BY <1>1 DEF K
  <2> QED BY <1>2, <1>5, <2>2, <2>3, <2>4 DEF S
<1>7. CASE m.slots <= n
  <2>1. q * K = q * m.slots /\ q * m.slots \in Nat
        BY <1>1, <1>7
  <2> HIDE DEF K
  <2>2. a <= c
        BY <1>1, <1>5, <2>1
  <2>3. (\E t \in S : q < load[t]) => a < c
    <3>1. SUFFICES ASSUME NEW t \in S, q < load[t] PROVE a < c
          OBVIOUS
    <3>2. q * K < c
          BY <1>6, <3>1
    <3> QED BY <1>1, <1>5, <2>1, <3>2
  <2> QED BY <2>2, <2>3 DEF S, q
<1>8. CASE m.slots > n /\ q = 0
  <2>1. q * m.slots = 0 /\ q * K = 0
        BY <1>8
  <2>2. a = 0
        BY <1>1, <2>1
  <2> HIDE DEF K
  <2>3. (\E t \in S : q < load[t]) => a < c
    <3>1. SUFFICES ASSUME NEW t \in S, q < load[t] PROVE a < c
          OBVIOUS
    <3>2. q * K < c
          BY <1>6, <3>1
    <3> QED BY <2>1, <2>2, <3>2
  <2> QED BY <1>5, <2>2, <2>3 DEF S, q
<1>9. CASE m.slots > n /\ q # 0
  <2>1. K = n
        BY <1>9
  <2>2. PICK d \in Nat : q = 1 + d
    <3>1. q - 1 \in Nat /\ q = 1 + (q - 1)
          BY <1>1, <1>9
    <3> QED BY <3>1
  <2>3. q * n = n + d * n /\ d * n \in Nat
        BY <2>2
  <2>4. n <= c
        BY <1>5, <2>1, <2>3
  <2> HIDE DEF K
  <2>5. (\E t \in S : q < load[t]) => n < c
    <3>1. SUFFICES ASSUME NEW t \in S, q < load[t] PROVE n < c
          OBVIOUS
    <3>2. q * K < c
          BY <1>6, <3>1
    <3> QED BY <1>5, <2>1, <2>3, <3>2
  <2> QED BY <1>5, <2>4, <2>5 DEF S, q
<1> QED BY <1>1, <1>7, <1>8, <1>9

\* A machine whose slots all have at most q tasks has no more than q waves of them.
LEMMA WavesOfLanes ==
  ASSUME NEW m, m.slots \in Nat \ {0}, NEW n \in Nat, NEW load, NEW q \in Nat,
         \A t \in Lanes(m, n) : load[t] \in Nat /\ load[t] <= q
  PROVE  Waves(SumOver(load, Lanes(m, n)), m.slots) <= q
<1> DEFINE S == Lanes(m, n)
           K == IF m.slots <= n THEN m.slots ELSE n
<1>1. IsFiniteSet(S) /\ Cardinality(S) = K
      BY LanesAre
<1> HIDE DEF S
<1>2. SumOver(load, S) <= q * Cardinality(S) /\ SumOver(load, S) \in Nat
      BY <1>1, TotalAtMost, TotalBounds DEF S
<1>3. PICK d \in Nat : m.slots = K + d
  <2>1. m.slots - K \in Nat /\ m.slots = K + (m.slots - K)
        OBVIOUS
  <2> QED BY <2>1
<1>4. K \in Nat
      OBVIOUS
<1> HIDE DEF K
<1>5. q * m.slots = q * K + q * d /\ q * d \in Nat /\ q * K \in Nat
      BY <1>3, <1>4
<1>6. SumOver(load, S) <= q * m.slots
      BY <1>1, <1>2, <1>5
<1> QED BY <1>2, <1>6, WavesCover DEF S

\* The slots a fleet offers: each machine's, and no other.
LEMMA OfferedIs ==
  ASSUME NEW M, Team(M), NEW n \in Nat
  PROVE  /\ IsFiniteSet(Offered(M, n))
         /\ \A m \in M : {s \in Offered(M, n) : s[1] = m} = Lanes(m, n)
         /\ \A s \in Offered(M, n) : /\ s[1] \in M /\ s \in Lanes(s[1], n)
                                     /\ s[1].seconds \in Nat /\ s[1].tier \in Nat
                                     /\ s[1].id \in Nat /\ s[2] \in Nat
         /\ M # {} /\ n > 0 => Offered(M, n) # {}
<1> DEFINE all == UNION {Lanes(m, n) : m \in M}
           f == [m \in M |-> Lanes(m, n)]
<1>1. Offered(M, n) = all
      BY DEF Offered, Lanes
<1>2. \A m \in M : m.slots \in Nat \ {0} /\ Min({m.slots, n}) \in Nat
      BY MinOfTwo DEF Team
<1>3. IsFiniteSet(all)
  <2>1. IsFiniteSet({f[m] : m \in M})
        BY ImageFinite DEF Team
  <2>2. {f[m] : m \in M} = {Lanes(m, n) : m \in M}
        OBVIOUS
  <2>3. \A T \in {Lanes(m, n) : m \in M} : IsFiniteSet(T)
        BY <1>2, LanesAre
  <2> HIDE DEF f
  <2> QED BY <2>1, <2>2, <2>3, FS_UNION
<1>4. ASSUME NEW s \in all
      PROVE  s[1] \in M /\ s \in Lanes(s[1], n) /\ s[2] \in Nat
  <2>1. PICK m \in M : s \in Lanes(m, n)
        OBVIOUS
  <2>2. s[1] = m /\ s[2] \in 1..Min({m.slots, n})
        BY <2>1 DEF Lanes
  <2> QED BY <1>2, <2>1, <2>2
<1>5. ASSUME NEW m \in M PROVE {s \in all : s[1] = m} = Lanes(m, n)
  <2>1. \A s \in Lanes(m, n) : s[1] = m /\ s \in all
        BY DEF Lanes
  <2>2. \A s \in all : s[1] = m => s \in Lanes(m, n)
        BY <1>4
  <2> HIDE DEF all
  <2> QED BY <2>1, <2>2
<1>6. ASSUME NEW m \in M, n > 0 PROVE all # {}
  <2>1. 1 \in 1..Min({m.slots, n})
        BY <1>2, <1>6, MinOfTwo
  <2>2. <<m, 1>> \in Lanes(m, n)
        BY <2>1 DEF Lanes
  <2> QED BY <2>2
<1> HIDE DEF all
<1> QED BY <1>1, <1>3, <1>4, <1>5, <1>6 DEF Team

\* The order of slots.
LEMMA SlotsInOrder ==
  ASSUME NEW M, Team(M), NEW n \in Nat
  PROVE  LET all == Offered(M, n)
         IN /\ \A x \in all : ~SlotOrder(x, x)
            /\ \A x, y \in all : SlotOrder(x, y) => x[1].seconds <= y[1].seconds
            /\ \A x, y, z \in all : SlotOrder(x, y) /\ SlotOrder(y, z) => SlotOrder(x, z)
<1> DEFINE all == Offered(M, n)
<1>1. \A s \in all : s[1].seconds \in Nat /\ s[1].tier \in Nat /\ s[1].id \in Nat /\ s[2] \in Nat
      BY OfferedIs
<1> HIDE DEF all
<1>2. \A x \in all : ~SlotOrder(x, x)
      BY <1>1 DEF SlotOrder
<1>3. \A x, y \in all : SlotOrder(x, y) => x[1].seconds <= y[1].seconds
      BY <1>1 DEF SlotOrder
<1>4. \A x, y, z \in all : SlotOrder(x, y) /\ SlotOrder(y, z) => SlotOrder(x, z)
      BY <1>1 DEF SlotOrder
<1> QED BY <1>2, <1>3, <1>4 DEF all

\* A slot that is left out follows a slot for every task, none of them slower.
LEMMA LeftOutFollows ==
  ASSUME NEW M, Team(M), NEW n \in Nat, NEW t \in Offered(M, n) \ Slots(M, n)
  PROVE  \E P \in SUBSET Slots(M, n) :
           /\ IsFiniteSet(P) /\ Cardinality(P) >= n
           /\ \A x \in P : x[1].seconds <= t[1].seconds
<1> DEFINE all == Offered(M, n)
           S == Slots(M, n)
           Ahead(x) == {y \in all : SlotOrder(y, x)}
           out == {x \in all \ S : x = t \/ SlotOrder(x, t)}
           B == {Ahead(x) : x \in out}
<1>1. /\ S = {x \in all : Cardinality(Ahead(x)) < n} /\ IsFiniteSet(all)
      /\ \A x \in all : ~SlotOrder(x, x)
      /\ \A x, y \in all : SlotOrder(x, y) => x[1].seconds <= y[1].seconds
      /\ \A x, y, z \in all : SlotOrder(x, y) /\ SlotOrder(y, z) => SlotOrder(x, z)
      /\ \A x \in all : x[1].seconds \in Nat
      BY OfferedIs, SlotsInOrder DEF Slots
<1> HIDE DEF all, S
<1>2. t \in out /\ B # {} /\ B \in SUBSET (SUBSET all)
      BY DEF all, S
<1>3. PICK T \in B : \A U \in SUBSET T : U # T => U \notin B
  <2> HIDE DEF B
  <2> QED BY <1>1, <1>2, SmallestSet
<1>4. PICK x \in out : T = Ahead(x)
      OBVIOUS
<1>5. ASSUME NEW y \in Ahead(x) PROVE y \in S
  <2> SUFFICES ASSUME y \notin S PROVE FALSE
      OBVIOUS
  <2>1. y \in all /\ SlotOrder(y, x) /\ x \in all
        OBVIOUS
  <2>2. y \in out
        BY <1>1, <1>2, <2>1
  <2>3. Ahead(y) \in SUBSET Ahead(x)
        BY <1>1, <2>1
  <2>4. y \in Ahead(x) /\ y \notin Ahead(y)
        BY <1>1, <2>1
  <2>5. Ahead(y) \in B
        BY <2>2
  <2> HIDE DEF Ahead, B
  <2> QED BY <1>3, <1>4, <2>3, <2>4, <2>5
<1>6. IsFiniteSet(Ahead(x)) /\ Cardinality(Ahead(x)) \in Nat
      BY <1>1, FS_Subset, FS_CardinalityType
<1>7. Cardinality(Ahead(x)) >= n
  <2>1. x \in all /\ x \notin S
        OBVIOUS
  <2>2. ~(Cardinality(Ahead(x)) < n)
        BY <1>1, <2>1
  <2> HIDE DEF Ahead
  <2> QED BY <1>6, <2>2
<1>8. \A y \in Ahead(x) : y[1].seconds <= t[1].seconds
  <2>1. x[1].seconds <= t[1].seconds /\ x \in all /\ t \in all
        BY <1>1, <1>2
  <2>2. \A y \in Ahead(x) : y \in all /\ y[1].seconds <= x[1].seconds
        BY <1>1, <2>1
  <2> HIDE DEF Ahead
  <2> QED BY <1>1, <2>1, <2>2
<1> QED BY <1>5, <1>6, <1>7, <1>8 DEF S

\* The slot that would finish soonest is one.
LEMMA EarliestIs ==
  ASSUME NEW S, IsFiniteSet(S), S # {}, NEW v,
         \A s \in S : s[1].id \in Nat /\ s[2] \in Nat /\ Finish(v, s) \in Nat
  PROVE  /\ EarliestFinish(v, S) \in S
         /\ \A t \in S : Finish(v, EarliestFinish(v, S)) <= Finish(v, t)
<1> DEFINE L(s, t) == NoLater(s, t, Finish(v, s), Finish(v, t))
           R == {p \in S \X S : L(p[2], p[1])}
<1>1. \A a, b \in S : <<a, b>> \in R <=> L(b, a)
      OBVIOUS
<1>2. \A a, b \in S : L(a, b) \/ L(b, a)
      BY DEF NoLater
<1>3. \A a, b, c \in S : L(a, b) /\ L(b, c) => L(a, c)
      BY DEF NoLater
<1>4. \A a \in S : L(a, a)
      BY DEF NoLater
<1>5. \A a, b \in S : L(a, b) => Finish(v, a) <= Finish(v, b)
      BY DEF NoLater
<1>6. EarliestFinish(v, S) = CHOOSE s \in S : \A t \in S : L(s, t)
      BY DEF EarliestFinish
<1> HIDE DEF R, L
<1>7. /\ \A a, b \in S : a # b => <<a, b>> \in R \/ <<b, a>> \in R
      /\ \A a, b, c \in S : (<<a, b>> \in R /\ <<b, c>> \in R) => <<a, c>> \in R
      BY <1>1, <1>2, <1>3
<1>8. PICK z \in S : \A a \in S \ {z} : <<a, z>> \in R
      BY <1>7, LastExists
<1>9. \A t \in S : L(z, t)
      BY <1>1, <1>4, <1>8
<1>10. EarliestFinish(v, S) \in S /\ \A t \in S : L(EarliestFinish(v, S), t)
      BY <1>6, <1>9
<1> QED BY <1>5, <1>10

\* The tasks a slot has, and when it would end with them.
EndOf(v, s) == v.load[s] * s[1].seconds
Fillings(M, S) == [load : [S -> Nat], count : [M -> Nat]]
\* What is known once k tasks have been tried: a machine has the tasks of its slots, a
\* task is only left over when every slot is too late for it, and none ends later than
\* another would with one task more.
Filling(M, n, D, k, v) ==
  LET S == Slots(M, n)
  IN /\ v \in Fillings(M, S)
     /\ \A m \in M : v.count[m] = SumOver(v.load, {s \in S : s[1] = m})
     /\ SumOver(v.load, S) = SumOver(v.count, M) /\ SumOver(v.count, M) <= k
     /\ SumOver(v.count, M) = k \/ (D # Nothing /\ \A s \in S : Finish(v, s) > D)
     /\ \A s \in S : v.load[s] > 0 => D = Nothing \/ EndOf(v, s) <= D
     /\ \A s \in S : \A t \in S : EndOf(v, s) <= Finish(v, t)
     /\ \A s \in S : \A t \in Offered(M, n) \ S : EndOf(v, s) <= t[1].seconds

\* A task more on a slot ends when that slot would have finished one.
LEMMA EndsNext ==
  ASSUME NEW M, NEW S, NEW v \in Fillings(M, S), NEW s \in S, s[1].seconds \in Nat
  PROVE  /\ v.load[s] \in Nat
         /\ Finish(v, s) \in Nat /\ EndOf(v, s) \in Nat
         /\ Finish(v, s) = EndOf(v, s) + s[1].seconds
         /\ v.load[s] = 0 => EndOf(v, s) = 0 /\ Finish(v, s) = s[1].seconds
<1>1. v.load[s] \in Nat
      BY DEF Fillings
<1> DEFINE a == v.load[s]
           b == s[1].seconds
<1> HIDE DEF a, b
<1>2. a \in Nat /\ b \in Nat
      BY <1>1 DEF a, b
<1>3. a * b \in Nat /\ (a + 1) * b = a * b + b
      BY <1>2
<1>4. a = 0 => a * b = 0
      BY <1>2
<1> QED BY <1>2, <1>3, <1>4 DEF EndOf, Finish, a, b

\* While a task is left one of the first slots has none: what a left-out slot follows.
LEMMA AnIdleSlot ==
  ASSUME NEW M, Team(M), NEW n \in Nat, NEW load \in [Slots(M, n) -> Nat],
         SumOver(load, Slots(M, n)) < n, NEW t \in Offered(M, n) \ Slots(M, n)
  PROVE  \E u \in Slots(M, n) : load[u] = 0 /\ u[1].seconds <= t[1].seconds
<1> DEFINE S == Slots(M, n)
<1>1. IsFiniteSet(S)
      BY OfferedIs, FS_Subset DEF Slots
<1>2. PICK P \in SUBSET S : /\ IsFiniteSet(P) /\ Cardinality(P) >= n
                            /\ \A x \in P : x[1].seconds <= t[1].seconds
      BY LeftOutFollows
<1> HIDE DEF S
<1>3. \A x \in S : load[x] \in Nat
      BY DEF S
<1> SUFFICES ASSUME \A u \in P : load[u] # 0 PROVE FALSE
    BY <1>2 DEF S
<1>4. \A u \in P : load[u] \in Nat /\ 1 <= load[u]
      BY <1>2, <1>3
<1>5. 1 * Cardinality(P) <= SumOver(load, P) /\ SumOver(load, P) \in Nat
      BY <1>2, <1>4, TotalAtLeast, TotalBounds
<1>6. SumOver(load, P) <= SumOver(load, S)
      BY <1>1, <1>2, <1>3, TotalPart
<1>7. SumOver(load, S) \in Nat /\ Cardinality(P) \in Nat
      BY <1>1, <1>2, <1>3, TotalBounds, FS_CardinalityType
<1> QED BY <1>2, <1>5, <1>6, <1>7 DEF S

\* What is known of the slots of a plan.
LEMMA SlotsOfFleetAre ==
  ASSUME NEW M, Team(M), NEW n \in Nat
  PROVE  /\ IsFiniteSet(Slots(M, n)) /\ Slots(M, n) \subseteq Offered(M, n)
         /\ \A s \in Slots(M, n) : /\ s[1] \in M /\ s[1].seconds \in Nat
                                   /\ s[1].id \in Nat /\ s[2] \in Nat
<1>1. Slots(M, n) \subseteq Offered(M, n)
      BY DEF Slots
<1> QED BY <1>1, OfferedIs, FS_Subset

\* One task more.
LEMMA FillStep ==
  ASSUME NEW M, Team(M), NEW n \in Nat, NEW D \in Nat \cup {Nothing}, NEW k \in Nat, k < n,
         Slots(M, n) # {}, NEW v, Filling(M, n, D, k, v)
  PROVE  Filling(M, n, D, k + 1, Place(v, Slots(M, n), D))
<1> DEFINE S == Slots(M, n)
           e == EarliestFinish(v, S)
           w == Place(v, S, D)
<1>0. /\ IsFiniteSet(S) /\ S \subseteq Offered(M, n) /\ S # {} /\ IsFiniteSet(M)
      /\ \A s \in S : /\ s[1] \in M /\ s[1].seconds \in Nat
                      /\ s[1].id \in Nat /\ s[2] \in Nat
      BY SlotsOfFleetAre DEF Team
<1>1. /\ v \in Fillings(M, S)
      /\ \A m \in M : v.count[m] = SumOver(v.load, {s \in S : s[1] = m})
      /\ SumOver(v.load, S) = SumOver(v.count, M) /\ SumOver(v.count, M) <= k
      /\ SumOver(v.count, M) = k \/ (D # Nothing /\ \A s \in S : Finish(v, s) > D)
      /\ \A s \in S : v.load[s] > 0 => D = Nothing \/ EndOf(v, s) <= D
      /\ \A s \in S : \A t \in S : EndOf(v, s) <= Finish(v, t)
      /\ \A s \in S : \A t \in Offered(M, n) \ S : EndOf(v, s) <= t[1].seconds
      BY DEF Filling
<1>2. /\ v.load \in [S -> Nat] /\ v.count \in [M -> Nat]
      /\ v = [load |-> v.load, count |-> v.count]
  <2> HIDE DEF S
  <2> QED BY <1>1 DEF Fillings
<1>3. \A s \in S : /\ v.load[s] \in Nat /\ Finish(v, s) \in Nat /\ EndOf(v, s) \in Nat
                   /\ Finish(v, s) = EndOf(v, s) + s[1].seconds
  <2> HIDE DEF S
  <2> QED BY <1>0, <1>1, EndsNext
<1>4. e \in S /\ \A t \in S : Finish(v, e) <= Finish(v, t)
  <2> HIDE DEF S
  <2> QED BY <1>0, <1>3, EarliestIs DEF e
<1>5. \A x \in Offered(M, n) : x[1].seconds \in Nat
      BY OfferedIs
<1>6. SumOver(v.count, M) \in Nat
      BY <1>0, <1>2, TotalBounds
<1>7. CASE D # Nothing /\ Finish(v, e) > D
  <2>1. w = v
        BY <1>7 DEF Place, PlaceOn
  <2>2. \A s \in S : Finish(v, s) > D
    <3> SUFFICES ASSUME NEW s \in S PROVE Finish(v, s) > D
        OBVIOUS
    <3> HIDE DEF S, e
    <3>1. Finish(v, e) \in Nat /\ Finish(v, s) \in Nat /\ Finish(v, e) <= Finish(v, s) /\ D \in Nat
          BY <1>3, <1>4, <1>7
    <3> QED BY <1>7, <3>1
  <2>3. SumOver(v.count, M) <= k + 1
        BY <1>1, <1>6
  <2> HIDE DEF S, w
  <2> QED BY <1>1, <1>7, <2>1, <2>2, <2>3 DEF Filling, S, w
<1>8. CASE ~(D # Nothing /\ Finish(v, e) > D)
  <2> DEFINE load == [v.load EXCEPT ![e] = @ + 1]
             count == [v.count EXCEPT ![e[1]] = @ + 1]
  <2>1. w = [load |-> load, count |-> count]
        BY <1>8 DEF Place, PlaceOn
  <2> HIDE DEF S, e, w
  <2>2. load \in [S -> Nat] /\ count \in [M -> Nat] /\ e[1] \in M
        BY <1>0, <1>2, <1>3, <1>4
  <2>3. /\ load[e] = v.load[e] + 1 /\ \A s \in S : s # e => load[s] = v.load[s]
        /\ count[e[1]] = v.count[e[1]] + 1 /\ \A m \in M : m # e[1] => count[m] = v.count[m]
        BY <1>2, <1>4, <2>2
  <2> HIDE DEF load, count
  <2>4. w.load = load /\ w.count = count /\ w \in Fillings(M, S)
        BY <2>1, <2>2 DEF Fillings
  <2>5. SumOver(load, S) = SumOver(v.load, S) + 1
    <3>1. PICK p, q : p = v.load /\ q = load
          OBVIOUS
    <3>2. /\ IsFiniteSet(S) /\ e \in S /\ q[e] = p[e] + 1
          /\ \A x \in S : p[x] \in Nat /\ (x # e => q[x] = p[x])
          BY <1>0, <1>3, <1>4, <2>3, <3>1
    <3>3. SumOver(q, S) = SumOver(p, S) + 1
          BY <3>2, TotalRaised
    <3> QED BY <3>1, <3>3
  <2>6. SumOver(count, M) = SumOver(v.count, M) + 1
    <3>1. PICK p, q, a : p = v.count /\ q = count /\ a = e[1]
          OBVIOUS
    <3>2. /\ IsFiniteSet(M) /\ a \in M /\ q[a] = p[a] + 1
          /\ \A x \in M : p[x] \in Nat /\ (x # a => q[x] = p[x])
          BY <1>0, <1>2, <2>2, <2>3, <3>1
    <3>3. SumOver(q, M) = SumOver(p, M) + 1
          BY <3>2, TotalRaised
    <3> QED BY <3>1, <3>3
  <2>7. ASSUME NEW m \in M PROVE count[m] = SumOver(load, {s \in S : s[1] = m})
    <3> DEFINE T == {s \in S : s[1] = m}
    <3>1. IsFiniteSet(T) /\ T \subseteq S /\ (e \in T <=> e[1] = m)
          BY <1>0, <1>4, FS_Subset
    <3>2. v.count[m] = SumOver(v.load, T) /\ v.count[m] \in Nat
          BY <1>1, <1>2
    <3> HIDE DEF T
    <3>3. CASE e[1] = m
      <4>1. PICK p, q : p = v.load /\ q = load
            OBVIOUS
      <4>2. /\ IsFiniteSet(T) /\ e \in T /\ q[e] = p[e] + 1
            /\ \A x \in T : p[x] \in Nat /\ (x # e => q[x] = p[x])
            BY <1>3, <1>4, <2>3, <3>1, <3>3, <4>1
      <4>3. SumOver(q, T) = SumOver(p, T) + 1
            BY <4>2, TotalRaised
      <4>4. SumOver(load, T) = v.count[m] + 1
            BY <3>2, <4>1, <4>3
      <4> QED BY <2>3, <3>3, <4>4 DEF T
    <3>4. CASE e[1] # m
      <4>1. \A x \in T : v.load[x] = load[x]
            BY <2>3, <3>1, <3>4
      <4>2. SumOver(v.load, T) = SumOver(load, T)
            BY <3>1, <4>1, TotalAgree
      <4> QED BY <2>3, <3>2, <3>4, <4>2 DEF T
    <3> QED BY <3>3, <3>4
  <2>8. SumOver(v.count, M) = k
    <3> SUFFICES ASSUME D # Nothing, \A s \in S : Finish(v, s) > D PROVE FALSE
        BY <1>1
    <3> QED BY <1>4, <1>8
  <2>9. \A s \in S : /\ Finish(w, s) \in Nat /\ EndOf(w, s) \in Nat
                     /\ Finish(w, s) = EndOf(w, s) + s[1].seconds
        BY <1>0, <2>4, EndsNext
  <2>10. /\ EndOf(w, e) = Finish(v, e)
         /\ \A s \in S : s # e => EndOf(w, s) = EndOf(v, s) /\ Finish(w, s) = Finish(v, s)
        BY <2>3, <2>4 DEF EndOf, Finish
  <2>11. \A s \in S : w.load[s] > 0 => D = Nothing \/ EndOf(w, s) <= D
    <3> SUFFICES ASSUME NEW s \in S, w.load[s] > 0, D # Nothing PROVE EndOf(w, s) <= D
        OBVIOUS
    <3>1. CASE s = e
          BY <1>3, <1>4, <1>8, <2>10, <3>1
    <3>2. CASE s # e
          BY <1>1, <2>3, <2>4, <2>10, <3>2
    <3> QED BY <3>1, <3>2
  <2>12. \A t \in S : Finish(v, t) <= Finish(w, t)
    <3> SUFFICES ASSUME NEW t \in S PROVE Finish(v, t) <= Finish(w, t)
        OBVIOUS
    <3>1. CASE t = e
          BY <1>0, <1>3, <2>9, <2>10, <3>1
    <3>2. CASE t # e
          BY <1>3, <2>10, <3>2
    <3> QED BY <3>1, <3>2
  <2>13. ASSUME NEW s \in S, NEW t \in S PROVE EndOf(w, s) <= Finish(w, t)
    <3>1. EndOf(w, s) <= Finish(v, t)
      <4>1. CASE s = e
            BY <1>4, <2>10, <4>1
      <4>2. CASE s # e
            BY <1>1, <2>10, <4>2
      <4> QED BY <4>1, <4>2
    <3>2. EndOf(w, s) \in Nat /\ Finish(v, t) \in Nat /\ Finish(w, t) \in Nat
          /\ Finish(v, t) <= Finish(w, t)
          BY <1>3, <2>9, <2>12
    <3> QED BY <3>1, <3>2
  <2>14. ASSUME NEW s \in S, NEW t \in Offered(M, n) \ S PROVE EndOf(w, s) <= t[1].seconds
    <3>1. CASE s # e
          BY <1>1, <2>10, <3>1
    <3>2. CASE s = e
      <4>1. SumOver(v.load, S) < n
            BY <1>1, <2>8
      <4>2. PICK u \in S : v.load[u] = 0 /\ u[1].seconds <= t[1].seconds
            BY <1>2, <4>1, AnIdleSlot DEF S
      <4>3. Finish(v, u) = u[1].seconds
            BY <1>0, <1>1, <4>2, EndsNext
      <4>4. /\ Finish(v, e) <= Finish(v, u) /\ Finish(v, e) \in Nat /\ u[1].seconds \in Nat
            /\ t[1].seconds \in Nat
            BY <1>0, <1>3, <1>4, <1>5
      <4> QED BY <2>10, <3>2, <4>2, <4>3, <4>4
    <3> QED BY <3>1, <3>2
  <2>15. SumOver(w.count, M) = k + 1 /\ SumOver(w.load, S) = SumOver(w.count, M)
        BY <1>1, <2>4, <2>5, <2>6, <2>8
  <2>16. \A m \in M : w.count[m] = SumOver(w.load, {s \in S : s[1] = m})
        BY <2>4, <2>7
  <2>17. Filling(M, n, D, k + 1, w)
        BY <2>4, <2>11, <2>13, <2>14, <2>15, <2>16 DEF Filling, S
  <2> QED BY <2>17 DEF w, S
<1> QED BY <1>7, <1>8

\* Before the first task no slot has one.
LEMMA FillStart ==
  ASSUME NEW M, Team(M), NEW n \in Nat, NEW D \in Nat \cup {Nothing}
  PROVE  Filling(M, n, D, 0, Empty(Slots(M, n), M))
<1> DEFINE S == Slots(M, n)
           v == Empty(S, M)
<1>1. IsFiniteSet(S) /\ IsFiniteSet(M) /\ \A s \in S : s[1] \in M /\ s[1].seconds \in Nat
      BY SlotsOfFleetAre DEF Team
<1>2. \A t \in Offered(M, n) : t[1].seconds \in Nat
      BY OfferedIs
<1> HIDE DEF S
<1>3. v = [load |-> [s \in S |-> 0], count |-> [m \in M |-> 0]]
      BY DEF Empty
<1> HIDE DEF v
<1>4. /\ v.load = [s \in S |-> 0] /\ v.count = [m \in M |-> 0] /\ v \in Fillings(M, S)
      BY <1>3 DEF Fillings
<1>5. (\A s \in S : v.load[s] = 0) /\ (\A m \in M : v.count[m] = 0)
      BY <1>4
<1>6. SumOver(v.load, S) = 0 /\ SumOver(v.count, M) = 0
      BY <1>1, <1>5, TotalZero
<1>7. ASSUME NEW m \in M PROVE v.count[m] = SumOver(v.load, {s \in S : s[1] = m})
  <2> DEFINE T == {s \in S : s[1] = m}
  <2>1. IsFiniteSet(T) /\ \A s \in T : v.load[s] = 0
        BY <1>1, <1>5, FS_Subset
  <2> HIDE DEF T
  <2>2. SumOver(v.load, T) = 0
        BY <2>1, TotalZero
  <2> QED BY <1>5, <2>2 DEF T
<1>8. \A s \in S : EndOf(v, s) = 0 /\ Finish(v, s) \in Nat
      BY <1>1, <1>4, <1>5, EndsNext
<1> QED BY <1>2, <1>4, <1>5, <1>6, <1>7, <1>8 DEF Filling, S, v

\* Nor is there a task without a slot.
LEMMA SomeSlots ==
  ASSUME NEW M, Team(M), M # {}, NEW n \in Nat, n > 0
  PROVE  Slots(M, n) # {}
<1> SUFFICES ASSUME Slots(M, n) = {} PROVE FALSE
    OBVIOUS
<1>1. PICK t \in Offered(M, n) : TRUE
      BY OfferedIs
<1>2. PICK P \in SUBSET Slots(M, n) : Cardinality(P) >= n
      BY <1>1, LeftOutFollows
<1>3. P = {}
      BY <1>2
<1>4. Cardinality(P) = 0
      BY <1>3, FS_EmptySet
<1> QED BY <1>2, <1>4

\* What the fold of the tasks keeps.
LEMMA FillAlong ==
  ASSUME NEW M, Team(M), NEW n \in Nat, NEW D \in Nat \cup {Nothing}, Slots(M, n) # {},
         NEW h, h[{}] = Empty(Slots(M, n), M), NEW pick,
         \A T \in SUBSET (1..n) : T # {} =>
           /\ pick[T] \in T
           /\ h[T \ {pick[T]}] \in Fillings(M, Slots(M, n)) =>
                h[T] = Place(h[T \ {pick[T]}], Slots(M, n), D)
  PROVE  \A T \in SUBSET (1..n) : Filling(M, n, D, Cardinality(T), h[T])
<1> DEFINE N == 1..n
           B == {T \in SUBSET N : ~Filling(M, n, D, Cardinality(T), h[T])}
<1> SUFFICES ASSUME B # {} PROVE FALSE
    OBVIOUS
<1>a. IsFiniteSet(N) /\ Cardinality(N) = n
      BY FS_Interval
<1> HIDE DEF N
<1>0. B \in SUBSET (SUBSET N)
      OBVIOUS
<1>1. PICK T \in B : \A U \in SUBSET T : U # T => U \notin B
  <2> HIDE DEF B
  <2> QED BY <1>0, <1>a, SmallestSet
<1>2. CASE T = {}
  <2>1. Cardinality(T) = 0
        BY <1>2, FS_EmptySet
  <2> QED BY <1>2, <2>1, FillStart
<1>3. CASE T # {}
  <2> DEFINE U == T \ {pick[T]}
             k == Cardinality(U)
  <2>1. /\ pick[T] \in T
        /\ h[U] \in Fillings(M, Slots(M, n)) => h[T] = Place(h[U], Slots(M, n), D)
        BY <1>3 DEF N
  <2>2. IsFiniteSet(T) /\ Cardinality(T) <= n /\ Cardinality(T) \in Nat
        BY <1>a, FS_Subset, FS_CardinalityType
  <2>3. IsFiniteSet(U) /\ k \in Nat /\ Cardinality(T) = k + 1 /\ k < n
    <3>1. IsFiniteSet(U) /\ Cardinality(U) = Cardinality(T) - 1
          BY <2>1, <2>2, FS_RemoveElement
    <3>2. Cardinality(U) \in Nat
          BY <3>1, FS_CardinalityType
    <3> HIDE DEF U
    <3> QED BY <1>a, <2>2, <3>1, <3>2
  <2>4. U \in SUBSET T /\ U # T
        BY <2>1
  <2>5. U \notin B /\ U \in SUBSET N
        BY <1>1, <2>4
  <2>6. Filling(M, n, D, k, h[U])
        BY <2>5
  <2>7. h[U] \in Fillings(M, Slots(M, n))
        BY <2>6 DEF Filling
  <2> HIDE DEF U, k, B
  <2>8. Filling(M, n, D, k + 1, Place(h[U], Slots(M, n), D))
        BY <2>3, <2>6, FillStep
  <2>9. Filling(M, n, D, Cardinality(T), h[T])
        BY <2>1, <2>3, <2>7, <2>8
  <2> QED BY <2>9 DEF B
<1> QED BY <1>2, <1>3

\* Every task is tried.
LEMMA FillSlotsIs ==
  ASSUME NEW M, Team(M), M # {}, NEW n \in Nat, NEW D \in Nat \cup {Nothing}
  PROVE  Filling(M, n, D, n, FillSlots(Slots(M, n), M, n, D))
<1> DEFINE S == Slots(M, n)
           base == Empty(S, M)
           N == IF S = {} THEN {} ELSE 1..n
           W(k) == k = [T \in SUBSET N |->
                          IF T = {} THEN base
                          ELSE Place(k[T \ {CHOOSE x \in T : TRUE}], S, D)]
<1>1. FillSlots(S, M, n, D) = (CHOOSE k : W(k))[N]
      BY DEF FillSlots, FoldSet, MapThenFoldSet
<1>2. IsFiniteSet(N)
      BY FS_Interval, FS_EmptySet
<1> DEFINE pick == [T \in SUBSET N |-> CHOOSE x \in T : TRUE]
           step == [p \in N \X Fillings(M, S) |-> Place(p[2], S, D)]
<1>3. \A T \in SUBSET N : T # {} => pick[T] \in T /\ pick[T] = CHOOSE x \in T : TRUE
      OBVIOUS
<1>4. \A i \in N, f \in Fillings(M, S) : step[<<i, f>>] = Place(f, S, D)
      OBVIOUS
<1> HIDE DEF pick, step
<1>5. N \in SUBSET (1..n)
      OBVIOUS
<1> HIDE DEF base
<1>6. PICK h : FoldsTo(pick, step, base, N, h)
  <2> HIDE DEF N, S
  <2> QED BY <1>2, <1>3, FoldExists
<1>7. h[{}] = base
  <2> HIDE DEF N, S
  <2> QED BY <1>6, FoldEmpty
<1>8. ASSUME NEW T \in SUBSET N, T # {}, h[T \ {pick[T]}] \in Fillings(M, S)
      PROVE  h[T] = Place(h[T \ {pick[T]}], S, D)
  <2> HIDE DEF N, S
  <2>1. h[T] = step[<<pick[T], h[T \ {pick[T]}]>>]
        BY <1>6, <1>8, FoldAt
  <2>2. pick[T] \in N
        BY <1>3, <1>8
  <2> QED BY <1>4, <1>8, <2>1, <2>2
<1>9. CASE S = {}
  <2>1. N = {} /\ n = 0
        BY <1>9, SomeSlots
  <2>2. \A k : W(k) => k[N] = base
        BY <2>1
  <2>3. \E k : W(k)
    <3> DEFINE k0 == [T \in SUBSET N |-> base]
    <3>1. \A T \in SUBSET N : T = {}
          BY <2>1
    <3> HIDE DEF N, S
    <3>2. W(k0)
          BY <3>1
    <3> QED BY <3>2
  <2>4. FillSlots(S, M, n, D) = base
    <3> HIDE DEF W
    <3> QED BY <1>1, <2>2, <2>3
  <2> QED BY <2>1, <2>4, FillStart DEF base
<1>10. CASE S # {}
  <2>0. N = 1..n /\ Cardinality(N) = n
        BY <1>10, FS_Interval
  <2>1. \A T \in SUBSET (1..n) : T # {} =>
          /\ pick[T] \in T
          /\ h[T \ {pick[T]}] \in Fillings(M, S) => h[T] = Place(h[T \ {pick[T]}], S, D)
        BY <1>3, <1>8, <2>0
  <2>2. \A T \in SUBSET (1..n) : Filling(M, n, D, Cardinality(T), h[T])
    <3> HIDE DEF N
    <3> QED BY <1>7, <1>10, <2>1, FillAlong DEF base
  <2>3. ASSUME NEW T \in SUBSET N, T # {}
        PROVE  h[T] = Place(h[T \ {CHOOSE x \in T : TRUE}], S, D)
    <3>1. T \ {pick[T]} \in SUBSET (1..n)
          BY <2>0
    <3>2. h[T \ {pick[T]}] \in Fillings(M, S)
          BY <2>2, <3>1 DEF Filling
    <3>3. pick[T] = CHOOSE x \in T : TRUE
          BY <1>3, <2>3
    <3> QED BY <1>8, <2>3, <3>2, <3>3
  <2>4. h = [T \in SUBSET N |-> h[T]]
        BY <1>6 DEF FoldsTo
  <2>5. W(h)
    <3> HIDE DEF N, S
    <3>1. \A T \in SUBSET N : h[T] = IF T = {} THEN base
                                     ELSE Place(h[T \ {CHOOSE x \in T : TRUE}], S, D)
          BY <1>7, <2>3
    <3> QED BY <2>4, <3>1
  <2> DEFINE k == CHOOSE k : W(k)
  <2>6. W(k)
    <3> HIDE DEF W
    <3> QED BY <2>5
  <2> HIDE DEF k
  <2>7. k[{}] = base
    <3> HIDE DEF N, S
    <3> QED BY <2>6
  <2>8. ASSUME NEW T \in SUBSET N, T # {}
        PROVE  pick[T] \in T /\ k[T] = Place(k[T \ {pick[T]}], S, D)
    <3>1. pick[T] \in T /\ pick[T] = CHOOSE x \in T : TRUE
          BY <1>3, <2>8
    <3> HIDE DEF N, S
    <3>2. k[T] = Place(k[T \ {CHOOSE x \in T : TRUE}], S, D)
          BY <2>6, <2>8
    <3> QED BY <3>1, <3>2
  <2>9. \A T \in SUBSET (1..n) : T # {} =>
          /\ pick[T] \in T
          /\ k[T \ {pick[T]}] \in Fillings(M, S) => k[T] = Place(k[T \ {pick[T]}], S, D)
        BY <2>0, <2>8
  <2>10. \A T \in SUBSET (1..n) : Filling(M, n, D, Cardinality(T), k[T])
    <3> HIDE DEF N
    <3> QED BY <1>10, <2>7, <2>9, FillAlong DEF base
  <2>11. Filling(M, n, D, n, k[N])
    <3>1. Filling(M, n, D, Cardinality(N), k[N])
          BY <1>5, <2>10
    <3> QED BY <2>0, <3>1
  <2> HIDE DEF W, N
  <2> QED BY <1>1, <2>11 DEF k
<1> QED BY <1>9, <1>10

\* How a fill leaves all the slots offered.
Loaded(M, n, D, r, L) ==
  LET all == Offered(M, n)
  IN /\ r.count \in [M -> Nat] /\ SumOver(r.count, M) <= n
     /\ \A s \in all : L[s] \in Nat
     /\ \A m \in M : r.count[m] = SumOver(L, Lanes(m, n))
     /\ SumOver(r.count, M) < n => D # Nothing /\ \A t \in all : (L[t] + 1) * t[1].seconds > D
     /\ \A s \in all : L[s] > 0 => D = Nothing \/ L[s] * s[1].seconds <= D
     /\ \A s \in all : \A t \in all : L[s] * s[1].seconds <= (L[t] + 1) * t[1].seconds
     /\ \/ r.makespan = Nothing /\ \A s \in all : L[s] = 0
        \/ /\ r.makespan \in Nat /\ \A s \in all : L[s] * s[1].seconds <= r.makespan
           /\ \E s \in all : L[s] > 0 /\ L[s] * s[1].seconds = r.makespan

\* The end of a fill is the last of its slots'.
LEMMA MakespanIs ==
  ASSUME NEW S, IsFiniteSet(S), NEW load \in [S -> Nat], \A s \in S : s[1].seconds \in Nat
  PROVE  \/ Makespan(load) = Nothing /\ \A s \in S : load[s] = 0
         \/ /\ Makespan(load) \in Nat /\ \A s \in S : load[s] * s[1].seconds <= Makespan(load)
            /\ \E s \in S : load[s] > 0 /\ load[s] * s[1].seconds = Makespan(load)
<1> DEFINE used == {t \in S : load[t] > 0}
           f == [s \in used |-> load[s] * s[1].seconds]
           ends == {load[s] * s[1].seconds : s \in used}
<1>1. IsFiniteSet(used)
      BY FS_Subset
<1>2. \A s \in S : load[s] * s[1].seconds \in Nat /\ load[s] \in Nat
      OBVIOUS
<1>3. Makespan(load) = IF ends = {} THEN Nothing ELSE Max(ends)
  <2>1. DOMAIN load = S
        OBVIOUS
  <2> QED BY <2>1 DEF Makespan
<1>4. IsFiniteSet(ends)
  <2>1. IsFiniteSet({f[x] : x \in used})
    <3> HIDE DEF f, used
    <3> QED BY <1>1, ImageFinite
  <2>2. {f[x] : x \in used} = ends
        OBVIOUS
  <2> QED BY <2>1, <2>2
<1>5. ends \subseteq Nat
      BY <1>2
<1>6. CASE ends = {}
  <2>1. used = {}
        BY <1>6
  <2>2. \A s \in S : load[s] = 0
        BY <1>2, <2>1
  <2> QED BY <1>3, <1>6, <2>2
<1>7. CASE ends # {}
  <2> DEFINE e == Max(ends)
  <2>1. e \in ends /\ \A x \in ends : x <= e
    <3>1. ends \subseteq Int
          BY <1>5
    <3> HIDE DEF ends
    <3> QED BY <1>4, <1>7, <3>1, MaxIs
  <2> HIDE DEF e
  <2>2. e \in Nat /\ Makespan(load) = e
        BY <1>3, <1>5, <1>7, <2>1 DEF e
  <2>3. \E s \in S : load[s] > 0 /\ load[s] * s[1].seconds = e
        BY <2>1
  <2>4. ASSUME NEW s \in S PROVE load[s] * s[1].seconds <= e
    <3>1. CASE load[s] > 0
          BY <2>1, <3>1
    <3>2. CASE load[s] = 0
      <4>1. 0 * s[1].seconds = 0
            OBVIOUS
      <4> QED BY <2>2, <3>2, <4>1
    <3> QED BY <1>2, <3>1, <3>2
  <2> QED BY <2>2, <2>3, <2>4
<1> QED BY <1>6, <1>7

\* What _fill gives.
LEMMA FillIs ==
  ASSUME NEW M, Team(M), M # {}, NEW n \in Nat, NEW D \in Nat \cup {Nothing}
  PROVE  \E L : Loaded(M, n, D, Fill(M, n, D), L)
<1> DEFINE S == Slots(M, n)
           all == Offered(M, n)
           v == FillSlots(S, M, n, D)
           L == [t \in all |-> IF t \in S THEN v.load[t] ELSE 0]
           r == Fill(M, n, D)
<1>1. Filling(M, n, D, n, v)
      BY FillSlotsIs
<1>2. r = [count |-> v.count, makespan |-> Makespan(v.load)]
      BY DEF Fill, Filled
<1> HIDE DEF v, r
<1>3. /\ v \in Fillings(M, S)
      /\ \A m \in M : v.count[m] = SumOver(v.load, {s \in S : s[1] = m})
      /\ SumOver(v.load, S) = SumOver(v.count, M) /\ SumOver(v.count, M) <= n
      /\ SumOver(v.count, M) = n \/ (D # Nothing /\ \A s \in S : Finish(v, s) > D)
      /\ \A s \in S : v.load[s] > 0 => D = Nothing \/ EndOf(v, s) <= D
      /\ \A s \in S : \A t \in S : EndOf(v, s) <= Finish(v, t)
      /\ \A s \in S : \A t \in all \ S : EndOf(v, s) <= t[1].seconds
      BY <1>1 DEF Filling
<1>4. /\ IsFiniteSet(all) /\ IsFiniteSet(S) /\ S \subseteq all
      /\ \A s \in all : s[1] \in M /\ s[1].seconds \in Nat
      /\ \A m \in M : {s \in all : s[1] = m} = Lanes(m, n)
      BY OfferedIs, SlotsOfFleetAre
<1>5. \A t \in all \ S : SumOver(v.load, S) < n =>
        \E u \in S : v.load[u] = 0 /\ u[1].seconds <= t[1].seconds
      BY <1>3, AnIdleSlot DEF Fillings
<1>t. IsFiniteSet(M)
      BY DEF Team
<1> HIDE DEF S, all
<1>6. v.load \in [S -> Nat] /\ v.count \in [M -> Nat] /\ r.count = v.count
      /\ r.makespan = Makespan(v.load)
      BY <1>2, <1>3 DEF Fillings
<1>7. /\ \A s \in S : L[s] = v.load[s] /\ L[s] \in Nat
      /\ \A t \in all \ S : L[t] = 0
      /\ \A t \in all : L[t] \in Nat
      BY <1>4, <1>6
<1> HIDE DEF L
<1>8. \A s \in S : /\ Finish(v, s) \in Nat /\ EndOf(v, s) \in Nat
                   /\ Finish(v, s) = EndOf(v, s) + s[1].seconds
                   /\ v.load[s] = 0 => EndOf(v, s) = 0 /\ Finish(v, s) = s[1].seconds
      BY <1>3, <1>4, EndsNext
<1>9. \A s \in S : L[s] * s[1].seconds = EndOf(v, s) /\ (L[s] + 1) * s[1].seconds = Finish(v, s)
      BY <1>7 DEF EndOf, Finish
<1>10. \A t \in all \ S : L[t] * t[1].seconds = 0 /\ (L[t] + 1) * t[1].seconds = t[1].seconds
  <2> SUFFICES ASSUME NEW t \in all \ S
               PROVE  L[t] * t[1].seconds = 0 /\ (L[t] + 1) * t[1].seconds = t[1].seconds
      OBVIOUS
  <2>1. L[t] = 0 /\ t[1].seconds \in Nat
        BY <1>4, <1>7
  <2>2. 0 * t[1].seconds = 0 /\ (0 + 1) * t[1].seconds = t[1].seconds
        BY <2>1
  <2> QED BY <2>1, <2>2
<1>11. ASSUME NEW m \in M PROVE r.count[m] = SumOver(L, Lanes(m, n))
  <2> DEFINE T == {s \in S : s[1] = m}
             U == {s \in all : s[1] = m}
  <2>1. IsFiniteSet(U) /\ T \in SUBSET U /\ IsFiniteSet(T)
        BY <1>4, FS_Subset
  <2>2. (\A s \in U : L[s] \in Nat) /\ (\A s \in U \ T : L[s] = 0) /\ \A s \in T : L[s] = v.load[s]
        BY <1>7
  <2>3. v.count[m] = SumOver(v.load, T) /\ U = Lanes(m, n)
        BY <1>3, <1>4
  <2> HIDE DEF T, U
  <2>4. SumOver(L, U) = SumOver(L, T)
        BY <2>1, <2>2, TotalSupport
  <2>5. SumOver(L, T) = SumOver(v.load, T)
        BY <2>1, <2>2, TotalAgree
  <2> QED BY <1>6, <2>3, <2>4, <2>5
<1>12. ASSUME SumOver(r.count, M) < n, NEW t \in all
       PROVE  D # Nothing /\ (L[t] + 1) * t[1].seconds > D
  <2>0. SumOver(v.count, M) < n /\ SumOver(v.count, M) \in Nat
        BY <1>6, <1>12, <1>t, TotalBounds
  <2>1. D # Nothing /\ \A s \in S : Finish(v, s) > D
        BY <1>3, <2>0
  <2>2. CASE t \in S
        BY <1>9, <2>1, <2>2
  <2>3. CASE t \notin S
    <3>1. PICK u \in S : v.load[u] = 0 /\ u[1].seconds <= t[1].seconds
          BY <1>3, <1>5, <2>0, <2>3
    <3>2. Finish(v, u) = u[1].seconds /\ Finish(v, u) > D /\ D \in Nat /\ t[1].seconds \in Nat
          /\ u[1].seconds \in Nat
          BY <1>4, <1>8, <2>1, <3>1
    <3>3. t[1].seconds > D
          BY <3>1, <3>2
    <3> QED BY <1>10, <2>1, <2>3, <3>3
  <2> QED BY <2>2, <2>3
<1>13. ASSUME NEW s \in all, L[s] > 0 PROVE D = Nothing \/ L[s] * s[1].seconds <= D
       BY <1>3, <1>7, <1>9, <1>13
<1>14. ASSUME NEW s \in all, NEW t \in all
       PROVE  L[s] * s[1].seconds <= (L[t] + 1) * t[1].seconds
  <2>1. CASE s \in S /\ t \in S
        BY <1>3, <1>9, <2>1
  <2>2. CASE s \in S /\ t \notin S
        BY <1>3, <1>9, <1>10, <2>2
  <2>3. CASE s \notin S
    <3>1. L[s] * s[1].seconds = 0
          BY <1>10, <2>3
    <3>2. (L[t] + 1) * t[1].seconds \in Nat
      <4>1. L[t] \in Nat /\ t[1].seconds \in Nat
            BY <1>4, <1>7
      <4> QED BY <4>1
    <3> QED BY <3>1, <3>2
  <2> QED BY <2>1, <2>2, <2>3
<1>15. \/ r.makespan = Nothing /\ \A s \in all : L[s] = 0
       \/ /\ r.makespan \in Nat /\ \A s \in all : L[s] * s[1].seconds <= r.makespan
          /\ \E s \in all : L[s] > 0 /\ L[s] * s[1].seconds = r.makespan
  <2>1. \/ r.makespan = Nothing /\ \A s \in S : v.load[s] = 0
        \/ /\ r.makespan \in Nat /\ \A s \in S : v.load[s] * s[1].seconds <= r.makespan
           /\ \E s \in S : v.load[s] > 0 /\ v.load[s] * s[1].seconds = r.makespan
    <3>1. \A s \in S : s[1].seconds \in Nat
          BY <1>4
    <3> QED BY <1>4, <1>6, <3>1, MakespanIs
  <2>2. CASE r.makespan = Nothing /\ \A s \in S : v.load[s] = 0
        BY <1>7, <2>2
  <2>3. CASE /\ r.makespan \in Nat /\ \A s \in S : v.load[s] * s[1].seconds <= r.makespan
             /\ \E s \in S : v.load[s] > 0 /\ v.load[s] * s[1].seconds = r.makespan
    <3>1. \E s \in all : L[s] > 0 /\ L[s] * s[1].seconds = r.makespan
          BY <1>4, <1>7, <2>3
    <3>2. ASSUME NEW s \in all PROVE L[s] * s[1].seconds <= r.makespan
      <4>1. CASE s \in S
            BY <1>7, <2>3, <4>1
      <4>2. CASE s \notin S
            BY <1>10, <2>3, <4>2
      <4> QED BY <4>1, <4>2
    <3> QED BY <2>3, <3>1, <3>2
  <2> QED BY <2>1, <2>2, <2>3
<1>16. r.count \in [M -> Nat] /\ SumOver(r.count, M) <= n
       BY <1>3, <1>6
<1>17. /\ \A m \in M : r.count[m] = SumOver(L, Lanes(m, n))
       /\ SumOver(r.count, M) < n => D # Nothing /\ \A t \in all : (L[t] + 1) * t[1].seconds > D
       /\ \A s \in all : L[s] > 0 => D = Nothing \/ L[s] * s[1].seconds <= D
       /\ \A s \in all : \A t \in all : L[s] * s[1].seconds <= (L[t] + 1) * t[1].seconds
  <2>1. SumOver(r.count, M) < n => D # Nothing
    <3> SUFFICES ASSUME SumOver(r.count, M) < n PROVE D # Nothing
        OBVIOUS
    <3>1. SumOver(v.count, M) < n /\ SumOver(v.count, M) \in Nat
          BY <1>6, <1>t, TotalBounds
    <3> QED BY <1>3, <3>1
  <2> QED BY <1>11, <1>12, <1>13, <1>14, <2>1
<1>18. Loaded(M, n, D, r, L)
  <2>1. \A s \in all : L[s] \in Nat
        BY <1>7
  <2> QED BY <1>15, <1>16, <1>17, <2>1 DEF Loaded, all
<1> QED BY <1>18 DEF r

\* When a machine would be done with its share.
LEMMA FinishIs ==
  ASSUME NEW M, Team(M), NEW c, NEW m \in M, c[m] \in Nat
  PROVE  /\ Waves(c[m], m.slots) \in Nat /\ FinishTime(c, m) \in Nat
         /\ FinishTime(c, m) = Waves(c[m], m.slots) * m.seconds
         /\ c[m] = 0 => FinishTime(c, m) = 0
<1>1. m.slots \in Nat \ {0} /\ m.seconds \in Nat
      BY DEF Team
<1>2. /\ Waves(c[m], m.slots) \in Nat
      /\ \A q \in Nat : c[m] <= q * m.slots => Waves(c[m], m.slots) <= q
      BY <1>1, WavesCover
<1>3. c[m] = 0 => Waves(c[m], m.slots) = 0
  <2>1. 0 * m.slots = 0 /\ 0 \in Nat
        BY <1>1
  <2> QED BY <1>2, <2>1
<1>4. 0 * m.seconds = 0
      BY <1>1
<1> DEFINE w == Waves(c[m], m.slots)
<1> HIDE DEF w
<1>5. w \in Nat => w * m.seconds \in Nat
      BY <1>1
<1> QED BY <1>2, <1>3, <1>4, <1>5 DEF FinishTime, w

\* A machine is done when the last of its slots is.
LEMMA LanesEnd ==
  ASSUME NEW M, Team(M), NEW n \in Nat, NEW c, NEW m \in M, NEW L, NEW E \in Nat,
         \A t \in Lanes(m, n) : L[t] \in Nat /\ L[t] * m.seconds <= E,
         c[m] = SumOver(L, Lanes(m, n))
  PROVE  FinishTime(c, m) <= E
<1> DEFINE w == Waves(c[m], m.slots)
<1>1. m.slots \in Nat \ {0} /\ m.seconds \in Nat
      BY DEF Team
<1>2. c[m] \in Nat
  <2>1. IsFiniteSet(Lanes(m, n))
        BY <1>1, LanesAre
  <2> QED BY <2>1, TotalBounds
<1>3. w \in Nat /\ FinishTime(c, m) = w * m.seconds
      BY <1>2, FinishIs
<1> SUFFICES ASSUME E < w * m.seconds PROVE FALSE
  <2> HIDE DEF w
  <2> QED BY <1>1, <1>3
<1>4. ASSUME NEW t \in Lanes(m, n) PROVE L[t] < w
  <2> HIDE DEF w
  <2>1. L[t] * m.seconds <= E /\ L[t] \in Nat /\ L[t] * m.seconds \in Nat /\ w * m.seconds \in Nat
        BY <1>1, <1>3
  <2>2. L[t] * m.seconds < w * m.seconds
        BY <2>1
  <2> QED BY <1>1, <1>3, <2>1, <2>2, FactorLess
<1>5. w # 0
  <2> HIDE DEF w
  <2>1. 0 * m.seconds = 0
        BY <1>1
  <2> QED BY <2>1
<1>6. w - 1 \in Nat /\ \A t \in Lanes(m, n) : L[t] \in Nat /\ L[t] <= w - 1
  <2> HIDE DEF w
  <2> QED BY <1>3, <1>4, <1>5
<1>7. Waves(SumOver(L, Lanes(m, n)), m.slots) <= w - 1
  <2> DEFINE q == w - 1
  <2>1. q \in Nat /\ \A t \in Lanes(m, n) : L[t] \in Nat /\ L[t] <= q
        BY <1>6
  <2> HIDE DEF q, w
  <2>2. Waves(SumOver(L, Lanes(m, n)), m.slots) <= q
        BY <1>1, <2>1, WavesOfLanes
  <2> QED BY <2>2 DEF q
<1>8. w <= w - 1
      BY <1>7
<1> HIDE DEF w
<1> QED BY <1>3, <1>8

\* What is good about a fill r: every machine is in time; what it leaves nobody could
\* place; and no other share of as many tasks ends sooner.
BestFill(M, n, D, r) ==
  /\ r.count \in [M -> Nat] /\ SumOver(r.count, M) <= n /\ InTime(r.count, M, D)
  /\ SumOver(r.count, M) < n =>
       \A c \in [M -> Nat] : InTime(c, M, D) => \A m \in M : c[m] <= r.count[m]
  /\ \/ r.makespan = Nothing /\ \A m \in M : r.count[m] = 0
     \/ /\ r.makespan \in Nat /\ \A m \in M : FinishTime(r.count, m) <= r.makespan
        /\ D = Nothing \/ r.makespan <= D
        /\ SumOver(r.count, M) # 0
  /\ r.makespan # Nothing =>
       \A c \in [M -> Nat] :
         SumOver(c, M) = SumOver(r.count, M) => \E m \in M : r.makespan <= FinishTime(c, m)

\* The fill of a team is the best.
LEMMA FillIsBest ==
  ASSUME NEW M, Team(M), M # {}, NEW n \in Nat, NEW D \in Nat \cup {Nothing}, Nothing \notin Nat,
         NEW r, r = Fill(M, n, D)
  PROVE  BestFill(M, n, D, r)
<1> DEFINE all == Offered(M, n)
<1>1. PICK L : Loaded(M, n, D, r, L)
      BY FillIs
<1>2. /\ r.count \in [M -> Nat] /\ SumOver(r.count, M) <= n
      /\ \A s \in all : L[s] \in Nat
      /\ \A m \in M : r.count[m] = SumOver(L, Lanes(m, n))
      /\ SumOver(r.count, M) < n => D # Nothing /\ \A t \in all : (L[t] + 1) * t[1].seconds > D
      /\ \A s \in all : L[s] > 0 => D = Nothing \/ L[s] * s[1].seconds <= D
      /\ \A s \in all : \A t \in all : L[s] * s[1].seconds <= (L[t] + 1) * t[1].seconds
      /\ \/ r.makespan = Nothing /\ \A s \in all : L[s] = 0
         \/ /\ r.makespan \in Nat /\ \A s \in all : L[s] * s[1].seconds <= r.makespan
            /\ \E s \in all : L[s] > 0 /\ L[s] * s[1].seconds = r.makespan
      BY <1>1 DEF Loaded
<1>3. /\ IsFiniteSet(all) /\ IsFiniteSet(M)
      /\ \A s \in all : s[1] \in M /\ s \in Lanes(s[1], n) /\ s[1].seconds \in Nat
      /\ \A m \in M : {s \in all : s[1] = m} = Lanes(m, n)
      BY OfferedIs DEF Team
<1>4. /\ \A m \in M : m.slots \in Nat \ {0} /\ m.seconds \in Nat
      /\ \A m \in M : \A t \in Lanes(m, n) : t \in all /\ t[1] = m /\ L[t] \in Nat
      BY <1>2, <1>3 DEF Team
<1> HIDE DEF all
<1>5. \A m \in M : IsFiniteSet(Lanes(m, n))
      BY <1>4, LanesAre
<1>6. SumOver(r.count, M) \in Nat /\ \A m \in M : r.count[m] \in Nat /\ r.count[m] <= SumOver(r.count, M)
      BY <1>2, <1>3, TotalBounds
<1>7. ASSUME NEW c \in [M -> Nat], NEW m \in M, NEW t \in Lanes(m, n), FinishTime(c, m) < (L[t] + 1) * m.seconds
      PROVE  Waves(c[m], m.slots) <= L[t]
  <2> DEFINE w == Waves(c[m], m.slots)
  <2>1. w \in Nat /\ FinishTime(c, m) = w * m.seconds /\ L[t] \in Nat /\ L[t] + 1 \in Nat
        BY <1>4, FinishIs
  <2> HIDE DEF w
  <2>2. w < L[t] + 1
        BY <1>4, <1>7, <2>1, FactorLess
  <2>3. w <= L[t]
        BY <2>1, <2>2
  <2> QED BY <2>3 DEF w
<1>8. InTime(r.count, M, D)
  <2> SUFFICES ASSUME D # Nothing, NEW m \in M PROVE FinishTime(r.count, m) <= D
      BY DEF InTime
  <2>1. D \in Nat
        OBVIOUS
  <2>2. ASSUME NEW t \in Lanes(m, n) PROVE L[t] \in Nat /\ L[t] * m.seconds <= D
    <3>1. t \in all /\ t[1] = m /\ L[t] \in Nat
          BY <1>4
    <3>2. CASE L[t] > 0
          BY <1>2, <3>1, <3>2
    <3>3. CASE L[t] = 0
      <4>1. 0 * m.seconds = 0
            BY <1>4
      <4> QED BY <2>1, <3>1, <3>3, <4>1
    <3> QED BY <3>1, <3>2, <3>3
  <2> QED BY <1>2, <2>1, <2>2, LanesEnd
<1>9. ASSUME SumOver(r.count, M) < n, NEW c \in [M -> Nat], InTime(c, M, D), NEW m \in M
      PROVE  c[m] <= r.count[m]
  <2>1. D # Nothing /\ D \in Nat /\ \A t \in all : (L[t] + 1) * t[1].seconds > D
        BY <1>2, <1>9
  <2>2. FinishTime(c, m) <= D /\ FinishTime(c, m) \in Nat
        BY <1>9, <2>1, FinishIs DEF InTime
  <2>3. ASSUME NEW t \in Lanes(m, n) PROVE Waves(c[m], m.slots) <= L[t]
    <3>1. t \in all /\ t[1] = m /\ L[t] \in Nat /\ m.seconds \in Nat
          BY <1>4
    <3>2. (L[t] + 1) * m.seconds > D /\ (L[t] + 1) * m.seconds \in Nat
          BY <2>1, <3>1
    <3>3. FinishTime(c, m) < (L[t] + 1) * m.seconds
          BY <2>1, <2>2, <3>2
    <3> QED BY <1>7, <3>3
  <2>4. r.count[m] < n /\ n > 0
        BY <1>6, <1>9
  <2>5. /\ m.slots \in Nat \ {0} /\ c[m] \in Nat /\ \A t \in Lanes(m, n) : L[t] \in Nat
        /\ r.count[m] = SumOver(L, Lanes(m, n))
        BY <1>2, <1>4
  <2> QED BY <2>3, <2>4, <2>5, LevelOfLanes
<1>10. CASE r.makespan = Nothing /\ \A s \in all : L[s] = 0
  <2>1. ASSUME NEW m \in M PROVE r.count[m] = 0
    <3>1. \A t \in Lanes(m, n) : L[t] = 0
          BY <1>4, <1>10
    <3> QED BY <1>2, <1>5, <3>1, TotalZero
  <2> QED BY <1>2, <1>8, <1>9, <1>10, <2>1 DEF BestFill
<1>11. CASE /\ r.makespan \in Nat /\ \A s \in all : L[s] * s[1].seconds <= r.makespan
            /\ \E s \in all : L[s] > 0 /\ L[s] * s[1].seconds = r.makespan
  <2>1. PICK z \in all : L[z] > 0 /\ L[z] * z[1].seconds = r.makespan
        BY <1>11
  <2>2. ASSUME NEW m \in M PROVE FinishTime(r.count, m) <= r.makespan
    <3>1. \A t \in Lanes(m, n) : L[t] \in Nat /\ L[t] * m.seconds <= r.makespan
          BY <1>4, <1>11
    <3> QED BY <1>2, <1>11, <3>1, LanesEnd
  <2>3. D = Nothing \/ r.makespan <= D
        BY <1>2, <2>1
  <2>4. z[1] \in M /\ z \in Lanes(z[1], n) /\ L[z] \in Nat
        BY <1>2, <1>3
  <2>5. SumOver(r.count, M) # 0
    <3> DEFINE m == z[1]
    <3>1. m \in M /\ z \in Lanes(m, n) /\ \A t \in Lanes(m, n) : L[t] \in Nat
          BY <1>4, <2>4
    <3> HIDE DEF m
    <3>2. L[z] <= SumOver(L, Lanes(m, n)) /\ SumOver(L, Lanes(m, n)) \in Nat
          BY <1>5, <3>1, TotalBounds
    <3>3. r.count[m] > 0
          BY <1>2, <2>1, <2>4, <3>1, <3>2
    <3> QED BY <1>6, <3>1, <3>3
  <2>6. ASSUME NEW c \in [M -> Nat], SumOver(c, M) = SumOver(r.count, M),
               ~\E m \in M : r.makespan <= FinishTime(c, m)
        PROVE  FALSE
    <3>0. \A m \in M : c[m] \in Nat /\ c[m] <= SumOver(c, M)
          BY <1>3, TotalBounds
    <3>1. \A m \in M : FinishTime(c, m) < r.makespan /\ FinishTime(c, m) \in Nat
      <4> SUFFICES ASSUME NEW m \in M PROVE FinishTime(c, m) < r.makespan /\ FinishTime(c, m) \in Nat
          OBVIOUS
      <4>1. FinishTime(c, m) \in Nat
            BY <3>0, FinishIs
      <4> QED BY <1>11, <2>6, <4>1
    <3>2. ASSUME NEW m \in M, NEW t \in Lanes(m, n) PROVE Waves(c[m], m.slots) <= L[t]
      <4>1. t \in all /\ t[1] = m /\ L[t] \in Nat /\ m.seconds \in Nat
            BY <1>4
      <4>2. r.makespan <= (L[t] + 1) * m.seconds /\ (L[t] + 1) * m.seconds \in Nat
            BY <1>2, <2>1, <4>1
      <4>3. FinishTime(c, m) < (L[t] + 1) * m.seconds
            BY <1>11, <3>1, <4>2
      <4> QED BY <1>7, <4>3
    <3>3. n > 0 /\ \A m \in M : c[m] <= n
          BY <1>2, <1>6, <2>5, <2>6, <3>0
    <3>4. \A m \in M : c[m] <= r.count[m]
          BY <1>2, <1>4, <3>0, <3>2, <3>3, LevelOfLanes
    <3> DEFINE m == z[1]
    <3>5. m \in M /\ z \in Lanes(m, n) /\ m.seconds \in Nat
          BY <1>3, <2>4
    <3>6. Waves(c[m], m.slots) < L[z]
      <4> DEFINE w == Waves(c[m], m.slots)
      <4>1. w \in Nat /\ FinishTime(c, m) = w * m.seconds
            BY <3>0, <3>5, FinishIs
      <4>2. FinishTime(c, m) < L[z] * m.seconds
            BY <2>1, <3>1, <3>5
      <4> HIDE DEF w, m
      <4>3. w < L[z]
            BY <2>4, <3>5, <4>1, <4>2, FactorLess
      <4> QED BY <4>3 DEF w
    <3> HIDE DEF m
    <3>7. c[m] < r.count[m]
      <4>1. /\ m.slots \in Nat \ {0} /\ c[m] \in Nat /\ \A t \in Lanes(m, n) : L[t] \in Nat
            /\ r.count[m] = SumOver(L, Lanes(m, n))
            /\ \A t \in Lanes(m, n) : Waves(c[m], m.slots) <= L[t]
            BY <1>2, <1>4, <3>0, <3>2, <3>5
      <4>2. c[m] <= n /\ n > 0 /\ \E t \in Lanes(m, n) : Waves(c[m], m.slots) < L[t]
            BY <3>3, <3>5, <3>6
      <4> QED BY <4>1, <4>2, LevelOfLanes
    <3>8. SumOver(c, M) < SumOver(r.count, M)
          BY <1>3, <1>6, <3>0, <3>4, <3>5, <3>7, TotalStrict
    <3> QED BY <1>6, <2>6, <3>8
  <2> QED BY <1>2, <1>8, <1>9, <1>11, <2>2, <2>3, <2>5, <2>6 DEF BestFill
<1> QED BY <1>2, <1>10, <1>11

\* The tasks a plan places.
LEMMA PlacedIs ==
  ASSUME NEW M, NEW c, DOMAIN c = M
  PROVE  Placed(c) = SumOver(c, M)
  BY SumFunctionIsTotal DEF Placed, SumFunction

Keys(M) == {Group(m) : m \in M}
OfGroup(M, g) == {m \in M : Group(m) = g}
Takings(M) == [count : [M -> Nat], makespan : Nat \cup {Nothing}]
\* The groups before one of these are among them.
Lead(M, T) == \A g \in T : \A h \in Keys(M) : GroupOrder(h, g) => h \in T

\* The groups of a fleet are in order, and the last of some is one of them.
LEMMA KeysAre ==
  ASSUME NEW M, Team(M)
  PROVE  /\ IsFiniteSet(Keys(M)) /\ Keys(M) \subseteq Nat \X {0, 1}
         /\ \A g, h \in Keys(M) : g # h => GroupOrder(g, h) \/ GroupOrder(h, g)
         /\ \A g, h \in Keys(M) : GroupOrder(g, h) => ~GroupOrder(h, g) /\ g # h
         /\ \A g, h, k \in Keys(M) : GroupOrder(g, h) /\ GroupOrder(h, k) => GroupOrder(g, k)
         /\ \A T \in SUBSET Keys(M) : T # {} =>
              /\ LastGroup(T) \in T
              /\ \A h \in T : h = LastGroup(T) \/ GroupOrder(h, LastGroup(T))
<1> DEFINE f == [m \in M |-> Group(m)]
<1>1. IsFiniteSet(Keys(M))
  <2>1. {f[m] : m \in M} = Keys(M) /\ IsFiniteSet(M)
        BY DEF Keys, Team
  <2> HIDE DEF f
  <2> QED BY <2>1, ImageFinite
<1>2. Keys(M) \subseteq Nat \X {0, 1}
      BY DEF Keys, Group, Team
<1>3. \A g \in Nat \X {0, 1} : g[1] \in Nat /\ g[2] \in {0, 1} /\ g = <<g[1], g[2]>>
      OBVIOUS
<1>4. /\ \A g, h \in Keys(M) : g # h => GroupOrder(g, h) \/ GroupOrder(h, g)
      /\ \A g, h \in Keys(M) : GroupOrder(g, h) => ~GroupOrder(h, g) /\ g # h
      /\ \A g, h, k \in Keys(M) : GroupOrder(g, h) /\ GroupOrder(h, k) => GroupOrder(g, k)
  <2>1. \A g \in Keys(M) : g[1] \in Nat /\ g[2] \in {0, 1} /\ g = <<g[1], g[2]>>
        BY <1>2, <1>3
  <2>2. \A g, h \in Keys(M) : g # h => g[1] # h[1] \/ g[2] # h[2]
        BY <2>1
  <2>3. \A g \in Keys(M) : g[1] \in Nat /\ g[2] \in Nat
        BY <2>1
  <2>4. \A g, h \in Keys(M) : g # h => GroupOrder(g, h) \/ GroupOrder(h, g)
        BY <2>2, <2>3 DEF GroupOrder
  <2>5. \A g, h \in Keys(M) : GroupOrder(g, h) => ~GroupOrder(h, g) /\ g # h
        BY <2>3 DEF GroupOrder
  <2>6. \A g, h, k \in Keys(M) : GroupOrder(g, h) /\ GroupOrder(h, k) => GroupOrder(g, k)
        BY <2>3 DEF GroupOrder
  <2> QED BY <2>4, <2>5, <2>6
<1>5. ASSUME NEW T \in SUBSET Keys(M), T # {}
      PROVE  /\ LastGroup(T) \in T
             /\ \A h \in T : h = LastGroup(T) \/ GroupOrder(h, LastGroup(T))
  <2> DEFINE R == {p \in T \X T : GroupOrder(p[1], p[2])}
  <2>1. \A g, h \in T : <<g, h>> \in R <=> GroupOrder(g, h)
        OBVIOUS
  <2> HIDE DEF R
  <2>2. IsFiniteSet(T)
        BY <1>1, FS_Subset
  <2>3. /\ \A a, b \in T : a # b => <<a, b>> \in R \/ <<b, a>> \in R
        /\ \A a, b, c \in T : (<<a, b>> \in R /\ <<b, c>> \in R) => <<a, c>> \in R
        BY <1>4, <2>1
  <2>4. PICK z \in T : \A a \in T \ {z} : <<a, z>> \in R
        BY <1>5, <2>2, <2>3, LastExists
  <2>5. \A h \in T : h = z \/ GroupOrder(h, z)
        BY <2>1, <2>4
  <2> QED BY <2>5 DEF LastGroup
<1> QED BY <1>1, <1>2, <1>4, <1>5

\* A group is a team of its own, its part of a share a share.
LEMMA GroupTeam ==
  ASSUME NEW M, Team(M), NEW g \in Keys(M)
  PROVE  /\ Team(OfGroup(M, g)) /\ OfGroup(M, g) # {} /\ OfGroup(M, g) \in SUBSET M
         /\ IsFiniteSet(OfGroup(M, g))
         /\ \A c \in [M -> Nat] :
              LET part == [m \in OfGroup(M, g) |-> c[m]]
              IN /\ part \in [OfGroup(M, g) -> Nat]
                 /\ SumOver(part, OfGroup(M, g)) = SumOver(c, OfGroup(M, g))
                 /\ \A m \in OfGroup(M, g) : FinishTime(part, m) = FinishTime(c, m)
                 /\ \A D : InTime(c, M, D) => InTime(part, OfGroup(M, g), D)
<1> DEFINE G == OfGroup(M, g)
<1>1. G \in SUBSET M /\ G # {}
      BY DEF OfGroup, Keys
<1>2. IsFiniteSet(G)
      BY <1>1, FS_Subset DEF Team
<1>3. Team(G)
      BY <1>1, <1>2 DEF Team
<1> HIDE DEF G
<1>4. ASSUME NEW c \in [M -> Nat], NEW part, part = [m \in G |-> c[m]]
      PROVE  /\ part \in [G -> Nat] /\ SumOver(part, G) = SumOver(c, G)
             /\ \A m \in G : FinishTime(part, m) = FinishTime(c, m)
             /\ \A D : InTime(c, M, D) => InTime(part, G, D)
  <2>1. part \in [G -> Nat] /\ \A m \in G : part[m] = c[m]
        BY <1>1, <1>4
  <2>2. SumOver(part, G) = SumOver(c, G)
        BY <1>2, <2>1, TotalAgree
  <2>3. \A m \in G : FinishTime(part, m) = FinishTime(c, m)
        BY <2>1 DEF FinishTime
  <2>4. \A D : InTime(c, M, D) => InTime(part, G, D)
        BY <1>1, <2>3 DEF InTime
  <2> QED BY <2>1, <2>2, <2>3, <2>4
<1> QED BY <1>1, <1>2, <1>3, <1>4 DEF G

\* What is known once the groups of T are filled: nobody could place what is left over
\* on them; when all is placed a group is the last, those before it are as full as they
\* can be and those behind it empty; and no other split within a group ends sooner.
Along(M, n, D, T, v) ==
  LET placed == SumOver(v.count, M)
  IN /\ v \in Takings(M) /\ placed <= n /\ InTime(v.count, M, D)
     /\ \A m \in M : Group(m) \notin T => v.count[m] = 0
     /\ placed < n =>
          \A c \in [M -> Nat] : InTime(c, M, D) =>
            \A m \in M : Group(m) \in T => c[m] <= v.count[m]
     /\ placed = n /\ n > 0 /\ Lead(M, T) =>
          \E g \in T :
            /\ \A m \in M : GroupOrder(g, Group(m)) => v.count[m] = 0
            /\ \A c \in [M -> Nat] : InTime(c, M, D) =>
                 \A m \in M : GroupOrder(Group(m), g) => c[m] <= v.count[m]
     /\ \/ v.makespan = Nothing /\ placed = 0
        \/ /\ v.makespan \in Nat /\ placed # 0 /\ (D = Nothing \/ v.makespan <= D)
           /\ \A m \in M : FinishTime(v.count, m) <= v.makespan
           /\ \E g \in T : \A c \in [M -> Nat] :
                SumOver(c, OfGroup(M, g)) = SumOver(v.count, OfGroup(M, g)) =>
                \E m \in M : v.makespan <= FinishTime(c, m)

\* Before the first group.
LEMMA AlongStart ==
  ASSUME NEW M, Team(M), NEW n \in Nat, NEW D \in Nat \cup {Nothing}, Nothing \notin Nat,
         NEW v, v = [count |-> [m \in M |-> 0], makespan |-> Nothing]
  PROVE  Along(M, n, D, {}, v)
<1>1. v \in Takings(M) /\ v.makespan = Nothing /\ \A m \in M : v.count[m] = 0
      BY DEF Takings
<1>2. IsFiniteSet(M)
      BY DEF Team
<1>3. SumOver(v.count, M) = 0
      BY <1>1, <1>2, TotalZero
<1>4. \A m \in M : FinishTime(v.count, m) = 0
  <2>1. \A m \in M : v.count[m] \in Nat
        BY <1>1
  <2> QED BY <1>1, <2>1, FinishIs
<1>5. InTime(v.count, M, D)
      BY <1>4 DEF InTime
<1> QED BY <1>1, <1>3, <1>5 DEF Along

\* One group more.
LEMMA AlongStep ==
  ASSUME NEW M, Team(M), NEW n \in Nat, NEW D \in Nat \cup {Nothing}, Nothing \notin Nat,
         NEW T \in SUBSET Keys(M), T # {}, NEW g, g = LastGroup(T),
         NEW v, Along(M, n, D, T \ {g}, v),
         NEW w, w = Taken(v, Fill(OfGroup(M, g), n - Placed(v.count), D))
  PROVE  Along(M, n, D, T, w)
<1> DEFINE G == OfGroup(M, g)
           U == T \ {g}
           placed == SumOver(v.count, M)
           r == n - placed
           f == Fill(G, r, D)
           O == M \ G
<1>1. /\ v \in Takings(M) /\ placed <= n /\ InTime(v.count, M, D)
      /\ \A m \in M : Group(m) \notin U => v.count[m] = 0
      /\ placed < n =>
           \A c \in [M -> Nat] : InTime(c, M, D) =>
             \A m \in M : Group(m) \in U => c[m] <= v.count[m]
      /\ placed = n /\ n > 0 /\ Lead(M, U) =>
           \E h \in U :
             /\ \A m \in M : GroupOrder(h, Group(m)) => v.count[m] = 0
             /\ \A c \in [M -> Nat] : InTime(c, M, D) =>
                  \A m \in M : GroupOrder(Group(m), h) => c[m] <= v.count[m]
      /\ \/ v.makespan = Nothing /\ placed = 0
         \/ /\ v.makespan \in Nat /\ placed # 0 /\ (D = Nothing \/ v.makespan <= D)
            /\ \A m \in M : FinishTime(v.count, m) <= v.makespan
            /\ \E h \in U : \A c \in [M -> Nat] :
                 SumOver(c, OfGroup(M, h)) = SumOver(v.count, OfGroup(M, h)) =>
                 \E m \in M : v.makespan <= FinishTime(c, m)
      BY DEF Along
<1>2. /\ v.count \in [M -> Nat] /\ DOMAIN v.count = M /\ IsFiniteSet(M)
      /\ v.makespan \in Nat \cup {Nothing}
      BY <1>1 DEF Takings, Team
<1>3. placed \in Nat /\ \A m \in M : v.count[m] \in Nat /\ v.count[m] <= placed
      BY <1>2, TotalBounds
<1>4. r \in Nat /\ n - Placed(v.count) = r
      BY <1>1, <1>2, <1>3, PlacedIs
<1>5. /\ g \in T /\ g \in Keys(M)
      /\ \A h \in T : h = g \/ GroupOrder(h, g)
      BY KeysAre
<1>6. /\ Team(G) /\ G # {} /\ G \in SUBSET M /\ IsFiniteSet(G) /\ IsFiniteSet(O)
      /\ \A m \in M : m \in G <=> Group(m) = g
      BY <1>2, <1>5, GroupTeam, FS_Subset DEF OfGroup
<1>7. /\ f.count \in [G -> Nat] /\ SumOver(f.count, G) <= r /\ InTime(f.count, G, D)
      /\ SumOver(f.count, G) < r =>
           \A c \in [G -> Nat] : InTime(c, G, D) => \A m \in G : c[m] <= f.count[m]
      /\ \/ f.makespan = Nothing /\ \A m \in G : f.count[m] = 0
         \/ /\ f.makespan \in Nat /\ \A m \in G : FinishTime(f.count, m) <= f.makespan
            /\ D = Nothing \/ f.makespan <= D
            /\ SumOver(f.count, G) # 0
      /\ f.makespan # Nothing =>
           \A c \in [G -> Nat] :
             SumOver(c, G) = SumOver(f.count, G) => \E m \in G : f.makespan <= FinishTime(c, m)
  <2> HIDE DEF G, r
  <2>1. f = Fill(G, r, D)
        BY <1>4
  <2> HIDE DEF f
  <2>2. Team(G) /\ G # {} /\ r \in Nat
        BY <1>4, <1>6
  <2>3. BestFill(G, r, D, f)
        BY <2>1, <2>2, FillIsBest
  <2> QED BY <2>3 DEF BestFill
<1>8. /\ w.count = [m \in M |-> IF m \in G THEN f.count[m] ELSE v.count[m]]
      /\ w.makespan = Later(v.makespan, f.makespan)
      /\ w = [count |-> w.count, makespan |-> w.makespan]
  <2>1. w = Taken(v, f)
        BY <1>4
  <2>2. DOMAIN f.count = G
        BY <1>7
  <2> HIDE DEF f, G
  <2> QED BY <1>2, <2>1, <2>2 DEF Taken
<1>g. \A c \in [M -> Nat] :
        /\ [m \in G |-> c[m]] \in [G -> Nat]
        /\ SumOver([m \in G |-> c[m]], G) = SumOver(c, G)
        /\ \A m \in G : FinishTime([x \in G |-> c[x]], m) = FinishTime(c, m)
        /\ InTime(c, M, D) => InTime([m \in G |-> c[m]], G, D)
      BY <1>5, GroupTeam
<1> HIDE DEF G, f, r, placed
<1>9. /\ w.count \in [M -> Nat]
      /\ \A m \in G : w.count[m] = f.count[m]
      /\ \A m \in O : w.count[m] = v.count[m]
      /\ \A m \in G : v.count[m] = 0
      BY <1>1, <1>2, <1>6, <1>7, <1>8
<1>10. SumOver(w.count, M) = placed + SumOver(f.count, G) /\ SumOver(f.count, G) \in Nat
  <2>1. M = O \cup G /\ O \cap G = {}
        BY <1>6
  <2>2. /\ \A m \in O \cup G : w.count[m] \in Int
        /\ \A m \in O \cup G : v.count[m] \in Int
        BY <1>2, <1>9, <2>1
  <2> HIDE DEF O
  <2>3. /\ SumOver(w.count, M) = SumOver(w.count, O) + SumOver(w.count, G)
        /\ SumOver(v.count, M) = SumOver(v.count, O) + SumOver(v.count, G)
        BY <1>6, <2>1, <2>2, TotalUnion
  <2>4. /\ SumOver(w.count, O) = SumOver(v.count, O)
        /\ SumOver(w.count, G) = SumOver(f.count, G)
        BY <1>6, <1>9, TotalAgree
  <2>5. SumOver(v.count, G) = 0
        BY <1>6, <1>9, TotalZero
  <2>6. SumOver(f.count, G) \in Nat
        BY <1>6, <1>7, TotalBounds
  <2>7. \A m \in O : v.count[m] \in Nat
        BY <1>2, <2>1
  <2>8. SumOver(v.count, O) \in Nat
        BY <1>6, <2>7, TotalBounds
  <2> QED BY <2>3, <2>4, <2>5, <2>6, <2>8 DEF placed
<1> DEFINE sum == SumOver(w.count, M)
<1>11. sum \in Nat /\ sum <= n /\ (sum < n <=> SumOver(f.count, G) < r) /\ (sum = 0 <=> placed = 0 /\ SumOver(f.count, G) = 0)
      /\ (placed = n => SumOver(f.count, G) = 0) /\ (sum < n => placed < n)
      BY <1>3, <1>4, <1>7, <1>10 DEF r
<1> HIDE DEF sum
<1>12. \A m \in M : /\ m \in G => FinishTime(w.count, m) = FinishTime(f.count, m)
                    /\ m \notin G => FinishTime(w.count, m) = FinishTime(v.count, m)
       BY <1>9 DEF FinishTime
<1>13. InTime(w.count, M, D)
       BY <1>1, <1>7, <1>12, <1>6 DEF InTime
<1>14. \A m \in M : Group(m) \notin T => w.count[m] = 0
  <2> SUFFICES ASSUME NEW m \in M, Group(m) \notin T PROVE w.count[m] = 0
      OBVIOUS
  <2>1. m \in O /\ Group(m) \notin U
        BY <1>5, <1>6
  <2> QED BY <1>1, <1>9, <2>1
<1>15. ASSUME sum < n, NEW c \in [M -> Nat], InTime(c, M, D), NEW m \in M, Group(m) \in T
       PROVE  c[m] <= w.count[m]
  <2>1. CASE m \in G
    <3>1. [x \in G |-> c[x]] \in [G -> Nat] /\ InTime([x \in G |-> c[x]], G, D)
          BY <1>15, <1>g
    <3>2. [x \in G |-> c[x]][m] <= f.count[m]
          BY <1>7, <1>11, <1>15, <2>1, <3>1
    <3>3. [x \in G |-> c[x]][m] = c[m]
          BY <2>1
    <3> QED BY <1>9, <2>1, <3>2, <3>3
  <2>2. CASE m \notin G
    <3>1. Group(m) \in U /\ m \in O
          BY <1>6, <1>15, <2>2
    <3> QED BY <1>1, <1>9, <1>11, <1>15, <3>1
  <2> QED BY <2>1, <2>2
<1>16. ASSUME sum = n, n > 0, Lead(M, T)
       PROVE  \E h \in T :
                /\ \A m \in M : GroupOrder(h, Group(m)) => w.count[m] = 0
                /\ \A c \in [M -> Nat] : InTime(c, M, D) =>
                     \A m \in M : GroupOrder(Group(m), h) => c[m] <= w.count[m]
  <2>0. \A m \in M : Group(m) \in Keys(M)
        BY DEF Keys
  <2>1. CASE placed = n
    <3>0. Lead(M, U)
      <4> SUFFICES ASSUME NEW h \in U, NEW k \in Keys(M), GroupOrder(k, h) PROVE k \in U
          BY DEF Lead
      <4>1. k \in T /\ h \in Keys(M) /\ GroupOrder(h, g)
            BY <1>5, <1>16 DEF Lead
      <4>2. k # g
            BY <1>5, <4>1, KeysAre
      <4> QED BY <4>1, <4>2
    <3>1. \A m \in G : f.count[m] = 0
      <4>1. SumOver(f.count, G) = 0 /\ \A m \in G : f.count[m] \in Nat
            BY <1>7, <1>11, <2>1
      <4>2. \A m \in G : f.count[m] <= SumOver(f.count, G)
            BY <1>6, <4>1, TotalBounds
      <4> QED BY <4>1, <4>2
    <3>2. \A m \in M : w.count[m] = v.count[m]
          BY <1>6, <1>9, <3>1
    <3>3. PICK h \in U :
            /\ \A m \in M : GroupOrder(h, Group(m)) => v.count[m] = 0
            /\ \A c \in [M -> Nat] : InTime(c, M, D) =>
                 \A m \in M : GroupOrder(Group(m), h) => c[m] <= v.count[m]
          BY <1>1, <1>16, <2>1, <3>0
    <3> QED BY <3>2, <3>3
  <2>2. CASE placed # n
    <3>0. placed < n
          BY <1>1, <1>3, <2>2
    <3>1. ASSUME NEW m \in M, GroupOrder(g, Group(m)) PROVE w.count[m] = 0
      <4>1. Group(m) \notin T
            BY <1>5, <2>0, <3>1, KeysAre
      <4> QED BY <1>14, <4>1
    <3>2. ASSUME NEW c \in [M -> Nat], InTime(c, M, D), NEW m \in M, GroupOrder(Group(m), g)
          PROVE  c[m] <= w.count[m]
      <4>1. Group(m) \in T /\ Group(m) # g
            BY <1>5, <1>16, <2>0, <3>2, KeysAre DEF Lead
      <4>2. m \in O /\ Group(m) \in U
            BY <1>6, <4>1
      <4> QED BY <1>1, <1>9, <3>0, <3>2, <4>2
    <3> QED BY <1>5, <3>1, <3>2
  <2> QED BY <2>1, <2>2
<1>17. w.makespan = IF v.makespan = Nothing THEN f.makespan
                    ELSE IF f.makespan = Nothing THEN v.makespan
                    ELSE IF v.makespan >= f.makespan THEN v.makespan ELSE f.makespan
  <2>1. v.makespan # Nothing /\ f.makespan # Nothing => v.makespan \in Int /\ f.makespan \in Int
        BY <1>2, <1>7
  <2> QED BY <1>8, <2>1, MaxOfTwo DEF Later
\* Where the group's end is the end of all.
<1>18. ASSUME f.makespan # Nothing, w.makespan = f.makespan
       PROVE  \E h \in T : \A c \in [M -> Nat] :
                SumOver(c, OfGroup(M, h)) = SumOver(w.count, OfGroup(M, h)) =>
                \E m \in M : w.makespan <= FinishTime(c, m)
  <2>1. SumOver(w.count, G) = SumOver(f.count, G)
        BY <1>6, <1>9, TotalAgree
  <2>2. ASSUME NEW c \in [M -> Nat], SumOver(c, G) = SumOver(w.count, G)
        PROVE  \E m \in M : w.makespan <= FinishTime(c, m)
    <3> DEFINE p == [m \in G |-> c[m]]
    <3>1. p \in [G -> Nat] /\ SumOver(p, G) = SumOver(c, G) /\ \A m \in G : FinishTime(p, m) = FinishTime(c, m)
          BY <1>g
    <3> HIDE DEF p
    <3>2. PICK m \in G : f.makespan <= FinishTime(p, m)
          BY <1>7, <1>18, <2>1, <2>2, <3>1
    <3> QED BY <1>6, <1>18, <3>1, <3>2
  <2> QED BY <1>5, <2>2 DEF G
\* And where it is not.
<1>19. ASSUME v.makespan # Nothing, w.makespan = v.makespan
       PROVE  \E h \in T : \A c \in [M -> Nat] :
                SumOver(c, OfGroup(M, h)) = SumOver(w.count, OfGroup(M, h)) =>
                \E m \in M : w.makespan <= FinishTime(c, m)
  <2>1. PICK h \in U : \A c \in [M -> Nat] :
           SumOver(c, OfGroup(M, h)) = SumOver(v.count, OfGroup(M, h)) =>
           \E m \in M : v.makespan <= FinishTime(c, m)
        BY <1>1, <1>19
  <2>2. OfGroup(M, h) \in SUBSET O /\ IsFiniteSet(OfGroup(M, h))
    <3>1. OfGroup(M, h) \in SUBSET O
          BY <1>6 DEF OfGroup
    <3> QED BY <1>6, <3>1, FS_Subset
  <2>3. SumOver(w.count, OfGroup(M, h)) = SumOver(v.count, OfGroup(M, h))
    <3>1. \A m \in OfGroup(M, h) : w.count[m] = v.count[m]
          BY <1>9, <2>2
    <3> QED BY <2>2, <3>1, TotalAgree
  <2> QED BY <1>19, <2>1, <2>3
<1>20. \A m \in M : /\ FinishTime(w.count, m) \in Nat
                    /\ w.count[m] = 0 => FinishTime(w.count, m) = 0
       BY <1>9, FinishIs
<1>21. \/ w.makespan = Nothing /\ sum = 0
       \/ /\ w.makespan \in Nat /\ sum # 0 /\ (D = Nothing \/ w.makespan <= D)
          /\ \A m \in M : FinishTime(w.count, m) <= w.makespan
          /\ \E h \in T : \A c \in [M -> Nat] :
               SumOver(c, OfGroup(M, h)) = SumOver(w.count, OfGroup(M, h)) =>
               \E m \in M : w.makespan <= FinishTime(c, m)
  <2>1. f.makespan = Nothing => SumOver(f.count, G) = 0 /\ \A m \in G : w.count[m] = 0
    <3> SUFFICES ASSUME f.makespan = Nothing
                 PROVE  SumOver(f.count, G) = 0 /\ \A m \in G : w.count[m] = 0
        OBVIOUS
    <3>1. \A m \in G : f.count[m] = 0
          BY <1>7
    <3> QED BY <1>6, <1>9, <3>1, TotalZero
  <2>2. v.makespan = Nothing => placed = 0 /\ \A m \in O : w.count[m] = 0
    <3> SUFFICES ASSUME v.makespan = Nothing PROVE placed = 0 /\ \A m \in O : w.count[m] = 0
        OBVIOUS
    <3>1. placed = 0
          BY <1>1
    <3>2. \A m \in O : v.count[m] = 0
          BY <1>3, <3>1
    <3> QED BY <1>9, <3>1, <3>2
  <2>3. CASE v.makespan = Nothing /\ f.makespan = Nothing
        BY <1>11, <1>17, <2>1, <2>2, <2>3
  <2>4. CASE v.makespan = Nothing /\ f.makespan # Nothing
    <3>1. w.makespan = f.makespan /\ f.makespan \in Nat /\ SumOver(f.count, G) # 0
          /\ (D = Nothing \/ w.makespan <= D)
          BY <1>7, <1>17, <2>4
    <3>2. ASSUME NEW m \in M PROVE FinishTime(w.count, m) <= w.makespan
      <4>1. CASE m \in G
            BY <1>7, <1>12, <2>4, <3>1, <4>1
      <4>2. CASE m \notin G
        <5>1. FinishTime(w.count, m) = 0
              BY <1>20, <2>2, <2>4, <4>2
        <5> QED BY <3>1, <5>1
      <4> QED BY <4>1, <4>2
    <3> QED BY <1>11, <1>18, <2>4, <3>1, <3>2
  <2>5. CASE v.makespan # Nothing /\ f.makespan = Nothing
    <3>1. w.makespan = v.makespan /\ v.makespan \in Nat /\ placed # 0
          /\ (D = Nothing \/ w.makespan <= D)
          BY <1>1, <1>17, <2>5
    <3>2. ASSUME NEW m \in M PROVE FinishTime(w.count, m) <= w.makespan
      <4>1. CASE m \notin G
            BY <1>1, <1>12, <2>5, <3>1, <4>1
      <4>2. CASE m \in G
        <5>1. FinishTime(w.count, m) = 0
              BY <1>20, <2>1, <2>5, <4>2
        <5> QED BY <3>1, <5>1
      <4> QED BY <4>1, <4>2
    <3> QED BY <1>11, <1>19, <2>5, <3>1, <3>2
  <2>6. CASE v.makespan # Nothing /\ f.makespan # Nothing
    <3>1. /\ v.makespan \in Nat /\ f.makespan \in Nat /\ placed # 0
          /\ (D = Nothing \/ v.makespan <= D) /\ (D = Nothing \/ f.makespan <= D)
          /\ \A m \in M : FinishTime(v.count, m) <= v.makespan
          /\ \A m \in G : FinishTime(f.count, m) <= f.makespan
          BY <1>1, <1>7, <2>6
    <3>2. /\ w.makespan \in Nat /\ v.makespan <= w.makespan /\ f.makespan <= w.makespan
          /\ (w.makespan = v.makespan \/ w.makespan = f.makespan)
          BY <1>17, <2>6, <3>1
    <3>3. ASSUME NEW m \in M PROVE FinishTime(w.count, m) <= w.makespan
      <4>0. FinishTime(w.count, m) \in Nat
            BY <1>20
      <4>1. CASE m \in G
        <5>1. FinishTime(w.count, m) <= f.makespan
              BY <1>12, <3>1, <4>1
        <5> QED BY <3>1, <3>2, <4>0, <5>1
      <4>2. CASE m \notin G
        <5>1. FinishTime(w.count, m) <= v.makespan
              BY <1>12, <3>1, <4>2
        <5> QED BY <3>1, <3>2, <4>0, <5>1
      <4> QED BY <4>1, <4>2
    <3>4. D = Nothing \/ w.makespan <= D
          BY <3>1, <3>2
    <3>5. \E h \in T : \A c \in [M -> Nat] :
               SumOver(c, OfGroup(M, h)) = SumOver(w.count, OfGroup(M, h)) =>
               \E m \in M : w.makespan <= FinishTime(c, m)
          BY <1>18, <1>19, <2>6, <3>2
    <3> QED BY <1>11, <3>1, <3>2, <3>3, <3>4, <3>5
  <2> QED BY <2>3, <2>4, <2>5, <2>6
<1>22. w \in Takings(M)
  <2>1. w.makespan \in Nat \cup {Nothing}
        BY <1>21
  <2> QED BY <1>8, <1>9, <2>1 DEF Takings
<1> QED BY <1>11, <1>13, <1>14, <1>15, <1>16, <1>21, <1>22 DEF Along, sum

\* What a step of the fold is worked out from.
NextTaking(M, n, D, v, T) ==
  Taken(v, Fill(OfGroup(M, LastGroup(T)), n - Placed(v.count), D))

\* What the fold of the groups keeps.
LEMMA TakenAlong ==
  ASSUME NEW M, Team(M), NEW n \in Nat, NEW D \in Nat \cup {Nothing}, Nothing \notin Nat,
         NEW h, h[{}] = [count |-> [m \in M |-> 0], makespan |-> Nothing],
         \A T \in SUBSET Keys(M) : (T # {} /\ h[T \ {LastGroup(T)}] \in Takings(M)) =>
           h[T] = NextTaking(M, n, D, h[T \ {LastGroup(T)}], T)
  PROVE  \A T \in SUBSET Keys(M) : Along(M, n, D, T, h[T])
<1> DEFINE B == {T \in SUBSET Keys(M) : ~Along(M, n, D, T, h[T])}
<1> SUFFICES ASSUME B # {} PROVE FALSE
    OBVIOUS
<1>0. B \in SUBSET (SUBSET Keys(M)) /\ IsFiniteSet(Keys(M))
      BY KeysAre
<1>1. PICK T \in B : \A U \in SUBSET T : U # T => U \notin B
  <2> HIDE DEF B
  <2> QED BY <1>0, SmallestSet
<1>2. CASE T = {}
      BY <1>2, AlongStart
<1>3. CASE T # {}
  <2> DEFINE g == LastGroup(T)
             U == T \ {g}
  <2>1. g \in T /\ T \in SUBSET Keys(M)
        BY <1>3, KeysAre
  <2>2. U \in SUBSET T /\ U # T /\ U \in SUBSET Keys(M)
        BY <2>1
  <2>3. Along(M, n, D, U, h[U])
        BY <1>1, <2>2
  <2>4. h[U] \in Takings(M)
        BY <2>3 DEF Along
  <2>5. h[T] = NextTaking(M, n, D, h[U], T)
        BY <1>3, <2>1, <2>4
  <2>6. h[T] = Taken(h[U], Fill(OfGroup(M, g), n - Placed(h[U].count), D))
        BY <2>5 DEF NextTaking
  <2> HIDE DEF B
  <2>7. Along(M, n, D, T, h[T])
        BY <1>3, <2>1, <2>3, <2>6, AlongStep
  <2> QED BY <2>7 DEF B
<1> QED BY <1>2, <1>3

\* Every group is filled, the cheapest first.
LEMMA TakeGroupsIs ==
  ASSUME NEW M, Team(M), NEW n \in Nat, NEW D \in Nat \cup {Nothing}, Nothing \notin Nat
  PROVE  Along(M, n, D, Keys(M), TakeGroups(M, n, D))
<1> DEFINE base == [count |-> [m \in M |-> 0], makespan |-> Nothing]
           K == Keys(M)
           W(k) == k = [T \in SUBSET K |->
                          IF T = {} THEN base
                          ELSE NextTaking(M, n, D, k[T \ {LastGroup(T)}], T)]
<1>1. TakeGroups(M, n, D) = (CHOOSE k : W(k))[K]
      BY DEF TakeGroups, MapThenFoldSet, Keys, OfGroup, NextTaking
<1>2. IsFiniteSet(K) /\ \A T \in SUBSET K : T # {} => LastGroup(T) \in T
      BY KeysAre
<1> DEFINE pick == [T \in SUBSET K |-> LastGroup(T)]
           fill(g, v) == Taken(v, Fill(OfGroup(M, g), n - Placed(v.count), D))
           step == [p \in K \X Takings(M) |-> fill(p[1], p[2])]
<1>3. \A T \in SUBSET K : T # {} => pick[T] \in T /\ pick[T] = LastGroup(T)
      BY <1>2
<1>4. \A g \in K, v \in Takings(M) : step[<<g, v>>] = fill(g, v)
      OBVIOUS
<1>5. \A T \in SUBSET K : \A v : NextTaking(M, n, D, v, T) = fill(LastGroup(T), v)
      BY DEF NextTaking
<1> HIDE DEF pick, step, fill, base, K
<1>6. PICK h : FoldsTo(pick, step, base, K, h)
      BY <1>2, <1>3, FoldExists
<1>7. h[{}] = base
      BY <1>6, FoldEmpty
<1>8. ASSUME NEW T \in SUBSET K, T # {}, h[T \ {LastGroup(T)}] \in Takings(M)
      PROVE  h[T] = NextTaking(M, n, D, h[T \ {LastGroup(T)}], T)
  <2>1. h[T] = step[<<pick[T], h[T \ {pick[T]}]>>]
        BY <1>6, <1>8, FoldAt
  <2>2. pick[T] \in K /\ pick[T] = LastGroup(T)
        BY <1>3, <1>8
  <2> QED BY <1>4, <1>5, <1>8, <2>1, <2>2
<1>9. \A T \in SUBSET K : Along(M, n, D, T, h[T])
      BY <1>7, <1>8, TakenAlong DEF K, base
<1>10. \A T \in SUBSET K : T # {} => h[T] = NextTaking(M, n, D, h[T \ {LastGroup(T)}], T)
  <2> SUFFICES ASSUME NEW T \in SUBSET K, T # {}
               PROVE  h[T] = NextTaking(M, n, D, h[T \ {LastGroup(T)}], T)
      OBVIOUS
  <2>1. T \ {LastGroup(T)} \in SUBSET K
        OBVIOUS
  <2>2. h[T \ {LastGroup(T)}] \in Takings(M)
        BY <1>9, <2>1 DEF Along
  <2> QED BY <1>8, <2>2
<1>11. h = [T \in SUBSET K |-> h[T]]
      BY <1>6 DEF FoldsTo
<1>12. W(h)
  <2>1. \A T \in SUBSET K : h[T] = IF T = {} THEN base
                                   ELSE NextTaking(M, n, D, h[T \ {LastGroup(T)}], T)
        BY <1>7, <1>10
  <2> QED BY <1>11, <2>1
<1> DEFINE k == CHOOSE k : W(k)
<1>13. W(k)
  <2> HIDE DEF W
  <2> QED BY <1>12
<1> HIDE DEF k
<1>14. k[{}] = base
      BY <1>13
<1>15. \A T \in SUBSET K : T # {} => k[T] = NextTaking(M, n, D, k[T \ {LastGroup(T)}], T)
      BY <1>13
<1>16. \A T \in SUBSET K : Along(M, n, D, T, k[T])
      BY <1>14, <1>15, TakenAlong DEF K, base
<1>17. Along(M, n, D, K, k[K])
      BY <1>16
<1> HIDE DEF W
<1> QED BY <1>1, <1>17 DEF k, K

\* A share in the terms of its sum.
LEMMA SharesAre ==
  ASSUME NEW M, Team(M), NEW n \in Nat, NEW D, NEW c
  PROVE  c \in Shares(M, n, D) <=> c \in [M -> Nat] /\ SumOver(c, M) <= n /\ InTime(c, M, D)
<1>1. ASSUME c \in [M -> Nat] PROVE Placed(c) = SumOver(c, M)
  <2>1. DOMAIN c = M
        BY <1>1
  <2> QED BY <2>1, PlacedIs
<1>2. ASSUME c \in Shares(M, n, D)
      PROVE  c \in [M -> Nat] /\ SumOver(c, M) <= n /\ InTime(c, M, D)
  <2>1. c \in [M -> 0..n] /\ Placed(c) <= n /\ InTime(c, M, D)
        BY <1>2 DEF Shares
  <2>2. c \in [M -> Nat]
        BY <2>1
  <2> QED BY <1>1, <2>1, <2>2
<1>3. ASSUME c \in [M -> Nat], SumOver(c, M) <= n, InTime(c, M, D)
      PROVE  c \in Shares(M, n, D)
  <2>1. IsFiniteSet(M) /\ \A m \in M : c[m] \in Nat
        BY <1>3 DEF Team
  <2>2. SumOver(c, M) \in Nat /\ \A m \in M : c[m] <= SumOver(c, M)
        BY <2>1, TotalBounds
  <2>3. \A m \in M : c[m] \in 0..n
        BY <1>3, <2>1, <2>2
  <2>4. c \in [M -> 0..n]
        BY <1>3, <2>3
  <2> QED BY <1>1, <1>3, <2>4 DEF Shares
<1> QED BY <1>2, <1>3

\* The fullest shares are those that place as much as one that none exceeds.
LEMMA FullestAre ==
  ASSUME NEW M, Team(M), NEW n \in Nat, NEW D, NEW b, b \in Shares(M, n, D),
         \A c \in Shares(M, n, D) : SumOver(c, M) <= SumOver(b, M)
  PROVE  /\ b \in Fullest(Shares(M, n, D))
         /\ \A c \in Fullest(Shares(M, n, D)) :
              c \in Shares(M, n, D) /\ SumOver(c, M) = SumOver(b, M)
<1> DEFINE S == Shares(M, n, D)
           P == {Placed(c) : c \in S}
<1>1. \A c \in S : /\ c \in [M -> Nat] /\ SumOver(c, M) <= n /\ DOMAIN c = M
                   /\ Placed(c) = SumOver(c, M) /\ SumOver(c, M) \in Nat
  <2> SUFFICES ASSUME NEW c \in S
               PROVE  /\ c \in [M -> Nat] /\ SumOver(c, M) <= n /\ DOMAIN c = M
                      /\ Placed(c) = SumOver(c, M) /\ SumOver(c, M) \in Nat
      OBVIOUS
  <2>1. c \in [M -> Nat] /\ SumOver(c, M) <= n /\ DOMAIN c = M
        BY SharesAre
  <2>2. IsFiniteSet(M) /\ \A m \in M : c[m] \in Nat
        BY <2>1 DEF Team
  <2> QED BY <2>1, <2>2, PlacedIs, TotalBounds
<1> HIDE DEF S
<1>2. P \subseteq 0..n /\ P # {} /\ P \subseteq Int
      BY <1>1 DEF S
<1>3. IsFiniteSet(P)
  <2>1. IsFiniteSet(0..n)
        BY FS_Interval
  <2> QED BY <1>2, <2>1, FS_Subset
<1>4. Max(P) \in P /\ \A x \in P : x <= Max(P)
  <2> HIDE DEF P
  <2> QED BY <1>2, <1>3, MaxIs
<1>5. PICK a \in S : Max(P) = Placed(a)
      BY <1>4
<1>6. Placed(a) <= Placed(b) /\ Placed(b) <= Placed(a) /\ Placed(a) \in Nat /\ Placed(b) \in Nat
  <2>1. b \in S /\ SumOver(a, M) <= SumOver(b, M)
        BY DEF S
  <2>2. Placed(b) <= Max(P)
        BY <1>4, <2>1
  <2> QED BY <1>1, <1>5, <2>1, <2>2
<1>7. Fullest(S) = {c \in S : Placed(c) = Placed(b)}
      BY <1>5, <1>6 DEF Fullest
<1> QED BY <1>1, <1>7 DEF S

\* What each machine's tasks cost.
Dues(c, M) == [m \in M |-> m.unit * c[m]]
LEMMA PriceIs ==
  ASSUME NEW M, Team(M), NEW c \in [M -> Nat]
  PROVE  /\ Price(c, M) = SumOver(Dues(c, M), M) /\ Price(c, M) \in Nat
         /\ \A m \in M : Dues(c, M)[m] = m.unit * c[m] /\ Dues(c, M)[m] \in Nat
<1> DEFINE f == Dues(c, M)
<1>1. DOMAIN f = M
      BY DEF Dues
<1>2. \A m \in M : f[m] = m.unit * c[m]
      BY DEF Dues
<1>3. \A m \in M : m.unit \in Nat /\ c[m] \in Nat
      BY DEF Team
<1>4. \A x, y \in Nat : x * y \in Nat
      OBVIOUS
<1>5. \A m \in M : f[m] \in Nat
      BY <1>2, <1>3, <1>4
<1>6. Price(c, M) = SumFunction(f)
      BY DEF Price, Dues
<1> HIDE DEF f
<1>7. SumFunction(f) = SumOver(f, M)
      BY <1>1, SumFunctionIsTotal DEF SumFunction
<1>8. IsFiniteSet(M)
      BY DEF Team
<1>9. SumOver(f, M) \in Nat
      BY <1>5, <1>8, TotalBounds
<1> QED BY <1>2, <1>5, <1>6, <1>7, <1>9 DEF f

\* Between a price x and the price u everything up to is taken, a task moved costs more.
LEMMA Exchange ==
  ASSUME NEW x \in Nat, NEW u \in Nat, NEW b \in Nat, NEW c \in Nat,
         x > u => b = 0, x < u => c <= b
  PROVE  /\ x * b + u * c <= x * c + u * b
         /\ x * b + u * c = x * c + u * b => x = u \/ b = c
<1>1. CASE x = u
  <2>1. u * b \in Nat /\ u * c \in Nat
        OBVIOUS
  <2> QED BY <1>1, <2>1
<1>2. CASE x > u
  <2>1. PICK d \in Nat : x = u + d /\ d > 0
    <3>1. x - u \in Nat /\ x = u + (x - u) /\ x - u > 0
          BY <1>2
    <3> QED BY <3>1
  <2>2. b = 0 /\ x * b = 0 /\ u * b = 0
        BY <1>2
  <2>3. x * c = u * c + d * c /\ d * c \in Nat /\ u * c \in Nat
        BY <2>1
  <2>4. d * c = 0 => c = 0
    <3> SUFFICES ASSUME d * c = 0, c # 0 PROVE FALSE
        OBVIOUS
    <3>1. PICK e \in Nat : d = e + 1
      <4>1. d - 1 \in Nat /\ d = (d - 1) + 1
            BY <2>1
      <4> QED BY <4>1
    <3>2. d * c = e * c + c /\ e * c \in Nat
          BY <3>1
    <3> QED BY <3>2
  <2> QED BY <2>2, <2>3, <2>4
<1>3. CASE x < u
  <2>1. PICK d \in Nat : u = x + d /\ d > 0
    <3>1. u - x \in Nat /\ u = x + (u - x) /\ u - x > 0
          BY <1>3
    <3> QED BY <3>1
  <2>2. PICK e \in Nat : b = c + e
    <3>1. b - c \in Nat /\ b = c + (b - c)
          BY <1>3
    <3> QED BY <3>1
  <2>3. /\ x * b = x * c + x * e /\ u * c = x * c + d * c
        /\ u * b = x * c + x * e + d * c + d * e
    <3>1. u * b = (x + d) * (c + e)
          BY <2>1, <2>2
    <3>2. (x + d) * (c + e) = x * c + x * e + d * c + d * e
          OBVIOUS
    <3>3. x * b = x * (c + e) /\ u * c = (x + d) * c
          BY <2>1, <2>2
    <3>4. x * (c + e) = x * c + x * e /\ (x + d) * c = x * c + d * c
          OBVIOUS
    <3> QED BY <3>1, <3>2, <3>3, <3>4
  <2>4. x * c \in Nat /\ x * e \in Nat /\ d * c \in Nat /\ d * e \in Nat
        OBVIOUS
  <2>5. d * e = 0 => e = 0
    <3> SUFFICES ASSUME d * e = 0, e # 0 PROVE FALSE
        OBVIOUS
    <3>1. PICK k \in Nat : d = k + 1
      <4>1. d - 1 \in Nat /\ d = (d - 1) + 1
            BY <2>1
      <4> QED BY <4>1
    <3>2. d * e = k * e + e /\ k * e \in Nat
          BY <3>1
    <3> QED BY <3>2
  <2> QED BY <2>2, <2>3, <2>4, <2>5
<1> QED BY <1>1, <1>2, <1>3

\* Of two shares of as many tasks the one that takes everything below a price and nothing
\* above it costs no more, and no less only where they differ at that price alone.
LEMMA ExchangeAll ==
  ASSUME NEW M, Team(M), NEW u \in Nat, NEW b \in [M -> Nat], NEW c \in [M -> Nat],
         \A m \in M : m.unit > u => b[m] = 0, \A m \in M : m.unit < u => c[m] <= b[m],
         SumOver(b, M) = SumOver(c, M)
  PROVE  /\ Price(b, M) <= Price(c, M)
         /\ Price(b, M) = Price(c, M) => \A m \in M : m.unit = u \/ b[m] = c[m]
<1> DEFINE B == Dues(b, M)
           C == Dues(c, M)
           ub == [m \in M |-> u * b[m]]
           uc == [m \in M |-> u * c[m]]
           f == [m \in M |-> B[m] + uc[m]]
           g == [m \in M |-> C[m] + ub[m]]
<1>1. /\ IsFiniteSet(M) /\ \A m \in M : m.unit \in Nat /\ b[m] \in Nat /\ c[m] \in Nat
      BY DEF Team
<1>2. /\ Price(b, M) = SumOver(B, M) /\ Price(c, M) = SumOver(C, M)
      /\ Price(b, M) \in Nat /\ Price(c, M) \in Nat
      /\ \A m \in M : B[m] = m.unit * b[m] /\ C[m] = m.unit * c[m] /\ B[m] \in Nat /\ C[m] \in Nat
      BY PriceIs
<1>0. \A x, y \in Nat : x * y \in Nat
      OBVIOUS
<1>3. \A m \in M : ub[m] = u * b[m] /\ uc[m] = u * c[m] /\ ub[m] \in Nat /\ uc[m] \in Nat
      BY <1>0, <1>1
<1> HIDE DEF B, C, ub, uc
<1>4. \A m \in M : /\ f[m] = B[m] + uc[m] /\ g[m] = C[m] + ub[m]
                   /\ f[m] \in Nat /\ g[m] \in Nat
      BY <1>2, <1>3
<1> HIDE DEF f, g
<1>5. SumOver(ub, M) = u * SumOver(b, M) /\ SumOver(uc, M) = u * SumOver(c, M)
  <2>1. (\A m \in M : b[m] \in Nat /\ ub[m] = u * b[m]) /\ \A m \in M : c[m] \in Nat /\ uc[m] = u * c[m]
        BY <1>1, <1>3
  <2> QED BY <1>1, <2>1, TotalScale
<1>6. SumOver(f, M) = SumOver(B, M) + SumOver(uc, M) /\ SumOver(g, M) = SumOver(C, M) + SumOver(ub, M)
  <2>1. /\ \A m \in M : B[m] \in Int /\ uc[m] \in Int /\ f[m] = B[m] + uc[m]
        /\ \A m \in M : C[m] \in Int /\ ub[m] \in Int /\ g[m] = C[m] + ub[m]
        BY <1>2, <1>3, <1>4
  <2> QED BY <1>1, <2>1, TotalPlus
<1>7. \A m \in M : f[m] <= g[m] /\ (f[m] = g[m] => m.unit = u \/ b[m] = c[m])
  <2> SUFFICES ASSUME NEW m \in M
               PROVE  f[m] <= g[m] /\ (f[m] = g[m] => m.unit = u \/ b[m] = c[m])
      OBVIOUS
  <2> DEFINE x == m.unit
             p == b[m]
             q == c[m]
  <2>1. x \in Nat /\ p \in Nat /\ q \in Nat /\ (x > u => p = 0) /\ (x < u => q <= p)
        BY <1>1
  <2>2. f[m] = x * p + u * q /\ g[m] = x * q + u * p
        BY <1>2, <1>3, <1>4
  <2> HIDE DEF x, p, q
  <2>3. /\ x * p + u * q <= x * q + u * p
        /\ x * p + u * q = x * q + u * p => x = u \/ p = q
        BY <2>1, Exchange
  <2> QED BY <2>2, <2>3 DEF x, p, q
<1>8. SumOver(f, M) <= SumOver(g, M)
      BY <1>1, <1>4, <1>7, TotalMonotone
<1>9. SumOver(ub, M) = SumOver(uc, M) /\ SumOver(ub, M) \in Nat
  <2>1. \A m \in M : ub[m] \in Nat
        BY <1>3
  <2> QED BY <1>1, <1>5, <2>1, TotalBounds
<1>10. Price(b, M) <= Price(c, M)
       BY <1>2, <1>6, <1>8, <1>9
<1>11. ASSUME Price(b, M) = Price(c, M) PROVE \A m \in M : m.unit = u \/ b[m] = c[m]
  <2>1. SumOver(f, M) = SumOver(g, M)
        BY <1>2, <1>6, <1>9, <1>11
  <2>2. \A m \in M : f[m] = g[m]
        BY <1>1, <1>4, <1>7, <2>1, TotalSqueeze
  <2> QED BY <1>7, <2>2
<1> QED BY <1>10, <1>11

\* What leaves a task over only where no more could be placed is as full as can be.
LEMMA FullIs ==
  ASSUME NEW M, Team(M), NEW n \in Nat, NEW D, NEW b \in [M -> Nat],
         SumOver(b, M) <= n, InTime(b, M, D),
         SumOver(b, M) < n =>
           \A c \in [M -> Nat] : InTime(c, M, D) => \A m \in M : c[m] <= b[m]
  PROVE  /\ b \in Shares(M, n, D)
         /\ \A c \in Shares(M, n, D) :
              /\ SumOver(c, M) <= SumOver(b, M)
              /\ SumOver(b, M) < n /\ SumOver(c, M) = SumOver(b, M) => c = b
         /\ D = Nothing /\ M # {} => SumOver(b, M) = n
<1>1. IsFiniteSet(M) /\ \A m \in M : b[m] \in Nat
      BY DEF Team
<1>2. SumOver(b, M) \in Nat /\ \A m \in M : b[m] <= SumOver(b, M)
      BY <1>1, TotalBounds
<1>3. ASSUME NEW c \in Shares(M, n, D)
      PROVE  /\ SumOver(c, M) <= SumOver(b, M)
             /\ SumOver(b, M) < n /\ SumOver(c, M) = SumOver(b, M) => c = b
  <2>1. c \in [M -> Nat] /\ SumOver(c, M) <= n /\ InTime(c, M, D)
        BY SharesAre
  <2>2. CASE SumOver(b, M) = n
        BY <2>1, <2>2
  <2>3. CASE SumOver(b, M) < n
    <3>1. \A m \in M : c[m] \in Nat /\ b[m] \in Nat /\ c[m] <= b[m]
          BY <1>1, <2>1, <2>3
    <3>2. SumOver(c, M) <= SumOver(b, M)
          BY <1>1, <3>1, TotalMonotone
    <3>3. SumOver(c, M) = SumOver(b, M) => \A m \in M : c[m] = b[m]
          BY <1>1, <3>1, TotalSqueeze
    <3>4. (\A m \in M : c[m] = b[m]) => c = b
          BY <2>1
    <3> QED BY <3>2, <3>3, <3>4
  <2> QED BY <1>2, <2>2, <2>3
<1>4. ASSUME D = Nothing, M # {} PROVE SumOver(b, M) = n
  <2> SUFFICES ASSUME SumOver(b, M) < n PROVE FALSE
      BY <1>2
  <2>1. PICK m \in M : TRUE
        BY <1>4
  <2> DEFINE c == [x \in M |-> n]
  <2>2. c \in [M -> Nat] /\ InTime(c, M, D) /\ c[m] = n
        BY <1>4 DEF InTime
  <2> HIDE DEF c
  <2>3. n <= b[m]
        BY <2>2
  <2> QED BY <1>1, <1>2, <2>3
<1> QED BY <1>3, <1>4, SharesAre

\* A cost keeps its order when it is rounded, and nothing costs nothing.
LEMMA RoundedRises ==
  ASSUME NEW a \in Nat, NEW b \in Nat, a <= b
  PROVE  Rounded(a) \in Nat /\ Rounded(b) \in Nat /\ Rounded(a) <= Rounded(b) /\ Rounded(0) = 0
<1>1. PICK d \in Nat \ {0} : d = 2 * Grain
  <2>1. Grain \in Nat \ {0}
        BY RouterAssumption
  <2>2. 2 * Grain \in Nat \ {0}
        BY <2>1
  <2> QED BY <2>2
<1>2. PICK x \in Nat, y \in Nat, z \in Nat :
        x = 2 * a + Grain /\ y = 2 * b + Grain /\ z = 2 * 0 + Grain /\ x <= y /\ z < d
  <2>1. Grain \in Nat \ {0}
        BY RouterAssumption
  <2> QED BY <1>1, <2>1
<1>3. Rounded(a) = x \div d /\ Rounded(b) = y \div d /\ Rounded(0) = z \div d
      BY <1>1, <1>2 DEF Rounded
<1> DEFINE v == x \div d
           w == y \div d
           o == z \div d
<1>4. /\ v \in Nat /\ v * d <= x /\ x < v * d + d
      /\ w \in Nat /\ w * d <= y /\ y < w * d + d
      /\ o \in Nat /\ o * d <= z /\ z < o * d + d
      BY DivBounds
<1> HIDE DEF v, w, o
<1>5. v <= w
  <2> SUFFICES ASSUME ~(v <= w) PROVE FALSE
      OBVIOUS
  <2>1. PICK e \in Nat : v = w + 1 + e
    <3>1. v - w - 1 \in Nat /\ v = w + 1 + (v - w - 1)
          BY <1>4
    <3> QED BY <3>1
  <2>2. v * d = w * d + d + e * d /\ w * d \in Nat /\ e * d \in Nat
        BY <1>4, <2>1
  <2> QED BY <1>2, <1>4, <2>2
<1>6. o = 0
  <2> SUFFICES ASSUME o # 0 PROVE FALSE
      OBVIOUS
  <2>1. PICK e \in Nat : o = 1 + e
    <3>1. o - 1 \in Nat /\ o = 1 + (o - 1)
          BY <1>4
    <3> QED BY <3>1
  <2>2. o * d = d + e * d /\ e * d \in Nat
        BY <2>1
  <2> QED BY <1>2, <1>4, <2>2
<1> QED BY <1>3, <1>4, <1>5, <1>6 DEF v, w, o

\* What every plan of n tasks says of itself.
PlannedWell(p, M, n, D) ==
  LET placed == SumOver(p.count, M)
  IN /\ p.count \in Shares(M, n, D) /\ \A c \in Shares(M, n, D) : SumOver(c, M) <= placed
     /\ p.unplaced \in Nat /\ p.unplaced = n - placed /\ placed \in Nat
     /\ p.cost = Rounded(Price(p.count, M)) /\ p.cost \in Nat
     /\ D = Nothing => p.unplaced = 0
     /\ \/ p.makespan = Nothing /\ placed = 0
        \/ /\ p.makespan \in Nat /\ placed # 0 /\ (D = Nothing \/ p.makespan <= D)
           /\ \A m \in M : FinishTime(p.count, m) <= p.makespan

\* A plan put together of a fill that is as full as can be.
LEMMA AssembledIs ==
  ASSUME NEW M, Team(M), M # {}, NEW n \in Nat, NEW D \in Nat \cup {Nothing}, NEW name, NEW v,
         v.count \in [M -> Nat], SumOver(v.count, M) <= n, InTime(v.count, M, D),
         SumOver(v.count, M) < n =>
           \A c \in [M -> Nat] : InTime(c, M, D) => \A m \in M : c[m] <= v.count[m],
         \/ v.makespan = Nothing /\ SumOver(v.count, M) = 0
         \/ /\ v.makespan \in Nat /\ SumOver(v.count, M) # 0 /\ (D = Nothing \/ v.makespan <= D)
            /\ \A m \in M : FinishTime(v.count, m) <= v.makespan,
         NEW p, p = Assemble(name, M, v, n)
  PROVE  /\ p.name = name /\ p.count = v.count /\ p.makespan = v.makespan
         /\ PlannedWell(p, M, n, D)
<1>1. /\ p.name = name /\ p.count = v.count /\ p.makespan = v.makespan
      /\ p.cost = Rounded(Price(v.count, M)) /\ p.unplaced = n - Placed(v.count)
      BY DEF Assemble
<1>2. /\ v.count \in Shares(M, n, D)
      /\ \A c \in Shares(M, n, D) : SumOver(c, M) <= SumOver(v.count, M)
      /\ D = Nothing => SumOver(v.count, M) = n
      BY FullIs
<1>3. Rounded(Price(v.count, M)) \in Nat
  <2>1. Price(v.count, M) \in Nat /\ Price(v.count, M) <= Price(v.count, M)
        BY PriceIs
  <2> QED BY <2>1, RoundedRises
<1>4. SumOver(v.count, M) \in Nat
  <2>1. IsFiniteSet(M) /\ \A m \in M : v.count[m] \in Nat
        BY DEF Team
  <2> QED BY <2>1, TotalBounds
<1>5. Placed(v.count) = SumOver(v.count, M)
  <2>1. DOMAIN v.count = M
        OBVIOUS
  <2> QED BY <2>1, PlacedIs
<1>6. p.unplaced \in Nat /\ p.unplaced = n - SumOver(v.count, M) /\ (D = Nothing => p.unplaced = 0)
      BY <1>1, <1>2, <1>4, <1>5
<1> QED BY <1>1, <1>2, <1>3, <1>4, <1>6 DEF PlannedWell

\* The plan that fills the cheapest groups first: none of the fullest costs less, and of
\* those that cost as much, where anything is paid, none ends sooner.
LEMMA CheapestIs ==
  ASSUME NEW M, Team(M), M # {}, NEW n \in Nat, n > 0, NEW D \in Nat \cup {Nothing},
         Nothing \notin Nat, NEW name, NEW p, p = Cheapest(name, M, n, D)
  PROVE  /\ p.name = name /\ PlannedWell(p, M, n, D)
         /\ \A c \in Shares(M, n, D) :
              SumOver(c, M) = SumOver(p.count, M) =>
                /\ Price(p.count, M) <= Price(c, M)
                /\ p.unplaced = 0 /\ Price(p.count, M) = Price(c, M) =>
                     Price(p.count, M) = 0 \/ \E m \in M : p.makespan <= FinishTime(c, m)
<1> DEFINE v == TakeGroups(M, n, D)
           b == v.count
           placed == SumOver(b, M)
<1>1. Along(M, n, D, Keys(M), v)
      BY TakeGroupsIs
<1>2. p = Assemble(name, M, v, n)
      BY DEF Cheapest
<1> HIDE DEF v
<1>0. \A m \in M : Group(m) \in Keys(M)
      BY DEF Keys
<1>3. /\ b \in [M -> Nat] /\ placed <= n /\ InTime(b, M, D)
      /\ placed < n =>
           \A c \in [M -> Nat] : InTime(c, M, D) => \A m \in M : c[m] <= b[m]
      /\ \/ v.makespan = Nothing /\ placed = 0
         \/ /\ v.makespan \in Nat /\ placed # 0 /\ (D = Nothing \/ v.makespan <= D)
            /\ \A m \in M : FinishTime(b, m) <= v.makespan
            /\ \E g \in Keys(M) : \A c \in [M -> Nat] :
                 SumOver(c, OfGroup(M, g)) = SumOver(b, OfGroup(M, g)) =>
                 \E m \in M : v.makespan <= FinishTime(c, m)
      BY <1>0, <1>1 DEF Along, Takings
<1>4. placed = n =>
        \E g \in Keys(M) :
          /\ \A m \in M : GroupOrder(g, Group(m)) => b[m] = 0
          /\ \A c \in [M -> Nat] : InTime(c, M, D) =>
               \A m \in M : GroupOrder(Group(m), g) => c[m] <= b[m]
  <2>1. Lead(M, Keys(M))
        BY DEF Lead
  <2> QED BY <1>1, <2>1 DEF Along
<1>5. /\ p.name = name /\ p.count = b /\ p.makespan = v.makespan /\ PlannedWell(p, M, n, D)
      BY <1>2, <1>3, AssembledIs
<1>6. placed \in Nat /\ p.count = b /\ p.unplaced = n - placed
      BY <1>5 DEF PlannedWell
<1> HIDE DEF b, placed
<1>7. ASSUME NEW c \in Shares(M, n, D), SumOver(c, M) = placed
      PROVE  /\ Price(b, M) <= Price(c, M)
             /\ p.unplaced = 0 /\ Price(b, M) = Price(c, M) =>
                  Price(b, M) = 0 \/ \E m \in M : p.makespan <= FinishTime(c, m)
  <2>1. c \in [M -> Nat] /\ InTime(c, M, D)
        BY SharesAre
  <2>2. CASE placed < n
    <3>1. c = b
          BY <1>3, <1>7, <2>2, FullIs DEF b, placed
    <3>2. Price(b, M) \in Nat
          BY <1>3, PriceIs
    <3>3. p.unplaced # 0
          BY <1>6, <2>2
    <3> QED BY <1>6, <3>1, <3>2, <3>3
  <2>3. CASE placed = n
    <3>1. PICK g \in Keys(M) :
            /\ \A m \in M : GroupOrder(g, Group(m)) => b[m] = 0
            /\ \A x \in [M -> Nat] : InTime(x, M, D) =>
                 \A m \in M : GroupOrder(Group(m), g) => x[m] <= b[m]
          BY <1>4, <2>3
    <3> DEFINE u == g[1]
    <3>2. u \in Nat /\ g[2] \in {0, 1} /\ g = <<u, g[2]>>
          BY KeysAre
    <3>3. \A m \in M : m.unit \in Nat /\ m.rank \in {0, 1} /\ (m.rank = 0 => m.unit = 0)
          BY DEF Team
    <3>4. /\ \A m \in M : m.unit > u => b[m] = 0
          /\ \A m \in M : m.unit < u => c[m] <= b[m]
      <4>1. \A m \in M : Group(m)[1] = m.unit
            BY DEF Group
      <4>2. \A m \in M : /\ m.unit > u => GroupOrder(g, Group(m))
                         /\ m.unit < u => GroupOrder(Group(m), g)
            BY <3>2, <3>3, <4>1 DEF GroupOrder
      <4> QED BY <2>1, <3>1, <4>2
    <3>5. IsFiniteSet(M)
          BY DEF Team
    <3> HIDE DEF u
    <3>6. /\ Price(b, M) <= Price(c, M)
          /\ Price(b, M) = Price(c, M) => \A m \in M : m.unit = u \/ b[m] = c[m]
      <4>1. b \in [M -> Nat] /\ SumOver(b, M) = SumOver(c, M)
            BY <1>3, <1>7 DEF placed
      <4> QED BY <2>1, <3>2, <3>4, <4>1, ExchangeAll
    <3>7. ASSUME Price(b, M) = Price(c, M), Price(b, M) # 0
          PROVE  \E m \in M : p.makespan <= FinishTime(c, m)
      <4>1. \A m \in M : m.unit = u \/ b[m] = c[m]
            BY <1>6, <3>6, <3>7
      <4>2. u # 0
        <5> SUFFICES ASSUME u = 0 PROVE FALSE
            OBVIOUS
        <5>1. \A m \in M : Dues(b, M)[m] = m.unit * b[m]
              BY <1>3, PriceIs
        <5>2. \A m \in M : m.unit * b[m] = 0
          <6>1. \A m \in M : b[m] \in Nat /\ m.unit \in Nat
                BY <1>3, <3>3
          <6>2. \A m \in M : m.unit = 0 \/ b[m] = 0
                BY <3>3, <3>4
          <6>3. \A x \in Nat : x * 0 = 0 /\ 0 * x = 0
                OBVIOUS
          <6> QED BY <6>1, <6>2, <6>3
        <5>3. SumOver(Dues(b, M), M) = 0
              BY <3>5, <5>1, <5>2, TotalZero
        <5>4. Price(b, M) = 0
              BY <1>3, <5>3, PriceIs
        <5> QED BY <1>6, <3>7, <5>4
      <4>3. \A m, k \in M : m.unit = u /\ k.unit = u => Group(m) = Group(k)
            BY <3>3, <4>2 DEF Group
      <4>4. PICK h \in Keys(M) : \A x \in [M -> Nat] :
              SumOver(x, OfGroup(M, h)) = SumOver(b, OfGroup(M, h)) =>
              \E m \in M : v.makespan <= FinishTime(x, m)
            BY <1>3, <2>3
      <4>5. SumOver(c, OfGroup(M, h)) = SumOver(b, OfGroup(M, h))
        <5> DEFINE G == OfGroup(M, h)
                   O == M \ G
        <5>1. /\ IsFiniteSet(G) /\ IsFiniteSet(O) /\ O \cap G = {} /\ O \cup G = M
              /\ \A m \in G : Group(m) = h /\ m \in M
              /\ \A m \in O : Group(m) # h /\ m \in M
              BY <3>5, FS_Subset DEF OfGroup
        <5>2. PICK k \in G : k \in M
              BY DEF Keys, OfGroup
        <5> HIDE DEF G, O
        <5>3. CASE k.unit = u
          <6>1. \A m \in O : b[m] = c[m]
                BY <4>1, <4>3, <5>1, <5>2, <5>3
          <6>2. SumOver(b, O) = SumOver(c, O)
                BY <5>1, <6>1, TotalAgree
          <6>3. \A m \in O \cup G : b[m] \in Int
                BY <1>3, <5>1
          <6>4. \A m \in O \cup G : c[m] \in Int
                BY <2>1, <5>1
          <6>5. SumOver(b, O \cup G) = SumOver(b, O) + SumOver(b, G)
                BY <5>1, <6>3, TotalUnion
          <6>6. SumOver(c, O \cup G) = SumOver(c, O) + SumOver(c, G)
                BY <5>1, <6>4, TotalUnion
          <6>7. SumOver(b, O) \in Nat /\ SumOver(b, G) \in Nat /\ SumOver(c, G) \in Nat
            <7>1. /\ \A m \in O : b[m] \in Nat
                  /\ \A m \in G : b[m] \in Nat
                  /\ \A m \in G : c[m] \in Nat
                  BY <1>3, <2>1, <5>1
            <7> QED BY <5>1, <7>1, TotalBounds
          <6>8. SumOver(b, M) = SumOver(c, M)
                BY <1>7 DEF placed
          <6>9. SumOver(b, G) = SumOver(c, G)
            <7>1. O \cup G = M
                  BY <5>1
            <7>2. SumOver(b, O) + SumOver(b, G) = SumOver(c, O) + SumOver(c, G)
                  BY <6>5, <6>6, <6>8, <7>1
            <7> HIDE DEF b
            <7> QED BY <6>2, <6>7, <7>2
          <6> QED BY <6>9 DEF G
        <5>4. CASE k.unit # u
          <6>1. \A m \in G : m.unit = k.unit
            <7>1. \A m \in G : Group(m) = Group(k)
                  BY <5>1, <5>2
            <7> QED BY <7>1 DEF Group
          <6>2. \A m \in G : c[m] = b[m]
                BY <4>1, <5>1, <5>4, <6>1
          <6>3. SumOver(c, G) = SumOver(b, G)
                BY <5>1, <6>2, TotalAgree
          <6> QED BY <6>3 DEF G
        <5> QED BY <5>3, <5>4
      <4> QED BY <1>5, <2>1, <4>4, <4>5
    <3> QED BY <1>6, <3>6, <3>7
  <2> QED BY <1>3, <1>6, <2>2, <2>3 DEF placed
<1> QED BY <1>5, <1>6, <1>7 DEF placed

\* The plan that fills the whole fleet: none of the fullest ends sooner.
LEMMA FastestIs ==
  ASSUME NEW M, Team(M), M # {}, NEW n \in Nat, NEW D \in Nat \cup {Nothing},
         Nothing \notin Nat, NEW p, p = Fastest(M, n, D)
  PROVE  /\ p.name = "fastest" /\ PlannedWell(p, M, n, D)
         /\ \A c \in Shares(M, n, D) :
              SumOver(c, M) = SumOver(p.count, M) /\ p.makespan # Nothing =>
                p.makespan <= Spread(c, M)
<1> DEFINE v == Fill(M, n, D)
<1>1. p = Assemble("fastest", M, v, n)
      BY DEF Fastest
<1>0. BestFill(M, n, D, v)
      BY FillIsBest
<1> HIDE DEF v
<1>2. /\ v.count \in [M -> Nat] /\ SumOver(v.count, M) <= n /\ InTime(v.count, M, D)
      /\ SumOver(v.count, M) < n =>
           \A c \in [M -> Nat] : InTime(c, M, D) => \A m \in M : c[m] <= v.count[m]
      /\ \/ v.makespan = Nothing /\ \A m \in M : v.count[m] = 0
         \/ /\ v.makespan \in Nat /\ \A m \in M : FinishTime(v.count, m) <= v.makespan
            /\ D = Nothing \/ v.makespan <= D
            /\ SumOver(v.count, M) # 0
      /\ v.makespan # Nothing =>
           \A c \in [M -> Nat] :
             SumOver(c, M) = SumOver(v.count, M) => \E m \in M : v.makespan <= FinishTime(c, m)
      BY <1>0 DEF BestFill
<1>3. IsFiniteSet(M)
      BY DEF Team
<1>4. (\A m \in M : v.count[m] = 0) => SumOver(v.count, M) = 0
      BY <1>3, TotalZero
<1>5. \/ v.makespan = Nothing /\ SumOver(v.count, M) = 0
      \/ /\ v.makespan \in Nat /\ SumOver(v.count, M) # 0 /\ (D = Nothing \/ v.makespan <= D)
         /\ \A m \in M : FinishTime(v.count, m) <= v.makespan
      BY <1>2, <1>4
<1>6. p.name = "fastest" /\ p.count = v.count /\ p.makespan = v.makespan /\ PlannedWell(p, M, n, D)
      BY <1>1, <1>2, <1>5, AssembledIs
<1>7. ASSUME NEW c \in Shares(M, n, D), SumOver(c, M) = SumOver(p.count, M), p.makespan # Nothing
      PROVE  p.makespan <= Spread(c, M)
  <2>1. c \in [M -> Nat]
        BY SharesAre
  <2>2. PICK m \in M : p.makespan <= FinishTime(c, m)
        BY <1>2, <1>6, <1>7, <2>1
  <2>3. \A x \in M : FinishTime(c, x) \in Nat
        BY <2>1, FinishIs
  <2> DEFINE f == [x \in M |-> FinishTime(c, x)]
             E == {f[x] : x \in M}
  <2>4. E = {FinishTime(c, x) : x \in M}
        OBVIOUS
  <2>5. IsFiniteSet(E)
    <3> HIDE DEF f
    <3> QED BY <1>3, ImageFinite
  <2>6. E \subseteq Int /\ E # {} /\ f[m] \in E /\ f[m] = FinishTime(c, m)
        BY <2>3
  <2> HIDE DEF E, f
  <2>7. f[m] <= Max(E) /\ Max(E) \in Int
        BY <2>5, <2>6, MaxIs
  <2>8. p.makespan \in Nat /\ Spread(c, M) = Max(E)
        BY <1>5, <1>6, <1>7, <2>4 DEF Spread
  <2> QED BY <2>2, <2>3, <2>6, <2>7, <2>8
<1> QED BY <1>6, <1>7

\* Two put one after the other.
LEMMA Joined ==
  ASSUME NEW s, NEW t, NEW V, s \in Seq(V), t \in Seq(V), Len(t) = 1
  PROVE  /\ s \o t \in Seq(V) /\ Len(s \o t) = Len(s) + 1
         /\ \A i \in 1..Len(s) : (s \o t)[i] = s[i]
         /\ (s \o t)[Len(s) + 1] = t[1]
  BY ConcatProperties, SMTT(30)

\* The plans offered: the cheapest, the balanced where there is a deadline, the fastest.
LEMMA PlansAre ==
  ASSUME NEW M, NEW n, NEW D, NEW ps, ps = Plans(M, n, D)
  PROVE  /\ M = {} => ps = <<>> /\ DOMAIN ps = {}
         /\ M # {} /\ D = Nothing =>
              /\ DOMAIN ps = 1..2 /\ ps[1] = Cheapest("cheapest", M, n, Nothing)
              /\ ps[2] = Fastest(M, n, D)
         /\ M # {} /\ D # Nothing =>
              /\ DOMAIN ps = 1..3 /\ ps[1] = Cheapest("cheapest", M, n, Nothing)
              /\ ps[2] = Cheapest("balanced", M, n, D) /\ ps[3] = Fastest(M, n, D)
         /\ M # {} => ps # <<>>
<1>1. CASE M = {}
  <2>1. ps = <<>>
        BY <1>1 DEF Plans
  <2> QED BY <1>1, <2>1
<1>2. CASE M # {}
  <2> DEFINE a == Cheapest("cheapest", M, n, Nothing)
             b == Cheapest("balanced", M, n, D)
             c == Fastest(M, n, D)
  <2>1. ps = <<a>> \o (IF D = Nothing THEN <<>> ELSE <<b>>) \o <<c>>
        BY <1>2 DEF Plans
  <2> HIDE DEF a, b, c
  <2>2. CASE D = Nothing
    <3> DEFINE s == <<a>>
               t == <<c>>
               V == {a, c}
    <3>1. s \in Seq(V) /\ t \in Seq(V) /\ Len(s) = 1 /\ Len(t) = 1 /\ s[1] = a /\ t[1] = c
          OBVIOUS
    <3>2. ps = s \o t
      <4>1. s \o <<>> = s
            BY <3>1, ConcatEmptySeq
      <4> QED BY <2>1, <2>2, <4>1
    <3> HIDE DEF s, t, V
    <3>3. ps \in Seq(V) /\ Len(ps) = 2 /\ ps[1] = a /\ ps[2] = c
          BY <3>1, <3>2, Joined
    <3>4. DOMAIN ps = 1..2 /\ ps # <<>>
      <4>1. DOMAIN ps = 1..Len(ps) /\ Len(<<>>) = 0
            BY <3>3
      <4>2. Len(ps) = 2 /\ Len(ps) # Len(<<>>)
            BY <3>3, <4>1
      <4> QED BY <4>1, <4>2
    <3> QED BY <1>2, <2>2, <3>3, <3>4 DEF a, c
  <2>3. CASE D # Nothing
    <3> DEFINE s == <<a>>
               t == <<b>>
               z == <<c>>
               V == {a, b, c}
               ab == s \o t
    <3>1. /\ s \in Seq(V) /\ t \in Seq(V) /\ z \in Seq(V)
          /\ Len(s) = 1 /\ Len(t) = 1 /\ Len(z) = 1 /\ s[1] = a /\ t[1] = b /\ z[1] = c
          OBVIOUS
    <3>2. ps = ab \o z
          BY <2>1, <2>3
    <3> HIDE DEF s, t, z, V
    <3>3. ab \in Seq(V) /\ Len(ab) = 2 /\ ab[1] = a /\ ab[2] = b
          BY <3>1, Joined
    <3> HIDE DEF ab
    <3>6. /\ ps \in Seq(V) /\ Len(ps) = Len(ab) + 1
          /\ \A i \in 1..Len(ab) : ps[i] = ab[i]
          /\ ps[Len(ab) + 1] = z[1]
      <4>1. ab \in Seq(V) /\ z \in Seq(V) /\ Len(z) = 1
            BY <3>1, <3>3
      <4>2. /\ ab \o z \in Seq(V) /\ Len(ab \o z) = Len(ab) + 1
            /\ \A i \in 1..Len(ab) : (ab \o z)[i] = ab[i]
            /\ (ab \o z)[Len(ab) + 1] = z[1]
            BY <4>1, Joined
      <4> QED BY <3>2, <4>2
    <3>4. ps \in Seq(V) /\ Len(ps) = 3 /\ ps[1] = a /\ ps[2] = b /\ ps[3] = c
          BY <3>1, <3>3, <3>6
    <3>5. DOMAIN ps = 1..3 /\ ps # <<>>
      <4>1. DOMAIN ps = 1..Len(ps) /\ Len(<<>>) = 0
            BY <3>4
      <4>2. Len(ps) = 3 /\ Len(ps) # Len(<<>>)
            BY <3>4, <4>1
      <4> QED BY <4>1, <4>2
    <3> QED BY <1>2, <2>3, <3>4, <3>5 DEF a, b, c
  <2> QED BY <2>2, <2>3
<1> QED BY <1>1, <1>2

\* The first plan has no deadline to keep.
LEMMA FirstIs ==
  ASSUME NEW M, Team(M), M # {}, NEW n \in Nat, n > 0, Nothing \notin Nat,
         NEW p, p = Cheapest("cheapest", M, n, Nothing)
  PROVE  /\ p.name = "cheapest" /\ PlannedWell(p, M, n, Nothing)
         /\ \A c \in Shares(M, n, Nothing) :
              SumOver(c, M) = SumOver(p.count, M) => Price(p.count, M) <= Price(c, M)
<1>1. PICK D \in Nat \cup {Nothing} : D = Nothing
      OBVIOUS
<1>2. p = Cheapest("cheapest", M, n, D)
      BY <1>1
<1>3. /\ p.name = "cheapest" /\ PlannedWell(p, M, n, D)
      /\ \A c \in Shares(M, n, D) :
           SumOver(c, M) = SumOver(p.count, M) =>
             /\ Price(p.count, M) <= Price(c, M)
             /\ p.unplaced = 0 /\ Price(p.count, M) = Price(c, M) =>
                  Price(p.count, M) = 0 \/ \E m \in M : p.makespan <= FinishTime(c, m)
      BY <1>2, CheapestIs
<1> QED BY <1>1, <1>3

\* Nothing beats a plan at what it is named for.
LEMMA PlansBest ==
  ASSUME NEW M, Team(M), NEW n \in Nat, n > 0, NEW D \in Nat \cup {Nothing}, Nothing \notin Nat,
         NEW ps, ps = Plans(M, n, D), NEW i \in DOMAIN ps, NEW p, p = ps[i], NEW limit,
         limit = IF p.name = "cheapest" THEN Nothing ELSE D
  PROVE  /\ p.name \in {"cheapest", "balanced", "fastest"} /\ PlannedWell(p, M, n, limit)
         /\ p.count \in Fullest(Shares(M, n, limit))
         /\ \A c \in Fullest(Shares(M, n, limit)) :
              IF p.name # "fastest" THEN p.cost <= Rounded(Price(c, M))
              ELSE p.makespan # Nothing => p.makespan <= Spread(c, M)
<1>1. M # {}
      BY PlansAre
<1>2. ASSUME PlannedWell(p, M, n, limit),
             \A c \in Shares(M, n, limit) :
               SumOver(c, M) = SumOver(p.count, M) =>
                 IF p.name # "fastest" THEN p.cost <= Rounded(Price(c, M))
                 ELSE p.makespan # Nothing => p.makespan <= Spread(c, M)
      PROVE  /\ p.count \in Fullest(Shares(M, n, limit))
             /\ \A c \in Fullest(Shares(M, n, limit)) :
                  IF p.name # "fastest" THEN p.cost <= Rounded(Price(c, M))
                  ELSE p.makespan # Nothing => p.makespan <= Spread(c, M)
  <2> DEFINE b == p.count
  <2>1. b \in Shares(M, n, limit) /\ \A c \in Shares(M, n, limit) : SumOver(c, M) <= SumOver(b, M)
        BY <1>2 DEF PlannedWell
  <2> HIDE DEF b
  <2>2. /\ b \in Fullest(Shares(M, n, limit))
        /\ \A c \in Fullest(Shares(M, n, limit)) :
             c \in Shares(M, n, limit) /\ SumOver(c, M) = SumOver(b, M)
        BY <2>1, FullestAre
  <2> QED BY <1>2, <2>2 DEF b
<1>7. ASSUME PlannedWell(p, M, n, limit), NEW c \in Shares(M, n, limit),
             Price(p.count, M) <= Price(c, M)
      PROVE  p.cost <= Rounded(Price(c, M))
  <2> DEFINE b == p.count
  <2>1. b \in Shares(M, n, limit) /\ p.cost = Rounded(Price(b, M))
        BY <1>7 DEF PlannedWell
  <2> HIDE DEF b
  <2>2. b \in [M -> Nat] /\ c \in [M -> Nat]
        BY <2>1, SharesAre
  <2>3. Price(b, M) \in Nat /\ Price(c, M) \in Nat
        BY <2>2, PriceIs
  <2>4. Price(b, M) <= Price(c, M)
        BY <1>7 DEF b
  <2> QED BY <2>1, <2>3, <2>4, RoundedRises
<1>3. CASE p = Cheapest("cheapest", M, n, Nothing)
  <2>1. /\ p.name = "cheapest" /\ PlannedWell(p, M, n, Nothing)
        /\ \A c \in Shares(M, n, Nothing) :
             SumOver(c, M) = SumOver(p.count, M) => Price(p.count, M) <= Price(c, M)
        BY <1>1, <1>3, FirstIs
  <2> QED BY <1>2, <1>7, <2>1
<1>4. CASE p = Cheapest("balanced", M, n, D)
  <2>1. /\ p.name = "balanced" /\ PlannedWell(p, M, n, D)
        /\ \A c \in Shares(M, n, D) :
             SumOver(c, M) = SumOver(p.count, M) => Price(p.count, M) <= Price(c, M)
        BY <1>1, <1>4, CheapestIs
  <2> QED BY <1>2, <1>7, <2>1
<1>5. CASE p = Fastest(M, n, D)
  <2>1. /\ p.name = "fastest" /\ PlannedWell(p, M, n, D)
        /\ \A c \in Shares(M, n, D) :
             SumOver(c, M) = SumOver(p.count, M) /\ p.makespan # Nothing =>
               p.makespan <= Spread(c, M)
        BY <1>1, <1>5, FastestIs
  <2> QED BY <1>2, <2>1
<1>6. i \in 1..3 /\ (i = 1 \/ i = 2 \/ i = 3)
      BY <1>1, PlansAre
<1> QED BY <1>1, <1>3, <1>4, <1>5, <1>6, PlansAre

\* Among three that are partly ordered, one has none before it.
LEMMA OneIsFirst ==
  ASSUME NEW S \in SUBSET (1..3), S # {}, NEW R,
         \A a \in S : <<a, a>> \notin R,
         \A a, b, c \in S : <<a, b>> \in R /\ <<b, c>> \in R => <<a, c>> \in R
  PROVE  \E z \in S : \A y \in S : <<y, z>> \notin R
<1> SUFFICES ASSUME \A z \in S : \E y \in S : <<y, z>> \in R PROVE FALSE
    OBVIOUS
<1>0. \A x \in S : x = 1 \/ x = 2 \/ x = 3
      OBVIOUS
<1>1. PICK a \in S : TRUE
      OBVIOUS
<1>2. PICK b \in S : <<b, a>> \in R
      OBVIOUS
<1>3. PICK c \in S : <<c, b>> \in R
      OBVIOUS
<1>4. PICK d \in S : <<d, c>> \in R
      OBVIOUS
<1>5. <<c, a>> \in R /\ <<d, b>> \in R /\ <<d, a>> \in R
      BY <1>2, <1>3, <1>4
<1>6. a # b /\ b # c /\ c # d /\ c # a /\ d # b /\ d # a
      BY <1>2, <1>3, <1>4, <1>5
<1> QED BY <1>0, <1>6

\* Numbers that may be missing, in order.
LEMMA FinishesOrders ==
  ASSUME Nothing \notin Nat, NEW p, NEW q, NEW r,
         p.makespan \in Nat \cup {Nothing}, q.makespan \in Nat \cup {Nothing},
         r.makespan \in Nat \cup {Nothing}
  PROVE  Finishes(p, p) /\ (Finishes(p, q) /\ Finishes(q, r) => Finishes(p, r))
<1> DEFINE a == p.makespan
           b == q.makespan
           c == r.makespan
<1>1. /\ a \in Nat \/ a = Nothing
      /\ b \in Nat \/ b = Nothing
      /\ c \in Nat \/ c = Nothing
      OBVIOUS
<1>2. /\ Finishes(p, p) <=> (a = Nothing \/ (a # Nothing /\ a <= a))
      /\ Finishes(p, q) <=> (b = Nothing \/ (a # Nothing /\ a <= b))
      /\ Finishes(q, r) <=> (c = Nothing \/ (b # Nothing /\ b <= c))
      /\ Finishes(p, r) <=> (c = Nothing \/ (a # Nothing /\ a <= c))
      BY DEF Finishes
<1> HIDE DEF a, b, c
<1> QED BY <1>1, <1>2

\* Where all plans are in numbers one that is complete is dominated by none, if any is.
LEMMA SomeStarred ==
  ASSUME Nothing \notin Nat, NEW ps, DOMAIN ps \in SUBSET (1..3),
         \A i \in DOMAIN ps : /\ ps[i].unplaced \in Nat /\ ps[i].cost \in Nat
                              /\ ps[i].makespan \in Nat \cup {Nothing},
         NEW k \in DOMAIN ps, Complete(ps[k])
  PROVE  \E i \in DOMAIN ps : Starred(ps, i)
<1> DEFINE S == DOMAIN ps
           Beats(j, i) == i # j /\ NoWorse(ps[j], ps[i]) /\ (~NoWorse(ps[i], ps[j]) \/ j < i)
           R == {p \in S \X S : Beats(p[1], p[2])}
<1>0. \A i, j \in S : <<j, i>> \in R <=> Beats(j, i)
      OBVIOUS
<1>00. \A i \in S : DominatedIn(ps, i) <=> \E j \in S : Beats(j, i)
      BY DEF DominatedIn
<1>1. \A i \in S : i \in Nat
      OBVIOUS
<1>2. ASSUME NEW a \in S, NEW b \in S, NEW c \in S
      PROVE  NoWorse(ps[a], ps[b]) /\ NoWorse(ps[b], ps[c]) => NoWorse(ps[a], ps[c])
  <2>1. Finishes(ps[a], ps[b]) /\ Finishes(ps[b], ps[c]) => Finishes(ps[a], ps[c])
        BY FinishesOrders
  <2>2. /\ ps[a].unplaced \in Nat /\ ps[a].cost \in Nat
        /\ ps[b].unplaced \in Nat /\ ps[b].cost \in Nat
        /\ ps[c].unplaced \in Nat /\ ps[c].cost \in Nat
        OBVIOUS
  <2> QED BY <2>1, <2>2 DEF NoWorse
<1>3. \A a, b, c \in S : Beats(a, b) /\ Beats(b, c) => Beats(a, c)
  <2> SUFFICES ASSUME NEW a \in S, NEW b \in S, NEW c \in S, Beats(a, b), Beats(b, c)
               PROVE  Beats(a, c)
      OBVIOUS
  <2>1. /\ NoWorse(ps[a], ps[b]) /\ NoWorse(ps[b], ps[c]) /\ NoWorse(ps[a], ps[c])
        /\ ~NoWorse(ps[b], ps[a]) \/ a < b
        /\ ~NoWorse(ps[c], ps[b]) \/ b < c
        BY <1>2
  <2>2. CASE NoWorse(ps[c], ps[a])
    <3>1. NoWorse(ps[b], ps[a]) /\ NoWorse(ps[c], ps[b])
          BY <1>2, <2>1, <2>2
    <3>2. a < b /\ b < c /\ a \in Nat /\ b \in Nat /\ c \in Nat
          BY <1>1, <2>1, <3>1
    <3>3. a < c /\ a # c
          BY <3>2
    <3> QED BY <2>1, <3>3
  <2>3. CASE ~NoWorse(ps[c], ps[a])
    <3>1. a # c
          BY <2>3, <2>1
    <3> QED BY <2>1, <2>3, <3>1
  <2> QED BY <2>2, <2>3
<1>4. \A a \in S : ~Beats(a, a)
      OBVIOUS
<1> HIDE DEF Beats, R
<1> DEFINE C == {i \in S : Complete(ps[i])}
<1>5. PICK z \in C : \A y \in C : <<y, z>> \notin R
  <2>1. C \in SUBSET (1..3) /\ C # {} /\ C \in SUBSET S
        OBVIOUS
  <2>2. /\ \A a \in C : <<a, a>> \notin R
        /\ \A a, b, c \in C : <<a, b>> \in R /\ <<b, c>> \in R => <<a, c>> \in R
        BY <1>0, <1>3, <1>4
  <2> HIDE DEF C, S
  <2> QED BY <2>1, <2>2, OneIsFirst
<1>6. \A y \in S : ~Beats(y, z)
  <2> SUFFICES ASSUME NEW y \in S, Beats(y, z) PROVE FALSE
      OBVIOUS
  <2>1. ps[y].unplaced <= ps[z].unplaced /\ ps[y].unplaced \in Nat /\ ps[z].unplaced = 0
        BY DEF Beats, NoWorse, Complete
  <2>2. Complete(ps[y])
        BY <2>1 DEF Complete
  <2> QED BY <1>0, <1>5, <2>2
<1> QED BY <1>00, <1>6 DEF Starred

\* The first name of the wanted plans is chosen, none where there is none.
LEMMA ChoiceIs ==
  ASSUME NEW ps, NEW W, NEW P, P = Preferred(ps, W)
  PROVE  /\ P \subseteq {1, 2, 3}
         /\ P = {} => Choice(P) = "none"
         /\ P # {} => /\ Min(P) \in P /\ \A k \in P : Min(P) <= k
                      /\ Choice(P) = Preference[Min(P)]
         /\ Preference[1] = "balanced" /\ Preference[2] = "cheapest" /\ Preference[3] = "fastest"
         /\ \A k \in P : \E i \in W : i \in DOMAIN ps /\ ps[i].name = Preference[k]
         /\ \A i \in W : \A k \in {1, 2, 3} :
              i \in DOMAIN ps /\ ps[i].name = Preference[k] => k \in P
<1>1. /\ Preference[1] = "balanced" /\ Preference[2] = "cheapest" /\ Preference[3] = "fastest"
      /\ DOMAIN Preference = {1, 2, 3}
      BY DEF Preference
<1>2. P = {k \in {1, 2, 3} : \E i \in DOMAIN ps : ps[i].name = Preference[k] /\ i \in W}
      BY <1>1 DEF Preferred, Named
<1>3. /\ P \subseteq {1, 2, 3}
      /\ \A k \in P : \E i \in W : i \in DOMAIN ps /\ ps[i].name = Preference[k]
      /\ \A i \in W : \A k \in {1, 2, 3} :
           i \in DOMAIN ps /\ ps[i].name = Preference[k] => k \in P
      BY <1>2
<1>4. IsFiniteSet({1, 2, 3})
  <2>1. IsFiniteSet(1..3)
    <3>1. \A a, b \in Int : IsFiniteSet(a..b)
          BY FS_Interval
    <3>2. 1 \in Int /\ 3 \in Int
          OBVIOUS
    <3> QED BY <3>1, <3>2, Zenon
  <2>2. 1..3 = {1, 2, 3}
        OBVIOUS
  <2> QED BY <2>1, <2>2
<1>5. IsFiniteSet(P) /\ P \subseteq Int
      BY <1>3, <1>4, FS_Subset
<1>6. P # {} => Min(P) \in P /\ \A k \in P : Min(P) <= k
      BY <1>5, MinIs
<1> QED BY <1>1, <1>3, <1>6 DEF Choice

\* Where there is a plan one is recommended, and it is in time if the fleet can be.
LEMMA RecommendKeeps ==
  ASSUME NEW M, Team(M), NEW n \in Nat, n > 0, NEW D \in Nat \cup {Nothing}, Nothing \notin Nat,
         NEW ps, ps = Plans(M, n, D)
  PROVE  /\ ps # <<>> <=> Recommend(ps) # "none"
         /\ \A i \in Named(ps, Recommend(ps)) :
              (\E c \in Shares(M, n, D) : Placed(c) = n) =>
              InTime(ps[i].count, M, D) \/ AlikeOncePriced(ps, M)
<1> DEFINE W == {i \in DOMAIN ps : Starred(ps, i)}
           P == Preferred(ps, W)
           best == Recommend(ps)
<1>1. best = Choice(P)
      BY DEF Recommend
<1>2. /\ P \subseteq {1, 2, 3}
      /\ P = {} => Choice(P) = "none"
      /\ P # {} => /\ Min(P) \in P /\ \A k \in P : Min(P) <= k
                   /\ Choice(P) = Preference[Min(P)]
      /\ Preference[1] = "balanced" /\ Preference[2] = "cheapest" /\ Preference[3] = "fastest"
      /\ \A k \in P : \E i \in W : i \in DOMAIN ps /\ ps[i].name = Preference[k]
      /\ \A i \in W : \A k \in {1, 2, 3} :
           i \in DOMAIN ps /\ ps[i].name = Preference[k] => k \in P
      BY ChoiceIs
<1>3. \A i \in DOMAIN ps : i \in W <=> Starred(ps, i)
      OBVIOUS
<1>4. W \subseteq DOMAIN ps
      OBVIOUS
<1> HIDE DEF W, P
<1>5. ASSUME NEW i \in DOMAIN ps
      PROVE  LET p == ps[i]
                 limit == IF p.name = "cheapest" THEN Nothing ELSE D
             IN p.name \in {"cheapest", "balanced", "fastest"} /\ PlannedWell(p, M, n, limit)
      BY PlansBest
<1>6. \A i \in DOMAIN ps : /\ ps[i].unplaced \in Nat /\ ps[i].cost \in Nat
                           /\ ps[i].makespan \in Nat \cup {Nothing}
      BY <1>5 DEF PlannedWell
<1>7. CASE M = {}
  <2>1. ps = <<>> /\ DOMAIN ps = {}
        BY <1>7, PlansAre
  <2>2. P = {}
        BY <1>2, <2>1
  <2> QED BY <1>1, <1>2, <2>1, <2>2 DEF Named
<1>8. CASE M # {}
  <2>1. /\ ps # <<>> /\ 1 \in DOMAIN ps /\ ps[1] = Cheapest("cheapest", M, n, Nothing)
        /\ DOMAIN ps \in SUBSET (1..3)
        /\ D = Nothing => DOMAIN ps = 1..2 /\ ps[2] = Fastest(M, n, D)
        /\ D # Nothing => /\ DOMAIN ps = 1..3 /\ ps[2] = Cheapest("balanced", M, n, D)
                          /\ ps[3] = Fastest(M, n, D)
        BY <1>8, PlansAre
  <2>2. ps[1].name = "cheapest" /\ PlannedWell(ps[1], M, n, Nothing)
    <3> DEFINE p == ps[1]
    <3>1. p = Cheapest("cheapest", M, n, Nothing)
          BY <2>1
    <3> HIDE DEF p
    <3>2. p.name = "cheapest" /\ PlannedWell(p, M, n, Nothing)
          BY <1>8, <3>1, FirstIs
    <3> QED BY <3>2 DEF p
  <2>3. Complete(ps[1])
        BY <2>2 DEF PlannedWell, Complete
  <2>4. PICK s \in DOMAIN ps : Starred(ps, s)
        BY <1>6, <2>1, <2>3, SomeStarred
  <2>5. s \in W /\ ps[s].name \in {"cheapest", "balanced", "fastest"}
        BY <1>3, <1>5, <2>4
  <2>6. P # {}
        BY <1>2, <2>5
  <2>7. best # "none" /\ best = Preference[Min(P)] /\ Min(P) \in {1, 2, 3}
        BY <1>1, <1>2, <2>6
  <2>8. ASSUME NEW i \in Named(ps, best), NEW c \in Shares(M, n, D), Placed(c) = n
        PROVE  InTime(ps[i].count, M, D) \/ AlikeOncePriced(ps, M)
    <3> DEFINE p == ps[1]
               b == ps[2]
               f == ps[3]
    <3>0. i \in DOMAIN ps /\ ps[i].name = best
          BY <2>8 DEF Named
    <3>1. CASE D = Nothing
          BY <3>1 DEF InTime
    <3>2. CASE ps[i].name # "cheapest"
      <4>1. ps[i].count \in Shares(M, n, D)
            BY <1>5, <3>0, <3>2 DEF PlannedWell
      <4> QED BY <4>1, SharesAre
    <3>3. CASE D # Nothing /\ ps[i].name = "cheapest"
      <4>1. /\ 2 \in DOMAIN ps /\ b = Cheapest("balanced", M, n, D)
            /\ 3 \in DOMAIN ps /\ f = Fastest(M, n, D) /\ DOMAIN ps = 1..3
            BY <2>1, <3>3
      <4>2. /\ b.name = "balanced" /\ PlannedWell(b, M, n, D)
            /\ \A x \in Shares(M, n, D) :
                 SumOver(x, M) = SumOver(b.count, M) =>
                   /\ Price(b.count, M) <= Price(x, M)
                   /\ b.unplaced = 0 /\ Price(b.count, M) = Price(x, M) =>
                        Price(b.count, M) = 0 \/ \E m \in M : b.makespan <= FinishTime(x, m)
            BY <1>8, <4>1, CheapestIs
      <4>3. f.name = "fastest" /\ PlannedWell(f, M, n, D)
            BY <1>8, <4>1, FastestIs
      <4>4. i = 1
        <5>1. i = 1 \/ i = 2 \/ i = 3
              BY <3>0, <4>1
        <5> QED BY <3>3, <4>2, <4>3, <5>1
      \* The cheapest is starred and the balanced is not.
      <4>5. Min(P) = 2
            BY <1>2, <2>7, <3>0, <3>3
      <4>6. Starred(ps, 1)
        <5>1. PICK j \in W : j \in DOMAIN ps /\ ps[j].name = "cheapest"
              BY <1>2, <2>6, <4>5
        <5>2. j = 1
          <6>1. j = 1 \/ j = 2 \/ j = 3
                BY <4>1, <5>1
          <6> QED BY <4>2, <4>3, <5>1, <6>1
        <5> QED BY <1>3, <5>1, <5>2
      <4>7. ~Starred(ps, 2)
        <5>1. 1 \notin P
              BY <1>2, <4>5, <2>6
        <5> QED BY <1>2, <1>3, <4>1, <4>2, <5>1
      \* The fleet can place all in time, and so all three plans are complete.
      <4>8. SumOver(c, M) = n
        <5>1. DOMAIN c = M
              BY <2>8, SharesAre
        <5> QED BY <2>8, <5>1, PlacedIs
      <4>9. /\ SumOver(b.count, M) = n /\ b.unplaced = 0
            /\ SumOver(f.count, M) = n /\ f.unplaced = 0
            /\ f.count \in Shares(M, n, D) /\ b.count \in Shares(M, n, D)
        <5>1. /\ n <= SumOver(b.count, M) /\ n <= SumOver(f.count, M)
              /\ b.unplaced \in Nat /\ b.unplaced = n - SumOver(b.count, M) /\ SumOver(b.count, M) \in Nat
              /\ f.unplaced \in Nat /\ f.unplaced = n - SumOver(f.count, M) /\ SumOver(f.count, M) \in Nat
              /\ f.count \in Shares(M, n, D) /\ b.count \in Shares(M, n, D)
              BY <2>8, <4>2, <4>3, <4>8 DEF PlannedWell
        <5> QED BY <5>1
      <4>10. /\ p.unplaced = 0 /\ p.cost \in Nat /\ b.cost \in Nat /\ f.cost \in Nat
             /\ f.cost = Rounded(Price(f.count, M)) /\ b.cost = Rounded(Price(b.count, M))
             BY <2>2, <4>2, <4>3 DEF PlannedWell
      <4>11. /\ p.makespan \in Nat /\ \A m \in M : FinishTime(p.count, m) <= p.makespan
             /\ b.makespan \in Nat /\ b.makespan <= D
             /\ f.makespan \in Nat /\ f.makespan <= D
             /\ \A m \in M : FinishTime(f.count, m) <= f.makespan
        <5>1. SumOver(p.count, M) = n
          <6>1. p.unplaced = n - SumOver(p.count, M) /\ SumOver(p.count, M) \in Nat
                BY <2>2 DEF PlannedWell
          <6> QED BY <4>10, <6>1
        <5> QED BY <2>2, <3>3, <4>2, <4>3, <4>9, <5>1 DEF PlannedWell
      <4>12. D \in Nat
             BY <3>3
      <4>13. \A m \in M : FinishTime(p.count, m) \in Nat
        <5>1. p.count \in [M -> Nat]
          <6>1. p.count \in Shares(M, n, Nothing)
                BY <2>2 DEF PlannedWell
          <6> QED BY <6>1, SharesAre
        <5> QED BY <5>1, FinishIs
      <4>14. p.makespan <= D => InTime(p.count, M, D)
        <5> SUFFICES ASSUME p.makespan <= D, NEW m \in M PROVE FinishTime(p.count, m) <= D
            BY DEF InTime
        <5>1. FinishTime(p.count, m) <= p.makespan /\ FinishTime(p.count, m) \in Nat
              BY <4>11, <4>13
        <5> QED BY <4>11, <4>12, <5>1
      <4>15. PICK j \in DOMAIN ps \ {2} : NoWorse(ps[j], b) /\ (~NoWorse(b, ps[j]) \/ j < 2)
             BY <4>1, <4>7, <4>9 DEF Starred, Complete, DominatedIn
      <4>16. CASE j = 1
        <5>1. p.makespan <= b.makespan
          <6>1. Finishes(p, b)
                BY <4>15, <4>16 DEF NoWorse
          <6>2. b.makespan # Nothing
                BY <4>11
          <6> QED BY <6>1, <6>2 DEF Finishes
        <5> QED BY <4>4, <4>11, <4>12, <4>14, <5>1
      <4>17. CASE j = 3
        <5>1. NoWorse(f, b) /\ ~NoWorse(b, f)
              BY <4>15, <4>17
        <5>6. /\ Price(b.count, M) \in Nat /\ Price(f.count, M) \in Nat
              /\ Price(b.count, M) <= Price(f.count, M)
          <6> DEFINE x == b.count
                     y == f.count
          <6>1. x \in Shares(M, n, D) /\ y \in Shares(M, n, D)
                BY <4>9
          <6>2. Price(x, M) <= Price(y, M)
                BY <4>2, <4>9
          <6> HIDE DEF x, y
          <6>3. x \in [M -> Nat] /\ y \in [M -> Nat]
                BY <6>1, SharesAre
          <6>4. Price(x, M) \in Nat /\ Price(y, M) \in Nat
                BY <6>3, PriceIs
          <6> QED BY <6>2, <6>4 DEF x, y
        <5>2. b.cost = f.cost
          <6>1. f.cost <= b.cost
                BY <5>1 DEF NoWorse
          <6>2. b.cost <= f.cost
                BY <4>10, <5>6, RoundedRises
          <6> QED BY <4>10, <6>1, <6>2
        <5>7. CASE Price(b.count, M) # Price(f.count, M)
          <6>1. Price(b.count, M) < Price(f.count, M)
                BY <5>6, <5>7
          <6>2. 2 \in Named(ps, "balanced") /\ 3 \in Named(ps, "fastest")
                BY <4>1, <4>2, <4>3 DEF Named
          <6> QED BY <5>2, <6>1, <6>2 DEF AlikeOncePriced
        <5>3. f.makespan < b.makespan
          <6>1. ~Finishes(b, f)
                BY <4>9, <4>10, <5>1, <5>2 DEF NoWorse
          <6>2. ~(b.makespan <= f.makespan)
            <7>1. b.makespan # Nothing
                  BY <4>11
            <7> QED BY <6>1, <7>1 DEF Finishes
          <6> QED BY <4>11, <6>2
        <5> SUFFICES ASSUME Price(b.count, M) = Price(f.count, M) PROVE InTime(ps[i].count, M, D)
            BY <5>7
        <5>4. b.cost = 0
          <6>0. Price(b.count, M) = 0 => b.cost = 0
                BY <4>10, <5>6, RoundedRises
          <6> SUFFICES ASSUME Price(b.count, M) # 0 PROVE FALSE
              BY <6>0
          <6>1. PICK m \in M : b.makespan <= FinishTime(f.count, m)
                BY <4>2, <4>9
          <6>2. FinishTime(f.count, m) <= f.makespan /\ FinishTime(f.count, m) \in Nat
            <7>1. f.count \in [M -> Nat]
                  BY <4>9, SharesAre
            <7> QED BY <4>11, <7>1, FinishIs
          <6> QED BY <4>11, <5>3, <6>1, <6>2
        <5>5. ASSUME ~(p.makespan <= D) PROVE FALSE
          <6>1. f.makespan < p.makespan
                BY <4>11, <4>12, <5>5
          <6>2. Finishes(f, p) /\ ~Finishes(p, f)
            <7>1. p.makespan # Nothing /\ f.makespan # Nothing
                  BY <4>11
            <7> QED BY <4>11, <6>1, <7>1 DEF Finishes
          <6>3. f.unplaced = 0 /\ p.unplaced = 0 /\ f.cost = 0 /\ p.cost \in Nat
                BY <4>9, <4>10, <5>2, <5>4
          <6>4. NoWorse(f, p) /\ ~NoWorse(p, f)
                BY <6>2, <6>3 DEF NoWorse
          <6>5. DominatedIn(ps, 1)
                BY <4>1, <6>4 DEF DominatedIn
          <6> QED BY <4>6, <6>5 DEF Starred
        <5> QED BY <4>4, <4>14, <5>5
      <4>18. j = 1 \/ j = 3
             BY <4>1, <4>15
      <4> QED BY <4>16, <4>17, <4>18
    <3> QED BY <3>1, <3>2, <3>3
  <2> QED BY <2>1, <2>7, <2>8
<1> QED BY <1>7, <1>8

\* Of finitely many values the one after k of them is one of them.
LEMMA OrderStatisticIs ==
  ASSUME NEW f, IsFiniteSet(DOMAIN f), \A x \in DOMAIN f : f[x] \in Nat,
         NEW k \in Nat, k < Cardinality(DOMAIN f)
  PROVE  Nth(f, k) \in Nat /\ \E x \in DOMAIN f : Nth(f, k) = f[x]
<1> DEFINE X == DOMAIN f
           R == {p \in X \X X : f[p[1]] <= f[p[2]]}
           L(y) == {z \in X : f[z] <= f[y]}
           Y == {y \in X : Cardinality(L(y)) > k}
           V == {f[x] : x \in Y}
<1>1. X # {}
  <2> SUFFICES ASSUME X = {} PROVE FALSE
      OBVIOUS
  <2>1. Cardinality(X) = 0
        BY FS_EmptySet
  <2> QED BY <2>1
<1>2. \A a, b \in X : <<a, b>> \in R <=> f[a] <= f[b]
      OBVIOUS
<1> HIDE DEF R
<1>3. PICK y \in X : \A z \in X \ {y} : <<z, y>> \in R
  <2>1. /\ \A a, b \in X : a # b => <<a, b>> \in R \/ <<b, a>> \in R
        /\ \A a, b, c \in X : <<a, b>> \in R /\ <<b, c>> \in R => <<a, c>> \in R
        BY <1>2
  <2> HIDE DEF X
  <2>2. IsFiniteSet(X)
        BY DEF X
  <2> QED BY <1>1, <2>1, <2>2, LastExists
<1>4. L(y) = X
  <2>1. \A z \in X : f[z] <= f[y]
    <3>1. \A z \in X \ {y} : f[z] <= f[y]
          BY <1>2, <1>3
    <3>2. f[y] <= f[y]
          OBVIOUS
    <3> QED BY <3>1, <3>2
  <2> QED BY <2>1
<1>5. y \in Y
      BY <1>4
<1>6. IsFiniteSet(Y)
      BY FS_Subset
<1>7. IsFiniteSet(V) /\ V # {} /\ V \subseteq Int
  <2>1. \A x \in Y : f[x] \in Nat
        OBVIOUS
  <2> HIDE DEF Y
  <2>2. IsFiniteSet(V)
        BY <1>6, ImageFinite
  <2> QED BY <1>5, <2>1, <2>2
<1>8. Nth(f, k) = Min(V)
      BY DEF Nth
<1> HIDE DEF V
<1>9. Min(V) \in V
      BY <1>7, MinIs
<1> QED BY <1>8, <1>9 DEF V

\* The seconds a task is planned with, where there is any record.
LEMMA PlanningIs ==
  ASSUME NEW seen \in Seq(Nat)
  PROVE  /\ seen = <<>> => PlanningSeconds(seen) = Nothing
         /\ seen # <<>> => PlanningSeconds(seen) \in Nat
<1> SUFFICES ASSUME seen # <<>> PROVE PlanningSeconds(seen) \in Nat
    BY DEF PlanningSeconds
<1> DEFINE n == Len(seen)
<1>1. n \in Nat /\ n > 0 /\ DOMAIN seen = 1..n /\ \A x \in 1..n : seen[x] \in Nat
      BY EmptySeq
<1>2. IsFiniteSet(1..n) /\ Cardinality(1..n) = n
      BY <1>1, FS_Interval
<1>3. CASE Thin(seen)
  <2> DEFINE V == Range(seen)
  <2>1. V = {seen[x] : x \in 1..n}
        BY <1>1 DEF Range
  <2>2. IsFiniteSet(V)
        BY <1>2, <2>1, ImageFinite
  <2>3. V # {} /\ V \subseteq Int /\ V \subseteq Nat
        BY <1>1, <2>1
  <2> HIDE DEF V
  <2>4. Max(V) \in Nat
        BY <2>2, <2>3, MaxIs
  <2>5. 2 * Max(V) \in Nat
        BY <2>4
  <2> QED BY <1>3, <2>5 DEF PlanningSeconds, V
<1>4. CASE ~Thin(seen)
  <2> DEFINE k == (3 * (n - 1)) \div 4
             d == (3 * (n - 1)) % 4
  <2>1. k \in Nat /\ d \in 0..3 /\ 3 * (n - 1) = 4 * k + d
        BY <1>1
  <2> HIDE DEF k, d
  <2>2. k < n /\ (d # 0 => k + 1 < n) /\ 4 - d \in Nat /\ d \in Nat
        BY <1>1, <2>1
  <2>3. Nth(seen, k) \in Nat
        BY <1>1, <1>2, <2>1, <2>2, OrderStatisticIs
  <2>4. d # 0 => Nth(seen, k + 1) \in Nat
    <3> SUFFICES ASSUME d # 0 PROVE Nth(seen, k + 1) \in Nat
        OBVIOUS
    <3> DEFINE j == k + 1
    <3>1. j \in Nat /\ j < n
          BY <2>1, <2>2
    <3> HIDE DEF j
    <3>2. Nth(seen, j) \in Nat
          BY <1>1, <1>2, <3>1, OrderStatisticIs
    <3> QED BY <3>2 DEF j
  <2>5. Quartile(seen) = IF d = 0 THEN Nth(seen, k)
                         ELSE (Nth(seen, k) * (4 - d) + Nth(seen, k + 1) * d + 2) \div 4
        BY DEF Quartile, k, d
  <2>6. ASSUME NEW a \in Nat, NEW b \in Nat
        PROVE  (a * (4 - d) + b * d + 2) \div 4 \in Nat
    <3>1. a * (4 - d) + b * d \in Nat
      <4>1. \A x, y \in Nat : x * y \in Nat /\ x + y \in Nat
            OBVIOUS
      <4> QED BY <2>2, <4>1
    <3> DEFINE e == a * (4 - d) + b * d
    <3> HIDE DEF e
    <3>2. e \in Nat => (e + 2) \div 4 \in Nat
          OBVIOUS
    <3> QED BY <3>1, <3>2 DEF e
  <2>7. Quartile(seen) \in Nat
        BY <2>3, <2>4, <2>5, <2>6
  <2> QED BY <1>4, <2>7 DEF PlanningSeconds
<1> QED BY <1>3, <1>4

\* The machines that can be planned with are a team.
LEMMA ResolvedIs ==
  ASSUME NEW machines, IsFiniteSet(machines),
         \A m \in machines : /\ m.id \in Nat /\ m.slots \in Nat \ {0} /\ m.ask \in Nat
                             /\ m.venue = "workspace" => m.ask = 0,
         NEW posted, NEW seen \in [Ladder -> Seq(Nat)],
         NEW M, M = Resolve(machines, posted, seen)
  PROVE  /\ Team(M)
         /\ \A m \in machines : Usables(seen, posted, m.class) \in Seq(Nat)
         /\ \A m \in machines : Usables(seen, posted, m.class) # <<>> =>
              m.class \in Ladder /\ Member(m, PlanningSeconds(Usables(seen, posted, m.class))) \in M
         /\ \A x \in M : \E m \in machines :
              /\ Usables(seen, posted, m.class) # <<>>
              /\ x = Member(m, PlanningSeconds(Usables(seen, posted, m.class)))
<1>1. ASSUME NEW m \in machines
      PROVE  /\ Usables(seen, posted, m.class) \in Seq(Nat)
             /\ Usables(seen, posted, m.class) # <<>> => m.class \in Ladder
  <2>1. <<>> \in Seq(Nat)
        OBVIOUS
  <2> QED BY <2>1 DEF Usables
<1> DEFINE C == {c \in machines : Usables(seen, posted, c.class) # <<>>}
           f == [m \in C |-> Member(m, PlanningSeconds(Usables(seen, posted, m.class)))]
<1>2. M = {f[m] : m \in C}
      BY DEF Resolve
<1>3. IsFiniteSet(C)
      BY FS_Subset
<1>4. IsFiniteSet(M)
  <2> HIDE DEF C, f
  <2> QED BY <1>2, <1>3, ImageFinite
<1>5. ASSUME NEW m \in C
      PROVE  /\ f[m].id \in Nat /\ f[m].seconds \in Nat /\ f[m].unit \in Nat /\ f[m].tier \in Nat
             /\ f[m].slots \in Nat \ {0} /\ f[m].rank \in {0, 1}
             /\ f[m].rank = 0 => f[m].unit = 0
  <2> DEFINE s == PlanningSeconds(Usables(seen, posted, m.class))
  <2>1. s \in Nat
        BY <1>1, PlanningIs
  <2>2. f[m] = Member(m, s) /\ m \in machines
        OBVIOUS
  <2> HIDE DEF s, f
  <2>3. /\ f[m].id = m.id /\ f[m].seconds = s /\ f[m].unit = m.ask * s
        /\ f[m].slots = m.slots /\ f[m].rank = Rank(m) /\ f[m].tier = Tier(m)
        BY <2>2 DEF Member
  <2>4. Tier(m) \in Nat
        BY DEF Tier
  <2>5. Rank(m) \in {0, 1} /\ (Rank(m) = 0 => m.venue = "workspace")
        BY DEF Rank
  <2>6. m.ask * s \in Nat /\ (m.ask = 0 => m.ask * s = 0)
    <3>1. m.ask \in Nat
          BY <2>2
    <3>2. \A x, y \in Nat : x * y \in Nat /\ 0 * y = 0
          OBVIOUS
    <3> QED BY <2>1, <3>1, <3>2
  <2> QED BY <2>1, <2>2, <2>3, <2>4, <2>5, <2>6
<1>6. Team(M)
  <2> HIDE DEF f
  <2>1. \A x \in M : /\ x.id \in Nat /\ x.seconds \in Nat /\ x.unit \in Nat /\ x.tier \in Nat
                     /\ x.slots \in Nat \ {0} /\ x.rank \in {0, 1}
                     /\ x.rank = 0 => x.unit = 0
        BY <1>2, <1>5
  <2> QED BY <1>4, <2>1 DEF Team
<1>7. \A m \in machines : Usables(seen, posted, m.class) # <<>> =>
        Member(m, PlanningSeconds(Usables(seen, posted, m.class))) \in M
      BY DEF Resolve
<1>8. \A x \in M : \E m \in machines :
        /\ Usables(seen, posted, m.class) # <<>>
        /\ x = Member(m, PlanningSeconds(Usables(seen, posted, m.class)))
      BY DEF Resolve
<1> QED BY <1>1, <1>6, <1>7, <1>8

\* The middle of the asks is no less than one of them.
LEMMA MedianAskIs ==
  ASSUME NEW machines, IsFiniteSet(machines), \A m \in machines : m.ask \in Nat, NEW class,
         Nothing \notin Nat, MedianAsk(machines, class) # Nothing
  PROVE  /\ MedianAsk(machines, class) \in Nat
         /\ \E m \in machines : /\ m.venue = "market" /\ m.class = class
                                /\ m.ask <= MedianAsk(machines, class)
<1> DEFINE X == {n \in machines : n.venue = "market" /\ n.class = class}
           asks == AsksOf(machines, class)
           many == Cardinality(X)
           half == many \div 2
           odd == many % 2
<1>1. DOMAIN asks = X /\ \A m \in X : asks[m] = m.ask
      BY DEF AsksOf
<1>2. IsFiniteSet(X)
      BY FS_Subset
<1>3. many \in Nat
      BY <1>2, FS_CardinalityType
<1>4. \A m \in X : asks[m] \in Nat /\ m \in machines /\ m.venue = "market" /\ m.class = class
      BY <1>1
<1>5. MedianAsk(machines, class) =
        IF many = 0 THEN Nothing
        ELSE IF odd = 1 THEN Nth(asks, half)
        ELSE (Nth(asks, half - 1) + Nth(asks, half)) \div 2
      BY <1>1 DEF MedianAsk
<1>6. many # 0
      BY <1>5
<1> HIDE DEF asks, X
<1>7. many = (2 * half) + odd /\ half \in Nat /\ odd \in {0, 1}
  <2> HIDE DEF many
  <2> QED BY <1>3
<1> HIDE DEF many, half, odd
<1>8. half < many /\ (odd # 1 => half - 1 \in Nat /\ half - 1 < many)
      BY <1>3, <1>6, <1>7
<1>9. \A k \in Nat : k < many => Nth(asks, k) \in Nat /\ \E x \in X : Nth(asks, k) = asks[x]
      BY <1>1, <1>2, <1>4, OrderStatisticIs DEF many
<1>10. CASE odd = 1
  <2>1. PICK x \in X : Nth(asks, half) = asks[x]
        BY <1>7, <1>8, <1>9
  <2>2. Nth(asks, half) \in Nat /\ MedianAsk(machines, class) = Nth(asks, half)
        BY <1>5, <1>6, <1>7, <1>8, <1>9, <1>10
  <2>3. x.ask <= MedianAsk(machines, class)
        BY <1>1, <2>1, <2>2
  <2> QED BY <1>4, <2>2, <2>3
<1>11. CASE odd # 1
  <2> DEFINE a == Nth(asks, half - 1)
             b == Nth(asks, half)
  <2>1. a \in Nat /\ b \in Nat /\ (\E x \in X : a = asks[x]) /\ \E x \in X : b = asks[x]
        BY <1>7, <1>8, <1>9, <1>11
  <2>2. MedianAsk(machines, class) = (a + b) \div 2
        BY <1>5, <1>6, <1>11
  <2> HIDE DEF a, b
  <2>3. (a + b) \div 2 \in Nat /\ (a <= (a + b) \div 2 \/ b <= (a + b) \div 2)
        BY <2>1
  <2>4. PICK x \in X : asks[x] <= (a + b) \div 2
        BY <2>1, <2>3
  <2>5. x.ask <= MedianAsk(machines, class)
        BY <1>1, <2>2, <2>4
  <2> QED BY <1>4, <2>2, <2>3, <2>5
<1> QED BY <1>10, <1>11

\* All the tasks on one machine.
LEMMA OnOneMachine ==
  ASSUME NEW M, Team(M), NEW x \in M, NEW n \in Nat
  PROVE  \E c \in [M -> Nat] : SumOver(c, M) = n /\ Price(c, M) = x.unit * n
<1> DEFINE z == [m \in M |-> 0]
           c == [m \in M |-> IF m = x THEN n ELSE 0]
<1>1. IsFiniteSet(M) /\ x.unit \in Nat /\ \A m \in M : m.unit \in Nat
      BY DEF Team
<1>2. c \in [M -> Nat] /\ c[x] = n /\ \A m \in M : m # x => c[m] = 0
      OBVIOUS
<1>3. \A m \in M : z[m] = 0
      OBVIOUS
<1> HIDE DEF c, z
<1>4. SumOver(z, M) = 0
      BY <1>1, <1>3, TotalZero
<1>5. SumOver(c, M) = n
  <2>1. /\ c[x] \in Int /\ \A m \in M : z[m] \in Int
        /\ \A m \in M : m # x => c[m] = z[m]
        BY <1>2, <1>3
  <2>2. SumOver(c, M) = SumOver(z, M) + c[x] - z[x]
        BY <1>1, <2>1, TotalUpdate
  <2> QED BY <1>2, <1>3, <1>4, <2>2
<1> DEFINE d == Dues(c, M)
<1>6. Price(c, M) = SumOver(d, M) /\ \A m \in M : d[m] = m.unit * c[m] /\ d[m] \in Nat
      BY <1>2, PriceIs
<1> HIDE DEF d
<1>7. \A m \in M : m # x => d[m] = 0
  <2>1. \A k \in Nat : k * 0 = 0
        OBVIOUS
  <2> QED BY <1>1, <1>2, <1>6, <2>1
<1>8. SumOver(d, M) = x.unit * n
  <2>1. /\ d[x] \in Int /\ \A m \in M : z[m] \in Int
        /\ \A m \in M : m # x => d[m] = z[m]
        BY <1>3, <1>6, <1>7
  <2>2. SumOver(d, M) = SumOver(z, M) + d[x] - z[x]
        BY <1>1, <2>1, TotalUpdate
  <2>3. d[x] = x.unit * n /\ x.unit * n \in Nat
    <3>1. \A a, b \in Nat : a * b \in Nat
          OBVIOUS
    <3> QED BY <1>1, <1>2, <1>6, <3>1
  <2> QED BY <1>3, <1>4, <2>2, <2>3
<1> QED BY <1>2, <1>5, <1>6, <1>8

\* The cheapest plan costs no more than any one machine alone.
LEMMA CheapestBelow ==
  ASSUME NEW M, Team(M), NEW n \in Nat, n > 0, Nothing \notin Nat, NEW x \in M,
         NEW p, p = Cheapest("cheapest", M, n, Nothing)
  PROVE  p.cost \in Nat /\ p.cost <= Rounded(x.unit * n)
<1>1. /\ PlannedWell(p, M, n, Nothing)
      /\ \A c \in Shares(M, n, Nothing) :
           SumOver(c, M) = SumOver(p.count, M) => Price(p.count, M) <= Price(c, M)
  <2>1. M # {}
        OBVIOUS
  <2> QED BY <2>1, FirstIs
<1>2. PICK c \in [M -> Nat] : SumOver(c, M) = n /\ Price(c, M) = x.unit * n
      BY OnOneMachine
<1>3. SumOver(p.count, M) = n /\ p.cost \in Nat
  <2>1. /\ p.unplaced = n - SumOver(p.count, M) /\ SumOver(p.count, M) \in Nat
        /\ p.unplaced = 0 /\ p.cost \in Nat
        BY <1>1 DEF PlannedWell
  <2> QED BY <2>1
<1>4. InTime(c, M, Nothing)
      BY DEF InTime
<1>5. c \in Shares(M, n, Nothing)
      BY <1>2, <1>4, SharesAre
<1> DEFINE b == p.count
<1>6. b \in Shares(M, n, Nothing) /\ p.cost = Rounded(Price(b, M)) /\ Price(b, M) <= Price(c, M)
      BY <1>1, <1>2, <1>3, <1>5 DEF PlannedWell
<1> HIDE DEF b
<1>7. Price(b, M) \in Nat /\ Price(c, M) \in Nat
  <2>1. b \in [M -> Nat]
        BY <1>6, SharesAre
  <2> QED BY <2>1, PriceIs
<1> QED BY <1>2, <1>3, <1>6, <1>7, RoundedRises

\* The machines a job may run on.
Survivors(machines, posted) == Admitted(EligibleFleet(machines), Classify(posted), posted.gpus)

\* What is quoted by venue and class agrees with what is planned machine by machine.
LEMMA QuoteMatches ==
  ASSUME NEW machines \in Fleets, machines = fleet, NEW posted,
         NEW seen \in [Ladder -> Seq(Nat)], NEW n \in Nat, n > 0,
         NEW rows, rows = CostRows(machines, posted, seen, n, Nothing),
         NEW q, q = PlanJob(machines, posted, seen, n, Nothing)
  PROVE  Matches(rows, q)
<1> DEFINE S == Survivors(machines, posted)
           M == Resolve(S, posted, seen)
           ps == Plans(M, n, Nothing)
           use(m) == Usables(seen, posted, m.class)
           row(g) == CostQuoteRow(machines, g, posted, seen, n, Nothing)
<1>1. /\ IsFiniteSet(machines) /\ Nothing \notin Nat
      /\ \A m \in machines : /\ m.id \in Nat /\ m.slots \in Nat \ {0} /\ m.ask \in Nat
                             /\ m.venue = "workspace" => m.ask = 0
      /\ \A m, k \in machines : m.id = k.id => m = k
      BY RouterAssumption
<1>2. /\ S \subseteq machines
      /\ \A m \in machines : EligibleFleet(machines) = machines /\ S # {} => m \in S
      BY DEF Survivors, Admitted, EligibleFleet, VenueOf
<1>3. IsFiniteSet(S)
      BY <1>1, <1>2, FS_Subset
<1> HIDE DEF S
<1>4. /\ Team(M)
      /\ \A m \in S : use(m) \in Seq(Nat)
      /\ \A m \in S : use(m) # <<>> => m.class \in Ladder /\ Member(m, PlanningSeconds(use(m))) \in M
      /\ \A x \in M : \E m \in S : use(m) # <<>> /\ x = Member(m, PlanningSeconds(use(m)))
  <2>1. \A m \in S : /\ m.id \in Nat /\ m.slots \in Nat \ {0} /\ m.ask \in Nat
                     /\ m.venue = "workspace" => m.ask = 0
        BY <1>1, <1>2
  <2>2. M = Resolve(S, posted, seen)
        OBVIOUS
  <2> HIDE DEF M
  <2>3. /\ Team(M)
        /\ \A m \in S : Usables(seen, posted, m.class) \in Seq(Nat)
        /\ \A m \in S : Usables(seen, posted, m.class) # <<>> =>
             m.class \in Ladder /\ Member(m, PlanningSeconds(Usables(seen, posted, m.class))) \in M
        /\ \A x \in M : \E m \in S :
             /\ Usables(seen, posted, m.class) # <<>>
             /\ x = Member(m, PlanningSeconds(Usables(seen, posted, m.class)))
        BY <1>3, <2>1, <2>2, ResolvedIs
  <2> QED BY <2>3
<1>5. q.members = M /\ q.plans = ps
      BY DEF PlanJob, Shown, S, Survivors
<1>6. rows = {row(g) : g \in {<<m.venue, m.class>> : m \in {c \in S : c.class \in Ladder}}}
      BY DEF CostRows, RowsOf, S, Survivors
<1>7. \A m \in S : LET r == row(<<m.venue, m.class>>)
                       price == ClassPrice(machines, m.venue, m.class)
                   IN /\ r.venue = m.venue /\ r.class = m.class
                      /\ r.seconds = PlanningSeconds(use(m))
                      /\ r.cost = IF Nothing \in {price, r.seconds} THEN Nothing
                                  ELSE Rounded(price * r.seconds * n)
      BY DEF CostQuoteRow
<1>8. \A r \in rows : \E m \in S : r = row(<<m.venue, m.class>>) /\ m.class \in Ladder
  <2> HIDE DEF row
  <2> SUFFICES ASSUME NEW r \in rows
               PROVE  \E m \in S : r = row(<<m.venue, m.class>>) /\ m.class \in Ladder
      OBVIOUS
  <2>1. PICK g \in {<<m.venue, m.class>> : m \in {c \in S : c.class \in Ladder}} : r = row(g)
        BY <1>6
  <2> QED BY <2>1
<1>9. \A m \in S : m.class \in Ladder => row(<<m.venue, m.class>>) \in rows
      BY <1>6
<1> HIDE DEF M, ps, row, use
<1>10. \A m \in S : PlanningSeconds(use(m)) # Nothing <=> use(m) # <<>>
  <2>1. \A m \in S : /\ use(m) = <<>> => PlanningSeconds(use(m)) = Nothing
                     /\ use(m) # <<>> => PlanningSeconds(use(m)) \in Nat
        BY <1>4, PlanningIs
  <2> QED BY <1>1, <2>1
<1> DEFINE A == {m \in fleet : m.id \in {c.id : c \in M}}
           Q == {r \in rows : r.seconds # Nothing}
<1>11. \A m \in A : m \in S /\ use(m) # <<>>
  <2> SUFFICES ASSUME NEW m \in A PROVE m \in S /\ use(m) # <<>>
      OBVIOUS
  <2>1. PICK x \in M : m.id = x.id
        OBVIOUS
  <2>2. PICK k \in S : use(k) # <<>> /\ x = Member(k, PlanningSeconds(use(k)))
        BY <1>4
  <2>3. x.id = k.id
        BY <2>2 DEF Member
  <2>4. m = k
        BY <1>1, <1>2, <2>1, <2>3
  <2> QED BY <2>2, <2>4
<1>12. \A m \in S : use(m) # <<>> => m \in A
  <2> SUFFICES ASSUME NEW m \in S, use(m) # <<>> PROVE m \in A
      OBVIOUS
  <2> DEFINE x == Member(m, PlanningSeconds(use(m)))
  <2>1. x \in M
        BY <1>4
  <2>2. x.id = m.id
        BY DEF Member
  <2> HIDE DEF x
  <2> QED BY <1>2, <2>1, <2>2
<1>13. {<<m.venue, m.class>> : m \in A} = {<<r.venue, r.class>> : r \in Q}
  <2>1. ASSUME NEW m \in A PROVE \E r \in Q : <<m.venue, m.class>> = <<r.venue, r.class>>
    <3> DEFINE r == row(<<m.venue, m.class>>)
    <3>1. m \in S /\ use(m) # <<>> /\ m.class \in Ladder
          BY <1>4, <1>11
    <3>2. r \in rows /\ r.venue = m.venue /\ r.class = m.class /\ r.seconds = PlanningSeconds(use(m))
          BY <1>7, <1>9, <3>1
    <3> QED BY <1>10, <3>1, <3>2
  <2>2. ASSUME NEW r \in Q PROVE \E m \in A : <<m.venue, m.class>> = <<r.venue, r.class>>
    <3>1. PICK m \in S : r = row(<<m.venue, m.class>>) /\ m.class \in Ladder
          BY <1>8
    <3>2. r.venue = m.venue /\ r.class = m.class /\ r.seconds = PlanningSeconds(use(m))
          BY <1>7, <3>1
    <3>3. m \in A
          BY <1>10, <1>12, <3>2
    <3> QED BY <3>2, <3>3
  <2> HIDE DEF A, Q
  <2> QED BY <2>1, <2>2
<1>14. ASSUME EligibleFleet(machines) = machines, NEW r \in PricedRows(rows),
              NEW i \in Named(ps, "cheapest")
       PROVE  ps[i].cost <= r.cost
  <2>1. PICK m \in S : r = row(<<m.venue, m.class>>) /\ m.class \in Ladder
        BY <1>8 DEF PricedRows
  <2> DEFINE price == ClassPrice(machines, m.venue, m.class)
             s == PlanningSeconds(use(m))
  <2>2. /\ r.seconds = s /\ r.cost # Nothing
        /\ r.cost = IF Nothing \in {price, r.seconds} THEN Nothing
                   ELSE Rounded(price * r.seconds * n)
        BY <1>7, <2>1 DEF PricedRows
  <2>3. price # Nothing /\ s # Nothing /\ r.cost = Rounded(price * s * n)
        BY <2>2
  <2>4. use(m) # <<>> /\ s \in Nat
        BY <1>4, <1>10, <2>3, PlanningIs
  <2>5. price \in Nat /\ \E k \in S : k.class = m.class /\ k.ask <= price
    <3>1. CASE m.venue = "workspace"
      <4>1. price = 0 /\ m.ask = 0
            BY <1>1, <1>2, <3>1 DEF ClassPrice
      <4> QED BY <4>1
    <3>2. CASE m.venue # "workspace"
      <4>1. price = MedianAsk(machines, m.class)
            BY <3>2 DEF ClassPrice
      <4>2. /\ MedianAsk(machines, m.class) \in Nat
            /\ \E k \in machines : /\ k.venue = "market" /\ k.class = m.class
                                   /\ k.ask <= MedianAsk(machines, m.class)
        <5>1. /\ \A k \in machines : k.ask \in Nat
              /\ MedianAsk(machines, m.class) # Nothing
              BY <1>1, <2>3, <4>1
        <5> QED BY <1>1, <5>1, MedianAskIs
      <4>3. PICK k \in machines : k.class = m.class /\ k.ask <= MedianAsk(machines, m.class)
            BY <4>2
      <4>4. k \in S
            BY <1>2, <1>14
      <4> QED BY <4>1, <4>2, <4>3, <4>4
    <3> QED BY <3>1, <3>2
  <2>6. PICK k \in S : k.class = m.class /\ k.ask <= price
        BY <2>5
  <2>7. use(k) = use(m) /\ k.ask \in Nat
        BY <1>1, <1>2, <2>6 DEF use
  <2> DEFINE x == Member(k, s)
  <2>8. x \in M
        BY <1>4, <2>4, <2>7
  <2>9. x.unit = k.ask * s
        BY DEF Member
  <2> HIDE DEF x, s, price
  <2>10. ps[i] = Cheapest("cheapest", M, n, Nothing)
    <3>1. /\ DOMAIN ps = 1..2 /\ ps[1] = Cheapest("cheapest", M, n, Nothing)
          /\ ps[2] = Fastest(M, n, Nothing)
          BY <2>8, PlansAre DEF ps
    <3>2. ps[2].name = "fastest"
          BY <3>1 DEF Fastest, Assemble
    <3>3. i \in 1..2 /\ ps[i].name = "cheapest"
          BY <3>1 DEF Named
    <3>4. i = 1 \/ i = 2
          BY <3>3
    <3> QED BY <3>1, <3>2, <3>3, <3>4
  <2>11. ps[i].cost \in Nat /\ ps[i].cost <= Rounded(x.unit * n)
    <3> DEFINE p == ps[i]
    <3>1. p = Cheapest("cheapest", M, n, Nothing)
          BY <2>10
    <3> HIDE DEF p
    <3>2. p.cost \in Nat /\ p.cost <= Rounded(x.unit * n)
          BY <1>1, <1>4, <2>8, <3>1, CheapestBelow
    <3> QED BY <3>2 DEF p
  <2>12. x.unit * n <= price * s * n /\ x.unit * n \in Nat /\ price * s * n \in Nat
    <3>1. PICK e \in Nat : price = k.ask + e
      <4>1. price - k.ask \in Nat /\ price = k.ask + (price - k.ask)
            BY <2>5, <2>6, <2>7
      <4> QED BY <4>1
    <3> DEFINE a == k.ask
    <3>2. a \in Nat
          BY <2>7
    <3> HIDE DEF a
    <3>3. (a + e) * s * n = a * s * n + e * s * n
          BY <2>4, <3>2
    <3>4. a * s * n \in Nat /\ e * s * n \in Nat
      <4>1. \A u, v \in Nat : u * v \in Nat
            OBVIOUS
      <4> QED BY <2>4, <3>2, <4>1
    <3>5. x.unit * n = a * s * n /\ price * s * n = (a + e) * s * n
          BY <2>9, <3>1 DEF a
    <3> QED BY <3>3, <3>4, <3>5
  <2>13. /\ Rounded(x.unit * n) <= Rounded(price * s * n)
         /\ Rounded(x.unit * n) \in Nat /\ Rounded(price * s * n) \in Nat
         BY <2>12, RoundedRises
  <2> QED BY <2>3, <2>11, <2>13
<1> HIDE DEF A, Q
<1> QED BY <1>5, <1>13, <1>14 DEF Matches, A, Q

\* The machine a plan leans on is one of its own.
LEMMA LeanedIs ==
  ASSUME NEW M, Team(M), M # {}, NEW p, p.count \in [M -> Nat]
  PROVE  Leaned(p) \in M
<1> DEFINE c == p.count
           After(x, y) == c[x] > c[y] \/ (c[x] = c[y] /\ x.id >= y.id)
           R == {e \in M \X M : After(e[2], e[1])}
<1>1. \A x, y \in M : <<y, x>> \in R <=> After(x, y)
      OBVIOUS
<1>2. \A m \in M : c[m] \in Nat /\ m.id \in Nat
      BY DEF Team
<1>3. /\ \A a, b \in M : a # b => <<a, b>> \in R \/ <<b, a>> \in R
      /\ \A a, b, d \in M : (<<a, b>> \in R /\ <<b, d>> \in R) => <<a, d>> \in R
      /\ \A m \in M : After(m, m)
  <2> HIDE DEF c, R
  <2>1. \A a, b \in M : After(a, b) \/ After(b, a)
        BY <1>2
  <2>2. \A a, b, d \in M : After(b, a) /\ After(d, b) => After(d, a)
        BY <1>2
  <2>3. \A m \in M : After(m, m)
        BY <1>2
  <2> HIDE DEF After
  <2> QED BY <1>1, <2>1, <2>2, <2>3
<1> HIDE DEF R
<1>4. PICK z \in M : \A a \in M \ {z} : <<a, z>> \in R
  <2>1. IsFiniteSet(M)
        BY DEF Team
  <2> QED BY <1>3, <2>1, LastExists
<1>5. \A a \in M : After(z, a)
      BY <1>1, <1>3, <1>4
<1>6. Leaned(p) = CHOOSE x \in M : \A y \in M : After(x, y)
  <2>1. DOMAIN c = M
        OBVIOUS
  <2> QED BY <2>1 DEF Leaned
<1> HIDE DEF After
<1> QED BY <1>5, <1>6

\* The first of the machines is one of them.
LEMMA FirstOfIs ==
  ASSUME NEW S, IsFiniteSet(S), S # {}, \A m \in S : m.id \in Nat
  PROVE  FirstOf(S) \in S
<1> DEFINE Before(x, y) == Rank(x) < Rank(y) \/ (Rank(x) = Rank(y) /\ x.id <= y.id)
           R == {e \in S \X S : Before(e[2], e[1])}
<1>1. \A x, y \in S : <<y, x>> \in R <=> Before(x, y)
      OBVIOUS
<1>2. \A m \in S : Rank(m) \in Nat /\ m.id \in Nat
      BY DEF Rank
<1>3. /\ \A a, b \in S : a # b => <<a, b>> \in R \/ <<b, a>> \in R
      /\ \A a, b, d \in S : (<<a, b>> \in R /\ <<b, d>> \in R) => <<a, d>> \in R
      /\ \A m \in S : Before(m, m)
  <2> HIDE DEF R
  <2>1. \A a, b \in S : Before(a, b) \/ Before(b, a)
        BY <1>2
  <2>2. \A a, b, d \in S : Before(b, a) /\ Before(d, b) => Before(d, a)
        BY <1>2
  <2>3. \A m \in S : Before(m, m)
        BY <1>2
  <2> HIDE DEF Before
  <2> QED BY <1>1, <2>1, <2>2, <2>3
<1> HIDE DEF R
<1>4. PICK z \in S : \A a \in S \ {z} : <<a, z>> \in R
      BY <1>3, LastExists
<1>5. \A a \in S : Before(z, a)
      BY <1>1, <1>3, <1>4
<1>6. FirstOf(S) = CHOOSE x \in S : \A y \in S : Before(x, y)
      BY DEF FirstOf
<1> HIDE DEF Before
<1> QED BY <1>5, <1>6

\* A canary is a machine the job may run on.
LEMMA CanaryIs ==
  ASSUME Nothing \notin Nat, NEW S, IsFiniteSet(S),
         \A m \in S : /\ m.id \in Nat /\ m.slots \in Nat \ {0} /\ m.ask \in Nat
                      /\ m.venue = "workspace" => m.ask = 0,
         NEW posted, NEW seen \in [Ladder -> Seq(Nat)], NEW M, M = Resolve(S, posted, seen),
         NEW n \in Nat, n > 0, NEW D \in Nat \cup {Nothing}, NEW ps, ps = Plans(M, n, D),
         NEW thin, NEW canary, canary = CanaryFor(ps, S, n, thin), canary # Nothing
  PROVE  \E m \in S : m.id = canary
<1> DEFINE W == {i \in DOMAIN ps : Placed(ps[i].count) > 0}
           P == Preferred(ps, W)
<1>1. S # {} /\ canary = LeanedOn(ps, S, P)
      BY DEF CanaryFor
<1>2. CASE P = {}
  <2>1. canary = FirstOf(S).id
        BY <1>1, <1>2 DEF LeanedOn
  <2>2. FirstOf(S) \in S
        BY <1>1, FirstOfIs
  <2> QED BY <2>1, <2>2
<1>3. CASE P # {}
  <2> DEFINE i == CHOOSE i \in Named(ps, Choice(P)) : TRUE
             p == ps[i]
  <2>1. canary = Leaned(p).id
        BY <1>1, <1>3 DEF LeanedOn
  <2>2. i \in DOMAIN ps
    <3>1. /\ Min(P) \in P /\ Choice(P) = Preference[Min(P)]
          /\ \A k \in P : \E j \in W : j \in DOMAIN ps /\ ps[j].name = Preference[k]
      <4> HIDE DEF W
      <4>1. /\ P # {} => /\ Min(P) \in P /\ \A k \in P : Min(P) <= k
                         /\ Choice(P) = Preference[Min(P)]
            /\ \A k \in P : \E j \in W : j \in DOMAIN ps /\ ps[j].name = Preference[k]
            BY ChoiceIs
      <4> QED BY <1>3, <4>1
    <3>2. PICK j \in DOMAIN ps : ps[j].name = Choice(P)
      <4> HIDE DEF W, P
      <4>1. \E j \in W : j \in DOMAIN ps /\ ps[j].name = Preference[Min(P)]
            BY <3>1
      <4> QED BY <3>1, <4>1
    <3>3. j \in Named(ps, Choice(P))
          BY <3>2 DEF Named
    <3>4. Named(ps, Choice(P)) \subseteq DOMAIN ps
          BY DEF Named
    <3> QED BY <3>3, <3>4
  <2> HIDE DEF i, P, W
  <2>3. /\ Team(M)
        /\ \A x \in M : \E m \in S :
             /\ Usables(seen, posted, m.class) # <<>>
             /\ x = Member(m, PlanningSeconds(Usables(seen, posted, m.class)))
        BY ResolvedIs
  <2>4. M # {}
        BY <2>2, PlansAre
  <2> DEFINE limit == IF p.name = "cheapest" THEN Nothing ELSE D
  <2>5. PlannedWell(p, M, n, limit)
        BY <2>2, <2>3, PlansBest
  <2> HIDE DEF p
  <2>6. p.count \in [M -> Nat]
    <3>1. p.count \in Shares(M, n, limit)
          BY <2>5 DEF PlannedWell
    <3> HIDE DEF limit
    <3> QED BY <2>3, <3>1, SharesAre
  <2>7. Leaned(p) \in M
        BY <2>3, <2>4, <2>6, LeanedIs
  <2>8. PICK m \in S : Leaned(p) = Member(m, PlanningSeconds(Usables(seen, posted, m.class)))
        BY <2>3, <2>7
  <2>9. Leaned(p).id = m.id
        BY <2>8 DEF Member
  <2> QED BY <2>1, <2>9
<1> QED BY <1>2, <1>3

-----------------------------------------------------------------------------
\* A page that shows plans shows those of the machines the job may run on, timed by some
\* record of durations.
Shows(q, machines, seen) ==
  /\ q = [at |-> q.at, job |-> q.job, tasks |-> q.tasks, deadline |-> q.deadline,
          members |-> q.members, plans |-> q.plans, recommended |-> q.recommended,
          probed |-> q.probed, canary |-> q.canary]
  /\ q.tasks \in Nat \ {0} /\ q.deadline \in Nat \cup {Nothing}
  /\ q.members = Resolve(Survivors(machines, q.job), q.job, seen)
  /\ q.plans = Plans(q.members, q.tasks, q.deadline) /\ q.recommended = Recommend(q.plans)
  /\ q.canary # Nothing => \E m \in Survivors(machines, q.job) : m.id = q.canary

\* What the page shows was worked out from the fleet, and one that asks again for a canary
\* has a machine to plan with.
QuoteFits ==
  /\ RouterFits
  /\ Previewed => fleet \in Fleets /\ \E seen \in [Ladder -> Seq(Nat)] : Shows(quote, fleet, seen)
  /\ quote.at = "stale" =>
       \E m \in Survivors(fleet, quote.job) : Usables(samples, quote.job, m.class) # <<>>
  /\ quote.at = "shown" /\ quote.probed => quote.plans # <<>>
  /\ quote.at = "costed" =>
       /\ fleet \in Fleets /\ quote.tasks \in Nat \ {0}
       /\ quote.rows = CostRows(fleet, quote.job, samples, quote.tasks, quote.given)

\* The machines a job may run on are machines of the fleet.
LEMMA SurvivorsAre ==
  ASSUME NEW machines \in Fleets, NEW posted
  PROVE  /\ Survivors(machines, posted) \subseteq machines
         /\ IsFiniteSet(Survivors(machines, posted)) /\ Nothing \notin Nat
         /\ \A m \in Survivors(machines, posted) :
              /\ m.id \in Nat /\ m.slots \in Nat \ {0} /\ m.ask \in Nat
              /\ m.venue = "workspace" => m.ask = 0
         /\ \A m, n \in machines : m.id = n.id => m = n
<1>1. Survivors(machines, posted) \subseteq machines
      BY DEF Survivors, Admitted, EligibleFleet
<1>2. /\ IsFiniteSet(machines) /\ Nothing \notin Nat
      /\ \A m \in machines : /\ m.id \in Nat /\ m.slots \in Nat \ {0} /\ m.ask \in Nat
                             /\ m.venue = "workspace" => m.ask = 0
      /\ \A m, k \in machines : m.id = k.id => m = k
      BY RouterAssumption
<1>3. IsFiniteSet(Survivors(machines, posted))
      BY <1>1, <1>2, FS_Subset
<1> QED BY <1>1, <1>2, <1>3

\* A plan that is asked for is shown.
LEMMA PlanShows ==
  ASSUME NEW machines \in Fleets, NEW posted, NEW seen \in [Ladder -> Seq(Nat)],
         NEW n \in Nat \ {0}, NEW D \in Nat \cup {Nothing},
         NEW q, q = PlanJob(machines, posted, seen, n, D)
  PROVE  Shows(q, machines, seen)
<1> DEFINE S == Survivors(machines, posted)
           M == Resolve(S, posted, seen)
           ps == Plans(M, n, D)
           thin == Thin(OneDuration(machines, posted, seen))
           best == Recommend(ps)
           canary == CanaryFor(ps, S, n, thin)
<1>1. q = [at |-> "shown", job |-> posted, tasks |-> n, deadline |-> D, members |-> M,
           plans |-> ps, recommended |-> best, probed |-> FALSE, canary |-> canary]
      BY DEF PlanJob, Shown, Survivors
<1>2. canary # Nothing => \E m \in S : m.id = canary
  <2>1. /\ IsFiniteSet(S) /\ Nothing \notin Nat
        /\ \A m \in S : /\ m.id \in Nat /\ m.slots \in Nat \ {0} /\ m.ask \in Nat
                        /\ m.venue = "workspace" => m.ask = 0
        BY SurvivorsAre
  <2>2. n \in Nat /\ n > 0
        OBVIOUS
  <2> HIDE DEF S, thin
  <2> QED BY <2>1, <2>2, CanaryIs
<1> HIDE DEF M, ps, thin, best, canary
<1>3. /\ q.at = "shown" /\ q.job = posted /\ q.tasks = n /\ q.deadline = D /\ q.members = M
      /\ q.plans = ps /\ q.recommended = best /\ q.probed = FALSE /\ q.canary = canary
      BY <1>1
<1>4. q = [at |-> q.at, job |-> q.job, tasks |-> q.tasks, deadline |-> q.deadline,
           members |-> q.members, plans |-> q.plans, recommended |-> q.recommended,
           probed |-> q.probed, canary |-> q.canary]
      BY <1>1, <1>3
<1>5. M = Resolve(Survivors(machines, posted), posted, seen) /\ ps = Plans(M, n, D) /\ best = Recommend(ps)
      BY DEF M, ps, best
<1> QED BY <1>2, <1>3, <1>4, <1>5 DEF Shows

\* The first page.
LEMMA QuoteFitsInit == RouterInit => QuoteFits
<1> SUFFICES ASSUME RouterInit PROVE QuoteFits
    OBVIOUS
<1>1. RouterFits
      BY RouterFitsInit
<1>2. quote.at = "none"
      BY DEF RouterInit, NoQuote
<1> QED BY <1>1, <1>2 DEF QuoteFits, Previewed

\* Every page keeps what is known of it.
LEMMA QuoteFitsStep == QuoteFits /\ [RouterNext]_routerVars => QuoteFits'
<1> SUFFICES ASSUME QuoteFits, [RouterNext]_routerVars PROVE QuoteFits'
    OBVIOUS
<1>1. RouterFits'
      BY RouterFitsStep DEF QuoteFits
<1>2. samples \in [Ladder -> Seq(Nat)] /\ (fleet = {} \/ fleet \in Fleets)
      BY DEF QuoteFits, RouterFits
<1>3. /\ [Ladder -> Durations] \subseteq [Ladder -> Seq(Nat)]
      /\ TaskCounts \subseteq Nat \ {0} /\ Deadlines \subseteq Nat \cup {Nothing}
      BY RouterAssumption
<1>4. ASSUME NEW machines \in Fleets, NEW seen \in [Ladder -> Durations], NEW posted \in Workloads,
             NEW tasks \in TaskCounts, NEW deadline \in Deadlines,
             PreviewPlans(machines, seen, posted, tasks, deadline)
      PROVE  QuoteFits'
  <2>1. /\ fleet' = machines /\ samples' = seen
        /\ quote' = PlanJob(machines, posted, seen, tasks, deadline)
        BY <1>4 DEF PreviewPlans, Read
  <2>2. seen \in [Ladder -> Seq(Nat)] /\ tasks \in Nat \ {0} /\ deadline \in Nat \cup {Nothing}
        BY <1>3
  <2>3. Shows(quote', machines, seen) /\ quote'.at = "shown" /\ quote'.probed = FALSE
    <3>1. PICK q : q = PlanJob(machines, posted, seen, tasks, deadline)
          OBVIOUS
    <3>2. Shows(q, machines, seen)
          BY <2>2, <3>1, PlanShows
    <3>3. q.at = "shown" /\ q.probed = FALSE
          BY <3>1 DEF PlanJob, Shown
    <3> QED BY <2>1, <3>1, <3>2, <3>3
  <2> QED BY <1>1, <2>1, <2>2, <2>3 DEF QuoteFits, Previewed
<1>5. ASSUME NEW seconds \in UNION {Range(d) : d \in Durations}, CreditPeer(seconds)
      PROVE  QuoteFits'
  <2>1. /\ quote.at = "shown" /\ quote.canary # Nothing /\ quote.job.stored
        /\ quote' = [quote EXCEPT !.at = "stale", !.probed = TRUE] /\ fleet' = fleet
        BY <1>5 DEF CreditPeer
  <2>2. PICK m \in fleet : /\ m.id = quote.canary /\ m.class \in Ladder
                           /\ samples' = [samples EXCEPT ![m.class] = Append(@, seconds)]
        BY <1>5 DEF CreditPeer
  <2>3. fleet \in Fleets /\ Previewed
        BY <2>1 DEF QuoteFits, Previewed
  <2>4. PICK seen \in [Ladder -> Seq(Nat)] : Shows(quote, fleet, seen)
        BY <2>3 DEF QuoteFits
  <2>5. /\ quote'.at = "stale" /\ quote'.probed = TRUE /\ quote'.job = quote.job
        /\ quote'.tasks = quote.tasks /\ quote'.deadline = quote.deadline
        /\ quote'.members = quote.members /\ quote'.plans = quote.plans
        /\ quote'.recommended = quote.recommended /\ quote'.canary = quote.canary
        /\ quote' = [at |-> quote'.at, job |-> quote'.job, tasks |-> quote'.tasks,
                     deadline |-> quote'.deadline, members |-> quote'.members,
                     plans |-> quote'.plans, recommended |-> quote'.recommended,
                     probed |-> quote'.probed, canary |-> quote'.canary]
    <3>1. quote = [at |-> quote.at, job |-> quote.job, tasks |-> quote.tasks,
                   deadline |-> quote.deadline, members |-> quote.members,
                   plans |-> quote.plans, recommended |-> quote.recommended,
                   probed |-> quote.probed, canary |-> quote.canary]
          BY <2>4 DEF Shows
    <3>2. quote' = [at |-> "stale", job |-> quote.job, tasks |-> quote.tasks,
                    deadline |-> quote.deadline, members |-> quote.members,
                    plans |-> quote.plans, recommended |-> quote.recommended,
                    probed |-> TRUE, canary |-> quote.canary]
          BY <2>1, <3>1
    <3> QED BY <3>2
  <2>6. Shows(quote', fleet, seen)
    <3>1. /\ quote.tasks \in Nat \ {0} /\ quote.deadline \in Nat \cup {Nothing}
          /\ quote.members = Resolve(Survivors(fleet, quote.job), quote.job, seen)
          /\ quote.plans = Plans(quote.members, quote.tasks, quote.deadline)
          /\ quote.recommended = Recommend(quote.plans)
          /\ quote.canary # Nothing => \E k \in Survivors(fleet, quote.job) : k.id = quote.canary
          BY <2>4 DEF Shows
    <3>2. /\ quote'.tasks \in Nat \ {0} /\ quote'.deadline \in Nat \cup {Nothing}
          /\ quote'.members = Resolve(Survivors(fleet, quote'.job), quote'.job, seen)
          /\ quote'.plans = Plans(quote'.members, quote'.tasks, quote'.deadline)
          /\ quote'.recommended = Recommend(quote'.plans)
          /\ quote'.canary # Nothing => \E k \in Survivors(fleet, quote'.job) : k.id = quote'.canary
          BY <2>5, <3>1
    <3> QED BY <2>5, <3>2 DEF Shows
  <2>7. m \in Survivors(fleet, quote.job)
    <3>1. PICK k \in Survivors(fleet, quote.job) : k.id = quote.canary
          BY <2>1, <2>4 DEF Shows
    <3>2. k \in fleet /\ m = k
          BY <2>2, <2>3, <3>1, SurvivorsAre
    <3> QED BY <3>2
  <2>8. Usables(samples', quote.job, m.class) # <<>>
    <3>1. samples[m.class] \in Seq(Nat)
          BY <1>2, <2>2
    <3>2. samples'[m.class] = Append(samples[m.class], seconds)
          BY <1>2, <2>2
    <3>3. Append(samples[m.class], seconds) # <<>>
      <4> DEFINE s == samples[m.class]
      <4>1. s \in Seq(Nat) /\ seconds \in Nat
        <5>1. seconds \in Nat
              BY RouterAssumption DEF Range
        <5> QED BY <3>1, <5>1
      <4> HIDE DEF s
      <4>2. Len(Append(s, seconds)) = Len(s) + 1 /\ Len(s) \in Nat /\ Len(<<>>) = 0
            BY <4>1
      <4>3. Len(Append(s, seconds)) # Len(<<>>)
            BY <4>2
      <4>4. Append(s, seconds) # <<>>
            BY <4>3
      <4> QED BY <4>4 DEF s
    <3> QED BY <2>1, <2>2, <3>2, <3>3 DEF Usables
  <2>9. \E x \in Survivors(fleet', quote'.job) : Usables(samples', quote'.job, x.class) # <<>>
        BY <2>1, <2>5, <2>7, <2>8
  <2>10. fleet' \in Fleets /\ Shows(quote', fleet', seen)
         BY <2>1, <2>3, <2>6
  <2> QED BY <1>1, <2>5, <2>9, <2>10 DEF QuoteFits, Previewed
<1>6. CASE PreviewAgain
  <2> DEFINE q == PlanJob(fleet, quote.job, samples, quote.tasks, quote.deadline)
  <2>1. quote.at = "stale" /\ quote' = [q EXCEPT !.probed = TRUE] /\ fleet' = fleet /\ samples' = samples
        BY <1>6 DEF PreviewAgain
  <2>2. fleet \in Fleets /\ \E seen \in [Ladder -> Seq(Nat)] : Shows(quote, fleet, seen)
        BY <2>1 DEF QuoteFits, Previewed
  <2>3. quote.tasks \in Nat \ {0} /\ quote.deadline \in Nat \cup {Nothing}
        BY <2>2 DEF Shows
  <2>4. Shows(q, fleet, samples) /\ q.at = "shown" /\ q.job = quote.job
    <3>1. PICK machines \in Fleets : machines = fleet
          BY <2>2
    <3>2. PICK seen \in [Ladder -> Seq(Nat)] : seen = samples
          BY <1>2
    <3>3. PICK n \in Nat \ {0} : n = quote.tasks
          BY <2>3
    <3>4. PICK D \in Nat \cup {Nothing} : D = quote.deadline
          BY <2>3
    <3>5. PICK posted : posted = quote.job
          OBVIOUS
    <3>6. PICK z : z = PlanJob(machines, posted, seen, n, D)
          OBVIOUS
    <3>7. Shows(z, machines, seen)
          BY <3>6, PlanShows
    <3>9. z.at = "shown" /\ z.job = posted
          BY <3>6 DEF PlanJob, Shown
    <3>8. q = z
          BY <3>1, <3>2, <3>3, <3>4, <3>5, <3>6
    <3> HIDE DEF q
    <3> QED BY <3>1, <3>2, <3>5, <3>7, <3>8, <3>9
  <2> HIDE DEF q
  <2>5. /\ q = [at |-> q.at, job |-> q.job, tasks |-> q.tasks, deadline |-> q.deadline,
                members |-> q.members, plans |-> q.plans, recommended |-> q.recommended,
                probed |-> q.probed, canary |-> q.canary]
        /\ q.tasks \in Nat \ {0} /\ q.deadline \in Nat \cup {Nothing}
        /\ q.members = Resolve(Survivors(fleet, q.job), q.job, samples)
        /\ q.plans = Plans(q.members, q.tasks, q.deadline) /\ q.recommended = Recommend(q.plans)
        /\ q.canary # Nothing => \E m \in Survivors(fleet, q.job) : m.id = q.canary
        BY <2>4 DEF Shows
  <2>6. quote' = [at |-> q.at, job |-> q.job, tasks |-> q.tasks, deadline |-> q.deadline,
                  members |-> q.members, plans |-> q.plans, recommended |-> q.recommended,
                  probed |-> TRUE, canary |-> q.canary]
        BY <2>1, <2>5
  <2>7. /\ quote'.at = "shown" /\ quote'.job = q.job /\ quote'.tasks = q.tasks
        /\ quote'.deadline = q.deadline /\ quote'.members = q.members /\ quote'.plans = q.plans
        /\ quote'.recommended = q.recommended /\ quote'.canary = q.canary
        /\ quote' = [at |-> quote'.at, job |-> quote'.job, tasks |-> quote'.tasks,
                     deadline |-> quote'.deadline, members |-> quote'.members,
                     plans |-> quote'.plans, recommended |-> quote'.recommended,
                     probed |-> quote'.probed, canary |-> quote'.canary]
        BY <2>4, <2>6
  <2>8. Shows(quote', fleet, samples)
    <3>1. /\ quote'.tasks \in Nat \ {0} /\ quote'.deadline \in Nat \cup {Nothing}
          /\ quote'.members = Resolve(Survivors(fleet, quote'.job), quote'.job, samples)
          /\ quote'.plans = Plans(quote'.members, quote'.tasks, quote'.deadline)
          /\ quote'.recommended = Recommend(quote'.plans)
          /\ quote'.canary # Nothing => \E k \in Survivors(fleet, quote'.job) : k.id = quote'.canary
          BY <2>5, <2>7
    <3> QED BY <2>7, <3>1 DEF Shows
  <2>9. quote'.plans # <<>>
    <3>1. PICK m \in Survivors(fleet, q.job) : Usables(samples, q.job, m.class) # <<>>
          BY <2>1, <2>4 DEF QuoteFits
    <3>2. q.members # {}
          BY <2>5, <3>1 DEF Resolve
    <3>3. q.plans # <<>>
          BY <2>5, <3>2, PlansAre
    <3> QED BY <2>7, <3>3
  <2>10. fleet' \in Fleets /\ Shows(quote', fleet', samples)
         BY <2>1, <2>2, <2>8
  <2> QED BY <1>1, <1>2, <2>7, <2>9, <2>10 DEF QuoteFits, Previewed
<1>7. ASSUME NEW machines \in Fleets, NEW seen \in [Ladder -> Durations], NEW posted \in Workloads,
             NEW tasks \in TaskCounts, NEW given \in Deadlines,
             CostQuote(machines, seen, posted, tasks, given)
      PROVE  QuoteFits'
  <2> DEFINE rows == CostRows(machines, posted, seen, tasks, given)
  <2>1. /\ fleet' = machines /\ samples' = seen
        /\ quote' = [at |-> "costed", job |-> posted, tasks |-> tasks, given |-> given, rows |-> rows]
        BY <1>7 DEF CostQuote, Read
  <2>2. tasks \in Nat \ {0}
        BY <1>3
  <2>3. rows = CostRows(machines, posted, seen, tasks, given)
        OBVIOUS
  <2> HIDE DEF rows
  <2>4. /\ quote'.at = "costed" /\ quote'.job = posted /\ quote'.tasks = tasks
        /\ quote'.given = given /\ quote'.rows = rows
        BY <2>1
  <2> QED BY <1>1, <2>1, <2>2, <2>3, <2>4 DEF QuoteFits, Previewed
<1>8. ASSUME NEW machines \in Fleets, NEW posted \in Workloads, NEW tasks \in TaskCounts,
             NEW affordable \in 0..MaxRented, JobTradeoff(machines, posted, tasks, affordable)
      PROVE  QuoteFits'
  <2>1. quote'.at = "curve"
        BY <1>8 DEF JobTradeoff, Read
  <2> QED BY <1>1, <2>1 DEF QuoteFits, Previewed
<1>9. CASE UNCHANGED routerVars
  <2>1. fleet' = fleet /\ samples' = samples /\ quote' = quote
        BY <1>9 DEF routerVars
  <2> QED BY <1>1, <2>1 DEF QuoteFits, Previewed
<1> QED BY <1>4, <1>5, <1>6, <1>7, <1>8, <1>9 DEF RouterNext

\* A page that fits says what is sound.
LEMMA QuoteFitsSound ==
  ASSUME QuoteFits
  PROVE  PlansAreOptimal /\ RecommendedKeepsDeadline /\ QuoteMatchesPlan
<1>1. ASSUME Previewed
      PROVE  /\ Team(quote.members) /\ quote.tasks \in Nat /\ quote.tasks > 0 /\ Nothing \notin Nat
             /\ quote.deadline \in Nat \cup {Nothing}
             /\ quote.plans = Plans(quote.members, quote.tasks, quote.deadline)
             /\ quote.recommended = Recommend(quote.plans)
  <2>1. fleet \in Fleets
        BY <1>1 DEF QuoteFits
  <2>2. PICK seen \in [Ladder -> Seq(Nat)] : Shows(quote, fleet, seen)
        BY <1>1 DEF QuoteFits
  <2> DEFINE S == Survivors(fleet, quote.job)
             M == quote.members
             posted == quote.job
  <2>3. /\ quote.tasks \in Nat /\ quote.tasks > 0 /\ quote.deadline \in Nat \cup {Nothing}
        /\ quote.plans = Plans(quote.members, quote.tasks, quote.deadline)
        /\ quote.recommended = Recommend(quote.plans) /\ M = Resolve(S, posted, seen)
        BY <2>2 DEF Shows
  <2>4. /\ IsFiniteSet(S) /\ Nothing \notin Nat
        /\ \A m \in S : /\ m.id \in Nat /\ m.slots \in Nat \ {0} /\ m.ask \in Nat
                        /\ m.venue = "workspace" => m.ask = 0
        BY <2>1, SurvivorsAre
  <2> HIDE DEF S, M, posted
  <2>5. /\ Team(M)
        /\ \A m \in S : Usables(seen, posted, m.class) \in Seq(Nat)
        /\ \A m \in S : Usables(seen, posted, m.class) # <<>> =>
             m.class \in Ladder /\ Member(m, PlanningSeconds(Usables(seen, posted, m.class))) \in M
        /\ \A x \in M : \E m \in S :
             /\ Usables(seen, posted, m.class) # <<>>
             /\ x = Member(m, PlanningSeconds(Usables(seen, posted, m.class)))
        BY <2>3, <2>4, ResolvedIs
  <2> QED BY <2>3, <2>4, <2>5 DEF M
<1> DEFINE M == quote.members
           n == quote.tasks
           D == quote.deadline
           ps == quote.plans
<1>2. PlansAreOptimal
  <2> SUFFICES ASSUME Previewed, NEW i \in DOMAIN ps, NEW p, p = ps[i], NEW limit,
                      limit = IF p.name = "cheapest" THEN Nothing ELSE D
               PROVE  /\ p.count \in Fullest(Shares(M, n, limit))
                      /\ \A c \in Fullest(Shares(M, n, limit)) :
                           IF p.name # "fastest" THEN p.cost <= Rounded(Price(c, M))
                           ELSE p.makespan # Nothing => p.makespan <= Spread(c, M)
      BY DEF PlansAreOptimal
  <2>1. /\ Team(M) /\ n \in Nat /\ n > 0 /\ Nothing \notin Nat /\ D \in Nat \cup {Nothing}
        /\ ps = Plans(M, n, D)
        BY <1>1
  <2> HIDE DEF M, n, D, ps
  <2>2. /\ p.name \in {"cheapest", "balanced", "fastest"} /\ PlannedWell(p, M, n, limit)
        /\ p.count \in Fullest(Shares(M, n, limit))
        /\ \A c \in Fullest(Shares(M, n, limit)) :
             IF p.name # "fastest" THEN p.cost <= Rounded(Price(c, M))
             ELSE p.makespan # Nothing => p.makespan <= Spread(c, M)
        BY <2>1, PlansBest
  <2> QED BY <2>2
<1>3. RecommendedKeepsDeadline
  <2> SUFFICES ASSUME Previewed
               PROVE  /\ \A i \in Named(ps, quote.recommended) :
                           (\E c \in Shares(M, n, D) : Placed(c) = n) =>
                           InTime(ps[i].count, M, D) \/ AlikeOncePriced(ps, M)
                      /\ (ps # <<>>) <=> (quote.recommended # "none")
                      /\ (quote.probed /\ quote.at = "shown") => ps # <<>>
      BY DEF RecommendedKeepsDeadline
  <2>1. /\ Team(M) /\ n \in Nat /\ n > 0 /\ Nothing \notin Nat /\ D \in Nat \cup {Nothing}
        /\ ps = Plans(M, n, D) /\ quote.recommended = Recommend(ps)
        BY <1>1
  <2>2. (quote.probed /\ quote.at = "shown") => ps # <<>>
        BY DEF QuoteFits
  <2> HIDE DEF M, n, D, ps
  <2>3. /\ ps # <<>> <=> Recommend(ps) # "none"
        /\ \A i \in Named(ps, Recommend(ps)) :
             (\E c \in Shares(M, n, D) : Placed(c) = n) =>
             InTime(ps[i].count, M, D) \/ AlikeOncePriced(ps, M)
        BY <2>1, RecommendKeeps
  <2> QED BY <2>1, <2>2, <2>3
<1>4. QuoteMatchesPlan
  <2> SUFFICES ASSUME quote.at = "costed", quote.given = Nothing
               PROVE  Matches(quote.rows, PlanJob(fleet, quote.job, samples, quote.tasks, Nothing))
      BY DEF QuoteMatchesPlan
  <2> DEFINE q == PlanJob(fleet, quote.job, samples, quote.tasks, Nothing)
             posted == quote.job
             rows == quote.rows
  <2>1. /\ fleet \in Fleets /\ n \in Nat /\ n > 0 /\ samples \in [Ladder -> Seq(Nat)]
        /\ rows = CostRows(fleet, posted, samples, n, Nothing)
        BY DEF QuoteFits, RouterFits
  <2>2. q = PlanJob(fleet, posted, samples, n, Nothing)
        OBVIOUS
  <2> HIDE DEF q, rows, posted, n
  <2>3. PICK machines \in Fleets : machines = fleet
        BY <2>1
  <2>4. Matches(rows, q)
        BY <2>1, <2>2, <2>3, QuoteMatches
  <2> QED BY <2>4 DEF rows, q
<1> QED BY <1>2, <1>3, <1>4

\* What the pages that price a job show is sound, whatever the fleets, the records of
\* durations, the jobs, the deadlines and the ceiling on what may be rented.
THEOREM QuotesHold == RouterSpec => []QuotesAreSound
<1>1. QuoteFits => PlansAreOptimal /\ RecommendedKeepsDeadline /\ QuoteMatchesPlan
      BY QuoteFitsSound
<1> QED BY <1>1, QuoteFitsInit, QuoteFitsStep, AdviceHolds, PTL DEF RouterSpec, QuotesAreSound
=============================================================================
