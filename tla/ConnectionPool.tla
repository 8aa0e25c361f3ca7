--------------------------- MODULE ConnectionPool ---------------------------
(***************************************************************************)
(* ConnectionPool (db.py): threads check connections out and close() them, *)
(* which files them.  The counters and the idle stack change under one     *)
(* lock; opening and looking a connection over happen outside it.  Here a  *)
(* Process is a thread with one connection at a time, in whose name a      *)
(* worker thread may still be running a query when it closes.              *)
(***************************************************************************)
EXTENDS Deployment, Integers, Sequences, FiniteSets

CONSTANTS MaxSize, Opens             \* bound: connections opened for the pool
ASSUME PoolAssumption == MaxSize \in Nat \ {0} /\ Opens \in Nat

VARIABLES
  conn,         \* pooled connections, by the order they were opened: their
                \* _flashml_state, and whether the server still serves them
  idleStack, live, poolClosed,
  borrower,     \* of each thread: where it stands, its connection (0: of its own)
  query,        \* connections a worker thread is inside
  leaked,       \* abandoned by close_when_idle
  stolen        \* history: a second close() filed what another had checked out
poolVars == <<conn, idleStack, live, poolClosed, borrower, query, leaked, stolen>>

PoolInit ==
  /\ conn = <<>> /\ idleStack = <<>> /\ live = 0 /\ poolClosed = FALSE
  /\ borrower = [p \in Process |-> [at |-> "idle", conn |-> 0]]
  /\ query = {} /\ leaked = {} /\ stolen = FALSE

BorrowerGoto(p, where) == borrower' = [borrower EXCEPT ![p].at = where]
Open(state) == Append(conn, [state |-> state, served |-> TRUE])
Stacked == {idleStack[i] : i \in DOMAIN idleStack}

\* getconn, under the lock: the last one filed, or leave to open one, or one of
\* the caller's own.
PopIdle(p) ==
  /\ borrower[p].at \in {"idle", "again"} /\ ~poolClosed /\ idleStack # <<>>
  /\ LET c == idleStack[Len(idleStack)]
     IN /\ borrower' = [borrower EXCEPT ![p] = [at |-> "looking", conn |-> c]]
        /\ conn' = [conn EXCEPT ![c].state = "checked_out"]
  /\ idleStack' = SubSeq(idleStack, 1, Len(idleStack) - 1)
  /\ UNCHANGED <<live, poolClosed, query, leaked, stolen>>
Reserve(p) ==
  /\ borrower[p].at \in {"idle", "again"} /\ ~poolClosed /\ idleStack = <<>>
  /\ live < MaxSize /\ live' = live + 1 /\ BorrowerGoto(p, "opening")
  /\ UNCHANGED <<conn, idleStack, poolClosed, query, leaked, stolen>>
Overflow(p) ==
  /\ borrower[p].at \in {"idle", "again"}
  /\ poolClosed \/ (idleStack = <<>> /\ live >= MaxSize)
  /\ borrower' = [borrower EXCEPT ![p] = [at |-> "holds", conn |-> 0]]
  /\ UNCHANGED <<conn, idleStack, live, poolClosed, query, leaked, stolen>>

OpenConnection(p) ==
  /\ borrower[p].at = "opening" /\ Len(conn) < Opens
  /\ conn' = Open("checked_out")
  /\ borrower' = [borrower EXCEPT ![p] = [at |-> "holds", conn |-> Len(conn')]]
  /\ UNCHANGED <<idleStack, live, poolClosed, query, leaked, stolen>>
\* Mutant: the reservation of a connection that could not be opened is kept.
OpenFailsReserved(p) ==
  /\ borrower[p].at = "opening" /\ BorrowerGoto(p, "idle")
  /\ UNCHANGED <<conn, idleStack, live, poolClosed, query, leaked, stolen>>
OpenFails(p) ==
  /\ borrower[p].at = "opening" /\ live' = live - 1 /\ BorrowerGoto(p, "idle")
  /\ UNCHANGED <<conn, idleStack, poolClosed, query, leaked, stolen>>

\* _is_reusable: no one is inside it and the server is there; age and an open
\* transaction may turn it down as well.
Reusable(p) ==
  /\ borrower[p].at = "looking"
  /\ conn[borrower[p].conn].served /\ borrower[p].conn \notin query
  /\ BorrowerGoto(p, "holds")
  /\ UNCHANGED <<conn, idleStack, live, poolClosed, query, leaked, stolen>>
Discard(p) ==
  /\ borrower[p].at = "looking" /\ live' = live - 1
  /\ conn' = [conn EXCEPT ![borrower[p].conn].state = "unpooled"]
  /\ BorrowerGoto(p, "again")
  /\ UNCHANGED <<idleStack, poolClosed, query, leaked, stolen>>

-----------------------------------------------------------------------------
\* Mutant: what is closed is filed, whatever its state.
PutUnchecked(c) ==
  IF poolClosed
  THEN /\ conn' = [conn EXCEPT ![c].state = "unpooled"]
       /\ live' = live - 1 /\ UNCHANGED idleStack
  ELSE /\ conn' = [conn EXCEPT ![c].state = "idle"]
       /\ idleStack' = Append(idleStack, c) /\ UNCHANGED live

\* _put: a connection that is not checked out is left alone.
Put(c) ==
  IF conn[c].state # "checked_out" THEN UNCHANGED <<conn, idleStack, live>>
  ELSE IF poolClosed
  THEN /\ conn' = [conn EXCEPT ![c].state = "unpooled"]
       /\ live' = live - 1 /\ UNCHANGED idleStack
  ELSE /\ conn' = [conn EXCEPT ![c].state = "idle"]
       /\ idleStack' = Append(idleStack, c) /\ UNCHANGED live

\* Code that runs its queries itself closes at once; a background task whose
\* worker cannot be cancelled waits for it, by close_when_idle.
CloseConnection(p) ==
  /\ borrower[p].at = "holds" /\ borrower[p].conn \notin query
  /\ IF borrower[p].conn = 0 THEN UNCHANGED <<conn, idleStack, live>>
     ELSE Put(borrower[p].conn)
  /\ BorrowerGoto(p, "idle")
  /\ UNCHANGED <<poolClosed, query, leaked, stolen>>
Abandon(p) ==
  /\ borrower[p].at = "holds" /\ borrower[p].conn \in query
  /\ leaked' = leaked \cup {borrower[p].conn}
  /\ borrower' = [borrower EXCEPT ![p] = [at |-> "idle", conn |-> 0]]
  /\ UNCHANGED <<conn, idleStack, live, poolClosed, query, stolen>>
\* A dependency finalised twice, or code that closes what a `with` also closes.
CloseAgain(p) ==
  /\ borrower[p].at = "idle" /\ borrower[p].conn # 0
  /\ Put(borrower[p].conn)
  /\ stolen' = (stolen \/ conn[borrower[p].conn].state = "checked_out")
  /\ borrower' = [borrower EXCEPT ![p].conn = 0]
  /\ UNCHANGED <<poolClosed, query, leaked>>

WorkerStarts(p) ==
  /\ borrower[p].at = "holds" /\ borrower[p].conn # 0
  /\ borrower[p].conn \notin query /\ query' = query \cup {borrower[p].conn}
  /\ UNCHANGED <<conn, idleStack, live, poolClosed, borrower, leaked, stolen>>
WorkerEnds(c) ==
  /\ c \in query /\ query' = query \ {c}
  /\ UNCHANGED <<conn, idleStack, live, poolClosed, borrower, leaked, stolen>>
ServerDrops(c) ==
  /\ conn[c].served /\ conn' = [conn EXCEPT ![c].served = FALSE]
  /\ UNCHANGED <<idleStack, live, poolClosed, borrower, query, leaked, stolen>>

PoolClose ==
  /\ ~poolClosed /\ poolClosed' = TRUE
  /\ live' = live - Len(idleStack) /\ idleStack' = <<>>
  /\ conn' = [c \in DOMAIN conn |->
                IF c \in Stacked THEN [conn[c] EXCEPT !.state = "unpooled"] ELSE conn[c]]
  /\ UNCHANGED <<borrower, query, leaked, stolen>>

\* Bound: what the pool does once a connection is stolen is not followed.
PoolNext ==
  /\ ~stolen
  /\ \/ \E p \in Process :
          \/ PopIdle(p) \/ Reserve(p) \/ Overflow(p) \/ OpenConnection(p)
          \/ OpenFails(p) \/ Reusable(p) \/ Discard(p) \/ CloseConnection(p)
          \/ Abandon(p) \/ CloseAgain(p) \/ WorkerStarts(p)
     \/ \E c \in DOMAIN conn : WorkerEnds(c) \/ ServerDrops(c)
     \/ PoolClose

PoolSpec == PoolInit /\ [][PoolNext]_poolVars

PoolTypeOK ==
  /\ \A c \in DOMAIN conn :
       conn[c] \in [state : {"checked_out", "idle", "unpooled"}, served : BOOLEAN]
  /\ Stacked \subseteq DOMAIN conn /\ (stolen \/ live \in Nat)
  /\ query \cup leaked \subseteq DOMAIN conn
  /\ \A p \in Process : borrower[p].conn \in 0..Len(conn)

-----------------------------------------------------------------------------
\* A pooled connection is one thread's: no two hold it, none holds what is on
\* the idle stack or hung up, and none is hung up under a worker that is inside
\* it; and the pool counts what it owns, no more than its size: what is idle,
\* held, looked over, being opened, or abandoned.  A second close() does not
\* change that while the connection is idle; it does once another thread has
\* checked the connection out, which _put cannot tell from the first.
OneBorrowerEach ==
  LET owns == {p \in Process : /\ borrower[p].at \in {"looking", "holds"}
                               /\ borrower[p].conn # 0}
      opening == {p \in Process : borrower[p].at = "opening"}
  IN stolen \/
       /\ \A p, q \in owns : borrower[p].conn = borrower[q].conn => p = q
       /\ \A p \in owns : conn[borrower[p].conn].state = "checked_out"
       /\ \A c \in query : conn[c].state = "checked_out"
       /\ live = Len(idleStack) + Cardinality(owns) + Cardinality(opening)
                   + Cardinality(leaked)
       /\ live <= MaxSize
=============================================================================
