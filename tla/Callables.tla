------------------------------ MODULE Callables ------------------------------
(***************************************************************************)
(* The database of src/ghost/ghostdbmysql.cpp as the rest of the bot sees  *)
(* it: a query is a callable object, a thread of its own runs it, and the  *)
(* main loop takes it back when its ready flag is set.  The connections to *)
(* the server are pooled: a callable takes one from the queue of idle ones *)
(* or has its thread open one, and leaves it behind when it is recovered.  *)
(*                                                                         *)
(* The module defines the state of the database, d, and what a call does   *)
(* to it; Hosting says who calls and when.  What a query asks and what its *)
(* answer is are left out.                                                 *)
(***************************************************************************)
EXTENDS Integers, Sequences, FiniteSets

CONSTANTS
  Objects,        \* the callables there can be at a time
  Connections,    \* the connections
  NoConnection,   \* NULL
  First,          \* the connection the constructor opens
  MaxConnections  \* m_MaxConnections, 30

ASSUME CallablesAssumption ==
  /\ IsFiniteSet(Objects) /\ First \in Connections
  /\ NoConnection \notin Connections /\ MaxConnections \in Nat

(* A callable that does not exist is "free".  One that was issued has a    *)
(* thread that has not begun, is "running" between Init and Close, and     *)
(* then is ready.                                                          *)
Stages == {"free", "issued", "running", "ready"}

Databases ==
  [stage : [Objects -> Stages],
   conn : [Objects -> Connections \cup {NoConnection}],  \* m_Connection
   idle : Seq(Connections \cup {NoConnection}),          \* m_IdleConnections
   num : Nat,                                            \* m_NumConnections
   out : Nat]                                            \* m_OutstandingCallables

(* CGHostDBMySQL::CGHostDBMySQL: one connection is there from the start.   *)
NewDatabase ==
  [stage |-> [c \in Objects |-> "free"], conn |-> [c \in Objects |-> NoConnection],
   idle |-> <<First>>, num |-> 1, out |-> 0]

Free(d)    == {c \in Objects : d.stage[c] = "free"}
Out(d)     == {c \in Objects : d.stage[c] # "free"}
Ready(d)   == {c \in Objects : d.stage[c] = "ready"}
Pooled(d)  == {d.idle[i] : i \in DOMAIN d.idle}
Unused(d)  == Connections \ (Pooled(d) \cup {d.conn[c] : c \in Objects})

-----------------------------------------------------------------------------
(* GetIdleConnection: what there is more than m_NumConnections is closed   *)
(* first.  Then the first of the queue is taken, which may be a NULL that  *)
(* a callable without a thread left there.                                 *)
Surplus(d) == IF Len(d.idle) > d.num THEN Len(d.idle) - d.num ELSE 0
Kept(d)    == SubSeq(d.idle, Surplus(d) + 1, Len(d.idle))
Taken(d)   == IF Kept(d) = <<>> THEN NoConnection ELSE Head(Kept(d))

Left_Slip(d) == Kept(d)
Left(d)      == IF Kept(d) = <<>> THEN <<>> ELSE Tail(Kept(d))

(* Every ThreadedXXX: a connection for the callable, and its thread.  When *)
(* the thread cannot be created, twice, the callable is ready at once and  *)
(* was never run.                                                          *)
Issue(d, c, spawned) ==
  [d EXCEPT !.stage[c] = IF spawned THEN "issued" ELSE "ready",
            !.conn[c] = Taken(d), !.idle = Left(d),
            !.num = IF Taken(d) = NoConnection THEN @ + 1 ELSE @,
            !.out = @ + 1]

(* The constructor of the next callable finds the same place free.         *)
NextObject(d) == CHOOSE c \in Free(d) : TRUE

(* CMySQLCallable::Init in the thread: a connection is opened if the       *)
(* callable has none.  Which one is new is mysql_init's choice.            *)
Begin(d, c) ==
  [d EXCEPT !.stage[c] = "running",
            !.conn[c] = IF @ = NoConnection THEN CHOOSE k \in Unused(d) : TRUE ELSE @]

(* CBaseCallable::Close, the last thing the thread does to its callable.   *)
Finish(d, c) == [d EXCEPT !.stage[c] = "ready"]

Recover_Slip(d, c) ==
  LET full == Len(d.idle) > MaxConnections
  IN  [d EXCEPT !.stage[c] = "free", !.conn[c] = NoConnection,
                !.idle = Append(@, d.conn[c]),
                !.num = IF full THEN @ - 1 ELSE @,
                !.out = IF @ = 0 THEN 0 ELSE @ - 1]

(* RecoverCallable, after which every caller deletes the callable.  The    *)
(* connection is closed when more than m_MaxConnections are idle.          *)
Recover(d, c) ==
  LET full == Len(d.idle) > MaxConnections
  IN  [d EXCEPT !.stage[c] = "free", !.conn[c] = NoConnection,
                !.idle = IF full THEN @ ELSE Append(@, d.conn[c]),
                !.num = IF full THEN @ - 1 ELSE @,
                !.out = IF @ = 0 THEN 0 ELSE @ - 1]

-----------------------------------------------------------------------------
(* A connection has one user: it is not idle while a callable has it, no   *)
(* two callables have the same one, and it is in the queue but once        *)
(* (ghostdbmysql.cpp 106-126 and 699-719).                                 *)
SingleUse(d) ==
  /\ \A c \in Objects : d.conn[c] # NoConnection =>
       /\ d.stage[c] # "free" /\ d.conn[c] \notin Pooled(d)
       /\ \A e \in Objects : d.conn[e] = d.conn[c] => e = c
  /\ \A i, j \in DOMAIN d.idle : d.idle[i] = d.idle[j] /\ d.idle[i] # NoConnection => i = j

(* The counts of the database are right: the callables that are out are    *)
(* the outstanding ones, and the connections that are idle or out are not  *)
(* more than it counts, so that nothing idle is ever closed for being too  *)
(* many, nor a count goes below zero (ghostdbmysql.cpp 106-126, 699-719).  *)
Counted(d) ==
  /\ d.out = Cardinality(Out(d))
  /\ Len(d.idle) + Cardinality(Out(d)) =< d.num
=============================================================================
