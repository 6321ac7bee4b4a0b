--------------------------- MODULE FilaManProofs ---------------------------
(***************************************************************************)
(* Theorems about FilaMan, for every choice of spools, locations, clients, *)
(* addresses and bounds: control and the busy flag first (IInv), then the  *)
(* queue, the card and what the tasks hold of them (QueueInv), the outbox  *)
(* they implement, and the variant of a task that owns the flag.           *)
(***************************************************************************)
EXTENDS FilaMan, SequenceTheorems, TLAPS

-----------------------------------------------------------------------------
(* The operators of the queue *)

\* A function on 1..n into S is a sequence over S.
LEMMA FunctionIsSeq ==
  ASSUME NEW S, NEW n \in Nat, NEW f \in [1 .. n -> S]
  PROVE  f \in Seq(S)
BY SeqDef

\* prepare_storage takes a queue to a queue.
LEMMA PrepareStorageType ==
  ASSUME NEW q \in QueueState, NEW s \in Spools, NEW l \in Locations
  PROVE  PrepareStorage(q, s, l) \in QueueState
<1>1. q.operations \in Seq(Operation) /\ q.next_sequence \in Nat
  BY DEF QueueState
<1>2. CASE Pending(q, s)
  <2> DEFINE moved(i) == IF q.operations[i].spool = s
                         THEN [q.operations[i] EXCEPT !.location = l]
                         ELSE q.operations[i]
             f == [i \in DOMAIN q.operations |-> moved(i)]
  <2>1. \A i \in DOMAIN q.operations : moved(i) \in Operation
    <3> SUFFICES ASSUME NEW i \in DOMAIN q.operations
                 PROVE  moved(i) \in Operation
      OBVIOUS
    <3>1. q.operations[i] \in Operation
      BY <1>1
    <3>2. [q.operations[i] EXCEPT !.location = l] \in Operation
      BY <3>1 DEF Operation
    <3> QED BY <3>1, <3>2
  <2>3. Len(q.operations) \in Nat /\ DOMAIN q.operations = 1 .. Len(q.operations)
    BY <1>1
  <2> HIDE DEF moved
  <2>2. f \in [1 .. Len(q.operations) -> Operation]
    BY <2>1, <2>3
  <2> HIDE DEF f
  <2>4. f \in Seq(Operation)
    BY <2>2, <2>3, FunctionIsSeq
  <2>5. PrepareStorage(q, s, l) = [q EXCEPT !.operations = f]
    BY <1>2 DEF PrepareStorage, f, moved
  <2> QED BY <2>4, <2>5 DEF QueueState
<1>3. CASE ~Pending(q, s)
  <2> DEFINE op == [sequence |-> q.next_sequence, spool |-> s, location |-> l]
  <2>1. op \in Operation
    BY <1>1 DEF Operation
  <2> HIDE DEF op
  <2>2. Append(q.operations, op) \in Seq(Operation)
    BY <1>1, <2>1
  <2>3. PrepareStorage(q, s, l) = [operations |-> Append(q.operations, op),
                                   next_sequence |-> q.next_sequence + 1]
    BY <1>3 DEF PrepareStorage, op
  <2> QED BY <1>1, <2>2, <2>3 DEF QueueState
<1> QED BY <1>2, <1>3

\* The type of the locals of synchronize_offline_queue.
SyncState == [operations : Seq(Operation), at : Nat, remaining : Seq(Operation), force : BOOLEAN]

LEMMA UntriedType ==
  ASSUME sync \in SyncState
  PROVE  Untried \in Seq(Operation)
<1>1. sync.operations \in Seq(Operation) /\ sync.at \in Nat
  BY DEF SyncState
<1>2. Len(sync.operations) \in Int /\ sync.at + 1 \in Int
  BY <1>1
<1>3. \A i \in sync.at + 1 .. Len(sync.operations) : sync.operations[i] \in Operation
  BY <1>1
<1> QED BY <1>2, <1>3, SubSeqProperties DEF Untried

LEMMA KeptType ==
  ASSUME sync \in SyncState, NEW r \in Seq(Operation)
  PROVE  Kept(r) \in Seq(Operation)
BY UntriedType, ConcatProperties DEF Kept

-----------------------------------------------------------------------------
(* The inductive invariant *)

LoopPoints == {"poll", "heartbeat", "refresh", "refreshWrite"} \cup Synchronizing
ClientPoints == {"idle", "await", "remote", "settingsWrite"} \cup Synchronizing

\* What a task has at hand at each control point, which its type alone does not say.
Control ==
  /\ pc[Loop] \in LoopPoints
  /\ \A c \in Clients : pc[c] \in ClientPoints
  /\ \A c \in Clients : pc[c] \in Synchronizing => job[c].kind = "store"
  /\ \A t \in Tasks : pc[t] = "queueWrite" => prepared[t] \in QueueState
  /\ pc[Loop] \in {"find", "import", "move"} => sync.at \in DOMAIN sync.operations

IInv == TypeOK /\ Control /\ OneRequestAtATime /\ SyncOnlyOnline

\* Only task t moves, and it keeps or takes the flag exactly if it stops where a
\* task owns it.
Advances(t) ==
  /\ pc' = [pc EXCEPT ![t] = pc'[t]]
  /\ pc'[t] \in IF t = Loop THEN LoopPoints ELSE ClientPoints
  /\ busy' \in BOOLEAN
  /\ busy' <=> pc'[t] \in Owning
  /\ prepared' = [prepared EXCEPT ![t] = prepared'[t]]
  /\ prepared'[t] \in QueueState \cup {None}
  /\ pc'[t] = "queueWrite" => prepared'[t] \in QueueState

\* The heartbeat task moves.
LoopAdvances ==
  /\ Advances(Loop)
  /\ inventory_refresh_ticks' \in 0 .. RefreshTicks - 1
  /\ sync' \in SyncState
  /\ pc'[Loop] \in {"find", "import", "move"} => sync'.at \in DOMAIN sync'.operations

\* A client moves.
ClientAdvances(c) ==
  /\ Advances(c)
  /\ job' = [job EXCEPT ![c] = job'[c]]
  /\ job'[c] \in Job
  /\ pc'[c] \in Synchronizing => job'[c].kind = "store"

\* The flag stays a lock when only its owner, or a task that finds it free, moves.
LEMMA LockKept ==
  ASSUME IInv, NEW t \in Tasks, pc[t] \in Owning \/ ~busy, Advances(t)
  PROVE  OneRequestAtATime'
<1> USE DEF IInv, OneRequestAtATime
<1>1. \A u \in Tasks \ {t} : pc[u] \notin Owning
  OBVIOUS
<1>2. \A u \in Tasks \ {t} : pc'[u] = pc[u]
  BY DEF Advances, TypeOK
<1>3. pc'[t] \in Owning <=> busy'
  BY DEF Advances
<1> QED BY <1>1, <1>2, <1>3

-----------------------------------------------------------------------------
(* The pieces actions are made of *)

LEMMA AfterSyncAdvances ==
  ASSUME IInv, NEW force \in BOOLEAN, NEW changed \in BOOLEAN, AfterSync(force, changed)
  PROVE  LoopAdvances
<1> USE DEF IInv, TypeOK
<1>1. inventory_refresh_ticks' \in 0 .. RefreshTicks - 1
  BY ConstantsAssumption DEF AfterSync, RefreshDue
<1>2. sync' \in SyncState
  BY DEF AfterSync, NoSync, SyncState
<1>3. busy' \in BOOLEAN
  BY DEF AfterSync, RefreshDue
<1>4. /\ pc' = [pc EXCEPT ![Loop] = pc'[Loop]]
      /\ pc'[Loop] = IF busy' THEN "refresh" ELSE "poll"
  BY <1>3 DEF AfterSync, Tasks
<1>5. prepared' = [prepared EXCEPT ![Loop] = prepared'[Loop]] /\ prepared'[Loop] = None
  BY DEF AfterSync, Tasks
<1> QED BY <1>1, <1>2, <1>3, <1>4, <1>5 DEF LoopAdvances, Advances, LoopPoints, Owning, Synchronizing

LEMMA MaintenanceAdvances ==
  ASSUME IInv, NEW force \in BOOLEAN, RunOnlineMaintenance(force)
  PROVE  LoopAdvances
<1>1. CASE queue.operations = <<>>
  BY <1>1, AfterSyncAdvances DEF RunOnlineMaintenance
<1>2. CASE queue.operations # <<>>
  <2>1. queue.operations \in Seq(Operation)
    BY DEF IInv, TypeOK, QueueState
  <2>2. sync' = [operations |-> queue.operations, at |-> 1, remaining |-> <<>>, force |-> force]
    BY <1>2 DEF RunOnlineMaintenance
  <2>3. <<>> \in Seq(Operation)
    OBVIOUS
  <2>4. sync' \in SyncState
    BY <2>1, <2>2, <2>3 DEF SyncState
  <2>5. sync'.at \in DOMAIN sync'.operations
    BY <1>2, <2>1, <2>2
  <2>6. /\ busy' = TRUE
        /\ pc' = [pc EXCEPT ![Loop] = "find"]
        /\ UNCHANGED <<inventory_refresh_ticks, prepared>>
    BY <1>2 DEF RunOnlineMaintenance
  <2> QED BY <2>4, <2>5, <2>6
          DEF LoopAdvances, Advances, IInv, TypeOK, Tasks, LoopPoints, Owning, Synchronizing
<1> QED BY <1>1, <1>2

LEMMA SyncNextAdvances ==
  ASSUME IInv, NEW r \in Seq(Operation), NEW stop \in BOOLEAN, SyncNext(r, stop),
         pc[Loop] \in {"find", "import", "move"}
  PROVE  LoopAdvances
<1>1. sync \in SyncState /\ sync.operations \in Seq(Operation) /\ sync.at \in Nat /\ sync.force \in BOOLEAN
  BY DEF IInv, TypeOK, SyncState
<1>b. busy = TRUE
  BY DEF IInv, OneRequestAtATime, TypeOK, Tasks, Owning
<1>2. CASE ~stop /\ Untried # <<>>
  <2>1. sync' = [operations |-> sync.operations, at |-> sync.at + 1,
                 remaining |-> r, force |-> sync.force]
    BY <1>1, <1>2 DEF SyncNext, SyncState
  <2>2. sync.at + 1 \in Nat
    BY <1>1
  <2>3. sync' \in SyncState
    BY <1>1, <2>1, <2>2 DEF SyncState
  <2>4. sync.at + 1 \in DOMAIN sync.operations
    BY <1>1, <1>2 DEF Untried
  <2>5. pc' = [pc EXCEPT ![Loop] = "find"] /\ UNCHANGED <<busy, inventory_refresh_ticks, prepared>>
    BY <1>2 DEF SyncNext
  <2>6. Advances(Loop)
    BY <1>b, <2>5 DEF Advances, IInv, TypeOK, Tasks, LoopPoints, Owning, Synchronizing
  <2> QED BY <2>1, <2>3, <2>4, <2>5, <2>6 DEF LoopAdvances, IInv, TypeOK
<1>3. CASE ~(~stop /\ Untried # <<>>) /\ Len(Kept(r)) = Len(sync.operations)
  BY <1>1, <1>3, AfterSyncAdvances DEF SyncNext
<1>4. CASE ~(~stop /\ Untried # <<>>) /\ Len(Kept(r)) # Len(sync.operations)
  <2>1. Kept(r) \in Seq(Operation)
    BY <1>1, KeptType
  <2>2. PrepareRemaining(queue, Kept(r)) \in QueueState
    BY <2>1 DEF PrepareRemaining, IInv, TypeOK, QueueState
  <2>3. prepared' = [prepared EXCEPT ![Loop] = PrepareRemaining(queue, Kept(r))]
    BY <1>4 DEF SyncNext
  <2>4. pc' = [pc EXCEPT ![Loop] = "queueWrite"]
    BY <1>4 DEF SyncNext
  <2>5. UNCHANGED <<busy, inventory_refresh_ticks, sync>>
    BY <1>4 DEF SyncNext
  <2>6. Advances(Loop)
    BY <1>b, <2>2, <2>3, <2>4, <2>5
    DEF Advances, IInv, TypeOK, Tasks, LoopPoints, Owning, Synchronizing
  <2>7. pc'[Loop] = "queueWrite"
    BY <2>4 DEF IInv, TypeOK, Tasks
  <2> QED BY <1>1, <2>5, <2>6, <2>7 DEF LoopAdvances, IInv, TypeOK
<1> QED BY <1>2, <1>3, <1>4

LEMMA ReleaseAdvances ==
  ASSUME IInv, NEW c \in Clients, Release(c)
  PROVE  ClientAdvances(c)
<1>1. c # Loop
  BY ConstantsAssumption
<1> QED BY <1>1 DEF Release, ClientAdvances, Advances, IInv, TypeOK, Tasks, ClientPoints, Owning,
                     Synchronizing, Job

\* A store knows its spool and its location.
LEMMA StoreTarget ==
  ASSUME IInv, NEW c \in Clients, job[c].kind = "store"
  PROVE  job[c].spool \in Spools /\ job[c].location \in Locations
<1>1. job[c] \in Job
  BY DEF IInv, TypeOK
<1>2. job[c] # NoJob
  BY DEF NoJob
<1>3. job[c] \in [kind : {"store"}, spool : Spools, location : Locations, known : BOOLEAN]
  BY <1>1, <1>2 DEF Job
<1> QED BY <1>3

LEMMA EnqueueAdvances ==
  ASSUME IInv, NEW c \in Clients, job[c].kind = "store", EnqueueStorage(c)
  PROVE  ClientAdvances(c) /\ owed' \in [Spools -> Locations \cup {None}]
                           /\ choice' \in [Spools -> Locations \cup {None}]
<1>1. c # Loop /\ c \in Tasks
  BY ConstantsAssumption DEF Tasks
<1>2. job[c].spool \in Spools /\ job[c].location \in Locations
  BY StoreTarget
<1>3. PrepareStorage(queue, job[c].spool, job[c].location) \in QueueState
  BY <1>2, PrepareStorageType DEF IInv, TypeOK
<1>4. CASE Release(c) /\ (ReportQueued(c) \/ UNCHANGED history)
  BY <1>2, <1>4, ReleaseAdvances DEF ReportQueued, history, IInv, TypeOK
<1>5. CASE /\ busy' = TRUE
           /\ prepared' = [prepared EXCEPT ![c] = PrepareStorage(queue, job[c].spool, job[c].location)]
           /\ pc' = [pc EXCEPT ![c] = "queueWrite"]
           /\ UNCHANGED <<job, history>>
  <2>1. Advances(c)
    BY <1>1, <1>3, <1>5 DEF Advances, IInv, TypeOK, ClientPoints, Owning, Synchronizing
  <2> QED BY <1>5, <2>1 DEF ClientAdvances, history, IInv, TypeOK
<1> QED BY <1>4, <1>5 DEF EnqueueStorage

-----------------------------------------------------------------------------
(* The requests of a store or of one queued operation *)

\* The operation in work is one of the queue's.
LEMMA LoopTarget ==
  ASSUME IInv, pc[Loop] \in {"find", "import", "move"}
  PROVE  Target(Loop) \in Operation
<1>1. sync.operations \in Seq(Operation)
  BY DEF IInv, TypeOK
<1>2. sync.at \in DOMAIN sync.operations
  BY DEF IInv, Control
<1> QED BY <1>1, <1>2 DEF Target

LEMMA TargetType ==
  ASSUME IInv, NEW t \in Tasks, pc[t] \in {"find", "import", "move"}
  PROVE  Target(t).spool \in Spools /\ Target(t).location \in Locations
<1>1. CASE t = Loop
  BY <1>1, LoopTarget DEF Operation
<1>2. CASE t # Loop
  <2>1. t \in Clients /\ job[t].kind = "store"
    BY <1>2 DEF IInv, Control, Tasks, Synchronizing
  <2> QED BY <1>2, <2>1, StoreTarget DEF Target
<1> QED BY <1>1, <1>2

\* What Applied and Failed do, as seen by the invariant.
Settled(t) ==
  /\ IF t = Loop
     THEN LoopAdvances /\ UNCHANGED <<flags, job>>
     ELSE ClientAdvances(t) /\ UNCHANGED <<heartbeat_succeeded, inventory_refresh_ticks, sync>>
  /\ heartbeat_failure_active' \in BOOLEAN
  /\ owed' \in [Spools -> Locations \cup {None}]
  /\ choice' \in [Spools -> Locations \cup {None}]

LEMMA AppliedSettles ==
  ASSUME IInv, NEW t \in Tasks, pc[t] \in {"find", "import", "move"}, Applied(t)
  PROVE  Settled(t)
<1>1. UNCHANGED flags
  BY DEF Applied
<1>2. CASE t = Loop
  <2>1. /\ owed' = [owed EXCEPT ![Target(t).spool] = None]
        /\ SyncNext(sync.remaining, FALSE)
        /\ UNCHANGED <<job, choice>>
    BY <1>2 DEF Applied
  <2>2. sync.remaining \in Seq(Operation)
    BY DEF IInv, TypeOK
  <2>3. LoopAdvances
    BY <1>2, <2>1, <2>2, SyncNextAdvances
  <2> QED BY <1>1, <1>2, <2>1, <2>3 DEF Settled, flags, IInv, TypeOK
<1>3. CASE t # Loop
  <2>1. t \in Clients
    BY <1>3 DEF Tasks
  <2>2. Release(t) /\ ReportApplied(t) /\ UNCHANGED <<inventory_refresh_ticks, sync>>
    BY <1>3 DEF Applied
  <2>3. job[t].spool \in Spools /\ job[t].location \in Locations
    BY <1>3, TargetType DEF Target
  <2>4. owed' \in [Spools -> Locations \cup {None}] /\ choice' \in [Spools -> Locations \cup {None}]
    BY <2>2, <2>3 DEF ReportApplied, IInv, TypeOK
  <2> QED BY <1>1, <1>3, <2>1, <2>2, <2>4, ReleaseAdvances DEF Settled, flags, IInv, TypeOK
<1> QED BY <1>2, <1>3

LEMMA FailedSettles ==
  ASSUME IInv, NEW t \in Tasks, pc[t] \in {"find", "import", "move"},
         NEW transport \in BOOLEAN, Failed(t, transport)
  PROVE  Settled(t)
<1>1. CASE t = Loop
  <2>1. /\ SyncNext(Append(sync.remaining, Target(t)), StopsSync(transport))
        /\ UNCHANGED <<flags, job, history>>
    BY <1>1 DEF Failed
  <2>2. sync.remaining \in Seq(Operation)
    BY DEF IInv, TypeOK
  <2>3. Append(sync.remaining, Target(t)) \in Seq(Operation)
    BY <1>1, <2>2, LoopTarget
  <2>4. LoopAdvances
    BY <1>1, <2>1, <2>3, SyncNextAdvances DEF StopsSync
  <2> QED BY <1>1, <2>1, <2>4 DEF Settled, flags, history, IInv, TypeOK
<1>2. CASE t # Loop
  <2>1. t \in Clients /\ job[t].kind = "store"
    BY <1>2 DEF Tasks, IInv, Control, Synchronizing
  <2>2. UNCHANGED <<heartbeat_succeeded, inventory_refresh_ticks, sync>>
    BY <1>2 DEF Failed
  <2>3. CASE transport
    BY <1>2, <2>1, <2>2, <2>3, EnqueueAdvances DEF Failed, Settled
  <2>4. CASE ~transport
    BY <1>2, <2>1, <2>2, <2>4, ReleaseAdvances DEF Failed, Settled, history, IInv, TypeOK
  <2> QED BY <2>3, <2>4
<1> QED BY <1>1, <1>2

-----------------------------------------------------------------------------
(* Each action preserves the invariant *)

\* The bounds stay counted.
LEMMA SpentType ==
  ASSUME spent \in [requests : Nat, faults : Nat, crashes : Nat, external : Nat]
  PROVE  \A x \in {[spent EXCEPT !.requests = @ + 1], [spent EXCEPT !.faults = @ + 1],
                   [spent EXCEPT !.crashes = @ + 1], [spent EXCEPT !.external = @ + 1]} :
           x \in [requests : Nat, faults : Nat, crashes : Nat, external : Nat]
OBVIOUS

\* A spool that the server moves or archives stays a spool.
LEMMA ServerType ==
  ASSUME server \in [Spools -> ServerSpool], NEW s
  PROVE  /\ \A l \in Places : [server EXCEPT ![s].location = l] \in [Spools -> ServerSpool]
         /\ [server EXCEPT ![s].archived = TRUE] \in [Spools -> ServerSpool]
<1>1. \A x \in Spools : server[x] \in ServerSpool
  OBVIOUS
<1>2. \A x \in Spools : /\ \A l \in Places : [server[x] EXCEPT !.location = l] \in ServerSpool
                        /\ [server[x] EXCEPT !.archived = TRUE] \in ServerSpool
  BY <1>1 DEF ServerSpool, Places
<1> QED BY <1>1, <1>2

\* What the invariant needs of a step apart from the task that moves.
Framed ==
  /\ steady' \in BOOLEAN /\ settings' \in Settings
  /\ ip' \in Addresses \cup {None} /\ previous_ip' \in Addresses \cup {None}
  /\ heartbeat_succeeded' \in BOOLEAN /\ heartbeat_failure_active' \in BOOLEAN
  /\ inventory' \in Inventory \cup {None} /\ fetched' \in Inventory \cup {None}
  /\ queue' \in QueueState /\ sdQueue' \in QueueState \cup {None}
  /\ sdInventory' \in Inventory \cup {None}
  /\ server' \in [Spools -> ServerSpool]
  /\ owed' \in [Spools -> Locations \cup {None}]
  /\ choice' \in [Spools -> Locations \cup {None}]
  /\ spent' \in [requests : Nat, faults : Nat, crashes : Nat, external : Nat]

\* A step of the heartbeat task.
LEMMA LoopStepKeeps ==
  ASSUME IInv, LoopAdvances, Framed, UNCHANGED job,
         pc[Loop] \in Owning \/ ~busy,
         pc'[Loop] \in Synchronizing \cup {"refresh", "refreshWrite"} =>
           heartbeat_succeeded' /\ ~heartbeat_failure_active'
  PROVE  IInv'
<1>1. Loop \in Tasks /\ \A c \in Clients : c \in Tasks /\ c # Loop
  BY ConstantsAssumption DEF Tasks
<1>2. pc' \in [Tasks -> Owning \cup {"poll", "idle", "await"}]
  BY <1>1 DEF IInv, TypeOK, LoopAdvances, Advances, LoopPoints, Owning, Synchronizing
<1>3. TypeOK'
  BY <1>1, <1>2 DEF IInv, TypeOK, Framed, LoopAdvances, Advances, SyncState
<1>4. \A t \in Tasks \ {Loop} : pc'[t] = pc[t] /\ prepared'[t] = prepared[t]
  BY DEF IInv, TypeOK, LoopAdvances, Advances
<1>5. Control'
  BY <1>1, <1>4 DEF IInv, Control, LoopAdvances, Advances
<1>6. OneRequestAtATime'
  BY <1>1, LockKept DEF LoopAdvances
<1> QED BY <1>3, <1>5, <1>6 DEF IInv, SyncOnlyOnline

\* A step of a client.
LEMMA ClientStepKeeps ==
  ASSUME IInv, NEW c \in Clients, ClientAdvances(c), Framed,
         UNCHANGED <<heartbeat_succeeded, inventory_refresh_ticks, sync>>,
         pc[c] \in Owning \/ ~busy,
         heartbeat_failure_active' = heartbeat_failure_active \/ pc[c] \in Owning
  PROVE  IInv'
<1>1. c \in Tasks /\ c # Loop /\ Loop \in Tasks /\ \A d \in Clients : d \in Tasks /\ d # Loop
  BY ConstantsAssumption DEF Tasks
<1>2. pc' \in [Tasks -> Owning \cup {"poll", "idle", "await"}]
  BY <1>1 DEF IInv, TypeOK, ClientAdvances, Advances, ClientPoints, Owning, Synchronizing
<1>3. TypeOK'
  BY <1>1, <1>2 DEF IInv, TypeOK, Framed, ClientAdvances, Advances
<1>4. \A t \in Tasks \ {c} : pc'[t] = pc[t] /\ prepared'[t] = prepared[t]
  BY DEF IInv, TypeOK, ClientAdvances, Advances
<1>5. \A d \in Clients \ {c} : job'[d] = job[d]
  BY DEF IInv, TypeOK, ClientAdvances
<1>6. Control'
  BY <1>1, <1>4, <1>5 DEF IInv, Control, ClientAdvances, Advances
<1>7. OneRequestAtATime'
  BY <1>1, LockKept DEF ClientAdvances
<1>8. SyncOnlyOnline'
  <2>1. pc'[Loop] = pc[Loop]
    BY <1>1, <1>4
  <2>2. pc[c] \in Owning => pc[Loop] \notin Owning
    BY <1>1 DEF IInv, OneRequestAtATime
  <2> QED BY <2>1, <2>2 DEF IInv, SyncOnlyOnline, Owning, Synchronizing
<1> QED BY <1>3, <1>6, <1>7, <1>8 DEF IInv

\* A call that starts or returns without the flag.
LEMMA WaitingKeeps ==
  ASSUME IInv, NEW c \in Clients, Framed,
         UNCHANGED <<busy, prepared, heartbeat_succeeded, heartbeat_failure_active,
                     inventory_refresh_ticks, sync>>,
         pc[c] \in {"idle", "await"}, pc' = [pc EXCEPT ![c] = pc'[c]], pc'[c] \in {"idle", "await"},
         job' = [job EXCEPT ![c] = job'[c]], job'[c] \in Job
  PROVE  IInv'
<1>1. c \in Tasks /\ c # Loop /\ Loop \in Tasks /\ \A d \in Clients : d \in Tasks /\ d # Loop
  BY ConstantsAssumption DEF Tasks
<1>2. pc' \in [Tasks -> Owning \cup {"poll", "idle", "await"}]
  BY <1>1 DEF IInv, TypeOK
<1>3. TypeOK'
  BY <1>1, <1>2 DEF IInv, TypeOK, Framed
<1>4. \A t \in Tasks \ {c} : pc'[t] = pc[t]
  BY DEF IInv, TypeOK
<1>5. \A d \in Clients \ {c} : job'[d] = job[d]
  BY DEF IInv, TypeOK
<1>6. Control'
  BY <1>1, <1>4, <1>5 DEF IInv, Control, ClientPoints, Synchronizing
<1>7. \A t \in Tasks : pc'[t] \in Owning <=> pc[t] \in Owning
  BY <1>4 DEF Owning
<1>8. OneRequestAtATime'
  BY <1>7 DEF IInv, OneRequestAtATime
<1>9. SyncOnlyOnline'
  BY <1>1, <1>4 DEF IInv, SyncOnlyOnline
<1> QED BY <1>3, <1>6, <1>8, <1>9 DEF IInv

\* Find, Import and Move: what remains once the outcome of the request is known.
LEMMA RequestKeeps ==
  ASSUME IInv, NEW t \in Tasks, pc[t] \in {"find", "import", "move"}, Settled(t),
         server' \in [Spools -> ServerSpool],
         UNCHANGED <<world, inventory, queue, previous_ip, fetched, files, spent>>
  PROVE  IInv'
<1>1. pc[t] \in Owning
  BY DEF Owning
<1>2. heartbeat_succeeded' = heartbeat_succeeded
  BY DEF Settled, flags
<1>3. Framed
  BY <1>2 DEF Framed, Settled, IInv, TypeOK, world, files
<1>4. CASE t = Loop
  <2>1. heartbeat_succeeded /\ ~heartbeat_failure_active
    BY <1>4 DEF IInv, SyncOnlyOnline, Synchronizing
  <2> QED BY <1>1, <1>3, <1>4, <2>1, LoopStepKeeps DEF Settled, flags
<1>5. CASE t # Loop
  BY <1>1, <1>2, <1>3, <1>5, ClientStepKeeps DEF Settled, Tasks, IInv, TypeOK
<1> QED BY <1>4, <1>5

\* Between two requests of the same store nothing is settled yet.
LEMMA NextRequestKeeps ==
  ASSUME IInv, NEW t \in Tasks, pc[t] \in {"find", "import", "move"},
         NEW at \in {"import", "move"}, pc' = [pc EXCEPT ![t] = at],
         server' \in [Spools -> ServerSpool],
         UNCHANGED <<busy, flags, inventory_refresh_ticks, sync, job, prepared, history>>,
         UNCHANGED <<world, inventory, queue, previous_ip, fetched, files, spent>>
  PROVE  IInv'
<1>1. busy
  BY DEF IInv, OneRequestAtATime, Owning
<1>2. Advances(t)
  BY <1>1 DEF Advances, IInv, TypeOK, Owning, LoopPoints, ClientPoints, Synchronizing
<1>3. Settled(t)
  <2>1. CASE t = Loop
    BY <1>2, <2>1 DEF Settled, LoopAdvances, flags, history, IInv, TypeOK, SyncState, Control
  <2>2. CASE t # Loop
    <3>1. t \in Clients
      BY <2>2 DEF Tasks
    <3>2. ClientAdvances(t)
      BY <1>2, <3>1 DEF ClientAdvances, IInv, TypeOK, Control, Synchronizing
    <3> QED BY <2>2, <3>2 DEF Settled, flags, history, IInv, TypeOK
  <2> QED BY <2>1, <2>2
<1> QED BY <1>3, RequestKeeps

LEMMA FailureKeeps ==
  ASSUME IInv, NEW t \in Tasks, pc[t] \in {"find", "import", "move"},
         NEW after \in [Spools -> ServerSpool],
         Failed(t, TRUE) \/ Failed(t, FALSE), server' \in {server, after},
         UNCHANGED <<world, inventory, queue, previous_ip, fetched, files, spent>>
  PROVE  IInv'
<1>1. Settled(t)
  BY FailedSettles
<1>2. server' \in [Spools -> ServerSpool]
  BY DEF IInv, TypeOK
<1> QED BY <1>1, <1>2, RequestKeeps

LEMMA FindKeeps ==
  ASSUME IInv, NEW t \in Tasks, Find(t)
  PROVE  IInv'
<1>1. pc[t] \in {"find", "import", "move"}
  BY DEF Find
<1>2. UNCHANGED <<world, inventory, queue, previous_ip, fetched, files, spent>>
  BY DEF Find
<1>3. server \in [Spools -> ServerSpool]
  BY DEF IInv, TypeOK
<1>4. CASE Applied(t) /\ UNCHANGED server
  BY <1>1, <1>2, <1>3, <1>4, AppliedSettles, RequestKeeps
<1>5. CASE /\ UNCHANGED server
           /\ pc' = [pc EXCEPT ![t] = IF ActiveSpools[Target(t).spool] = None THEN "import" ELSE "move"]
           /\ UNCHANGED <<busy, flags, inventory_refresh_ticks, sync, job, prepared, history>>
  BY <1>1, <1>2, <1>3, <1>5, NextRequestKeeps
<1>6. CASE RequestFails(t, FALSE, server)
  BY <1>1, <1>2, <1>3, <1>6, FailureKeeps DEF RequestFails
<1> QED BY <1>4, <1>5, <1>6 DEF Find

LEMMA ImportKeeps ==
  ASSUME IInv, NEW t \in Tasks, Import(t)
  PROVE  IInv'
<1> DEFINE s == Target(t).spool
           created == [server EXCEPT ![s] = [location |-> Target(t).location, archived |-> FALSE]]
           after == IF server[s].location = None THEN created ELSE server
<1>1. pc[t] \in {"find", "import", "move"}
  BY DEF Import
<1>2. UNCHANGED <<world, inventory, queue, previous_ip, fetched, files, spent>>
  BY DEF Import
<1>3. after \in [Spools -> ServerSpool]
  BY <1>1, TargetType DEF IInv, TypeOK, ServerSpool, Places
<1>4. CASE Applied(t) /\ server' = after
  BY <1>1, <1>2, <1>3, <1>4, AppliedSettles, RequestKeeps
<1>5. CASE /\ server' = after
           /\ pc' = [pc EXCEPT ![t] = "move"]
           /\ UNCHANGED <<busy, flags, inventory_refresh_ticks, sync, job, prepared, history>>
  BY <1>1, <1>2, <1>3, <1>5, NextRequestKeeps
<1>6. CASE RequestFails(t, s \in Rejected, after)
  BY <1>1, <1>2, <1>3, <1>6, FailureKeeps DEF RequestFails
<1> QED BY <1>4, <1>5, <1>6 DEF Import

LEMMA MoveKeeps ==
  ASSUME IInv, NEW t \in Tasks, Move(t)
  PROVE  IInv'
<1> DEFINE s == Target(t).spool
           after == [server EXCEPT ![s].location = Target(t).location]
<1>1. pc[t] \in {"find", "import", "move"}
  BY DEF Move
<1>2. UNCHANGED <<world, inventory, queue, previous_ip, fetched, files, spent>>
  BY DEF Move
<1>3. after \in [Spools -> ServerSpool]
  BY <1>1, TargetType DEF IInv, TypeOK, ServerSpool, Places
<1>4. CASE Applied(t) /\ server' = after
  BY <1>1, <1>2, <1>3, <1>4, AppliedSettles, RequestKeeps
<1>5. CASE RequestFails(t, s \in Rejected, after)
  BY <1>1, <1>2, <1>3, <1>5, FailureKeeps DEF RequestFails
<1> QED BY <1>4, <1>5 DEF Move

LEMMA QueueWriteSucceedsKeeps ==
  ASSUME IInv, NEW t \in Tasks, QueueWriteSucceeds(t)
  PROVE  IInv'
<1>1. pc[t] = "queueWrite" /\ pc[t] \in Owning /\ prepared[t] \in QueueState
  BY DEF QueueWriteSucceeds, Owning, IInv, Control
<1>2. CASE t = Loop
  <2>1. AfterSync(sync.force, TRUE) /\ sync.force \in BOOLEAN /\ UNCHANGED <<job, history>>
    BY <1>2 DEF QueueWriteSucceeds, IInv, TypeOK
  <2>2. LoopAdvances
    BY <2>1, AfterSyncAdvances
  <2>3. heartbeat_succeeded /\ ~heartbeat_failure_active
    BY <1>1, <1>2 DEF IInv, SyncOnlyOnline, Synchronizing
  <2>4. Framed
    BY <1>1, <2>1 DEF Framed, QueueWriteSucceeds, IInv, TypeOK, world, flags, history
  <2> QED BY <1>1, <1>2, <2>1, <2>2, <2>3, <2>4, LoopStepKeeps DEF QueueWriteSucceeds, flags
<1>3. CASE t # Loop
  <2>1. t \in Clients /\ job[t].kind = "store"
    BY <1>1, <1>3 DEF Tasks, IInv, Control, Synchronizing
  <2>2. Release(t) /\ ReportQueued(t) /\ UNCHANGED <<inventory_refresh_ticks, sync>>
    BY <1>3 DEF QueueWriteSucceeds
  <2>3. Framed
    BY <1>1, <2>1, <2>2, StoreTarget
    DEF Framed, QueueWriteSucceeds, ReportQueued, IInv, TypeOK, world, flags
  <2> QED BY <1>1, <2>1, <2>2, <2>3, ReleaseAdvances, ClientStepKeeps
          DEF QueueWriteSucceeds, flags, IInv, TypeOK, SyncOnlyOnline
<1> QED BY <1>2, <1>3

LEMMA QueueWriteFailsKeeps ==
  ASSUME IInv, NEW t \in Tasks, QueueWriteFails(t)
  PROVE  IInv'
<1>1. pc[t] = "queueWrite" /\ pc[t] \in Owning
  BY DEF QueueWriteFails, Owning
<1>2. Framed
  BY DEF Framed, QueueWriteFails, IInv, TypeOK, world, flags, history
<1>3. CASE t = Loop
  <2>1. AfterSync(sync.force, FALSE) /\ sync.force \in BOOLEAN /\ UNCHANGED job
    BY <1>3 DEF QueueWriteFails, IInv, TypeOK
  <2>2. heartbeat_succeeded /\ ~heartbeat_failure_active
    BY <1>1, <1>3 DEF IInv, SyncOnlyOnline, Synchronizing
  <2> QED BY <1>1, <1>2, <1>3, <2>1, <2>2, AfterSyncAdvances, LoopStepKeeps DEF QueueWriteFails, flags
<1>4. CASE t # Loop
  <2>1. t \in Clients
    BY <1>4 DEF Tasks
  <2>2. Release(t) /\ UNCHANGED <<inventory_refresh_ticks, sync>>
    BY <1>4 DEF QueueWriteFails
  <2> QED BY <1>1, <1>2, <2>1, <2>2, ReleaseAdvances, ClientStepKeeps DEF QueueWriteFails, flags
<1> QED BY <1>3, <1>4

LEMMA StorageStepKeeps ==
  ASSUME IInv, NEW t \in Tasks, StorageStep(t)
  PROVE  IInv'
BY FindKeeps, ImportKeeps, MoveKeeps, QueueWriteSucceedsKeeps, QueueWriteFailsKeeps DEF StorageStep

LEMMA HeartbeatKeeps ==
  ASSUME IInv, StartHeartbeat \/ SkipHeartbeat \/ HeartbeatSucceeds \/ HeartbeatFails
  PROVE  IInv'
<1>a. Loop \in Tasks /\ (busy => \E t \in Tasks : pc[t] \in Owning) /\ (pc[Loop] \in Owning => busy)
  BY DEF Tasks, IInv, OneRequestAtATime
<1>1. CASE StartHeartbeat
  <2>1. pc' = [pc EXCEPT ![Loop] = "heartbeat"] /\ ~busy /\ busy'
    BY <1>1 DEF StartHeartbeat, Acquire
  <2>2. LoopAdvances
    BY <1>1, <1>a, <2>1
    DEF StartHeartbeat, LoopAdvances, Advances, ram, IInv, TypeOK, SyncState, LoopPoints, Owning
  <2>3. Framed
    BY <1>1 DEF Framed, StartHeartbeat, ObserveAddress, IInv, TypeOK, world, ram, flags, files, history
  <2>4. pc'[Loop] = "heartbeat"
    BY <1>a, <2>1 DEF IInv, TypeOK
  <2> QED BY <1>1, <2>1, <2>2, <2>3, <2>4, LoopStepKeeps DEF StartHeartbeat, Synchronizing
<1>2. CASE SkipHeartbeat
  <2>1. UNCHANGED <<busy, pc, prepared, job, sync, ram>> /\ pc[Loop] = "poll"
    BY <1>2 DEF SkipHeartbeat, tasks
  <2>2. Framed
    BY <1>2 DEF Framed, SkipHeartbeat, ObserveAddress, IInv, TypeOK, world, ram, flags, files, history
  <2>3. TypeOK'
    BY <2>1, <2>2 DEF Framed, IInv, TypeOK, ram
  <2>4. Control' /\ OneRequestAtATime'
    BY <2>1 DEF IInv, Control, OneRequestAtATime
  <2>5. SyncOnlyOnline'
    BY <2>1 DEF SyncOnlyOnline, Synchronizing
  <2> QED BY <2>3, <2>4, <2>5 DEF IInv
<1>3. CASE HeartbeatSucceeds
  <2>1. pc[Loop] \in Owning
    BY <1>3 DEF HeartbeatSucceeds, Owning
  <2>2. LoopAdvances
    BY <1>3, MaintenanceAdvances DEF HeartbeatSucceeds, IInv, TypeOK
  <2>3. Framed
    BY <1>3 DEF Framed, HeartbeatSucceeds, IInv, TypeOK, world, files, history
  <2> QED BY <1>3, <2>1, <2>2, <2>3, LoopStepKeeps DEF HeartbeatSucceeds
<1>4. CASE HeartbeatFails
  <2>1. pc[Loop] \in Owning
    BY <1>4 DEF HeartbeatFails, Owning
  <2>2. pc' = [pc EXCEPT ![Loop] = "poll"] /\ ~busy' /\ busy' \in BOOLEAN
    BY <1>4 DEF HeartbeatFails
  <2>3. LoopAdvances
    BY <1>4, <1>a, <2>2
    DEF HeartbeatFails, LoopAdvances, Advances, ram, loop, IInv, TypeOK, SyncState, LoopPoints, Owning
  <2>4. Framed
    BY <1>4 DEF Framed, HeartbeatFails, IInv, TypeOK, world, ram, loop, files, history
  <2>5. pc'[Loop] = "poll"
    BY <1>a, <2>2 DEF IInv, TypeOK
  <2> QED BY <1>4, <2>1, <2>3, <2>4, <2>5, LoopStepKeeps DEF HeartbeatFails, Synchronizing
<1> QED BY <1>1, <1>2, <1>3, <1>4

LEMMA ActiveSpoolsType ==
  ASSUME IInv
  PROVE  ActiveSpools \in Inventory
BY DEF IInv, TypeOK, ActiveSpools, Inventory, ServerSpool

\* The end of a refresh.
LEMMA EndRefreshKeeps ==
  ASSUME IInv, pc[Loop] \in {"refresh", "refreshWrite"}, EndRefresh, Framed,
         UNCHANGED <<inventory_refresh_ticks, sync, job, prepared>>
  PROVE  IInv'
<1>1. pc[Loop] \in Owning /\ Loop \in Tasks
  BY DEF Owning, Tasks
<1>2. pc' = [pc EXCEPT ![Loop] = "poll"] /\ ~busy' /\ busy' \in BOOLEAN
  BY DEF EndRefresh
<1>3. LoopAdvances
  BY <1>1, <1>2 DEF LoopAdvances, Advances, IInv, TypeOK, SyncState, LoopPoints, Owning
<1>4. pc'[Loop] = "poll"
  BY <1>1, <1>2 DEF IInv, TypeOK
<1> QED BY <1>1, <1>3, <1>4, LoopStepKeeps DEF Synchronizing

LEMMA RefreshKeeps ==
  ASSUME IInv, RetryQueue \/ RefreshInventory \/ InventoryWriteSucceeds \/ InventoryWriteFails
  PROVE  IInv'
<1>1. CASE RetryQueue
  <2>1. LoopAdvances
    BY <1>1, MaintenanceAdvances DEF RetryQueue
  <2>2. Framed
    BY <1>1 DEF Framed, RetryQueue, IInv, TypeOK, world, flags, files, history
  <2> QED BY <1>1, <2>1, <2>2, LoopStepKeeps DEF RetryQueue, UseOfflineInventory, flags
<1>2. CASE RefreshInventory
  <2>1. pc[Loop] = "refresh" /\ pc[Loop] \in Owning /\ Loop \in Tasks /\ busy
    BY <1>2 DEF RefreshInventory, Owning, Tasks, IInv, OneRequestAtATime
  <2>2. UNCHANGED <<inventory_refresh_ticks, sync, job, prepared, flags>>
    BY <1>2 DEF RefreshInventory
  <2>3. Framed
    BY <1>2, ActiveSpoolsType
    DEF Framed, RefreshInventory, EndRefresh, IInv, TypeOK, world, flags, files, history
  <2>4. CASE EndRefresh
    BY <2>1, <2>2, <2>3, <2>4, EndRefreshKeeps
  <2>5. CASE pc' = [pc EXCEPT ![Loop] = "refreshWrite"] /\ UNCHANGED busy
    <3>1. LoopAdvances
      BY <2>1, <2>2, <2>5 DEF LoopAdvances, Advances, IInv, TypeOK, SyncState, LoopPoints, Owning
    <3>2. heartbeat_succeeded /\ ~heartbeat_failure_active
      BY <2>1 DEF IInv, SyncOnlyOnline
    <3> QED BY <2>1, <2>2, <2>3, <3>1, <3>2, LoopStepKeeps DEF flags
  <2> QED BY <1>2, <2>4, <2>5 DEF RefreshInventory
<1>3. CASE InventoryWriteSucceeds
  <2>1. Framed
    BY <1>3 DEF Framed, InventoryWriteSucceeds, EndRefresh, IInv, TypeOK, world, flags, history
  <2> QED BY <1>3, <2>1, EndRefreshKeeps DEF InventoryWriteSucceeds
<1>4. CASE InventoryWriteFails
  <2>1. spent' \in [requests : Nat, faults : Nat, crashes : Nat, external : Nat]
    <3>1. spent' = [spent EXCEPT !.faults = @ + 1]
      BY <1>4 DEF InventoryWriteFails
    <3> QED BY <3>1, SpentType DEF IInv, TypeOK
  <2>2. Framed
    BY <1>4, <2>1 DEF Framed, InventoryWriteFails, EndRefresh, IInv, TypeOK, world, flags, ram, history
  <2> QED BY <1>4, <2>2, EndRefreshKeeps DEF InventoryWriteFails, ram
<1> QED BY <1>1, <1>2, <1>3, <1>4

\* A client that takes the flag for a call other than a store.
LEMMA AcquireKeeps ==
  ASSUME IInv, NEW c \in Clients, Acquire(c, "remote"), Framed,
         job' = [job EXCEPT ![c] = job'[c]], job'[c] \in Job,
         UNCHANGED <<flags, inventory_refresh_ticks, sync, prepared>>
  PROVE  IInv'
<1>1. c \in Tasks /\ c # Loop
  BY ConstantsAssumption DEF Tasks
<1>2. pc' = [pc EXCEPT ![c] = "remote"] /\ ~busy /\ busy' = TRUE
  BY DEF Acquire
<1>3. ClientAdvances(c)
  BY <1>1, <1>2 DEF ClientAdvances, Advances, IInv, TypeOK, ClientPoints, Owning, Synchronizing
<1>4. pc[c] \notin Owning
  BY <1>1, <1>2 DEF IInv, OneRequestAtATime
<1> QED BY <1>2, <1>3, <1>4, ClientStepKeeps DEF flags, IInv, TypeOK

LEMMA CallKeeps ==
  ASSUME IInv, NEW c \in Clients, Call(c)
  PROVE  IInv'
<1>1. ASSUME CountRequest PROVE spent' \in [requests : Nat, faults : Nat, crashes : Nat, external : Nat]
  BY <1>1, SpentType DEF CountRequest, IInv, TypeOK
<1>2. ASSUME NEW s \in Spools, NEW l \in Locations, NEW known \in BOOLEAN, CallStore(c, s, l, known)
      PROVE  IInv'
  <2>0. CountRequest /\ UNCHANGED <<world, flags, ram, loop, files, server, history>>
    BY <1>2 DEF CallStore
  <2>1. Framed
    BY <1>1, <2>0 DEF Framed, IInv, TypeOK, world, flags, ram, loop, files, history
  <2>2. [kind |-> "store", spool |-> s, location |-> l, known |-> known] \in Job
    BY DEF Job
  <2>3. job' = [job EXCEPT ![c] = job'[c]] /\ job'[c] \in Job
    BY <1>2, <2>2 DEF CallStore, IInv, TypeOK
  <2>4. pc' = [pc EXCEPT ![c] = pc'[c]] /\ pc'[c] = "await"
    BY <1>2 DEF CallStore, IInv, TypeOK, Tasks
  <2> QED BY <1>2, <2>1, <2>3, <2>4, WaitingKeeps DEF CallStore, flags, ram, loop
<1>3. CASE CallPrepare(c)
  <2>1. Framed
    BY <1>1, <1>3 DEF Framed, CallPrepare, IInv, TypeOK, world, flags, ram, loop, files, history
  <2>2. [kind |-> "prepare", spool |-> None, location |-> None, known |-> FALSE] \in Job
    BY DEF Job
  <2>3. job' = [job EXCEPT ![c] = job'[c]] /\ job'[c] \in Job
    BY <1>3, <2>2 DEF CallPrepare, IInv, TypeOK
  <2>4. pc' = [pc EXCEPT ![c] = pc'[c]] /\ pc'[c] = "await"
    BY <1>3 DEF CallPrepare, IInv, TypeOK, Tasks
  <2> QED BY <1>3, <2>1, <2>3, <2>4, WaitingKeeps DEF CallPrepare, flags, ram, loop
<1>4. ASSUME NEW s \in Spools, CallArchive(c, s)
      PROVE  IInv'
  <2>1. Framed
    BY <1>1, <1>4 DEF Framed, CallArchive, IInv, TypeOK, world, flags, ram, loop, files, history
  <2>2. [kind |-> "archive", spool |-> s, location |-> None, known |-> TRUE] \in Job
    BY DEF Job
  <2>3. job' = [job EXCEPT ![c] = job'[c]] /\ job'[c] \in Job
    BY <1>4, <2>2 DEF CallArchive, IInv, TypeOK
  <2> QED BY <1>4, <2>1, <2>3, AcquireKeeps DEF CallArchive, ram, loop
<1>5. ASSUME NEW kind \in {"test", "register"}, CallWeb(c, kind)
      PROVE  IInv'
  <2>1. Framed
    BY <1>1, <1>5 DEF Framed, CallWeb, IInv, TypeOK, world, flags, ram, loop, files, history
  <2>2. [kind |-> kind, spool |-> None, location |-> None, known |-> FALSE] \in Job
    BY DEF Job
  <2>3. job' = [job EXCEPT ![c] = job'[c]] /\ job'[c] \in Job
    BY <1>5, <2>2 DEF CallWeb, IInv, TypeOK
  <2> QED BY <1>5, <2>1, <2>3, AcquireKeeps DEF CallWeb, ram, loop
<1> QED BY <1>2, <1>3, <1>4, <1>5 DEF Call

LEMMA ClientStepPreserves ==
  ASSUME IInv, NEW c \in Clients, ClientStep(c)
  PROVE  IInv'
<1>a. c \in Tasks /\ c # Loop /\ (pc[c] \in Owning => busy) /\ pc[c] \in ClientPoints
  BY ConstantsAssumption DEF Tasks, IInv, OneRequestAtATime, Control
<1>1. CASE StorageStep(c)
  BY <1>a, <1>1, StorageStepKeeps
<1>2. CASE ProceedStore(c)
  <2>1. pc[c] = "await" /\ job[c].kind = "store" /\ pc[c] \notin Owning
    BY <1>2 DEF ProceedStore, Owning
  <2>2. UNCHANGED <<world, flags, ram, loop, files, server, spent>>
    BY <1>2 DEF ProceedStore
  <2>3. CASE Return(c) /\ UNCHANGED history
    <3>1. Framed
      BY <2>2, <2>3 DEF Framed, IInv, TypeOK, world, flags, ram, loop, files, history
    <3>2. job' = [job EXCEPT ![c] = job'[c]] /\ job'[c] \in Job
      BY <2>3 DEF Return, IInv, TypeOK, Job
    <3>3. pc' = [pc EXCEPT ![c] = pc'[c]] /\ pc'[c] = "idle"
      BY <1>a, <2>3 DEF Return, IInv, TypeOK
    <3> QED BY <2>1, <2>2, <2>3, <3>1, <3>2, <3>3, WaitingKeeps DEF Return, flags, ram, loop
  <2>4. CASE ~busy /\ EnqueueStorage(c)
    <3>1. ClientAdvances(c) /\ owed' \in [Spools -> Locations \cup {None}]
                            /\ choice' \in [Spools -> Locations \cup {None}]
      BY <2>1, <2>4, EnqueueAdvances
    <3>2. Framed
      BY <2>2, <3>1 DEF Framed, IInv, TypeOK, world, flags, ram, loop, files
    <3> QED BY <2>1, <2>2, <2>4, <3>1, <3>2, ClientStepKeeps DEF flags, ram, loop, IInv, TypeOK
  <2>5. CASE Acquire(c, IF job[c].known THEN "move" ELSE "find") /\ UNCHANGED <<job, prepared, history>>
    <3>1. Framed
      BY <2>2, <2>5 DEF Framed, IInv, TypeOK, world, flags, ram, loop, files, history
    <3>2. ClientAdvances(c)
      BY <1>a, <2>1, <2>5
      DEF Acquire, ClientAdvances, Advances, IInv, TypeOK, ClientPoints, Owning, Synchronizing
    <3> QED BY <2>1, <2>2, <2>5, <3>1, <3>2, ClientStepKeeps DEF Acquire, flags, ram, loop, IInv, TypeOK
  <2> QED BY <1>2, <2>3, <2>4, <2>5 DEF ProceedStore
<1>3. CASE ProceedPrepare(c)
  <2>1. pc[c] = "await" /\ UNCHANGED <<world, flags, ram, loop, files, server, history, spent>>
    BY <1>3 DEF ProceedPrepare
  <2>2. Framed
    BY <2>1 DEF Framed, IInv, TypeOK, world, flags, ram, loop, files, history
  <2>3. CASE Return(c)
    <3>1. job' = [job EXCEPT ![c] = job'[c]] /\ job'[c] \in Job
      BY <2>3 DEF Return, IInv, TypeOK, Job
    <3>2. pc' = [pc EXCEPT ![c] = pc'[c]] /\ pc'[c] = "idle"
      BY <1>a, <2>3 DEF Return, IInv, TypeOK
    <3> QED BY <2>1, <2>2, <2>3, <3>1, <3>2, WaitingKeeps DEF Return, flags, ram, loop
  <2>4. CASE Acquire(c, "remote") /\ UNCHANGED <<job, prepared>>
    BY <2>1, <2>2, <2>4, AcquireKeeps DEF ram, loop, IInv, TypeOK
  <2> QED BY <1>3, <2>3, <2>4 DEF ProceedPrepare
<1>4. CASE RemoteEnds(c)
  <2>1. pc[c] = "remote" /\ pc[c] \in Owning
    BY <1>4 DEF RemoteEnds, Owning
  <2>2. UNCHANGED <<ip, steady, flags, ram, loop, files, history, spent>>
    BY <1>4 DEF RemoteEnds
  <2>3. settings' \in Settings
    BY <1>4 DEF RemoteEnds, IInv, TypeOK, Settings
  <2>4. server' \in [Spools -> ServerSpool]
    <3>1. server' \in {server, [server EXCEPT ![job[c].spool].archived = TRUE]}
      BY <1>4 DEF RemoteEnds
    <3> QED BY <3>1, ServerType DEF IInv, TypeOK
  <2>5. Framed
    BY <2>2, <2>3, <2>4 DEF Framed, IInv, TypeOK, flags, ram, loop, files, history
  <2>6. CASE Release(c)
    BY <2>1, <2>2, <2>5, <2>6, ReleaseAdvances, ClientStepKeeps DEF flags, ram, loop
  <2>7. CASE pc' = [pc EXCEPT ![c] = "settingsWrite"] /\ UNCHANGED <<busy, job, prepared>>
    <3>1. ClientAdvances(c)
      BY <1>a, <2>1, <2>7 DEF ClientAdvances, Advances, IInv, TypeOK, ClientPoints, Owning, Synchronizing
    <3> QED BY <2>1, <2>2, <2>5, <3>1, ClientStepKeeps DEF flags, ram, loop, IInv, TypeOK
  <2> QED BY <1>4, <2>6, <2>7 DEF RemoteEnds
<1>5. CASE SettingsWritten(c)
  <2>1. pc[c] \in Owning /\ UNCHANGED <<world, flags, ram, loop, files, server, history, spent>>
    BY <1>5 DEF SettingsWritten, Owning
  <2>2. Framed
    BY <2>1 DEF Framed, IInv, TypeOK, world, flags, ram, loop, files, history
  <2> QED BY <1>5, <2>1, <2>2, ReleaseAdvances, ClientStepKeeps DEF SettingsWritten, flags, ram, loop
<1> QED BY <1>1, <1>2, <1>3, <1>4, <1>5 DEF ClientStep

\* A step that leaves the tasks and the flags alone.
LEMMA IdleKeeps ==
  ASSUME IInv, Framed, UNCHANGED <<busy, flags, inventory_refresh_ticks, sync, tasks>>
  PROVE  IInv'
<1>1. TypeOK'
  BY DEF IInv, TypeOK, Framed, tasks
<1> QED BY <1>1 DEF IInv, Control, OneRequestAtATime, SyncOnlyOnline, flags, tasks

LEMMA EnvironmentKeeps ==
  ASSUME IInv, Environment
  PROVE  IInv'
<1>1. CASE ChangeSettings
  <2>1. Framed
    BY <1>1 DEF Framed, ChangeSettings, CountRequest, Settings, IInv, TypeOK, flags, ram, loop, files, history
  <2> QED BY <1>1, <2>1, IdleKeeps DEF ChangeSettings, ram, loop
<1>2. CASE AddressChanges
  <2>1. Framed
    BY <1>2 DEF Framed, AddressChanges, IInv, TypeOK, flags, ram, loop, files, history
  <2> QED BY <1>2, <2>1, IdleKeeps DEF AddressChanges, ram, loop
<1>3. CASE NetworkSettles
  <2>1. Framed
    BY <1>3 DEF Framed, NetworkSettles, IInv, TypeOK, flags, ram, loop, files, history
  <2> QED BY <1>3, <2>1, IdleKeeps DEF NetworkSettles, ram, loop
<1>4. ASSUME NEW s \in Spools, NEW l \in Places, ExternalMove(s, l)
      PROVE  IInv'
  <2>1. server' = [server EXCEPT ![s].location = l]
    BY <1>4 DEF ExternalMove
  <2>2. server' \in [Spools -> ServerSpool]
    BY <2>1, ServerType DEF IInv, TypeOK
  <2>3. spent' \in [requests : Nat, faults : Nat, crashes : Nat, external : Nat]
    <3>1. spent' = [spent EXCEPT !.external = @ + 1]
      BY <1>4 DEF ExternalMove
    <3> QED BY <3>1, SpentType DEF IInv, TypeOK
  <2>4. UNCHANGED <<world, flags, ram, loop, files, history>>
    BY <1>4 DEF ExternalMove
  <2>5. Framed
    BY <2>2, <2>3, <2>4 DEF Framed, IInv, TypeOK, world, flags, ram, loop, files, history
  <2> QED BY <1>4, <2>5, IdleKeeps DEF ExternalMove, ram, loop
<1>5. CASE Crash
  <2>1. EmptyQueue \in QueueState /\ NoSync \in SyncState
    BY DEF EmptyQueue, QueueState, NoSync, SyncState
  <2>2. sdQueue' \in QueueState \cup {None} /\ sdInventory' \in Inventory \cup {None}
    <3>1. sdQueue' = sdQueue \/ sdQueue' = None
          \/ \E t \in Tasks : pc[t] = "queueWrite" /\ sdQueue' = prepared[t]
      BY <1>5 DEF Crash, QueueFileAtPowerLoss
    <3>2. sdInventory' \in {sdInventory, fetched, None}
      BY <1>5 DEF Crash
    <3> QED BY <3>1, <3>2 DEF IInv, TypeOK, Control
  <2>13. /\ owed' \in [Spools -> Locations \cup {None}]
         /\ choice' \in [Spools -> Locations \cup {None}]
    <3>1. UNCHANGED history
          \/ \E t \in Clients : pc[t] = "queueWrite" /\ ReportQueued(t)
      BY <1>5 DEF Crash, QueueFileAtPowerLoss, Tasks
    <3>2. CASE UNCHANGED history
      BY <3>2 DEF history, IInv, TypeOK
    <3>3. ASSUME NEW t \in Clients, pc[t] = "queueWrite", ReportQueued(t)
          PROVE  /\ owed' \in [Spools -> Locations \cup {None}]
                 /\ choice' \in [Spools -> Locations \cup {None}]
      <4>1. job[t].spool \in Spools /\ job[t].location \in Locations
        BY <3>3, StoreTarget DEF IInv, Control, Synchronizing
      <4> QED BY <3>3, <4>1 DEF ReportQueued, IInv, TypeOK
    <3> QED BY <3>1, <3>2, <3>3
  <2>3. queue' \in QueueState
    BY <1>5, <2>1, <2>2 DEF Crash, LoadQueue
  <2>4. spent' \in [requests : Nat, faults : Nat, crashes : Nat, external : Nat]
    <3>1. spent' = [spent EXCEPT !.crashes = @ + 1]
      BY <1>5 DEF Crash
    <3> QED BY <3>1, SpentType DEF IInv, TypeOK
  <2>5. /\ busy' = FALSE /\ sync' = NoSync
        /\ pc' = [t \in Tasks |-> IF t = Loop THEN "poll" ELSE "idle"]
        /\ job' = [c \in Clients |-> NoJob]
        /\ prepared' = [t \in Tasks |-> None]
        /\ inventory_refresh_ticks' = 0
    BY <1>5 DEF Crash
  <2>6. pc' \in [Tasks -> Owning \cup {"poll", "idle", "await"}]
    BY <2>5 DEF Owning
  <2>7. job' \in [Clients -> Job] /\ prepared' \in [Tasks -> QueueState \cup {None}]
    BY <2>5 DEF Job
  <2>8. sync' \in SyncState /\ inventory_refresh_ticks' \in 0 .. RefreshTicks - 1
    BY <2>1, <2>5, ConstantsAssumption
  <2>9. TypeOK'
    BY <1>5, <2>2, <2>3, <2>4, <2>5, <2>6, <2>7, <2>8, <2>13 DEF Crash, IInv, TypeOK, SyncState
  <2>10. \A t \in Tasks : pc'[t] \notin Owning \cup {"queueWrite"}
    BY <2>5 DEF Owning
  <2>11. Control'
    BY <2>5, ConstantsAssumption DEF Control, Tasks, LoopPoints, ClientPoints, Synchronizing
  <2>12. OneRequestAtATime' /\ SyncOnlyOnline'
    BY <2>5, <2>10 DEF OneRequestAtATime, SyncOnlyOnline, Tasks, Owning, Synchronizing
  <2> QED BY <2>9, <2>11, <2>12 DEF IInv
<1> QED BY <1>1, <1>2, <1>3, <1>4, <1>5 DEF Environment

-----------------------------------------------------------------------------
(* The theorems *)

LEMMA InitEstablishes ==
  ASSUME Init
  PROVE  IInv
<1>1. EmptyQueue \in QueueState /\ NoSync \in SyncState
  BY DEF EmptyQueue, QueueState, NoSync, SyncState
<1>2. pc \in [Tasks -> Owning \cup {"poll", "idle", "await"}]
  BY DEF Init, Owning
<1>3. inventory_refresh_ticks \in 0 .. RefreshTicks - 1
  BY ConstantsAssumption DEF Init
<1>4. TypeOK
  BY <1>1, <1>2, <1>3 DEF Init, TypeOK, SyncState, Job, ServerSpool
<1>5. Control
  BY ConstantsAssumption DEF Init, Control, Tasks, LoopPoints, ClientPoints, Synchronizing
<1>6. OneRequestAtATime
  BY DEF Init, OneRequestAtATime, Owning
<1>7. SyncOnlyOnline
  BY DEF Init, SyncOnlyOnline, Tasks, Synchronizing
<1> QED BY <1>4, <1>5, <1>6, <1>7 DEF IInv

LEMMA NextPreserves ==
  ASSUME IInv, [Next]_vars
  PROVE  IInv'
<1>1. CASE LoopStep
  <2>1. CASE StorageStep(Loop)
    BY <2>1, StorageStepKeeps DEF Tasks
  <2> QED BY <1>1, <2>1, HeartbeatKeeps, RefreshKeeps DEF LoopStep
<1>2. ASSUME NEW c \in Clients, Call(c) \/ ClientStep(c)
      PROVE  IInv'
  BY <1>2, CallKeeps, ClientStepPreserves
<1>3. CASE Environment
  BY <1>3, EnvironmentKeeps
<1>4. CASE UNCHANGED vars
  BY <1>4 DEF vars, IInv, TypeOK, Control, OneRequestAtATime, SyncOnlyOnline,
              world, flags, ram, loop, tasks, files, history
<1> QED BY <1>1, <1>2, <1>3, <1>4 DEF Next

\* The invariant holds in every reachable state.
THEOREM Invariance == Spec => []IInv
BY InitEstablishes, NextPreserves, PTL DEF Spec

\* Every variable of the service keeps its type, whatever fails or is lost.
THEOREM TypeCorrect == Spec => []TypeOK
<1>1. IInv => TypeOK
  BY DEF IInv
<1> QED BY <1>1, Invariance, PTL

\* The busy flag is a lock without an owner: it is set exactly while one task is
\* between its busy.replace(true) and its busy.set(false).
THEOREM RequestsExclusive == Spec => []OneRequestAtATime
<1>1. IInv => OneRequestAtATime
  BY DEF IInv
<1> QED BY <1>1, Invariance, PTL

\* The queue is replayed and the inventory refreshed only while the last word on
\* the connection is a heartbeat that succeeded.
THEOREM MaintenanceOnlyOnline == Spec => []SyncOnlyOnline
<1>1. IInv => SyncOnlyOnline
  BY DEF IInv
<1> QED BY <1>1, Invariance, PTL

-----------------------------------------------------------------------------
(* The order of the queue *)

\* prepare_storage of a spool that is pending changes the location of its
\* operations and nothing else.
LEMMA PrepareStorageReplaces ==
  ASSUME NEW q \in QueueState, NEW s \in Spools, NEW l \in Locations, Pending(q, s)
  PROVE  LET r == PrepareStorage(q, s, l)
             n == Len(q.operations)
         IN  /\ r.next_sequence = q.next_sequence
             /\ DOMAIN r.operations = 1 .. n
             /\ \A i \in 1 .. n : r.operations[i].sequence = q.operations[i].sequence
             /\ \A i \in 1 .. n : r.operations[i].spool = q.operations[i].spool
             /\ \A i \in 1 .. n : r.operations[i].location =
                                    IF q.operations[i].spool = s THEN l ELSE q.operations[i].location
<1> DEFINE n == Len(q.operations)
           moved(i) == IF q.operations[i].spool = s
                       THEN [q.operations[i] EXCEPT !.location = l]
                       ELSE q.operations[i]
           f == [i \in DOMAIN q.operations |-> moved(i)]
<1>1. /\ q.operations \in Seq(Operation) /\ q.next_sequence \in Nat
      /\ n \in Nat /\ DOMAIN q.operations = 1 .. n
  BY DEF QueueState
<1>2. PrepareStorage(q, s, l) = [q EXCEPT !.operations = f]
  BY DEF PrepareStorage
<1>3. \A i \in 1 .. n :
        /\ moved(i).sequence = q.operations[i].sequence
        /\ moved(i).spool = q.operations[i].spool
        /\ moved(i).location = IF q.operations[i].spool = s THEN l ELSE q.operations[i].location
  <2> SUFFICES ASSUME NEW i \in 1 .. n
               PROVE  /\ moved(i).sequence = q.operations[i].sequence
                      /\ moved(i).spool = q.operations[i].spool
                      /\ moved(i).location =
                           IF q.operations[i].spool = s THEN l ELSE q.operations[i].location
    OBVIOUS
  <2>1. q.operations[i] \in Operation
    BY <1>1
  <2> QED BY <2>1 DEF Operation
<1> HIDE DEF moved
<1>4. DOMAIN f = 1 .. n /\ \A i \in 1 .. n : f[i] = moved(i)
  BY <1>1
<1> HIDE DEF f
<1>5. /\ PrepareStorage(q, s, l).operations = f
      /\ PrepareStorage(q, s, l).next_sequence = q.next_sequence
  BY <1>2 DEF QueueState
<1> QED BY <1>3, <1>4, <1>5

\* prepare_storage of any other spool pushes an operation with the next number.
LEMMA PrepareStoragePushes ==
  ASSUME NEW q \in QueueState, NEW s \in Spools, NEW l \in Locations, ~Pending(q, s)
  PROVE  LET r == PrepareStorage(q, s, l)
             n == Len(q.operations)
         IN  /\ r.next_sequence = q.next_sequence + 1
             /\ DOMAIN r.operations = 1 .. n + 1
             /\ \A i \in 1 .. n : r.operations[i] = q.operations[i]
             /\ r.operations[n + 1] = [sequence |-> q.next_sequence, spool |-> s, location |-> l]
<1> DEFINE n == Len(q.operations)
           op == [sequence |-> q.next_sequence, spool |-> s, location |-> l]
<1>1. q.operations \in Seq(Operation) /\ n \in Nat
  BY DEF QueueState
<1>2. PrepareStorage(q, s, l) = [operations |-> Append(q.operations, op),
                                 next_sequence |-> q.next_sequence + 1]
  BY DEF PrepareStorage
<1> HIDE DEF op
<1>3. /\ DOMAIN Append(q.operations, op) = 1 .. n + 1
      /\ \A i \in 1 .. n : Append(q.operations, op)[i] = q.operations[i]
      /\ Append(q.operations, op)[n + 1] = op
  BY <1>1
<1> QED BY <1>2, <1>3 DEF op

\* prepare_storage keeps a queue well formed.
LEMMA PrepareStorageWellFormed ==
  ASSUME NEW q \in QueueState, WellFormed(q), NEW s \in Spools, NEW l \in Locations
  PROVE  WellFormed(PrepareStorage(q, s, l))
<1> DEFINE r == PrepareStorage(q, s, l)
           n == Len(q.operations)
<1>1. /\ q.operations \in Seq(Operation) /\ q.next_sequence \in Nat
      /\ n \in Nat /\ DOMAIN q.operations = 1 .. n
      /\ \A i \in 1 .. n : q.operations[i].sequence \in Nat
  <2>1. q.operations \in Seq(Operation) /\ q.next_sequence \in Nat
    BY DEF QueueState
  <2>2. n \in Nat /\ DOMAIN q.operations = 1 .. n /\ \A i \in 1 .. n : q.operations[i] \in Operation
    BY <2>1
  <2> QED BY <2>1, <2>2 DEF Operation
<1>2. CASE Pending(q, s)
  <2>1. /\ r.next_sequence = q.next_sequence
        /\ DOMAIN r.operations = 1 .. n
        /\ \A i \in 1 .. n : r.operations[i].sequence = q.operations[i].sequence
        /\ \A i \in 1 .. n : r.operations[i].spool = q.operations[i].spool
    BY <1>2, PrepareStorageReplaces
  <2> HIDE DEF r
  <2> QED BY <1>1, <2>1 DEF WellFormed, r
<1>3. CASE ~Pending(q, s)
  <2>1. /\ r.next_sequence = q.next_sequence + 1
        /\ DOMAIN r.operations = 1 .. n + 1
        /\ \A i \in 1 .. n : r.operations[i] = q.operations[i]
        /\ r.operations[n + 1] = [sequence |-> q.next_sequence, spool |-> s, location |-> l]
    BY <1>3, PrepareStoragePushes
  <2>2. \A i \in 1 .. n : q.operations[i].spool # s
    BY <1>1, <1>3 DEF Pending
  <2> HIDE DEF r
  <2>3. r.operations[n + 1].sequence = q.next_sequence /\ r.operations[n + 1].spool = s
    BY <2>1
  <2>4. \A i \in 1 .. n + 1 : r.operations[i].sequence < r.next_sequence
    <3>1. \A i \in 1 .. n : q.operations[i].sequence < q.next_sequence
      BY <1>1 DEF WellFormed
    <3>2. \A i \in 1 .. n + 1 : i \in 1 .. n \/ i = n + 1
      BY <1>1
    <3> QED BY <1>1, <2>1, <2>3, <3>1, <3>2
  <2>5. ASSUME NEW i \in 1 .. n + 1, NEW j \in 1 .. n + 1, i < j
        PROVE  /\ r.operations[i].sequence < r.operations[j].sequence
               /\ r.operations[i].spool # r.operations[j].spool
    <3>1. i \in 1 .. n /\ r.operations[i] = q.operations[i]
      BY <1>1, <2>1, <2>5
    <3>2. CASE j \in 1 .. n
      <4>1. r.operations[j] = q.operations[j]
        BY <2>1, <3>2
      <4>2. /\ q.operations[i].sequence < q.operations[j].sequence
            /\ q.operations[i].spool # q.operations[j].spool
        BY <1>1, <2>5, <3>1, <3>2 DEF WellFormed
      <4> QED BY <3>1, <4>1, <4>2
    <3>3. CASE j = n + 1
      <4>1. q.operations[i].sequence < q.next_sequence
        BY <1>1, <3>1 DEF WellFormed
      <4> QED BY <2>2, <2>3, <3>1, <3>3, <4>1
    <3> QED BY <1>1, <3>2, <3>3
  <2> QED BY <2>1, <2>4, <2>5 DEF WellFormed, r
<1> QED BY <1>2, <1>3

\* prepare_storage places its spool, and no other, at the location it is given.
LEMMA PrepareStorageMoves ==
  ASSUME NEW q \in QueueState, NEW s \in Spools, NEW l \in Locations, NEW u, NEW x
  PROVE  Moves(PrepareStorage(q, s, l), u, x) <=> IF u = s THEN x = l ELSE Moves(q, u, x)
<1> DEFINE r == PrepareStorage(q, s, l)
           n == Len(q.operations)
<1>1. q.operations \in Seq(Operation) /\ n \in Nat /\ DOMAIN q.operations = 1 .. n
  BY DEF QueueState
<1>2. CASE Pending(q, s)
  <2>1. /\ DOMAIN r.operations = 1 .. n
        /\ \A i \in 1 .. n : r.operations[i].spool = q.operations[i].spool
        /\ \A i \in 1 .. n : r.operations[i].location =
                               IF q.operations[i].spool = s THEN l ELSE q.operations[i].location
    BY <1>2, PrepareStorageReplaces
  <2>2. PICK i \in 1 .. n : q.operations[i].spool = s
    BY <1>1, <1>2 DEF Pending
  <2> HIDE DEF r
  <2> QED BY <1>1, <2>1, <2>2 DEF Moves, r
<1>3. CASE ~Pending(q, s)
  <2>1. /\ DOMAIN r.operations = 1 .. n + 1
        /\ \A i \in 1 .. n : r.operations[i] = q.operations[i]
        /\ r.operations[n + 1] = [sequence |-> q.next_sequence, spool |-> s, location |-> l]
    BY <1>3, PrepareStoragePushes
  <2>2. \A i \in 1 .. n : q.operations[i].spool # s
    BY <1>1, <1>3 DEF Pending
  <2> HIDE DEF r
  <2>3. \A i \in 1 .. n + 1 : i \in 1 .. n \/ i = n + 1
    BY <1>1
  <2>4. n + 1 \in 1 .. n + 1 /\ 1 .. n \subseteq 1 .. n + 1
    BY <1>1
  <2>5. r.operations[n + 1].spool = s /\ r.operations[n + 1].location = l
    BY <2>1
  <2> QED BY <1>1, <2>1, <2>2, <2>3, <2>4, <2>5 DEF Moves, r
<1> QED BY <1>2, <1>3

-----------------------------------------------------------------------------
(* The operations a pass of the synchronization keeps *)

\* r holds some of the first n of the operations ops, in their order, and whoever
\* is missing is not due any more.
Keeps(r, ops, n, due) ==
  /\ \A j \in DOMAIN r : \E i \in 1 .. n : r[j] = ops[i]
  /\ \A j, k \in DOMAIN r : j < k => r[j].sequence < r[k].sequence
  /\ \A i \in 1 .. n : (\E j \in DOMAIN r : r[j] = ops[i]) \/ due[ops[i].spool] = None

\* The next operation was acknowledged.
LEMMA KeepsAcknowledged ==
  ASSUME NEW ops \in Seq(Operation), NEW r, NEW n \in 1 .. Len(ops),
         NEW due \in [Spools -> Locations \cup {None}], Keeps(r, ops, n - 1, due)
  PROVE  Keeps(r, ops, n, [due EXCEPT ![ops[n].spool] = None])
<1> DEFINE after == [due EXCEPT ![ops[n].spool] = None]
<1>0. \A i \in 1 .. n : i \in 1 .. Len(ops)
  OBVIOUS
<1>6. \A i \in 1 .. n : ops[i].spool \in Spools
  <2>1. \A i \in 1 .. n : ops[i] \in Operation
    BY <1>0
  <2> QED BY <2>1 DEF Operation
<1>1. ops[n].spool \in Spools
  BY <1>6
<1>2. \A s \in Spools : due[s] = None => after[s] = None
  OBVIOUS
<1>3. after[ops[n].spool] = None
  BY <1>1
<1>4. \A i \in 1 .. n : i \in 1 .. n - 1 \/ i = n
  OBVIOUS
<1>5. 1 .. n - 1 \subseteq 1 .. n
  OBVIOUS
<1> HIDE DEF after
<1> QED BY <1>2, <1>3, <1>4, <1>5, <1>6 DEF Keeps, after

\* The next operation failed and stays.
LEMMA KeepsFailed ==
  ASSUME NEW q \in QueueState, WellFormed(q), NEW r \in Seq(Operation),
         NEW n \in 1 .. Len(q.operations), NEW due, Keeps(r, q.operations, n - 1, due)
  PROVE  Keeps(Append(r, q.operations[n]), q.operations, n, due)
<1> DEFINE ops == q.operations
           m == Len(r)
           longer == Append(r, ops[n])
<1>1. /\ ops \in Seq(Operation) /\ m \in Nat
      /\ DOMAIN ops = 1 .. Len(ops) /\ DOMAIN r = 1 .. m
  BY DEF QueueState
<1>2. /\ DOMAIN longer = 1 .. m + 1
      /\ \A j \in 1 .. m : longer[j] = r[j]
      /\ longer[m + 1] = ops[n]
  BY <1>1
<1>3. \A i \in 1 .. n - 1 : ops[i].sequence < ops[n].sequence
  BY <1>1 DEF WellFormed
<1>4. \A i \in 1 .. n : i \in 1 .. n - 1 \/ i = n
  BY <1>1
<1>5. 1 .. n - 1 \subseteq 1 .. n /\ n \in 1 .. n /\ 1 .. m \subseteq 1 .. m + 1 /\ m + 1 \in 1 .. m + 1
  BY <1>1
<1>6. \A j \in 1 .. m + 1 : j \in 1 .. m \/ j = m + 1
  BY <1>1
<1> HIDE DEF longer, ops, m
<1>7. \A j \in DOMAIN longer : \E i \in 1 .. n : longer[j] = ops[i]
  BY <1>1, <1>2, <1>5, <1>6 DEF Keeps, ops
<1>8. ASSUME NEW j \in DOMAIN longer, NEW k \in DOMAIN longer, j < k
      PROVE  longer[j].sequence < longer[k].sequence
  <2>1. j \in 1 .. m /\ longer[j] = r[j]
    BY <1>1, <1>2, <1>8
  <2>2. CASE k \in 1 .. m
    BY <1>1, <1>2, <1>8, <2>1, <2>2 DEF Keeps
  <2>3. CASE k = m + 1
    <3>1. PICK i \in 1 .. n - 1 : r[j] = ops[i]
      BY <1>1, <2>1 DEF Keeps, ops
    <3> QED BY <1>2, <1>3, <2>1, <2>3, <3>1
  <2> QED BY <1>2, <1>6, <2>2, <2>3
<1>9. ASSUME NEW i \in 1 .. n
      PROVE  (\E j \in DOMAIN longer : longer[j] = ops[i]) \/ due[ops[i].spool] = None
  <2>1. CASE i \in 1 .. n - 1
    <3>1. (\E j \in 1 .. m : r[j] = ops[i]) \/ due[ops[i].spool] = None
      BY <1>1, <2>1 DEF Keeps, ops
    <3> QED BY <1>2, <1>5, <3>1
  <2>2. CASE i = n
    BY <1>2, <1>5, <2>2
  <2> QED BY <1>4, <2>1, <2>2
<1> QED BY <1>7, <1>8, <1>9 DEF Keeps, longer, ops

\* A pass that ends after operation n keeps those it has not tried as well.
LEMMA KeepsUntried ==
  ASSUME NEW q \in QueueState, WellFormed(q), NEW r \in Seq(Operation),
         NEW n \in 1 .. Len(q.operations), NEW due, Keeps(r, q.operations, n, due)
  PROVE  Keeps(r \o SubSeq(q.operations, n + 1, Len(q.operations)),
               q.operations, Len(q.operations), due)
<1> DEFINE ops == q.operations
           m == Len(r)
           u == Len(ops) - n
           rest == SubSeq(ops, n + 1, Len(ops))
           all == r \o rest
<1>1. /\ ops \in Seq(Operation) /\ m \in Nat /\ Len(ops) \in Nat
      /\ DOMAIN ops = 1 .. Len(ops) /\ DOMAIN r = 1 .. m
  BY DEF QueueState
<1>2. u \in Nat /\ n \in Nat /\ n + u = Len(ops)
  BY <1>1
<1>3. /\ rest \in Seq(Operation) /\ Len(rest) = u
      /\ \A j \in 1 .. u : rest[j] = ops[n + j]
  <2>1. \A i \in n + 1 .. Len(ops) : ops[i] \in Operation
    BY <1>1
  <2>2. n + 1 \in Int /\ Len(ops) \in Int
    BY <1>1
  <2>3. /\ rest \in Seq(Operation)
        /\ Len(rest) = IF n + 1 <= Len(ops) THEN Len(ops) - (n + 1) + 1 ELSE 0
        /\ \A i \in 1 .. Len(ops) - (n + 1) + 1 : rest[i] = ops[n + 1 + i - 1]
    BY <2>1, <2>2, SubSeqProperties
  <2>4. Len(rest) = u
    BY <1>1, <1>2, <2>3
  <2>5. \A i \in 1 .. u : i \in 1 .. Len(ops) - (n + 1) + 1 /\ n + 1 + i - 1 = n + i
    BY <1>1, <1>2
  <2> QED BY <2>3, <2>4, <2>5
<1>4. /\ DOMAIN all = 1 .. m + u
      /\ \A j \in 1 .. m : all[j] = r[j]
      /\ \A j \in 1 .. u : all[m + j] = ops[n + j]
  <2>1. Len(all) = m + u /\ all \in Seq(Operation)
    BY <1>1, <1>3, ConcatProperties
  <2>2. \A j \in 1 .. m + u : all[j] = IF j <= m THEN r[j] ELSE rest[j - m]
    BY <1>1, <1>3, ConcatProperties
  <2>3. \A j \in 1 .. u : all[m + j] = rest[j]
    <3> SUFFICES ASSUME NEW j \in 1 .. u
                 PROVE  all[m + j] = rest[j]
      OBVIOUS
    <3>1. m + j \in 1 .. m + u /\ ~(m + j <= m) /\ (m + j) - m = j
      BY <1>1, <1>2
    <3> QED BY <2>2, <3>1
  <2>4. \A j \in 1 .. m : j \in 1 .. m + u /\ j <= m
    BY <1>1, <1>2
  <2> QED BY <1>3, <2>1, <2>2, <2>3, <2>4
<1>5. \A j \in 1 .. m + u : j \in 1 .. m \/ \E k \in 1 .. u : j = m + k
  <2> SUFFICES ASSUME NEW j \in 1 .. m + u, j \notin 1 .. m
               PROVE  \E k \in 1 .. u : j = m + k
    OBVIOUS
  <2>1. j - m \in 1 .. u /\ j = m + (j - m)
    BY <1>1, <1>2
  <2> QED BY <2>1
<1>6. \A i \in 1 .. Len(ops) : i \in 1 .. n \/ \E k \in 1 .. u : i = n + k
  <2> SUFFICES ASSUME NEW i \in 1 .. Len(ops), i \notin 1 .. n
               PROVE  \E k \in 1 .. u : i = n + k
    OBVIOUS
  <2>1. i - n \in 1 .. u /\ i = n + (i - n)
    BY <1>1, <1>2
  <2> QED BY <2>1
<1>7. /\ \A k \in 1 .. u : n + k \in 1 .. Len(ops) /\ m + k \in 1 .. m + u
      /\ 1 .. n \subseteq 1 .. Len(ops) /\ 1 .. m \subseteq 1 .. m + u
  BY <1>1, <1>2
<1>8. \A i, k \in 1 .. Len(ops) : i < k => ops[i].sequence < ops[k].sequence
  BY <1>1 DEF WellFormed
<1>a. Keeps(r, ops, n, due)
  OBVIOUS
<1> HIDE DEF all, rest, ops, m, u
<1>9. \A j \in DOMAIN all : \E i \in 1 .. Len(ops) : all[j] = ops[i]
  <2> SUFFICES ASSUME NEW j \in 1 .. m + u
               PROVE  \E i \in 1 .. Len(ops) : all[j] = ops[i]
    BY <1>4
  <2>1. CASE j \in 1 .. m
    BY <1>1, <1>4, <1>7, <1>a, <2>1 DEF Keeps
  <2>2. CASE \E k \in 1 .. u : j = m + k
    BY <1>4, <1>7, <2>2
  <2> QED BY <1>5, <2>1, <2>2
<1>10. ASSUME NEW j \in DOMAIN all, NEW k \in DOMAIN all, j < k
       PROVE  all[j].sequence < all[k].sequence
  <2>1. j \in 1 .. m + u /\ k \in 1 .. m + u
    BY <1>4
  <2>2. CASE j \in 1 .. m /\ k \in 1 .. m
    BY <1>1, <1>4, <1>10, <1>a, <2>2 DEF Keeps
  <2>3. ASSUME j \in 1 .. m, NEW b \in 1 .. u, k = m + b
        PROVE  all[j].sequence < all[k].sequence
    <3>1. PICK i \in 1 .. n : r[j] = ops[i]
      BY <1>1, <1>a, <2>3 DEF Keeps
    <3>2. i < n + b
      BY <1>2
    <3> QED BY <1>4, <1>7, <1>8, <2>3, <3>1, <3>2
  <2>4. ASSUME NEW a \in 1 .. u, j = m + a, NEW b \in 1 .. u, k = m + b
        PROVE  all[j].sequence < all[k].sequence
    <3>1. n + a < n + b
      BY <1>1, <1>2, <1>10, <2>4
    <3> QED BY <1>4, <1>7, <1>8, <2>4, <3>1
  <2>5. ASSUME NEW a \in 1 .. u, j = m + a
        PROVE  k \notin 1 .. m
    BY <1>1, <1>2, <1>10, <2>5
  <2> QED BY <1>5, <2>1, <2>2, <2>3, <2>4, <2>5
<1>11. ASSUME NEW i \in 1 .. Len(ops)
       PROVE  (\E j \in DOMAIN all : all[j] = ops[i]) \/ due[ops[i].spool] = None
  <2>1. CASE i \in 1 .. n
    <3>1. (\E j \in 1 .. m : r[j] = ops[i]) \/ due[ops[i].spool] = None
      BY <1>1, <1>a, <2>1 DEF Keeps
    <3> QED BY <1>4, <1>7, <3>1
  <2>2. CASE \E k \in 1 .. u : i = n + k
    BY <1>4, <1>7, <2>2
  <2> QED BY <1>6, <2>1, <2>2
<1> QED BY <1>9, <1>10, <1>11 DEF Keeps, all, rest, ops

\* prepare_remaining of what a pass keeps leaves a well-formed queue,
LEMMA KeepsWellFormed ==
  ASSUME NEW q \in QueueState, WellFormed(q), NEW r \in Seq(Operation), NEW due,
         Keeps(r, q.operations, Len(q.operations), due)
  PROVE  WellFormed(PrepareRemaining(q, r))
<1> DEFINE n == Len(q.operations)
           p == PrepareRemaining(q, r)
<1>1. /\ q.operations \in Seq(Operation) /\ n \in Nat /\ DOMAIN q.operations = 1 .. n
      /\ p.operations = r /\ p.next_sequence = q.next_sequence
  BY DEF QueueState, PrepareRemaining
<1>2. \A j \in DOMAIN r : \E i \in 1 .. n : r[j] = q.operations[i]
  BY DEF Keeps
<1>3. \A j, k \in DOMAIN r : j < k => r[j].sequence < r[k].sequence
  BY DEF Keeps
<1>4. \A j \in DOMAIN r : r[j].sequence < q.next_sequence
  BY <1>1, <1>2 DEF WellFormed
<1>5. ASSUME NEW j \in DOMAIN r, NEW k \in DOMAIN r, j < k
      PROVE  r[j].spool # r[k].spool
  <2>1. PICK a \in 1 .. n : r[j] = q.operations[a]
    BY <1>2
  <2>2. PICK b \in 1 .. n : r[k] = q.operations[b]
    BY <1>2
  <2>3. r[j].sequence < r[k].sequence
    BY <1>3, <1>5
  <2>4. q.operations[a].sequence \in Nat /\ q.operations[b].sequence \in Nat
    <3>1. q.operations[a] \in Operation /\ q.operations[b] \in Operation
      BY <1>1
    <3> QED BY <3>1 DEF Operation
  <2>5. a # b
    BY <2>1, <2>2, <2>3, <2>4
  <2>6. a < b \/ b < a
    BY <1>1, <2>5
  <2> QED BY <1>1, <2>1, <2>2, <2>6 DEF WellFormed
<1> HIDE DEF p
<1> QED BY <1>1, <1>3, <1>4, <1>5 DEF WellFormed, p

\* places no spool where the queue did not place it,
LEMMA KeepsMovesOnly ==
  ASSUME NEW q \in QueueState, NEW r \in Seq(Operation), NEW due,
         Keeps(r, q.operations, Len(q.operations), due),
         NEW s, NEW x, Moves(PrepareRemaining(q, r), s, x)
  PROVE  Moves(q, s, x)
<1>1. DOMAIN q.operations = 1 .. Len(q.operations) /\ PrepareRemaining(q, r).operations = r
  BY DEF QueueState, PrepareRemaining
<1> QED BY <1>1 DEF Moves, Keeps

\* and still places every spool that is due.
LEMMA KeepsMovesDue ==
  ASSUME NEW q \in QueueState, NEW r \in Seq(Operation), NEW due,
         Keeps(r, q.operations, Len(q.operations), due),
         NEW s, due[s] # None, NEW x, Moves(q, s, x)
  PROVE  Moves(PrepareRemaining(q, r), s, x)
<1>1. DOMAIN q.operations = 1 .. Len(q.operations) /\ PrepareRemaining(q, r).operations = r
  BY DEF QueueState, PrepareRemaining
<1> QED BY <1>1 DEF Moves, Keeps

\* The pending location of a spool is where the queue places it.
LEMMA PendingLocationMoves ==
  ASSUME NEW q \in QueueState, WellFormed(q), NEW s, NEW x \in Locations
  PROVE  Moves(q, s, x) <=> PendingLocation(q, s) = x
<1>1. q.operations \in Seq(Operation) /\ DOMAIN q.operations = 1 .. Len(q.operations)
  BY DEF QueueState
<1>2. \A i, j \in DOMAIN q.operations :
        q.operations[i].spool = s /\ q.operations[j].spool = s => i = j
  <2> SUFFICES ASSUME NEW i \in DOMAIN q.operations, NEW j \in DOMAIN q.operations,
                      q.operations[i].spool = s, q.operations[j].spool = s, i # j
               PROVE  FALSE
    OBVIOUS
  <2>1. i < j \/ j < i
    BY <1>1
  <2> QED BY <2>1 DEF WellFormed
<1>3. CASE Pending(q, s)
  <2> DEFINE i == CHOOSE j \in DOMAIN q.operations : q.operations[j].spool = s
  <2>1. i \in DOMAIN q.operations /\ q.operations[i].spool = s
    BY <1>3 DEF Pending
  <2>2. PendingLocation(q, s) = q.operations[i].location
    BY <1>3 DEF PendingLocation
  <2> HIDE DEF i
  <2> QED BY <1>2, <2>1, <2>2 DEF Moves
<1>4. CASE ~Pending(q, s)
  BY <1>4, ConstantsAssumption DEF Pending, PendingLocation, Moves
<1> QED BY <1>3, <1>4

LEMMA PendingLocationType ==
  ASSUME NEW q \in QueueState, NEW s
  PROVE  PendingLocation(q, s) \in Locations \cup {None}
<1>1. CASE Pending(q, s)
  <2> DEFINE i == CHOOSE j \in DOMAIN q.operations : q.operations[j].spool = s
  <2>1. i \in DOMAIN q.operations
    BY <1>1 DEF Pending
  <2>2. PendingLocation(q, s) = q.operations[i].location
    BY <1>1 DEF PendingLocation
  <2> HIDE DEF i
  <2>3. q.operations[i] \in Operation
    BY <2>1 DEF QueueState
  <2> QED BY <2>2, <2>3 DEF Operation
<1> QED BY <1>1 DEF PendingLocation

-----------------------------------------------------------------------------
(* The queue, the card and the work in hand *)

\* What task t holds of the queue while it owns the flag: the heartbeat task its
\* snapshot and what it keeps of it, a store the queue it is about to commit.
WorkInHand(t) ==
  IF t = Loop
  THEN /\ pc[t] \in Synchronizing => sync.operations = queue.operations
       /\ pc[t] \in {"find", "import", "move"} =>
            Keeps(sync.remaining, queue.operations, sync.at - 1, owed)
       /\ pc[t] = "queueWrite" =>
            \E r \in Seq(Operation) :
              /\ prepared[t] = PrepareRemaining(queue, r)
              /\ Keeps(r, queue.operations, Len(queue.operations), owed)
  ELSE pc[t] = "queueWrite" => prepared[t] = PrepareStorage(queue, job[t].spool, job[t].location)

\* Each file is what the service has committed, or torn.
CardHolds ==
  /\ sdQueue = queue \/ (TornWrites /\ sdQueue = None)
  /\ sdInventory = inventory \/ (TornWrites /\ sdInventory = None)

QueueInv ==
  /\ WellFormed(queue)
  /\ CardHolds
  /\ \A t \in Tasks : WorkInHand(t)
  /\ ~TornWrites => OwedIsQueued

\* What a step may do to the queue and to what is owed: nothing, acknowledge one
\* spool, accept one choice, drop what is no longer owed; a reboot with a torn file empties it.
Committed ==
  \/ UNCHANGED <<queue, owed>>
  \/ UNCHANGED queue /\ \E s \in Spools : owed' = [owed EXCEPT ![s] = None]
  \/ \E s \in Spools, l \in Locations :
       /\ queue' = PrepareStorage(queue, s, l)
       /\ owed' = [owed EXCEPT ![s] = l]
  \/ /\ UNCHANGED owed
     /\ \E r \in Seq(Operation) :
          /\ queue' = PrepareRemaining(queue, r)
          /\ Keeps(r, queue.operations, Len(queue.operations), owed)
  \/ Crash /\ TornWrites /\ queue' = EmptyQueue /\ UNCHANGED owed

StepOk == Committed /\ CardHolds' /\ \A t \in Tasks : WorkInHand(t)'

\* Such a step keeps the queue well formed and what is owed in it.
LEMMA CommittedKeeps ==
  ASSUME IInv, QueueInv, Committed
  PROVE  WellFormed(queue)' /\ (~TornWrites => OwedIsQueued')
<1>1. /\ queue \in QueueState /\ WellFormed(queue)
      /\ owed \in [Spools -> Locations \cup {None}]
      /\ ~TornWrites => \A s \in Spools : owed[s] # None => Moves(queue, s, owed[s])
  BY DEF IInv, TypeOK, QueueInv, OwedIsQueued, QueuedFor, Moves
<1>2. (\A s \in Spools : owed'[s] # None => Moves(queue', s, owed'[s])) => OwedIsQueued'
  BY DEF OwedIsQueued, QueuedFor, Moves
<1>3. CASE UNCHANGED <<queue, owed>>
  BY <1>1, <1>2, <1>3 DEF WellFormed
<1>4. ASSUME UNCHANGED queue, NEW s \in Spools, owed' = [owed EXCEPT ![s] = None]
      PROVE  WellFormed(queue)' /\ (~TornWrites => OwedIsQueued')
  <2>1. \A u \in Spools : owed'[u] # None => owed'[u] = owed[u]
    BY <1>1, <1>4
  <2>2. WellFormed(queue)'
    BY <1>1, <1>4 DEF WellFormed
  <2> QED BY <1>1, <1>2, <1>4, <2>1, <2>2
<1>5. ASSUME NEW s \in Spools, NEW l \in Locations, queue' = PrepareStorage(queue, s, l),
             owed' = [owed EXCEPT ![s] = l]
      PROVE  WellFormed(queue)' /\ (~TornWrites => OwedIsQueued')
  <2>1. WellFormed(queue')
    BY <1>1, <1>5, PrepareStorageWellFormed
  <2>2. \A u, x : Moves(queue', u, x) <=> IF u = s THEN x = l ELSE Moves(queue, u, x)
    BY <1>1, <1>5, PrepareStorageMoves
  <2>3. \A u \in Spools : owed'[u] = IF u = s THEN l ELSE owed[u]
    BY <1>1, <1>5
  <2>4. WellFormed(queue)'
    BY <2>1 DEF WellFormed
  <2> QED BY <1>1, <1>2, <2>2, <2>3, <2>4
<1>6. ASSUME UNCHANGED owed, NEW r \in Seq(Operation), queue' = PrepareRemaining(queue, r),
             Keeps(r, queue.operations, Len(queue.operations), owed)
      PROVE  WellFormed(queue)' /\ (~TornWrites => OwedIsQueued')
  <2>1. WellFormed(queue')
    BY <1>1, <1>6, KeepsWellFormed
  <2>2. \A u \in Spools : \A x : owed[u] # None /\ Moves(queue, u, x) => Moves(queue', u, x)
    BY <1>1, <1>6, KeepsMovesDue
  <2>3. WellFormed(queue)'
    BY <2>1 DEF WellFormed
  <2> QED BY <1>1, <1>2, <1>6, <2>2, <2>3
<1>7. CASE TornWrites /\ queue' = EmptyQueue /\ UNCHANGED owed
  BY <1>7 DEF WellFormed, EmptyQueue
<1> QED BY <1>3, <1>4, <1>5, <1>6, <1>7 DEF Committed

-----------------------------------------------------------------------------
(* Who may hold work *)

\* While t owns the flag, or finds it free, no other task holds work.
LEMMA OthersIdle ==
  ASSUME IInv, NEW t \in Tasks, pc[t] \in Owning \/ ~busy,
         pc' = [pc EXCEPT ![t] = pc'[t]], WorkInHand(t)'
  PROVE  \A u \in Tasks : WorkInHand(u)'
<1>1. \A u \in Tasks \ {t} : pc[u] \notin Owning
  BY DEF IInv, OneRequestAtATime
<1>2. \A u \in Tasks \ {t} : pc'[u] = pc[u]
  BY DEF IInv, TypeOK
<1>3. ASSUME NEW u \in Tasks \ {t}
      PROVE  WorkInHand(u)'
  <2>1. pc'[u] \notin Owning
    BY <1>1, <1>2
  <2>2. pc'[u] \notin Synchronizing \cup {"find", "import", "move", "queueWrite"}
    BY <2>1 DEF Owning, Synchronizing
  <2> QED BY <2>2 DEF WorkInHand
<1> QED BY <1>3

\* A task that stops where it holds no work disturbs no other.
LEMMA HoldsNothing ==
  ASSUME IInv, QueueInv, NEW t \in Tasks, pc' = [pc EXCEPT ![t] = pc'[t]],
         pc'[t] \notin Synchronizing,
         UNCHANGED <<queue, owed>>, t # Loop => UNCHANGED sync,
         prepared' = [prepared EXCEPT ![t] = prepared'[t]],
         job' = [job EXCEPT ![t] = job'[t]] \/ UNCHANGED job
  PROVE  \A u \in Tasks : WorkInHand(u)'
<1>1. WorkInHand(t)'
  BY DEF WorkInHand, Synchronizing
<1>2. ASSUME NEW u \in Tasks \ {t}
      PROVE  WorkInHand(u)'
  <2>1. pc'[u] = pc[u] /\ prepared'[u] = prepared[u]
    BY DEF IInv, TypeOK
  <2>2. u # Loop => job'[u] = job[u]
    BY DEF IInv, TypeOK, Tasks
  <2>3. u = Loop => sync' = sync
    BY <1>2
  <2>4. WorkInHand(u)
    BY DEF QueueInv
  <2>5. queue' = queue /\ owed' = owed
    OBVIOUS
  <2> QED BY <2>1, <2>2, <2>3, <2>4, <2>5 DEF WorkInHand
<1> QED BY <1>1, <1>2

\* A step that leaves the tasks and the queue alone.
LEMMA NothingMoves ==
  ASSUME QueueInv, UNCHANGED <<queue, owed, sync, tasks>>
  PROVE  \A u \in Tasks : WorkInHand(u)'
<1>1. queue' = queue /\ owed' = owed /\ sync' = sync /\ pc' = pc /\ job' = job /\ prepared' = prepared
  BY DEF tasks
<1> QED BY <1>1 DEF QueueInv, WorkInHand

\* The card and what it should hold are left alone.
LEMMA CardUntouched ==
  ASSUME QueueInv, UNCHANGED <<queue, inventory, files>>
  PROVE  CardHolds'
BY DEF QueueInv, CardHolds, files

-----------------------------------------------------------------------------
(* What each piece does to the work in hand *)

LEMMA AfterSyncWork ==
  ASSUME IInv, QueueInv, NEW force \in BOOLEAN, NEW changed \in BOOLEAN, AfterSync(force, changed)
  PROVE  pc' = [pc EXCEPT ![Loop] = pc'[Loop]] /\ WorkInHand(Loop)'
<1>1. LoopAdvances
  BY AfterSyncAdvances
<1>2. pc'[Loop] \in {"refresh", "poll"}
  BY DEF AfterSync, IInv, TypeOK, Tasks
<1> QED BY <1>1, <1>2 DEF LoopAdvances, Advances, WorkInHand, Synchronizing

\* A pass starts with the queue as its snapshot.
LEMMA MaintenanceWork ==
  ASSUME IInv, QueueInv, NEW force \in BOOLEAN, RunOnlineMaintenance(force), UNCHANGED <<queue, owed>>
  PROVE  pc' = [pc EXCEPT ![Loop] = pc'[Loop]] /\ WorkInHand(Loop)'
<1>1. CASE queue.operations = <<>>
  BY <1>1, AfterSyncWork DEF RunOnlineMaintenance
<1>2. CASE queue.operations # <<>>
  <2>1. /\ sync' = [operations |-> queue.operations, at |-> 1, remaining |-> <<>>, force |-> force]
        /\ pc' = [pc EXCEPT ![Loop] = "find"]
    BY <1>2 DEF RunOnlineMaintenance
  <2>2. pc'[Loop] = "find" /\ pc' = [pc EXCEPT ![Loop] = pc'[Loop]]
    BY <2>1 DEF IInv, TypeOK, Tasks
  <2>3. /\ sync'.operations = queue'.operations
        /\ sync'.remaining = <<>> /\ sync'.at - 1 = 0
    BY <2>1
  <2>4. Keeps(sync'.remaining, queue'.operations, sync'.at - 1, owed')
    BY <2>3 DEF Keeps
  <2> QED BY <2>2, <2>3, <2>4 DEF WorkInHand
<1> QED BY <1>1, <1>2

\* The pass goes on with what it keeps so far, or ends with all that it keeps.
LEMMA SyncNextWork ==
  ASSUME IInv, QueueInv, NEW r \in Seq(Operation), NEW stop \in BOOLEAN, SyncNext(r, stop),
         pc[Loop] \in {"find", "import", "move"}, UNCHANGED queue,
         Keeps(r, queue.operations, sync.at, owed')
  PROVE  pc' = [pc EXCEPT ![Loop] = pc'[Loop]] /\ WorkInHand(Loop)'
<1>1. sync \in SyncState /\ sync.at \in Nat /\ sync.force \in BOOLEAN /\ queue \in QueueState
  BY DEF IInv, TypeOK, SyncState
<1>2. sync.operations = queue.operations /\ sync.at \in 1 .. Len(queue.operations)
  <2>1. WorkInHand(Loop) /\ sync.at \in DOMAIN sync.operations
    BY DEF QueueInv, IInv, Control, Tasks
  <2>2. sync.operations = queue.operations
    BY <2>1 DEF WorkInHand, Synchronizing
  <2> QED BY <1>1, <2>1, <2>2 DEF QueueState
<1>3. CASE ~stop /\ Untried # <<>>
  <2>1. sync' = [sync EXCEPT !.at = @ + 1, !.remaining = r] /\ pc' = [pc EXCEPT ![Loop] = "find"]
    BY <1>3 DEF SyncNext
  <2>2. pc'[Loop] = "find" /\ pc' = [pc EXCEPT ![Loop] = pc'[Loop]]
    BY <2>1 DEF IInv, TypeOK, Tasks
  <2>3. /\ sync'.operations = queue'.operations
        /\ sync'.remaining = r /\ sync'.at - 1 = sync.at
    BY <1>1, <1>2, <2>1 DEF SyncState
  <2> QED BY <2>2, <2>3 DEF WorkInHand
<1>4. CASE ~(~stop /\ Untried # <<>>) /\ Len(Kept(r)) = Len(sync.operations)
  BY <1>1, <1>4, AfterSyncWork DEF SyncNext
<1>5. CASE ~(~stop /\ Untried # <<>>) /\ Len(Kept(r)) # Len(sync.operations)
  <2>1. /\ prepared' = [prepared EXCEPT ![Loop] = PrepareRemaining(queue, Kept(r))]
        /\ pc' = [pc EXCEPT ![Loop] = "queueWrite"]
        /\ sync' = sync
    BY <1>5 DEF SyncNext
  <2>2. /\ pc'[Loop] = "queueWrite" /\ pc' = [pc EXCEPT ![Loop] = pc'[Loop]]
        /\ prepared'[Loop] = PrepareRemaining(queue, Kept(r))
    BY <2>1 DEF IInv, TypeOK, Tasks
  <2>3. Kept(r) \in Seq(Operation)
    BY <1>1, KeptType
  <2>4. Keeps(Kept(r), queue.operations, Len(queue.operations), owed')
    BY <1>1, <1>2, KeepsUntried DEF QueueInv, Kept, Untried
  <2> QED BY <1>2, <2>1, <2>2, <2>3, <2>4 DEF WorkInHand
<1> QED BY <1>3, <1>4, <1>5

LEMMA ReleaseWork ==
  ASSUME IInv, NEW c \in Clients, Release(c)
  PROVE  pc' = [pc EXCEPT ![c] = pc'[c]] /\ WorkInHand(c)'
<1>1. c # Loop /\ c \in Tasks
  BY ConstantsAssumption DEF Tasks
<1>2. pc' = [pc EXCEPT ![c] = "idle"]
  BY DEF Release
<1>3. pc'[c] = "idle" /\ pc' = [pc EXCEPT ![c] = pc'[c]]
  BY <1>1, <1>2 DEF IInv, TypeOK
<1> QED BY <1>1, <1>3 DEF WorkInHand

\* A choice that is queued is in the queue already, or about to be written.
LEMMA EnqueueWork ==
  ASSUME IInv, QueueInv, NEW c \in Clients, job[c].kind = "store", EnqueueStorage(c), UNCHANGED queue
  PROVE  Committed /\ pc' = [pc EXCEPT ![c] = pc'[c]] /\ WorkInHand(c)'
<1> DEFINE next == PrepareStorage(queue, job[c].spool, job[c].location)
<1>1. c # Loop /\ c \in Tasks
  BY ConstantsAssumption DEF Tasks
<1>2. job[c].spool \in Spools /\ job[c].location \in Locations
  BY StoreTarget
<1>3. CASE next = queue /\ Release(c) /\ ReportQueued(c)
  <2>1. Committed
    BY <1>2, <1>3 DEF Committed, ReportQueued
  <2> QED BY <1>3, <2>1, ReleaseWork
<1>4. CASE /\ prepared' = [prepared EXCEPT ![c] = next]
           /\ pc' = [pc EXCEPT ![c] = "queueWrite"]
           /\ UNCHANGED <<job, history>>
  <2>1. Committed
    BY <1>4 DEF Committed, history
  <2>2. prepared'[c] = next /\ pc' = [pc EXCEPT ![c] = pc'[c]]
    BY <1>1, <1>4 DEF IInv, TypeOK
  <2> QED BY <1>1, <1>4, <2>1, <2>2 DEF WorkInHand
<1> QED BY <1>3, <1>4 DEF EnqueueStorage

-----------------------------------------------------------------------------
(* The requests of a store or of one queued operation *)

\* What is in hand while the heartbeat task works on an operation.
LEMMA LoopAtWork ==
  ASSUME IInv, QueueInv, pc[Loop] \in {"find", "import", "move"}
  PROVE  /\ sync.at \in 1 .. Len(queue.operations)
         /\ Target(Loop) = queue.operations[sync.at]
         /\ Keeps(sync.remaining, queue.operations, sync.at - 1, owed)
<1>1. WorkInHand(Loop) /\ sync.at \in DOMAIN sync.operations /\ queue.operations \in Seq(Operation)
  BY DEF QueueInv, IInv, TypeOK, QueueState, Control, Tasks
<1>2. sync.operations = queue.operations
  BY <1>1 DEF WorkInHand, Synchronizing
<1> QED BY <1>1, <1>2 DEF WorkInHand, Target

\* An acknowledged operation is owed no longer.
LEMMA AppliedWork ==
  ASSUME IInv, QueueInv, NEW t \in Tasks, pc[t] \in {"find", "import", "move"}, Applied(t),
         UNCHANGED queue
  PROVE  Committed /\ pc' = [pc EXCEPT ![t] = pc'[t]] /\ WorkInHand(t)'
<1>1. Target(t).spool \in Spools
  BY TargetType
<1>2. CASE t = Loop
  <2>1. owed' = [owed EXCEPT ![Target(Loop).spool] = None] /\ SyncNext(sync.remaining, FALSE)
    BY <1>2 DEF Applied
  <2>2. /\ sync.at \in 1 .. Len(queue.operations)
        /\ Target(Loop) = queue.operations[sync.at]
        /\ Keeps(sync.remaining, queue.operations, sync.at - 1, owed)
    BY <1>2, LoopAtWork
  <2>3. /\ queue.operations \in Seq(Operation) /\ sync.remaining \in Seq(Operation)
        /\ owed \in [Spools -> Locations \cup {None}]
    BY DEF IInv, TypeOK, QueueState
  <2>4. Keeps(sync.remaining, queue.operations, sync.at, owed')
    BY <2>1, <2>2, <2>3, KeepsAcknowledged
  <2>5. Committed
    BY <1>1, <1>2, <2>1 DEF Committed
  <2> QED BY <1>2, <2>1, <2>3, <2>4, <2>5, SyncNextWork
<1>3. CASE t # Loop
  <2>1. t \in Clients /\ ReportApplied(t) /\ Release(t)
    BY <1>3 DEF Applied, Tasks
  <2>2. job[t].spool \in Spools
    BY <1>1, <1>3 DEF Target
  <2>3. Committed
    BY <2>1, <2>2 DEF Committed, ReportApplied
  <2> QED BY <2>1, <2>3, ReleaseWork
<1> QED BY <1>2, <1>3

\* An operation that fails stays; a store that fails is queued or given up.
LEMMA FailedWork ==
  ASSUME IInv, QueueInv, NEW t \in Tasks, pc[t] \in {"find", "import", "move"},
         NEW transport \in BOOLEAN, Failed(t, transport), UNCHANGED queue
  PROVE  Committed /\ pc' = [pc EXCEPT ![t] = pc'[t]] /\ WorkInHand(t)'
<1>1. CASE t = Loop
  <2>1. /\ SyncNext(Append(sync.remaining, Target(Loop)), StopsSync(transport))
        /\ UNCHANGED history
    BY <1>1 DEF Failed
  <2>2. /\ sync.at \in 1 .. Len(queue.operations)
        /\ Target(Loop) = queue.operations[sync.at]
        /\ Keeps(sync.remaining, queue.operations, sync.at - 1, owed)
    BY <1>1, LoopAtWork
  <2>3. queue \in QueueState /\ WellFormed(queue) /\ sync.remaining \in Seq(Operation)
    BY DEF IInv, TypeOK, QueueInv
  <2>4. owed' = owed
    BY <2>1 DEF history
  <2>5. Keeps(Append(sync.remaining, Target(Loop)), queue.operations, sync.at, owed')
    BY <2>2, <2>3, <2>4, KeepsFailed
  <2>6. Append(sync.remaining, Target(Loop)) \in Seq(Operation)
    BY <1>1, <2>3, LoopTarget
  <2>7. StopsSync(transport) \in BOOLEAN
    BY DEF StopsSync
  <2>8. Committed
    BY <2>4 DEF Committed
  <2> QED BY <1>1, <2>1, <2>5, <2>6, <2>7, <2>8, SyncNextWork
<1>2. CASE t # Loop
  <2>1. t \in Clients /\ job[t].kind = "store"
    BY <1>2 DEF Tasks, IInv, Control, Synchronizing
  <2>2. CASE transport
    BY <1>2, <2>1, <2>2, EnqueueWork DEF Failed
  <2>3. CASE ~transport
    <3>1. Release(t) /\ owed' = owed
      BY <1>2, <2>3 DEF Failed, history
    <3>2. Committed
      BY <3>1 DEF Committed
    <3> QED BY <2>1, <3>1, <3>2, ReleaseWork
  <2> QED BY <2>2, <2>3
<1> QED BY <1>1, <1>2

\* A request that is answered, refused or lost.
LEMMA RequestStep ==
  ASSUME IInv, QueueInv, NEW t \in Tasks, Find(t) \/ Import(t) \/ Move(t)
  PROVE  StepOk
<1>1. /\ pc[t] \in {"find", "import", "move"} /\ pc[t] \in Owning
      /\ UNCHANGED <<inventory, queue, files>>
  BY DEF Find, Import, Move, Owning
<1>2. CardHolds'
  BY <1>1, CardUntouched
<1>3. \/ Applied(t) \/ Failed(t, TRUE) \/ Failed(t, FALSE)
      \/ /\ pc' = [pc EXCEPT ![t] = "import"] \/ pc' = [pc EXCEPT ![t] = "move"]
         /\ UNCHANGED <<sync, job, prepared, history>>
  BY DEF Find, Import, Move, RequestFails
<1>4. CASE Applied(t)
  BY <1>1, <1>2, <1>4, AppliedWork, OthersIdle DEF StepOk
<1>5. CASE Failed(t, TRUE)
  BY <1>1, <1>2, <1>5, FailedWork, OthersIdle DEF StepOk
<1>6. CASE Failed(t, FALSE)
  BY <1>1, <1>2, <1>6, FailedWork, OthersIdle DEF StepOk
<1>7. CASE /\ pc' = [pc EXCEPT ![t] = "import"] \/ pc' = [pc EXCEPT ![t] = "move"]
           /\ UNCHANGED <<sync, job, prepared, history>>
  <2>1. pc' = [pc EXCEPT ![t] = pc'[t]] /\ pc'[t] \in {"import", "move"}
    BY <1>7 DEF IInv, TypeOK
  <2>2. owed' = owed /\ queue' = queue /\ sync' = sync
    BY <1>1, <1>7 DEF history
  <2>3. WorkInHand(t)
    BY DEF QueueInv
  <2>4. WorkInHand(t)'
    BY <1>1, <2>1, <2>2, <2>3 DEF WorkInHand, Synchronizing
  <2>5. Committed
    BY <2>2 DEF Committed
  <2> QED BY <1>1, <1>2, <2>1, <2>4, <2>5, OthersIdle DEF StepOk
<1> QED BY <1>3, <1>4, <1>5, <1>6, <1>7

\* The queue a task has prepared is committed with the file that holds it.
LEMMA QueueWriteSucceedsStep ==
  ASSUME IInv, QueueInv, NEW t \in Tasks, QueueWriteSucceeds(t)
  PROVE  StepOk
<1>1. /\ pc[t] = "queueWrite" /\ pc[t] \in Owning /\ WorkInHand(t)
      /\ queue' = prepared[t] /\ sdQueue' = queue' /\ UNCHANGED <<inventory, sdInventory>>
  BY DEF QueueWriteSucceeds, QueueInv, Owning
<1>2. CardHolds'
  BY <1>1 DEF CardHolds, QueueInv
<1>3. CASE t = Loop
  <2>1. AfterSync(sync.force, TRUE) /\ sync.force \in BOOLEAN /\ owed' = owed
    BY <1>3 DEF QueueWriteSucceeds, IInv, TypeOK, history
  <2>2. Committed
    BY <1>1, <1>3, <2>1 DEF Committed, WorkInHand
  <2> QED BY <1>1, <1>2, <1>3, <2>1, <2>2, AfterSyncWork, OthersIdle DEF StepOk
<1>4. CASE t # Loop
  <2>1. t \in Clients /\ job[t].kind = "store" /\ Release(t) /\ ReportQueued(t)
    BY <1>1, <1>4 DEF QueueWriteSucceeds, Tasks, IInv, Control, Synchronizing
  <2>2. prepared[t] = PrepareStorage(queue, job[t].spool, job[t].location)
    BY <1>1, <1>4 DEF WorkInHand
  <2>3. Committed
    BY <1>1, <2>1, <2>2, StoreTarget DEF Committed, ReportQueued
  <2> QED BY <1>1, <1>2, <2>1, <2>3, ReleaseWork, OthersIdle DEF StepOk
<1> QED BY <1>3, <1>4

LEMMA QueueWriteFailsStep ==
  ASSUME IInv, QueueInv, NEW t \in Tasks, QueueWriteFails(t)
  PROVE  StepOk
<1>1. /\ pc[t] = "queueWrite" /\ pc[t] \in Owning
      /\ UNCHANGED <<inventory, queue, sdInventory>> /\ owed' = owed
      /\ sdQueue' = sdQueue \/ (TornWrites /\ sdQueue' = None)
  BY DEF QueueWriteFails, Owning, history
<1>2. CardHolds'
  BY <1>1 DEF CardHolds, QueueInv
<1>3. Committed
  BY <1>1 DEF Committed
<1>4. CASE t = Loop
  BY <1>1, <1>2, <1>3, <1>4, AfterSyncWork, OthersIdle DEF QueueWriteFails, IInv, TypeOK, StepOk
<1>5. CASE t # Loop
  BY <1>1, <1>2, <1>3, <1>5, ReleaseWork, OthersIdle DEF QueueWriteFails, Tasks, StepOk
<1> QED BY <1>4, <1>5

LEMMA StorageStepStep ==
  ASSUME IInv, QueueInv, NEW t \in Tasks, StorageStep(t)
  PROVE  StepOk
BY RequestStep, QueueWriteSucceedsStep, QueueWriteFailsStep DEF StorageStep

-----------------------------------------------------------------------------
(* The other steps of the heartbeat task *)

LEMMA LoopStepStep ==
  ASSUME IInv, QueueInv, LoopStep
  PROVE  StepOk
<1>1. Loop \in Tasks
  BY DEF Tasks
<1>2. CASE StorageStep(Loop)
  BY <1>1, <1>2, StorageStepStep
<1>3. CASE HeartbeatSucceeds
  <2>1. /\ pc[Loop] \in Owning /\ UNCHANGED <<inventory, queue, files>> /\ UNCHANGED <<queue, owed>>
        /\ RunOnlineMaintenance(~heartbeat_succeeded \/ heartbeat_failure_active)
    BY <1>3 DEF HeartbeatSucceeds, Owning, history
  <2>2. Committed
    BY <2>1 DEF Committed
  <2>3. (~heartbeat_succeeded \/ heartbeat_failure_active) \in BOOLEAN
    OBVIOUS
  <2> QED BY <1>1, <2>1, <2>2, <2>3, MaintenanceWork, OthersIdle, CardUntouched DEF StepOk
<1>4. CASE RetryQueue
  <2>1. /\ ~busy /\ UNCHANGED <<inventory, queue, files>> /\ UNCHANGED <<queue, owed>>
        /\ RunOnlineMaintenance(FALSE)
    BY <1>4 DEF RetryQueue, history
  <2>2. Committed
    BY <2>1 DEF Committed
  <2> QED BY <1>1, <2>1, <2>2, MaintenanceWork, OthersIdle, CardUntouched DEF StepOk
<1>5. CASE SkipHeartbeat
  <2>1. UNCHANGED <<inventory, queue, files>> /\ UNCHANGED <<queue, owed, sync, tasks>>
    BY <1>5 DEF SkipHeartbeat, ram, history
  <2>2. Committed
    BY <2>1 DEF Committed
  <2> QED BY <2>1, <2>2, CardUntouched, NothingMoves DEF StepOk
<1>6. CASE StartHeartbeat \/ HeartbeatFails \/ RefreshInventory \/ InventoryWriteSucceeds
           \/ InventoryWriteFails
  <2>1. /\ UNCHANGED <<queue, owed, job>> /\ prepared' = prepared
        /\ \E at \in {"heartbeat", "poll", "refreshWrite"} : pc' = [pc EXCEPT ![Loop] = at]
    BY <1>6 DEF StartHeartbeat, Acquire, HeartbeatFails, RefreshInventory, InventoryWriteSucceeds,
                InventoryWriteFails, EndRefresh, ram, history
  <2>2. pc' = [pc EXCEPT ![Loop] = pc'[Loop]] /\ pc'[Loop] \in {"heartbeat", "poll", "refreshWrite"}
    BY <1>1, <2>1 DEF IInv, TypeOK
  <2>3. prepared' = [prepared EXCEPT ![Loop] = prepared'[Loop]] /\ pc'[Loop] \notin Synchronizing
    BY <1>1, <2>1, <2>2 DEF IInv, TypeOK, Synchronizing
  <2>4. \A u \in Tasks : WorkInHand(u)'
    BY <1>1, <2>1, <2>2, <2>3, HoldsNothing
  <2>5. Committed
    BY <2>1 DEF Committed
  <2>6. CardHolds'
    <3>1. CASE StartHeartbeat \/ HeartbeatFails
      BY <3>1, CardUntouched DEF StartHeartbeat, HeartbeatFails, ram
    <3>2. CASE RefreshInventory
      BY <3>2, CardUntouched DEF RefreshInventory
    <3>3. CASE InventoryWriteSucceeds
      BY <3>3 DEF InventoryWriteSucceeds, CardHolds, QueueInv
    <3>4. CASE InventoryWriteFails
      BY <3>4 DEF InventoryWriteFails, CardHolds, QueueInv, ram
    <3> QED BY <1>6, <3>1, <3>2, <3>3, <3>4
  <2> QED BY <2>4, <2>5, <2>6 DEF StepOk
<1> QED BY <1>2, <1>3, <1>4, <1>5, <1>6 DEF LoopStep

-----------------------------------------------------------------------------
(* The clients *)

\* A call that stops where it holds no work.
LEMMA ClientHoldsNothing ==
  ASSUME IInv, QueueInv, NEW c \in Clients, NEW at \in {"idle", "await", "remote", "settingsWrite"},
         pc' = [pc EXCEPT ![c] = at],
         UNCHANGED <<inventory, queue, files>>, UNCHANGED <<sync, history>>,
         UNCHANGED prepared \/ prepared' = [prepared EXCEPT ![c] = None],
         UNCHANGED job \/ \E j : job' = [job EXCEPT ![c] = j]
  PROVE  StepOk
<1>1. c \in Tasks /\ c # Loop
  BY ConstantsAssumption DEF Tasks
<1>2. pc' = [pc EXCEPT ![c] = pc'[c]] /\ pc'[c] \notin Synchronizing
  BY <1>1 DEF IInv, TypeOK, Synchronizing
<1>3. prepared' = [prepared EXCEPT ![c] = prepared'[c]]
  BY <1>1 DEF IInv, TypeOK
<1>4. job' = [job EXCEPT ![c] = job'[c]] \/ UNCHANGED job
  BY DEF IInv, TypeOK
<1>5. UNCHANGED <<queue, owed>>
  BY DEF history
<1>6. Committed
  BY <1>5 DEF Committed
<1> QED BY <1>1, <1>2, <1>3, <1>4, <1>5, <1>6, HoldsNothing, CardUntouched DEF StepOk

LEMMA CallStep ==
  ASSUME IInv, QueueInv, NEW c \in Clients, Call(c)
  PROVE  StepOk
<1>1. ASSUME NEW s \in Spools, NEW l \in Locations, NEW known \in BOOLEAN, CallStore(c, s, l, known)
      PROVE  StepOk
  BY <1>1, ClientHoldsNothing DEF CallStore, ram, loop
<1>2. CASE CallPrepare(c)
  BY <1>2, ClientHoldsNothing DEF CallPrepare, ram, loop
<1>3. ASSUME NEW s \in Spools, CallArchive(c, s)
      PROVE  StepOk
  BY <1>3, ClientHoldsNothing DEF CallArchive, Acquire, ram, loop
<1>4. ASSUME NEW kind \in {"test", "register"}, CallWeb(c, kind)
      PROVE  StepOk
  BY <1>4, ClientHoldsNothing DEF CallWeb, Acquire, ram, loop
<1> QED BY <1>1, <1>2, <1>3, <1>4 DEF Call

LEMMA ClientStepStep ==
  ASSUME IInv, QueueInv, NEW c \in Clients, ClientStep(c)
  PROVE  StepOk
<1>a. c \in Tasks /\ c # Loop
  BY ConstantsAssumption DEF Tasks
<1>1. CASE StorageStep(c)
  BY <1>a, <1>1, StorageStepStep
<1>2. CASE ProceedStore(c)
  <2>1. /\ job[c].kind = "store" /\ UNCHANGED <<inventory, queue, files>>
        /\ UNCHANGED <<sync, server>>
    BY <1>2 DEF ProceedStore, ram, loop
  <2>2. CASE Return(c) /\ UNCHANGED history
    BY <2>1, <2>2, ClientHoldsNothing DEF Return
  <2>3. CASE ~busy /\ EnqueueStorage(c)
    BY <1>a, <2>1, <2>3, EnqueueWork, OthersIdle, CardUntouched DEF StepOk
  <2>4. CASE Acquire(c, IF job[c].known THEN "move" ELSE "find") /\ UNCHANGED <<job, prepared, history>>
    <3>1. ~busy /\ \E at \in {"move", "find"} : pc' = [pc EXCEPT ![c] = at]
      BY <2>4 DEF Acquire
    <3>2. pc'[c] \in {"move", "find"} /\ pc' = [pc EXCEPT ![c] = pc'[c]]
      BY <1>a, <3>1 DEF IInv, TypeOK
    <3>3. WorkInHand(c)'
      BY <1>a, <3>2 DEF WorkInHand
    <3>4. Committed
      BY <2>1, <2>4 DEF Committed, history
    <3> QED BY <1>a, <2>1, <3>1, <3>2, <3>3, <3>4, OthersIdle, CardUntouched DEF StepOk
  <2> QED BY <1>2, <2>2, <2>3, <2>4 DEF ProceedStore
<1>3. CASE ProceedPrepare(c)
  BY <1>3, ClientHoldsNothing DEF ProceedPrepare, Return, Acquire, ram, loop
<1>4. CASE RemoteEnds(c)
  <2>1. UNCHANGED <<inventory, queue, files>> /\ UNCHANGED <<sync, history>>
    BY <1>4 DEF RemoteEnds, ram, loop
  <2>2. CASE Release(c)
    BY <2>1, <2>2, ClientHoldsNothing DEF Release
  <2>3. CASE pc' = [pc EXCEPT ![c] = "settingsWrite"] /\ UNCHANGED <<busy, job, prepared>>
    BY <2>1, <2>3, ClientHoldsNothing
  <2> QED BY <1>4, <2>2, <2>3 DEF RemoteEnds
<1>5. CASE SettingsWritten(c)
  BY <1>5, ClientHoldsNothing DEF SettingsWritten, Release, ram, loop
<1> QED BY <1>1, <1>2, <1>3, <1>4, <1>5 DEF ClientStep

-----------------------------------------------------------------------------
(* The world around the scanner *)

\* A power loss leaves the committed queue, the prepared one or, torn, none.
LEMMA CrashStep ==
  ASSUME IInv, QueueInv, Crash
  PROVE  StepOk
<1>1. /\ queue' = LoadQueue(sdQueue') /\ inventory' = sdInventory'
      /\ pc' = [t \in Tasks |-> IF t = Loop THEN "poll" ELSE "idle"]
  BY DEF Crash
<1>2. \A t \in Tasks : WorkInHand(t)'
  <2>1. \A t \in Tasks : pc'[t] \in {"poll", "idle"}
    BY <1>1
  <2> QED BY <2>1 DEF WorkInHand, Synchronizing
<1>3. /\ queue \in QueueState /\ (sdQueue = queue \/ (TornWrites /\ sdQueue = None))
      /\ \A t \in Tasks : pc[t] = "queueWrite" => prepared[t] \in QueueState
  BY DEF IInv, TypeOK, Control, QueueInv, CardHolds
<1>4. \A q \in QueueState : LoadQueue(q) = q
  BY NoneAssumption DEF LoadQueue
<1>5. LoadQueue(None) = EmptyQueue
  BY DEF LoadQueue
<1>6. QueueFileAtPowerLoss
  BY DEF Crash
<1>7. CASE sdQueue' = sdQueue /\ UNCHANGED history
  <2>1. Committed
    BY <1>1, <1>3, <1>4, <1>5, <1>7 DEF Committed, history
  <2>2. CardHolds'
    BY <1>1, <1>3, <1>4, <1>7 DEF CardHolds
  <2> QED BY <1>2, <2>1, <2>2 DEF StepOk
<1>8. CASE TornWrites /\ sdQueue' = None /\ UNCHANGED history
  <2>1. Committed
    BY <1>1, <1>5, <1>8 DEF Committed, history
  <2>2. CardHolds'
    BY <1>1, <1>8 DEF CardHolds
  <2> QED BY <1>2, <2>1, <2>2 DEF StepOk
<1>9. ASSUME NEW t \in Tasks, pc[t] = "queueWrite", sdQueue' = prepared[t],
             IF t = Loop THEN UNCHANGED history ELSE ReportQueued(t)
      PROVE  StepOk
  <2>1. queue' = prepared[t] /\ sdQueue' = queue'
    BY <1>1, <1>3, <1>4, <1>9
  <2>2. CardHolds'
    BY <1>1, <2>1 DEF CardHolds
  <2>3. WorkInHand(t)
    BY DEF QueueInv
  <2>4. CASE t = Loop
    BY <1>2, <1>9, <2>1, <2>2, <2>3, <2>4 DEF StepOk, Committed, WorkInHand, history
  <2>5. CASE t # Loop
    <3>1. t \in Clients /\ job[t].kind = "store"
      BY <1>9, <2>5 DEF Tasks, IInv, Control, Synchronizing
    <3>2. prepared[t] = PrepareStorage(queue, job[t].spool, job[t].location)
      BY <1>9, <2>3, <2>5 DEF WorkInHand
    <3>3. Committed
      BY <1>9, <2>1, <2>5, <3>1, <3>2, StoreTarget DEF Committed, ReportQueued
    <3> QED BY <1>2, <2>2, <3>3 DEF StepOk
  <2> QED BY <2>4, <2>5
<1> QED BY <1>6, <1>7, <1>8, <1>9 DEF QueueFileAtPowerLoss

LEMMA EnvironmentStep ==
  ASSUME IInv, QueueInv, Environment
  PROVE  StepOk
<1>1. CASE Crash
  BY <1>1, CrashStep
<1>2. CASE ~Crash
  <2>1. UNCHANGED <<inventory, queue, files>> /\ UNCHANGED <<queue, owed, sync, tasks>>
    BY <1>2 DEF Environment, ChangeSettings, AddressChanges, NetworkSettles, ExternalMove,
                ram, loop, history
  <2>2. Committed
    BY <2>1 DEF Committed
  <2> QED BY <2>1, <2>2, CardUntouched, NothingMoves DEF StepOk
<1> QED BY <1>1, <1>2

-----------------------------------------------------------------------------
(* The theorems about the queue *)

\* Whatever happens next, the queue changes in one of the ways of Committed.
LEMMA NextStep ==
  ASSUME IInv, QueueInv, [Next]_vars
  PROVE  StepOk
<1>1. CASE LoopStep
  BY <1>1, LoopStepStep
<1>2. ASSUME NEW c \in Clients, Call(c) \/ ClientStep(c)
      PROVE  StepOk
  BY <1>2, CallStep, ClientStepStep
<1>3. CASE Environment
  BY <1>3, EnvironmentStep
<1>4. CASE UNCHANGED vars
  <2>1. UNCHANGED <<inventory, queue, files>> /\ UNCHANGED <<queue, owed, sync, tasks>>
    BY <1>4 DEF vars, ram, loop, history
  <2>2. Committed
    BY <2>1 DEF Committed
  <2> QED BY <2>1, <2>2, CardUntouched, NothingMoves DEF StepOk
<1> QED BY <1>1, <1>2, <1>3, <1>4 DEF Next

LEMMA InitQueueInv ==
  ASSUME Init
  PROVE  QueueInv
<1>1. WellFormed(queue) /\ OwedIsQueued
  BY DEF Init, EmptyQueue, WellFormed, OwedIsQueued
<1>2. CardHolds
  BY DEF Init, CardHolds
<1>3. \A t \in Tasks : WorkInHand(t)
  BY DEF Init, WorkInHand, Synchronizing
<1> QED BY <1>1, <1>2, <1>3 DEF QueueInv

LEMMA NextQueueInv ==
  ASSUME IInv, QueueInv, [Next]_vars
  PROVE  QueueInv'
<1>1. StepOk
  BY NextStep
<1> QED BY <1>1, CommittedKeeps DEF StepOk, QueueInv

\* The queue, what is owed, the card and the work in hand agree in every
\* reachable state.
THEOREM QueueInvariance == Spec => []QueueInv
<1>1. IInv /\ QueueInv /\ [Next]_vars => QueueInv'
  BY NextQueueInv
<1>2. Init => QueueInv
  BY InitQueueInv
<1> QED BY <1>1, <1>2, Invariance, PTL DEF Spec

\* At most one pending operation per spool, ordered by sequence numbers that were
\* all handed out, whatever a pass removes and whatever a power loss leaves.
THEOREM QueueOrdered == Spec => []QueueWellFormed
<1>1. QueueInv => QueueWellFormed
  BY DEF QueueInv, QueueWellFormed
<1> QED BY <1>1, QueueInvariance, PTL

\* What synchronize_offline_queue persists at its end is computed from a snapshot
\* that is still the queue, and forgets no operation that is still owed.
THEOREM SnapshotCurrent == Spec => []SyncSnapshotCurrent
<1>1. ASSUME IInv, QueueInv
      PROVE  SyncSnapshotCurrent
  <2>1. WorkInHand(Loop) /\ queue \in QueueState /\ DOMAIN queue.operations = 1 .. Len(queue.operations)
    BY <1>1 DEF QueueInv, IInv, TypeOK, QueueState, Tasks
  <2>2. pc[Loop] \in Synchronizing => sync.operations = queue.operations
    BY <2>1 DEF WorkInHand
  <2>3. pc[Loop] \in {"find", "import", "move"} =>
          \A i \in 1 .. sync.at - 1 :
            \/ \E j \in DOMAIN sync.remaining : sync.remaining[j] = queue.operations[i]
            \/ owed[queue.operations[i].spool] = None
    BY <2>1 DEF WorkInHand, Keeps
  <2>4. ASSUME pc[Loop] = "queueWrite"
        PROVE  \A i \in DOMAIN queue.operations :
                 \/ \E j \in DOMAIN prepared[Loop].operations :
                      prepared[Loop].operations[j] = queue.operations[i]
                 \/ owed[queue.operations[i].spool] = None
    <3>1. PICK r \in Seq(Operation) :
            /\ prepared[Loop] = PrepareRemaining(queue, r)
            /\ Keeps(r, queue.operations, Len(queue.operations), owed)
      BY <2>1, <2>4 DEF WorkInHand
    <3>2. prepared[Loop].operations = r
      BY <2>1, <3>1 DEF PrepareRemaining, QueueState
    <3> QED BY <2>1, <3>1, <3>2 DEF Keeps
  <2> QED BY <2>2, <2>3, <2>4 DEF SyncSnapshotCurrent
<1>2. IInv /\ QueueInv => SyncSnapshotCurrent
  BY <1>1
<1> QED BY <1>2, Invariance, QueueInvariance, PTL

\* Where an interrupted write leaves the old file or the new one, a location that
\* was reported as queued stays pending until the server has acknowledged it.
THEOREM OwedStaysQueued ==
  ASSUME ~TornWrites
  PROVE  Spec => []OwedIsQueued
<1>1. QueueInv => OwedIsQueued
  BY DEF QueueInv
<1> QED BY <1>1, QueueInvariance, PTL

\* On such a card a reboot finds again whatever the service has committed in RAM.
THEOREM CommittedIsOnCard ==
  ASSUME ~TornWrites
  PROVE  Spec => []CardHoldsCommittedState
<1>1. QueueInv => CardHoldsCommittedState
  BY DEF QueueInv, CardHolds, CardHoldsCommittedState
<1> QED BY <1>1, QueueInvariance, PTL

-----------------------------------------------------------------------------
(* The refinement of the outbox *)

\* The outbox that the queue file stands for.
Box == [s \in Spools |-> PendingLocation(LoadQueue(sdQueue), s)]

\* While the card holds the queue, the outbox is the queue.
LEMMA BoxIsQueue ==
  ASSUME ~TornWrites, IInv, QueueInv
  PROVE  Box = [s \in Spools |-> PendingLocation(queue, s)]
<1>1. sdQueue = queue /\ queue # None
  BY NoneAssumption DEF QueueInv, CardHolds, IInv, TypeOK
<1> QED BY <1>1 DEF Box, LoadQueue

\* Two queues that place a spool alike give it the same pending location.
LEMMA PendingLocationSame ==
  ASSUME NEW p \in QueueState, WellFormed(p), NEW q \in QueueState, WellFormed(q), NEW s,
         \A x \in Locations : Moves(p, s, x) <=> Moves(q, s, x)
  PROVE  PendingLocation(p, s) = PendingLocation(q, s)
<1>1. \A x \in Locations : PendingLocation(p, s) = x <=> PendingLocation(q, s) = x
  BY PendingLocationMoves
<1> QED BY <1>1, PendingLocationType

LEMMA InitImplements ==
  ASSUME Init
  PROVE  Durable!Init
<1>1. LoadQueue(sdQueue) = EmptyQueue
  BY DEF Init, LoadQueue
<1>2. \A s \in Spools : PendingLocation(EmptyQueue, s) = None
  BY DEF EmptyQueue, PendingLocation, Pending
<1> QED BY <1>1, <1>2 DEF Init, Durable!Init

\* Each step accepts, acknowledges, clears, or leaves the outbox alone.
LEMMA StepImplements ==
  ASSUME ~TornWrites, IInv, QueueInv, IInv', QueueInv', Committed
  PROVE  Durable!Next \/ UNCHANGED <<Box, owed>>
<1> DEFINE old(s) == PendingLocation(queue, s)
           new(s) == PendingLocation(queue', s)
<1>1. /\ queue \in QueueState /\ WellFormed(queue)
      /\ queue' \in QueueState /\ WellFormed(queue')
      /\ owed \in [Spools -> Locations \cup {None}]
  BY DEF IInv, TypeOK, QueueInv, WellFormed
<1>2. Box = [s \in Spools |-> old(s)]
  BY BoxIsQueue
<1>3. Box' = [s \in Spools |-> new(s)]
  <2>1. sdQueue' = queue' /\ queue' # None
    BY <1>1, NoneAssumption DEF QueueInv, CardHolds
  <2> QED BY <2>1 DEF Box, LoadQueue
<1>4. CASE UNCHANGED <<queue, owed>>
  BY <1>2, <1>3, <1>4
<1>5. ASSUME UNCHANGED queue, NEW s \in Spools, owed' = [owed EXCEPT ![s] = None]
      PROVE  Durable!Next
  <2>1. Box' = Box
    BY <1>2, <1>3, <1>5
  <2>2. Durable!Acknowledge(s)
    BY <1>5, <2>1 DEF Durable!Acknowledge, Box
  <2> QED BY <2>2 DEF Durable!Next
<1>6. ASSUME NEW s \in Spools, NEW l \in Locations, queue' = PrepareStorage(queue, s, l),
             owed' = [owed EXCEPT ![s] = l]
      PROVE  Durable!Next
  <2>1. \A u, x : Moves(queue', u, x) <=> IF u = s THEN x = l ELSE Moves(queue, u, x)
    BY <1>1, <1>6, PrepareStorageMoves
  <2>2. new(s) = l
    BY <1>1, <2>1, PendingLocationMoves
  <2>3. \A u \in Spools \ {s} : new(u) = old(u)
    BY <1>1, <2>1, PendingLocationSame
  <2> HIDE DEF old, new
  <2>4. Box' = [Box EXCEPT ![s] = l]
    BY <1>2, <1>3, <2>2, <2>3
  <2>5. Durable!Accept(s, l)
    BY <1>6, <2>4 DEF Durable!Accept, Box
  <2> QED BY <2>5 DEF Durable!Next
<1>7. ASSUME UNCHANGED owed, NEW r \in Seq(Operation), queue' = PrepareRemaining(queue, r),
             Keeps(r, queue.operations, Len(queue.operations), owed)
      PROVE  Durable!Next
  <2> DEFINE D == {u \in Spools : new(u) # old(u)}
  <2>1. \A u \in Spools : \A x : Moves(queue', u, x) => Moves(queue, u, x)
    BY <1>1, <1>7, KeepsMovesOnly
  <2>2. \A u \in Spools : \A x : owed[u] # None /\ Moves(queue, u, x) => Moves(queue', u, x)
    BY <1>1, <1>7, KeepsMovesDue
  <2>3. \A u \in D : owed[u] = None
    BY <1>1, <2>1, <2>2, PendingLocationSame
  <2>4. \A u \in D : new(u) = None
    <3> SUFFICES ASSUME NEW u \in Spools, new(u) # old(u), new(u) # None
                 PROVE  FALSE
      OBVIOUS
    <3>1. new(u) \in Locations
      BY <1>1, PendingLocationType
    <3>2. Moves(queue', u, new(u))
      BY <1>1, <3>1, PendingLocationMoves
    <3>3. old(u) = new(u)
      BY <1>1, <2>1, <3>1, <3>2, PendingLocationMoves
    <3> QED BY <3>3
  <2> HIDE DEF old, new
  <2>5. Box' = [s \in Spools |-> IF s \in D THEN None ELSE Box[s]]
    BY <1>2, <1>3, <2>4
  <2>6. Durable!Clear(D)
    BY <1>7, <2>3, <2>5 DEF Durable!Clear, Box
  <2>7. D \in SUBSET Spools
    OBVIOUS
  <2> QED BY <2>6, <2>7 DEF Durable!Next
<1> QED BY <1>4, <1>5, <1>6, <1>7 DEF Committed

\* On a card that does not tear files, the service with its queue file implements
\* the durable outbox: what is accepted stays there until it is acknowledged.
THEOREM OutboxImplemented ==
  ASSUME ~TornWrites
  PROVE  Spec => ImplementsOutbox
<1>1. Init => Durable!Init
  BY InitImplements
<1>2. IInv /\ QueueInv /\ IInv' /\ QueueInv' /\ [Next]_vars => [Durable!Next]_(Durable!vars)
  <2> SUFFICES ASSUME IInv, QueueInv, IInv', QueueInv', [Next]_vars
               PROVE  [Durable!Next]_(Durable!vars)
    OBVIOUS
  <2>1. Committed
    BY NextStep DEF StepOk
  <2>2. Durable!Next \/ UNCHANGED <<Box, owed>>
    BY <2>1, StepImplements
  <2> QED BY <2>2 DEF Durable!vars, Box
<1> QED BY <1>1, <1>2, Invariance, QueueInvariance, PTL DEF Spec, ImplementsOutbox, Durable!Spec

-----------------------------------------------------------------------------
(* What holds where the README is wrong *)

\* Whether or not files can be torn, the queue file is the queue in RAM or does
\* not parse: a reboot never comes up with a queue that was once replaced.
CardNeverStale == sdQueue \in {queue, None} /\ sdInventory \in {inventory, None}

\* No write that is cut off, at whatever point of a call, leaves an old file.
THEOREM CardIsCurrentOrTorn == Spec => []CardNeverStale
<1>1. QueueInv => CardNeverStale
  BY DEF QueueInv, CardHolds, CardNeverStale
<1> QED BY <1>1, QueueInvariance, PTL

LEMMA CommittedRemembers ==
  ASSUME IInv, QueueInv, Committed, ~Crash, NEW s \in Spools, QueuedFor(s)
  PROVE  QueuedFor(s)' \/ owed'[s] = None
<1>1. /\ queue \in QueueState /\ owed \in [Spools -> Locations \cup {None}]
      /\ owed[s] # None /\ Moves(queue, s, owed[s])
  BY DEF IInv, TypeOK, QueuedFor
<1>2. Moves(queue', s, owed'[s]) \/ owed'[s] = None => QueuedFor(s)' \/ owed'[s] = None
  BY DEF QueuedFor, Moves
<1>3. CASE UNCHANGED <<queue, owed>>
  BY <1>1, <1>2, <1>3
<1>4. ASSUME UNCHANGED queue, NEW u \in Spools, owed' = [owed EXCEPT ![u] = None]
      PROVE  QueuedFor(s)' \/ owed'[s] = None
  BY <1>1, <1>2, <1>4
<1>5. ASSUME NEW u \in Spools, NEW l \in Locations, queue' = PrepareStorage(queue, u, l),
             owed' = [owed EXCEPT ![u] = l]
      PROVE  QueuedFor(s)' \/ owed'[s] = None
  <2>1. owed'[s] = IF s = u THEN l ELSE owed[s]
    BY <1>1, <1>5
  <2>2. Moves(queue', s, owed'[s])
    BY <1>1, <1>5, <2>1, PrepareStorageMoves
  <2> QED BY <1>2, <2>2
<1>6. ASSUME UNCHANGED owed, NEW r \in Seq(Operation), queue' = PrepareRemaining(queue, r),
             Keeps(r, queue.operations, Len(queue.operations), owed)
      PROVE  QueuedFor(s)' \/ owed'[s] = None
  <2>1. Moves(queue', s, owed[s])
    BY <1>1, <1>6, KeepsMovesDue
  <2> QED BY <1>2, <1>6, <2>1
<1> QED BY <1>3, <1>4, <1>5, <1>6 DEF Committed

\* What OwedStaysQueued leaves of its promise on a card that tears files.
THEOREM ForgottenByPowerLossOnly == Spec => OnlyPowerLossForgets
<1>1. IInv /\ QueueInv /\ [Next]_vars =>
        [\A s \in Spools : QueuedFor(s) => QueuedFor(s)' \/ owed'[s] = None \/ Crash]_vars
  BY NextStep, CommittedRemembers DEF StepOk
<1> QED BY <1>1, Invariance, QueueInvariance, PTL DEF Spec, OnlyPowerLossForgets

\* The replay moves a spool to the location the queue holds for it at that moment
\* (which SyncFollowsLastChoice refutes to be the last choice), whatever happened
\* since the pass took its snapshot.
ReplayFollowsQueue ==
  [][(Import(Loop) \/ Move(Loop)) =>
       \A s \in Spools : server'[s] # server[s] =>
         server'[s].location = PendingLocation(queue, s)]_vars

LEMMA ReplayStep ==
  ASSUME IInv, QueueInv, Import(Loop) \/ Move(Loop), NEW u \in Spools, server'[u] # server[u]
  PROVE  server'[u].location = PendingLocation(queue, u)
<1> DEFINE s == Target(Loop).spool
           l == Target(Loop).location
           created == [server EXCEPT ![s] = [location |-> l, archived |-> FALSE]]
           moved == [server EXCEPT ![s].location = l]
<1>1. /\ pc[Loop] \in {"find", "import", "move"} /\ server \in [Spools -> ServerSpool]
      /\ queue \in QueueState /\ WellFormed(queue)
  BY DEF Import, Move, IInv, TypeOK, QueueInv
<1>2. s \in Spools /\ l \in Locations
  BY <1>1, TargetType DEF Tasks
<1>3. server' \in {server, created, moved}
  BY DEF Import, Move, RequestFails
<1>4. created[u] = server[u] \/ (u = s /\ created[u].location = l)
  BY <1>1
<1>5. moved[u] = server[u] \/ (u = s /\ moved[u].location = l)
  <2>1. server[u] \in ServerSpool
    BY <1>1
  <2>2. u = s => moved[u] = [server[u] EXCEPT !.location = l]
    BY <1>1
  <2>3. u # s => moved[u] = server[u]
    BY <1>1
  <2> QED BY <2>1, <2>2, <2>3 DEF ServerSpool
<1>6. u = s /\ server'[u].location = l
  BY <1>3, <1>4, <1>5
<1>7. Moves(queue, s, l)
  <2>1. sync.at \in 1 .. Len(queue.operations) /\ Target(Loop) = queue.operations[sync.at]
    BY <1>1, LoopAtWork
  <2> QED BY <1>1, <2>1 DEF Moves, QueueState
<1> QED BY <1>1, <1>2, <1>6, <1>7, PendingLocationMoves

\* A location the replay sends to the server is never one the queue has given up.
THEOREM ReplayIsOfTheQueue == Spec => ReplayFollowsQueue
<1>1. IInv /\ QueueInv =>
        ((Import(Loop) \/ Move(Loop)) =>
           \A s \in Spools : server'[s] # server[s] =>
             server'[s].location = PendingLocation(queue, s))
  BY ReplayStep
<1> QED BY <1>1, Invariance, QueueInvariance, PTL DEF Spec, ReplayFollowsQueue

\* On a card that does not tear files no sequence number is handed out twice, by
\* any number of writes, power losses and reboots.
NumbersNotReused == [][queue.next_sequence <= queue'.next_sequence]_queue

\* A power loss does not make the service hand out a number again.
THEOREM NumbersOnlyGrow ==
  ASSUME ~TornWrites
  PROVE  Spec => NumbersNotReused
<1>1. IInv /\ QueueInv /\ [Next]_vars => [queue.next_sequence <= queue'.next_sequence]_queue
  <2> SUFFICES ASSUME IInv, QueueInv, [Next]_vars
               PROVE  queue' = queue \/ queue.next_sequence <= queue'.next_sequence
    OBVIOUS
  <2>1. queue \in QueueState /\ queue.next_sequence \in Nat
    BY DEF IInv, TypeOK, QueueState
  <2>2. Committed
    BY NextStep DEF StepOk
  <2>3. ASSUME NEW s \in Spools, NEW l \in Locations, queue' = PrepareStorage(queue, s, l)
        PROVE  queue.next_sequence <= queue'.next_sequence
    <3>1. queue'.next_sequence \in {queue.next_sequence, queue.next_sequence + 1}
      <4>1. CASE Pending(queue, s)
        BY <2>1, <2>3, <4>1, PrepareStorageReplaces
      <4>2. CASE ~Pending(queue, s)
        BY <2>1, <2>3, <4>2, PrepareStoragePushes
      <4> QED BY <4>1, <4>2
    <3> QED BY <2>1, <3>1
  <2>4. ASSUME NEW r, queue' = PrepareRemaining(queue, r)
        PROVE  queue.next_sequence <= queue'.next_sequence
    <3>1. queue'.next_sequence = queue.next_sequence
      BY <2>1, <2>4 DEF PrepareRemaining, QueueState
    <3> QED BY <2>1, <3>1
  <2> QED BY <2>2, <2>3, <2>4 DEF Committed
<1> QED BY <1>1, Invariance, QueueInvariance, PTL DEF Spec, NumbersNotReused

-----------------------------------------------------------------------------
(* Why the flag is dropped *)

\* How far a task that owns the flag still has to go: the phase of its call, the
\* queued operations behind the one in work, the requests for that one.
Phase(t) ==
  CASE pc[t] = "heartbeat" -> 4
    [] pc[t] \in {"find", "import", "move", "remote"} -> 3
    [] pc[t] \in {"queueWrite", "settingsWrite"} -> 2
    [] pc[t] = "refresh" -> 1
    [] OTHER -> 0

Behind(t) == IF t = Loop THEN Len(sync.operations) - sync.at ELSE 0

Request(t) == CASE pc[t] = "find" -> 2 [] pc[t] = "import" -> 1 [] OTHER -> 0

\* The variant falls, in the order of its parts.
ComesCloser(t) ==
  \/ Phase(t)' < Phase(t)
  \/ Phase(t)' = Phase(t) /\ Behind(t)' < Behind(t)
  \/ Phase(t)' = Phase(t) /\ Behind(t)' = Behind(t) /\ Request(t)' < Request(t)

OwnStep(t) == IF t = Loop THEN LoopStep ELSE ClientStep(t)

\* A task that owns the flag drops it or comes closer to it with each of its
\* steps, and no step of another task sets it back: no path through a guarded
\* call goes round in circles, however long the queue.
OwnerComesCloser ==
  [][\A t \in Tasks : pc[t] \in Owning /\ pc'[t] \in Owning =>
       IF OwnStep(t) THEN ComesCloser(t)
       ELSE UNCHANGED <<Phase(t), Behind(t), Request(t)>>]_vars

\* The end of a pass leads to the refresh or out of the flag.
LEMMA AfterSyncCloser ==
  ASSUME IInv, NEW force, NEW changed, AfterSync(force, changed),
         pc[Loop] \in {"heartbeat", "find", "import", "move", "queueWrite"}, pc'[Loop] \in Owning
  PROVE  ComesCloser(Loop)
<1>1. pc'[Loop] = "refresh"
  BY DEF AfterSync, IInv, TypeOK, Tasks, Owning
<1>2. Phase(Loop)' = 1 /\ Phase(Loop) \in {2, 3, 4}
  BY <1>1 DEF Phase
<1> QED BY <1>2 DEF ComesCloser

LEMMA SyncNextCloser ==
  ASSUME IInv, NEW r, NEW stop, SyncNext(r, stop),
         pc[Loop] \in {"find", "import", "move"}, pc'[Loop] \in Owning
  PROVE  ComesCloser(Loop)
<1>1. sync \in SyncState /\ sync.at \in Nat /\ Len(sync.operations) \in Nat
  BY DEF IInv, TypeOK, SyncState
<1>2. Phase(Loop) = 3
  BY DEF Phase
<1>3. CASE ~stop /\ Untried # <<>>
  <2>1. sync' = [sync EXCEPT !.at = @ + 1, !.remaining = r] /\ pc' = [pc EXCEPT ![Loop] = "find"]
    BY <1>3 DEF SyncNext
  <2>2. pc'[Loop] = "find" /\ sync'.at = sync.at + 1 /\ sync'.operations = sync.operations
    BY <1>1, <2>1 DEF SyncState, IInv, TypeOK, Tasks
  <2>3. Phase(Loop)' = 3
    BY <2>2 DEF Phase
  <2>4. Behind(Loop)' < Behind(Loop)
    BY <1>1, <2>2 DEF Behind
  <2> QED BY <1>2, <2>3, <2>4 DEF ComesCloser
<1>4. CASE AfterSync(sync.force, FALSE)
  BY <1>4, AfterSyncCloser
<1>5. CASE pc' = [pc EXCEPT ![Loop] = "queueWrite"]
  <2>1. pc'[Loop] = "queueWrite"
    BY <1>5 DEF IInv, TypeOK, Tasks
  <2>2. Phase(Loop)' = 2
    BY <2>1 DEF Phase
  <2> QED BY <1>2, <2>2 DEF ComesCloser
<1> QED BY <1>3, <1>4, <1>5 DEF SyncNext

\* A client that leaves its request stops owning the flag or writes the queue.
LEMMA ClientCloser ==
  ASSUME IInv, NEW c \in Clients, pc[c] \in {"find", "import", "move"},
         Release(c) \/ EnqueueStorage(c), pc'[c] \in Owning
  PROVE  ComesCloser(c)
<1>1. c \in Tasks
  BY DEF Tasks
<1>2. pc' \in {[pc EXCEPT ![c] = "idle"], [pc EXCEPT ![c] = "queueWrite"]}
  BY DEF Release, EnqueueStorage
<1>3. pc'[c] = "queueWrite"
  BY <1>1, <1>2 DEF IInv, TypeOK, Owning
<1>4. Phase(c)' = 2 /\ Phase(c) = 3
  BY <1>3 DEF Phase
<1> QED BY <1>4 DEF ComesCloser

LEMMA RequestCloser ==
  ASSUME IInv, NEW t \in Tasks, Find(t) \/ Import(t) \/ Move(t), pc'[t] \in Owning
  PROVE  ComesCloser(t)
<1>1. pc[t] \in {"find", "import", "move"}
  BY DEF Find, Import, Move
<1>2. \/ Applied(t) \/ Failed(t, TRUE) \/ Failed(t, FALSE)
      \/ /\ pc[t] = "find" /\ UNCHANGED sync
         /\ pc' \in {[pc EXCEPT ![t] = "import"], [pc EXCEPT ![t] = "move"]}
      \/ pc[t] = "import" /\ pc' = [pc EXCEPT ![t] = "move"] /\ UNCHANGED sync
  BY DEF Find, Import, Move, RequestFails
<1>3. CASE Applied(t) \/ Failed(t, TRUE) \/ Failed(t, FALSE)
  <2>1. CASE t = Loop
    BY <1>1, <1>3, <2>1, SyncNextCloser DEF Applied, Failed
  <2>2. CASE t # Loop
    BY <1>1, <1>3, <2>2, ClientCloser DEF Applied, Failed, Tasks
  <2> QED BY <2>1, <2>2
<1>4. CASE /\ pc[t] = "find" /\ UNCHANGED sync
           /\ pc' \in {[pc EXCEPT ![t] = "import"], [pc EXCEPT ![t] = "move"]}
  <2>1. pc'[t] \in {"import", "move"}
    BY <1>4 DEF IInv, TypeOK
  <2>2. Phase(t)' = Phase(t) /\ Request(t) = 2 /\ Request(t)' \in {0, 1}
    BY <1>4, <2>1 DEF Phase, Request
  <2>3. Behind(t)' = Behind(t)
    BY <1>4 DEF Behind
  <2> QED BY <2>2, <2>3 DEF ComesCloser
<1>5. CASE pc[t] = "import" /\ pc' = [pc EXCEPT ![t] = "move"] /\ UNCHANGED sync
  <2>1. pc'[t] = "move"
    BY <1>5 DEF IInv, TypeOK
  <2>2. Phase(t)' = Phase(t) /\ Request(t) = 1 /\ Request(t)' = 0
    BY <1>5, <2>1 DEF Phase, Request
  <2>3. Behind(t)' = Behind(t)
    BY <1>5 DEF Behind
  <2> QED BY <2>2, <2>3 DEF ComesCloser
<1> QED BY <1>2, <1>3, <1>4, <1>5

LEMMA QueueWriteCloser ==
  ASSUME IInv, NEW t \in Tasks, QueueWriteSucceeds(t) \/ QueueWriteFails(t), pc'[t] \in Owning
  PROVE  ComesCloser(t)
<1>1. pc[t] = "queueWrite"
  BY DEF QueueWriteSucceeds, QueueWriteFails
<1>2. CASE t = Loop
  BY <1>1, <1>2, AfterSyncCloser DEF QueueWriteSucceeds, QueueWriteFails
<1>3. CASE t # Loop
  BY <1>3 DEF QueueWriteSucceeds, QueueWriteFails, Release, IInv, TypeOK, Owning
<1> QED BY <1>2, <1>3

LEMMA StorageStepCloser ==
  ASSUME IInv, NEW t \in Tasks, StorageStep(t), pc'[t] \in Owning
  PROVE  ComesCloser(t)
BY RequestCloser, QueueWriteCloser DEF StorageStep

LEMMA LoopCloser ==
  ASSUME IInv, LoopStep, pc[Loop] \in Owning, pc'[Loop] \in Owning
  PROVE  ComesCloser(Loop)
<1>1. Loop \in Tasks
  BY DEF Tasks
<1>2. CASE StorageStep(Loop)
  BY <1>1, <1>2, StorageStepCloser
<1>3. CASE HeartbeatSucceeds
  <2>1. pc[Loop] = "heartbeat" /\ RunOnlineMaintenance(~heartbeat_succeeded \/ heartbeat_failure_active)
    BY <1>3 DEF HeartbeatSucceeds
  <2>2. CASE queue.operations = <<>>
    BY <2>1, <2>2, AfterSyncCloser DEF RunOnlineMaintenance
  <2>3. CASE queue.operations # <<>>
    <3>1. pc'[Loop] = "find"
      BY <1>1, <2>1, <2>3 DEF RunOnlineMaintenance, IInv, TypeOK
    <3>2. Phase(Loop) = 4 /\ Phase(Loop)' = 3
      BY <2>1, <3>1 DEF Phase
    <3> QED BY <3>2 DEF ComesCloser
  <2> QED BY <2>2, <2>3
<1>4. CASE RefreshInventory
  <2>1. pc[Loop] = "refresh"
    BY <1>4 DEF RefreshInventory
  <2>2. pc'[Loop] = "refreshWrite"
    BY <1>1, <1>4 DEF RefreshInventory, EndRefresh, IInv, TypeOK, Owning
  <2>3. Phase(Loop) = 1 /\ Phase(Loop)' = 0
    BY <2>1, <2>2 DEF Phase
  <2> QED BY <2>3 DEF ComesCloser
<1>5. CASE StartHeartbeat \/ SkipHeartbeat \/ RetryQueue
  BY <1>5 DEF StartHeartbeat, SkipHeartbeat, RetryQueue, Owning
<1>6. CASE HeartbeatFails \/ InventoryWriteSucceeds \/ InventoryWriteFails
  <2>1. pc' = [pc EXCEPT ![Loop] = "poll"]
    BY <1>6 DEF HeartbeatFails, InventoryWriteSucceeds, InventoryWriteFails, EndRefresh
  <2> QED BY <1>1, <2>1 DEF IInv, TypeOK, Owning
<1> QED BY <1>2, <1>3, <1>4, <1>5, <1>6 DEF LoopStep

LEMMA ClientStepCloser ==
  ASSUME IInv, NEW c \in Clients, ClientStep(c), pc[c] \in Owning, pc'[c] \in Owning
  PROVE  ComesCloser(c)
<1>1. c \in Tasks
  BY DEF Tasks
<1>2. CASE StorageStep(c)
  BY <1>1, <1>2, StorageStepCloser
<1>3. CASE ProceedStore(c) \/ ProceedPrepare(c)
  BY <1>3 DEF ProceedStore, ProceedPrepare, Owning
<1>4. CASE RemoteEnds(c)
  <2>1. pc[c] = "remote" /\ pc' \in {[pc EXCEPT ![c] = "settingsWrite"], [pc EXCEPT ![c] = "idle"]}
    BY <1>4 DEF RemoteEnds, Release
  <2>2. pc'[c] = "settingsWrite"
    BY <1>1, <2>1 DEF IInv, TypeOK, Owning
  <2>3. Phase(c) = 3 /\ Phase(c)' = 2
    BY <2>1, <2>2 DEF Phase
  <2> QED BY <2>3 DEF ComesCloser
<1>5. CASE SettingsWritten(c)
  BY <1>1, <1>5 DEF SettingsWritten, Release, IInv, TypeOK, Owning
<1> QED BY <1>2, <1>3, <1>4, <1>5 DEF ClientStep

\* No other task moves, and only the heartbeat task touches its locals.
MovesAlone(t) ==
  /\ \A u \in Tasks \ {t} : pc'[u] = pc[u]
  /\ t # Loop => UNCHANGED sync

LEMMA AdvancesAlone ==
  ASSUME IInv, NEW t \in Tasks, pc' = [pc EXCEPT ![t] = pc'[t]], t # Loop => UNCHANGED sync
  PROVE  MovesAlone(t)
BY DEF MovesAlone, IInv, TypeOK

LEMMA StorageMovesAlone ==
  ASSUME IInv, NEW t \in Tasks, StorageStep(t)
  PROVE  MovesAlone(t)
<1>1. CASE Find(t) \/ Import(t) \/ Move(t)
  <2>1. pc[t] \in {"find", "import", "move"}
    BY <1>1 DEF Find, Import, Move
  <2>2. \/ Settled(t)
        \/ pc' = [pc EXCEPT ![t] = "import"] /\ UNCHANGED sync
        \/ pc' = [pc EXCEPT ![t] = "move"] /\ UNCHANGED sync
    <3>1. \/ Applied(t) \/ Failed(t, TRUE) \/ Failed(t, FALSE)
          \/ pc' = [pc EXCEPT ![t] = "import"] /\ UNCHANGED sync
          \/ pc' = [pc EXCEPT ![t] = "move"] /\ UNCHANGED sync
      BY <1>1 DEF Find, Import, Move, RequestFails
    <3> QED BY <2>1, <3>1, AppliedSettles, FailedSettles
  <2>3. pc' = [pc EXCEPT ![t] = pc'[t]] /\ (t # Loop => UNCHANGED sync)
    BY <2>2 DEF Settled, LoopAdvances, ClientAdvances, Advances, IInv, TypeOK
  <2> QED BY <2>3, AdvancesAlone
<1>2. CASE (QueueWriteSucceeds(t) \/ QueueWriteFails(t)) /\ t = Loop
  <2>1. sync.force \in BOOLEAN /\ (AfterSync(sync.force, TRUE) \/ AfterSync(sync.force, FALSE))
    BY <1>2 DEF QueueWriteSucceeds, QueueWriteFails, IInv, TypeOK
  <2>2. LoopAdvances
    BY <2>1, AfterSyncAdvances
  <2> QED BY <1>2, <2>2, AdvancesAlone DEF LoopAdvances, Advances
<1>3. CASE (QueueWriteSucceeds(t) \/ QueueWriteFails(t)) /\ t # Loop
  <2>1. t \in Clients /\ Release(t) /\ UNCHANGED sync
    BY <1>3 DEF QueueWriteSucceeds, QueueWriteFails, Tasks
  <2>2. ClientAdvances(t)
    BY <2>1, ReleaseAdvances
  <2> QED BY <2>1, <2>2, AdvancesAlone DEF ClientAdvances, Advances
<1> QED BY <1>1, <1>2, <1>3 DEF StorageStep

LEMMA LoopMovesAlone ==
  ASSUME IInv, LoopStep
  PROVE  MovesAlone(Loop)
<1>1. Loop \in Tasks
  BY DEF Tasks
<1>2. CASE StorageStep(Loop)
  BY <1>1, <1>2, StorageMovesAlone
<1>3. CASE HeartbeatSucceeds \/ RetryQueue
  <2>1. \E force \in BOOLEAN : RunOnlineMaintenance(force)
    BY <1>3 DEF HeartbeatSucceeds, RetryQueue
  <2>2. LoopAdvances
    BY <2>1, MaintenanceAdvances
  <2> QED BY <1>1, <2>2, AdvancesAlone DEF LoopAdvances, Advances
<1>4. CASE SkipHeartbeat
  BY <1>4 DEF SkipHeartbeat, tasks, MovesAlone
<1>5. CASE StartHeartbeat \/ HeartbeatFails \/ RefreshInventory \/ InventoryWriteSucceeds
           \/ InventoryWriteFails
  <2>1. \E at \in {"heartbeat", "poll", "refreshWrite"} : pc' = [pc EXCEPT ![Loop] = at]
    BY <1>5 DEF StartHeartbeat, Acquire, HeartbeatFails, RefreshInventory, InventoryWriteSucceeds,
                InventoryWriteFails, EndRefresh
  <2> QED BY <1>1, <2>1 DEF MovesAlone, IInv, TypeOK
<1> QED BY <1>2, <1>3, <1>4, <1>5 DEF LoopStep

LEMMA ClientMovesAlone ==
  ASSUME IInv, NEW c \in Clients, Call(c) \/ ClientStep(c)
  PROVE  MovesAlone(c)
<1>1. c \in Tasks /\ c # Loop
  BY ConstantsAssumption DEF Tasks
<1>2. CASE StorageStep(c)
  BY <1>1, <1>2, StorageMovesAlone
<1>3. ASSUME UNCHANGED sync, NEW at, pc' = [pc EXCEPT ![c] = at]
      PROVE  MovesAlone(c)
  BY <1>1, <1>3 DEF MovesAlone, IInv, TypeOK
<1>4. CASE Call(c)
  BY <1>3, <1>4 DEF Call, CallStore, CallPrepare, CallArchive, CallWeb, Acquire, loop
<1>5. CASE ProceedStore(c)
  BY <1>3, <1>5 DEF ProceedStore, EnqueueStorage, Release, Return, Acquire, loop
<1>6. CASE ProceedPrepare(c)
  BY <1>3, <1>6 DEF ProceedPrepare, Return, Acquire, loop
<1>7. CASE RemoteEnds(c) \/ SettingsWritten(c)
  BY <1>3, <1>7 DEF RemoteEnds, SettingsWritten, Release, loop
<1> QED BY <1>2, <1>4, <1>5, <1>6, <1>7 DEF ClientStep

LEMMA OtherStepKeepsVariant ==
  ASSUME IInv, NEW t \in Tasks, pc'[t] = pc[t], t = Loop => UNCHANGED sync
  PROVE  UNCHANGED <<Phase(t), Behind(t), Request(t)>>
BY DEF Phase, Behind, Request

LEMMA OwnerStep ==
  ASSUME IInv, [Next]_vars, NEW t \in Tasks, pc[t] \in Owning, pc'[t] \in Owning
  PROVE  IF OwnStep(t) THEN ComesCloser(t) ELSE UNCHANGED <<Phase(t), Behind(t), Request(t)>>
<1>1. CASE OwnStep(t)
  BY <1>1, LoopCloser, ClientStepCloser DEF OwnStep, Tasks
<1>2. CASE ~OwnStep(t)
  <2>1. CASE LoopStep
    <3>1. t # Loop
      BY <1>2, <2>1 DEF OwnStep
    <3>2. pc'[t] = pc[t]
      BY <2>1, <3>1, LoopMovesAlone DEF MovesAlone
    <3> QED BY <1>2, <3>1, <3>2, OtherStepKeepsVariant
  <2>2. ASSUME NEW c \in Clients, Call(c) \/ ClientStep(c)
        PROVE  UNCHANGED <<Phase(t), Behind(t), Request(t)>>
    <3>1. c # Loop /\ MovesAlone(c)
      BY <2>2, ClientMovesAlone, ConstantsAssumption
    <3>2. t # c
      <4>1. Call(c) => pc[c] \notin Owning
        BY DEF Call, CallStore, CallPrepare, CallArchive, CallWeb, Owning
      <4> QED BY <1>2, <2>2, <3>1, <4>1 DEF OwnStep
    <3>3. pc'[t] = pc[t] /\ sync' = sync
      BY <3>1, <3>2 DEF MovesAlone
    <3> QED BY <3>3, OtherStepKeepsVariant
  <2>3. CASE Environment
    <3>1. CASE Crash
      BY <3>1 DEF Crash, Owning
    <3>2. CASE ~Crash
      <4>1. pc' = pc /\ sync' = sync
        BY <2>3, <3>2 DEF Environment, ChangeSettings, AddressChanges, NetworkSettles,
                          ExternalMove, loop, tasks
      <4>2. UNCHANGED <<Phase(t), Behind(t), Request(t)>>
        BY <4>1, OtherStepKeepsVariant
      <4> QED BY <1>2, <4>2
    <3> QED BY <3>1, <3>2
  <2>4. CASE UNCHANGED vars
    <3>1. pc' = pc /\ sync' = sync
      BY <2>4 DEF vars, loop, tasks
    <3>2. UNCHANGED <<Phase(t), Behind(t), Request(t)>>
      BY <3>1, OtherStepKeepsVariant
    <3> QED BY <1>2, <3>2
  <2> QED BY <1>2, <2>1, <2>2, <2>3, <2>4 DEF Next
<1> QED BY <1>1, <1>2

\* No part of the variant falls below zero while it counts.
LEMMA VariantBounded ==
  ASSUME IInv, NEW t \in Tasks, pc[t] \in Owning \ {"heartbeat", "refresh", "refreshWrite"}
  PROVE  /\ Phase(t) \in 0 .. 4 /\ Request(t) \in 0 .. 2
         /\ t = Loop /\ pc[t] # "queueWrite" => Behind(t) \in Nat
<1>1. Phase(t) \in 0 .. 4 /\ Request(t) \in 0 .. 2
  BY DEF Phase, Request
<1>2. ASSUME t = Loop, pc[t] # "queueWrite"
      PROVE  Behind(t) \in Nat
  <2>1. pc[Loop] \in {"find", "import", "move"}
    BY <1>2 DEF IInv, Control, LoopPoints, Owning, Synchronizing
  <2>2. sync.at \in 1 .. Len(sync.operations) /\ Len(sync.operations) \in Nat
    BY <2>1 DEF IInv, TypeOK, Control
  <2> QED BY <1>2, <2>2 DEF Behind
<1> QED BY <1>1, <1>2

\* The safety half of BusyIsReleased: the variant falls with every step of the owner.
THEOREM OwnerProgress == Spec => OwnerComesCloser
<1>1. IInv /\ [Next]_vars =>
        [\A t \in Tasks : pc[t] \in Owning /\ pc'[t] \in Owning =>
           IF OwnStep(t) THEN ComesCloser(t)
           ELSE UNCHANGED <<Phase(t), Behind(t), Request(t)>>]_vars
  BY OwnerStep
<1> QED BY <1>1, Invariance, PTL DEF Spec, OwnerComesCloser

=============================================================================
