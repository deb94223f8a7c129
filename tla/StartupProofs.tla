--------------------------- MODULE StartupProofs ---------------------------
(***************************************************************************)
(* Proofs about Startup, for any number of processes and clients, and of   *)
(* mishaps and visits.  The schema first, which Migration alone decides;   *)
(* then the pipe, which is served only by processes that are ready.        *)
(***************************************************************************)
EXTENDS Startup, SequenceTheorems, TLAPS

\* Who holds the write lock creates the tables, in a database that has none; the
\* version row is in the transaction only when all of them are; and whoever is
\* ready, or was overtaken, has the schema before it.
DataInv ==
  /\ stage \in [Servers -> Stages]
  /\ SchemaWhole
  /\ \A s \in Servers :
       /\ stage[s] \in {"creating", "stamped"} => writer = s
       /\ stage[s] = "stamped" => draft = Batch
       /\ stage[s] \in {"ready", "lost"} => tables = AllTables /\ version = 1
  /\ writer # Nobody => tables = {} /\ version = 0

LEMMA SomeTables == AllTables # {}
<1>1. Batch[1] \in AllTables
  BY DEF AllTables, Range, Batch
<1>. QED  BY <1>1

LEMMA DataInit == Init => DataInv
BY NobodyAssumption DEF Init, MigrationInit, DataInv, SchemaWhole, Stages

\* What History::open does by itself.
LEMMA MigrateStep ==
  ASSUME DataInv, NEW s \in Servers, Migrate(s)
  PROVE  DataInv'
<1>1. CASE OpenFile(s) \/ ReadVersion(s) \/ AlreadyThere(s)
  <2>1. /\ UNCHANGED <<tables, version, writer, draft>>
        /\ stage[s] \in {"down", "reading", "behind"}
        /\ \E t \in {"reading", "behind", "ready", "lost"} :
             /\ stage' = [stage EXCEPT ![s] = t]
             /\ t \in {"ready", "lost"} => tables # {}
    BY <1>1 DEF OpenFile, ReadVersion, AlreadyThere, At
  <2>. QED  BY <2>1 DEF DataInv, SchemaWhole, Stages
<1>2. CASE Create(s)
  <2>1. /\ stage' = [stage EXCEPT ![s] = "creating"]
        /\ writer' = s /\ UNCHANGED <<tables, version>>
        /\ tables = {} /\ version = 0
        /\ writer \in {Nobody, s}
        /\ stage[s] # "stamped"
    BY <1>2, NobodyAssumption, SomeTables DEF Create, DataInv, SchemaWhole
  <2>2. \A t \in Servers \ {s} : stage[t] \notin {"creating", "stamped"}
    BY <2>1, NobodyAssumption DEF DataInv
  <2>. QED  BY <2>1, <2>2, NobodyAssumption DEF DataInv, SchemaWhole, Stages
<1>3. CASE InsertVersion(s)
  BY <1>3 DEF InsertVersion, At, DataInv, SchemaWhole, Stages
<1>4. CASE Commit(s)
  <2>1. /\ stage[s] = "stamped" /\ stage' = [stage EXCEPT ![s] = "ready"]
        /\ tables' = AllTables /\ version' = 1 /\ writer' = Nobody
        /\ writer = s
    BY <1>4 DEF Commit, At, DataInv, AllTables
  <2>2. \A t \in Servers \ {s} : stage[t] \notin {"creating", "stamped"}
    BY <2>1 DEF DataInv
  <2>. QED  BY <2>1, <2>2 DEF DataInv, SchemaWhole, Stages
<1>. QED  BY <1>1, <1>2, <1>3, <1>4 DEF Migrate

\* The ways in which it fails, and the end of a process: what it had in its
\* transaction is gone, and nothing that was committed.
LEMMA FailStep ==
  ASSUME DataInv, NEW s \in Servers,
         MisreadVersion(s) \/ LockTimeout(s) \/ OpenFails(s) \/ Ends(s)
  PROVE  DataInv'
<1>1. CASE MisreadVersion(s) \/ LockTimeout(s)
  BY <1>1 DEF MisreadVersion, LockTimeout, At, DataInv, SchemaWhole, Stages
<1>2. CASE OpenFails(s) \/ Ends(s)
  <2>1. /\ \E t \in {"failed", "down"} : stage' = [stage EXCEPT ![s] = t]
        /\ Rollback(s)
    BY <1>2 DEF OpenFails, Ends
  <2>. QED  BY <2>1, NobodyAssumption DEF Rollback, DataInv, SchemaWhole, Stages
<1>. QED  BY <1>1, <1>2

LEMMA DataStep == DataInv /\ [Next]_vars => DataInv'
<1>. SUFFICES ASSUME DataInv, [Next]_vars
              PROVE  DataInv'
  OBVIOUS
<1>1. CASE UNCHANGED migrationVars
  BY <1>1 DEF migrationVars, DataInv, SchemaWhole
<1>2. CASE \E s \in Servers : OpenStore(s) \/ OpenStoreFails(s) \/ Return(s) \/ Kill(s)
  BY <1>2, MigrateStep, FailStep DEF OpenStore, OpenStoreFails, Return, Kill
<1>3. \/ UNCHANGED migrationVars
      \/ \E s \in Servers : OpenStore(s) \/ OpenStoreFails(s) \/ Return(s) \/ Kill(s)
  BY DEF Next, vars, ServePipe, PipeFails, Task, Come, Connect, Leave
<1>. QED  BY <1>1, <1>2, <1>3

LEMMA DataAlways == Spec => []DataInv
BY DataInit, DataStep, PTL DEF Spec

\* Whoever is killed and whatever fails, and however many processes open the
\* database at once, it is new or has the whole schema.
THEOREM SchemaAlwaysWhole == Spec => []SchemaWhole
<1>1. DataInv => SchemaWhole
  BY DEF DataInv
<1>. QED  BY <1>1, DataAlways, PTL

\* Who fails because it was overtaken will find the schema when started again.
THEOREM OvertakenFindsSchema == Spec => []LoserFindsSchema
<1>1. DataInv => LoserFindsSchema
  BY DEF DataInv, LoserFindsSchema
<1>. QED  BY <1>1, DataAlways, PTL

-----------------------------------------------------------------------------
(* The pipe *)

\* The pipe belongs to processes that are ready: a connection, from the opening of
\* an instance to the end of its task, is with the process that its client chose.
ServingInv ==
  /\ loop \in [Processes -> Loops]
  /\ offer \in [Processes -> {NoOffer, Vacant} \cup {Taken(c) : c \in Clients}]
  /\ serving \in [Clients -> Tasks]
  /\ target \in [Clients -> Processes \cup {Nowhere}]
  /\ \A p \in Processes :
       /\ loop[p] # "off" => stage[p] = "ready"
       /\ loop[p] = "off" => offer[p] = NoOffer
       /\ \A c \in offer[p].by : target[c] = p
  /\ \A c \in Clients : serving[c] # "none" =>
       target[c] \in Processes /\ stage[target[c]] = "ready"

LEMMA ServingInit == Init => ServingInv
BY DEF Init, PipeInit, ServingInv, NoOffer, Loops, Tasks


\* The accept loop of a process that is ready.
LEMMA LoopStep ==
  ASSUME ServingInv, NEW s \in Processes, stage[s] = "ready", UNCHANGED migrationVars,
         Accepting(s) \/ BuildFails(s) \/ ConnectFails(s)
  PROVE  ServingInv'
<1>1. UNCHANGED <<stage, target>>
  BY DEF migrationVars, Accepting, Publish, Build, Accept, Wake, BuildFails, ConnectFails,
         clientVars
<1>2. \E l \in Loops \ {"off"} : loop' = [loop EXCEPT ![s] = l]
  <2>1. CASE BuildFails(s)
    BY <2>1 DEF BuildFails, Loops
  <2>2. CASE Accepting(s) \/ ConnectFails(s)
    BY <2>2 DEF Accepting, Publish, Build, Accept, Wake, ConnectFails, Loops
  <2>. QED  BY <2>1, <2>2
<1>3. offer' = offer \/ \E o \in {NoOffer, Vacant} : offer' = [offer EXCEPT ![s] = o]
  BY DEF Accepting, Publish, Build, Accept, Wake, BuildFails, ConnectFails
<1>4. serving' = serving \/ \E c \in offer[s].by : serving' = [serving EXCEPT ![c] = "authenticating"]
  BY DEF Accepting, Publish, Build, Accept, Wake, BuildFails, ConnectFails
<1>5. offer[s].by \subseteq Clients
  BY DEF ServingInv, NoOffer, Vacant, Taken
<1>6. \A c \in offer[s].by : target[c] = s
  BY DEF ServingInv
<1>7. NoOffer.by = {} /\ Vacant.by = {}
  BY DEF NoOffer, Vacant
<1>8. /\ loop' \in [Processes -> Loops]
      /\ offer' \in [Processes -> {NoOffer, Vacant} \cup {Taken(c) : c \in Clients}]
      /\ serving' \in [Clients -> Tasks]
      /\ target' \in [Clients -> Processes \cup {Nowhere}]
  BY <1>1, <1>2, <1>3, <1>4, <1>5 DEF ServingInv, Tasks
<1>9. ASSUME NEW p \in Processes
      PROVE  /\ loop'[p] # "off" => stage'[p] = "ready"
             /\ loop'[p] = "off" => offer'[p] = NoOffer
             /\ \A c \in offer'[p].by : target'[c] = p
  BY <1>1, <1>2, <1>3, <1>7 DEF ServingInv
<1>10. ASSUME NEW c \in Clients, serving'[c] # "none"
       PROVE  target'[c] \in Processes /\ stage'[target'[c]] = "ready"
  BY <1>1, <1>4, <1>5, <1>6, <1>10 DEF ServingInv
<1>. QED  BY <1>8, <1>9, <1>10 DEF ServingInv

\* A task, and a client that chooses, opens or does whatever else.
LEMMA ClientStep ==
  ASSUME ServingInv, UNCHANGED migrationVars, NEW c \in Clients,
         Connection(c) \/ Connecting(c) \/ Quit(c) \/ \E s \in Servers : Choose(c, s)
  PROVE  ServingInv'
<1>1. CASE Connection(c)
  <2>1. /\ serving[c] # "none"
        /\ \E t \in Tasks : serving' = [serving EXCEPT ![c] = t]
        /\ UNCHANGED <<loop, offer, target, stage>>
    BY <1>1 DEF Connection, Admit, Drop, Tasks, clientVars, migrationVars
  <2>. QED  BY <2>1 DEF ServingInv
<1>2. CASE Open(c)
  <2>1. /\ UNCHANGED <<loop, serving, target, stage>>
        /\ offer[target[c]] = Vacant
        /\ offer' = [offer EXCEPT ![target[c]] = Taken(c)]
    BY <1>2 DEF Open, migrationVars
  <2>2. Taken(c).by = {c} /\ Vacant # NoOffer
    BY DEF Taken, Vacant, NoOffer
  <2>3. ASSUME NEW p \in Processes
        PROVE  /\ loop'[p] # "off" => stage'[p] = "ready"
               /\ loop'[p] = "off" => offer'[p] = NoOffer
               /\ \A d \in offer'[p].by : target'[d] = p
    BY <2>1, <2>2 DEF ServingInv
  <2>. QED  BY <2>1, <2>3 DEF ServingInv
<1>3. CASE \E s \in Servers : Choose(c, s)
  <2>1. PICK s \in Processes : Choose(c, s)
    BY <1>3, SameProcesses
  <2>2. /\ serving[c] = "none" /\ \A p \in Processes : c \notin offer[p].by
        /\ target' = [target EXCEPT ![c] = s]
        /\ UNCHANGED <<loop, offer, serving, stage>>
    BY <2>1 DEF Choose, Linked, migrationVars
  <2>3. \A p \in Processes : \A d \in offer[p].by : d \in Clients
    BY DEF ServingInv, NoOffer, Vacant, Taken
  <2>4. ASSUME NEW p \in Processes, NEW d \in offer'[p].by
        PROVE  target'[d] = p
    BY <2>2, <2>3 DEF ServingInv
  <2>. QED  BY <2>2, <2>4 DEF ServingInv
<1>4. CASE UNCHANGED <<loop, offer, serving, target>>
  BY <1>4 DEF ServingInv, migrationVars
<1>. QED
  BY <1>1, <1>2, <1>3, <1>4
     DEF Connecting, Busy, NotFound, Speak, Served, Broken, Quit

\* A process that ends takes its pipe with it, and the tasks.
LEMMA EndStep ==
  ASSUME DataInv, ServingInv, NEW s \in Servers, Ends(s), Collapse(s)
  PROVE  ServingInv'
<1>1. /\ stage' = [stage EXCEPT ![s] = "down"]
      /\ loop' = [loop EXCEPT ![s] = "off"]
      /\ offer' = [offer EXCEPT ![s] = NoOffer]
      /\ serving' = [c \in Clients |-> IF target[c] = s THEN "none" ELSE serving[c]]
      /\ target' = target
      /\ s \in Processes
  BY SameProcesses DEF Ends, Collapse, clientVars
<1>2. NoOffer.by = {}
  BY DEF NoOffer
<1>3. ASSUME NEW p \in Processes
      PROVE  /\ loop'[p] # "off" => stage'[p] = "ready"
             /\ loop'[p] = "off" => offer'[p] = NoOffer
             /\ \A c \in offer'[p].by : target'[c] = p
  BY <1>1, <1>2, SameProcesses DEF ServingInv, DataInv
<1>4. ASSUME NEW c \in Clients, serving'[c] # "none"
      PROVE  target'[c] \in Processes /\ stage'[target'[c]] = "ready"
  BY <1>1, <1>4, SameProcesses DEF ServingInv, DataInv
<1>5. /\ loop' \in [Processes -> Loops]
      /\ offer' \in [Processes -> {NoOffer, Vacant} \cup {Taken(c) : c \in Clients}]
      /\ serving' \in [Clients -> Tasks]
      /\ target' \in [Clients -> Processes \cup {Nowhere}]
  BY <1>1 DEF ServingInv, Loops, Tasks
<1>. QED  BY <1>3, <1>4, <1>5 DEF ServingInv

\* A process that opens the database is not ready before, and no other moves.
LEMMA OpeningStep ==
  ASSUME DataInv, ServingInv, NEW s \in Servers, OpenStore(s) \/ OpenStoreFails(s)
  PROVE  ServingInv'
<1>1. /\ UNCHANGED <<loop, offer, serving, target>>
      /\ stage[s] # "ready"
      /\ \E t \in Stages : stage' = [stage EXCEPT ![s] = t]
  <2>1. CASE OpenStore(s)
    BY <2>1 DEF OpenStore, Migrate, OpenFile, ReadVersion, Create, AlreadyThere,
                InsertVersion, Commit, At, Stages, pipeVars
  <2>2. CASE OpenStoreFails(s)
    BY <2>2 DEF OpenStoreFails, MisreadVersion, LockTimeout, OpenFails, At, Opening,
                Stages, pipeVars
  <2>. QED  BY <2>1, <2>2
<1>. QED  BY <1>1, SameProcesses DEF ServingInv, DataInv

LEMMA ServingStep == DataInv /\ ServingInv /\ [Next]_vars => ServingInv'
<1>. SUFFICES ASSUME DataInv, ServingInv, [Next]_vars
              PROVE  ServingInv'
  OBVIOUS
<1>1. ASSUME NEW s \in Servers, OpenStore(s) \/ OpenStoreFails(s)
      PROVE  ServingInv'
  BY <1>1, OpeningStep
<1>2. ASSUME NEW s \in Servers, ServePipe(s) \/ PipeFails(s)
      PROVE  ServingInv'
  BY <1>2, LoopStep, SameProcesses DEF ServePipe, PipeFails
<1>3. ASSUME NEW s \in Servers, Return(s) \/ Kill(s)
      PROVE  ServingInv'
  BY <1>3, EndStep DEF Return, Kill
<1>4. ASSUME NEW c \in Clients, Task(c) \/ Come(c) \/ Connect(c) \/ Leave(c)
      PROVE  ServingInv'
  BY <1>4, ClientStep DEF Task, Come, Connect, Leave, migrationVars
<1>5. CASE UNCHANGED vars
  BY <1>5 DEF vars, pipeVars, migrationVars, ServingInv
<1>. QED  BY <1>1, <1>2, <1>3, <1>4, <1>5 DEF Next

\* No process hands a client to its tools before its database has the schema.
THEOREM NothingServedEarly == Spec => []ServedFromWholeSchema
<1>1. DataInv /\ ServingInv => ServedFromWholeSchema
  <2>. SUFFICES ASSUME DataInv, ServingInv, NEW c \in Clients, serving[c] = "handling"
                PROVE  stage[target[c]] = "ready" /\ tables = AllTables
    BY DEF ServedFromWholeSchema
  <2>. QED  BY SameProcesses DEF DataInv, ServingInv
<1>. QED  BY <1>1, ServingInit, ServingStep, DataAlways, PTL DEF Spec

-----------------------------------------------------------------------------
(* Types, with what keeps the counters within them *)

\* The transaction has the first statements of the batch, and there is none without
\* a writer.
DraftInv ==
  /\ draft \in {SubSeq(Batch, 1, n) : n \in 0..Len(Batch)}
  /\ writer = Nobody => draft = <<>>
  /\ writer \in Servers \cup {Nobody}

LEMMA BatchPrefixes ==
  /\ Len(Batch) = 5
  /\ SubSeq(Batch, 1, 0) = <<>>
  /\ \A n \in 0..5 : Len(SubSeq(Batch, 1, n)) = n
  /\ \A n \in 0..4 : Append(SubSeq(Batch, 1, n), Batch[n + 1]) = SubSeq(Batch, 1, n + 1)
<1>1. Batch \in Seq(AllTables) /\ Len(Batch) = 5
  <2>1. Len(Batch) = 5
    BY DEF Batch
  <2>2. Batch \in Seq(AllTables)
    BY DEF Batch, AllTables, Range
  <2>. QED  BY <2>1, <2>2
<1>2. SubSeq(Batch, 1, 0) = <<>>
  BY SubSeqEmpty
<1>3. ASSUME NEW n \in 0..5
      PROVE  SubSeq(Batch, 1, n) \in Seq(AllTables) /\ Len(SubSeq(Batch, 1, n)) = n
  <2>1. ASSUME NEW i \in 1..n PROVE Batch[i] \in AllTables
    <3>1. i \in 1..Len(Batch)
      BY <1>1
    <3>. QED  BY <1>1, <3>1, ElementOfSeq
  <2>. QED  BY <2>1, SubSeqProperties
<1>4. ASSUME NEW n \in 0..4
      PROVE  Append(SubSeq(Batch, 1, n), Batch[n + 1]) = SubSeq(Batch, 1, n + 1)
  <2>1. PICK k \in 1..5 : k = n + 1
    OBVIOUS
  <2>2. SubSeq(Batch, 1, k) = SubSeq(Batch, 1, k - 1) \o <<Batch[k]>>
    BY <1>1, <2>1, SubSeqRecursiveSecond
  <2>3. k - 1 = n
    BY <2>1
  <2>4. SubSeq(Batch, 1, n) \in Seq(AllTables) /\ Batch[k] \in AllTables
    BY <1>1, <1>3, ElementOfSeq
  <2>. QED  BY <2>1, <2>2, <2>3, <2>4, AppendIsConcat
<1>. QED  BY <1>1, <1>2, <1>3, <1>4

LEMMA DraftStep ==
  ASSUME DataInv, DraftInv, [Next]_vars
  PROVE  DraftInv'
<1>1. CASE UNCHANGED <<draft, writer>>
  BY <1>1 DEF DraftInv
<1>2. ASSUME NEW s \in Servers, Create(s)
      PROVE  DraftInv'
  <2>1. PICK n \in 0..5 : draft = SubSeq(Batch, 1, n)
    BY BatchPrefixes DEF DraftInv
  <2>2. /\ writer' = s /\ draft' = Append(draft, Batch[Len(draft) + 1])
        /\ writer = Nobody \/ Len(draft) < 5
    BY <1>2, BatchPrefixes DEF Create
  <2>3. Len(draft) = n /\ n \in 0..4
    <3>1. Len(draft) = n
      BY <2>1, BatchPrefixes
    <3>2. writer = Nobody => n = 0
      BY <3>1 DEF DraftInv
    <3>. QED  BY <2>2, <3>1, <3>2
  <2>4. draft' = SubSeq(Batch, 1, n + 1) /\ n + 1 \in 0..Len(Batch)
    BY <2>1, <2>2, <2>3, BatchPrefixes
  <2>. QED  BY <2>2, <2>4, NobodyAssumption DEF DraftInv
<1>3. ASSUME draft' = <<>>, writer' = Nobody
      PROVE  DraftInv'
  BY <1>3, BatchPrefixes DEF DraftInv
<1>4. ASSUME NEW s \in Servers, Rollback(s)
      PROVE  DraftInv'
  BY <1>1, <1>3, <1>4 DEF Rollback
<1>5. ASSUME NEW s \in Servers, Migrate(s)
      PROVE  DraftInv'
  BY <1>1, <1>2, <1>3, <1>5 DEF Migrate, OpenFile, ReadVersion, AlreadyThere, InsertVersion, Commit
<1>6. ASSUME NEW s \in Servers, OpenStoreFails(s) \/ Return(s) \/ Kill(s)
      PROVE  DraftInv'
  BY <1>1, <1>4, <1>6 DEF OpenStoreFails, MisreadVersion, LockTimeout, OpenFails, Return, Kill, Ends
<1>7. CASE UNCHANGED migrationVars
  BY <1>1, <1>7 DEF migrationVars
<1>8. \/ UNCHANGED migrationVars
      \/ \E s \in Servers : Migrate(s) \/ OpenStoreFails(s) \/ Return(s) \/ Kill(s)
  BY DEF Next, vars, OpenStore, ServePipe, PipeFails, Task, Come, Connect, Leave
<1>. QED  BY <1>5, <1>6, <1>7, <1>8

\* An instance on offer was created without a failure since.
LoopInv ==
  /\ loop \in [Processes -> Loops]
  /\ claimed \in [Processes -> BOOLEAN]
  /\ failures \in [Processes -> 0..5]
  /\ \A p \in Processes : loop[p] = "connecting" => failures[p] = 0

\* A client that is still opening has a try left, and one that is away has them all.
ClientInv ==
  /\ client \in [Clients -> Places]
  /\ tries \in [Clients -> 0..MaxTries]
  /\ said \in [Clients -> {"nothing", "token", "other"}]
  /\ \A c \in Clients : /\ client[c] = "opening" => tries[c] < MaxTries
                        /\ client[c] = "away" => tries[c] = 0

CountInv == mishaps \in 0..MaxMishaps /\ visits \in 0..MaxVisits

LEMMA CountersInit == Init => DraftInv /\ LoopInv /\ ClientInv /\ CountInv
<1>1. Init => DraftInv
  BY BatchPrefixes DEF Init, MigrationInit, DraftInv
<1>2. Init => LoopInv /\ ClientInv /\ CountInv
  BY TriesAssumption, StartupBounds
     DEF Init, PipeInit, LoopInv, ClientInv, CountInv, Loops, Places
<1>. QED  BY <1>1, <1>2

\* What a step of the accept loop of s does to its counts.
LEMMA LoopCounts ==
  ASSUME LoopInv, NEW s \in Processes,
         Accepting(s) \/ BuildFails(s) \/ ConnectFails(s) \/ Collapse(s)
  PROVE  LoopInv'
<1>1. \A n \in 0..5 : OneMore(n) \in 0..5
  BY DEF OneMore
<1>2. CASE Publish(s)
  BY <1>2 DEF Publish, LoopInv, Loops
<1>3. CASE Build(s)
  BY <1>3 DEF Build, LoopInv, Loops
<1>4. CASE Accept(s)
  BY <1>4 DEF Accept, LoopInv, Loops
<1>5. CASE Wake(s)
  BY <1>5 DEF Wake, LoopInv, Loops
<1>6. CASE BuildFails(s)
  <2>1. /\ \E n \in 0..5 : failures' = [failures EXCEPT ![s] = n]
        /\ \E l \in {"pausing", "returned"} : loop' = [loop EXCEPT ![s] = l]
        /\ claimed' = claimed
    BY <1>1, <1>6 DEF BuildFails, LoopInv
  <2>. QED  BY <2>1 DEF LoopInv, Loops
<1>7. CASE ConnectFails(s)
  <2>1. /\ \E n \in 0..5 : failures' = [failures EXCEPT ![s] = n]
        /\ loop' = [loop EXCEPT ![s] = "pausing"]
        /\ claimed' = claimed
    BY <1>1, <1>7 DEF ConnectFails, LoopInv
  <2>. QED  BY <2>1 DEF LoopInv, Loops
<1>8. CASE Collapse(s)
  BY <1>8 DEF Collapse, LoopInv, Loops
<1>. QED  BY <1>2, <1>3, <1>4, <1>5, <1>6, <1>7, <1>8 DEF Accepting

LEMMA ClientCounts ==
  ASSUME ClientInv, NEW c \in Clients,
         Connecting(c) \/ Quit(c) \/ \E s \in Servers : Choose(c, s)
  PROVE  ClientInv'
<1>. MaxTries \in Nat \ {0}
  BY TriesAssumption
<1>1. CASE Busy(c)
  <2>1. /\ client[c] = "opening" /\ said' = said
        /\ tries' = [tries EXCEPT ![c] = tries[c] + 1]
        /\ client' = [client EXCEPT ![c] = IF tries[c] + 1 = MaxTries THEN "refused" ELSE client[c]]
    BY <1>1 DEF Busy
  <2>2. tries[c] + 1 \in 0..MaxTries
    BY <2>1 DEF ClientInv
  <2>. QED  BY <2>1, <2>2 DEF ClientInv, Places
<1>2. CASE Open(c) \/ NotFound(c) \/ Served(c) \/ Broken(c)
  <2>1. /\ \E t \in {"connected", "served", "refused"} : client' = [client EXCEPT ![c] = t]
        /\ UNCHANGED <<tries, said>>
    BY <1>2 DEF Open, NotFound, Served, Broken
  <2>. QED  BY <2>1 DEF ClientInv, Places
<1>3. CASE Speak(c)
  BY <1>3 DEF Speak, ClientInv
<1>4. CASE Quit(c)
  BY <1>4 DEF Quit, ClientInv, Places
<1>5. CASE \E s \in Servers : Choose(c, s)
  <2>1. /\ client[c] = "away" /\ client' = [client EXCEPT ![c] = "opening"]
        /\ UNCHANGED <<tries, said>>
    BY <1>5 DEF Choose
  <2>. QED  BY <2>1 DEF ClientInv, Places
<1>. QED  BY <1>1, <1>2, <1>3, <1>4, <1>5 DEF Connecting

LEMMA CountersStep ==
  ASSUME LoopInv, ClientInv, CountInv, [Next]_vars
  PROVE  LoopInv' /\ ClientInv' /\ CountInv'
<1>1. CountInv'
  <2>1. CASE Ordinary \/ Mishap
    BY <2>1, StartupBounds DEF Ordinary, Mishap, CountInv
  <2>2. ASSUME NEW c \in Clients, Come(c)
        PROVE  CountInv'
    BY <2>2, StartupBounds DEF Come, CountInv
  <2>3. CASE UNCHANGED vars
    BY <2>3 DEF vars, CountInv
  <2>. QED  BY <2>1, <2>2, <2>3 DEF Next, OpenStore, OpenStoreFails, ServePipe, PipeFails,
                                    Return, Kill, Task, Connect, Leave
<1>2. LoopInv'
  <2>1. CASE UNCHANGED <<loop, claimed, failures>>
    BY <2>1 DEF LoopInv
  <2>2. ASSUME NEW s \in Servers, ServePipe(s) \/ PipeFails(s) \/ Return(s) \/ Kill(s)
        PROVE  LoopInv'
    BY <2>2, LoopCounts, SameProcesses DEF ServePipe, PipeFails, Return, Kill
  <2>3. \/ UNCHANGED <<loop, claimed, failures>>
        \/ \E s \in Servers : ServePipe(s) \/ PipeFails(s) \/ Return(s) \/ Kill(s)
    BY DEF Next, vars, pipeVars, OpenStore, OpenStoreFails, Task, Connection, Admit, Drop,
           Come, Choose, Connect, Connecting, Open, Busy, NotFound, Speak, Served, Broken,
           Leave, Quit
  <2>. QED  BY <2>1, <2>2, <2>3
<1>3. ClientInv'
  <2>1. CASE UNCHANGED clientVars
    BY <2>1 DEF clientVars, ClientInv
  <2>2. ASSUME NEW c \in Clients, Come(c) \/ Connect(c) \/ Leave(c)
        PROVE  ClientInv'
    BY <2>2, ClientCounts DEF Come, Connect, Leave
  <2>3. \/ UNCHANGED clientVars
        \/ \E c \in Clients : Come(c) \/ Connect(c) \/ Leave(c)
    BY DEF Next, vars, pipeVars, clientVars, OpenStore, OpenStoreFails, ServePipe, PipeFails,
           Return, Kill, Collapse, Accepting, Publish, Build, Accept, Wake, BuildFails,
           ConnectFails, Task, Connection, Admit, Drop
  <2>. QED  BY <2>1, <2>2, <2>3
<1>. QED  BY <1>1, <1>2, <1>3

LEMMA CountersAlways == Spec => [](DraftInv /\ LoopInv /\ ClientInv /\ CountInv)
<1>1. DataInv /\ DraftInv /\ LoopInv /\ ClientInv /\ CountInv /\ [Next]_vars
        => (DraftInv /\ LoopInv /\ ClientInv /\ CountInv)'
  BY DraftStep, CountersStep
<1>. QED  BY <1>1, CountersInit, DataAlways, PTL DEF Spec

\* Types; a client gives up at the last of its tries and never makes another.
THEOREM StartupTypes == Spec => []TypeOK
<1>1. DataInv /\ DraftInv => MigrationTypeOK
  BY DEF DataInv, DraftInv, SchemaWhole, MigrationTypeOK
<1>2. DataInv /\ DraftInv /\ ServingInv /\ LoopInv /\ ClientInv /\ CountInv => TypeOK
  BY <1>1 DEF ServingInv, LoopInv, ClientInv, CountInv, TypeOK
<1>. QED  BY <1>2, CountersAlways, ServingInit, ServingStep, DataAlways, PTL DEF Spec

\* A pause of backoff_sleep is of at most 30 seconds, and of 2 after an instance
\* that was created, however often connect() fails: only failing creations make
\* pauses longer.  The 2 is what the code does: its comment says "1s doubling", but
\* the failure is counted before the shift.
PausesStartOver ==
  [][ \A s \in Servers : loop'[s] = "pausing" /\ loop[s] # "pausing" =>
        /\ Seconds(failures'[s]) \in 2..30
        /\ loop[s] = "connecting" => Seconds(failures'[s]) = 2 ]_vars

\* Pauses are of 2 to 30 seconds, and the first after an instance of 2.
THEOREM PausesAlwaysStartOver == Spec => PausesStartOver
<1>1. ASSUME LoopInv, Next, NEW s \in Servers, loop'[s] = "pausing", loop[s] # "pausing"
      PROVE  /\ Seconds(failures'[s]) \in 2..30
             /\ loop[s] = "connecting" => Seconds(failures'[s]) = 2
  <2>1. PICK p \in Processes : BuildFails(p) \/ ConnectFails(p)
    <3>1. \/ \E p \in Processes : BuildFails(p) \/ ConnectFails(p)
          \/ loop' = loop
          \/ \E p \in Processes, l \in Loops \ {"pausing"} : loop' = [loop EXCEPT ![p] = l]
      BY <1>1, SameProcesses DEF Next, pipeVars, OpenStore, OpenStoreFails, ServePipe, PipeFails,
           Return, Kill, Collapse, Accepting, Publish, Build, Accept, Wake, Loops,
           Task, Connection, Admit, Drop, Come, Choose, Connect, Connecting, Open, Busy,
           NotFound, Speak, Served, Broken, Leave, Quit
    <3>. QED  BY <1>1, <3>1, SameProcesses DEF LoopInv
  <2>2. /\ p = s /\ failures'[s] = OneMore(failures[s])
        /\ loop[s] = "connecting" => failures[s] = 0
        /\ failures[s] \in 0..5
    BY <1>1, <2>1, SameProcesses DEF LoopInv, BuildFails, ConnectFails
  <2>3. /\ failures'[s] \in 1..5
        /\ loop[s] = "connecting" => failures'[s] = 1
    BY <2>2 DEF OneMore
  <2>4. \A n \in 1..5 : Seconds(n) \in 2..30
    BY DEF Seconds
  <2>5. Seconds(1) = 2
    BY DEF Seconds
  <2>. QED  BY <2>3, <2>4, <2>5
<1>2. LoopInv /\ [Next]_vars =>
        [ \A s \in Servers : loop'[s] = "pausing" /\ loop[s] # "pausing" =>
            /\ Seconds(failures'[s]) \in 2..30
            /\ loop[s] = "connecting" => Seconds(failures'[s]) = 2 ]_vars
  BY <1>1
<1>. QED  BY <1>2, CountersAlways, PTL DEF Spec, PausesStartOver
=============================================================================
