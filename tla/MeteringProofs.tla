--------------------------- MODULE MeteringProofs ---------------------------
(***************************************************************************)
(* Proofs about Metering for every set of chunks, limits, usages, queue    *)
(* and number of copy loops.                                               *)
(*                                                                         *)
(* The argument is about revisions.  What the server would write next is   *)
(* built on a copy with revision Held; if Held is the revision in the      *)
(* database, both record the same usage and the same limit (Coherent).     *)
(* A chunk still in the process is on no bill memory holds, and on the     *)
(* bill of the database only after a flush that failed after its commit;   *)
(* such a flush, like a command that sets the usage, leaves Held behind,   *)
(* so nothing the process holds can be written again (Books).              *)
(***************************************************************************)
EXTENDS Metering, FiniteSetTheorems, TLAPS

\* The revision of the last configuration the server knows it has saved.
Held == mem.revision + (IF saving THEN 1 ELSE 0)

SameUsage(a, b) == a.limit = b.limit /\ a.used = b.used /\ a.bill = b.bill

Empty == process = "down" => task = "done" /\ ~saving /\ InProcess = {}

Coherent ==
    /\ process # "down" => Held <= db.revision
    /\ process # "down" /\ Held = db.revision => SameUsage(mem, db)
    /\ command.busy => command.copy.revision <= db.revision
    /\ command.busy /\ command.copy.revision = db.revision
         => SameUsage(command.copy, db)

\* What is known of one chunk.
Book(c) ==
    /\ process # "down" => mem.bill[c] <= 1
    /\ process # "down" /\ where[c] # "gone" => mem.bill[c] = 0
    /\ process # "down" /\ mem.bill[c] > 0 => c \in delivered
    /\ db.bill[c] <= 1
    /\ where[c] \in {"unread", "charged", "written", "queued"} => db.bill[c] = 0
    /\ db.bill[c] > 0 => c \in delivered
    /\ where[c] \in {"written", "queued", "pending"} => c \in delivered
    /\ where[c] = "unread" => c \notin delivered /\ c \notin forgiven
    /\ c \in forgiven => db.bill[c] = 0
    /\ process # "down" /\ c \in forgiven
         /\ (where[c] # "gone" \/ mem.bill[c] > 0) => Held < db.revision
    /\ c \in delivered /\ where[c] = "gone"
         => db.bill[c] = 1 \/ c \in excused \/ c \in forgiven

Books == \A c \in Chunks : Book(c)

MeteringInv == TypeOK /\ Empty /\ Coherent /\ Books

-----------------------------------------------------------------------------
\* Counting any set of chunks gives a natural number.
LEMMA ChunkCount ==
  ASSUME NEW S \in SUBSET Chunks
  PROVE  IsFiniteSet(S) /\ Cardinality(S) \in Nat
BY FS_Subset, FS_CardinalityType, MeteringConstants

\* The chunks of a stage, and of the process, are chunks.
LEMMA StageSets ==
  /\ \A s \in Stages : At(s) \in SUBSET Chunks
  /\ Dropped \in SUBSET Chunks
  /\ InProcess \in SUBSET Chunks
BY DEF At, Dropped, InProcess, Stages

\* Moving chunks keeps the stages well typed.
LEMMA MovedType ==
  ASSUME TypeOK, NEW S, NEW s \in Stages
  PROVE  Moved(S, s) \in [Chunks -> Stages]
BY DEF TypeOK, Moved

\* Saved configurations are configurations.
LEMMA ConfigTypes ==
  /\ \A cf \in Configs : Bumped(cf) \in Configs
  /\ \A cf \in Configs : \A S \in SUBSET Chunks : Charged(cf, S) \in Configs
  /\ \A limit \in Nat : NewConfig(limit) \in Configs
<1>1. \A cf \in Configs : Bumped(cf) \in Configs
  BY DEF Configs, Bumped
<1>2. ASSUME NEW cf \in Configs, NEW S \in SUBSET Chunks
      PROVE  Charged(cf, S) \in Configs
  BY ChunkCount DEF Configs, Charged
<1>3. \A limit \in Nat : NewConfig(limit) \in Configs
  BY DEF Configs, NewConfig, NoBill
<1> QED
  BY <1>1, <1>2, <1>3

\* The idle command is well-typed.
LEMMA NoCommandType == NoCommand \in [busy : BOOLEAN, copy : Configs]
<1>1. NewConfig(0) \in Configs
  BY ConfigTypes
<1> QED
  BY <1>1, Zenon DEF NoCommand

\* The initial state is well-typed.
LEMMA InitType == Init => TypeOK
<1> SUFFICES ASSUME Init PROVE TypeOK
  OBVIOUS
<1>1. db \in Configs /\ mem = db /\ NoCommand \in [busy : BOOLEAN, copy : Configs]
  <2>1. PICK limit \in Limits : db = NewConfig(limit)
    BY DEF Init
  <2>2. limit \in Nat
    BY MeteringConstants
  <2> QED
    BY <2>1, <2>2, ConfigTypes, NoCommandType, Zenon DEF Init
<1>2. where \in [Chunks -> Stages]
  BY DEF Init, Stages
<1>3. saving \in BOOLEAN
  BY Zenon DEF Init
<1>4. process \in {"up", "stopping", "down"}
      /\ task \in {"running", "flushing", "last flush", "done"}
      /\ gate \in Nat
  BY DEF Init
<1> QED
  BY <1>1, <1>2, <1>3, <1>4, Zenon DEF Init, TypeOK

\* flush_pending saves a well-typed configuration.
LEMMA FlushedType ==
  ASSUME TypeOK
  PROVE  FlushedConfig \in Configs
BY ConfigTypes, StageSets DEF TypeOK, FlushedConfig, Stages

\* The steps of copy loops and sessions keep the types.
LEMMA LoopTypes ==
  ASSUME TypeOK, NEW c \in Chunks,
         Charge(c) \/ Deliver(c) \/ Send(c) \/ SendToNobody(c) \/ Cut(c) \/ Receive(c)
  PROVE  TypeOK'
<1>1. \/ where' = [where EXCEPT ![c] = "charged"]
      \/ where' = [where EXCEPT ![c] = "written"]
      \/ where' = [where EXCEPT ![c] = "queued"]
      \/ where' = [where EXCEPT ![c] = "pending"]
      \/ where' = [where EXCEPT ![c] = "gone"]
  BY Zenon DEF Charge, Deliver, Send, SendToNobody, Cut, Receive
<1>2. where' \in [Chunks -> Stages]
  BY <1>1 DEF TypeOK, Stages
<1>3. gate' = gate + 1 \/ gate' = gate
  BY DEF Charge, Deliver, Send, SendToNobody, Cut, Receive
<1>5. delivered' = delivered \cup {c} \/ delivered' = delivered
  BY DEF Charge, Deliver, Send, SendToNobody, Cut, Receive, observers
<1>6. excused' = excused \cup {c} \/ excused' = excused
  BY DEF Charge, Deliver, Send, SendToNobody, Cut, Receive, observers
<1>4. UNCHANGED <<process, task, mem, saving, db, command, forgiven, granted>>
  BY DEF Charge, Deliver, Send, SendToNobody, Cut, Receive, observers
<1> QED
  <2>1. gate' \in Nat
    <3>1. gate \in Nat
      BY DEF TypeOK
    <3> QED
      BY <1>3, <3>1
  <2>2. delivered' \subseteq Chunks
    BY <1>5 DEF TypeOK
  <2>3. excused' \subseteq Chunks
    BY <1>6 DEF TypeOK
  <2> QED
    BY <1>2, <1>4, <2>1, <2>2, <2>3 DEF TypeOK

\* The steps of the accounting task keep the types.
LEMMA FlushTypes ==
  ASSUME TypeOK, FlushTick \/ LastFlush \/ Flush
  PROVE  TypeOK'
<1>1. CASE FlushTick \/ LastFlush
  <2>1. Moved(At("queued"), "pending") \in [Chunks -> Stages]
    BY MovedType DEF Stages
  <2> QED
    BY <1>1, <2>1 DEF FlushTick, LastFlush, StartFlush, TypeOK, observers
<1>2. CASE Flush
  <2>1. FlushedConfig \in Configs
    BY FlushedType
  <2>2. \A S : Moved(S, "gone") \in [Chunks -> Stages]
    BY MovedType DEF Stages
  <2>3. AfterFlush \in {"running", "done"}
    BY DEF AfterFlush
  <2>4. Dropped \in SUBSET Chunks
    BY StageSets
  <2> QED
    BY <1>2, <2>1, <2>2, <2>3, <2>4
       DEF Flush, FlushCommit, FlushCommitUnsecured, FlushFail, TypeOK, observers
<1> QED
  BY <1>1, <1>2

\* The steps of the tunnels handler keep the types.
LEMMA HandlerTypes ==
  ASSUME TypeOK,
         \/ SaveTunnels \/ SaveTunnelsUnsecured
         \/ AdoptTunnels \/ RollbackTunnels \/ AbandonTunnels
  PROVE  TypeOK'
<1>1. Bumped(mem) \in Configs /\ Bumped(Bumped(mem)) \in Configs
  BY ConfigTypes DEF TypeOK
<1> QED
  BY <1>1 DEF TypeOK, SaveTunnels, SaveTunnelsUnsecured, AdoptTunnels,
              RollbackTunnels, AbandonTunnels, observers, server

\* What the administrator sets is a configuration with these numbers.
LEMMA SetConfigs ==
  ASSUME NEW cf \in Configs, NEW n \in Nat
  PROVE  /\ WithUsage(cf, n) \in Configs
         /\ Bumped(WithUsage(cf, n)) =
               [revision |-> cf.revision + 1, limit |-> cf.limit, used |-> n, bill |-> NoBill]
         /\ [cf EXCEPT !.limit = n] \in Configs
         /\ Bumped([cf EXCEPT !.limit = n]) =
               [revision |-> cf.revision + 1, limit |-> n, used |-> cf.used, bill |-> cf.bill]
<1>1. /\ cf.revision \in Nat /\ cf.limit \in Nat /\ cf.used \in Nat
      /\ cf.bill \in [Chunks -> Nat] /\ NoBill \in [Chunks -> Nat]
  BY DEF Configs, NoBill
<1>2. WithUsage(cf, n) =
        [revision |-> cf.revision, limit |-> cf.limit, used |-> n, bill |-> NoBill]
  BY DEF WithUsage
<1>3. [cf EXCEPT !.limit = n] =
        [revision |-> cf.revision, limit |-> n, used |-> cf.used, bill |-> cf.bill]
  BY DEF Configs
<1>4. ASSUME NEW revision \in Nat, NEW limit \in Nat, NEW used \in Nat,
             NEW bill \in [Chunks -> Nat]
      PROVE  /\ [revision |-> revision, limit |-> limit, used |-> used, bill |-> bill] \in Configs
             /\ Bumped([revision |-> revision, limit |-> limit, used |-> used, bill |-> bill]) =
                   [revision |-> revision + 1, limit |-> limit, used |-> used, bill |-> bill]
  BY <1>4 DEF Configs, Bumped
<1> QED
  BY <1>1, <1>2, <1>3, <1>4

\* A command's save writes a configuration and ends the command.
LEMMA CommitTypes ==
  ASSUME TypeOK, NEW cf \in Configs, CommandCommits(cf)
  PROVE  /\ db' \in Configs
         /\ command' \in [busy : BOOLEAN, copy : Configs]
BY ConfigTypes, NoCommandType DEF CommandCommits

\* The steps of the administrator's commands keep the types.
LEMMA CommandTypes ==
  ASSUME TypeOK,
         \/ ReadForCommand \/ SaveCommand \/ EndCommand
         \/ \E n \in Usages : SetUsage(n)
         \/ \E n \in Limits : SetLimit(n)
  PROVE  TypeOK'
<1>1. command.copy \in Configs /\ db \in Configs
  BY Zenon DEF TypeOK
<1>2. /\ db' \in Configs
      /\ command' \in [busy : BOOLEAN, copy : Configs]
  <2>1. CASE ReadForCommand \/ EndCommand
    <3>1. [busy |-> TRUE, copy |-> db] \in [busy : BOOLEAN, copy : Configs]
      BY <1>1, Zenon
    <3> QED
      BY <1>1, <2>1, <3>1, NoCommandType DEF ReadForCommand, EndCommand
  <2>2. CASE SaveCommand
    BY <1>1, <2>2, CommitTypes DEF SaveCommand
  <2>3. ASSUME NEW n \in Usages, SetUsage(n)
        PROVE  db' \in Configs /\ command' \in [busy : BOOLEAN, copy : Configs]
    <3>1. WithUsage(command.copy, n) \in Configs
      BY <1>1, SetConfigs, MeteringConstants
    <3> QED
      BY <2>3, <3>1, CommitTypes DEF SetUsage
  <2>4. ASSUME NEW n \in Limits, SetLimit(n)
        PROVE  db' \in Configs /\ command' \in [busy : BOOLEAN, copy : Configs]
    <3>1. [command.copy EXCEPT !.limit = n] \in Configs
      BY <1>1, SetConfigs, MeteringConstants
    <3> QED
      BY <2>4, <3>1, CommitTypes DEF SetLimit
  <2> QED
    BY <2>1, <2>2, <2>3, <2>4
<1>3. forgiven' \subseteq Chunks /\ granted' \in Nat
  <2>1. forgiven \subseteq Chunks /\ granted \in Nat
    BY DEF TypeOK
  <2>2. command.copy.used \in Nat
    BY <1>1 DEF Configs
  <2> QED
    BY <2>1, <2>2, MeteringConstants
       DEF ReadForCommand, SetUsage, SetLimit, SaveCommand, EndCommand, observers
<1>4. UNCHANGED <<server, delivered, excused>>
  BY DEF ReadForCommand, SetUsage, SetLimit, SaveCommand, EndCommand, CommandCommits, observers
<1> QED
  BY <1>2, <1>3, <1>4 DEF TypeOK, server

\* Stop, exit, crash and start keep the types.
LEMMA ProcessTypes ==
  ASSUME TypeOK, Stop \/ Exit \/ Crash \/ Start
  PROVE  TypeOK'
<1>1. Moved(InProcess, "gone") \in [Chunks -> Stages]
  BY MovedType DEF Stages
<1>2. InProcess \subseteq Chunks
  BY StageSets
<1>3. db.used \in Nat
  BY DEF TypeOK, Configs
<1>4. CASE Stop
  BY <1>4 DEF Stop, TypeOK, observers
<1>5. CASE Exit \/ Crash
  <2>1. saving' \in BOOLEAN
    BY <1>5, Zenon DEF Exit, Crash, End
  <2>2. End
    BY <1>5 DEF Exit, Crash
  <2>3. process' = "down" /\ task' = "done" /\ gate' = 0
        /\ excused' \subseteq Chunks
        /\ UNCHANGED <<mem, db, command, delivered, forgiven, granted>>
    BY <1>2, <2>2 DEF End, TypeOK
  <2>4. where' \in [Chunks -> Stages]
    BY <1>1, <2>2, Zenon DEF End
  <2> QED
    BY <2>1, <2>3, <2>4 DEF TypeOK
<1>6. CASE Start
  BY <1>3, <1>6 DEF Start, TypeOK, observers
<1> QED
  BY <1>4, <1>5, <1>6

\* Every step keeps the types.
LEMMA NextType ==
  ASSUME TypeOK, [Next]_vars
  PROVE  TypeOK'
<1>1. CASE UNCHANGED vars
  BY <1>1 DEF vars, server, observers, TypeOK
<1> QED
  BY <1>1, LoopTypes, FlushTypes, HandlerTypes, CommandTypes, ProcessTypes
     DEF Next

\* The state keeps its types through every step (controller.rs flush_pending,
\* storage.rs save, app.rs command_serve).
THEOREM MeteringTypeCorrect == Spec => []TypeOK
BY InitType, NextType, PTL DEF Spec

-----------------------------------------------------------------------------
\* The numbers and bills of the three copies.
LEMMA Numbers ==
  ASSUME TypeOK
  PROVE  /\ mem.revision \in Nat /\ db.revision \in Nat
         /\ command.copy.revision \in Nat
         /\ mem.bill \in [Chunks -> Nat] /\ db.bill \in [Chunks -> Nat]
         /\ Held \in Nat
         /\ Held = mem.revision \/ Held = mem.revision + 1
<1>1. mem \in Configs /\ db \in Configs
  BY DEF TypeOK
<1>2. command.copy \in Configs
  BY Zenon DEF TypeOK
<1>3. /\ mem.revision \in Nat /\ db.revision \in Nat
      /\ mem.bill \in [Chunks -> Nat] /\ db.bill \in [Chunks -> Nat]
  BY <1>1 DEF Configs
<1>4. command.copy.revision \in Nat
  BY <1>2 DEF Configs
<1>5. Held = mem.revision \/ Held = mem.revision + 1
  BY <1>3 DEF Held
<1> QED
  BY <1>3, <1>4, <1>5

\* A fresh database bills nothing.
LEMMA InitBooks == Init => MeteringInv
<1> SUFFICES ASSUME Init PROVE MeteringInv
  OBVIOUS
<1>1. TypeOK
  BY InitType
<1>2. Empty
  BY DEF Init, Empty
<1>3. Coherent
  <2>1. ~saving /\ mem = db /\ ~command.busy
    BY DEF Init, NoCommand
  <2>2. Held = db.revision /\ db.revision \in Nat
    BY <1>1, <2>1, Numbers DEF Held
  <2> QED
    BY <2>1, <2>2 DEF Coherent, SameUsage
<1>4. Books
  BY DEF Init, Books, Book, NewConfig, NoBill
<1> QED
  BY <1>1, <1>2, <1>3, <1>4 DEF MeteringInv

\* Steps that leave the configurations alone keep them coherent.
LEMMA CoherentUntouched ==
  ASSUME Coherent, UNCHANGED <<process, mem, db, saving, command>>
  PROVE  Coherent'
BY DEF Coherent, Held, SameUsage

\* A copy loop moves a chunk on without touching a bill: the event follows the
\* write, and what is cut off is excused.
LEMMA LoopBooks ==
  ASSUME MeteringInv, NEW c \in Chunks,
         Charge(c) \/ Deliver(c) \/ Send(c) \/ SendToNobody(c) \/ Cut(c) \/ Receive(c)
  PROVE  Empty' /\ Coherent' /\ Books'
<1>1. UNCHANGED <<process, task, mem, saving, db, command, forgiven>>
  BY DEF Charge, Deliver, Send, SendToNobody, Cut, Receive, observers
<1>2. Coherent'
  BY <1>1, CoherentUntouched DEF MeteringInv
<1>3. process # "down"
  BY DEF Charge, Deliver, Send, SendToNobody, Cut, Receive, MeteringInv, Empty,
         InProcess, At
<1>4. where \in [Chunks -> Stages]
  BY DEF MeteringInv, TypeOK
<1>5. Held' = Held
  BY <1>1 DEF Held
<1>6. ASSUME NEW d \in Chunks
      PROVE  Book(d)'
  <2>1. Book(d)
    BY DEF MeteringInv, Books
  <2>2. CASE Charge(c)
    BY <1>1, <1>4, <1>5, <2>1, <2>2 DEF Charge, Book, observers
  <2>3. CASE Deliver(c)
    BY <1>1, <1>4, <1>5, <2>1, <2>3 DEF Deliver, Book
  <2>4. CASE Send(c)
    BY <1>1, <1>4, <1>5, <2>1, <2>4 DEF Send, Book, observers
  <2>5. CASE SendToNobody(c)
    BY <1>1, <1>4, <1>5, <2>1, <2>5 DEF SendToNobody, Book
  <2>6. CASE Cut(c)
    BY <1>1, <1>4, <1>5, <2>1, <2>6 DEF Cut, Book
  <2>7. CASE Receive(c)
    BY <1>1, <1>4, <1>5, <2>1, <2>7 DEF Receive, Book, observers
  <2> QED
    BY <2>2, <2>3, <2>4, <2>5, <2>6, <2>7
<1> QED
  BY <1>1, <1>2, <1>3, <1>6 DEF Empty, Books

\* drain_events turns queued chunks into pending ones.
LEMMA StartFlushBooks ==
  ASSUME MeteringInv, FlushTick \/ LastFlush
  PROVE  Empty' /\ Coherent' /\ Books'
<1>1. /\ UNCHANGED <<process, mem, saving, db, command, delivered, excused, forgiven, granted>>
      /\ process # "down"
      /\ where' = Moved(At("queued"), "pending")
  BY DEF FlushTick, LastFlush, StartFlush, observers
<1>2. Coherent' /\ Held' = Held
  BY <1>1, CoherentUntouched DEF MeteringInv, Held
<1>3. where \in [Chunks -> Stages]
  BY DEF MeteringInv, TypeOK
<1>4. ASSUME NEW d \in Chunks
      PROVE  Book(d)'
  <2>1. Book(d)
    BY DEF MeteringInv, Books
  <2>2. where'[d] = where[d] \/ (where[d] = "queued" /\ where'[d] = "pending")
    BY <1>1 DEF Moved, At
  <2> QED
    BY <1>1, <1>2, <2>1, <2>2 DEF Book
<1> QED
  BY <1>1, <1>2, <1>4 DEF Empty, Books

\* What a flush writes, chunk by chunk.
LEMMA FlushedBill ==
  ASSUME TypeOK
  PROVE  /\ FlushedConfig.revision = mem.revision + 1
         /\ \A d \in Chunks : FlushedConfig.bill[d] =
                IF where[d] = "pending" THEN mem.bill[d] + 1 ELSE mem.bill[d]
BY DEF FlushedConfig, Charged, At

\* A flush that commits bills each pending chunk once, in the database and in
\* memory, and lets go of it.
LEMMA FlushCommitBooks ==
  ASSUME MeteringInv, FlushCommit
  PROVE  Empty' /\ Coherent' /\ Books'
<1>1. /\ UNCHANGED <<process, saving, command, delivered, excused, forgiven, granted>>
      /\ ~saving /\ process # "down"
      /\ db.revision = mem.revision
      /\ db' = FlushedConfig /\ mem' = FlushedConfig
      /\ where' = Moved(At("pending"), "gone")
  BY DEF FlushCommit, Flushing, MeteringInv, Empty, observers
<1>2. /\ mem.revision \in Nat /\ command.copy.revision \in Nat
      /\ mem.bill \in [Chunks -> Nat]
  BY Numbers DEF MeteringInv
<1>3. /\ db'.revision = mem.revision + 1 /\ mem'.revision = mem.revision + 1
      /\ Held = db.revision /\ Held' = db'.revision
  BY <1>1, <1>2, FlushedBill DEF MeteringInv, Held
<1>4. mem.bill = db.bill
  BY <1>1, <1>3 DEF MeteringInv, Coherent, SameUsage
<1>5. Coherent'
  BY <1>1, <1>2, <1>3 DEF MeteringInv, Coherent, SameUsage
<1>6. ASSUME NEW d \in Chunks
      PROVE  Book(d)'
  <2>1. Book(d)
    BY DEF MeteringInv, Books
  <2>2. mem'.bill[d] = IF where[d] = "pending" THEN mem.bill[d] + 1 ELSE mem.bill[d]
    BY <1>1, FlushedBill DEF MeteringInv
  <2>3. where'[d] = IF where[d] = "pending" THEN "gone" ELSE where[d]
    BY <1>1 DEF Moved, At
  <2>4. mem.bill[d] \in Nat /\ mem'.bill = db'.bill
    BY <1>1, <1>2
  <2>5. CASE where[d] = "pending"
    <3>1. mem.bill[d] = 0 /\ d \in delivered
      BY <1>1, <2>1, <2>5 DEF Book
    <3>2. db'.bill[d] = 1 /\ mem'.bill[d] = 1
      BY <2>2, <2>4, <2>5, <3>1
    <3>3. d \notin forgiven
      BY <1>1, <1>2, <1>3, <2>1, <2>5 DEF Book
    <3>4. where'[d] = "gone"
      BY <2>3, <2>5
    <3> QED
      BY <1>1, <3>1, <3>2, <3>3, <3>4 DEF Book
  <2>6. CASE where[d] # "pending"
    BY <1>1, <1>2, <1>3, <1>4, <2>1, <2>2, <2>3, <2>4, <2>6 DEF Book
  <2> QED
    BY <2>5, <2>6
<1> QED
  BY <1>1, <1>5, <1>6 DEF Empty, Books

\* A flush that commits and then fails bills the pending chunks in the database
\* only; memory is behind from then on.
LEMMA FlushCommitUnsecuredBooks ==
  ASSUME MeteringInv, FlushCommitUnsecured
  PROVE  Empty' /\ Coherent' /\ Books'
<1>1. /\ UNCHANGED <<process, mem, saving, command, delivered, excused, forgiven, granted>>
      /\ ~saving /\ process # "down"
      /\ db.revision = mem.revision
      /\ db' = FlushedConfig
      /\ where' = Moved(Dropped, "gone")
  BY DEF FlushCommitUnsecured, Flushing, MeteringInv, Empty, observers
<1>2. /\ mem.revision \in Nat /\ command.copy.revision \in Nat
      /\ mem.bill \in [Chunks -> Nat]
  BY Numbers DEF MeteringInv
<1>3. /\ db'.revision = mem.revision + 1
      /\ Held = db.revision /\ Held' = Held /\ Held = mem.revision
  BY <1>1, <1>2, FlushedBill DEF MeteringInv, Held
<1>4. mem.bill = db.bill
  BY <1>1, <1>3 DEF MeteringInv, Coherent, SameUsage
<1>5. Coherent'
  BY <1>1, <1>2, <1>3 DEF MeteringInv, Coherent, SameUsage
<1>6. ASSUME NEW d \in Chunks
      PROVE  Book(d)'
  <2>1. Book(d)
    BY DEF MeteringInv, Books
  <2>2. db'.bill[d] = IF where[d] = "pending" THEN mem.bill[d] + 1 ELSE mem.bill[d]
    BY <1>1, FlushedBill DEF MeteringInv
  <2>3. where'[d] = where[d] \/ (where[d] = "pending" /\ where'[d] = "gone")
    BY <1>1 DEF Moved, At, Dropped
  <2>4. mem.bill[d] \in Nat /\ mem'.bill = mem.bill
    BY <1>1, <1>2
  <2>5. CASE where[d] = "pending"
    <3>1. mem.bill[d] = 0 /\ d \in delivered
      BY <1>1, <2>1, <2>5 DEF Book
    <3>2. db'.bill[d] = 1
      BY <2>2, <2>5, <3>1
    <3>3. d \notin forgiven
      BY <1>1, <1>2, <1>3, <2>1, <2>5 DEF Book
    <3>4. mem'.bill[d] = 0 /\ where'[d] \in {"pending", "gone"}
      BY <2>3, <2>4, <2>5, <3>1
    <3> QED
      BY <1>1, <3>1, <3>2, <3>3, <3>4 DEF Book
  <2>6. CASE where[d] # "pending"
    BY <1>1, <1>2, <1>3, <1>4, <2>1, <2>2, <2>3, <2>4, <2>6 DEF Book
  <2> QED
    BY <2>5, <2>6
<1> QED
  BY <1>1, <1>5, <1>6 DEF Empty, Books

\* A flush that fails keeps its chunks, but for the last one, which excuses them.
LEMMA FlushFailBooks ==
  ASSUME MeteringInv, FlushFail
  PROVE  Empty' /\ Coherent' /\ Books'
<1>1. /\ UNCHANGED <<process, mem, saving, db, command, delivered, forgiven, granted>>
      /\ process # "down"
      /\ excused' = excused \cup Dropped
      /\ where' = Moved(Dropped, "gone")
  BY DEF FlushFail, Flushing, MeteringInv, Empty
<1>2. Coherent' /\ Held' = Held
  BY <1>1, CoherentUntouched DEF MeteringInv, Held
<1>3. ASSUME NEW d \in Chunks
      PROVE  Book(d)'
  <2>1. Book(d)
    BY DEF MeteringInv, Books
  <2>2. where'[d] = where[d] \/ (d \in Dropped /\ where'[d] = "gone")
    BY <1>1 DEF Moved
  <2> QED
    BY <1>1, <1>2, <2>1, <2>2 DEF Book
<1> QED
  BY <1>1, <1>2, <1>3 DEF Empty, Books

\* A commit of a copy whose usage is the recorded one.
LEMMA SameUsageBooks ==
  ASSUME MeteringInv, SameUsage(db', db),
         process # "down" => SameUsage(mem', mem),
         UNCHANGED <<process, where, delivered, excused, forgiven, granted>>,
         process # "down" /\ Held < db.revision => (Held < db.revision)'
  PROVE  Books'
<1>1. ASSUME NEW d \in Chunks
      PROVE  Book(d)'
  <2>1. Book(d)
    BY DEF MeteringInv, Books
  <2> QED
    BY <2>1 DEF Book, SameUsage
<1> QED
  BY <1>1 DEF Books

\* A save of other fields leaves the usage as it is.
LEMMA BumpedUsage ==
  ASSUME NEW cf \in Configs
  PROVE  /\ Bumped(cf).revision = cf.revision + 1
         /\ SameUsage(Bumped(cf), cf)
BY DEF Configs, Bumped, SameUsage

\* Whatever becomes of its plan, the tunnels handler leaves the usage as it is.
LEMMA HandlerBooks ==
  ASSUME MeteringInv,
         \/ SaveTunnels \/ SaveTunnelsUnsecured
         \/ AdoptTunnels \/ RollbackTunnels \/ AbandonTunnels
  PROVE  Empty' /\ Coherent' /\ Books'
<1>1. /\ UNCHANGED <<process, task, where, command, delivered, excused, forgiven, granted>>
      /\ process # "down"
  BY DEF SaveTunnels, SaveTunnelsUnsecured, AdoptTunnels, RollbackTunnels,
         AbandonTunnels, MeteringInv, Empty, observers, server
<1>2. /\ mem.revision \in Nat /\ db.revision \in Nat
      /\ command.copy.revision \in Nat
      /\ mem \in Configs /\ Bumped(mem) \in Configs
  BY Numbers, ConfigTypes DEF MeteringInv, TypeOK
<1>3. /\ Bumped(mem).revision = mem.revision + 1
      /\ SameUsage(Bumped(mem), mem)
      /\ Bumped(Bumped(mem)).revision = mem.revision + 2
      /\ SameUsage(Bumped(Bumped(mem)), mem)
  <2>1. /\ Bumped(mem).revision = mem.revision + 1
        /\ SameUsage(Bumped(mem), mem)
    BY <1>2, BumpedUsage
  <2>2. /\ Bumped(Bumped(mem)).revision = Bumped(mem).revision + 1
        /\ SameUsage(Bumped(Bumped(mem)), Bumped(mem))
    BY <1>2, BumpedUsage
  <2> QED
    BY <1>2, <2>1, <2>2 DEF SameUsage
<1>4. CASE SaveTunnels \/ SaveTunnelsUnsecured
  <2>1. /\ ~saving /\ db.revision = mem.revision /\ mem' = mem
        /\ db' = Bumped(mem)
        /\ saving' \/ saving' = saving
    BY <1>4 DEF SaveTunnels, SaveTunnelsUnsecured, server
  <2>2. SameUsage(mem, db)
    BY <1>1, <1>2, <2>1 DEF MeteringInv, Coherent, Held
  <2>3. SameUsage(db', db) /\ SameUsage(mem', mem) /\ SameUsage(mem', db')
        /\ db'.revision = mem.revision + 1
    BY <1>3, <2>1, <2>2 DEF SameUsage
  <2>4. Coherent'
    BY <1>1, <1>2, <2>1, <2>3 DEF MeteringInv, Coherent, Held, SameUsage
  <2>5. Books'
    <3>1. ~(Held < db.revision)
      BY <1>2, <2>1 DEF Held
    <3> QED
      BY <1>1, <2>3, <3>1, SameUsageBooks
  <2> QED
    BY <1>1, <2>4, <2>5 DEF Empty
<1>5. CASE AdoptTunnels
  <2>1. saving /\ ~saving' /\ mem' = Bumped(mem) /\ db' = db
    BY <1>5 DEF AdoptTunnels
  <2>2. Held' = Held
    BY <1>2, <1>3, <2>1 DEF Held
  <2>3. SameUsage(db', db) /\ SameUsage(mem', mem)
    BY <1>3, <2>1 DEF SameUsage
  <2>4. Coherent'
    BY <1>1, <2>1, <2>2, <2>3 DEF MeteringInv, Coherent, SameUsage
  <2>5. Books'
    BY <1>1, <2>1, <2>2, <2>3, SameUsageBooks
  <2> QED
    BY <1>1, <2>4, <2>5 DEF Empty
<1>6. CASE RollbackTunnels
  <2>1. saving /\ ~saving' /\ db.revision = mem.revision + 1
        /\ db' = Bumped(Bumped(mem)) /\ mem' = db'
    BY <1>6 DEF RollbackTunnels
  <2>2. SameUsage(mem, db)
    BY <1>1, <1>2, <2>1 DEF MeteringInv, Coherent, Held
  <2>3. SameUsage(db', db) /\ SameUsage(mem', mem)
        /\ db'.revision = db.revision + 1 /\ Held' = db'.revision
    BY <1>2, <1>3, <2>1, <2>2 DEF SameUsage, Held
  <2>4. Coherent'
    BY <1>1, <1>2, <2>1, <2>3 DEF MeteringInv, Coherent, SameUsage
  <2>5. Books'
    <3>1. ~(Held < db.revision)
      BY <1>2, <2>1 DEF Held
    <3> QED
      BY <1>1, <2>3, <3>1, SameUsageBooks
  <2> QED
    BY <1>1, <2>1, <2>4, <2>5 DEF Empty
<1>7. CASE AbandonTunnels
  <2>1. saving /\ ~saving' /\ mem' = mem
        /\ \/ db' = db
           \/ db.revision = mem.revision + 1 /\ db' = Bumped(Bumped(mem))
    BY <1>7 DEF AbandonTunnels
  <2>2. mem.revision + 1 <= db.revision
    BY <1>1, <2>1 DEF MeteringInv, Coherent, Held
  <2>3. db.revision = mem.revision + 1 => SameUsage(mem, db)
    BY <1>1, <2>1 DEF MeteringInv, Coherent, Held
  <2>4. SameUsage(db', db) /\ SameUsage(mem', mem)
        /\ (db' = db \/ db'.revision = db.revision + 1)
    BY <1>2, <1>3, <2>1, <2>3 DEF SameUsage
  <2>5. Held' = mem.revision /\ Held' < db'.revision
    BY <1>2, <2>1, <2>2, <2>4 DEF Held
  <2>6. Coherent'
    BY <1>1, <1>2, <2>1, <2>4, <2>5 DEF MeteringInv, Coherent, SameUsage
  <2>7. Books'
    BY <1>1, <2>4, <2>5, SameUsageBooks
  <2> QED
    BY <1>1, <2>1, <2>6, <2>7 DEF Empty
<1> QED
  BY <1>4, <1>5, <1>6, <1>7

\* Setting the usage forgives what is charged and leaves memory behind.
LEMMA SetUsageBooks ==
  ASSUME MeteringInv, NEW n \in Usages, SetUsage(n)
  PROVE  Empty' /\ Coherent' /\ Books'
<1>1. command.copy \in Configs /\ n \in Nat
  BY MeteringConstants, Zenon DEF MeteringInv, TypeOK
<1>2. /\ UNCHANGED <<process, task, where, mem, saving, delivered, excused>>
      /\ ~command'.busy
      /\ forgiven' = Chunks \ At("unread")
      /\ db' = [revision |-> db.revision + 1, limit |-> command.copy.limit,
                used |-> n, bill |-> NoBill]
  BY <1>1, SetConfigs DEF SetUsage, CommandCommits, NoCommand, server
<1>3. mem.revision \in Nat /\ db.revision \in Nat /\ Held \in Nat
  BY Numbers DEF MeteringInv
<1>4. process # "down" => Held' < db'.revision
  BY <1>2, <1>3 DEF MeteringInv, Coherent, Held
<1>5. Coherent'
  <2>1. db'.revision = db.revision + 1 /\ Held' = Held
    BY <1>2 DEF Held
  <2> QED
    BY <1>2, <1>3, <1>4, <2>1 DEF Coherent
<1>6. Empty'
  BY <1>2 DEF MeteringInv, Empty, InProcess, At
<1>7. ASSUME NEW d \in Chunks
      PROVE  Book(d)'
  <2>1. Book(d)
    BY DEF MeteringInv, Books
  <2>2. db'.bill[d] = 0
    BY <1>2 DEF NoBill
  <2>3. d \in forgiven' <=> where[d] # "unread"
    BY <1>2 DEF At
  <2>4. mem'.bill[d] = mem.bill[d] /\ where'[d] = where[d]
    BY <1>2
  <2> QED
    BY <1>2, <1>4, <2>1, <2>2, <2>3, <2>4 DEF Book
<1> QED
  BY <1>5, <1>6, <1>7 DEF Books

\* Setting the limit leaves the usage as it is and memory behind.
LEMMA SetLimitBooks ==
  ASSUME MeteringInv, NEW n \in Limits, SetLimit(n)
  PROVE  Empty' /\ Coherent' /\ Books'
<1>1. command.copy \in Configs /\ n \in Nat
  BY MeteringConstants, Zenon DEF MeteringInv, TypeOK
<1>2. /\ UNCHANGED <<process, task, where, mem, saving, delivered, excused, forgiven>>
      /\ ~command'.busy /\ command.busy
      /\ db.revision = command.copy.revision
      /\ db' = [revision |-> db.revision + 1, limit |-> n,
                used |-> command.copy.used, bill |-> command.copy.bill]
  BY <1>1, SetConfigs DEF SetLimit, CommandCommits, NoCommand, server
<1>3. mem.revision \in Nat /\ db.revision \in Nat /\ Held \in Nat
  BY Numbers DEF MeteringInv
<1>4. process # "down" => Held' < db'.revision
  BY <1>2, <1>3 DEF MeteringInv, Coherent, Held
<1>5. db'.bill = db.bill /\ db'.revision = db.revision + 1 /\ Held' = Held
  BY <1>2 DEF MeteringInv, Coherent, SameUsage, Held
<1>6. Coherent'
  BY <1>2, <1>3, <1>4, <1>5 DEF Coherent
<1>7. Empty'
  BY <1>2 DEF MeteringInv, Empty, InProcess, At
<1>8. ASSUME NEW d \in Chunks
      PROVE  Book(d)'
  <2>1. Book(d)
    BY DEF MeteringInv, Books
  <2> QED
    BY <1>2, <1>4, <1>5, <2>1 DEF Book
<1> QED
  BY <1>6, <1>7, <1>8 DEF Books

\* A command that sets another field leaves the usage as it is.
LEMMA SaveCommandBooks ==
  ASSUME MeteringInv, SaveCommand
  PROVE  Empty' /\ Coherent' /\ Books'
<1>1. /\ UNCHANGED <<process, task, where, mem, saving, delivered, excused, forgiven, granted>>
      /\ ~command'.busy /\ command.busy
      /\ db.revision = command.copy.revision
      /\ db' = Bumped(command.copy)
  BY DEF SaveCommand, CommandCommits, NoCommand, server
<1>2. /\ mem.revision \in Nat /\ db.revision \in Nat /\ Held \in Nat
      /\ command.copy \in Configs
  <2>1. command.copy \in Configs
    BY Zenon DEF MeteringInv, TypeOK
  <2> QED
    BY <2>1, Numbers DEF MeteringInv
<1>3. SameUsage(db', db) /\ db'.revision = db.revision + 1
  BY <1>1, <1>2, BumpedUsage DEF MeteringInv, Coherent, SameUsage
<1>4. Held' = Held
  BY <1>1 DEF Held
<1>5. Coherent'
  BY <1>1, <1>2, <1>3, <1>4 DEF MeteringInv, Coherent
<1>6. Books'
  <2>1. SameUsage(mem', mem)
    BY <1>1 DEF SameUsage
  <2>2. Held < db.revision => Held' < db'.revision
    BY <1>2, <1>3, <1>4
  <2> QED
    BY <1>1, <1>3, <2>1, <2>2, SameUsageBooks
<1> QED
  BY <1>1, <1>5, <1>6 DEF MeteringInv, Empty, InProcess, At

\* A command reads what is recorded.
LEMMA ReadCommandBooks ==
  ASSUME MeteringInv, ReadForCommand \/ EndCommand
  PROVE  Empty' /\ Coherent' /\ Books'
<1>1. /\ UNCHANGED <<process, task, where, mem, db, saving, delivered, excused, forgiven, granted>>
      /\ ~command'.busy \/ command'.copy = db
  BY DEF ReadForCommand, EndCommand, NoCommand, server, observers
<1>2. db.revision \in Nat
  BY Numbers DEF MeteringInv
<1>3. Coherent'
  BY <1>1, <1>2 DEF MeteringInv, Coherent, Held, SameUsage
<1> QED
  BY <1>1, <1>3 DEF MeteringInv, Empty, InProcess, At, Books, Book, Held

\* A signal changes no bill.
LEMMA StopBooks ==
  ASSUME MeteringInv, Stop
  PROVE  Empty' /\ Coherent' /\ Books'
<1>1. /\ UNCHANGED <<task, where, mem, db, saving, command, delivered, excused, forgiven, granted>>
      /\ process # "down" /\ process' # "down"
  BY DEF Stop, observers
<1> QED
  BY <1>1 DEF MeteringInv, Empty, Coherent, SameUsage, Books, Book, Held

\* What the process still holds is excused when it ends.
LEMMA EndBooks ==
  ASSUME MeteringInv, Exit \/ Crash
  PROVE  Empty' /\ Coherent' /\ Books'
<1>1. /\ process' = "down" /\ task' = "done" /\ ~saving'
      /\ where' = Moved(InProcess, "gone")
      /\ excused' = excused \cup InProcess
      /\ UNCHANGED <<mem, db, command, delivered, forgiven, granted>>
  BY DEF Exit, Crash, End
<1>2. \A d \in Chunks : where'[d] = IF d \in InProcess THEN "gone" ELSE where[d]
  BY <1>1 DEF Moved
<1>3. Empty'
  BY <1>1, <1>2 DEF Empty, InProcess, At
<1>4. Coherent'
  BY <1>1 DEF MeteringInv, Coherent, SameUsage
<1>5. ASSUME NEW d \in Chunks
      PROVE  Book(d)'
  <2>1. Book(d)
    BY DEF MeteringInv, Books
  <2> QED
    BY <1>1, <1>2, <2>1 DEF Book
<1> QED
  BY <1>3, <1>4, <1>5 DEF Books

\* A process starts from the recorded bill with nothing under way.
LEMMA StartBooks ==
  ASSUME MeteringInv, Start
  PROVE  Empty' /\ Coherent' /\ Books'
<1>1. /\ process = "down" /\ process' # "down" /\ ~saving'
      /\ mem' = db
      /\ UNCHANGED <<where, db, command, delivered, excused, forgiven, granted>>
  BY DEF Start, MeteringInv, Empty, observers
<1>2. db.revision \in Nat
  BY Numbers DEF MeteringInv
<1>3. Held' = db.revision
  BY <1>1, <1>2 DEF Held
<1>4. Coherent'
  BY <1>1, <1>2, <1>3 DEF MeteringInv, Coherent, SameUsage
<1>5. ASSUME NEW d \in Chunks
      PROVE  Book(d)'
  <2>1. Book(d) /\ db.bill[d] \in Nat
    BY Numbers DEF MeteringInv, Books
  <2>2. where[d] \in {"unread", "gone"}
    BY <1>1 DEF MeteringInv, Empty, InProcess, At
  <2> QED
    BY <1>1, <2>1, <2>2 DEF Book
<1> QED
  BY <1>1, <1>4, <1>5 DEF Empty, Books

\* Every step keeps the invariant.
LEMMA NextBooks ==
  ASSUME MeteringInv, [Next]_vars
  PROVE  MeteringInv'
<1>1. TypeOK'
  BY NextType DEF MeteringInv
<1>2. CASE UNCHANGED vars
  <2>1. UNCHANGED <<process, task, where, mem, db, saving, command,
                    delivered, excused, forgiven, granted>>
    BY <1>2 DEF vars, server, observers
  <2> QED
    BY <1>1, <2>1 DEF MeteringInv, Empty, InProcess, At, Coherent, SameUsage,
                      Books, Book, Held
<1>3. CASE Next
  BY <1>1, <1>3, LoopBooks, StartFlushBooks, FlushCommitBooks,
     FlushCommitUnsecuredBooks, FlushFailBooks, HandlerBooks, SetUsageBooks,
     SetLimitBooks, SaveCommandBooks, ReadCommandBooks, StopBooks, EndBooks, StartBooks
     DEF Next, Flush, MeteringInv
<1> QED
  BY <1>2, <1>3

\* The inductive invariant: the books of every chunk, and coherent copies.
THEOREM MeteringInvariant == Spec => []MeteringInv
BY InitBooks, NextBooks, PTL DEF Spec

\* No chunk is billed twice, though a flush may fail after its commit and its
\* events stay pending (controller.rs flush_pending, storage.rs save).
THEOREM NoDoubleBillingTheorem == Spec => []NoDoubleBilling
<1>1. MeteringInv => NoDoubleBilling
  BY DEF MeteringInv, Books, Book, NoDoubleBilling
<1> QED
  BY <1>1, MeteringInvariant, PTL

\* Only forwarded traffic is billed (controller.rs copy_limited).
THEOREM OnlyDeliveredTheorem == Spec => []OnlyDeliveredBilled
<1>1. MeteringInv => OnlyDeliveredBilled
  BY DEF MeteringInv, Books, Book, OnlyDeliveredBilled
<1> QED
  BY <1>1, MeteringInvariant, PTL

\* Traffic from before the usage was set never returns to the bill
\* (app.rs command_set_traffic_used, storage.rs save).
THEOREM ResetSticksTheorem == Spec => []ResetSticks
<1>1. MeteringInv => ResetSticks
  BY DEF MeteringInv, TypeOK, Books, Book, ResetSticks
<1> QED
  BY <1>1, MeteringInvariant, PTL

\* Forwarded traffic the process is done with is billed, or has one of the
\* named excuses (controller.rs spawn_accounting_task).
THEOREM NothingForgottenTheorem == Spec => []NothingForgotten
<1>1. MeteringInv => NothingForgotten
  BY DEF MeteringInv, TypeOK, Books, Book, NothingForgotten
<1> QED
  BY <1>1, MeteringInvariant, PTL

-----------------------------------------------------------------------------
(* The quota.  What the gate has charged since the start covers what memory *)
(* records and what is on its way there; while anything is on its way the   *)
(* gate is within the limit it started with; and the record is within its   *)
(* limit or where the administrator left it.                                *)

Within(config) == config.limit # 0 => config.used <= config.limit \/ config.used <= granted

GateCovers ==
    process # "down" =>
        /\ mem.used + Cardinality(InProcess) <= gate
        /\ mem.limit # 0 /\ InProcess # {} => gate <= mem.limit

QuotaInv == GateCovers /\ Within(db)

\* The counts are natural numbers.
LEMMA QuotaTypes ==
  ASSUME TypeOK
  PROVE  /\ Cardinality(InProcess) \in Nat /\ IsFiniteSet(InProcess)
         /\ Cardinality(At("pending")) \in Nat
         /\ mem.used \in Nat /\ db.used \in Nat /\ command.copy.used \in Nat /\ gate \in Nat
         /\ mem.limit \in Nat /\ db.limit \in Nat /\ granted \in Nat
<1>1. At("pending") \in SUBSET Chunks /\ InProcess \in SUBSET Chunks
  BY StageSets DEF Stages
<1>2. command.copy \in Configs /\ mem \in Configs /\ db \in Configs
  BY Zenon DEF TypeOK
<1>3. /\ mem.used \in Nat /\ db.used \in Nat /\ command.copy.used \in Nat
      /\ mem.limit \in Nat /\ db.limit \in Nat
  BY <1>2 DEF Configs
<1> QED
  BY <1>1, <1>3, ChunkCount DEF TypeOK

\* A process that holds no more than before, at an unchanged gate, is covered.
LEMMA StillCovered ==
  ASSUME TypeOK, GateCovers, InProcess' \subseteq InProcess,
         UNCHANGED <<process, gate>>,
         mem'.used = mem.used, mem'.limit = mem.limit
  PROVE  GateCovers'
<1>1. Cardinality(InProcess') \in Nat /\ Cardinality(InProcess') <= Cardinality(InProcess)
  BY QuotaTypes, FS_Subset, FS_CardinalityType
<1>2. InProcess' # {} => InProcess # {}
  OBVIOUS
<1> QED
  BY <1>1, <1>2, QuotaTypes DEF GateCovers

\* What is flushed is within the limit, for the gate covers it.
LEMMA FlushedWithin ==
  ASSUME MeteringInv, QuotaInv, process # "down", ~saving, db.revision = mem.revision
  PROVE  Within(FlushedConfig)
<1>1. TypeOK
  BY DEF MeteringInv
<1>2. mem.used = db.used /\ mem.limit = db.limit
  <2>1. Held = db.revision
    BY <1>1, Numbers DEF Held
  <2> QED
    BY <2>1 DEF MeteringInv, Coherent, SameUsage
<1>3. /\ FlushedConfig.used = mem.used + Cardinality(At("pending"))
      /\ FlushedConfig.limit = mem.limit
  BY DEF FlushedConfig, Charged
<1>4. CASE At("pending") = {}
  <2>1. FlushedConfig.used = db.used
    BY <1>1, <1>2, <1>3, <1>4, QuotaTypes, FS_EmptySet
  <2> QED
    BY <1>2, <1>3, <2>1 DEF QuotaInv, Within
<1>5. CASE At("pending") # {}
  <2>1. At("pending") \subseteq InProcess /\ InProcess # {}
    BY <1>5 DEF At, InProcess
  <2>2. Cardinality(At("pending")) <= Cardinality(InProcess)
    BY <1>1, <2>1, QuotaTypes, FS_Subset
  <2>3. mem.limit # 0 => mem.used + Cardinality(InProcess) <= gate /\ gate <= mem.limit
    BY <2>1 DEF QuotaInv, GateCovers
  <2>4. mem.limit # 0 => mem.used + Cardinality(At("pending")) <= mem.limit
    BY <1>1, <2>2, <2>3, QuotaTypes
  <2> QED
    BY <1>3, <2>4 DEF Within
<1> QED
  BY <1>4, <1>5

\* What is flushed is recorded and no longer on its way.
LEMMA FlushQuota ==
  ASSUME MeteringInv, QuotaInv, FlushCommit \/ FlushCommitUnsecured \/ FlushFail
  PROVE  QuotaInv'
<1>1. /\ TypeOK /\ process # "down" /\ ~saving
      /\ UNCHANGED <<process, gate, granted>>
  BY DEF MeteringInv, Empty, FlushCommit, FlushCommitUnsecured, FlushFail, Flushing, observers
<1>2. At("pending") \subseteq InProcess
  BY DEF At, InProcess
<1>3. Within(db)'
  <2>1. CASE FlushFail
    <3>1. db' = db
      BY <2>1 DEF FlushFail
    <3> QED
      BY <1>1, <3>1 DEF QuotaInv, Within
  <2>2. CASE FlushCommit \/ FlushCommitUnsecured
    <3>1. db' = FlushedConfig /\ db.revision = mem.revision
      BY <2>2 DEF FlushCommit, FlushCommitUnsecured
    <3>2. Within(FlushedConfig)
      BY <1>1, <3>1, FlushedWithin
    <3> QED
      BY <1>1, <3>1, <3>2 DEF Within
  <2> QED
    BY <2>1, <2>2
<1>4. CASE FlushCommit
  <2>1. mem' = FlushedConfig /\ where' = Moved(At("pending"), "gone")
    BY <1>4 DEF FlushCommit
  <2>2. InProcess' = InProcess \ At("pending")
    BY <1>1, <2>1 DEF InProcess, At, Moved, TypeOK
  <2>3. Cardinality(InProcess') = Cardinality(InProcess) - Cardinality(At("pending"))
    <3>1. IsFiniteSet(InProcess) /\ InProcess \cap At("pending") = At("pending")
      BY <1>1, <1>2, QuotaTypes
    <3>2. Cardinality(InProcess \ At("pending"))
            = Cardinality(InProcess) - Cardinality(InProcess \cap At("pending"))
      BY <3>1, FS_Difference
    <3> QED
      BY <2>2, <3>1, <3>2
  <2>4. mem'.used = mem.used + Cardinality(At("pending")) /\ mem'.limit = mem.limit
    BY <2>1 DEF FlushedConfig, Charged
  <2>5. mem'.used + Cardinality(InProcess') = mem.used + Cardinality(InProcess)
    BY <1>1, <2>3, <2>4, QuotaTypes
  <2>6. InProcess' # {} => InProcess # {}
    BY <2>2
  <2>7. GateCovers'
    BY <1>1, <2>4, <2>5, <2>6 DEF QuotaInv, GateCovers
  <2> QED
    BY <1>3, <2>7 DEF QuotaInv
<1>5. CASE FlushCommitUnsecured \/ FlushFail
  <2>1. mem' = mem /\ where' = Moved(Dropped, "gone")
    BY <1>5 DEF FlushCommitUnsecured, FlushFail
  <2>2. InProcess' \subseteq InProcess
    BY <1>1, <2>1 DEF InProcess, At, Moved, TypeOK
  <2>3. GateCovers'
    BY <1>1, <2>1, <2>2, StillCovered DEF QuotaInv
  <2> QED
    BY <1>3, <2>3 DEF QuotaInv
<1> QED
  BY <1>4, <1>5

\* The steps of copy loops and the queue: the gate charges what comes in.
LEMMA LoopQuota ==
  ASSUME MeteringInv, QuotaInv, NEW c \in Chunks,
         \/ Charge(c) \/ Deliver(c) \/ Send(c) \/ SendToNobody(c) \/ Cut(c) \/ Receive(c)
  PROVE  QuotaInv'
<1>1. TypeOK /\ UNCHANGED <<process, mem, db, granted>>
  BY DEF MeteringInv, Charge, Deliver, Send, SendToNobody, Cut, Receive, observers
<1>2. Within(db)'
  BY <1>1 DEF QuotaInv, Within
<1>3. CASE Charge(c)
  <2>1. InProcess' = InProcess \cup {c} /\ c \notin InProcess
    BY <1>1, <1>3 DEF Charge, InProcess, At, TypeOK
  <2>2. Cardinality(InProcess') = Cardinality(InProcess) + 1
    BY <1>1, <2>1, QuotaTypes, FS_AddElement
  <2>3. gate' = gate + 1 /\ (mem.limit # 0 => gate < mem.limit)
    BY <1>3 DEF Charge
  <2>4. GateCovers'
    BY <1>1, <2>2, <2>3, QuotaTypes DEF QuotaInv, GateCovers
  <2> QED
    BY <1>2, <2>4 DEF QuotaInv
<1>4. CASE Deliver(c) \/ Send(c) \/ SendToNobody(c) \/ Cut(c) \/ Receive(c)
  <2>1. gate' = gate
    BY <1>4 DEF Deliver, Send, SendToNobody, Cut, Receive
  <2>2. c \in InProcess
    BY <1>4 DEF Deliver, Send, SendToNobody, Cut, Receive, InProcess, At
  <2>3. \A d \in Chunks : d # c => where'[d] = where[d]
    BY <1>1, <1>4 DEF Deliver, Send, SendToNobody, Cut, Receive, TypeOK
  <2>4. InProcess' \subseteq InProcess
    BY <2>2, <2>3 DEF InProcess, At
  <2>5. GateCovers'
    BY <1>1, <2>1, <2>4, StillCovered DEF QuotaInv
  <2> QED
    BY <1>2, <2>5 DEF QuotaInv
<1> QED
  BY <1>3, <1>4

\* The accounting task's ticks and the tunnels handler: usage and limit go from one
\* copy to another.
LEMMA HandlerQuota ==
  ASSUME MeteringInv, QuotaInv,
         \/ FlushTick \/ LastFlush \/ SaveTunnels \/ SaveTunnelsUnsecured \/ AdoptTunnels
         \/ RollbackTunnels \/ AbandonTunnels
  PROVE  QuotaInv'
<1>1. TypeOK /\ process # "down" /\ UNCHANGED <<process, gate, granted>>
  BY DEF MeteringInv, Empty, FlushTick, LastFlush, StartFlush, SaveTunnels,
     SaveTunnelsUnsecured, AdoptTunnels, RollbackTunnels, AbandonTunnels, server, observers
<1>2. mem \in Configs /\ Bumped(mem) \in Configs
  BY <1>1, ConfigTypes DEF TypeOK
<1>3. SameUsage(Bumped(mem), mem) /\ SameUsage(Bumped(Bumped(mem)), mem)
  <2>1. SameUsage(Bumped(mem), mem) /\ SameUsage(Bumped(Bumped(mem)), Bumped(mem))
    BY <1>2, BumpedUsage
  <2> QED
    BY <2>1 DEF SameUsage
<1>4. Held = db.revision => SameUsage(mem, db)
  BY <1>1 DEF MeteringInv, Coherent
<1>5. SameUsage(db', db)
  <2>1. CASE db' = db
    BY <2>1 DEF SameUsage
  <2>2. CASE db' # db
    <3>1. db' = Bumped(mem) \/ db' = Bumped(Bumped(mem))
      BY <2>2 DEF FlushTick, LastFlush, StartFlush, SaveTunnels, SaveTunnelsUnsecured,
         AdoptTunnels, RollbackTunnels, AbandonTunnels
    <3>2. \/ ~saving /\ db.revision = mem.revision
          \/ saving /\ db.revision = mem.revision + 1
      BY <2>2 DEF FlushTick, LastFlush, StartFlush, SaveTunnels, SaveTunnelsUnsecured,
         AdoptTunnels, RollbackTunnels, AbandonTunnels
    <3>3. Held = db.revision
      BY <1>1, <3>2, Numbers DEF Held
    <3> QED
      BY <1>3, <1>4, <3>1, <3>3 DEF SameUsage
  <2> QED
    BY <2>1, <2>2
<1>6. Within(db)'
  BY <1>1, <1>5 DEF QuotaInv, Within, SameUsage
<1>7. mem'.used = mem.used /\ mem'.limit = mem.limit
  BY <1>3 DEF FlushTick, LastFlush, StartFlush, SaveTunnels, SaveTunnelsUnsecured,
     AdoptTunnels, RollbackTunnels, AbandonTunnels, server, SameUsage
<1>8. where' = where \/ where' = Moved(At("queued"), "pending")
  BY DEF FlushTick, LastFlush, StartFlush, SaveTunnels, SaveTunnelsUnsecured,
     AdoptTunnels, RollbackTunnels, AbandonTunnels, server
<1>9. InProcess' \subseteq InProcess
  BY <1>1, <1>8 DEF InProcess, At, Moved, TypeOK
<1>10. GateCovers'
  BY <1>1, <1>7, <1>9, StillCovered DEF QuotaInv
<1> QED
  BY <1>6, <1>10 DEF QuotaInv

\* The commands write to the database only; what they leave there is granted.
LEMMA CommandQuota ==
  ASSUME MeteringInv, QuotaInv,
         \/ ReadForCommand \/ SaveCommand \/ EndCommand
         \/ \E n \in Usages : SetUsage(n)
         \/ \E n \in Limits : SetLimit(n)
  PROVE  QuotaInv'
<1>1. TypeOK /\ UNCHANGED <<process, gate, mem, where>>
  BY DEF MeteringInv, ReadForCommand, SaveCommand, EndCommand, SetUsage, SetLimit,
     CommandCommits, server
<1>2. GateCovers'
  <2>1. InProcess' = InProcess
    BY <1>1 DEF InProcess, At
  <2> QED
    BY <1>1, <2>1, StillCovered DEF QuotaInv
<1>3. command.copy \in Configs
  BY <1>1, Zenon DEF TypeOK
<1>4. command.copy.used \in Nat /\ db.used \in Nat /\ granted \in Nat
  BY <1>1, QuotaTypes
<1>5. CASE ReadForCommand \/ EndCommand
  <2>1. db' = db /\ granted' = granted
    BY <1>5 DEF ReadForCommand, EndCommand, observers
  <2> QED
    BY <1>2, <2>1 DEF QuotaInv, Within
<1>6. CASE SaveCommand
  <2>1. db' = Bumped(command.copy) /\ granted' = granted /\ SameUsage(command.copy, db)
    BY <1>6 DEF SaveCommand, CommandCommits, MeteringInv, Coherent
  <2>2. SameUsage(db', db)
    BY <1>3, <2>1, BumpedUsage DEF SameUsage
  <2> QED
    BY <1>2, <2>1, <2>2 DEF QuotaInv, Within, SameUsage
<1>7. ASSUME NEW n \in Usages, SetUsage(n)
      PROVE  QuotaInv'
  <2>1. n \in Nat
    BY MeteringConstants
  <2>2. db' = [revision |-> command.copy.revision + 1, limit |-> command.copy.limit,
               used |-> n, bill |-> NoBill]
    BY <1>3, <1>7, <2>1, SetConfigs DEF SetUsage, CommandCommits
  <2>3. db'.used = n /\ granted' = n
    BY <1>7, <2>2 DEF SetUsage
  <2> QED
    BY <1>2, <2>1, <2>3 DEF QuotaInv, Within
<1>8. ASSUME NEW n \in Limits, SetLimit(n)
      PROVE  QuotaInv'
  <2>1. n \in Nat
    BY MeteringConstants
  <2>2. db' = [revision |-> command.copy.revision + 1, limit |-> n,
               used |-> command.copy.used, bill |-> command.copy.bill]
    BY <1>3, <1>8, <2>1, SetConfigs DEF SetLimit, CommandCommits
  <2>3. db'.used = command.copy.used /\ granted' = command.copy.used
    BY <1>8, <2>2 DEF SetLimit
  <2> QED
    BY <1>2, <1>4, <2>3 DEF QuotaInv, Within
<1> QED
  BY <1>5, <1>6, <1>7, <1>8

\* A process that ends holds nothing; one that starts charges from what is recorded.
LEMMA ProcessQuota ==
  ASSUME MeteringInv, QuotaInv, Stop \/ Exit \/ Crash \/ Start
  PROVE  QuotaInv'
<1>1. TypeOK /\ UNCHANGED <<db, granted>>
  BY DEF MeteringInv, Stop, Exit, Crash, End, Start, observers
<1>2. Within(db)'
  BY <1>1 DEF QuotaInv, Within
<1>3. CASE Stop
  <2>1. process # "down" /\ UNCHANGED <<gate, where, mem>>
    BY <1>3 DEF Stop
  <2>2. InProcess' = InProcess
    BY <2>1 DEF InProcess, At
  <2> QED
    BY <1>2, <2>1, <2>2 DEF QuotaInv, GateCovers
<1>4. CASE Exit \/ Crash
  BY <1>2, <1>4 DEF Exit, Crash, End, QuotaInv, GateCovers
<1>5. CASE Start
  <2>1. process = "down" /\ mem' = db /\ gate' = db.used /\ UNCHANGED where
    BY <1>5 DEF Start
  <2>2. InProcess' = {}
    BY <2>1 DEF MeteringInv, Empty, InProcess, At
  <2>3. Cardinality(InProcess') = 0
    BY <2>2, FS_EmptySet
  <2>4. mem'.used = db.used /\ db.used \in Nat
    BY <1>1, <2>1, QuotaTypes
  <2>5. GateCovers'
    BY <2>1, <2>2, <2>3, <2>4 DEF GateCovers
  <2> QED
    BY <1>2, <2>5 DEF QuotaInv
<1> QED
  BY <1>3, <1>4, <1>5

\* A fresh database records nothing.
LEMMA InitQuota ==
  ASSUME Init
  PROVE  QuotaInv
<1>1. PICK limit \in Limits : db = NewConfig(limit)
  BY DEF Init
<1>2. mem.used = 0 /\ db.used = 0 /\ gate = 0 /\ granted = 0
  BY <1>1 DEF Init, NewConfig
<1>3. InProcess = {}
  BY DEF Init, InProcess, At
<1>4. Cardinality(InProcess) = 0
  BY <1>3, FS_EmptySet
<1> QED
  BY <1>2, <1>3, <1>4 DEF QuotaInv, GateCovers, Within

\* From end to end the quota holds, whatever limits and usages the administrator
\* sets, for any number of copy loops and of restarts (controller.rs reserve,
\* TrafficController::new, app.rs command_set_traffic_limit,
\* command_set_traffic_used).
THEOREM QuotaEndToEndTheorem == Spec => []QuotaEndToEnd
<1>1. Init => QuotaInv
  BY InitQuota
<1>2. MeteringInv /\ QuotaInv /\ [Next]_vars => QuotaInv'
  <2> SUFFICES ASSUME MeteringInv, QuotaInv, [Next]_vars PROVE QuotaInv'
    OBVIOUS
  <2>1. CASE UNCHANGED vars
    <3>1. UNCHANGED <<process, gate, where, mem, db, granted>>
      BY <2>1 DEF vars, server, observers
    <3>2. InProcess' = InProcess
      BY <3>1 DEF InProcess, At
    <3> QED
      BY <3>1, <3>2 DEF QuotaInv, GateCovers, Within
  <2>2. CASE Next
    BY <2>2, LoopQuota, FlushQuota, HandlerQuota, CommandQuota, ProcessQuota DEF Next, Flush
  <2> QED
    BY <2>1, <2>2
<1>3. MeteringInv /\ QuotaInv => QuotaEndToEnd
  BY QuotaTypes DEF MeteringInv, QuotaInv, GateCovers, Within, QuotaEndToEnd
<1> QED
  BY <1>1, <1>2, <1>3, MeteringInvariant, PTL DEF Spec
=============================================================================
