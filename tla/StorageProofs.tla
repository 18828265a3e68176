---------------------------- MODULE StorageProofs ----------------------------
(***************************************************************************)
(* Proofs about what is stored: ConfigStore and MCTunnelPlan.              *)
(*                                                                         *)
(* ConfigStore, for every set of users, accounts and commands, implements  *)
(* SerialConfig.  The inductive invariant says of each copy (the server's  *)
(* memory, the tunnels handler's candidate, every command's) that it is no *)
(* younger than the database, and that it equals the database if it has    *)
(* the same revision.  Every accepted save therefore starts from what is   *)
(* in the database at that moment.                                         *)
(*                                                                         *)
(* TunnelPlan, for every order of the users and every set of ids and       *)
(* ports.  The invariant is that the configuration is sound, tunnel by     *)
(* tunnel, and that the table is just its tunnels.  Rows that are upserted *)
(* one after the other are all there at the end; a plan's tunnels get      *)
(* back-end ports that are the old ones or are new to everybody.  Which    *)
(* plans the table refuses is shown by looking for the longest start of an *)
(* order in which the plan can be written.                                 *)
(***************************************************************************)
EXTENDS ConfigStore, MCTunnelPlan, FiniteSetTheorems, SequenceTheorems,
        WellFoundedInduction, TLAPS

-----------------------------------------------------------------------------
(* ConfigStore.                                                            *)

\* A copy that is no younger than the database and equal to it if as old.
Follows(copy) == /\ copy.revision <= db.revision
                 /\ copy.revision = db.revision => copy.users = db.users

Coherent ==
    /\ Follows(mem)
    /\ \A a \in Commands : cli[a].busy => Follows(cli[a].copy)
    /\ handler.busy => /\ Follows(handler.candidate)
                       /\ Present(handler.candidate.users) = Present(mem.users)

StoreInv == TypeOK /\ Coherent

-----------------------------------------------------------------------------
\* The assumptions on the constants, with the abstract names spelled out.
LEMMA Constants ==
  /\ InitialUsers \in Serial!UserTables
  /\ Absent \notin Serial!Records /\ Absent \notin Serial!UserTables
  /\ MaxTunnels \in Nat /\ MaxUsed \in Nat /\ DefaultLimit \in 0 .. MaxTunnels
BY StoreConstants

\* The handler and the commands are well-typed when nothing is under way.
LEMMA IdleTypes ==
  /\ Idle \in [busy : BOOLEAN, candidate : Copies]
  /\ NoCommand \in [busy : BOOLEAN, copy : Copies]
<1>1. [revision |-> 0, users |-> InitialUsers] \in Copies
  BY Constants DEF Copies
<1> QED
  BY <1>1, Zenon DEF Idle, NoCommand

\* The parts of the state, one by one.
LEMMA Parts ==
  ASSUME TypeOK
  PROVE  /\ db.revision \in Nat /\ db.users \in Serial!UserTables
         /\ mem.revision \in Nat /\ mem.users \in Serial!UserTables
         /\ handler.candidate \in Copies /\ handler.busy \in BOOLEAN
         /\ handler.candidate.revision \in Nat
         /\ handler.candidate.users \in Serial!UserTables
         /\ \A a \in Commands : /\ cli[a] \in [busy : BOOLEAN, copy : Copies]
                                /\ cli[a].copy \in Copies
                                /\ cli[a].copy.revision \in Nat
                                /\ cli[a].copy.users \in Serial!UserTables
<1>1. db \in Copies /\ mem \in Copies
  BY DEF TypeOK
<1>2. handler.candidate \in Copies /\ handler.busy \in BOOLEAN
  BY Zenon DEF TypeOK
<1>3. \A a \in Commands : cli[a] \in [busy : BOOLEAN, copy : Copies]
  BY DEF TypeOK
<1>4. \A a \in Commands : cli[a].copy \in Copies
  BY <1>3, Zenon
<1> QED
  BY <1>1, <1>2, <1>3, <1>4 DEF Copies

\* Changing one field of one user, or a user as a whole, gives users again.
LEMMA TableTypes ==
  ASSUME NEW users \in Serial!UserTables, NEW u \in Users
  PROVE  /\ [users EXCEPT ![u] = Absent] \in Serial!UserTables
         /\ \A account \in Accounts :
               [users EXCEPT ![u] = Serial!NewUser(account)] \in Serial!UserTables
         /\ users[u] # Absent =>
              /\ \A n \in 0 .. MaxTunnels :
                   /\ [users EXCEPT ![u].tunnels = n] \in Serial!UserTables
                   /\ [users EXCEPT ![u].limit = n] \in Serial!UserTables
              /\ \A account \in Accounts :
                   [users EXCEPT ![u].account = account] \in Serial!UserTables
              /\ [users EXCEPT ![u].used = 0] \in Serial!UserTables
              /\ users[u].used < MaxUsed =>
                   [users EXCEPT ![u].used = @ + 1] \in Serial!UserTables
<1> USE DEF Serial!UserTables
<1>1. [users EXCEPT ![u] = Absent] \in Serial!UserTables
  OBVIOUS
<1>2. ASSUME NEW account \in Accounts
      PROVE  [users EXCEPT ![u] = Serial!NewUser(account)] \in Serial!UserTables
  <2>1. Serial!NewUser(account) \in Serial!Records
    BY Constants DEF Serial!NewUser, Serial!Records
  <2> QED
    BY <2>1
<1>3. ASSUME users[u] # Absent
      PROVE  /\ \A n \in 0 .. MaxTunnels :
                   /\ [users EXCEPT ![u].tunnels = n] \in Serial!UserTables
                   /\ [users EXCEPT ![u].limit = n] \in Serial!UserTables
             /\ \A account \in Accounts :
                   [users EXCEPT ![u].account = account] \in Serial!UserTables
             /\ [users EXCEPT ![u].used = 0] \in Serial!UserTables
             /\ users[u].used < MaxUsed =>
                   [users EXCEPT ![u].used = @ + 1] \in Serial!UserTables
  <2>1. users[u] \in Serial!Records
    BY <1>3
  <2>2. /\ \A n \in 0 .. MaxTunnels :
              /\ [users[u] EXCEPT !.tunnels = n] \in Serial!Records
              /\ [users[u] EXCEPT !.limit = n] \in Serial!Records
        /\ \A account \in Accounts :
              [users[u] EXCEPT !.account = account] \in Serial!Records
        /\ [users[u] EXCEPT !.used = 0] \in Serial!Records
        /\ users[u].used < MaxUsed =>
              [users[u] EXCEPT !.used = users[u].used + 1] \in Serial!Records
    BY <2>1, Constants DEF Serial!Records
  <2> QED
    BY <2>2
<1> QED
  BY <1>1, <1>2, <1>3

\* What an accepted save leaves behind.
LEMMA SaveTypes ==
  ASSUME TypeOK, NEW copy \in Copies, NEW users \in Serial!UserTables,
         Save(copy, users)
  PROVE  /\ db' \in Copies
         /\ db'.users = users
         /\ db'.revision = db.revision + 1
         /\ copy.revision = db.revision
<1>1. copy.revision \in Nat
  BY DEF Copies
<1> QED
  BY <1>1 DEF Save, Copies

-----------------------------------------------------------------------------
(* The invariant, and what each commit does to the database.               *)

\* A fresh database and what is read from it agree.
LEMMA InitInv == Init => StoreInv
<1> SUFFICES ASSUME Init PROVE StoreInv
  OBVIOUS
<1>1. db \in Copies /\ mem \in Copies
  BY Constants DEF Init, Copies
<1>2. ids \subseteq Users
  BY DEF Init, Present, Serial!Present
<1>3. TypeOK
  BY <1>1, <1>2, IdleTypes DEF Init, TypeOK
<1>4. Coherent
  <2>1. ~handler.busy /\ \A a \in Commands : ~cli[a].busy
    BY DEF Init, Idle, NoCommand
  <2> QED
    BY <1>1, <2>1 DEF Init, Coherent, Follows, Copies
<1> QED
  BY <1>3, <1>4 DEF StoreInv

\* Copies that were coherent stay so when the database moves on.
LEMMA LeftBehind ==
  ASSUME StoreInv, db'.revision = db.revision + 1,
         NEW copy, copy.revision \in Nat, Follows(copy)
  PROVE  /\ copy.revision <= db'.revision
         /\ copy.revision # db'.revision
BY Parts DEF StoreInv, Follows

\* A command's accepted save (storage.rs save) keeps every copy coherent
\* and changes the database from its present content only.
LEMMA SubmitStep ==
  ASSUME StoreInv, NEW a \in Commands, NEW users \in Serial!UserTables,
         Submit(a, users), ids' \subseteq Users
  PROVE  /\ StoreInv'
         /\ db'.users = users
         /\ cli[a].copy.users = db.users
         /\ Undo' = Absent
<1> DEFINE copy == cli[a].copy
<1>1. copy \in Copies /\ cli[a].busy /\ Save(copy, users)
  BY Parts DEF StoreInv, Submit
<1>2. /\ db' \in Copies /\ db'.users = users
      /\ db'.revision = db.revision + 1
      /\ copy.revision = db.revision
  BY <1>1, SaveTypes DEF StoreInv
<1>3. copy.users = db.users
  BY <1>1, <1>2 DEF StoreInv, Coherent, Follows
<1>4. UNCHANGED <<mem, handler>> /\ cli' = [cli EXCEPT ![a] = NoCommand]
  BY DEF Submit
<1>5. TypeOK'
  BY <1>2, <1>4, IdleTypes DEF StoreInv, TypeOK
<1>6. Follows(mem)'
  BY <1>2, <1>4, Parts, LeftBehind DEF StoreInv, Coherent, Follows
<1>7. ASSUME NEW b \in Commands, cli'[b].busy
      PROVE  Follows(cli[b].copy)'
  <2>1. b # a /\ cli'[b] = cli[b]
    BY <1>4, <1>7 DEF StoreInv, TypeOK, NoCommand
  <2> QED
    BY <1>2, <1>7, <2>1, Parts, LeftBehind DEF StoreInv, Coherent, Follows
<1>8. ASSUME handler'.busy
      PROVE  /\ Follows(handler.candidate)'
             /\ (Present(handler.candidate.users) = Present(mem.users))'
             /\ handler'.candidate.revision # db'.revision
  <2>1. handler.busy /\ Follows(handler.candidate)
        /\ Present(handler.candidate.users) = Present(mem.users)
    BY <1>4, <1>8 DEF StoreInv, Coherent
  <2>2. handler.candidate.revision \in Nat
    BY Parts DEF StoreInv
  <2> QED
    BY <1>2, <1>4, <2>1, <2>2, LeftBehind DEF Follows, Present, Serial!Present
<1>9. Undo' = Absent
  BY <1>8 DEF Undo
<1> QED
  BY <1>2, <1>3, <1>5, <1>6, <1>7, <1>8, <1>9 DEF StoreInv, Coherent

\* The server saves its own copy; the handler stays or becomes as given.
LEMMA ServerSave ==
  ASSUME StoreInv, ~handler.busy, NEW users \in Serial!UserTables,
         Save(mem, users), UNCHANGED <<cli, ids>>,
         \/ mem' = mem /\ handler' = handler
         \/ mem' = db' /\ handler' = handler
         \/ /\ mem' = mem
            /\ handler' = [busy |-> TRUE, candidate |-> db']
            /\ Present(users) = Present(mem.users)
  PROVE  /\ StoreInv'
         /\ db'.users = users
         /\ mem.users = db.users
         /\ Undo' \in {db.users, Absent}
<1>1. mem \in Copies
  BY DEF StoreInv, TypeOK
<1>2. /\ db' \in Copies /\ db'.users = users
      /\ db'.revision = db.revision + 1
      /\ mem.revision = db.revision
  BY <1>1, SaveTypes DEF StoreInv
<1>3. mem.users = db.users
  BY <1>2 DEF StoreInv, Coherent, Follows
<1>4. db.revision \in Nat
  BY Parts DEF StoreInv
<1>5. TypeOK'
  <2>1. handler' \in [busy : BOOLEAN, candidate : Copies]
    <3>1. [busy |-> TRUE, candidate |-> db'] \in [busy : BOOLEAN, candidate : Copies]
      BY <1>2, Zenon
    <3> QED
      BY <3>1 DEF StoreInv, TypeOK
  <2>2. mem' \in Copies /\ db' \in Copies
    BY <1>1, <1>2
  <2>3. cli' \in [Commands -> [busy : BOOLEAN, copy : Copies]] /\ ids' \subseteq Users
    BY DEF StoreInv, TypeOK
  <2> QED
    BY <2>1, <2>2, <2>3 DEF TypeOK
<1>6. Follows(mem)'
  BY <1>2, <1>4 DEF Follows
<1>7. ASSUME NEW b \in Commands, cli'[b].busy
      PROVE  Follows(cli[b].copy)'
  BY <1>2, <1>7, Parts, LeftBehind DEF StoreInv, Coherent, Follows
<1>8. ASSUME handler'.busy
      PROVE  /\ Follows(handler.candidate)'
             /\ (Present(handler.candidate.users) = Present(mem.users))'
  <2>1. handler' = [busy |-> TRUE, candidate |-> db'] /\ mem' = mem
        /\ Present(users) = Present(mem.users)
    BY <1>8
  <2>2. handler'.candidate = db'
    BY <2>1
  <2> QED
    BY <1>2, <1>4, <2>1, <2>2 DEF Follows, Present, Serial!Present
<1>9. Undo' \in {db.users, Absent}
  BY <1>3 DEF Undo
<1> QED
  BY <1>2, <1>3, <1>5, <1>6, <1>7, <1>8, <1>9 DEF StoreInv, Coherent

\* The handler ends without a commit, or the service restarts.
LEMMA HandlerEnds ==
  ASSUME StoreInv, handler' = Idle, UNCHANGED <<db, cli, ids>>,
         \/ mem' = mem
         \/ mem' = db
         \/ handler.busy /\ mem' = handler.candidate
  PROVE  StoreInv' /\ Undo' = Absent
<1>1. ~handler'.busy
  BY DEF Idle
<1>2. TypeOK'
  BY IdleTypes, Parts DEF StoreInv, TypeOK
<1>3. Follows(mem)'
  BY Parts DEF StoreInv, Coherent, Follows
<1>4. \A b \in Commands : cli'[b].busy => Follows(cli[b].copy)'
  BY DEF StoreInv, Coherent, Follows
<1> QED
  BY <1>1, <1>2, <1>3, <1>4 DEF StoreInv, Coherent, Undo

\* The rollback is accepted only while the database still holds the plan.
LEMMA RollbackStep ==
  ASSUME StoreInv, RollbackPlan \/ RollbackUnsecured
  PROVE  /\ StoreInv'
         /\ Undo = mem.users /\ Undo # Absent
         /\ db'.users = mem.users /\ Undo' = Absent
         /\ Present(db.users) = Present(mem.users)
         /\ UNCHANGED ids
<1>1. /\ handler.busy /\ Save(handler.candidate, mem.users)
      /\ handler' = Idle /\ UNCHANGED <<cli, ids>>
      /\ mem' = mem \/ mem' = db'
  BY DEF RollbackPlan, RollbackUnsecured
<1>2. /\ db' \in Copies /\ db'.users = mem.users
      /\ db'.revision = db.revision + 1
      /\ handler.candidate.revision = db.revision
  BY <1>1, Parts, SaveTypes DEF StoreInv
<1>3. Undo = mem.users /\ mem.users # Absent
  BY <1>1, <1>2, Parts, Constants DEF StoreInv, Undo
<1>4. ~handler'.busy
  BY <1>1 DEF Idle
<1>5. db.revision \in Nat
  BY Parts DEF StoreInv
<1>6. Follows(mem)'
  <2>1. CASE mem' = mem
    BY <1>2, <2>1, Parts, LeftBehind DEF StoreInv, Coherent, Follows
  <2>2. CASE mem' = db'
    BY <1>2, <1>5, <2>2 DEF Follows
  <2> QED
    BY <1>1, <2>1, <2>2
<1>7. ASSUME NEW b \in Commands, cli'[b].busy
      PROVE  Follows(cli[b].copy)'
  BY <1>1, <1>2, <1>7, Parts, LeftBehind DEF StoreInv, Coherent, Follows
<1>8. TypeOK'
  BY <1>1, <1>2, IdleTypes DEF StoreInv, TypeOK
<1>9. Present(db.users) = Present(mem.users)
  BY <1>1, <1>2 DEF StoreInv, Coherent, Follows
<1> QED
  BY <1>1, <1>2, <1>3, <1>4, <1>6, <1>7, <1>8, <1>9 DEF StoreInv, Coherent, Undo

-----------------------------------------------------------------------------
(* Every step is a step of SerialConfig, or none.                          *)

\* What is shown of each step: the invariant, the simulation, and that no
\* deleted user is back.
Kept == \A u \in ids : db.users[u] = Absent => db'.users[u] = Absent
Simulates == StoreInv' /\ [Serial!Next]_(Serial!vars) /\ Kept

\* command_add_user, accepted, is the abstract AddUser.
LEMMA AddUserStep ==
  ASSUME StoreInv, NEW a \in Commands, NEW u \in Users, NEW account \in Accounts,
         AddUser(a, u, account)
  PROVE  Simulates
<1> DEFINE users == [cli[a].copy.users EXCEPT ![u] = Serial!NewUser(account)]
<1>1. cli[a].copy.users \in Serial!UserTables
  BY Parts DEF StoreInv
<1>2. users \in Serial!UserTables
  BY <1>1, TableTypes
<1>3. Submit(a, users) /\ u \notin ids /\ ids' = ids \cup {u}
      /\ Serial!AccountFree(cli[a].copy.users, account)
  BY DEF AddUser
<1>4. ids' \subseteq Users
  BY <1>3 DEF StoreInv, TypeOK
<1>5. StoreInv' /\ db'.users = users /\ cli[a].copy.users = db.users /\ Undo' = Absent
  BY <1>2, <1>3, <1>4, SubmitStep
<1>6. Serial!AddUser(u, account)
  BY <1>3, <1>5 DEF Serial!AddUser, Serial!Becomes, Serial!Settled
<1>7. Serial!Next
  BY <1>6 DEF Serial!Next
<1>8. Kept
  BY <1>1, <1>3, <1>5 DEF Kept, Serial!UserTables, StoreInv, TypeOK
<1> QED
  BY <1>5, <1>7, <1>8 DEF Simulates

\* command_change_account, accepted, is the abstract ChangeAccount.
LEMMA ChangeAccountStep ==
  ASSUME StoreInv, NEW a \in Commands, NEW u \in Users, NEW account \in Accounts,
         ChangeAccount(a, u, account)
  PROVE  Simulates
<1> DEFINE users == [cli[a].copy.users EXCEPT ![u].account = account]
<1>1. cli[a].copy.users \in Serial!UserTables
  BY Parts DEF StoreInv
<1>2. /\ Submit(a, users) /\ ids' = ids /\ cli[a].copy.users[u] # Absent
      /\ \A v \in Present(cli[a].copy.users) \ {u} :
            cli[a].copy.users[v].account # account
  BY DEF ChangeAccount
<1>3. users \in Serial!UserTables
  BY <1>1, <1>2, TableTypes
<1>4. ids' \subseteq Users
  BY <1>2 DEF StoreInv, TypeOK
<1>5. StoreInv' /\ db'.users = users /\ cli[a].copy.users = db.users /\ Undo' = Absent
  BY <1>2, <1>3, <1>4, SubmitStep
<1>6. Serial!ChangeAccount(u, account)
  BY <1>2, <1>5 DEF Present, Serial!ChangeAccount, Serial!Becomes, Serial!Settled
<1>7. Serial!Next
  BY <1>6 DEF Serial!Next
<1>8. Kept
  BY <1>1, <1>2, <1>5 DEF Kept, Serial!UserTables, StoreInv, TypeOK
<1> QED
  BY <1>5, <1>7, <1>8 DEF Simulates

\* command_delete_user, accepted, is the abstract DeleteUser.
LEMMA DeleteUserStep ==
  ASSUME StoreInv, NEW a \in Commands, NEW u \in Users, DeleteUser(a, u)
  PROVE  Simulates
<1> DEFINE users == [cli[a].copy.users EXCEPT ![u] = Absent]
<1>1. cli[a].copy.users \in Serial!UserTables
  BY Parts DEF StoreInv
<1>2. Submit(a, users) /\ ids' = ids /\ cli[a].copy.users[u] # Absent
  BY DEF DeleteUser
<1>3. users \in Serial!UserTables
  BY <1>1, TableTypes
<1>4. ids' \subseteq Users
  BY <1>2 DEF StoreInv, TypeOK
<1>5. StoreInv' /\ db'.users = users /\ cli[a].copy.users = db.users /\ Undo' = Absent
  BY <1>2, <1>3, <1>4, SubmitStep
<1>6. Serial!DeleteUser(u)
  BY <1>2, <1>5 DEF Serial!DeleteUser, Serial!Becomes, Serial!Settled
<1>7. Serial!Next
  BY <1>6 DEF Serial!Next
<1>8. Kept
  BY <1>1, <1>2, <1>5 DEF Kept, Serial!UserTables, StoreInv, TypeOK
<1> QED
  BY <1>5, <1>7, <1>8 DEF Simulates

\* command_set_tunnel_limit, accepted, is the abstract SetTunnelLimit.
LEMMA SetTunnelLimitStep ==
  ASSUME StoreInv, NEW a \in Commands, NEW u \in Users, NEW n \in 0 .. MaxTunnels,
         SetTunnelLimit(a, u, n)
  PROVE  Simulates
<1> DEFINE users == [cli[a].copy.users EXCEPT ![u].limit = n]
<1>1. cli[a].copy.users \in Serial!UserTables
  BY Parts DEF StoreInv
<1>2. Submit(a, users) /\ ids' = ids /\ cli[a].copy.users[u] # Absent
  BY DEF SetTunnelLimit
<1>3. users \in Serial!UserTables
  BY <1>1, <1>2, TableTypes
<1>4. ids' \subseteq Users
  BY <1>2 DEF StoreInv, TypeOK
<1>5. StoreInv' /\ db'.users = users /\ cli[a].copy.users = db.users /\ Undo' = Absent
  BY <1>2, <1>3, <1>4, SubmitStep
<1>6. Serial!SetTunnelLimit(u, n)
  BY <1>2, <1>5 DEF Serial!SetTunnelLimit, Serial!Becomes, Serial!Settled
<1>7. Serial!Next
  BY <1>6 DEF Serial!Next
<1>8. Kept
  BY <1>1, <1>2, <1>5 DEF Kept, Serial!UserTables, StoreInv, TypeOK
<1> QED
  BY <1>5, <1>7, <1>8 DEF Simulates

\* command_set_traffic_used, accepted, is the abstract SetTrafficUsed.
LEMMA SetTrafficUsedStep ==
  ASSUME StoreInv, NEW a \in Commands, NEW u \in Users, SetTrafficUsed(a, u)
  PROVE  Simulates
<1> DEFINE users == [cli[a].copy.users EXCEPT ![u].used = 0]
<1>1. cli[a].copy.users \in Serial!UserTables
  BY Parts DEF StoreInv
<1>2. Submit(a, users) /\ ids' = ids /\ cli[a].copy.users[u] # Absent
  BY DEF SetTrafficUsed
<1>3. users \in Serial!UserTables
  BY <1>1, <1>2, TableTypes
<1>4. ids' \subseteq Users
  BY <1>2 DEF StoreInv, TypeOK
<1>5. StoreInv' /\ db'.users = users /\ cli[a].copy.users = db.users /\ Undo' = Absent
  BY <1>2, <1>3, <1>4, SubmitStep
<1>6. Serial!SetTrafficUsed(u)
  BY <1>2, <1>5 DEF Serial!SetTrafficUsed, Serial!Becomes, Serial!Settled
<1>7. Serial!Next
  BY <1>6 DEF Serial!Next
<1>8. Kept
  BY <1>1, <1>2, <1>5 DEF Kept, Serial!UserTables, StoreInv, TypeOK
<1> QED
  BY <1>5, <1>7, <1>8 DEF Simulates

\* Reading a copy and dropping one.
LEMMA CopyStep ==
  ASSUME StoreInv, NEW a \in Commands, ReadConfig(a) \/ EndCommand(a)
  PROVE  Simulates
<1>1. UNCHANGED <<db, mem, handler, ids>>
      /\ \E c : /\ cli' = [cli EXCEPT ![a] = c]
                /\ c = [busy |-> TRUE, copy |-> db] \/ c = NoCommand
  BY DEF ReadConfig, EndCommand
<1>2. PICK c : /\ cli' = [cli EXCEPT ![a] = c]
               /\ c = [busy |-> TRUE, copy |-> db] \/ c = NoCommand
  BY <1>1
<1>3. c \in [busy : BOOLEAN, copy : Copies]
  <2>1. db \in Copies
    BY DEF StoreInv, TypeOK
  <2>2. [busy |-> TRUE, copy |-> db] \in [busy : BOOLEAN, copy : Copies]
    BY <2>1, Zenon
  <2> QED
    BY <1>2, <2>2, IdleTypes
<1>4. TypeOK'
  BY <1>1, <1>2, <1>3 DEF StoreInv, TypeOK
<1>5. ASSUME NEW b \in Commands, cli'[b].busy
      PROVE  Follows(cli[b].copy)'
  <2>1. CASE b # a
    <3>1. cli'[b] = cli[b]
      BY <1>2, <2>1 DEF StoreInv, TypeOK
    <3> QED
      BY <1>1, <1>5, <3>1 DEF StoreInv, Coherent, Follows
  <2>2. CASE b = a
    <3>1. cli'[b] = c
      BY <1>2, <2>2 DEF StoreInv, TypeOK
    <3>2. c.copy = db
      BY <1>2, <1>5, <3>1 DEF NoCommand
    <3>3. db.revision \in Nat
      BY Parts DEF StoreInv
    <3> QED
      BY <1>1, <3>1, <3>2, <3>3 DEF Follows
  <2> QED
    BY <2>1, <2>2
<1>6. Coherent'
  BY <1>1, <1>5 DEF StoreInv, Coherent, Follows, Present, Serial!Present
<1>7. UNCHANGED Serial!vars
  BY <1>1 DEF Serial!vars, Undo
<1>8. Kept
  BY <1>1 DEF Kept
<1> QED
  BY <1>4, <1>6, <1>7, <1>8 DEF Simulates, StoreInv

\* A plan keeps the set of users.
LEMMA PlanKeepsUsers ==
  ASSUME NEW users \in Serial!UserTables, NEW u \in Users, users[u] # Absent,
         NEW n \in 0 .. MaxTunnels
  PROVE  Present([users EXCEPT ![u].tunnels = n]) = Present(users)
<1> DEFINE planned == [users EXCEPT ![u].tunnels = n]
<1>1. users[u] \in Serial!Records
  BY DEF Serial!UserTables
<1>2. [users[u] EXCEPT !.tunnels = n] \in Serial!Records
  BY <1>1 DEF Serial!Records
<1>3. planned[u] \in Serial!Records /\ \A v \in Users \ {u} : planned[v] = users[v]
  BY <1>2 DEF Serial!UserTables
<1>4. planned[u] # Absent
  BY <1>3, Constants
<1> QED
  BY <1>3, <1>4 DEF Present, Serial!Present

\* The tunnels handler's save is the abstract PlanTunnels, whether or not it is
\* reported as an error.
LEMMA PlanStep ==
  ASSUME StoreInv, NEW u \in Users, NEW n \in 0 .. MaxTunnels,
         PlanTunnels(u, n) \/ PlanTunnelsUnsecured(u, n)
  PROVE  Simulates
<1> DEFINE users == [mem.users EXCEPT ![u].tunnels = n]
<1>1. /\ ~handler.busy /\ Save(mem, users) /\ UNCHANGED <<mem, cli, ids>>
      /\ \/ handler' = handler
         \/ handler' = [busy |-> TRUE, candidate |-> db']
      /\ mem.users[u] # Absent /\ Serial!MayPlan(mem.users[u], n)
  BY DEF PlanTunnels, PlanTunnelsUnsecured, MayPlan, WithTunnels
<1>2. mem.users \in Serial!UserTables
  BY Parts DEF StoreInv
<1>3. users \in Serial!UserTables
  BY <1>1, <1>2, TableTypes
<1>4. Present(users) = Present(mem.users)
  BY <1>1, <1>2, PlanKeepsUsers
<1>5. /\ StoreInv' /\ db'.users = users /\ mem.users = db.users
      /\ Undo' \in {db.users, Absent}
  BY <1>1, <1>3, <1>4, ServerSave
<1>6. Serial!PlanTunnels(u, n)
  BY <1>1, <1>5 DEF Serial!PlanTunnels, Serial!Settled
<1>7. Serial!Next
  BY <1>6 DEF Serial!Next
<1>8. Kept
  BY <1>1, <1>2, <1>5 DEF Kept, Serial!UserTables, StoreInv, TypeOK
<1> QED
  BY <1>5, <1>7, <1>8 DEF Simulates

\* The accounting task's save (flush_pending) is the abstract Charge.
LEMMA FlushStep ==
  ASSUME StoreInv, NEW u \in Users, FlushUsage(u)
  PROVE  Simulates
<1> DEFINE users == [mem.users EXCEPT ![u].used = @ + 1]
<1>1. /\ ~handler.busy /\ Save(mem, users) /\ UNCHANGED <<handler, cli, ids>>
      /\ mem' = mem \/ mem' = db'
      /\ mem.users[u] # Absent /\ mem.users[u].used < MaxUsed
  BY DEF FlushUsage
<1>2. mem.users \in Serial!UserTables
  BY Parts DEF StoreInv
<1>3. users \in Serial!UserTables
  BY <1>1, <1>2, TableTypes
<1>4. StoreInv' /\ db'.users = users /\ mem.users = db.users
  BY <1>1, <1>3, ServerSave
<1>5. Undo' = Absent
  BY <1>1 DEF Undo
<1>6. Serial!Charge(u)
  BY <1>1, <1>4, <1>5 DEF Serial!Charge, Serial!Becomes, Serial!Settled
<1>7. Serial!Next
  BY <1>6 DEF Serial!Next
<1>8. Kept
  BY <1>1, <1>2, <1>4 DEF Kept, Serial!UserTables, StoreInv, TypeOK
<1> QED
  BY <1>4, <1>7, <1>8 DEF Simulates

\* A handler that adopts its plan, gives it up or is dropped, and a restart,
\* settle the plan.
LEMMA EndStep ==
  ASSUME StoreInv, AdoptPlan \/ AbandonPlan \/ Restart
  PROVE  Simulates
<1>1. /\ handler' = Idle /\ UNCHANGED <<db, cli, ids>>
      /\ \/ mem' = mem
         \/ mem' = db
         \/ handler.busy /\ mem' = handler.candidate
  BY DEF AdoptPlan, AbandonPlan, Restart
<1>2. StoreInv' /\ Undo' = Absent
  BY <1>1, HandlerEnds
<1>3. Serial!Settle
  BY <1>1, <1>2 DEF Serial!Settle, Serial!Becomes, Serial!Settled
<1>4. Serial!Next
  BY <1>3 DEF Serial!Next
<1> QED
  BY <1>1, <1>2, <1>4 DEF Simulates, Kept

\* The handler's rollback is the abstract TakeBack.
LEMMA TakeBackStep ==
  ASSUME StoreInv, RollbackPlan \/ RollbackUnsecured
  PROVE  Simulates
<1>1. /\ StoreInv' /\ Undo = mem.users /\ Undo # Absent
      /\ db'.users = mem.users /\ Undo' = Absent
      /\ Present(db.users) = Present(mem.users)
      /\ UNCHANGED ids
  BY RollbackStep
<1>2. Serial!TakeBack
  BY <1>1 DEF Serial!TakeBack, Serial!Becomes, Serial!Settled
<1>3. Serial!Next
  BY <1>2 DEF Serial!Next
<1>4. Kept
  BY <1>1 DEF Kept, Present, Serial!Present, StoreInv, TypeOK
<1> QED
  BY <1>1, <1>3, <1>4 DEF Simulates

\* Every step keeps the invariant and is an abstract step or a stutter.
LEMMA NextStep == StoreInv /\ [Next]_vars => Simulates
<1> SUFFICES ASSUME StoreInv, [Next]_vars PROVE Simulates
  OBVIOUS
<1>1. CASE ServerStep
  <2>1. CASE \E u \in Users : \E n \in 0 .. MaxTunnels :
                PlanTunnels(u, n) \/ PlanTunnelsUnsecured(u, n)
    BY <2>1, PlanStep
  <2>2. CASE \E u \in Users : FlushUsage(u)
    BY <2>2, FlushStep
  <2>3. CASE AdoptPlan \/ AbandonPlan \/ Restart
    BY <2>3, EndStep
  <2>4. CASE RollbackPlan \/ RollbackUnsecured
    BY <2>4, TakeBackStep
  <2> QED
    BY <1>1, <2>1, <2>2, <2>3, <2>4 DEF ServerStep
<1>2. CASE \E a \in Commands : CommandStep(a)
  <2>1. PICK a \in Commands : CommandStep(a)
    BY <1>2
  <2>2. CASE ReadConfig(a) \/ EndCommand(a)
    BY <2>2, CopyStep
  <2>3. CASE \E u \in Users : \E account \in Accounts : AddUser(a, u, account)
    BY <2>3, AddUserStep
  <2>4. CASE \E u \in Users : \E account \in Accounts : ChangeAccount(a, u, account)
    BY <2>4, ChangeAccountStep
  <2>5. CASE \E u \in Users : \E n \in 0 .. MaxTunnels : SetTunnelLimit(a, u, n)
    BY <2>5, SetTunnelLimitStep
  <2>6. CASE \E u \in Users : DeleteUser(a, u)
    BY <2>6, DeleteUserStep
  <2>7. CASE \E u \in Users : SetTrafficUsed(a, u)
    BY <2>7, SetTrafficUsedStep
  <2> QED
    BY <2>1, <2>2, <2>3, <2>4, <2>5, <2>6, <2>7 DEF CommandStep
<1>3. CASE UNCHANGED vars
  BY <1>3 DEF vars, Simulates, Kept, Serial!vars, Undo, StoreInv, TypeOK, Coherent,
              Follows, Present, Serial!Present
<1> QED
  BY <1>1, <1>2, <1>3 DEF Next

-----------------------------------------------------------------------------
\* Whatever the users, accounts and commands, every copy of the configuration
\* follows the database (storage.rs save, app.rs tunnels).
THEOREM StoreInvariant == Spec => []StoreInv
<1>1. StoreInv /\ [Next]_vars => StoreInv'
  BY NextStep DEF Simulates
<1> QED
  BY <1>1, InitInv, PTL DEF Spec

\* The tables, copies and limits stay in their ranges; a tunnel limit in
\* particular is never out of 0 .. MaxTunnels (app.rs set_tunnel_limit).
THEOREM StoreTypeCorrect == Spec => []TypeOK
<1>1. StoreInv => TypeOK
  BY DEF StoreInv
<1> QED
  BY <1>1, StoreInvariant, PTL

\* Equal revisions mean equal contents, so the comparison in save is enough.
THEOREM RevisionTheorem == Spec => []RevisionMeansContent
<1>1. StoreInv => RevisionMeansContent
  BY DEF StoreInv, Coherent, Follows, RevisionMeansContent
<1> QED
  BY <1>1, StoreInvariant, PTL

\* The store implements the configuration that is changed by one at a time:
\* no update is lost, none is decided on an old copy.
THEOREM SerializableTheorem == Spec => Serializable
<1>1. Init => Serial!Init
  BY DEF Init, Idle, Undo, Serial!Init, Serial!Settled, Present
<1>2. StoreInv /\ [Next]_vars => [Serial!Next]_(Serial!vars)
  BY NextStep DEF Simulates
<1> QED
  BY <1>1, <1>2, StoreInvariant, PTL DEF Spec, Serializable, Serial!Spec

\* No flush, plan, rollback or other command brings a deleted user back.
THEOREM DeletedStaysDeletedTheorem == Spec => DeletedStaysDeleted
<1>1. StoreInv /\ [Next]_vars
        => [\A u \in ids : db.users[u] = Absent => db'.users[u] = Absent]_vars
  BY NextStep DEF Simulates, Kept
<1> QED
  BY <1>1, StoreInvariant, PTL DEF Spec, DeletedStaysDeleted

-----------------------------------------------------------------------------
(* TunnelPlan.  Its folds stand for recursive functions on the subsets of  *)
(* the places of a sequence.  That there are such functions is shown for   *)
(* the subsets of at most n places, for the least n for which there were   *)
(* none; what they yield, for the shortest part of the sequence for which  *)
(* it was something else.                                                  *)

\* The least of a set of naturals.
LEMMA LeastNatural ==
  ASSUME NEW S \in SUBSET Nat, S # {}
  PROVE  \E n \in S : \A m \in S : n <= m
<1> DEFINE R == OpToRel(<, Nat)
<1>1. IsWellFoundedOn(R, Nat)
  BY NatLessThanWellFounded
<1>2. \A m, n \in Nat : m < n => <<m, n>> \in R
  BY DEF OpToRel
<1> HIDE DEF R
<1>3. PICK n \in S : \A m \in S : ~ (<<m, n>> \in R)
  BY <1>1, WFMin
<1>4. ASSUME NEW m \in S PROVE n <= m
  <2>1. ~ (m < n)
    BY <1>2, <1>3
  <2> QED
    BY <2>1
<1> QED
  BY <1>4

\* A set B of subsets of a finite set has one from which no element can be
\* taken without leaving B.
LEMMA SmallestSubset ==
  ASSUME NEW U, IsFiniteSet(U), NEW B \in SUBSET SUBSET U, B # {}
  PROVE  \E s \in B : \A x \in s : s \ {x} \notin B
<1> DEFINE R == StrictSubsetOrdering(U)
<1>1. IsWellFoundedOn(R, SUBSET U)
  BY FS_StrictSubsetOrderingWellFounded, FS_FiniteSubsetsOfFinite
<1>2. ASSUME NEW s \in SUBSET U, NEW x \in s PROVE <<s \ {x}, s>> \in R
  BY DEF StrictSubsetOrdering
<1> HIDE DEF R
<1>3. PICK s \in B : \A t \in B : ~ (<<t, s>> \in R)
  BY <1>1, WFMin
<1> QED
  BY <1>2, <1>3

\* A finite set of naturals has a greatest.
LEMMA GreatestNatural ==
  ASSUME NEW S \in SUBSET Nat, IsFiniteSet(S), S # {}
  PROVE  \E n \in S : \A m \in S : n >= m
<1> DEFINE Top(s) == \E n \in s : \A m \in s : n >= m
           Bad == {s \in SUBSET S : s # {} /\ ~ Top(s)}
<1> SUFFICES ASSUME Bad # {} PROVE FALSE
  OBVIOUS
<1>1. Bad \in SUBSET SUBSET S
  OBVIOUS
<1>2. PICK s \in Bad : \A x \in s : s \ {x} \notin Bad
  BY <1>1, SmallestSubset
<1>3. s \in SUBSET S /\ s # {} /\ ~ Top(s)
  BY <1>2
<1>4. PICK x \in s : TRUE
  BY <1>3
<1>5. s \ {x} \notin Bad
  BY <1>2
<1>6. CASE s \ {x} = {}
  <2>1. Top(s)
    <3>1. \A m \in s : m = x
      BY <1>6
    <3>2. x \in Nat
      BY <1>3
    <3> QED
      BY <3>1, <3>2
  <2> QED
    BY <1>3, <2>1
<1>7. CASE s \ {x} # {}
  <2>1. Top(s \ {x})
    BY <1>3, <1>5, <1>7
  <2>2. PICK n \in s \ {x} : \A m \in s \ {x} : n >= m
    BY <2>1
  <2>3. \A m \in s : m \in Nat
    BY <1>3
  <2>4. CASE n >= x
    BY <1>3, <2>2, <2>4
  <2>5. CASE ~ (n >= x)
    <3>1. \A m \in s : x >= m
      BY <2>2, <2>3, <2>5
    <3> QED
      BY <1>3, <3>1
  <2> QED
    BY <2>4, <2>5
<1> QED
  BY <1>6, <1>7

LEMMA FirstPlaces ==
  ASSUME NEW n \in Nat
  PROVE  IsFiniteSet(1..n) /\ Cardinality(1..n) = n
<1>1. n \in Int /\ 1 \in Int
  OBVIOUS
<1>2. IsFiniteSet(1..n) /\ Cardinality(1..n) = (IF 1 > n THEN 0 ELSE n - 1 + 1)
  BY <1>1, FS_Interval
<1> QED
  BY <1>2

\* The last of some places.
Top(d) == Plan!Max(d)

LEMMA TopIsThere ==
  ASSUME NEW n \in Nat, NEW d \in SUBSET (1..n), d # {}
  PROVE  Top(d) \in d /\ \A m \in d : Top(d) >= m
<1>1. IsFiniteSet(1..n)
  BY FirstPlaces
<1>2. d \in SUBSET Nat
  OBVIOUS
<1>3. IsFiniteSet(d)
  BY <1>1, FS_Subset
<1>4. \E m \in d : \A k \in d : m >= k
  BY <1>2, <1>3, GreatestNatural
<1> QED
  BY <1>4 DEF Top, Plan!Max

LEMMA TopOfFirst ==
  ASSUME NEW n \in Nat, n # 0
  PROVE  /\ Top(1..n) = n /\ (1..n) \ {n} = 1..(n - 1)
         /\ n \in 1..n /\ n - 1 \in Nat
<1>1. n \in 1..n /\ 1..n \in SUBSET (1..n) /\ 1..n # {}
  OBVIOUS
<1>2. Top(1..n) \in 1..n /\ \A m \in 1..n : Top(1..n) >= m
  BY <1>1, TopIsThere
<1>3. Top(1..n) = n
  BY <1>1, <1>2
<1> QED
  BY <1>1, <1>3

\* A sequence's places, and subsets of at most n of them.
FewPlaces(s, n) == {d \in SUBSET DOMAIN s : Cardinality(d) <= n}

\* Rows are written into a table one after the other.
Writing(table, s, g) ==
    g = [d \in SUBSET DOMAIN s |->
           IF d = {} THEN table ELSE Plan!Upsert(g[d \ {Top(d)}], s[Top(d)])]

Writes(table, s) == CHOOSE g : Writing(table, s, g)

WritingFew(table, s, n, g) ==
    g = [d \in FewPlaces(s, n) |->
           IF d = {} THEN table ELSE Plan!Upsert(g[d \ {Top(d)}], s[Top(d)])]

LEMMA WritesOfFewExist ==
  ASSUME NEW table, NEW X, NEW s \in Seq(X), NEW n \in Nat
  PROVE  \E g : WritingFew(table, s, n, g)
<1> DEFINE Bad == {m \in Nat : ~ \E g : WritingFew(table, s, m, g)}
<1> SUFFICES ASSUME Bad # {} PROVE FALSE
  OBVIOUS
<1>1. PICK m \in Bad : \A k \in Bad : m <= k
  BY LeastNatural
<1>2. m \in Nat /\ ~ \E g : WritingFew(table, s, m, g)
  BY <1>1
<1>3. DOMAIN s = 1..Len(s) /\ Len(s) \in Nat /\ IsFiniteSet(DOMAIN s)
  BY FirstPlaces
<1>4. \A d \in SUBSET DOMAIN s : IsFiniteSet(d) /\ Cardinality(d) \in Nat
  BY <1>3, FS_Subset, FS_CardinalityType
<1>5. CASE m = 0
  <2>1. \A d \in FewPlaces(s, 0) : d = {}
    BY <1>4, FS_EmptySet DEF FewPlaces
  <2> DEFINE g == [d \in FewPlaces(s, 0) |-> table]
  <2>2. WritingFew(table, s, 0, g)
    BY <2>1 DEF WritingFew
  <2> QED
    BY <1>2, <1>5, <2>2
<1>6. CASE m # 0
  <2>1. m - 1 \in Nat /\ ~ (m <= m - 1)
    BY <1>2, <1>6
  <2>2. m - 1 \notin Bad
    BY <1>1, <2>1
  <2>3. PICK g : WritingFew(table, s, m - 1, g)
    BY <2>1, <2>2
  <2> DEFINE h == [d \in FewPlaces(s, m) |->
                     IF d = {} THEN table ELSE Plan!Upsert(g[d \ {Top(d)}], s[Top(d)])]
  <2>4. ASSUME NEW d \in FewPlaces(s, m), d # {}
        PROVE  d \ {Top(d)} \in FewPlaces(s, m - 1) /\ d \ {Top(d)} \in FewPlaces(s, m)
    <3>1. d \in SUBSET DOMAIN s /\ Cardinality(d) <= m
      BY DEF FewPlaces
    <3>2. Top(d) \in d
      BY <1>3, <2>4, <3>1, TopIsThere
    <3>3. Cardinality(d \ {Top(d)}) = Cardinality(d) - 1 /\ Cardinality(d) \in Nat
      BY <1>4, <3>1, <3>2, FS_RemoveElement
    <3>4. Cardinality(d \ {Top(d)}) <= m - 1 /\ Cardinality(d \ {Top(d)}) <= m
      BY <1>2, <3>1, <3>3
    <3> QED
      BY <3>1, <3>4 DEF FewPlaces
  <2>5. ASSUME NEW d \in FewPlaces(s, m - 1), d \in FewPlaces(s, m) PROVE h[d] = g[d]
    BY <2>3, <2>5 DEF WritingFew
  <2>6. ASSUME NEW d \in FewPlaces(s, m), d # {} PROVE h[d \ {Top(d)}] = g[d \ {Top(d)}]
    BY <2>4, <2>5, <2>6
  <2>7. h = [d \in FewPlaces(s, m) |->
               IF d = {} THEN table ELSE Plan!Upsert(h[d \ {Top(d)}], s[Top(d)])]
    BY <2>6
  <2>8. WritingFew(table, s, m, h)
    BY <2>7 DEF WritingFew
  <2> QED
    BY <1>2, <2>8
<1> QED
  BY <1>5, <1>6

\* Place by place.
LEMMA WritesStep ==
  ASSUME NEW table, NEW X, NEW s \in Seq(X)
  PROVE  /\ Writes(table, s)[1..0] = table
         /\ \A k \in 1..Len(s) : Writes(table, s)[1..k] = 
                               Plan!Upsert(Writes(table, s)[1..(k - 1)], s[k])
<1> DEFINE n == Len(s)
           f == Writes(table, s)
<1>1. n \in Nat /\ DOMAIN s = 1..n /\ IsFiniteSet(DOMAIN s) /\ Cardinality(DOMAIN s) = n
  BY FirstPlaces
<1>2. FewPlaces(s, n) = SUBSET DOMAIN s
  <2>1. ASSUME NEW d \in SUBSET DOMAIN s PROVE Cardinality(d) <= n
    BY <1>1, FS_Subset
  <2> QED
    BY <2>1 DEF FewPlaces
<1>3. PICK g : WritingFew(table, s, n, g)
  BY <1>1, WritesOfFewExist
<1>4. Writing(table, s, g)
  BY <1>2, <1>3 DEF Writing, WritingFew
<1>5. Writing(table, s, f)
  BY <1>4 DEF Writes
<1> HIDE DEF f
<1>6. f = [d \in SUBSET DOMAIN s |->
             IF d = {} THEN table ELSE Plan!Upsert(f[d \ {Top(d)}], s[Top(d)])]
  BY <1>5 DEF Writing
<1>7. 1..0 = {} /\ f[1..0] = table
  BY <1>6
<1>8. ASSUME NEW k \in 1..n
      PROVE  f[1..k] = Plan!Upsert(f[1..(k - 1)], s[k])
  <2>1. k \in Nat /\ k # 0
    BY <1>1
  <2>2. Top(1..k) = k /\ (1..k) \ {k} = 1..(k - 1) /\ k \in 1..k
    BY <2>1, TopOfFirst
  <2>3. 1..k \in SUBSET DOMAIN s /\ 1..k # {}
    BY <1>1, <2>2
  <2>4. f[1..k] = Plan!Upsert(f[(1..k) \ {Top(1..k)}], s[Top(1..k)])
    BY <1>6, <2>3
  <2> QED
    BY <2>2, <2>4
<1> QED
  BY <1>7, <1>8 DEF f

\* Tunnels of a plan get their back-end ports one after the other.
Giving(c, u, base, s, g) ==
    g = [d \in SUBSET DOMAIN s |->
           IF d = {} THEN base ELSE Plan!Give(c, u, g[d \ {Top(d)}], s[Top(d)])]

Gives(c, u, base, s) == CHOOSE g : Giving(c, u, base, s, g)

GivingFew(c, u, base, s, n, g) ==
    g = [d \in FewPlaces(s, n) |->
           IF d = {} THEN base ELSE Plan!Give(c, u, g[d \ {Top(d)}], s[Top(d)])]

LEMMA GivesOfFewExist ==
  ASSUME NEW c, NEW u, NEW base, NEW X, NEW s \in Seq(X), NEW n \in Nat
  PROVE  \E g : GivingFew(c, u, base, s, n, g)
<1> DEFINE Bad == {m \in Nat : ~ \E g : GivingFew(c, u, base, s, m, g)}
<1> SUFFICES ASSUME Bad # {} PROVE FALSE
  OBVIOUS
<1>1. PICK m \in Bad : \A k \in Bad : m <= k
  BY LeastNatural
<1>2. m \in Nat /\ ~ \E g : GivingFew(c, u, base, s, m, g)
  BY <1>1
<1>3. DOMAIN s = 1..Len(s) /\ Len(s) \in Nat /\ IsFiniteSet(DOMAIN s)
  BY FirstPlaces
<1>4. \A d \in SUBSET DOMAIN s : IsFiniteSet(d) /\ Cardinality(d) \in Nat
  BY <1>3, FS_Subset, FS_CardinalityType
<1>5. CASE m = 0
  <2>1. \A d \in FewPlaces(s, 0) : d = {}
    BY <1>4, FS_EmptySet DEF FewPlaces
  <2> DEFINE g == [d \in FewPlaces(s, 0) |-> base]
  <2>2. GivingFew(c, u, base, s, 0, g)
    BY <2>1 DEF GivingFew
  <2> QED
    BY <1>2, <1>5, <2>2
<1>6. CASE m # 0
  <2>1. m - 1 \in Nat /\ ~ (m <= m - 1)
    BY <1>2, <1>6
  <2>2. m - 1 \notin Bad
    BY <1>1, <2>1
  <2>3. PICK g : GivingFew(c, u, base, s, m - 1, g)
    BY <2>1, <2>2
  <2> DEFINE h == [d \in FewPlaces(s, m) |->
                     IF d = {} THEN base ELSE Plan!Give(c, u, g[d \ {Top(d)}], s[Top(d)])]
  <2>4. ASSUME NEW d \in FewPlaces(s, m), d # {}
        PROVE  d \ {Top(d)} \in FewPlaces(s, m - 1) /\ d \ {Top(d)} \in FewPlaces(s, m)
    <3>1. d \in SUBSET DOMAIN s /\ Cardinality(d) <= m
      BY DEF FewPlaces
    <3>2. Top(d) \in d
      BY <1>3, <2>4, <3>1, TopIsThere
    <3>3. Cardinality(d \ {Top(d)}) = Cardinality(d) - 1 /\ Cardinality(d) \in Nat
      BY <1>4, <3>1, <3>2, FS_RemoveElement
    <3>4. Cardinality(d \ {Top(d)}) <= m - 1 /\ Cardinality(d \ {Top(d)}) <= m
      BY <1>2, <3>1, <3>3
    <3> QED
      BY <3>1, <3>4 DEF FewPlaces
  <2>5. ASSUME NEW d \in FewPlaces(s, m - 1), d \in FewPlaces(s, m) PROVE h[d] = g[d]
    BY <2>3, <2>5 DEF GivingFew
  <2>6. ASSUME NEW d \in FewPlaces(s, m), d # {} PROVE h[d \ {Top(d)}] = g[d \ {Top(d)}]
    BY <2>4, <2>5, <2>6
  <2>7. h = [d \in FewPlaces(s, m) |->
               IF d = {} THEN base ELSE Plan!Give(c, u, h[d \ {Top(d)}], s[Top(d)])]
    BY <2>6
  <2>8. GivingFew(c, u, base, s, m, h)
    BY <2>7 DEF GivingFew
  <2> QED
    BY <1>2, <2>8
<1> QED
  BY <1>5, <1>6

\* Place by place.
LEMMA GivesStep ==
  ASSUME NEW c, NEW u, NEW base, NEW X, NEW s \in Seq(X)
  PROVE  /\ Gives(c, u, base, s)[1..0] = base
         /\ \A k \in 1..Len(s) : Gives(c, u, base, s)[1..k] = 
                               Plan!Give(c, u, Gives(c, u, base, s)[1..(k - 1)], s[k])
<1> DEFINE n == Len(s)
           f == Gives(c, u, base, s)
<1>1. n \in Nat /\ DOMAIN s = 1..n /\ IsFiniteSet(DOMAIN s) /\ Cardinality(DOMAIN s) = n
  BY FirstPlaces
<1>2. FewPlaces(s, n) = SUBSET DOMAIN s
  <2>1. ASSUME NEW d \in SUBSET DOMAIN s PROVE Cardinality(d) <= n
    BY <1>1, FS_Subset
  <2> QED
    BY <2>1 DEF FewPlaces
<1>3. PICK g : GivingFew(c, u, base, s, n, g)
  BY <1>1, GivesOfFewExist
<1>4. Giving(c, u, base, s, g)
  BY <1>2, <1>3 DEF Giving, GivingFew
<1>5. Giving(c, u, base, s, f)
  BY <1>4 DEF Gives
<1> HIDE DEF f
<1>6. f = [d \in SUBSET DOMAIN s |->
             IF d = {} THEN base ELSE Plan!Give(c, u, f[d \ {Top(d)}], s[Top(d)])]
  BY <1>5 DEF Giving
<1>7. 1..0 = {} /\ f[1..0] = base
  BY <1>6
<1>8. ASSUME NEW k \in 1..n
      PROVE  f[1..k] = Plan!Give(c, u, f[1..(k - 1)], s[k])
  <2>1. k \in Nat /\ k # 0
    BY <1>1
  <2>2. Top(1..k) = k /\ (1..k) \ {k} = 1..(k - 1) /\ k \in 1..k
    BY <2>1, TopOfFirst
  <2>3. 1..k \in SUBSET DOMAIN s /\ 1..k # {}
    BY <1>1, <2>2
  <2>4. f[1..k] = Plan!Give(c, u, f[(1..k) \ {Top(1..k)}], s[Top(1..k)])
    BY <1>6, <2>3
  <2> QED
    BY <2>2, <2>4
<1> QED
  BY <1>7, <1>8 DEF f

-----------------------------------------------------------------------------
(* TunnelPlan: the table.                                                  *)

\* Rows of distinct ids that can be written are in the table then, beside those
\* of other ids.
LEMMA WritesAll ==
  ASSUME NEW table, NEW X, NEW s \in Seq(X),
         \A i, j \in DOMAIN s : s[i].id = s[j].id => i = j,
         Writes(table, s)[DOMAIN s] # Failed
  PROVE  Writes(table, s)[DOMAIN s] =
            {r \in table : \A i \in DOMAIN s : r.id # s[i].id} \cup {s[i] : i \in DOMAIN s}
<1> DEFINE n == Len(s)
           W(k) == Writes(table, s)[1..k]
           All(k) == {r \in table : \A i \in 1..k : r.id # s[i].id} \cup {s[i] : i \in 1..k}
           Bad == {k \in 0..n : W(k) # Failed /\ W(k) # All(k)}
<1>1. n \in Nat /\ DOMAIN s = 1..n
  OBVIOUS
<1>2. W(0) = table /\ \A k \in 1..n : W(k) = Plan!Upsert(W(k - 1), s[k])
  BY WritesStep
<1> HIDE DEF W
<1>3. Bad = {}
  <2> SUFFICES ASSUME Bad # {} PROVE FALSE
    OBVIOUS
  <2>1. Bad \in SUBSET Nat
    BY <1>1
  <2>2. PICK m \in Bad : \A k \in Bad : m <= k
    BY <2>1, LeastNatural
  <2>3. m \in 0..n /\ W(m) # Failed /\ W(m) # All(m)
    BY <2>2
  <2>4. m # 0
    <3> SUFFICES ASSUME m = 0 PROVE FALSE
      OBVIOUS
    <3>1. 1..0 = {}
      OBVIOUS
    <3>2. All(0) = table
      BY <3>1
    <3> QED
      BY <1>2, <2>3, <3>2
  <2>5. m \in 1..n /\ m - 1 \in 0..n /\ ~ (m <= m - 1) /\ 1..m = (1..(m - 1)) \cup {m}
        /\ m \notin 1..(m - 1)
    BY <1>1, <2>3, <2>4
  <2>6. W(m) = Plan!Upsert(W(m - 1), s[m])
    BY <1>2, <2>5
  <2>7. /\ W(m - 1) # Failed
        /\ W(m) = {r \in W(m - 1) : r.id # s[m].id} \cup {s[m]}
    BY <2>3, <2>6 DEF Plan!Upsert
  <2>8. m - 1 \notin Bad
    BY <2>2, <2>5
  <2>9. W(m - 1) = All(m - 1)
    BY <2>5, <2>7, <2>8
  <2>10. \A i \in 1..(m - 1) : s[i].id # s[m].id
    BY <1>1, <2>5
  <2>11. W(m) = All(m)
    <3>1. ASSUME NEW r \in W(m) PROVE r \in All(m)
      BY <2>5, <2>7, <2>9, <3>1
    <3>2. ASSUME NEW r \in All(m) PROVE r \in W(m)
      BY <2>5, <2>7, <2>9, <2>10, <3>2
    <3> QED
      BY <3>1, <3>2
  <2> QED
    BY <2>3, <2>11
<1>4. n \in 0..n
  BY <1>1
<1>5. W(n) # Failed => W(n) = All(n)
  BY <1>3, <1>4
<1> QED
  BY <1>1, <1>5 DEF W

\* The table that write_snapshot leaves is what it was given, whatever was there.
LEMMA SnapshotIs ==
  ASSUME NEW table, NEW c, NEW X, Plan!InOrder(c) \in Seq(X),
         \A i, j \in DOMAIN Plan!InOrder(c) :
             Plan!InOrder(c)[i].id = Plan!InOrder(c)[j].id => i = j,
         Plan!WriteSnapshot(table, c) # Failed
  PROVE  Plan!WriteSnapshot(table, c) = Plan!ToSet(Plan!InOrder(c))
<1> DEFINE s == Plan!InOrder(c)
           before == {r \in table : c[r.user] # NoUser}
           written == Writes(before, s)[DOMAIN s]
<1>1. Plan!WriteSnapshot(table, c) =
        IF written = Failed THEN Failed
        ELSE {r \in written : \E t \in Plan!ToSet(s) : t.id = r.id}
  BY DEF Plan!WriteSnapshot, Writes, Writing, Plan!FoldLeft, Plan!MapThenFoldSet, Top
<1> HIDE DEF written
<1>2. written # Failed
  BY <1>1
<1> HIDE DEF s, before
<1>3. written = {r \in before : \A i \in DOMAIN s : r.id # s[i].id} \cup {s[i] : i \in DOMAIN s}
  BY <1>2, WritesAll DEF written, s
<1>4. {r \in written : \E t \in Plan!ToSet(s) : t.id = r.id} = Plan!ToSet(s)
  BY <1>3 DEF Plan!ToSet
<1> QED
  BY <1>1, <1>2, <1>4 DEF s

-----------------------------------------------------------------------------
(* TunnelPlan: all tunnels in their order.                                 *)

\* Sequences are joined one after the other.
Joining(ss, g) ==
    g = [i \in 1..Len(ss) |-> IF i = 1 THEN ss[i] ELSE g[i-1] \o ss[i]]

Joins(ss) == CHOOSE g : Joining(ss, g)

JoiningFirst(ss, n, g) ==
    g = [i \in 1..n |-> IF i = 1 THEN ss[i] ELSE g[i-1] \o ss[i]]

LEMMA JoinsOfFirstExist ==
  ASSUME NEW ss, NEW n \in Nat
  PROVE  \E g : JoiningFirst(ss, n, g)
<1> DEFINE Bad == {m \in Nat : ~ \E g : JoiningFirst(ss, m, g)}
<1> SUFFICES ASSUME Bad # {} PROVE FALSE
  OBVIOUS
<1>1. PICK m \in Bad : \A k \in Bad : m <= k
  BY LeastNatural
<1>2. m \in Nat /\ ~ \E g : JoiningFirst(ss, m, g)
  BY <1>1
<1>3. CASE m = 0
  <2> DEFINE g == [i \in 1..0 |-> ss[i]]
  <2>1. 1..0 = {}
    OBVIOUS
  <2>2. JoiningFirst(ss, 0, g)
    BY <2>1 DEF JoiningFirst
  <2> QED
    BY <1>2, <1>3, <2>2
<1>4. CASE m # 0
  <2>1. m - 1 \in Nat /\ ~ (m <= m - 1)
    BY <1>2, <1>4
  <2>2. m - 1 \notin Bad
    BY <1>1, <2>1
  <2>3. PICK g : JoiningFirst(ss, m - 1, g)
    BY <2>1, <2>2
  <2> DEFINE h == [i \in 1..m |-> IF i = 1 THEN ss[i] ELSE g[i-1] \o ss[i]]
  <2>4. ASSUME NEW i \in 1..(m - 1) PROVE h[i] = g[i]
    <3>1. i \in 1..m
      BY <1>2
    <3>2. g[i] = IF i = 1 THEN ss[i] ELSE g[i-1] \o ss[i]
      BY <2>3 DEF JoiningFirst
    <3> QED
      BY <3>1, <3>2
  <2>5. ASSUME NEW i \in 1..m, i # 1 PROVE h[i-1] = g[i-1]
    <3>1. i - 1 \in 1..(m - 1)
      BY <1>2, <2>5
    <3> QED
      BY <2>4, <3>1
  <2>6. h = [i \in 1..m |-> IF i = 1 THEN ss[i] ELSE h[i-1] \o ss[i]]
    BY <2>5
  <2>7. JoiningFirst(ss, m, h)
    BY <2>6 DEF JoiningFirst
  <2> QED
    BY <1>2, <2>7
<1> QED
  BY <1>3, <1>4

LEMMA JoinsStep ==
  ASSUME NEW X, NEW ss \in Seq(Seq(X))
  PROVE  \A i \in 1..Len(ss) :
            Joins(ss)[i] = IF i = 1 THEN ss[i] ELSE Joins(ss)[i-1] \o ss[i]
<1> DEFINE g == Joins(ss)
<1> DEFINE n == Len(ss)
<1>0. n \in Nat
  OBVIOUS
<1> HIDE DEF n
<1>1. \E f : JoiningFirst(ss, n, f)
  BY <1>0, JoinsOfFirstExist
<1> USE DEF n
<1>2. Joining(ss, g)
  BY <1>1 DEF Joins, Joining, JoiningFirst
<1> HIDE DEF g
<1>3. g = [i \in 1..Len(ss) |-> IF i = 1 THEN ss[i] ELSE g[i-1] \o ss[i]]
  BY <1>2 DEF Joining
<1>4. \A i \in 1..Len(ss) : g[i] = IF i = 1 THEN ss[i] ELSE g[i-1] \o ss[i]
  BY <1>3
<1> QED
  BY <1>4 DEF g

LEMMA JoinsAreSequences ==
  ASSUME NEW X, NEW ss \in Seq(Seq(X))
  PROVE  \A i \in 1..Len(ss) : Joins(ss)[i] \in Seq(X)
<1> DEFINE g == Joins(ss)
           Bad == {i \in 1..Len(ss) : g[i] \notin Seq(X)}
<1>1. \A i \in 1..Len(ss) : g[i] = IF i = 1 THEN ss[i] ELSE g[i-1] \o ss[i]
  BY JoinsStep
<1> HIDE DEF g
<1>2. SUFFICES ASSUME Bad # {} PROVE FALSE
  BY DEF g
<1>3. Bad \in SUBSET Nat
  OBVIOUS
<1>4. PICK m \in Bad : \A k \in Bad : m <= k
  BY <1>2, <1>3, LeastNatural
<1>5. m \in 1..Len(ss) /\ g[m] \notin Seq(X) /\ ss[m] \in Seq(X)
  BY <1>4
<1>6. m # 1
  BY <1>1, <1>5
<1>7. m - 1 \in 1..Len(ss) /\ ~ (m <= m - 1)
  BY <1>5, <1>6
<1>8. g[m - 1] \in Seq(X)
  BY <1>4, <1>7
<1>9. g[m] = g[m - 1] \o ss[m]
  BY <1>1, <1>5, <1>6
<1>10. g[m - 1] \o ss[m] \in Seq(X)
  BY <1>5, <1>8
<1> QED
  BY <1>5, <1>9, <1>10

\* Where the a-th of the k-th sequence comes.
Before(ss, k) == IF k = 1 THEN 0 ELSE Len(Joins(ss)[k-1])
At(ss, k, a) == Before(ss, k) + a

\* The first m sequences have their places in their join h, each one its own.
Fits(ss, m, h) ==
    \A k \in 1..m : \A a \in DOMAIN ss[k] :
       At(ss, k, a) \in DOMAIN h /\ h[At(ss, k, a)] = ss[k][a]
Fills(ss, m, h) ==
    \A p \in DOMAIN h : \E k \in 1..m : \E a \in DOMAIN ss[k] : p = At(ss, k, a)
Apart(ss, m) ==
    \A k, l \in 1..m : \A a \in DOMAIN ss[k], b \in DOMAIN ss[l] :
       At(ss, k, a) = At(ss, l, b) => k = l /\ a = b
Placed(ss, m, h) == Fits(ss, m, h) /\ Fills(ss, m, h) /\ Apart(ss, m)

LEMMA JoinedPlaces ==
  ASSUME NEW X, NEW s \in Seq(X), NEW t \in Seq(X)
  PROVE  /\ Len(s) \in Nat /\ DOMAIN s = 1..Len(s) /\ DOMAIN t = 1..Len(t) /\ Len(t) \in Nat
         /\ DOMAIN (s \o t) = 1..(Len(s) + Len(t))
         /\ \A p \in 1..Len(s) : (s \o t)[p] = s[p]
         /\ \A a \in 1..Len(t) : (s \o t)[Len(s) + a] = t[a]
<1>1. Len(s) \in Nat /\ DOMAIN s = 1..Len(s) /\ DOMAIN t = 1..Len(t) /\ Len(t) \in Nat
  OBVIOUS
<1>2. /\ s \o t \in Seq(X) /\ Len(s \o t) = Len(s) + Len(t)
      /\ \A i \in 1..(Len(s) + Len(t)) :
            (s \o t)[i] = IF i <= Len(s) THEN s[i] ELSE t[i - Len(s)]
  BY ConcatProperties
<1>3. ASSUME NEW a \in 1..Len(t) PROVE (s \o t)[Len(s) + a] = t[a]
  <2>1. /\ Len(s) + a \in 1..(Len(s) + Len(t)) /\ ~ (Len(s) + a <= Len(s))
        /\ (Len(s) + a) - Len(s) = a
    BY <1>1
  <2> QED
    BY <1>2, <2>1
<1>4. ASSUME NEW p \in 1..Len(s) PROVE (s \o t)[p] = s[p]
  BY <1>1, <1>2
<1> QED
  BY <1>1, <1>2, <1>3, <1>4

LEMMA PlacedStep ==
  ASSUME NEW X, NEW ss, NEW m \in Nat, m # 0, NEW h \in Seq(X), ss[m] \in Seq(X),
         Before(ss, m) = Len(h), Placed(ss, m - 1, h)
  PROVE  Placed(ss, m, h \o ss[m])
<1>1. PICK t : t = ss[m]
  OBVIOUS
<1>2. PICK j : j = h \o t
  OBVIOUS
<1>3. t \in Seq(X)
  BY <1>1
<1>4. PICK w, n : w = Len(h) /\ n = Len(t)
  OBVIOUS
<1>5. /\ w \in Nat /\ n \in Nat /\ DOMAIN h = 1..w /\ DOMAIN t = 1..n
      /\ DOMAIN j = 1..(w + n)
      /\ \A p \in 1..w : j[p] = h[p]
      /\ \A a \in 1..n : j[w + a] = t[a]
  BY <1>2, <1>3, <1>4, JoinedPlaces
<1>6. \A a : At(ss, m, a) = w + a
  BY <1>4 DEF At
<1>7. /\ 1..m = (1..(m - 1)) \cup {m} /\ m \notin 1..(m - 1)
  OBVIOUS
<1>8. \A k \in 1..(m - 1) : \A a \in DOMAIN ss[k] :
         At(ss, k, a) \in 1..w /\ h[At(ss, k, a)] = ss[k][a]
  BY <1>5 DEF Placed, Fits
<1>9. \A p \in 1..w : \E k \in 1..(m - 1) : \E a \in DOMAIN ss[k] : p = At(ss, k, a)
  BY <1>5 DEF Placed, Fills
<1>10. \A k, l \in 1..(m - 1) : \A a \in DOMAIN ss[k], b \in DOMAIN ss[l] :
          At(ss, k, a) = At(ss, l, b) => k = l /\ a = b
  BY DEF Placed, Apart
<1>11. ASSUME NEW k \in 1..m, NEW a \in DOMAIN ss[k]
       PROVE  At(ss, k, a) \in DOMAIN j /\ j[At(ss, k, a)] = ss[k][a]
  <2>1. CASE k = m
    <3>1. a \in 1..n /\ At(ss, k, a) = w + a /\ ss[k] = t
      BY <1>1, <1>5, <1>6, <2>1
    <3>2. w + a \in 1..(w + n) /\ j[w + a] = t[a]
      BY <1>5, <3>1
    <3> QED
      BY <1>5, <3>1, <3>2
  <2>2. CASE k # m
    <3>1. At(ss, k, a) \in 1..w /\ h[At(ss, k, a)] = ss[k][a]
      BY <1>7, <1>8, <2>2
    <3>2. At(ss, k, a) \in 1..(w + n)
      BY <1>5, <3>1
    <3> QED
      BY <1>5, <3>1, <3>2
  <2> QED
    BY <2>1, <2>2
<1>12. ASSUME NEW p \in DOMAIN j
       PROVE  \E k \in 1..m : \E a \in DOMAIN ss[k] : p = At(ss, k, a)
  <2>1. CASE p <= w
    <3>1. p \in 1..w
      BY <1>5, <2>1
    <3> QED
      BY <1>7, <1>9, <3>1
  <2>2. CASE ~ (p <= w)
    <3>1. p - w \in 1..n /\ p = w + (p - w)
      BY <1>5, <2>2
    <3>2. p - w \in DOMAIN ss[m] /\ p = At(ss, m, p - w)
      BY <1>1, <1>5, <1>6, <3>1
    <3> QED
      BY <1>7, <3>2
  <2> QED
    BY <2>1, <2>2
<1>13. ASSUME NEW k \in 1..m, NEW l \in 1..m, NEW a \in DOMAIN ss[k], NEW b \in DOMAIN ss[l],
              At(ss, k, a) = At(ss, l, b)
       PROVE  k = l /\ a = b
  <2>1. CASE k = m /\ l = m
    <3>1. a \in 1..n /\ b \in 1..n
      BY <1>1, <1>5, <2>1
    <3>2. w + a = w + b
      BY <1>6, <1>13, <2>1
    <3> QED
      BY <1>5, <2>1, <3>1, <3>2
  <2>2. CASE k # m /\ l # m
    BY <1>7, <1>10, <1>13, <2>2
  <2>3. CASE k = m /\ l # m
    <3>1. At(ss, l, b) \in 1..w
      BY <1>7, <1>8, <2>3
    <3>2. a \in 1..n /\ At(ss, k, a) = w + a
      BY <1>1, <1>5, <1>6, <2>3
    <3> QED
      BY <1>5, <1>13, <3>1, <3>2
  <2>4. CASE k # m /\ l = m
    <3>1. At(ss, k, a) \in 1..w
      BY <1>7, <1>8, <2>4
    <3>2. b \in 1..n /\ At(ss, l, b) = w + b
      BY <1>1, <1>5, <1>6, <2>4
    <3> QED
      BY <1>5, <1>13, <3>1, <3>2
  <2> QED
    BY <2>1, <2>2, <2>3, <2>4
<1>14. Fits(ss, m, j)
  BY <1>11 DEF Fits
<1>15. Fills(ss, m, j)
  BY <1>12 DEF Fills
<1>16. Apart(ss, m)
  BY <1>13 DEF Apart
<1>17. Placed(ss, m, j)
  BY <1>14, <1>15, <1>16 DEF Placed
<1> QED
  BY <1>1, <1>2, <1>17

LEMMA PlacedFirst ==
  ASSUME NEW X, NEW ss, ss[1] \in Seq(X)
  PROVE  Placed(ss, 1, ss[1])
<1>1. PICK h : h = ss[1]
  OBVIOUS
<1>2. \A a \in DOMAIN h : At(ss, 1, a) = a
  <2>1. Before(ss, 1) = 0
    BY DEF Before
  <2>2. ASSUME NEW a \in DOMAIN h PROVE At(ss, 1, a) = a
    <3>1. a \in Nat
      BY <1>1
    <3>2. At(ss, 1, a) = 0 + a
      BY <2>1 DEF At
    <3> QED
      BY <3>1, <3>2
  <2> QED
    BY <2>2
<1>3. 1..1 = {1}
  OBVIOUS
<1>4. Fits(ss, 1, h)
  BY <1>1, <1>2, <1>3 DEF Fits
<1>5. Fills(ss, 1, h)
  BY <1>1, <1>2, <1>3 DEF Fills
<1>6. Apart(ss, 1)
  BY <1>1, <1>2, <1>3 DEF Apart
<1> QED
  BY <1>1, <1>4, <1>5, <1>6 DEF Placed

LEMMA JoinsPlaced ==
  ASSUME NEW X, NEW ss \in Seq(Seq(X))
  PROVE  \A m \in 1..Len(ss) : Placed(ss, m, Joins(ss)[m])
<1> DEFINE g == Joins(ss)
           Bad == {m \in 1..Len(ss) : ~ Placed(ss, m, g[m])}
<1>1. /\ \A i \in 1..Len(ss) : g[i] = IF i = 1 THEN ss[i] ELSE g[i-1] \o ss[i]
      /\ \A i \in 1..Len(ss) : g[i] \in Seq(X)
  BY JoinsStep, JoinsAreSequences
<1>2. \A k : k # 1 => Before(ss, k) = Len(g[k-1])
  BY DEF Before
<1> HIDE DEF g
<1>3. SUFFICES ASSUME Bad # {} PROVE FALSE
  BY DEF g
<1>4. Bad \in SUBSET Nat
  OBVIOUS
<1>5. PICK m \in Bad : \A k \in Bad : m <= k
  BY <1>3, <1>4, LeastNatural
<1>6. m \in 1..Len(ss) /\ ~ Placed(ss, m, g[m]) /\ ss[m] \in Seq(X) /\ m \in Nat /\ m # 0
  BY <1>5
<1>7. m # 1
  BY <1>1, <1>6, PlacedFirst
<1>8. m - 1 \in 1..Len(ss) /\ ~ (m <= m - 1)
  BY <1>6, <1>7
<1>9. Placed(ss, m - 1, g[m - 1])
  BY <1>5, <1>8
<1>10. g[m] = g[m - 1] \o ss[m] /\ g[m - 1] \in Seq(X) /\ Before(ss, m) = Len(g[m - 1])
  BY <1>1, <1>2, <1>6, <1>7, <1>8
<1>11. Placed(ss, m, g[m - 1] \o ss[m])
  BY <1>6, <1>9, <1>10, PlacedStep
<1> QED
  BY <1>6, <1>10, <1>11

-----------------------------------------------------------------------------
(* TunnelPlan: configurations.                                             *)

Entry == [limit : 0 .. MaxPlan, tunnels : Seq(Plan!Tunnels)]
Configs == [Plan!Users -> {NoUser} \cup Entry]

RowOf(t, u) ==
    [id |-> t.id, protocol |-> t.protocol, port |-> t.port, backend |-> t.backend, user |-> u]

\* The i-th tunnel of u, and its place among all.
Has(c, u) == DOMAIN c[u].tunnels
Tunnel(c, u, i) == c[u].tunnels[i]
PartsOf(c) ==
    [k \in DOMAIN UserOrder |->
        LET u == UserOrder[k] IN
        IF c[u] = NoUser THEN <<>>
        ELSE [j \in DOMAIN c[u].tunnels |->
                LET t == c[u].tunnels[j] IN
                [id |-> t.id, protocol |-> t.protocol, port |-> t.port,
                 backend |-> t.backend, user |-> u]]]
PlaceOf(c, u, i) == At(PartsOf(c), CHOOSE k \in DOMAIN UserOrder : UserOrder[k] = u, i)

\* Constants.
LEMMA OrderOfUsers ==
  /\ UserOrder \in Seq(Plan!Users) /\ DOMAIN UserOrder = 1..Len(UserOrder)
  /\ Len(UserOrder) \in Nat
  /\ \A k \in DOMAIN UserOrder : UserOrder[k] \in Plan!Users
  /\ \A u \in Plan!Users : \E k \in DOMAIN UserOrder : UserOrder[k] = u
  /\ \A k, l \in DOMAIN UserOrder : UserOrder[k] = UserOrder[l] => k = l
<1>1. PICK X : UserOrder \in Seq(X)
  BY PlanConstants
<1>2. DOMAIN UserOrder = 1..Len(UserOrder) /\ Len(UserOrder) \in Nat
  BY <1>1
<1>3. Plan!Users = {UserOrder[k] : k \in DOMAIN UserOrder}
  BY DEF Plan!Users, Plan!ToSet
<1>4. \A k, l \in DOMAIN UserOrder : UserOrder[k] = UserOrder[l] => k = l
  BY PlanConstants DEF Plan!IsInjective
<1>5. UserOrder \in Seq(Plan!Users)
  <2>1. \A k \in 1..Len(UserOrder) : UserOrder[k] \in Plan!Users
    BY <1>2, <1>3
  <2>2. UserOrder = [k \in 1..Len(UserOrder) |-> UserOrder[k]]
    BY <1>1
  <2> QED
    BY <1>2, <2>1, <2>2, IsASeq
<1> QED
  BY <1>2, <1>3, <1>4, <1>5

LEMMA EntryOf ==
  ASSUME NEW c \in Configs, NEW u \in Plan!Present(c)
  PROVE  /\ u \in Plan!Users /\ c[u] # NoUser /\ c[u] \in Entry /\ c[u].limit \in 0 .. MaxPlan
         /\ c[u].tunnels \in Seq(Plan!Tunnels)
         /\ Has(c, u) = 1..Len(c[u].tunnels) /\ Len(c[u].tunnels) \in Nat
         /\ \A i \in Has(c, u) : Tunnel(c, u, i) \in Plan!Tunnels
<1>1. u \in Plan!Users /\ c[u] # NoUser /\ c[u] \in Entry
  BY DEF Plan!Present, Configs
<1>2. c[u].limit \in 0 .. MaxPlan /\ c[u].tunnels \in Seq(Plan!Tunnels)
  BY <1>1 DEF Entry
<1> QED
  BY <1>1, <1>2 DEF Has, Tunnel

LEMMA PartsAre ==
  ASSUME NEW c \in Configs
  PROVE  /\ PartsOf(c) \in Seq(Seq(Plan!Rows)) /\ Len(PartsOf(c)) = Len(UserOrder)
         /\ \A k \in DOMAIN UserOrder :
              /\ UserOrder[k] \notin Plan!Present(c) => PartsOf(c)[k] = <<>>
              /\ UserOrder[k] \in Plan!Present(c) =>
                   PartsOf(c)[k] = [j \in Has(c, UserOrder[k]) |->
                                    RowOf(Tunnel(c, UserOrder[k], j), UserOrder[k])]
<1>1. ASSUME NEW k \in DOMAIN UserOrder, UserOrder[k] \notin Plan!Present(c)
      PROVE  PartsOf(c)[k] = <<>>
  <2>1. c[UserOrder[k]] = NoUser
    BY <1>1, OrderOfUsers DEF Plan!Present
  <2> QED
    BY <2>1 DEF PartsOf
<1>2. ASSUME NEW k \in DOMAIN UserOrder, UserOrder[k] \in Plan!Present(c)
      PROVE  PartsOf(c)[k] = [j \in Has(c, UserOrder[k]) |->
                              RowOf(Tunnel(c, UserOrder[k], j), UserOrder[k])]
  <2>1. c[UserOrder[k]] # NoUser
    BY <1>2, EntryOf
  <2> QED
    BY <2>1 DEF PartsOf, Has, Tunnel, RowOf
<1>3. ASSUME NEW k \in DOMAIN UserOrder PROVE PartsOf(c)[k] \in Seq(Plan!Rows)
  <2>1. CASE UserOrder[k] \notin Plan!Present(c)
    <3>1. <<>> \in Seq(Plan!Rows)
      BY EmptySeq
    <3> QED
      BY <1>1, <2>1, <3>1
  <2>2. CASE UserOrder[k] \in Plan!Present(c)
    <3>1. PICK u \in Plan!Present(c) : u = UserOrder[k]
      BY <2>2
    <3>2. PartsOf(c)[k] = [j \in 1..Len(c[u].tunnels) |-> RowOf(Tunnel(c, u, j), u)]
      BY <1>2, <3>1, EntryOf
    <3>3. ASSUME NEW j \in 1..Len(c[u].tunnels) PROVE RowOf(Tunnel(c, u, j), u) \in Plan!Rows
      <4>1. Tunnel(c, u, j) \in Plan!Tunnels /\ u \in Plan!Users
        BY EntryOf
      <4> QED
        BY <4>1 DEF RowOf, Plan!Tunnels, Plan!Rows
    <3>4. Len(c[u].tunnels) \in Nat
      BY EntryOf
    <3> QED
      BY <3>2, <3>3, <3>4, IsASeq
  <2> QED
    BY <2>1, <2>2
<1>4. PartsOf(c) = [k \in 1..Len(UserOrder) |-> PartsOf(c)[k]] /\ Len(UserOrder) \in Nat
  BY OrderOfUsers DEF PartsOf
<1>5. PartsOf(c) \in Seq(Seq(Plan!Rows))
  BY <1>3, <1>4, OrderOfUsers, IsASeq
<1>6. Len(PartsOf(c)) = Len(UserOrder)
  BY <1>4, <1>5
<1> QED
  BY <1>1, <1>2, <1>5, <1>6

LEMMA InOrderIs ==
  ASSUME NEW c \in Configs
  PROVE  /\ Plan!InOrder(c) \in Seq(Plan!Rows)
         /\ Plan!InOrder(c) =
              IF Len(PartsOf(c)) = 0 THEN <<>> ELSE Joins(PartsOf(c))[Len(PartsOf(c))]
<1>1. Plan!InOrder(c) =
        IF Len(PartsOf(c)) = 0 THEN PartsOf(c) ELSE Joins(PartsOf(c))[Len(PartsOf(c))]
  BY DEF Plan!InOrder, Plan!FlattenSeq, Joins, Joining, PartsOf
<1>2. PartsOf(c) \in Seq(Seq(Plan!Rows))
  BY PartsAre
<1>3. Len(PartsOf(c)) = 0 => PartsOf(c) = <<>>
  BY <1>2, EmptySeq
<1>4. Len(PartsOf(c)) # 0 => Joins(PartsOf(c))[Len(PartsOf(c))] \in Seq(Plan!Rows)
  <2>1. Len(PartsOf(c)) # 0 => Len(PartsOf(c)) \in 1..Len(PartsOf(c))
    BY <1>2
  <2> QED
    BY <1>2, <2>1, JoinsAreSequences
<1>5. <<>> \in Seq(Plan!Rows)
  BY EmptySeq
<1> QED
  BY <1>1, <1>3, <1>4, <1>5

\* Every tunnel of every user has a place of its own, and there are no others.
LEMMA PlacesOfTunnels ==
  ASSUME NEW c \in Configs
  PROVE  /\ \A u \in Plan!Present(c) : \A i \in Has(c, u) :
              /\ PlaceOf(c, u, i) \in DOMAIN Plan!InOrder(c)
              /\ Plan!InOrder(c)[PlaceOf(c, u, i)] = RowOf(Tunnel(c, u, i), u)
         /\ \A p \in DOMAIN Plan!InOrder(c) :
              \E u \in Plan!Present(c) : \E i \in Has(c, u) : p = PlaceOf(c, u, i)
         /\ \A u, v \in Plan!Present(c) : \A i \in Has(c, u), j \in Has(c, v) :
              PlaceOf(c, u, i) = PlaceOf(c, v, j) => u = v /\ i = j
<1>1. PICK ss, all, n : ss = PartsOf(c) /\ all = Plan!InOrder(c) /\ n = Len(UserOrder)
  OBVIOUS
<1>2. DOMAIN UserOrder = 1..n /\ n \in Nat
  BY <1>1, OrderOfUsers
<1>3. n = 0 => all = <<>>
  BY <1>1, InOrderIs, PartsAre
<1>4. n # 0 => Fits(ss, n, all) /\ Fills(ss, n, all) /\ Apart(ss, n)
  <2> SUFFICES ASSUME n # 0 PROVE Placed(ss, n, all)
    BY DEF Placed
  <2>1. ss \in Seq(Seq(Plan!Rows)) /\ Len(ss) = n /\ all = Joins(ss)[n] /\ n \in 1..Len(ss)
    BY <1>1, <1>2, InOrderIs, PartsAre
  <2> QED
    BY <2>1, JoinsPlaced
<1> DEFINE K(u) == CHOOSE k \in DOMAIN UserOrder : UserOrder[k] = u
<1>5. \A u \in Plan!Users : K(u) \in DOMAIN UserOrder /\ UserOrder[K(u)] = u
  BY OrderOfUsers
<1>6. \A u, i : PlaceOf(c, u, i) = At(ss, K(u), i)
  BY <1>1 DEF PlaceOf
<1> HIDE DEF K
<1>7. ASSUME NEW u \in Plan!Present(c)
      PROVE  /\ K(u) \in 1..n /\ n # 0 /\ UserOrder[K(u)] = u
             /\ DOMAIN ss[K(u)] = Has(c, u)
             /\ \A i \in Has(c, u) : ss[K(u)][i] = RowOf(Tunnel(c, u, i), u)
  <2>1. K(u) \in DOMAIN UserOrder /\ UserOrder[K(u)] = u
    BY <1>5, EntryOf
  <2>2. ss[K(u)] = [j \in Has(c, u) |-> RowOf(Tunnel(c, u, j), u)]
    BY <1>1, <2>1, PartsAre
  <2>3. K(u) \in 1..n /\ n # 0
    BY <1>2, <2>1
  <2> QED
    BY <2>1, <2>2, <2>3
<1>8. ASSUME NEW u \in Plan!Present(c), NEW i \in Has(c, u)
      PROVE  /\ PlaceOf(c, u, i) \in DOMAIN all
             /\ all[PlaceOf(c, u, i)] = RowOf(Tunnel(c, u, i), u)
  <2>1. K(u) \in 1..n /\ i \in DOMAIN ss[K(u)] /\ Fits(ss, n, all)
    BY <1>4, <1>7
  <2>2. At(ss, K(u), i) \in DOMAIN all /\ all[At(ss, K(u), i)] = ss[K(u)][i]
    BY <2>1 DEF Fits
  <2> QED
    BY <1>6, <1>7, <2>2
<1>9. ASSUME NEW p \in DOMAIN all
      PROVE  \E u \in Plan!Present(c) : \E i \in Has(c, u) : p = PlaceOf(c, u, i)
  <2>1. n # 0
    BY <1>3
  <2>2. PICK k \in 1..n : \E i \in DOMAIN ss[k] : p = At(ss, k, i)
    BY <1>4, <2>1 DEF Fills
  <2>3. PICK i \in DOMAIN ss[k] : p = At(ss, k, i)
    BY <2>2
  <2>4. PICK u : u = UserOrder[k]
    OBVIOUS
  <2>5. k \in DOMAIN UserOrder /\ u \in Plan!Users /\ K(u) = k
    BY <1>2, <1>5, <2>4, OrderOfUsers
  <2>6. u \in Plan!Present(c)
    <3> SUFFICES ASSUME u \notin Plan!Present(c) PROVE FALSE
      OBVIOUS
    <3>1. ss[k] = <<>>
      BY <1>1, <2>4, <2>5, PartsAre
    <3> QED
      BY <2>3, <3>1
  <2>7. i \in Has(c, u) /\ p = PlaceOf(c, u, i)
    BY <1>6, <1>7, <2>3, <2>5, <2>6
  <2> QED
    BY <2>6, <2>7
<1>10. ASSUME NEW u \in Plan!Present(c), NEW v \in Plan!Present(c),
              NEW i \in Has(c, u), NEW j \in Has(c, v), PlaceOf(c, u, i) = PlaceOf(c, v, j)
       PROVE  u = v /\ i = j
  <2>1. /\ K(u) \in 1..n /\ i \in DOMAIN ss[K(u)] /\ K(v) \in 1..n /\ j \in DOMAIN ss[K(v)]
        /\ Apart(ss, n) /\ UserOrder[K(u)] = u /\ UserOrder[K(v)] = v
    BY <1>4, <1>7
  <2>2. At(ss, K(u), i) = At(ss, K(v), j)
    BY <1>6, <1>10
  <2>3. K(u) = K(v) /\ i = j
    BY <2>1, <2>2 DEF Apart
  <2> QED
    BY <2>1, <2>3
<1> QED
  BY <1>1, <1>8, <1>9, <1>10

\* What validating a whole configuration asks, tunnel by tunnel.
OwnProxies(c) ==
    \A u, v \in Plan!Present(c) : \A i \in Has(c, u), j \in Has(c, v) :
       Plan!Proxy(Tunnel(c, u, i)) = Plan!Proxy(Tunnel(c, v, j)) => u = v /\ i = j
OwnEndpoints(c) ==
    \A u, v \in Plan!Present(c) : \A i \in Has(c, u), j \in Has(c, v) :
       Plan!Endpoint(Tunnel(c, u, i)) = Plan!Endpoint(Tunnel(c, v, j)) => u = v /\ i = j
OwnBackends(c) ==
    \A u, v \in Plan!Present(c) : \A i \in Has(c, u), j \in Has(c, v) :
       Tunnel(c, u, i).backend = Tunnel(c, v, j).backend => u = v /\ i = j
Unreserved(c) ==
    \A u \in Plan!Present(c) : \A i \in Has(c, u) :
       Tunnel(c, u, i).port \notin Reserved /\ Tunnel(c, u, i).backend \notin Reserved
PortsApart(c) ==
    \A u, v \in Plan!Present(c) : \A i \in Has(c, u), j \in Has(c, v) :
       Tunnel(c, u, i).port # Tunnel(c, v, j).backend
InLimits(c) == \A u \in Plan!Present(c) : Len(c[u].tunnels) <= MaxPlan

PlanSound(c) ==
    /\ OwnProxies(c) /\ OwnEndpoints(c) /\ OwnBackends(c)
    /\ Unreserved(c) /\ PortsApart(c) /\ InLimits(c)

LEMMA RowIs ==
  ASSUME NEW t \in Plan!Tunnels, NEW u \in Plan!Users
  PROVE  /\ RowOf(t, u) \in Plan!Rows
         /\ RowOf(t, u).id = t.id /\ RowOf(t, u).port = t.port /\ RowOf(t, u).user = u
         /\ RowOf(t, u).backend = t.backend /\ RowOf(t, u).protocol = t.protocol
         /\ Plan!Proxy(RowOf(t, u)) = Plan!Proxy(t)
         /\ Plan!Endpoint(RowOf(t, u)) = Plan!Endpoint(t)
         /\ t.port \in Ports /\ t.backend \in Pool /\ t.id \in Ids /\ t.protocol \in Protocols
BY DEF RowOf, Plan!Tunnels, Plan!Rows, Plan!Proxy, Plan!Endpoint

\* Distinct places are distinct tunnels, whatever f tells them apart by.
LEMMA DistinctPlaces ==
  ASSUME NEW c \in Configs, NEW f
  PROVE  (\A p, q \in DOMAIN Plan!InOrder(c) :
            f[Plan!InOrder(c)[p]] = f[Plan!InOrder(c)[q]] => p = q)
         <=> (\A u, v \in Plan!Present(c) : \A i \in Has(c, u), j \in Has(c, v) :
                f[RowOf(Tunnel(c, u, i), u)] = f[RowOf(Tunnel(c, v, j), v)] => u = v /\ i = j)
<1>1. PICK all : all = Plan!InOrder(c)
  OBVIOUS
<1>2. \A u \in Plan!Present(c) : \A i \in Has(c, u) :
         PlaceOf(c, u, i) \in DOMAIN all /\ all[PlaceOf(c, u, i)] = RowOf(Tunnel(c, u, i), u)
  BY <1>1, PlacesOfTunnels
<1>3. \A p \in DOMAIN all : \E u \in Plan!Present(c) : \E i \in Has(c, u) : p = PlaceOf(c, u, i)
  BY <1>1, PlacesOfTunnels
<1>4. \A u, v \in Plan!Present(c) : \A i \in Has(c, u), j \in Has(c, v) :
         PlaceOf(c, u, i) = PlaceOf(c, v, j) => u = v /\ i = j
  BY PlacesOfTunnels
<1>5. ASSUME \A p, q \in DOMAIN all : f[all[p]] = f[all[q]] => p = q,
             NEW u \in Plan!Present(c), NEW v \in Plan!Present(c),
             NEW i \in Has(c, u), NEW j \in Has(c, v),
             f[RowOf(Tunnel(c, u, i), u)] = f[RowOf(Tunnel(c, v, j), v)]
      PROVE  u = v /\ i = j
  <2>1. PICK p \in DOMAIN all : p = PlaceOf(c, u, i) /\ all[p] = RowOf(Tunnel(c, u, i), u)
    BY <1>2
  <2>2. PICK q \in DOMAIN all : q = PlaceOf(c, v, j) /\ all[q] = RowOf(Tunnel(c, v, j), v)
    BY <1>2
  <2>3. p = q
    BY <1>5, <2>1, <2>2
  <2>4. PlaceOf(c, u, i) = PlaceOf(c, v, j)
    BY <2>1, <2>2, <2>3
  <2> QED
    BY <1>4, <2>4
<1>6. ASSUME \A u, v \in Plan!Present(c) : \A i \in Has(c, u), j \in Has(c, v) :
                f[RowOf(Tunnel(c, u, i), u)] = f[RowOf(Tunnel(c, v, j), v)] => u = v /\ i = j,
             NEW p \in DOMAIN all, NEW q \in DOMAIN all, f[all[p]] = f[all[q]]
      PROVE  p = q
  <2>1. PICK u \in Plan!Present(c) : \E i \in Has(c, u) : p = PlaceOf(c, u, i)
    BY <1>3
  <2>2. PICK i \in Has(c, u) : p = PlaceOf(c, u, i)
    BY <2>1
  <2>3. PICK v \in Plan!Present(c) : \E j \in Has(c, v) : q = PlaceOf(c, v, j)
    BY <1>3
  <2>4. PICK j \in Has(c, v) : q = PlaceOf(c, v, j)
    BY <2>3
  <2>5. f[RowOf(Tunnel(c, u, i), u)] = f[RowOf(Tunnel(c, v, j), v)]
    BY <1>2, <1>6, <2>2, <2>4
  <2>6. u = v /\ i = j
    BY <1>6, <2>5
  <2> QED
    BY <2>2, <2>4, <2>6
<1> QED
  BY <1>1, <1>5, <1>6

LEMMA RowsInOrder ==
  ASSUME NEW c \in Configs
  PROVE  /\ \A u \in Plan!Present(c) : \A i \in Has(c, u) :
              RowOf(Tunnel(c, u, i), u) \in Plan!ToSet(Plan!InOrder(c))
         /\ \A r \in Plan!ToSet(Plan!InOrder(c)) :
              \E u \in Plan!Present(c) : \E i \in Has(c, u) : r = RowOf(Tunnel(c, u, i), u)
<1>1. PICK all : all = Plan!InOrder(c)
  OBVIOUS
<1>2. /\ \A u \in Plan!Present(c) : \A i \in Has(c, u) :
           PlaceOf(c, u, i) \in DOMAIN all /\ all[PlaceOf(c, u, i)] = RowOf(Tunnel(c, u, i), u)
      /\ \A p \in DOMAIN all :
           \E u \in Plan!Present(c) : \E i \in Has(c, u) : p = PlaceOf(c, u, i)
  BY <1>1, PlacesOfTunnels
<1>3. Plan!ToSet(all) = {all[p] : p \in DOMAIN all}
  BY DEF Plan!ToSet
<1>4. ASSUME NEW u \in Plan!Present(c), NEW i \in Has(c, u)
      PROVE  RowOf(Tunnel(c, u, i), u) \in Plan!ToSet(all)
  <2>1. PlaceOf(c, u, i) \in DOMAIN all /\ all[PlaceOf(c, u, i)] = RowOf(Tunnel(c, u, i), u)
    BY <1>2
  <2> QED
    BY <1>3, <2>1
<1>5. ASSUME NEW r \in Plan!ToSet(all)
      PROVE  \E u \in Plan!Present(c) : \E i \in Has(c, u) : r = RowOf(Tunnel(c, u, i), u)
  <2>1. PICK p \in DOMAIN all : r = all[p]
    BY <1>3
  <2>2. PICK u \in Plan!Present(c) : \E i \in Has(c, u) : p = PlaceOf(c, u, i)
    BY <1>2
  <2>3. PICK i \in Has(c, u) : p = PlaceOf(c, u, i)
    BY <2>2
  <2>4. r = RowOf(Tunnel(c, u, i), u)
    BY <1>2, <2>1, <2>3
  <2> QED
    BY <2>4
<1> QED
  BY <1>1, <1>4, <1>5

LEMMA DistinctByIs ==
  ASSUME NEW c \in Configs
  PROVE  /\ Plan!DistinctBy(Plan!Proxy, Plan!InOrder(c)) <=> OwnProxies(c)
         /\ Plan!DistinctBy(Plan!Endpoint, Plan!InOrder(c)) <=> OwnEndpoints(c)
         /\ Plan!DistinctBy(Plan!Backend, Plan!InOrder(c)) <=> OwnBackends(c)
<1>1. \A p \in DOMAIN Plan!InOrder(c) : Plan!InOrder(c)[p] \in Plan!Rows
  BY InOrderIs
<1>2. \A u \in Plan!Present(c) : \A i \in Has(c, u) :
         /\ RowOf(Tunnel(c, u, i), u) \in Plan!Rows
         /\ RowOf(Tunnel(c, u, i), u).backend = Tunnel(c, u, i).backend
         /\ Plan!Proxy(RowOf(Tunnel(c, u, i), u)) = Plan!Proxy(Tunnel(c, u, i))
         /\ Plan!Endpoint(RowOf(Tunnel(c, u, i), u)) = Plan!Endpoint(Tunnel(c, u, i))
  BY EntryOf, RowIs
<1>3. Plan!DistinctBy(Plan!Proxy, Plan!InOrder(c)) <=> OwnProxies(c)
  <2> DEFINE f == [r \in Plan!Rows |-> Plan!Proxy(r)]
  <2>1. \A r \in Plan!Rows : f[r] = Plan!Proxy(r)
    OBVIOUS
  <2> HIDE DEF f
  <2>2. (\A p, q \in DOMAIN Plan!InOrder(c) :
            f[Plan!InOrder(c)[p]] = f[Plan!InOrder(c)[q]] => p = q)
         <=> (\A u, v \in Plan!Present(c) : \A i \in Has(c, u), j \in Has(c, v) :
                f[RowOf(Tunnel(c, u, i), u)] = f[RowOf(Tunnel(c, v, j), v)] => u = v /\ i = j)
    BY DistinctPlaces
  <2>3. Plan!DistinctBy(Plan!Proxy, Plan!InOrder(c)) <=>
          \A p, q \in DOMAIN Plan!InOrder(c) :
            f[Plan!InOrder(c)[p]] = f[Plan!InOrder(c)[q]] => p = q
    BY <1>1, <2>1 DEF Plan!DistinctBy
  <2>4. OwnProxies(c) <=>
          \A u, v \in Plan!Present(c) : \A i \in Has(c, u), j \in Has(c, v) :
             f[RowOf(Tunnel(c, u, i), u)] = f[RowOf(Tunnel(c, v, j), v)] => u = v /\ i = j
    BY <1>2, <2>1 DEF OwnProxies
  <2> QED
    BY <2>2, <2>3, <2>4
<1>4. Plan!DistinctBy(Plan!Endpoint, Plan!InOrder(c)) <=> OwnEndpoints(c)
  <2> DEFINE f == [r \in Plan!Rows |-> Plan!Endpoint(r)]
  <2>1. \A r \in Plan!Rows : f[r] = Plan!Endpoint(r)
    OBVIOUS
  <2> HIDE DEF f
  <2>2. (\A p, q \in DOMAIN Plan!InOrder(c) :
            f[Plan!InOrder(c)[p]] = f[Plan!InOrder(c)[q]] => p = q)
         <=> (\A u, v \in Plan!Present(c) : \A i \in Has(c, u), j \in Has(c, v) :
                f[RowOf(Tunnel(c, u, i), u)] = f[RowOf(Tunnel(c, v, j), v)] => u = v /\ i = j)
    BY DistinctPlaces
  <2>3. Plan!DistinctBy(Plan!Endpoint, Plan!InOrder(c)) <=>
          \A p, q \in DOMAIN Plan!InOrder(c) :
            f[Plan!InOrder(c)[p]] = f[Plan!InOrder(c)[q]] => p = q
    BY <1>1, <2>1 DEF Plan!DistinctBy
  <2>4. OwnEndpoints(c) <=>
          \A u, v \in Plan!Present(c) : \A i \in Has(c, u), j \in Has(c, v) :
             f[RowOf(Tunnel(c, u, i), u)] = f[RowOf(Tunnel(c, v, j), v)] => u = v /\ i = j
    BY <1>2, <2>1 DEF OwnEndpoints
  <2> QED
    BY <2>2, <2>3, <2>4
<1>5. Plan!DistinctBy(Plan!Backend, Plan!InOrder(c)) <=> OwnBackends(c)
  <2> DEFINE f == [r \in Plan!Rows |-> r.backend]
  <2>1. \A r \in Plan!Rows : f[r] = r.backend
    OBVIOUS
  <2> HIDE DEF f
  <2>2. (\A p, q \in DOMAIN Plan!InOrder(c) :
            f[Plan!InOrder(c)[p]] = f[Plan!InOrder(c)[q]] => p = q)
         <=> (\A u, v \in Plan!Present(c) : \A i \in Has(c, u), j \in Has(c, v) :
                f[RowOf(Tunnel(c, u, i), u)] = f[RowOf(Tunnel(c, v, j), v)] => u = v /\ i = j)
    BY DistinctPlaces
  <2>3. Plan!DistinctBy(Plan!Backend, Plan!InOrder(c)) <=>
          \A p, q \in DOMAIN Plan!InOrder(c) :
            f[Plan!InOrder(c)[p]] = f[Plan!InOrder(c)[q]] => p = q
    BY <1>1, <2>1 DEF Plan!DistinctBy, Plan!Backend
  <2>4. OwnBackends(c) <=>
          \A u, v \in Plan!Present(c) : \A i \in Has(c, u), j \in Has(c, v) :
             f[RowOf(Tunnel(c, u, i), u)] = f[RowOf(Tunnel(c, v, j), v)] => u = v /\ i = j
    BY <1>2, <2>1 DEF OwnBackends
  <2> QED
    BY <2>2, <2>3, <2>4
<1> QED
  BY <1>3, <1>4, <1>5

\* normalize_loaded_config accepts just the sound configurations.
LEMMA SoundIsAccepted ==
  ASSUME NEW c \in Configs
  PROVE  Plan!NormalizeLoadedConfig(c) <=> PlanSound(c)
<1>1. PICK all : all = Plan!ToSet(Plan!InOrder(c))
  OBVIOUS
<1>2. /\ \A u \in Plan!Present(c) : \A i \in Has(c, u) : RowOf(Tunnel(c, u, i), u) \in all
      /\ \A r \in all : \E u \in Plan!Present(c) : \E i \in Has(c, u) :
            r = RowOf(Tunnel(c, u, i), u)
  BY <1>1, RowsInOrder
<1>3. \A u \in Plan!Present(c) : \A i \in Has(c, u) :
         /\ RowOf(Tunnel(c, u, i), u).backend = Tunnel(c, u, i).backend
         /\ RowOf(Tunnel(c, u, i), u).port = Tunnel(c, u, i).port
  BY EntryOf, RowIs
<1>4. (\A t \in all : t.port \notin Reserved /\ t.backend \notin Reserved) <=> Unreserved(c)
  BY <1>2, <1>3 DEF Unreserved
<1>5. {t.port : t \in all} \cap {t.backend : t \in all} = {} <=> PortsApart(c)
  <2>1. {t.port : t \in all} \cap {t.backend : t \in all} = {}
        <=> \A t, o \in all : t.port # o.backend
    OBVIOUS
  <2>2. (\A t, o \in all : t.port # o.backend) <=> PortsApart(c)
    BY <1>2, <1>3 DEF PortsApart
  <2> QED
    BY <2>1, <2>2
<1>6. \A u \in Plan!Present(c) : c[u].limit <= MaxPlan
  BY EntryOf, PlanConstants
<1>7. ASSUME OwnEndpoints(c), NEW u \in Plan!Present(c)
      PROVE  Plan!NormalizeTunnels(c[u].tunnels)
  BY <1>7 DEF OwnEndpoints, Plan!NormalizeTunnels, Plan!DistinctBy, Has, Tunnel
<1>8. Plan!NormalizeLoadedConfig(c) <=>
        /\ \A u \in Plan!Present(c) : /\ c[u].limit <= MaxPlan
                                      /\ Len(c[u].tunnels) <= MaxPlan
                                      /\ Plan!NormalizeTunnels(c[u].tunnels)
        /\ OwnProxies(c) /\ OwnEndpoints(c) /\ OwnBackends(c)
        /\ \A t \in all : t.port \notin Reserved /\ t.backend \notin Reserved
        /\ {t.port : t \in all} \cap {t.backend : t \in all} = {}
  BY <1>1, DistinctByIs DEF Plan!NormalizeLoadedConfig
<1> QED
  BY <1>4, <1>5, <1>6, <1>7, <1>8 DEF PlanSound, InLimits

-----------------------------------------------------------------------------
(* TunnelPlan: a plan gets its back-end ports.                             *)

\* What the first k tunnels of a plan have got.
Fresh(c, u, t) == \A i \in Has(c, u) : Tunnel(c, u, i).id # t.id
Got(c, u, plan, used, new, i) ==
    /\ new[i] \in Plan!Tunnels
    /\ new[i].id = plan[i].id /\ new[i].protocol = plan[i].protocol /\ new[i].port = plan[i].port
    /\ \/ \E o \in Has(c, u) : Tunnel(c, u, o).id = plan[i].id
                               /\ new[i].backend = Tunnel(c, u, o).backend
       \/ /\ Fresh(c, u, plan[i]) /\ new[i].backend \notin used
          /\ \A j \in 1..(i - 1) : new[i].backend # new[j].backend
Given(c, u, plan, used, k, d) ==
    /\ d.tunnels \in Seq(Plan!Tunnels) /\ Len(d.tunnels) = k
    /\ used \subseteq d.used /\ \A i \in 1..k : d.tunnels[i].backend \in d.used
    /\ \A i \in 1..k : Got(c, u, plan, used, d.tunnels, i)

LEMMA KeptBackendIs ==
  ASSUME NEW c \in Configs, NEW u \in Plan!Present(c), NEW t
  PROVE  \/ /\ \E o \in Has(c, u) : Tunnel(c, u, o).id = t.id
                                    /\ Plan!KeptBackend(c, u, t) = Tunnel(c, u, o).backend
            /\ Plan!KeptBackend(c, u, t) \in Pool
         \/ Fresh(c, u, t) /\ Plan!KeptBackend(c, u, t) = Failed
<1>1. PICK old : old = Plan!ToSet(c[u].tunnels)
  OBVIOUS
<1>2. old = {Tunnel(c, u, o) : o \in Has(c, u)}
  BY <1>1 DEF Plan!ToSet, Tunnel, Has
<1>3. Plan!KeptBackend(c, u, t) =
        IF \E o \in old : o.id = t.id THEN (CHOOSE o \in old : o.id = t.id).backend ELSE Failed
  BY <1>1 DEF Plan!KeptBackend
<1>4. CASE \E o \in old : o.id = t.id
  <2>1. PICK o \in old : o.id = t.id /\ Plan!KeptBackend(c, u, t) = o.backend
    BY <1>3, <1>4
  <2>2. PICK i \in Has(c, u) : o = Tunnel(c, u, i)
    BY <1>2, <2>1
  <2>3. o.backend \in Pool
    BY <2>2, EntryOf DEF Plan!Tunnels
  <2> QED
    BY <2>1, <2>2, <2>3
<1>5. CASE ~ \E o \in old : o.id = t.id
  BY <1>2, <1>3, <1>5 DEF Fresh
<1> QED
  BY <1>4, <1>5

LEMMA AllocateIs ==
  ASSUME NEW used, Plan!AllocateBackend(used) # Failed
  PROVE  Plan!AllocateBackend(used) \in Pool /\ Plan!AllocateBackend(used) \notin used
<1>1. PICK free : free = Pool \ used
  OBVIOUS
<1>2. free # {} /\ Plan!AllocateBackend(used) = Plan!Min(free)
  BY <1>1 DEF Plan!AllocateBackend
<1>3. free \in SUBSET Nat
  BY <1>1, PlanConstants
<1>4. \E m \in free : \A n \in free : m <= n
  BY <1>2, <1>3, LeastNatural
<1>5. Plan!Min(free) \in free
  BY <1>4 DEF Plan!Min
<1> QED
  BY <1>1, <1>2, <1>5

HasTunnels(d) == "tunnels" \in DOMAIN d

PortFor(c, u, d, t) ==
    IF Plan!KeptBackend(c, u, t) # Failed THEN Plan!KeptBackend(c, u, t)
    ELSE Plan!AllocateBackend(d.used)

Gave(c, u, d, t, e) ==
    /\ HasTunnels(e)
    /\ e.tunnels # Failed =>
         /\ d.tunnels # Failed /\ PortFor(c, u, d, t) # Failed
         /\ e.used = d.used \cup {PortFor(c, u, d, t)}
         /\ e.tunnels = Append(d.tunnels,
                          [id |-> t.id, protocol |-> t.protocol,
                           port |-> t.port, backend |-> PortFor(c, u, d, t)])

LEMMA GiveIs ==
  ASSUME NEW c, NEW u, NEW d, NEW t, HasTunnels(d)
  PROVE  Gave(c, u, d, t, Plan!Give(c, u, d, t))
<1> DEFINE port == PortFor(c, u, d, t)
           e == Plan!Give(c, u, d, t)
<1>1. e = IF d.tunnels = Failed \/ port = Failed
            THEN [d EXCEPT !.tunnels = Failed]
            ELSE [used |-> d.used \cup {port},
                  tunnels |-> Append(d.tunnels,
                                [id |-> t.id, protocol |-> t.protocol,
                                 port |-> t.port, backend |-> port])]
  BY DEF Plan!Give, PortFor
<1> HIDE DEF port, e
<1>2. CASE d.tunnels = Failed \/ port = Failed
  <2>1. HasTunnels(e) /\ e.tunnels = Failed
    BY <1>1, <1>2 DEF HasTunnels
  <2> QED
    BY <2>1 DEF e, Gave
<1>3. CASE ~ (d.tunnels = Failed \/ port = Failed)
  <2>1. Gave(c, u, d, t, e)
    BY <1>1, <1>3 DEF port, HasTunnels, Gave
  <2> QED
    BY <2>1 DEF e
<1> QED
  BY <1>2, <1>3

LEMMA GivenStep ==
  ASSUME NEW c \in Configs, NEW u \in Plan!Present(c), NEW plan, NEW used, NEW k \in Nat, k # 0,
         plan[k] \in Plan!Requests, NEW d, HasTunnels(d),
         Given(c, u, plan, used, k - 1, d),
         Plan!Give(c, u, d, plan[k]).tunnels # Failed
  PROVE  Given(c, u, plan, used, k, Plan!Give(c, u, d, plan[k]))
<1>1. PICK e, kept : e = Plan!Give(c, u, d, plan[k]) /\ kept = Plan!KeptBackend(c, u, plan[k])
  OBVIOUS
<1>2. PICK port : /\ port = PortFor(c, u, d, plan[k])
                  /\ port = IF kept # Failed THEN kept ELSE Plan!AllocateBackend(d.used)
  BY <1>1 DEF PortFor
<1>3. PICK t : t = [id |-> plan[k].id, protocol |-> plan[k].protocol,
                    port |-> plan[k].port, backend |-> port]
  OBVIOUS
<1>4. port # Failed /\ e.used = d.used \cup {port} /\ e.tunnels = Append(d.tunnels, t)
  <2>1. Gave(c, u, d, plan[k], e)
    BY <1>1, GiveIs
  <2> QED
    BY <1>1, <1>2, <1>3, <2>1 DEF Gave
<1>5. \/ /\ port \in Pool
         /\ \E o \in Has(c, u) : Tunnel(c, u, o).id = plan[k].id
                                 /\ port = Tunnel(c, u, o).backend
      \/ Fresh(c, u, plan[k]) /\ port \in Pool /\ port \notin d.used
  <2>1. Failed \notin Pool
    BY PlanConstants
  <2>2. \/ /\ kept \in Pool
           /\ \E o \in Has(c, u) : Tunnel(c, u, o).id = plan[k].id
                                   /\ kept = Tunnel(c, u, o).backend
        \/ Fresh(c, u, plan[k]) /\ kept = Failed
    BY <1>1, KeptBackendIs
  <2>3. CASE kept # Failed
    <3>1. port = kept
      BY <1>2, <2>3
    <3> QED
      BY <2>2, <2>3, <3>1
  <2>4. CASE kept = Failed
    <3>1. Fresh(c, u, plan[k])
      BY <2>1, <2>2, <2>4
    <3>2. port = Plan!AllocateBackend(d.used)
      BY <1>2, <2>4
    <3>3. port \in Pool /\ port \notin d.used
      BY <1>4, <3>2, AllocateIs
    <3> QED
      BY <3>1, <3>3
  <2> QED
    BY <2>3, <2>4
<1>6. t \in Plan!Tunnels
  BY <1>3, <1>5 DEF Plan!Tunnels, Plan!Requests
<1>7. PICK old, new : old = d.tunnels /\ new = e.tunnels
  OBVIOUS
<1>8. /\ old \in Seq(Plan!Tunnels) /\ Len(old) = k - 1 /\ used \subseteq d.used
      /\ \A i \in 1..(k - 1) : old[i].backend \in d.used
      /\ \A i \in 1..(k - 1) : Got(c, u, plan, used, old, i)
  BY <1>7 DEF Given
<1>9. /\ new \in Seq(Plan!Tunnels) /\ Len(new) = k /\ new[k] = t
      /\ \A i \in 1..(k - 1) : new[i] = old[i]
  BY <1>4, <1>6, <1>7, <1>8
<1>10. 1..k = (1..(k - 1)) \cup {k}
  OBVIOUS
<1>11. \A i \in 1..k : new[i].backend \in e.used
  <2>1. \A i \in 1..(k - 1) : new[i].backend \in e.used
    BY <1>4, <1>8, <1>9
  <2>2. new[k].backend = port
    BY <1>3, <1>9
  <2> QED
    BY <1>4, <1>10, <2>1, <2>2
<1>12. ASSUME NEW i \in 1..(k - 1) PROVE Got(c, u, plan, used, new, i)
  <2>1. Got(c, u, plan, used, old, i) /\ new[i] = old[i]
    BY <1>8, <1>9
  <2>2. \A j \in 1..(i - 1) : new[j] = old[j]
    BY <1>9
  <2> QED
    BY <2>1, <2>2 DEF Got
<1>13. Got(c, u, plan, used, new, k)
  <2>1. /\ new[k] \in Plan!Tunnels /\ new[k].backend = port
        /\ new[k].id = plan[k].id /\ new[k].protocol = plan[k].protocol
        /\ new[k].port = plan[k].port
    BY <1>3, <1>6, <1>9
  <2>2. ASSUME port \notin d.used, NEW j \in 1..(k - 1) PROVE port # new[j].backend
    BY <1>8, <1>9, <2>2
  <2>3. port \notin d.used => port \notin used
    BY <1>8
  <2> QED
    BY <1>5, <2>1, <2>2, <2>3 DEF Got
<1>14. used \subseteq e.used
  BY <1>4, <1>8
<1>15. \A i \in 1..k : Got(c, u, plan, used, new, i)
  BY <1>10, <1>12, <1>13
<1> QED
  BY <1>1, <1>7, <1>9, <1>11, <1>14, <1>15 DEF Given

\* What the handler accepts, it gives back with a back-end port each.
LEMMA PlanIsGiven ==
  ASSUME NEW c \in Configs, NEW u \in Plan!Present(c), NEW plan \in Seq(Plan!Requests),
         Plan!NormalizeUserTunnels(c, u, plan) # Failed
  PROVE  /\ Plan!PlanAccepted(c, u, plan)
         /\ \E new \in Seq(Plan!Tunnels) :
              /\ new = Plan!NormalizeUserTunnels(c, u, plan) /\ Len(new) = Len(plan)
              /\ \A i \in 1..Len(plan) : Got(c, u, plan, Plan!UsedPorts(c, u, plan), new, i)
<1>1. PICK used, base : /\ used = Plan!UsedPorts(c, u, plan)
                        /\ base = [used |-> used, tunnels |-> <<>>]
  OBVIOUS
<1>2. Plan!NormalizeUserTunnels(c, u, plan) =
        IF Plan!PlanAccepted(c, u, plan)
          THEN Gives(c, u, base, plan)[DOMAIN plan].tunnels ELSE Failed
  BY <1>1 DEF Plan!NormalizeUserTunnels, Gives, Giving, Plan!FoldLeft, Plan!MapThenFoldSet, Top
<1> DEFINE n == Len(plan)
           G(k) == Gives(c, u, base, plan)[1..k]
           Good(k) == /\ HasTunnels(G(k))
                      /\ G(k).tunnels # Failed => Given(c, u, plan, used, k, G(k))
           Bad == {k \in 0..n : ~ Good(k)}
<1>3. n \in Nat /\ DOMAIN plan = 1..n /\ \A k \in 1..n : plan[k] \in Plan!Requests
  OBVIOUS
<1>4. G(0) = base /\ \A k \in 1..n : G(k) = Plan!Give(c, u, G(k - 1), plan[k])
  BY GivesStep
<1> HIDE DEF G
<1>5. Bad = {}
  <2> SUFFICES ASSUME Bad # {} PROVE FALSE
    OBVIOUS
  <2>1. Bad \in SUBSET Nat
    BY <1>3
  <2>2. PICK m \in Bad : \A k \in Bad : m <= k
    BY <2>1, LeastNatural
  <2>3. m \in 0..n /\ ~ Good(m)
    BY <2>2
  <2>4. m # 0
    <3>1. HasTunnels(base) /\ base.tunnels = <<>> /\ base.used = used
      BY <1>1 DEF HasTunnels
    <3>2. <<>> \in Seq(Plan!Tunnels) /\ Len(<<>>) = 0
      BY EmptySeq
    <3>3. 1..0 = {}
      OBVIOUS
    <3>4. Given(c, u, plan, used, 0, base)
      BY <3>1, <3>2, <3>3 DEF Given
    <3>5. Good(0)
      BY <1>4, <3>1, <3>4
    <3> QED
      BY <2>3, <3>5
  <2>5. m \in 1..n /\ m - 1 \in 0..n /\ ~ (m <= m - 1) /\ m \in Nat
    BY <1>3, <2>3, <2>4
  <2>6. Good(m - 1)
    BY <2>2, <2>5
  <2>7. PICK d : d = G(m - 1)
    OBVIOUS
  <2>8. G(m) = Plan!Give(c, u, d, plan[m]) /\ plan[m] \in Plan!Requests
    BY <1>3, <1>4, <2>5, <2>7
  <2>9. /\ HasTunnels(d)
        /\ d.tunnels # Failed => Given(c, u, plan, used, m - 1, d)
    BY <2>6, <2>7
  <2>10. /\ HasTunnels(G(m))
         /\ G(m).tunnels # Failed => d.tunnels # Failed
    <3>1. Gave(c, u, d, plan[m], G(m))
      BY <2>8, <2>9, GiveIs
    <3> QED
      BY <3>1 DEF Gave
  <2>11. G(m).tunnels # Failed => Given(c, u, plan, used, m, G(m))
    BY <2>4, <2>5, <2>8, <2>9, <2>10, GivenStep
  <2> QED
    BY <2>3, <2>10, <2>11
<1>6. Good(n)
  BY <1>3, <1>5
<1>7. Plan!PlanAccepted(c, u, plan) /\ G(n).tunnels # Failed
      /\ Plan!NormalizeUserTunnels(c, u, plan) = G(n).tunnels
  BY <1>2, <1>3 DEF G
<1>8. Given(c, u, plan, used, n, G(n))
  BY <1>6, <1>7
<1> QED
  BY <1>1, <1>7, <1>8 DEF Given

\* With the plan of u in it.
Replaced(c, u, new) == [c EXCEPT ![u].tunnels = new]

LEMMA AllOf ==
  ASSUME NEW c \in Configs, NEW users \in SUBSET Plan!Present(c)
  PROVE  /\ \A v \in users : \A j \in Has(c, v) : Tunnel(c, v, j) \in Plan!TunnelsOf(c, users)
         /\ \A v \in Plan!Present(c) : \A j \in Has(c, v) :
               Tunnel(c, v, j).backend \in Plan!Backends(c)
<1>1. ASSUME NEW S, NEW v \in S, NEW j \in Has(c, v)
      PROVE  Tunnel(c, v, j) \in Plan!TunnelsOf(c, S)
  <2>1. Tunnel(c, v, j) \in Plan!ToSet(c[v].tunnels)
    BY DEF Tunnel, Has, Plan!ToSet
  <2> QED
    BY <2>1 DEF Plan!TunnelsOf
<1>2. ASSUME NEW v \in Plan!Present(c), NEW j \in Has(c, v)
      PROVE  Tunnel(c, v, j).backend \in Plan!Backends(c)
  BY <1>1 DEF Plan!Backends
<1> QED
  BY <1>1, <1>2

\* What an accepted plan is told apart by.
LEMMA AcceptedIs ==
  ASSUME NEW c \in Configs, NEW u \in Plan!Present(c), NEW plan \in Seq(Plan!Requests),
         Plan!PlanAccepted(c, u, plan)
  PROVE  /\ Len(plan) <= MaxPlan
         /\ \A i, j \in DOMAIN plan : /\ Plan!Proxy(plan[i]) = Plan!Proxy(plan[j]) => i = j
                                      /\ Plan!Endpoint(plan[i]) = Plan!Endpoint(plan[j]) => i = j
         /\ \A i \in DOMAIN plan :
              /\ plan[i].port \notin Reserved
              /\ \A v \in Plan!Present(c) : \A j \in Has(c, v) :
                    plan[i].port # Tunnel(c, v, j).backend
              /\ \A v \in Plan!Present(c) \ {u} : \A j \in Has(c, v) :
                    /\ Plan!Proxy(Tunnel(c, v, j)) # Plan!Proxy(plan[i])
                    /\ Plan!Endpoint(Tunnel(c, v, j)) # Plan!Endpoint(plan[i])
<1>1. PICK others : others = Plan!TunnelsOf(c, Plan!Present(c) \ {u})
  OBVIOUS
<1>2. /\ Len(plan) <= MaxPlan
      /\ Plan!DistinctBy(Plan!Endpoint, plan) /\ Plan!DistinctBy(Plan!Proxy, plan)
      /\ \A t \in Plan!ToSet(plan) :
           /\ t.port \notin Reserved /\ t.port \notin Plan!Backends(c)
           /\ \A o \in others :
                 Plan!Endpoint(o) # Plan!Endpoint(t) /\ Plan!Proxy(o) # Plan!Proxy(t)
  BY <1>1 DEF Plan!PlanAccepted, Plan!NormalizeTunnels
<1>3. \A i, j \in DOMAIN plan : /\ Plan!Proxy(plan[i]) = Plan!Proxy(plan[j]) => i = j
                                /\ Plan!Endpoint(plan[i]) = Plan!Endpoint(plan[j]) => i = j
  BY <1>2 DEF Plan!DistinctBy
<1>4. \A i \in DOMAIN plan : plan[i] \in Plan!ToSet(plan)
  BY DEF Plan!ToSet
<1>5. /\ \A v \in Plan!Present(c) \ {u} : \A j \in Has(c, v) : Tunnel(c, v, j) \in others
      /\ \A v \in Plan!Present(c) : \A j \in Has(c, v) :
            Tunnel(c, v, j).backend \in Plan!Backends(c)
  BY <1>1, AllOf
<1> QED
  BY <1>2, <1>3, <1>4, <1>5

LEMMA UsedAre ==
  ASSUME NEW c \in Configs, NEW u \in Plan!Present(c), NEW plan \in Seq(Plan!Requests)
  PROVE  /\ Reserved \subseteq Plan!UsedPorts(c, u, plan)
         /\ \A v \in Plan!Present(c) : \A j \in Has(c, v) :
               Tunnel(c, v, j).backend \in Plan!UsedPorts(c, u, plan)
         /\ \A v \in Plan!Present(c) \ {u} : \A j \in Has(c, v) :
               Tunnel(c, v, j).port \in Plan!UsedPorts(c, u, plan)
         /\ \A i \in DOMAIN plan : plan[i].port \in Plan!UsedPorts(c, u, plan)
<1>1. PICK others : others = Plan!TunnelsOf(c, Plan!Present(c) \ {u})
  OBVIOUS
<1>2. Plan!UsedPorts(c, u, plan) =
        Reserved \cup Plan!Backends(c) \cup {t.port : t \in others}
                 \cup {t.port : t \in Plan!ToSet(plan)}
  BY <1>1 DEF Plan!UsedPorts
<1>3. \A i \in DOMAIN plan : plan[i] \in Plan!ToSet(plan)
  BY DEF Plan!ToSet
<1>4. /\ \A v \in Plan!Present(c) \ {u} : \A j \in Has(c, v) : Tunnel(c, v, j) \in others
      /\ \A v \in Plan!Present(c) : \A j \in Has(c, v) :
            Tunnel(c, v, j).backend \in Plan!Backends(c)
  BY <1>1, AllOf
<1> QED
  BY <1>2, <1>3, <1>4

LEMMA ReplacedIs ==
  ASSUME NEW c \in Configs, NEW u \in Plan!Present(c), NEW new \in Seq(Plan!Tunnels)
  PROVE  /\ Replaced(c, u, new) \in Configs
         /\ Plan!Present(Replaced(c, u, new)) \in SUBSET Plan!Present(c)
         /\ Has(Replaced(c, u, new), u) = 1..Len(new)
         /\ \A i : Tunnel(Replaced(c, u, new), u, i) = new[i]
         /\ \A v \in Plan!Present(c) \ {u} :
              /\ Has(Replaced(c, u, new), v) = Has(c, v)
              /\ \A i : Tunnel(Replaced(c, u, new), v, i) = Tunnel(c, v, i)
              /\ Replaced(c, u, new)[v] = c[v]
         /\ Replaced(c, u, new)[u].tunnels = new
<1>1. PICK d : d = Replaced(c, u, new)
  OBVIOUS
<1>2. PICK e : e = [c[u] EXCEPT !.tunnels = new]
  OBVIOUS
<1>3. u \in Plan!Users /\ c[u] \in Entry /\ c[u] # NoUser
  BY EntryOf
<1>4. e \in Entry /\ e.tunnels = new
  BY <1>2, <1>3 DEF Entry
<1>5. d = [c EXCEPT ![u] = e]
  BY <1>1, <1>2 DEF Replaced
<1>6. d \in Configs /\ d[u] = e /\ \A v \in Plan!Users \ {u} : d[v] = c[v]
  BY <1>3, <1>4, <1>5 DEF Configs
<1>7. Plan!Present(d) \in SUBSET Plan!Present(c)
  BY <1>3, <1>6 DEF Plan!Present
<1>8. \A v \in Plan!Present(c) \ {u} : d[v] = c[v]
  BY <1>6, EntryOf
<1>9. DOMAIN new = 1..Len(new)
  OBVIOUS
<1> QED
  BY <1>1, <1>4, <1>6, <1>7, <1>8, <1>9 DEF Has, Tunnel

\* The plan's tunnels against each other and against everybody else's.
LEMMA NewTunnels ==
  ASSUME NEW c \in Configs, PlanSound(c), NEW u \in Plan!Present(c),
         NEW plan \in Seq(Plan!Requests), Plan!PlanAccepted(c, u, plan),
         NEW new \in Seq(Plan!Tunnels), Len(new) = Len(plan),
         \A i \in 1..Len(plan) : Got(c, u, plan, Plan!UsedPorts(c, u, plan), new, i)
  PROVE  /\ \A i, j \in 1..Len(new) :
              /\ Plan!Proxy(new[i]) = Plan!Proxy(new[j]) => i = j
              /\ Plan!Endpoint(new[i]) = Plan!Endpoint(new[j]) => i = j
              /\ new[i].backend = new[j].backend => i = j
              /\ new[i].port # new[j].backend
         /\ \A i \in 1..Len(new) : new[i].port \notin Reserved /\ new[i].backend \notin Reserved
         /\ \A i \in 1..Len(new) : \A v \in Plan!Present(c) \ {u} : \A j \in Has(c, v) :
              /\ Plan!Proxy(Tunnel(c, v, j)) # Plan!Proxy(new[i])
              /\ Plan!Endpoint(Tunnel(c, v, j)) # Plan!Endpoint(new[i])
              /\ Tunnel(c, v, j).backend # new[i].backend
              /\ Tunnel(c, v, j).backend # new[i].port
              /\ Tunnel(c, v, j).port # new[i].backend
<1>1. PICK used, n : used = Plan!UsedPorts(c, u, plan) /\ n = Len(plan)
  OBVIOUS
<1>2. DOMAIN plan = 1..n /\ n = Len(new) /\ n \in Nat
  BY <1>1
<1>3. \A i \in 1..n : Got(c, u, plan, used, new, i)
  BY <1>1
<1>4. ASSUME NEW i \in 1..n
      PROVE  /\ Plan!Proxy(new[i]) = Plan!Proxy(plan[i])
             /\ Plan!Endpoint(new[i]) = Plan!Endpoint(plan[i])
             /\ new[i].port = plan[i].port /\ new[i].id = plan[i].id
  BY <1>3 DEF Got, Plan!Proxy, Plan!Endpoint
<1>5. ASSUME NEW i \in 1..n
      PROVE  \/ \E o \in Has(c, u) : Tunnel(c, u, o).id = plan[i].id
                                     /\ new[i].backend = Tunnel(c, u, o).backend
             \/ /\ new[i].backend \notin used
                /\ \A j \in 1..(i - 1) : new[i].backend # new[j].backend
  BY <1>3 DEF Got
<1>6. /\ \A i, j \in 1..n : /\ Plan!Proxy(plan[i]) = Plan!Proxy(plan[j]) => i = j
                            /\ Plan!Endpoint(plan[i]) = Plan!Endpoint(plan[j]) => i = j
      /\ \A i \in 1..n :
           /\ plan[i].port \notin Reserved
           /\ \A v \in Plan!Present(c) : \A j \in Has(c, v) :
                 plan[i].port # Tunnel(c, v, j).backend
           /\ \A v \in Plan!Present(c) \ {u} : \A j \in Has(c, v) :
                 /\ Plan!Proxy(Tunnel(c, v, j)) # Plan!Proxy(plan[i])
                 /\ Plan!Endpoint(Tunnel(c, v, j)) # Plan!Endpoint(plan[i])
  BY <1>2, AcceptedIs
<1>7. /\ Reserved \subseteq used
      /\ \A v \in Plan!Present(c) : \A j \in Has(c, v) : Tunnel(c, v, j).backend \in used
      /\ \A v \in Plan!Present(c) \ {u} : \A j \in Has(c, v) : Tunnel(c, v, j).port \in used
      /\ \A i \in 1..n : plan[i].port \in used
  BY <1>1, <1>2, UsedAre
<1>8. /\ \A v, w \in Plan!Present(c) : \A i \in Has(c, v), j \in Has(c, w) :
            Tunnel(c, v, i).backend = Tunnel(c, w, j).backend => v = w /\ i = j
      /\ \A v, w \in Plan!Present(c) : \A i \in Has(c, v), j \in Has(c, w) :
            Tunnel(c, v, i).port # Tunnel(c, w, j).backend
      /\ \A v \in Plan!Present(c) : \A i \in Has(c, v) : Tunnel(c, v, i).backend \notin Reserved
  BY DEF PlanSound, OwnBackends, PortsApart, Unreserved
<1>9. \A o, p \in Has(c, u) :
         Tunnel(c, u, o).backend = Tunnel(c, u, p).backend => o = p
  BY <1>8
<1>10. ASSUME NEW i \in 1..n, NEW j \in 1..n, new[i].backend = new[j].backend, i < j
      PROVE  FALSE
  <2>1. i \in 1..(j - 1)
    BY <1>2, <1>10
  <2>2. PICK b : b = new[i].backend /\ b = new[j].backend
    BY <1>10
  <2>3. PICK p \in Has(c, u) : Tunnel(c, u, p).id = plan[j].id /\ b = Tunnel(c, u, p).backend
    BY <1>5, <2>1, <2>2
  <2>4. b \in used
    BY <1>7, <2>3
  <2>5. PICK o \in Has(c, u) : Tunnel(c, u, o).id = plan[i].id /\ b = Tunnel(c, u, o).backend
    BY <1>5, <2>2, <2>4
  <2>6. o = p
    BY <1>9, <2>3, <2>5
  <2>7. plan[i].id = plan[j].id
    BY <2>3, <2>5, <2>6
  <2>8. Plan!Proxy(plan[i]) = Plan!Proxy(plan[j])
    BY <2>7 DEF Plan!Proxy
  <2>9. i = j
    BY <1>6, <2>8
  <2> QED
    BY <1>2, <1>10, <2>9
<1>11. ASSUME NEW i \in 1..n, NEW j \in 1..n, new[i].backend = new[j].backend
       PROVE  i = j
  <2>1. ~ (i < j) /\ ~ (j < i)
    BY <1>10, <1>11
  <2> QED
    BY <1>2, <2>1
<1>12. ASSUME NEW i \in 1..n, NEW j \in 1..n PROVE new[i].port # new[j].backend
  <2>1. new[i].port = plan[i].port /\ plan[i].port \in used
    BY <1>4, <1>7
  <2> QED
    BY <1>5, <1>6, <2>1
<1>13. ASSUME NEW i \in 1..n
       PROVE  new[i].port \notin Reserved /\ new[i].backend \notin Reserved
  <2>1. new[i].port \notin Reserved
    BY <1>4, <1>6
  <2>2. new[i].backend \notin Reserved
    BY <1>5, <1>7, <1>8
  <2> QED
    BY <2>1, <2>2
<1>14. ASSUME NEW i \in 1..n, NEW v \in Plan!Present(c) \ {u}, NEW j \in Has(c, v)
       PROVE  /\ Plan!Proxy(Tunnel(c, v, j)) # Plan!Proxy(new[i])
              /\ Plan!Endpoint(Tunnel(c, v, j)) # Plan!Endpoint(new[i])
              /\ Tunnel(c, v, j).backend # new[i].backend
              /\ Tunnel(c, v, j).backend # new[i].port
              /\ Tunnel(c, v, j).port # new[i].backend
  <2>1. /\ Plan!Proxy(Tunnel(c, v, j)) # Plan!Proxy(new[i])
        /\ Plan!Endpoint(Tunnel(c, v, j)) # Plan!Endpoint(new[i])
        /\ Tunnel(c, v, j).backend # new[i].port
    BY <1>4, <1>6
  <2>2. Tunnel(c, v, j).backend \in used /\ Tunnel(c, v, j).port \in used /\ v # u
    BY <1>7
  <2>3. CASE \E o \in Has(c, u) : new[i].backend = Tunnel(c, u, o).backend
    <3>1. PICK o \in Has(c, u) : new[i].backend = Tunnel(c, u, o).backend
      BY <2>3
    <3>2. /\ Tunnel(c, v, j).backend # Tunnel(c, u, o).backend
          /\ Tunnel(c, v, j).port # Tunnel(c, u, o).backend
      BY <1>8, <2>2
    <3> QED
      BY <2>1, <3>1, <3>2
  <2>4. CASE new[i].backend \notin used
    BY <2>1, <2>2, <2>4
  <2> QED
    BY <1>5, <2>3, <2>4
<1>15. \A i, j \in 1..n : /\ Plan!Proxy(new[i]) = Plan!Proxy(new[j]) => i = j
                          /\ Plan!Endpoint(new[i]) = Plan!Endpoint(new[j]) => i = j
  BY <1>4, <1>6
<1> QED
  BY <1>2, <1>11, <1>12, <1>13, <1>14, <1>15

\* An accepted plan leaves the configuration sound.
LEMMA PlanLeavesSound ==
  ASSUME NEW c \in Configs, PlanSound(c), NEW u \in Plan!Present(c),
         NEW plan \in Seq(Plan!Requests), Plan!NormalizeUserTunnels(c, u, plan) # Failed
  PROVE  /\ Replaced(c, u, Plan!NormalizeUserTunnels(c, u, plan)) \in Configs
         /\ PlanSound(Replaced(c, u, Plan!NormalizeUserTunnels(c, u, plan)))
<1>1. /\ Plan!PlanAccepted(c, u, plan)
      /\ \E new \in Seq(Plan!Tunnels) :
           /\ new = Plan!NormalizeUserTunnels(c, u, plan) /\ Len(new) = Len(plan)
           /\ \A i \in 1..Len(plan) : Got(c, u, plan, Plan!UsedPorts(c, u, plan), new, i)
  BY PlanIsGiven
<1>2. PICK new \in Seq(Plan!Tunnels) :
           /\ new = Plan!NormalizeUserTunnels(c, u, plan) /\ Len(new) = Len(plan)
           /\ \A i \in 1..Len(plan) : Got(c, u, plan, Plan!UsedPorts(c, u, plan), new, i)
  BY <1>1
<1>3. PICK d, n : d = Replaced(c, u, new) /\ n = Len(new)
  OBVIOUS
<1>4. /\ d \in Configs /\ Plan!Present(d) \in SUBSET Plan!Present(c)
      /\ Has(d, u) = 1..n /\ \A i : Tunnel(d, u, i) = new[i]
      /\ \A v \in Plan!Present(c) \ {u} :
           Has(d, v) = Has(c, v) /\ (\A i : Tunnel(d, v, i) = Tunnel(c, v, i)) /\ d[v] = c[v]
      /\ d[u].tunnels = new
  BY <1>3, ReplacedIs
<1>5. /\ \A i, j \in 1..n :
           /\ Plan!Proxy(new[i]) = Plan!Proxy(new[j]) => i = j
           /\ Plan!Endpoint(new[i]) = Plan!Endpoint(new[j]) => i = j
           /\ new[i].backend = new[j].backend => i = j
           /\ new[i].port # new[j].backend
      /\ \A i \in 1..n : new[i].port \notin Reserved /\ new[i].backend \notin Reserved
      /\ \A i \in 1..n : \A v \in Plan!Present(c) \ {u} : \A j \in Has(c, v) :
           /\ Plan!Proxy(Tunnel(c, v, j)) # Plan!Proxy(new[i])
           /\ Plan!Endpoint(Tunnel(c, v, j)) # Plan!Endpoint(new[i])
           /\ Tunnel(c, v, j).backend # new[i].backend
           /\ Tunnel(c, v, j).backend # new[i].port
           /\ Tunnel(c, v, j).port # new[i].backend
  BY <1>1, <1>2, <1>3, NewTunnels
<1>6. OwnProxies(c) /\ OwnEndpoints(c) /\ OwnBackends(c) /\ Unreserved(c) /\ PortsApart(c)
      /\ InLimits(c)
  BY DEF PlanSound
<1>7. ASSUME NEW v \in Plan!Present(d), NEW i \in Has(d, v)
      PROVE  \/ v = u /\ i \in 1..n /\ Tunnel(d, v, i) = new[i]
             \/ /\ v # u /\ v \in Plan!Present(c) \ {u} /\ v \in Plan!Present(c)
                /\ i \in Has(c, v) /\ Tunnel(d, v, i) = Tunnel(c, v, i)
  BY <1>4
<1>8. ASSUME NEW v \in Plan!Present(d), NEW w \in Plan!Present(d),
             NEW i \in Has(d, v), NEW j \in Has(d, w)
      PROVE  /\ Plan!Proxy(Tunnel(d, v, i)) = Plan!Proxy(Tunnel(d, w, j)) => v = w /\ i = j
             /\ Plan!Endpoint(Tunnel(d, v, i)) = Plan!Endpoint(Tunnel(d, w, j))
                   => v = w /\ i = j
             /\ Tunnel(d, v, i).backend = Tunnel(d, w, j).backend => v = w /\ i = j
             /\ Tunnel(d, v, i).port # Tunnel(d, w, j).backend
  <2>1. PICK s, t : s = Tunnel(d, v, i) /\ t = Tunnel(d, w, j)
    OBVIOUS
  <2> SUFFICES /\ Plan!Proxy(s) = Plan!Proxy(t) => v = w /\ i = j
               /\ Plan!Endpoint(s) = Plan!Endpoint(t) => v = w /\ i = j
               /\ s.backend = t.backend => v = w /\ i = j
               /\ s.port # t.backend
    BY <2>1
  <2>2. \/ v = u /\ i \in 1..n /\ s = new[i]
        \/ /\ v # u /\ v \in Plan!Present(c) \ {u} /\ v \in Plan!Present(c)
           /\ i \in Has(c, v) /\ s = Tunnel(c, v, i)
    BY <1>7, <2>1
  <2>3. \/ w = u /\ j \in 1..n /\ t = new[j]
        \/ /\ w # u /\ w \in Plan!Present(c) \ {u} /\ w \in Plan!Present(c)
           /\ j \in Has(c, w) /\ t = Tunnel(c, w, j)
    BY <1>7, <2>1
  <2>4. CASE v = u /\ w = u
    BY <1>5, <2>2, <2>3, <2>4
  <2>5. CASE v = u /\ w # u
    <3>1. /\ Plan!Proxy(t) # Plan!Proxy(s) /\ Plan!Endpoint(t) # Plan!Endpoint(s)
          /\ t.backend # s.backend /\ t.backend # s.port
      BY <1>5, <2>2, <2>3, <2>5
    <3> QED
      BY <3>1
  <2>6. CASE v # u /\ w = u
    <3>1. /\ Plan!Proxy(s) # Plan!Proxy(t) /\ Plan!Endpoint(s) # Plan!Endpoint(t)
          /\ s.backend # t.backend /\ s.port # t.backend
      BY <1>5, <2>2, <2>3, <2>6
    <3> QED
      BY <3>1
  <2>7. CASE v # u /\ w # u
    <3>1. /\ v \in Plan!Present(c) /\ i \in Has(c, v) /\ s = Tunnel(c, v, i)
          /\ w \in Plan!Present(c) /\ j \in Has(c, w) /\ t = Tunnel(c, w, j)
      BY <2>2, <2>3, <2>7
    <3>2. Plan!Proxy(s) = Plan!Proxy(t) => v = w /\ i = j
      BY <1>6, <3>1 DEF OwnProxies
    <3>3. Plan!Endpoint(s) = Plan!Endpoint(t) => v = w /\ i = j
      BY <1>6, <3>1 DEF OwnEndpoints
    <3>4. s.backend = t.backend => v = w /\ i = j
      BY <1>6, <3>1 DEF OwnBackends
    <3>5. s.port # t.backend
      BY <1>6, <3>1 DEF PortsApart
    <3> QED
      BY <3>2, <3>3, <3>4, <3>5
  <2> QED
    BY <2>4, <2>5, <2>6, <2>7
<1>9. OwnProxies(d) /\ OwnEndpoints(d)
  BY <1>8 DEF OwnProxies, OwnEndpoints
<1>10. OwnBackends(d) /\ PortsApart(d)
  BY <1>8 DEF OwnBackends, PortsApart
<1>11. Unreserved(d)
  <2>1. ASSUME NEW v \in Plan!Present(d), NEW i \in Has(d, v)
        PROVE  Tunnel(d, v, i).port \notin Reserved /\ Tunnel(d, v, i).backend \notin Reserved
    BY <1>5, <1>6, <1>7 DEF Unreserved
  <2> QED
    BY <2>1 DEF Unreserved
<1>12. InLimits(d)
  <2>1. n <= MaxPlan
    BY <1>1, <1>2, <1>3, AcceptedIs
  <2> QED
    BY <1>3, <1>4, <1>6, <2>1 DEF InLimits
<1> QED
  BY <1>2, <1>3, <1>4, <1>9, <1>10, <1>11, <1>12 DEF PlanSound

-----------------------------------------------------------------------------
(* TunnelPlan: which plans the table takes.                                *)

\* A row of the table is in the way of another one.
Hits(r, row) ==
    /\ r.id # row.id
    /\ \/ Plan!Proxy(r) = Plan!Proxy(row)
       \/ Plan!Endpoint(r) = Plan!Endpoint(row)
       \/ r.backend = row.backend

\* What is in the way of one of the first k rows is written over before.
WayClear(table, s, k) ==
    \A p \in 1..k : \A r \in table :
       Hits(r, s[p]) => \E q \in 1..(p - 1) : s[q].id = r.id

\* Rows that are not in each other's way can be written if the way is clear,
\* and only then.
LEMMA WritesIfClear ==
  ASSUME NEW X, Failed \notin SUBSET X, NEW table \in SUBSET X, NEW s \in Seq(X),
         \A i, j \in DOMAIN s : s[i].id = s[j].id => i = j,
         \A i, j \in DOMAIN s : ~ Hits(s[i], s[j])
  PROVE  Writes(table, s)[DOMAIN s] # Failed <=> WayClear(table, s, Len(s))
<1> DEFINE n == Len(s)
           W(k) == Writes(table, s)[1..k]
           All(k) == {r \in table : \A i \in 1..k : r.id # s[i].id} \cup {s[i] : i \in 1..k}
           Right(k) == IF WayClear(table, s, k) THEN W(k) = All(k) ELSE W(k) = Failed
           Bad == {k \in 0..n : ~ Right(k)}
<1>1. n \in Nat /\ DOMAIN s = 1..n /\ \A i \in 1..n : s[i] \in X
  OBVIOUS
<1>2. W(0) = table /\ \A k \in 1..n : W(k) = Plan!Upsert(W(k - 1), s[k])
  BY WritesStep
<1>3. \A i, j \in 1..n : s[i].id = s[j].id => i = j
  OBVIOUS
<1>4. \A i, j \in 1..n : ~ Hits(s[i], s[j])
  OBVIOUS
<1>5. \A k \in 0..n : All(k) # Failed
  <2>1. ASSUME NEW k \in 0..n PROVE All(k) \in SUBSET X
    BY <1>1
  <2> QED
    BY <2>1
<1> HIDE DEF W
<1>6. Bad = {}
  <2> SUFFICES ASSUME Bad # {} PROVE FALSE
    OBVIOUS
  <2>1. Bad \in SUBSET Nat
    BY <1>1
  <2>2. PICK m \in Bad : \A k \in Bad : m <= k
    BY <2>1, LeastNatural
  <2>3. m \in 0..n /\ ~ Right(m)
    BY <2>2
  <2>4. m # 0
    <3> SUFFICES ASSUME m = 0 PROVE FALSE
      OBVIOUS
    <3>1. 1..0 = {}
      OBVIOUS
    <3>2. All(0) = table /\ WayClear(table, s, 0)
      BY <3>1 DEF WayClear
    <3> QED
      BY <1>2, <2>3, <3>2
  <2>5. m \in 1..n /\ m - 1 \in 0..n /\ ~ (m <= m - 1) /\ 1..m = (1..(m - 1)) \cup {m}
        /\ m \notin 1..(m - 1)
    BY <1>1, <2>3, <2>4
  <2>6. Right(m - 1)
    BY <2>2, <2>5
  <2>7. PICK before, after : before = W(m - 1) /\ after = W(m)
    OBVIOUS
  <2>8. after = Plan!Upsert(before, s[m])
    BY <1>2, <2>5, <2>7
  <2>9. WayClear(table, s, m) <=>
          /\ WayClear(table, s, m - 1)
          /\ \A r \in table : Hits(r, s[m]) => \E q \in 1..(m - 1) : s[q].id = r.id
    BY <2>5 DEF WayClear
  <2>10. CASE ~ WayClear(table, s, m - 1)
    <3>1. before = Failed
      BY <2>6, <2>7, <2>10
    <3>2. after = Failed
      BY <2>8, <3>1 DEF Plan!Upsert
    <3> QED
      BY <2>3, <2>7, <2>9, <2>10, <3>2
  <2>11. CASE WayClear(table, s, m - 1)
    <3>1. before = All(m - 1)
      BY <2>6, <2>7, <2>11
    <3>2. before # Failed
      BY <1>5, <2>5, <3>1
    <3>3. after = IF Plan!Clash(before, s[m]) THEN Failed
                  ELSE {r \in before : r.id # s[m].id} \cup {s[m]}
      BY <2>8, <3>2 DEF Plan!Upsert
    <3>4. Plan!Clash(before, s[m]) <=> \E r \in before : Hits(r, s[m])
      BY DEF Plan!Clash, Hits
    <3>5. \A i \in 1..(m - 1) : ~ Hits(s[i], s[m]) /\ s[i].id # s[m].id
      BY <1>1, <1>3, <1>4, <2>5
    <3>6. Plan!Clash(before, s[m]) <=>
            \E r \in table : Hits(r, s[m]) /\ \A i \in 1..(m - 1) : r.id # s[i].id
      BY <3>1, <3>4, <3>5
    <3>7. CASE Plan!Clash(before, s[m])
      <4>1. ~ WayClear(table, s, m)
        BY <2>9, <3>6, <3>7
      <4> QED
        BY <2>3, <2>7, <3>3, <3>7, <4>1
    <3>8. CASE ~ Plan!Clash(before, s[m])
      <4>1. WayClear(table, s, m)
        BY <2>9, <2>11, <3>6, <3>8
      <4>2. after = {r \in All(m - 1) : r.id # s[m].id} \cup {s[m]}
        BY <3>1, <3>3, <3>8
      <4>3. ASSUME NEW r \in after PROVE r \in All(m)
        BY <2>5, <4>2, <4>3
      <4>4. ASSUME NEW r \in All(m) PROVE r \in after
        BY <2>5, <3>5, <4>2, <4>4
      <4>5. after = All(m)
        BY <4>3, <4>4
      <4> QED
        BY <2>3, <2>7, <4>1, <4>5
    <3> QED
      BY <3>7, <3>8
  <2> QED
    BY <2>10, <2>11
<1>7. n \in 0..n
  BY <1>1
<1>8. Right(n)
  BY <1>6, <1>7
<1>9. W(n) # Failed <=> WayClear(table, s, n)
  BY <1>5, <1>7, <1>8
<1> QED
  BY <1>1, <1>9 DEF W

LEMMA PlacesInOrder ==
  ASSUME NEW c \in Configs, NEW u \in Plan!Present(c), NEW i \in Has(c, u), NEW j \in Has(c, u)
  PROVE  PlaceOf(c, u, i) < PlaceOf(c, u, j) <=> i < j
<1>1. PICK k : k = CHOOSE m \in DOMAIN UserOrder : UserOrder[m] = u
  OBVIOUS
<1>2. k \in 1..Len(UserOrder)
  BY <1>1, OrderOfUsers, EntryOf
<1>3. PICK ss : ss = PartsOf(c)
  OBVIOUS
<1>4. ss \in Seq(Seq(Plan!Rows)) /\ Len(ss) = Len(UserOrder)
  BY <1>3, PartsAre
<1>5. PICK b : b = Before(ss, k)
  OBVIOUS
<1>6. b \in Nat
  <2>1. CASE k = 1
    BY <1>5, <2>1 DEF Before
  <2>2. CASE k # 1
    <3>1. k - 1 \in 1..Len(ss)
      BY <1>2, <1>4, <2>2, OrderOfUsers
    <3>2. Joins(ss)[k - 1] \in Seq(Plan!Rows)
      BY <1>4, <3>1, JoinsAreSequences
    <3>3. Len(Joins(ss)[k - 1]) \in Nat
      BY <3>2
    <3> QED
      BY <1>5, <2>2, <3>3 DEF Before
  <2> QED
    BY <2>1, <2>2
<1>7. PlaceOf(c, u, i) = b + i /\ PlaceOf(c, u, j) = b + j
  BY <1>1, <1>3, <1>5 DEF PlaceOf, At
<1>8. i \in Nat /\ j \in Nat
  BY EntryOf
<1> QED
  BY <1>6, <1>7, <1>8

LEMMA ReplacedPresent ==
  ASSUME NEW c \in Configs, NEW u \in Plan!Present(c), NEW new \in Seq(Plan!Tunnels)
  PROVE  Plan!Present(Replaced(c, u, new)) = Plan!Present(c)
<1>1. PICK d, e : d = Replaced(c, u, new) /\ e = [c[u] EXCEPT !.tunnels = new]
  OBVIOUS
<1>2. u \in Plan!Users /\ c[u] \in Entry /\ c[u] # NoUser
  BY EntryOf
<1>3. e \in Entry
  BY <1>1, <1>2 DEF Entry
<1>4. e # NoUser
  BY <1>3, PlanConstants DEF Entry
<1>5. d = [c EXCEPT ![u] = e]
  BY <1>1 DEF Replaced
<1>6. d[u] = e /\ \A v \in Plan!Users \ {u} : d[v] = c[v]
  BY <1>2, <1>5 DEF Configs
<1> QED
  BY <1>1, <1>2, <1>4, <1>6 DEF Plan!Present

\* Rows of a sound configuration are not in each other's way.
LEMMA SoundRows ==
  ASSUME NEW c \in Configs, PlanSound(c)
  PROVE  /\ \A p, q \in DOMAIN Plan!InOrder(c) :
              Plan!InOrder(c)[p].id = Plan!InOrder(c)[q].id => p = q
         /\ \A p, q \in DOMAIN Plan!InOrder(c) :
              ~ Hits(Plan!InOrder(c)[p], Plan!InOrder(c)[q])
<1>1. PICK all : all = Plan!InOrder(c)
  OBVIOUS
<1>2. /\ \A p, q \in DOMAIN all : Plan!Proxy(all[p]) = Plan!Proxy(all[q]) => p = q
      /\ \A p, q \in DOMAIN all : Plan!Endpoint(all[p]) = Plan!Endpoint(all[q]) => p = q
      /\ \A p, q \in DOMAIN all : all[p].backend = all[q].backend => p = q
  <2>1. /\ Plan!DistinctBy(Plan!Proxy, all) /\ Plan!DistinctBy(Plan!Endpoint, all)
        /\ Plan!DistinctBy(Plan!Backend, all)
    BY <1>1, DistinctByIs DEF PlanSound
  <2> QED
    BY <2>1 DEF Plan!DistinctBy, Plan!Backend
<1>3. ASSUME NEW p \in DOMAIN all, NEW q \in DOMAIN all, all[p].id = all[q].id PROVE p = q
  <2>1. Plan!Proxy(all[p]) = Plan!Proxy(all[q])
    BY <1>3 DEF Plan!Proxy
  <2> QED
    BY <1>2, <2>1
<1>4. ASSUME NEW p \in DOMAIN all, NEW q \in DOMAIN all PROVE ~ Hits(all[p], all[q])
  BY <1>2 DEF Hits
<1> QED
  BY <1>1, <1>3, <1>4

\* A plan gets in the way of its own user only, and only by what it takes over.
LEMMA HitsIs ==
  ASSUME NEW c \in Configs, PlanSound(c), NEW u \in Plan!Present(c),
         NEW order \in Seq(Plan!Requests), NEW new \in Seq(Plan!Tunnels),
         new = Plan!NormalizeUserTunnels(c, u, order), new # Failed, Len(new) = Len(order),
         \A k \in 1..Len(order) : Got(c, u, order, Plan!UsedPorts(c, u, order), new, k),
         NEW d \in Configs, d = Replaced(c, u, new), PlanSound(d),
         Plan!Present(d) = Plan!Present(c),
         NEW v \in Plan!Present(c), NEW w \in Plan!Present(c),
         NEW i \in Has(c, v), NEW j \in Has(d, w)
  PROVE  Hits(RowOf(Tunnel(c, v, i), v), RowOf(Tunnel(d, w, j), w))
         <=> v = u /\ w = u /\ Plan!Takes(order[j], Tunnel(c, u, i))
<1>1. PICK s, t : s = Tunnel(c, v, i) /\ t = Tunnel(d, w, j)
  OBVIOUS
<1>2. Hits(RowOf(s, v), RowOf(t, w)) <=>
        /\ s.id # t.id
        /\ \/ Plan!Proxy(s) = Plan!Proxy(t)
           \/ Plan!Endpoint(s) = Plan!Endpoint(t)
           \/ s.backend = t.backend
  <2>1. s \in Plan!Tunnels /\ t \in Plan!Tunnels /\ v \in Plan!Users /\ w \in Plan!Users
    BY <1>1, EntryOf
  <2> QED
    BY <2>1, RowIs DEF Hits
<1>3. /\ Has(d, u) = 1..Len(new) /\ \A k : Tunnel(d, u, k) = new[k]
      /\ \A x \in Plan!Present(c) \ {u} :
           Has(d, x) = Has(c, x) /\ \A k : Tunnel(d, x, k) = Tunnel(c, x, k)
  BY ReplacedIs
<1>4. ASSUME NEW e \in Configs, PlanSound(e),
             NEW x \in Plan!Present(e), NEW y \in Plan!Present(e),
             NEW k \in Has(e, x), NEW l \in Has(e, y)
      PROVE  /\ Plan!Proxy(Tunnel(e, x, k)) = Plan!Proxy(Tunnel(e, y, l)) => x = y /\ k = l
             /\ Plan!Endpoint(Tunnel(e, x, k)) = Plan!Endpoint(Tunnel(e, y, l)) => x = y /\ k = l
             /\ Tunnel(e, x, k).backend = Tunnel(e, y, l).backend => x = y /\ k = l
  BY <1>4 DEF PlanSound, OwnProxies, OwnEndpoints, OwnBackends
<1>5. CASE w # u
  <2>1. t = Tunnel(c, w, j) /\ j \in Has(c, w)
    BY <1>1, <1>3, <1>5
  <2>2. /\ Plan!Proxy(s) = Plan!Proxy(t) => v = w /\ i = j
        /\ Plan!Endpoint(s) = Plan!Endpoint(t) => v = w /\ i = j
        /\ s.backend = t.backend => v = w /\ i = j
    BY <1>1, <1>4, <2>1
  <2>3. v = w /\ i = j => s = t
    BY <1>1, <2>1
  <2> QED
    BY <1>1, <1>2, <1>5, <2>2, <2>3
<1>6. CASE v # u /\ w = u
  <2>1. s = Tunnel(d, v, i) /\ i \in Has(d, v)
    BY <1>1, <1>3, <1>6
  <2>2. /\ Plan!Proxy(s) = Plan!Proxy(t) => v = w
        /\ Plan!Endpoint(s) = Plan!Endpoint(t) => v = w
        /\ s.backend = t.backend => v = w
    BY <1>1, <1>4, <2>1
  <2> QED
    BY <1>1, <1>2, <1>6, <2>2
<1>7. CASE v = u /\ w = u
  <2>1. j \in 1..Len(order) /\ t = new[j] /\ i \in Has(c, u) /\ s = Tunnel(c, u, i)
    BY <1>1, <1>3, <1>7
  <2>2. Got(c, u, order, Plan!UsedPorts(c, u, order), new, j)
    BY <2>1
  <2>3. /\ t.id = order[j].id /\ Plan!Proxy(t) = Plan!Proxy(order[j])
        /\ Plan!Endpoint(t) = Plan!Endpoint(order[j])
    BY <2>1, <2>2 DEF Got, Plan!Proxy, Plan!Endpoint
  <2>4. s.backend = t.backend => s.id = t.id
    <3>1. CASE \E o \in Has(c, u) : Tunnel(c, u, o).id = order[j].id
                                    /\ new[j].backend = Tunnel(c, u, o).backend
      <4>1. PICK o \in Has(c, u) : Tunnel(c, u, o).id = order[j].id
                                   /\ new[j].backend = Tunnel(c, u, o).backend
        BY <3>1
      <4>2. s.backend = t.backend => i = o
        <5>1. PICK b : b = Tunnel(c, u, o).backend
          OBVIOUS
        <5>2. t.backend = b
          BY <2>1, <4>1, <5>1
        <5>3. Tunnel(c, u, i).backend = b => i = o
          BY <1>4, <2>1, <5>1
        <5> QED
          BY <2>1, <5>2, <5>3
      <4> QED
        BY <2>1, <2>3, <4>1, <4>2
    <3>2. CASE new[j].backend \notin Plan!UsedPorts(c, u, order)
      <4>1. s.backend \in Plan!UsedPorts(c, u, order)
        BY <2>1, UsedAre
      <4> QED
        BY <2>1, <3>2, <4>1
    <3> QED
      BY <2>2, <3>1, <3>2 DEF Got
  <2>5. Hits(RowOf(s, v), RowOf(t, w)) <=> Plan!Takes(order[j], s)
    BY <1>2, <2>3, <2>4 DEF Plan!Takes
  <2> QED
    BY <1>1, <1>7, <2>1, <2>5
<1> QED
  BY <1>5, <1>6, <1>7

\* What a tunnel of a plan takes over from another one has been given up before.
GoodOrder(c, u, order) ==
    \A k \in DOMAIN order : \A i \in Has(c, u) :
       Plan!Takes(order[k], Tunnel(c, u, i))
         => \E l \in 1..(k - 1) : order[l].id = Tunnel(c, u, i).id

LEMMA ClearIsGood ==
  ASSUME NEW c \in Configs, PlanSound(c), NEW u \in Plan!Present(c),
         NEW order \in Seq(Plan!Requests), NEW new \in Seq(Plan!Tunnels),
         new = Plan!NormalizeUserTunnels(c, u, order), new # Failed, Len(new) = Len(order),
         \A k \in 1..Len(order) : Got(c, u, order, Plan!UsedPorts(c, u, order), new, k),
         NEW d \in Configs, d = Replaced(c, u, new), PlanSound(d),
         Plan!Present(d) = Plan!Present(c),
         NEW table, table = Plan!ToSet(Plan!InOrder(c)), NEW all, all = Plan!InOrder(d)
  PROVE  WayClear(table, all, Len(all)) <=> GoodOrder(c, u, order)
<1>1. PICK n : n = Len(order)
  OBVIOUS
<1>2. /\ Has(d, u) = 1..n /\ \A k : Tunnel(d, u, k) = new[k]
      /\ \A x \in Plan!Present(c) \ {u} :
           Has(d, x) = Has(c, x) /\ \A k : Tunnel(d, x, k) = Tunnel(c, x, k)
      /\ DOMAIN order = 1..n /\ n \in Nat
  BY <1>1, ReplacedIs
<1>3. \A k \in 1..n : new[k].id = order[k].id
  BY <1>1 DEF Got
<1>4. ASSUME NEW v \in Plan!Present(c), NEW w \in Plan!Present(c),
             NEW i \in Has(c, v), NEW j \in Has(d, w)
      PROVE  Hits(RowOf(Tunnel(c, v, i), v), RowOf(Tunnel(d, w, j), w))
             <=> v = u /\ w = u /\ Plan!Takes(order[j], Tunnel(c, u, i))
  BY HitsIs
<1>5. /\ \A w \in Plan!Present(c) : \A j \in Has(d, w) :
           /\ PlaceOf(d, w, j) \in DOMAIN all
           /\ all[PlaceOf(d, w, j)] = RowOf(Tunnel(d, w, j), w)
      /\ \A p \in DOMAIN all :
           \E w \in Plan!Present(c) : \E j \in Has(d, w) : p = PlaceOf(d, w, j)
      /\ DOMAIN all = 1..Len(all) /\ Len(all) \in Nat
  <2>1. all \in Seq(Plan!Rows)
    BY InOrderIs
  <2> QED
    BY <2>1, PlacesOfTunnels
<1>6. /\ \A v \in Plan!Present(c) : \A i \in Has(c, v) : RowOf(Tunnel(c, v, i), v) \in table
      /\ \A r \in table : \E v \in Plan!Present(c) : \E i \in Has(c, v) :
            r = RowOf(Tunnel(c, v, i), v)
  BY RowsInOrder
<1>7. ASSUME NEW w \in Plan!Present(c), NEW j \in Has(d, w)
      PROVE  all[PlaceOf(d, w, j)].id = Tunnel(d, w, j).id
  <2>1. RowOf(Tunnel(d, w, j), w).id = Tunnel(d, w, j).id
    BY DEF RowOf
  <2> QED
    BY <1>5, <2>1
<1>8. ASSUME NEW i \in Has(c, u), NEW j \in 1..n
      PROVE  (\E q \in 1..(PlaceOf(d, u, j) - 1) : all[q].id = Tunnel(c, u, i).id)
             <=> \E l \in 1..(j - 1) : order[l].id = Tunnel(c, u, i).id
  <2>1. PICK p : p = PlaceOf(d, u, j)
    OBVIOUS
  <2>2. p \in 1..Len(all)
    BY <1>2, <1>5, <2>1
  <2>3. ASSUME NEW q \in 1..(p - 1), all[q].id = Tunnel(c, u, i).id
        PROVE  \E l \in 1..(j - 1) : order[l].id = Tunnel(c, u, i).id
    <3>1. q \in DOMAIN all /\ q < p
      BY <1>5, <2>2
    <3>2. PICK w \in Plan!Present(c) : \E l \in Has(d, w) : q = PlaceOf(d, w, l)
      BY <1>5, <3>1
    <3>3. PICK l \in Has(d, w) : q = PlaceOf(d, w, l)
      BY <3>2
    <3>4. Tunnel(d, w, l).id = Tunnel(c, u, i).id
      BY <1>7, <2>3, <3>3
    <3>5. w = u
      <4> SUFFICES ASSUME w # u PROVE FALSE
        OBVIOUS
      <4>1. l \in Has(c, w) /\ Tunnel(d, w, l) = Tunnel(c, w, l)
        BY <1>2, <3>3
      <4>2. Plan!Proxy(Tunnel(c, w, l)) = Plan!Proxy(Tunnel(c, u, i))
        BY <3>4, <4>1 DEF Plan!Proxy
      <4>3. OwnProxies(c)
        BY DEF PlanSound
      <4> QED
        BY <4>1, <4>2, <4>3 DEF OwnProxies
    <3>6. l \in 1..n /\ l < j
      <4>1. l \in Has(d, u) /\ j \in Has(d, u) /\ u \in Plan!Present(d)
        BY <1>2, <3>3, <3>5
      <4>2. PlaceOf(d, u, l) < PlaceOf(d, u, j)
        BY <2>1, <3>1, <3>3, <3>5
      <4> QED
        BY <1>2, <4>1, <4>2, PlacesInOrder
    <3>7. l \in 1..(j - 1) /\ order[l].id = Tunnel(c, u, i).id
      BY <1>2, <1>3, <3>4, <3>5, <3>6
    <3> QED
      BY <3>7
  <2>4. ASSUME NEW l \in 1..(j - 1), order[l].id = Tunnel(c, u, i).id
        PROVE  \E q \in 1..(p - 1) : all[q].id = Tunnel(c, u, i).id
    <3>1. l \in 1..n /\ l < j
      BY <1>2
    <3>2. PICK q : q = PlaceOf(d, u, l)
      OBVIOUS
    <3>3. l \in Has(d, u) /\ j \in Has(d, u) /\ u \in Plan!Present(d)
      BY <1>2, <3>1
    <3>4. q < p
      BY <2>1, <3>1, <3>2, <3>3, PlacesInOrder
    <3>5. q \in 1..Len(all)
      BY <1>5, <3>2, <3>3
    <3>6. q \in 1..(p - 1)
      BY <1>5, <2>2, <3>4, <3>5
    <3>7. all[q].id = order[l].id
      BY <1>2, <1>3, <1>7, <3>1, <3>2, <3>3
    <3> QED
      BY <2>4, <3>6, <3>7
  <2> QED
    BY <2>1, <2>3, <2>4
<1>9. ASSUME WayClear(table, all, Len(all)), NEW k \in 1..n, NEW i \in Has(c, u),
             Plan!Takes(order[k], Tunnel(c, u, i))
      PROVE  \E l \in 1..(k - 1) : order[l].id = Tunnel(c, u, i).id
  <2>1. PICK p, r : p = PlaceOf(d, u, k) /\ r = RowOf(Tunnel(c, u, i), u)
    OBVIOUS
  <2>2. k \in Has(d, u) /\ p \in 1..Len(all) /\ r \in table /\ all[p] = RowOf(Tunnel(d, u, k), u)
    BY <1>2, <1>5, <1>6, <2>1
  <2>3. Hits(r, all[p])
    BY <1>4, <1>9, <2>1, <2>2
  <2>4. \E q \in 1..(p - 1) : all[q].id = r.id
    BY <1>9, <2>2, <2>3 DEF WayClear
  <2>5. r.id = Tunnel(c, u, i).id
    BY <2>1 DEF RowOf
  <2> QED
    BY <1>8, <2>1, <2>4, <2>5
<1>10. ASSUME GoodOrder(c, u, order), NEW p \in 1..Len(all), NEW r \in table, Hits(r, all[p])
       PROVE  \E q \in 1..(p - 1) : all[q].id = r.id
  <2>1. PICK w \in Plan!Present(c) : \E j \in Has(d, w) : p = PlaceOf(d, w, j)
    BY <1>5
  <2>2. PICK j \in Has(d, w) : p = PlaceOf(d, w, j)
    BY <2>1
  <2>3. PICK v \in Plan!Present(c) : \E i \in Has(c, v) : r = RowOf(Tunnel(c, v, i), v)
    BY <1>6
  <2>4. PICK i \in Has(c, v) : r = RowOf(Tunnel(c, v, i), v)
    BY <2>3
  <2>5. all[p] = RowOf(Tunnel(d, w, j), w)
    BY <1>5, <2>2
  <2>6. v = u /\ w = u /\ Plan!Takes(order[j], Tunnel(c, u, i))
    BY <1>4, <1>10, <2>4, <2>5
  <2>7. i \in Has(c, u) /\ j \in 1..n
    BY <1>2, <2>2, <2>4, <2>6
  <2>8. \E l \in 1..(j - 1) : order[l].id = Tunnel(c, u, i).id
    BY <1>2, <1>10, <2>6, <2>7 DEF GoodOrder
  <2>9. r.id = Tunnel(c, u, i).id
    BY <2>4, <2>6 DEF RowOf
  <2> QED
    BY <1>8, <2>2, <2>6, <2>7, <2>8, <2>9
<1>11. WayClear(table, all, Len(all)) => GoodOrder(c, u, order)
  BY <1>2, <1>9 DEF GoodOrder
<1>12. GoodOrder(c, u, order) => WayClear(table, all, Len(all))
  BY <1>10 DEF WayClear
<1> QED
  BY <1>11, <1>12

\* The table takes a plan in a good order, and in no other.
LEMMA StoredIfGood ==
  ASSUME Failed \notin SUBSET Plan!Rows,
         NEW c \in Configs, PlanSound(c), NEW u \in Plan!Present(c),
         NEW order \in Seq(Plan!Requests), Plan!NormalizeUserTunnels(c, u, order) # Failed,
         NEW table, table = Plan!ToSet(Plan!InOrder(c))
  PROVE  Plan!WriteSnapshot(table,
             Replaced(c, u, Plan!NormalizeUserTunnels(c, u, order))) # Failed
         <=> GoodOrder(c, u, order)
<1>1. PICK new \in Seq(Plan!Tunnels) :
           /\ new = Plan!NormalizeUserTunnels(c, u, order) /\ Len(new) = Len(order)
           /\ \A i \in 1..Len(order) : Got(c, u, order, Plan!UsedPorts(c, u, order), new, i)
  BY PlanIsGiven
<1>2. PICK d : d = Replaced(c, u, new)
  OBVIOUS
<1>3. d \in Configs /\ PlanSound(d) /\ Plan!Present(d) = Plan!Present(c)
  BY <1>1, <1>2, PlanLeavesSound, ReplacedPresent
<1>4. PICK all : all = Plan!InOrder(d)
  OBVIOUS
<1>5. all \in Seq(Plan!Rows) /\ table \in SUBSET Plan!Rows
  <2>1. Plan!InOrder(c) \in Seq(Plan!Rows)
    BY InOrderIs
  <2>2. table \in SUBSET Plan!Rows
    BY <2>1 DEF Plan!ToSet
  <2> QED
    BY <1>3, <1>4, <2>2, InOrderIs
<1>6. {r \in table : d[r.user] # NoUser} = table
  <2>1. ASSUME NEW r \in table PROVE d[r.user] # NoUser
    <3>1. PICK v \in Plan!Present(c) : \E i \in Has(c, v) : r = RowOf(Tunnel(c, v, i), v)
      BY RowsInOrder
    <3>2. r.user = v
      BY <3>1 DEF RowOf
    <3> QED
      BY <1>3, <3>2 DEF Plan!Present
  <2> QED
    BY <2>1
<1>7. PICK written : written = Writes(table, all)[DOMAIN all]
  OBVIOUS
<1>8. Plan!WriteSnapshot(table, d) =
        IF written = Failed THEN Failed
        ELSE {r \in written : \E t \in Plan!ToSet(all) : t.id = r.id}
  <2>1. Plan!WriteSnapshot(table, d) =
          IF Writes({r \in table : d[r.user] # NoUser}, Plan!InOrder(d))[DOMAIN Plan!InOrder(d)]
               = Failed THEN Failed
          ELSE {r \in Writes({r \in table : d[r.user] # NoUser},
                             Plan!InOrder(d))[DOMAIN Plan!InOrder(d)] :
                  \E t \in Plan!ToSet(Plan!InOrder(d)) : t.id = r.id}
    BY DEF Plan!WriteSnapshot, Writes, Writing, Plan!FoldLeft, Plan!MapThenFoldSet, Top
  <2> QED
    BY <1>4, <1>6, <1>7, <2>1
<1>9. /\ \A p, q \in DOMAIN all : all[p].id = all[q].id => p = q
      /\ \A p, q \in DOMAIN all : ~ Hits(all[p], all[q])
  BY <1>3, <1>4, SoundRows
<1>10. written # Failed => Plan!WriteSnapshot(table, d) # Failed
  <2> SUFFICES ASSUME written # Failed PROVE Plan!WriteSnapshot(table, d) # Failed
    OBVIOUS
  <2>1. written = {r \in table : \A i \in DOMAIN all : r.id # all[i].id}
                  \cup {all[i] : i \in DOMAIN all}
    BY <1>5, <1>7, <1>9, WritesAll
  <2>2. written \in SUBSET Plan!Rows
    BY <1>5, <2>1
  <2>3. Plan!WriteSnapshot(table, d) \in SUBSET Plan!Rows
    BY <1>8, <2>2
  <2> QED
    BY <2>3
<1>11. written # Failed <=> WayClear(table, all, Len(all))
  BY <1>5, <1>7, <1>9, WritesIfClear
<1>12. WayClear(table, all, Len(all)) <=> GoodOrder(c, u, order)
  BY <1>1, <1>2, <1>3, <1>4, ClearIsGood
<1> QED
  BY <1>1, <1>2, <1>8, <1>10, <1>11, <1>12

-----------------------------------------------------------------------------
(* TunnelPlan: the orders of a plan.                                       *)

OneToOne(s) == \A i, j \in DOMAIN s : s[i] = s[j] => i = j

\* order is plan in another order.
Reorders(order, plan) ==
    /\ order \in Seq(Plan!Requests) /\ Len(order) = Len(plan)
    /\ Plan!ToSet(order) = Plan!ToSet(plan) /\ OneToOne(order)

\* A sequence without repetition is as long as it has members.
LEMMA AsLongAsMembers ==
  ASSUME NEW X, NEW s \in Seq(X), OneToOne(s)
  PROVE  IsFiniteSet(Plan!ToSet(s)) /\ Cardinality(Plan!ToSet(s)) = Len(s)
<1>1. PICK n, S : n = Len(s) /\ S = Plan!ToSet(s)
  OBVIOUS
<1>2. n \in Nat /\ DOMAIN s = 1..n /\ S = {s[i] : i \in 1..n}
  BY <1>1 DEF Plan!ToSet
<1>3. IsFiniteSet(1..n) /\ Cardinality(1..n) = n
  BY <1>2, FirstPlaces
<1>4. PICK f : f = [i \in 1..n |-> s[i]]
  OBVIOUS
<1>5. f \in Bijection(1..n, S)
  BY <1>2, <1>4 DEF Bijection, Injection, Surjection, OneToOne, IsInjective
<1>6. ExistsBijection(1..n, S)
  BY <1>5 DEF ExistsBijection
<1> QED
  BY <1>1, <1>3, <1>6, FS_Bijection

\* It is no longer than one with more members, and as long only with the same ones.
LEMMA AmongMembers ==
  ASSUME NEW X, NEW s \in Seq(X), OneToOne(s), NEW t \in Seq(X), OneToOne(t),
         Plan!ToSet(s) \subseteq Plan!ToSet(t)
  PROVE  Len(s) <= Len(t) /\ (Len(s) = Len(t) <=> Plan!ToSet(s) = Plan!ToSet(t))
<1>1. PICK S, T : S = Plan!ToSet(s) /\ T = Plan!ToSet(t)
  OBVIOUS
<1>2. /\ IsFiniteSet(S) /\ Cardinality(S) = Len(s)
      /\ IsFiniteSet(T) /\ Cardinality(T) = Len(t)
  BY <1>1, AsLongAsMembers
<1>3. S \in SUBSET T
  BY <1>1
<1>4. Cardinality(S) <= Cardinality(T) /\ (Cardinality(T) = Cardinality(S) => T = S)
  BY <1>2, <1>3, FS_Subset
<1> QED
  BY <1>1, <1>2, <1>4

LEMMA OrdersAre ==
  ASSUME NEW plan \in Seq(Plan!Requests), OneToOne(plan), NEW order
  PROVE  order \in Plan!SetToSeqs(Plan!ToSet(plan)) <=> Reorders(order, plan)
<1>1. PICK n, S : n = Len(plan) /\ S = Plan!ToSet(plan)
  OBVIOUS
<1>2. n \in Nat /\ S \in SUBSET Plan!Requests
  BY <1>1 DEF Plan!ToSet
<1>3. Plan!Cardinality(S) = Cardinality(S)
  BY DEF Plan!Cardinality, Cardinality
<1>4. Plan!Cardinality(S) = n
  BY <1>1, <1>3, AsLongAsMembers
<1>5. Plan!SetToSeqs(S) = {f \in [1..n -> S] : \A i, j \in 1..n : i # j => f[i] # f[j]}
  BY <1>4 DEF Plan!SetToSeqs
<1>6. ASSUME order \in Plan!SetToSeqs(S) PROVE Reorders(order, plan)
  <2>1. order \in [1..n -> S] /\ \A i, j \in 1..n : i # j => order[i] # order[j]
    BY <1>5, <1>6
  <2>2. order \in Seq(Plan!Requests) /\ Len(order) = n /\ DOMAIN order = 1..n
    BY <1>2, <2>1
  <2>3. OneToOne(order)
    BY <2>1, <2>2 DEF OneToOne
  <2>4. Plan!ToSet(order) \subseteq S
    BY <2>1, <2>2 DEF Plan!ToSet
  <2>5. Plan!ToSet(order) = S
    BY <1>1, <2>2, <2>3, <2>4, AmongMembers
  <2> QED
    BY <1>1, <2>2, <2>3, <2>5 DEF Reorders
<1>7. ASSUME Reorders(order, plan) PROVE order \in Plan!SetToSeqs(S)
  <2>1. order \in Seq(Plan!Requests) /\ Len(order) = n /\ Plan!ToSet(order) = S /\ OneToOne(order)
    BY <1>1, <1>7 DEF Reorders
  <2>2. DOMAIN order = 1..n /\ order = [i \in 1..n |-> order[i]]
    BY <2>1
  <2>3. \A i \in 1..n : order[i] \in S
    BY <2>1, <2>2 DEF Plan!ToSet
  <2>4. order \in [1..n -> S]
    BY <2>2, <2>3
  <2>5. \A i, j \in 1..n : i # j => order[i] # order[j]
    BY <2>1, <2>2 DEF OneToOne
  <2> QED
    BY <1>5, <2>4, <2>5
<1> QED
  BY <1>1, <1>6, <1>7

\* The handler accepts a plan in any order, and keeps the same ports away from
\* the new back-end ports.
LEMMA AcceptedInAnyOrder ==
  ASSUME NEW c, NEW u, NEW plan \in Seq(Plan!Requests), Plan!PlanAccepted(c, u, plan),
         NEW order, Reorders(order, plan)
  PROVE  /\ Plan!PlanAccepted(c, u, order)
         /\ Plan!UsedPorts(c, u, order) = Plan!UsedPorts(c, u, plan)
<1>1. /\ Len(order) = Len(plan) /\ Plan!ToSet(order) = Plan!ToSet(plan)
      /\ \A i, j \in DOMAIN order : order[i] = order[j] => i = j
  BY DEF Reorders, OneToOne
<1>2. \A i \in DOMAIN order : \E k \in DOMAIN plan : order[i] = plan[k]
  BY <1>1 DEF Plan!ToSet
<1>3. ASSUME Plan!DistinctBy(Plan!Endpoint, plan) PROVE Plan!DistinctBy(Plan!Endpoint, order)
  BY <1>1, <1>2, <1>3 DEF Plan!DistinctBy
<1>4. ASSUME Plan!DistinctBy(Plan!Proxy, plan) PROVE Plan!DistinctBy(Plan!Proxy, order)
  BY <1>1, <1>2, <1>4 DEF Plan!DistinctBy
<1>5. Plan!PlanAccepted(c, u, order)
  BY <1>1, <1>3, <1>4 DEF Plan!PlanAccepted, Plan!NormalizeTunnels
<1> QED
  BY <1>1, <1>5 DEF Plan!UsedPorts

-----------------------------------------------------------------------------
(* TunnelPlan: ports enough for a plan are enough for it in any order.     *)

LEMMA AllocateFrom ==
  ASSUME NEW used, Pool \ used # {}
  PROVE  Plan!AllocateBackend(used) # Failed
<1>1. PICK free : free = Pool \ used
  OBVIOUS
<1>2. free \in SUBSET Nat /\ free # {}
  BY <1>1, PlanConstants
<1>3. \E m \in free : \A n \in free : m <= n
  BY <1>2, LeastNatural
<1>4. Plan!Min(free) \in free
  BY <1>3 DEF Plan!Min
<1>5. Plan!AllocateBackend(used) = Plan!Min(free)
  BY <1>1, <1>2 DEF Plan!AllocateBackend
<1> QED
  BY <1>1, <1>4, <1>5, PlanConstants

\* What the first k tunnels have used up has gone to new ones.
OnlyFresh(c, u, plan, used, k, d) ==
    \A b \in d.used \ used : \E i \in 1..k : Fresh(c, u, plan[i]) /\ d.tunnels[i].backend = b

LEMMA OnlyFreshStep ==
  ASSUME NEW c \in Configs, NEW u \in Plan!Present(c), NEW plan, NEW used, NEW k \in Nat, k # 0,
         \A o \in Has(c, u) : Tunnel(c, u, o).backend \in used,
         NEW d, HasTunnels(d), d.tunnels \in Seq(Plan!Tunnels), Len(d.tunnels) = k - 1,
         OnlyFresh(c, u, plan, used, k - 1, d), plan[k] \in Plan!Requests,
         Plan!Give(c, u, d, plan[k]).tunnels # Failed
  PROVE  OnlyFresh(c, u, plan, used, k, Plan!Give(c, u, d, plan[k]))
<1>1. PICK e, port : e = Plan!Give(c, u, d, plan[k]) /\ port = PortFor(c, u, d, plan[k])
  OBVIOUS
<1>2. PICK t : t = [id |-> plan[k].id, protocol |-> plan[k].protocol,
                    port |-> plan[k].port, backend |-> port]
  OBVIOUS
<1>3. port # Failed /\ e.used = d.used \cup {port} /\ e.tunnels = Append(d.tunnels, t)
  <2>1. Gave(c, u, d, plan[k], e)
    BY <1>1, GiveIs
  <2> QED
    BY <1>1, <1>2, <2>1 DEF Gave
<1>4. port \notin used => Fresh(c, u, plan[k])
  BY <1>1, KeptBackendIs, PlanConstants DEF PortFor
<1>5. t.backend = port /\ t \in Plan!Tunnels
  <2>1. port \in Pool
    BY <1>1, <1>3, KeptBackendIs, AllocateIs DEF PortFor
  <2> QED
    BY <1>2, <2>1 DEF Plan!Tunnels, Plan!Requests
<1>6. PICK old, new : old = d.tunnels /\ new = e.tunnels
  OBVIOUS
<1>7. new[k] = t /\ \A i \in 1..(k - 1) : new[i] = old[i]
  BY <1>3, <1>5, <1>6
<1>8. ASSUME NEW b \in e.used \ used
      PROVE  \E i \in 1..k : Fresh(c, u, plan[i]) /\ new[i].backend = b
  <2>1. CASE b = port
    BY <1>4, <1>5, <1>7, <1>8, <2>1
  <2>2. CASE b # port
    <3>1. b \in d.used \ used
      BY <1>3, <1>8, <2>2
    <3>2. PICK i \in 1..(k - 1) : Fresh(c, u, plan[i]) /\ old[i].backend = b
      BY <1>6, <3>1 DEF OnlyFresh
    <3>3. i \in 1..k /\ new[i] = old[i]
      BY <1>7
    <3> QED
      BY <3>2, <3>3
  <2> QED
    BY <2>1, <2>2
<1> QED
  BY <1>1, <1>6, <1>8 DEF OnlyFresh

\* Give succeeds when there is a port.
LEMMA GiveWorks ==
  ASSUME NEW c \in Configs, NEW u \in Plan!Present(c), NEW d, NEW t \in Plan!Requests,
         d.tunnels \in Seq(Plan!Tunnels), Fresh(c, u, t) => Pool \ d.used # {}
  PROVE  Plan!Give(c, u, d, t).tunnels # Failed
<1>1. PICK port : port = PortFor(c, u, d, t)
  OBVIOUS
<1>2. port # Failed /\ port \in Pool
  BY <1>1, KeptBackendIs, AllocateFrom, AllocateIs, PlanConstants DEF PortFor
<1>3. d.tunnels # Failed
  BY PlanConstants
<1>4. PICK n : n = [id |-> t.id, protocol |-> t.protocol, port |-> t.port, backend |-> port]
  OBVIOUS
<1>5. n \in Plan!Tunnels
  BY <1>2, <1>4 DEF Plan!Tunnels, Plan!Requests
<1>6. Plan!Give(c, u, d, t) = [used |-> d.used \cup {port}, tunnels |-> Append(d.tunnels, n)]
  BY <1>1, <1>2, <1>3, <1>4 DEF Plan!Give, PortFor
<1>7. Append(d.tunnels, n) \in Seq(Plan!Tunnels)
  BY <1>5
<1>8. Plan!Give(c, u, d, t).tunnels = Append(d.tunnels, n)
  BY <1>6
<1>9. Failed \notin Seq(Plan!Tunnels)
  BY PlanConstants
<1> QED
  BY <1>7, <1>8, <1>9

\* Every member of J has a value of its own in A; the members of I use up A.
OwnOnes(f, J, A) == (\A j \in J : f[j] \in A) /\ (\A i, j \in J : f[i] = f[j] => i = j)
UseUp(g, I, A) == \A a \in A : \E i \in I : g[i] = a

LEMMA NotUsedUp ==
  ASSUME NEW n \in Nat, NEW J \in SUBSET (1..n), NEW A, NEW f, OwnOnes(f, J, A),
         NEW I \in SUBSET J, I # J, NEW g, UseUp(g, I, A)
  PROVE  FALSE
<1>0. /\ \A j \in J : f[j] \in A
      /\ \A i, j \in J : f[i] = f[j] => i = j
      /\ \A a \in A : \E i \in I : g[i] = a
  BY DEF OwnOnes, UseUp
<1>1. PICK B : B = {g[i] : i \in I}
  OBVIOUS
<1>2. IsFiniteSet(J)
  BY FirstPlaces, FS_Subset
<1>3. IsFiniteSet(I) /\ Cardinality(I) <= Cardinality(J) /\ Cardinality(I) # Cardinality(J)
  BY <1>2, FS_Subset
<1>4. [i \in I |-> g[i]] \in Surjection(I, B)
  BY <1>1 DEF Surjection
<1>5. IsFiniteSet(B) /\ Cardinality(B) <= Cardinality(I)
  BY <1>3, <1>4, FS_Surjection
<1>6. \A j \in J : f[j] \in B
  BY <1>0, <1>1
<1>7. [j \in J |-> f[j]] \in Injection(J, B)
  BY <1>0, <1>6 DEF Injection, IsInjective
<1>8. Cardinality(J) <= Cardinality(B)
  BY <1>5, <1>7, FS_Injection
<1>9. Cardinality(I) \in Nat /\ Cardinality(J) \in Nat /\ Cardinality(B) \in Nat
  BY <1>2, <1>3, <1>5, FS_CardinalityType
<1> QED
  BY <1>3, <1>5, <1>8, <1>9

LEMMA EnoughInAnyOrder ==
  ASSUME NEW c \in Configs, NEW u \in Plan!Present(c), NEW plan \in Seq(Plan!Requests),
         Plan!NormalizeUserTunnels(c, u, plan) # Failed, OneToOne(plan),
         NEW order, Reorders(order, plan)
  PROVE  Plan!NormalizeUserTunnels(c, u, order) # Failed
<1>1. PICK used, base : /\ used = Plan!UsedPorts(c, u, order)
                        /\ base = [used |-> used, tunnels |-> <<>>]
  OBVIOUS
<1> DEFINE n == Len(order)
           G(k) == Gives(c, u, base, order)[1..k]
           Good(k) == /\ HasTunnels(G(k)) /\ G(k).tunnels # Failed
                      /\ Given(c, u, order, used, k, G(k))
                      /\ OnlyFresh(c, u, order, used, k, G(k))
           Bad == {k \in 0..n : ~ Good(k)}
<1>2. /\ order \in Seq(Plan!Requests) /\ Len(plan) = n
      /\ \A i, j \in DOMAIN order : order[i] = order[j] => i = j
  BY DEF Reorders, OneToOne
<1>3. n \in Nat /\ DOMAIN order = 1..n /\ \A k \in 1..n : order[k] \in Plan!Requests
  BY <1>2
<1>4. /\ Plan!PlanAccepted(c, u, order) /\ used = Plan!UsedPorts(c, u, plan)
      /\ \E new \in Seq(Plan!Tunnels) :
           /\ Len(new) = Len(plan)
           /\ \A i \in 1..Len(plan) : Got(c, u, plan, Plan!UsedPorts(c, u, plan), new, i)
  BY <1>1, PlanIsGiven, AcceptedInAnyOrder
<1>5. PICK new \in Seq(Plan!Tunnels) : \A i \in 1..n : Got(c, u, plan, used, new, i)
  BY <1>2, <1>4
<1>6. \A o \in Has(c, u) : Tunnel(c, u, o).backend \in used
  BY <1>1, <1>2, UsedAre
<1>7. G(0) = base /\ \A k \in 1..n : G(k) = Plan!Give(c, u, G(k - 1), order[k])
  BY <1>2, GivesStep
<1>8. Plan!NormalizeUserTunnels(c, u, order) = G(n).tunnels
  <2>1. Plan!NormalizeUserTunnels(c, u, order) =
          IF Plan!PlanAccepted(c, u, order)
            THEN Gives(c, u, base, order)[DOMAIN order].tunnels ELSE Failed
    BY <1>1 DEF Plan!NormalizeUserTunnels, Gives, Giving, Plan!FoldLeft,
                Plan!MapThenFoldSet, Top
  <2> QED
    BY <1>3, <1>4, <2>1
<1> HIDE DEF G
<1> DEFINE J == {j \in 1..n : Fresh(c, u, order[j])}
           Spot(j) == CHOOSE i \in 1..n : order[j] = plan[i]
           f == [j \in J |-> new[Spot(j)].backend]
<1>9. \A j \in 1..n : Spot(j) \in 1..n /\ order[j] = plan[Spot(j)]
  <2>1. DOMAIN plan = 1..n /\ Plan!ToSet(order) = Plan!ToSet(plan)
    BY <1>2 DEF Reorders
  <2>2. \A j \in 1..n : \E i \in 1..n : order[j] = plan[i]
    BY <1>3, <2>1 DEF Plan!ToSet
  <2> QED
    BY <2>2
<1> HIDE DEF Spot
<1>10. ASSUME NEW j \in J PROVE f[j] \in Pool \ used
  <2>1. PICK i \in 1..n : i = Spot(j) /\ order[j] = plan[i]
    BY <1>9
  <2>2. Fresh(c, u, plan[i]) /\ f[j] = new[i].backend
    BY <2>1
  <2>3. Got(c, u, plan, used, new, i)
    BY <1>5
  <2>4. new[i].backend \in Pool
    BY <2>3 DEF Got, Plan!Tunnels
  <2>5. new[i].backend \notin used
    BY <2>2, <2>3 DEF Got, Fresh
  <2> QED
    BY <2>2, <2>4, <2>5
<1>11. ASSUME NEW i \in J, NEW j \in J, f[i] = f[j] PROVE i = j
  <2>1. PICK k \in 1..n, l \in 1..n : /\ k = Spot(i) /\ order[i] = plan[k]
                                      /\ l = Spot(j) /\ order[j] = plan[l]
    BY <1>9
  <2>2. /\ Fresh(c, u, plan[k]) /\ Fresh(c, u, plan[l])
        /\ new[k].backend = new[l].backend
    BY <1>11, <2>1
  <2>3. Got(c, u, plan, used, new, k) /\ Got(c, u, plan, used, new, l)
    BY <1>5
  <2>4. /\ \A m \in 1..(k - 1) : new[k].backend # new[m].backend
        /\ \A m \in 1..(l - 1) : new[l].backend # new[m].backend
    BY <2>2, <2>3 DEF Got, Fresh
  <2>5. ~ (l \in 1..(k - 1)) /\ ~ (k \in 1..(l - 1))
    BY <2>2, <2>4
  <2>6. k = l
    BY <1>3, <2>5
  <2> QED
    BY <1>2, <1>3, <2>1, <2>6
<1> HIDE DEF f
<1>12. ASSUME NEW k \in 1..n, Good(k - 1), Fresh(c, u, order[k])
       PROVE  Pool \ G(k - 1).used # {}
  <2>1. PICK d : d = G(k - 1)
    OBVIOUS
  <2>2. OnlyFresh(c, u, order, used, k - 1, d)
    BY <1>12, <2>1
  <2>3. PICK g : g = [i \in 1..n |-> d.tunnels[i].backend]
    OBVIOUS
  <2>4. PICK I : I = J \cap (1..(k - 1))
    OBVIOUS
  <2>5. I \in SUBSET J /\ I # J
    <3>1. k \in J /\ k \notin 1..(k - 1)
      BY <1>12
    <3> QED
      BY <2>4, <3>1
  <2>6. J \in SUBSET (1..n)
    OBVIOUS
  <2> HIDE DEF J
  <2>7. PICK a \in Pool \ used : \A i \in I : g[i] # a
    <3>1. OwnOnes(f, J, Pool \ used)
      BY <1>10, <1>11 DEF OwnOnes
    <3>2. ~ UseUp(g, I, Pool \ used)
      BY <1>3, <2>5, <2>6, <3>1, NotUsedUp
    <3> QED
      BY <3>2 DEF UseUp
  <2>8. a \notin d.used
    <3> SUFFICES ASSUME a \in d.used PROVE FALSE
      OBVIOUS
    <3>1. PICK i \in 1..(k - 1) : Fresh(c, u, order[i]) /\ d.tunnels[i].backend = a
      BY <2>2, <2>7 DEF OnlyFresh
    <3>2. i \in 1..n
      BY <1>3
    <3>3. i \in I /\ g[i] = a
      BY <2>3, <2>4, <3>1, <3>2 DEF J
    <3> QED
      BY <2>7, <3>3
  <2> QED
    BY <2>1, <2>7, <2>8
<1> HIDE DEF J
<1>13. Bad = {}
  <2> SUFFICES ASSUME Bad # {} PROVE FALSE
    OBVIOUS
  <2>1. Bad \in SUBSET Nat
    BY <1>3
  <2>2. PICK m \in Bad : \A k \in Bad : m <= k
    BY <2>1, LeastNatural
  <2>3. m \in 0..n /\ ~ Good(m)
    BY <2>2
  <2>4. m # 0
    <3>1. HasTunnels(base) /\ base.tunnels = <<>> /\ base.used = used
      BY <1>1 DEF HasTunnels
    <3>2. <<>> \in Seq(Plan!Tunnels) /\ Len(<<>>) = 0
      BY EmptySeq
    <3>3. 1..0 = {}
      OBVIOUS
    <3>4. Given(c, u, order, used, 0, base)
      BY <3>1, <3>2, <3>3 DEF Given
    <3>5. OnlyFresh(c, u, order, used, 0, base)
      BY <3>1 DEF OnlyFresh
    <3>6. Failed \notin Seq(Plan!Tunnels)
      BY PlanConstants
    <3>7. Good(0)
      BY <1>7, <3>1, <3>2, <3>4, <3>5, <3>6
    <3> QED
      BY <2>3, <3>7
  <2>5. m \in 1..n /\ m - 1 \in 0..n /\ ~ (m <= m - 1) /\ m \in Nat
    BY <1>3, <2>3, <2>4
  <2>6. Good(m - 1)
    BY <2>2, <2>5
  <2>7. PICK d : d = G(m - 1)
    OBVIOUS
  <2>8. G(m) = Plan!Give(c, u, d, order[m]) /\ order[m] \in Plan!Requests
    BY <1>3, <1>7, <2>5, <2>7
  <2>9. /\ HasTunnels(d) /\ Given(c, u, order, used, m - 1, d)
        /\ OnlyFresh(c, u, order, used, m - 1, d)
    BY <2>6, <2>7
  <2>10. d.tunnels \in Seq(Plan!Tunnels) /\ Len(d.tunnels) = m - 1
    BY <2>9 DEF Given
  <2>11. Fresh(c, u, order[m]) => Pool \ d.used # {}
    BY <1>12, <2>5, <2>6, <2>7
  <2>12. Plan!Give(c, u, d, order[m]).tunnels # Failed
    BY <2>8, <2>10, <2>11, GiveWorks
  <2>13. Given(c, u, order, used, m, Plan!Give(c, u, d, order[m]))
    BY <2>4, <2>5, <2>8, <2>9, <2>12, GivenStep
  <2>14. OnlyFresh(c, u, order, used, m, Plan!Give(c, u, d, order[m]))
    BY <1>6, <2>4, <2>5, <2>8, <2>9, <2>10, <2>12, OnlyFreshStep
  <2>15. HasTunnels(G(m))
    <3>1. Gave(c, u, d, order[m], G(m))
      BY <2>8, <2>9, GiveIs
    <3> QED
      BY <3>1 DEF Gave
  <2> QED
    BY <2>3, <2>8, <2>12, <2>13, <2>14, <2>15
<1>14. Good(n)
  BY <1>3, <1>13
<1> QED
  BY <1>8, <1>14

-----------------------------------------------------------------------------
(* TunnelPlan: a plan has a good order unless it goes around in a circle.  *)

\* t is to have what the tunnel with the same id as n has.
From(c, u, t, n) ==
    \E i \in Has(c, u) : Plan!Takes(t, Tunnel(c, u, i)) /\ n.id = Tunnel(c, u, i).id

\* What CircleFree says, of the plan instead of its tunnels.
NothingGone(c, u, S) ==
    \A t \in S : \A i \in Has(c, u) :
       Plan!Takes(t, Tunnel(c, u, i)) => \E n \in S : n.id = Tunnel(c, u, i).id
NoCircle(c, u, S) ==
    \A circle \in SUBSET S :
       circle # {} => \E t \in circle : \A n \in circle : ~ From(c, u, t, n)

LEMMA CircleFreeIs ==
  ASSUME NEW c, NEW u, NEW plan \in Seq(Plan!Requests), NEW new \in Seq(Plan!Tunnels),
         Len(new) = Len(plan),
         \A k \in 1..Len(plan) : /\ new[k].id = plan[k].id /\ new[k].protocol = plan[k].protocol
                                 /\ new[k].port = plan[k].port
  PROVE  Plan!CircleFree(Plan!ToSet(c[u].tunnels), Plan!ToSet(new))
         <=> NothingGone(c, u, Plan!ToSet(plan)) /\ NoCircle(c, u, Plan!ToSet(plan))
<1>1. PICK n, S, N, old : /\ n = Len(plan) /\ S = Plan!ToSet(plan) /\ N = Plan!ToSet(new)
                          /\ old = Plan!ToSet(c[u].tunnels)
  OBVIOUS
<1>2. /\ S = {plan[k] : k \in 1..n} /\ N = {new[k] : k \in 1..n}
      /\ old = {Tunnel(c, u, i) : i \in Has(c, u)}
  BY <1>1 DEF Plan!ToSet, Tunnel, Has
<1>3. ASSUME NEW k \in 1..n, NEW o PROVE Plan!Takes(new[k], o) <=> Plan!Takes(plan[k], o)
  <2>1. new[k].id = plan[k].id /\ new[k].protocol = plan[k].protocol /\ new[k].port = plan[k].port
    BY <1>1
  <2> QED
    BY <2>1 DEF Plan!Takes, Plan!Endpoint, Plan!Proxy
<1>4. \A k \in 1..n : new[k].id = plan[k].id
  BY <1>1
<1>5. (\A t \in N, o \in old : Plan!Takes(t, o) => \E m \in N : m.id = o.id)
      <=> NothingGone(c, u, S)
  <2>1. (\A t \in N, o \in old : Plan!Takes(t, o) => \E m \in N : m.id = o.id)
        <=> \A k \in 1..n : \A i \in Has(c, u) :
              Plan!Takes(new[k], Tunnel(c, u, i))
                => \E l \in 1..n : new[l].id = Tunnel(c, u, i).id
    BY <1>2
  <2>2. NothingGone(c, u, S)
        <=> \A k \in 1..n : \A i \in Has(c, u) :
              Plan!Takes(plan[k], Tunnel(c, u, i))
                => \E l \in 1..n : plan[l].id = Tunnel(c, u, i).id
    BY <1>2 DEF NothingGone
  <2>3. ASSUME NEW k \in 1..n, NEW i \in Has(c, u)
        PROVE  (Plan!Takes(new[k], Tunnel(c, u, i))
                  => \E l \in 1..n : new[l].id = Tunnel(c, u, i).id)
               <=> (Plan!Takes(plan[k], Tunnel(c, u, i))
                      => \E l \in 1..n : plan[l].id = Tunnel(c, u, i).id)
    <3>1. Plan!Takes(new[k], Tunnel(c, u, i)) <=> Plan!Takes(plan[k], Tunnel(c, u, i))
      BY <1>3
    <3>2. (\E l \in 1..n : new[l].id = Tunnel(c, u, i).id)
          <=> \E l \in 1..n : plan[l].id = Tunnel(c, u, i).id
      BY <1>4
    <3> QED
      BY <3>1, <3>2
  <2> QED
    BY <2>1, <2>2, <2>3
<1> DEFINE Circle(ring) ==
             /\ ring # {}
             /\ \A t \in ring : \E o \in old : Plan!Takes(t, o) /\ \E m \in ring : m.id = o.id
<1>6. ASSUME NEW ring \in SUBSET N, Circle(ring) PROVE ~ NoCircle(c, u, S)
  <2>1. PICK places : places = {k \in 1..n : new[k] \in ring}
    OBVIOUS
  <2>2. PICK circle : circle = {plan[k] : k \in places}
    OBVIOUS
  <2>3. circle \in SUBSET S /\ circle # {}
    BY <1>2, <1>6, <2>1, <2>2
  <2>4. ASSUME NEW t \in circle PROVE \E m \in circle : From(c, u, t, m)
    <3>1. PICK k \in places : t = plan[k]
      BY <2>2
    <3>2. k \in 1..n /\ new[k] \in ring
      BY <2>1
    <3>3. PICK o \in old : Plan!Takes(new[k], o) /\ \E m \in ring : m.id = o.id
      BY <1>6, <3>2
    <3>4. PICK l \in 1..n : new[l] \in ring /\ new[l].id = o.id
      <4>1. PICK m \in ring : m.id = o.id
        BY <3>3
      <4>2. PICK l \in 1..n : m = new[l]
        BY <1>2, <1>6
      <4> QED
        BY <4>1, <4>2
    <3>5. PICK i \in Has(c, u) : o = Tunnel(c, u, i)
      BY <1>2
    <3>6. Plan!Takes(t, Tunnel(c, u, i)) /\ plan[l].id = Tunnel(c, u, i).id
      BY <1>3, <1>4, <3>1, <3>2, <3>3, <3>4, <3>5
    <3>7. plan[l] \in circle
      BY <2>1, <2>2, <3>4
    <3> QED
      BY <3>6, <3>7 DEF From
  <2> QED
    BY <2>3, <2>4 DEF NoCircle
<1>7. ASSUME ~ NoCircle(c, u, S) PROVE \E ring \in SUBSET N : Circle(ring)
  <2>1. PICK circle \in SUBSET S :
             circle # {} /\ \A t \in circle : \E m \in circle : From(c, u, t, m)
    BY <1>7 DEF NoCircle
  <2>2. PICK places : places = {k \in 1..n : plan[k] \in circle}
    OBVIOUS
  <2>3. PICK ring : ring = {new[k] : k \in places}
    OBVIOUS
  <2>4. ring \in SUBSET N /\ ring # {}
    BY <1>2, <2>1, <2>2, <2>3
  <2>5. ASSUME NEW t \in ring
        PROVE  \E o \in old : Plan!Takes(t, o) /\ \E m \in ring : m.id = o.id
    <3>1. PICK k \in places : t = new[k]
      BY <2>3
    <3>2. k \in 1..n /\ plan[k] \in circle
      BY <2>2
    <3>3. PICK m \in circle : From(c, u, plan[k], m)
      BY <2>1, <3>2
    <3>4. PICK i \in Has(c, u) : /\ Plan!Takes(plan[k], Tunnel(c, u, i))
                                 /\ m.id = Tunnel(c, u, i).id
      BY <3>3 DEF From
    <3>5. PICK l \in 1..n : m = plan[l]
      BY <1>2, <2>1
    <3>6. new[l] \in ring /\ new[l].id = Tunnel(c, u, i).id
      BY <1>4, <2>2, <2>3, <3>3, <3>4, <3>5
    <3>7. Plan!Takes(t, Tunnel(c, u, i)) /\ Tunnel(c, u, i) \in old
      BY <1>2, <1>3, <3>1, <3>2, <3>4
    <3> QED
      BY <3>6, <3>7
  <2> QED
    BY <2>4, <2>5
<1>8. Plan!CircleFree(old, N) <=>
        /\ \A t \in N, o \in old : Plan!Takes(t, o) => \E m \in N : m.id = o.id
        /\ ~ \E ring \in SUBSET N : Circle(ring)
  BY DEF Plan!CircleFree
<1> HIDE DEF Circle
<1> QED
  BY <1>1, <1>5, <1>6, <1>7, <1>8

\* Who is stored in a good order goes around in no circle: the first of a circle
\* would take over from one that comes later.
LEMMA GoodHasNoCircle ==
  ASSUME NEW c, NEW u, NEW order \in Seq(Plan!Requests),
         \A i, j \in DOMAIN order : order[i].id = order[j].id => i = j,
         GoodOrder(c, u, order), NEW S, S = Plan!ToSet(order)
  PROVE  NothingGone(c, u, S) /\ NoCircle(c, u, S)
<1>1. PICK n : n = Len(order)
  OBVIOUS
<1>2. n \in Nat /\ DOMAIN order = 1..n /\ S = {order[k] : k \in 1..n}
  BY <1>1 DEF Plan!ToSet
<1>3. \A k \in 1..n : \A i \in Has(c, u) :
         Plan!Takes(order[k], Tunnel(c, u, i))
           => \E l \in 1..(k - 1) : order[l].id = Tunnel(c, u, i).id
  BY <1>2 DEF GoodOrder
<1>4. \A k \in 1..n : \A l \in 1..(k - 1) : l \in 1..n /\ ~ (k <= l)
  BY <1>2
<1>5. NothingGone(c, u, S)
  BY <1>2, <1>3, <1>4 DEF NothingGone
<1>6. ASSUME NEW circle \in SUBSET S, circle # {},
             \A t \in circle : \E m \in circle : From(c, u, t, m)
      PROVE  FALSE
  <2>1. PICK places : places = {k \in 1..n : order[k] \in circle}
    OBVIOUS
  <2>2. places \in SUBSET Nat /\ places # {}
    BY <1>2, <1>6, <2>1
  <2>3. PICK k \in places : \A l \in places : k <= l
    BY <2>2, LeastNatural
  <2>4. k \in 1..n /\ order[k] \in circle
    BY <2>1
  <2>5. PICK m \in circle : From(c, u, order[k], m)
    BY <1>6, <2>4
  <2>6. PICK i \in Has(c, u) : /\ Plan!Takes(order[k], Tunnel(c, u, i))
                               /\ m.id = Tunnel(c, u, i).id
    BY <2>5 DEF From
  <2>7. PICK l \in 1..(k - 1) : order[l].id = Tunnel(c, u, i).id
    BY <1>3, <2>4, <2>6
  <2>8. PICK j \in 1..n : m = order[j]
    BY <1>2, <1>6
  <2>9. l \in 1..n /\ ~ (k <= l)
    BY <1>4, <2>4
  <2>10. l = j
    BY <1>2, <2>6, <2>7, <2>8, <2>9
  <2>11. l \in places
    BY <2>1, <2>5, <2>8, <2>9, <2>10
  <2> QED
    BY <2>3, <2>9, <2>11
<1>7. NoCircle(c, u, S)
  BY <1>6 DEF NoCircle
<1> QED
  BY <1>5, <1>7

\* The longest start of a good order is a whole one: else the rest of the plan
\* would be a circle.
LEMMA GoodOrderExists ==
  ASSUME NEW c, NEW u, NEW plan \in Seq(Plan!Requests), OneToOne(plan),
         NothingGone(c, u, Plan!ToSet(plan)), NoCircle(c, u, Plan!ToSet(plan))
  PROVE  \E order : Reorders(order, plan) /\ GoodOrder(c, u, order)
<1>1. PICK n, S : n = Len(plan) /\ S = Plan!ToSet(plan)
  OBVIOUS
<1>2. n \in Nat /\ S \in SUBSET Plan!Requests
  BY <1>1 DEF Plan!ToSet
<1> DEFINE Start(s) == /\ s \in Seq(Plan!Requests) /\ OneToOne(s)
                       /\ Plan!ToSet(s) \subseteq S /\ GoodOrder(c, u, s)
           Lengths == {k \in 0..n : \E s : Start(s) /\ Len(s) = k}
<1>3. ASSUME NEW s, Start(s) PROVE Len(s) \in 0..n /\ (Plan!ToSet(s) = S => Len(s) = n)
  <2>1. Len(s) <= Len(plan) /\ (Len(s) = Len(plan) <=> Plan!ToSet(s) = Plan!ToSet(plan))
    BY <1>1, <1>3, AmongMembers
  <2>2. Len(s) \in Nat
    BY <1>3
  <2> QED
    BY <1>1, <1>2, <2>1, <2>2
<1>4. Start(<<>>) /\ Len(<<>>) = 0
  BY DEF OneToOne, Plan!ToSet, GoodOrder
<1>5. Lengths \in SUBSET Nat /\ IsFiniteSet(Lengths) /\ Lengths # {}
  <2>1. 0 \in Lengths
    <3>1. PICK s : s = <<>>
      OBVIOUS
    <3>2. Start(s) /\ Len(s) = 0
      BY <1>4, <3>1
    <3>3. 0 \in 0..n
      BY <1>2
    <3> QED
      BY <3>2, <3>3
  <2>2. \A k \in Lengths : k <= n
    BY <1>2
  <2>3. Lengths \in SUBSET Nat
    OBVIOUS
  <2>4. IsFiniteSet(Lengths)
    BY <1>2, <2>2, <2>3, FS_BoundedSetOfNaturals
  <2> QED
    BY <2>1, <2>3, <2>4
<1>6. PICK m \in Lengths : \A k \in Lengths : m >= k
  BY <1>5, GreatestNatural
<1>7. PICK s : Start(s) /\ Len(s) = m
  BY <1>6
<1>8. Plan!ToSet(s) = S
  <2> SUFFICES ASSUME Plan!ToSet(s) # S PROVE FALSE
    OBVIOUS
  <2>1. PICK rest : rest = S \ Plan!ToSet(s)
    OBVIOUS
  <2>2. rest \in SUBSET S /\ rest # {}
    BY <1>7, <2>1
  <2>3. PICK t \in rest : \A x \in rest : ~ From(c, u, t, x)
    BY <1>1, <2>2 DEF NoCircle
  <2>4. PICK e : e = Append(s, t)
    OBVIOUS
  <2>5. t \in Plan!Requests /\ t \in S /\ t \notin Plan!ToSet(s)
    BY <1>2, <2>1, <2>3
  <2>6. /\ s \in Seq(Plan!Requests) /\ m \in Nat /\ DOMAIN s = 1..m
        /\ e \in Seq(Plan!Requests) /\ Len(e) = m + 1 /\ DOMAIN e = 1..(m + 1)
        /\ e[m + 1] = t /\ \A k \in 1..m : e[k] = s[k]
    BY <1>7, <2>4, <2>5
  <2>7. 1..(m + 1) = (1..m) \cup {m + 1}
    BY <2>6
  <2>8. Plan!ToSet(s) = {s[k] : k \in 1..m}
    BY <2>6 DEF Plan!ToSet
  <2>9. OneToOne(e)
    <3>1. \A k \in 1..m : e[k] # t
      BY <2>5, <2>6, <2>8
    <3>2. \A i, j \in 1..m : e[i] = e[j] => i = j
      <4>1. \A i, j \in 1..m : s[i] = s[j] => i = j
        BY <1>7, <2>6 DEF OneToOne
      <4> QED
        BY <2>6, <4>1
    <3> QED
      BY <2>6, <2>7, <3>1, <3>2 DEF OneToOne
  <2>10. Plan!ToSet(e) \subseteq S
    <3>1. Plan!ToSet(e) = {e[k] : k \in 1..(m + 1)}
      BY <2>6 DEF Plan!ToSet
    <3>2. \A k \in 1..m : e[k] \in S
      BY <1>7, <2>6, <2>8
    <3> QED
      BY <2>5, <2>6, <2>7, <3>1, <3>2
  <2>11. GoodOrder(c, u, e)
    <3> SUFFICES ASSUME NEW k \in 1..(m + 1), NEW i \in Has(c, u),
                        Plan!Takes(e[k], Tunnel(c, u, i))
                 PROVE  \E l \in 1..(k - 1) : e[l].id = Tunnel(c, u, i).id
      BY <2>6 DEF GoodOrder
    <3>1. CASE k \in 1..m
      <4>1. Plan!Takes(s[k], Tunnel(c, u, i))
        BY <2>6, <3>1
      <4>2. PICK l \in 1..(k - 1) : s[l].id = Tunnel(c, u, i).id
        BY <1>7, <2>6, <3>1, <4>1 DEF GoodOrder
      <4>3. l \in 1..m
        BY <2>6, <3>1
      <4> QED
        BY <2>6, <4>2, <4>3
    <3>2. CASE k = m + 1
      <4>1. Plan!Takes(t, Tunnel(c, u, i))
        BY <2>6, <3>2
      <4>2. PICK x \in S : x.id = Tunnel(c, u, i).id
        BY <1>1, <2>5, <4>1 DEF NothingGone
      <4>3. x \notin rest
        BY <2>3, <4>1, <4>2 DEF From
      <4>4. PICK l \in 1..m : x = s[l]
        BY <2>1, <2>8, <4>3
      <4>5. k - 1 = m
        BY <2>6, <3>2
      <4>6. e[l].id = Tunnel(c, u, i).id
        BY <2>6, <4>2, <4>4
      <4> QED
        BY <4>4, <4>5, <4>6
    <3> QED
      BY <2>7, <3>1, <3>2
  <2>12. Start(e)
    BY <2>6, <2>9, <2>10, <2>11
  <2>13. m + 1 \in Lengths
    BY <1>3, <2>6, <2>12
  <2>14. m >= m + 1
    BY <1>6, <2>13
  <2> QED
    BY <2>6, <2>14
<1>9. Reorders(s, plan)
  BY <1>1, <1>3, <1>7, <1>8 DEF Reorders
<1> QED
  BY <1>7, <1>9

-----------------------------------------------------------------------------
(* TunnelPlan: the theorems.                                               *)

PlanInv ==
    /\ config \in Configs /\ PlanSound(config)
    /\ rows = Plan!ToSet(Plan!InOrder(config))

LEMMA ShortSequences ==
  ASSUME NEW S
  PROVE  /\ \A s \in Plan!BoundedSeq(S, MaxPlan) : s \in Seq(S) /\ Len(s) <= MaxPlan
         /\ \A s \in Seq(S) : Len(s) <= MaxPlan => s \in Plan!BoundedSeq(S, MaxPlan)
<1>1. MaxPlan \in Nat
  BY PlanConstants
<1>2. Plan!BoundedSeq(S, MaxPlan) = UNION {[1..m -> S] : m \in 0..MaxPlan}
  BY DEF Plan!BoundedSeq, Plan!SeqOf
<1>3. ASSUME NEW s \in Plan!BoundedSeq(S, MaxPlan) PROVE s \in Seq(S) /\ Len(s) <= MaxPlan
  <2>1. PICK m \in 0..MaxPlan : s \in [1..m -> S]
    BY <1>2
  <2> QED
    BY <1>1, <2>1
<1>4. ASSUME NEW s \in Seq(S), Len(s) <= MaxPlan PROVE s \in Plan!BoundedSeq(S, MaxPlan)
  <2>1. s \in [1..Len(s) -> S] /\ Len(s) \in 0..MaxPlan
    BY <1>1, <1>4
  <2> QED
    BY <1>2, <2>1
<1> QED
  BY <1>3, <1>4

LEMMA PlanInvGives == PlanInv => Plan!RowsAreConfig /\ Plan!ValidationsAgree
<1> SUFFICES ASSUME PlanInv PROVE Plan!RowsAreConfig /\ Plan!ValidationsAgree
  OBVIOUS
<1>1. config \in Configs /\ PlanSound(config) /\ rows = Plan!ToSet(Plan!InOrder(config))
  BY DEF PlanInv
<1>2. config \in [Plan!Users -> {NoUser} \cup [limit : 0 .. MaxPlan,
                               tunnels : Plan!BoundedSeq(Plan!Tunnels, MaxPlan)]]
  <2>1. ASSUME NEW u \in Plan!Users
        PROVE  config[u] \in {NoUser} \cup [limit : 0 .. MaxPlan,
                               tunnels : Plan!BoundedSeq(Plan!Tunnels, MaxPlan)]
    <3>1. CASE config[u] = NoUser
      BY <3>1
    <3>2. CASE config[u] # NoUser
      <4>1. u \in Plan!Present(config)
        BY <3>2 DEF Plan!Present
      <4>2. config[u] \in Entry /\ Len(config[u].tunnels) <= MaxPlan
        BY <1>1, <4>1, EntryOf DEF PlanSound, InLimits
      <4>3. config[u].tunnels \in Plan!BoundedSeq(Plan!Tunnels, MaxPlan)
        BY <4>2, ShortSequences DEF Entry
      <4> QED
        BY <4>2, <4>3 DEF Entry
    <3> QED
      BY <3>1, <3>2
  <2>2. config = [u \in Plan!Users |-> config[u]]
    BY <1>1 DEF Configs
  <2> QED
    BY <2>1, <2>2
<1>3. rows \subseteq Plan!Rows
  <2>1. Plan!InOrder(config) \in Seq(Plan!Rows)
    BY <1>1, InOrderIs
  <2> QED
    BY <1>1, <2>1 DEF Plan!ToSet
<1>4. Plan!RowsAreConfig
  BY <1>1, <1>2, <1>3 DEF Plan!RowsAreConfig, Plan!TypeOK
<1>5. ASSUME NEW u \in Plan!Present(config), NEW plan \in Plan!Plans,
             Plan!NormalizeUserTunnels(config, u, plan) # Failed
      PROVE  Plan!NormalizeLoadedConfig(Plan!WithPlan(u, plan))
  <2>1. plan \in Seq(Plan!Requests)
    BY ShortSequences DEF Plan!Plans
  <2>2. Plan!WithPlan(u, plan) = Replaced(config, u, Plan!NormalizeUserTunnels(config, u, plan))
    BY DEF Plan!WithPlan, Replaced
  <2> QED
    BY <1>1, <1>5, <2>1, <2>2, PlanLeavesSound, SoundIsAccepted
<1> QED
  BY <1>4, <1>5 DEF Plan!ValidationsAgree

LEMMA PlanInit == Plan!Init => PlanInv
<1> SUFFICES ASSUME Plan!Init PROVE PlanInv
  OBVIOUS
<1>1. config = [u \in Plan!Users |-> [limit |-> FirstLimit, tunnels |-> <<>>]] /\ rows = {}
  BY DEF Plan!Init, Plan!NewUser
<1>2. <<>> \in Seq(Plan!Tunnels) /\ DOMAIN <<>> = {} /\ Len(<<>>) = 0
  BY EmptySeq
<1>3. config \in Configs
  BY <1>1, <1>2, PlanConstants DEF Configs, Entry
<1>4. \A u \in Plan!Present(config) : Has(config, u) = {} /\ config[u].tunnels = <<>>
  BY <1>1, <1>2 DEF Plan!Present, Has
<1>5. PlanSound(config)
  <2>1. OwnProxies(config) /\ OwnEndpoints(config) /\ OwnBackends(config)
    BY <1>4 DEF OwnProxies, OwnEndpoints, OwnBackends
  <2>2. Unreserved(config) /\ PortsApart(config)
    BY <1>4 DEF Unreserved, PortsApart
  <2>3. InLimits(config)
    BY <1>2, <1>4, PlanConstants DEF InLimits
  <2> QED
    BY <2>1, <2>2, <2>3 DEF PlanSound
<1>6. Plan!ToSet(Plan!InOrder(config)) = {}
  <2>1. \A r \in Plan!ToSet(Plan!InOrder(config)) :
           \E u \in Plan!Present(config) : \E i \in Has(config, u) : TRUE
    BY <1>3, RowsInOrder
  <2> QED
    BY <1>4, <2>1
<1> QED
  BY <1>1, <1>3, <1>5, <1>6 DEF PlanInv

\* Whatever is saved is sound and is what the table holds.
LEMMA SaveStep ==
  ASSUME NEW c \in Configs, Plan!Save(c)
  PROVE  PlanInv' /\ config' = c
<1>1. /\ Plan!NormalizeLoadedConfig(c) /\ Plan!WriteSnapshot(rows, c) # Failed
      /\ rows' = Plan!WriteSnapshot(rows, c) /\ config' = c
  BY DEF Plan!Save
<1>2. PlanSound(c)
  BY <1>1, SoundIsAccepted
<1>3. PICK all : all = Plan!InOrder(c)
  OBVIOUS
<1>4. \A i, j \in DOMAIN all : all[i].id = all[j].id => i = j
  <2>1. Plan!DistinctBy(Plan!Proxy, all)
    BY <1>1, <1>3 DEF Plan!NormalizeLoadedConfig
  <2>2. \A i, j \in DOMAIN all : Plan!Proxy(all[i]) = Plan!Proxy(all[j]) => i = j
    BY <2>1 DEF Plan!DistinctBy
  <2>3. \A i, j \in DOMAIN all : all[i].id = all[j].id => Plan!Proxy(all[i]) = Plan!Proxy(all[j])
    BY DEF Plan!Proxy
  <2> QED
    BY <2>2, <2>3
<1>5. Plan!InOrder(c) \in Seq(Plan!Rows)
  BY InOrderIs
<1>6. rows' = Plan!ToSet(Plan!InOrder(c))
  BY <1>1, <1>3, <1>4, <1>5, SnapshotIs
<1> QED
  BY <1>1, <1>2, <1>6 DEF PlanInv

\* What the operations save.
LEMMA SavedStep ==
  ASSUME PlanInv, Plan!Next
  PROVE  PlanInv' /\ \A v \in Plan!Present(config) : config'[v] # NoUser =>
           \A i \in Has(config, v), j \in DOMAIN config'[v].tunnels :
              Tunnel(config, v, i).id = config'[v].tunnels[j].id
                => Tunnel(config, v, i).backend = config'[v].tunnels[j].backend
<1>1. PICK c \in Configs : c = config
  BY DEF PlanInv
<1>2. PlanSound(c)
  BY <1>1 DEF PlanInv
<1> DEFINE Keeps(d) == \A v \in Plan!Present(c) : d[v] # NoUser =>
                         \A i \in Has(c, v), j \in Has(d, v) :
                            Tunnel(c, v, i).id = Tunnel(d, v, j).id
                              => Tunnel(c, v, i).backend = Tunnel(d, v, j).backend
<1>3. \A v \in Plan!Present(c) : \A i, j \in Has(c, v) :
         Tunnel(c, v, i).id = Tunnel(c, v, j).id => i = j
  BY <1>2 DEF PlanSound, OwnProxies, Plan!Proxy
<1>4. SUFFICES \E d \in Configs : Plan!Save(d) /\ Keeps(d)
  <2>1. PICK d \in Configs : Plan!Save(d) /\ Keeps(d)
    BY <1>4
  <2>2. PlanInv' /\ config' = d
    BY <2>1, SaveStep
  <2> QED
    BY <1>1, <2>1, <2>2 DEF Has, Tunnel
<1>5. PICK u \in Plan!Users :
        \/ \E plan \in Plan!Plans : Plan!SavePlan(u, plan)
        \/ \E n \in 0 .. MaxPlan : Plan!SetTunnelLimit(u, n)
        \/ Plan!AddUser(u)
        \/ Plan!DeleteUser(u)
  BY DEF Plan!Next
<1>6. ASSUME NEW plan \in Plan!Plans, Plan!SavePlan(u, plan)
      PROVE  \E d \in Configs : Plan!Save(d) /\ Keeps(d)
  <2>1. /\ c[u] # NoUser /\ Plan!NormalizeUserTunnels(c, u, plan) # Failed
        /\ Plan!Save(Plan!WithPlan(u, plan))
    BY <1>1, <1>6 DEF Plan!SavePlan
  <2>2. u \in Plan!Present(c) /\ plan \in Seq(Plan!Requests)
    BY <2>1, ShortSequences DEF Plan!Present, Plan!Plans
  <2>3. PICK new \in Seq(Plan!Tunnels) :
           /\ new = Plan!NormalizeUserTunnels(c, u, plan) /\ Len(new) = Len(plan)
           /\ \A i \in 1..Len(plan) : Got(c, u, plan, Plan!UsedPorts(c, u, plan), new, i)
    BY <2>1, <2>2, PlanIsGiven
  <2>4. PICK d : d = Replaced(c, u, new)
    OBVIOUS
  <2>5. Plan!WithPlan(u, plan) = d
    BY <1>1, <2>3, <2>4 DEF Plan!WithPlan, Replaced
  <2>6. /\ d \in Configs /\ Has(d, u) = 1..Len(new) /\ \A i : Tunnel(d, u, i) = new[i]
        /\ \A v \in Plan!Present(c) \ {u} :
             Has(d, v) = Has(c, v) /\ (\A i : Tunnel(d, v, i) = Tunnel(c, v, i))
    BY <2>2, <2>4, ReplacedIs
  <2>7. ASSUME NEW i \in Has(c, u), NEW j \in 1..Len(new), Tunnel(c, u, i).id = new[j].id
        PROVE  Tunnel(c, u, i).backend = new[j].backend
    <3>1. Got(c, u, plan, Plan!UsedPorts(c, u, plan), new, j)
      BY <2>3
    <3>2. new[j].id = plan[j].id
      BY <3>1 DEF Got
    <3>3. ~ Fresh(c, u, plan[j])
      BY <2>7, <3>2 DEF Fresh
    <3>4. PICK o \in Has(c, u) : Tunnel(c, u, o).id = plan[j].id
                                 /\ new[j].backend = Tunnel(c, u, o).backend
      BY <3>1, <3>3 DEF Got
    <3>5. o = i
      BY <1>3, <2>2, <2>7, <3>2, <3>4
    <3> QED
      BY <3>4, <3>5
  <2>8. ASSUME NEW v \in Plan!Present(c), NEW i \in Has(c, v), NEW j \in Has(d, v),
               Tunnel(c, v, i).id = Tunnel(d, v, j).id
        PROVE  Tunnel(c, v, i).backend = Tunnel(d, v, j).backend
    <3>1. CASE v = u
      BY <2>6, <2>7, <2>8, <3>1
    <3>2. CASE v # u
      <4>1. j \in Has(c, v) /\ Tunnel(d, v, j) = Tunnel(c, v, j)
        BY <2>6, <3>2
      <4>2. i = j
        BY <1>3, <2>8, <4>1
      <4> QED
        BY <4>1, <4>2
    <3> QED
      BY <3>1, <3>2
  <2> QED
    BY <2>1, <2>5, <2>6, <2>8
<1>7. ASSUME NEW d \in Configs,
             \A v \in Plan!Present(c) : d[v] # NoUser => d[v].tunnels = c[v].tunnels
      PROVE  Keeps(d)
  <2>1. ASSUME NEW v \in Plan!Present(c), d[v] # NoUser, NEW i \in Has(c, v),
               NEW j \in Has(d, v), Tunnel(c, v, i).id = Tunnel(d, v, j).id
        PROVE  Tunnel(c, v, i).backend = Tunnel(d, v, j).backend
    <3>1. j \in Has(c, v) /\ Tunnel(d, v, j) = Tunnel(c, v, j)
      BY <1>7, <2>1 DEF Has, Tunnel
    <3>2. i = j
      BY <1>3, <2>1, <3>1
    <3> QED
      BY <3>1, <3>2
  <2> QED
    BY <2>1
<1> HIDE DEF Keeps
<1>8. ASSUME NEW n \in 0 .. MaxPlan, Plan!SetTunnelLimit(u, n)
      PROVE  \E d \in Configs : Plan!Save(d) /\ Keeps(d)
  <2>1. PICK d : d = [c EXCEPT ![u].limit = n]
    OBVIOUS
  <2>2. c[u] # NoUser /\ Plan!Save(d)
    BY <1>1, <1>8, <2>1 DEF Plan!SetTunnelLimit
  <2>3. u \in Plan!Present(c)
    BY <2>2 DEF Plan!Present
  <2>4. PICK e : e = [c[u] EXCEPT !.limit = n]
    OBVIOUS
  <2>5. c[u] \in Entry
    BY <2>3, EntryOf
  <2>6. e \in Entry /\ e.tunnels = c[u].tunnels
    BY <2>4, <2>5 DEF Entry
  <2>7. d = [c EXCEPT ![u] = e]
    BY <2>1, <2>4
  <2>8. d \in Configs /\ d[u] = e /\ \A v \in Plan!Users \ {u} : d[v] = c[v]
    BY <2>6, <2>7 DEF Configs
  <2>9. \A v \in Plan!Present(c) : d[v].tunnels = c[v].tunnels
    BY <2>6, <2>8, EntryOf
  <2> QED
    BY <1>7, <2>2, <2>8, <2>9
<1>9. ASSUME Plan!AddUser(u)
      PROVE  \E d \in Configs : Plan!Save(d) /\ Keeps(d)
  <2>1. PICK e, d : e = [limit |-> FirstLimit, tunnels |-> <<>>] /\ d = [c EXCEPT ![u] = e]
    OBVIOUS
  <2>2. c[u] = NoUser /\ Plan!Save(d)
    BY <1>1, <1>9, <2>1 DEF Plan!AddUser, Plan!NewUser
  <2>3. <<>> \in Seq(Plan!Tunnels)
    BY EmptySeq
  <2>4. e \in Entry
    BY <2>1, <2>3, PlanConstants DEF Entry
  <2>5. d \in Configs /\ \A v \in Plan!Users \ {u} : d[v] = c[v]
    BY <2>1, <2>4 DEF Configs
  <2>6. \A v \in Plan!Present(c) : d[v].tunnels = c[v].tunnels
    BY <2>2, <2>5, EntryOf
  <2> QED
    BY <1>7, <2>2, <2>5, <2>6
<1>10. ASSUME Plan!DeleteUser(u)
       PROVE  \E d \in Configs : Plan!Save(d) /\ Keeps(d)
  <2>1. PICK d : d = [c EXCEPT ![u] = NoUser]
    OBVIOUS
  <2>2. Plan!Save(d)
    BY <1>1, <1>10, <2>1 DEF Plan!DeleteUser
  <2>3. d \in Configs /\ d[u] = NoUser /\ \A v \in Plan!Users \ {u} : d[v] = c[v]
    BY <2>1 DEF Configs
  <2>4. \A v \in Plan!Present(c) : d[v] # NoUser => d[v].tunnels = c[v].tunnels
    BY <2>3, EntryOf
  <2> QED
    BY <1>7, <2>2, <2>3, <2>4
<1> QED
  BY <1>5, <1>6, <1>8, <1>9, <1>10

\* The table of tunnels holds just the tunnels of the configuration, which is
\* sound (storage.rs save, write_snapshot, normalize_loaded_config).
THEOREM PlanInvariant == PlanSpec => []PlanInv
<1>1. Plan!Init => PlanInv
  BY PlanInit
<1>2. PlanInv /\ [Plan!Next]_planVars => PlanInv'
  <2>1. ASSUME PlanInv, Plan!Next PROVE PlanInv'
    BY <2>1, SavedStep
  <2>2. ASSUME PlanInv, UNCHANGED planVars PROVE PlanInv'
    BY <2>2 DEF PlanInv, planVars
  <2> QED
    BY <2>1, <2>2
<1> QED
  BY <1>1, <1>2, PTL DEF PlanSpec

\* What a restart reads is what the server had in memory (storage.rs
\* write_snapshot, read).
THEOREM RowsAreConfigTheorem == PlanSpec => []RowsAreConfig
<1>1. PlanInv => RowsAreConfig
  BY PlanInvGives DEF RowsAreConfig
<1> QED
  BY <1>1, PlanInvariant, PTL

\* No plan that the handler accepts is refused by save's own validation
\* (app.rs normalize_user_tunnels, storage.rs normalize_loaded_config).
THEOREM ValidationsAgreeTheorem == PlanSpec => []ValidationsAgree
<1>1. PlanInv => ValidationsAgree
  BY PlanInvGives DEF ValidationsAgree
<1> QED
  BY <1>1, PlanInvariant, PTL

\* A tunnel that stays keeps its back-end port (app.rs normalize_user_tunnels).
THEOREM BackendKeptTheorem == PlanSpec => BackendKept
<1> DEFINE PortKept == \A u \in Plan!Users :
                     config[u] # NoUser /\ config'[u] # NoUser =>
                       \A t \in Plan!ToSet(config[u].tunnels),
                          n \in Plan!ToSet(config'[u].tunnels) :
                            t.id = n.id => t.backend = n.backend
<1>1. ASSUME PlanInv, Plan!Next PROVE PortKept
  <2>1. \A v \in Plan!Present(config) : config'[v] # NoUser =>
           \A i \in Has(config, v), j \in DOMAIN config'[v].tunnels :
              Tunnel(config, v, i).id = config'[v].tunnels[j].id
                => Tunnel(config, v, i).backend = config'[v].tunnels[j].backend
    BY <1>1, SavedStep
  <2>2. ASSUME NEW u \in Plan!Users, config[u] # NoUser, config'[u] # NoUser,
               NEW t \in Plan!ToSet(config[u].tunnels),
               NEW n \in Plan!ToSet(config'[u].tunnels), t.id = n.id
        PROVE  t.backend = n.backend
    <3>1. u \in Plan!Present(config)
      BY <2>2 DEF Plan!Present
    <3>2. PICK i \in Has(config, u) : t = Tunnel(config, u, i)
      BY DEF Has, Tunnel, Plan!ToSet
    <3>3. PICK j \in DOMAIN config'[u].tunnels : n = config'[u].tunnels[j]
      BY DEF Plan!ToSet
    <3> QED
      BY <2>1, <2>2, <3>1, <3>2, <3>3
  <2> QED
    BY <2>2
<1>2. PlanInv /\ [Plan!Next]_planVars => [PortKept]_planVars
  BY <1>1
<1>3. []PlanInv /\ [][Plan!Next]_planVars => [][PortKept]_planVars
  BY <1>2, PTL
<1>4. BackendKept <=> [][PortKept]_planVars
  BY DEF BackendKept, Plan!BackendKept, Plan!vars, planVars
<1> QED
  BY <1>3, <1>4, PlanInvariant, PTL DEF PlanSpec

-----------------------------------------------------------------------------
(* TunnelPlan: what the table refuses.                                     *)

LEMMA RefusedOnlyForReuseIs ==
  ASSUME Failed \notin SUBSET Plan!Rows, PlanInv
  PROVE  Plan!RefusedOnlyForReuse
<1>1. config \in Configs /\ PlanSound(config) /\ rows = Plan!ToSet(Plan!InOrder(config))
  BY DEF PlanInv
<1> SUFFICES ASSUME NEW u \in Plan!Present(config), NEW plan \in Plan!Plans,
                    NEW planned, planned = Plan!NormalizeUserTunnels(config, u, plan),
                    planned # Failed, NEW old, old = Plan!ToSet(config[u].tunnels)
             PROVE  /\ Plan!CircleFree(old, Plan!ToSet(planned))
                         <=> \E order \in Plan!SetToSeqs(Plan!ToSet(plan)) :
                               Plan!WriteSnapshot(rows, Plan!WithPlan(u, order)) # Failed
                    /\ (\A t \in Plan!ToSet(planned), o \in old : ~ Plan!Takes(t, o))
                         => Plan!WriteSnapshot(rows, Plan!WithPlan(u, plan)) # Failed
  BY DEF Plan!RefusedOnlyForReuse
<1>2. plan \in Seq(Plan!Requests)
  BY ShortSequences DEF Plan!Plans
<1>3. PICK n, S : n = Len(plan) /\ S = Plan!ToSet(plan)
  OBVIOUS
<1>4. /\ Plan!PlanAccepted(config, u, plan)
      /\ planned \in Seq(Plan!Tunnels) /\ Len(planned) = n
      /\ \A k \in 1..n : Got(config, u, plan, Plan!UsedPorts(config, u, plan), planned, k)
  BY <1>1, <1>2, <1>3, PlanIsGiven
<1>5. \A k \in 1..n : /\ planned[k].id = plan[k].id /\ planned[k].protocol = plan[k].protocol
                      /\ planned[k].port = plan[k].port
  BY <1>4 DEF Got
<1>6. \A i, j \in DOMAIN plan : Plan!Proxy(plan[i]) = Plan!Proxy(plan[j]) => i = j
  BY <1>1, <1>2, <1>4, AcceptedIs
<1>7. OneToOne(plan)
  BY <1>6 DEF OneToOne
<1>8. Plan!CircleFree(old, Plan!ToSet(planned))
      <=> NothingGone(config, u, S) /\ NoCircle(config, u, S)
  BY <1>2, <1>3, <1>4, <1>5, CircleFreeIs
<1>9. ASSUME NEW order, Reorders(order, plan)
      PROVE  Plan!WriteSnapshot(rows, Plan!WithPlan(u, order)) # Failed
             <=> GoodOrder(config, u, order)
  <2>1. order \in Seq(Plan!Requests)
    BY <1>9 DEF Reorders
  <2>2. Plan!NormalizeUserTunnels(config, u, order) # Failed
    BY <1>1, <1>2, <1>7, <1>9, EnoughInAnyOrder
  <2>3. Plan!WithPlan(u, order)
        = Replaced(config, u, Plan!NormalizeUserTunnels(config, u, order))
    BY DEF Plan!WithPlan, Replaced
  <2> QED
    BY <1>1, <2>1, <2>2, <2>3, StoredIfGood
<1>10. ASSUME NEW order, Reorders(order, plan), GoodOrder(config, u, order)
       PROVE  NothingGone(config, u, S) /\ NoCircle(config, u, S)
  <2>1. /\ order \in Seq(Plan!Requests) /\ Plan!ToSet(order) = S
        /\ \A i, j \in DOMAIN order : order[i] = order[j] => i = j
    BY <1>3, <1>10 DEF Reorders, OneToOne
  <2>2. \A i \in DOMAIN order : \E k \in DOMAIN plan : order[i] = plan[k]
    BY <1>3, <2>1 DEF Plan!ToSet
  <2>3. ASSUME NEW i \in DOMAIN order, NEW j \in DOMAIN order, order[i].id = order[j].id
        PROVE  i = j
    <3>1. PICK k \in DOMAIN plan, l \in DOMAIN plan : order[i] = plan[k] /\ order[j] = plan[l]
      BY <2>2
    <3>2. Plan!Proxy(plan[k]) = Plan!Proxy(plan[l])
      BY <2>3, <3>1 DEF Plan!Proxy
    <3>3. order[i] = order[j]
      BY <1>6, <3>1, <3>2
    <3> QED
      BY <2>1, <3>3
  <2> QED
    BY <1>10, <2>1, <2>3, GoodHasNoCircle
<1>11. Plan!CircleFree(old, Plan!ToSet(planned))
       <=> \E order : Reorders(order, plan) /\ GoodOrder(config, u, order)
  BY <1>2, <1>3, <1>7, <1>8, <1>10, GoodOrderExists
<1>12. (\E order \in Plan!SetToSeqs(Plan!ToSet(plan)) :
           Plan!WriteSnapshot(rows, Plan!WithPlan(u, order)) # Failed)
       <=> \E order : Reorders(order, plan) /\ GoodOrder(config, u, order)
  BY <1>2, <1>7, <1>9, OrdersAre
<1>13. ASSUME \A t \in Plan!ToSet(planned), o \in old : ~ Plan!Takes(t, o)
       PROVE  Plan!WriteSnapshot(rows, Plan!WithPlan(u, plan)) # Failed
  <2>1. Reorders(plan, plan)
    BY <1>2, <1>7 DEF Reorders
  <2>2. ASSUME NEW k \in DOMAIN plan, NEW i \in Has(config, u)
        PROVE  ~ Plan!Takes(plan[k], Tunnel(config, u, i))
    <3>1. k \in 1..n /\ planned[k] \in Plan!ToSet(planned) /\ Tunnel(config, u, i) \in old
      <4>1. k \in 1..n /\ DOMAIN planned = 1..n
        BY <1>2, <1>3, <1>4
      <4> QED
        BY <4>1 DEF Plan!ToSet, Tunnel, Has
    <3>2. ~ Plan!Takes(planned[k], Tunnel(config, u, i))
      BY <1>13, <3>1
    <3> QED
      BY <1>5, <3>1, <3>2 DEF Plan!Takes, Plan!Endpoint, Plan!Proxy
  <2>3. GoodOrder(config, u, plan)
    BY <2>2 DEF GoodOrder
  <2> QED
    BY <1>9, <2>1, <2>3
<1> QED
  BY <1>11, <1>12, <1>13

\* The table refuses an accepted plan for one reason only, and the right order
\* avoids what can be avoided (storage.rs write_snapshot, create_schema).  An
\* error is no table: TLC cannot evaluate that of a model value.
THEOREM RefusedOnlyForReuseTheorem ==
  ASSUME Failed \notin SUBSET Plan!Rows
  PROVE  PlanSpec => []RefusedOnlyForReuse
<1>1. PlanInv => RefusedOnlyForReuse
  BY RefusedOnlyForReuseIs DEF RefusedOnlyForReuse
<1> QED
  BY <1>1, PlanInvariant, PTL
=============================================================================
