------------------------ MODULE UsersMigrationProofs ------------------------
(* Proofs about UsersMigration, for any number of processes and of kills. *)
EXTENDS UsersMigration, TLAPS

\* The inductive invariant holds on an empty database.
LEMMA InitInv == Init => IInv
<1>. SUFFICES ASSUME Init PROVE IInv
  OBVIOUS
<1>1. TypeOK
  <2>1. inserted \in [Workers -> Nat]
    BY DEF Init
  <2>2. /\ pc \in [Workers -> {"down", "list", "create", "find", "insert", "listening"}]
        /\ init \in [Workers -> {"off", "create", "index", "over"}]
    BY DEF Init
  <2>3. kills \in 0..MaxKills
    BY MaxKillsAssumption DEF Init
  <2>. QED
    BY <2>1, <2>2, <2>3 DEF Init, TypeOK
<1>2. OneInsertPerWorker
  <2>. SUFFICES ASSUME NEW w \in Workers PROVE inserted[w] <= 1
    BY DEF OneInsertPerWorker
  <2>. QED
    BY DEF Init
<1>3. \A w \in Workers : pc[w] = "down"
  BY DEF Init
<1>. QED
  BY <1>1, <1>2, <1>3 DEF IInv, ListeningHasUser

\* What the rest of the invariant says stays true as long as no user is
\* inserted.
LEMMA QuietInv ==
  ASSUME IInv, TypeOK', inserted' = inserted,
         \A w \in Workers : /\ pc'[w] = "listening" => pc[w] = "listening" \/ HasUser
                            /\ pc'[w] = "insert" => pc[w] = "insert" \/ ~HasUser
  PROVE  IInv'
<1>1. HasUser' <=> HasUser
  BY DEF HasUser
<1>2. \A w \in Workers : ~HasUser => inserted[w] = 0
  BY DEF IInv, TypeOK, HasUser
<1>. QED
  BY <1>1, <1>2 DEF IInv, OneInsertPerWorker, ListeningHasUser

\* Every step keeps the invariant: only Insert() has to be argued.
LEMMA NextInv == IInv /\ [Next]_vars => IInv'
<1>. SUFFICES ASSUME IInv, [Next]_vars PROVE IInv'
  OBVIOUS
<1>. USE DEF Go, Exit
<1>1. ASSUME NEW w \in Workers, Boot(w) \/ List(w) \/ Create(w) PROVE IInv'
  <2>1. TypeOK'
    BY <1>1 DEF IInv, TypeOK, Boot, List, Create
  <2>. QED
    BY <1>1, <2>1, QuietInv DEF IInv, TypeOK, Boot, List, Create
<1>2. ASSUME NEW w \in Workers, Find(w) PROVE IInv'
  <2>1. TypeOK'
    BY <1>2 DEF IInv, TypeOK, Find
  <2>. QED
    BY <1>2, <2>1, QuietInv DEF IInv, TypeOK, Find
<1>3. ASSUME NEW w \in Workers, Insert(w) PROVE IInv'
  <2>1. TypeOK'
    BY <1>3 DEF IInv, TypeOK, Insert
  <2>2. CASE indexed /\ HasUser
    BY <1>3, <2>1, <2>2, QuietInv DEF IInv, TypeOK, Insert
  <2>3. CASE ~(indexed /\ HasUser)
    <3>1. /\ pc[w] = "insert"
          /\ inserted' = [inserted EXCEPT ![w] = inserted[w] + 1]
          /\ pc' = [pc EXCEPT ![w] = "listening"]
          /\ indexed' = indexed
      BY <1>3, <2>3 DEF Insert
    <3>2. inserted[w] = 0
      BY <3>1 DEF IInv
    <3>3. OneInsertPerWorker'
      BY <3>1, <3>2 DEF IInv, TypeOK, OneInsertPerWorker
    <3>4. HasUser'
      BY <3>1, <3>2 DEF IInv, TypeOK, HasUser
    <3>5. \A v \in Workers : pc'[v] = "insert" => inserted'[v] = 0
      BY <3>1 DEF IInv, TypeOK
    <3>. QED
      BY <2>1, <3>3, <3>4, <3>5 DEF IInv, ListeningHasUser
  <2>. QED
    BY <2>2, <2>3
<1>4. ASSUME NEW w \in Workers, InitCollection(w) \/ InitIndex(w) PROVE IInv'
  <2>1. TypeOK'
    BY <1>4 DEF IInv, TypeOK, InitCollection, InitIndex
  <2>. QED
    BY <1>4, <2>1, QuietInv DEF IInv, TypeOK, InitCollection, InitIndex
<1>5. ASSUME NEW w \in Workers, Kill(w) PROVE IInv'
  <2>1. TypeOK'
    BY <1>5, MaxKillsAssumption DEF IInv, TypeOK, Kill
  <2>. QED
    BY <1>5, <2>1, QuietInv DEF IInv, TypeOK, Kill
<1>6. CASE UNCHANGED vars
  <2>1. TypeOK'
    BY <1>6 DEF IInv, TypeOK, vars
  <2>. QED
    BY <1>6, <2>1, QuietInv DEF vars
<1>. QED
  BY <1>1, <1>2, <1>3, <1>4, <1>5, <1>6 DEF Next, Migrate

\* The invariant of the first start holds for any number of processes.
THEOREM Invariance == Spec => []IInv
  BY InitInv, NextInv, PTL DEF Spec

\* The types hold for any number of processes and kills.
THEOREM TypeCorrect == Spec => []TypeOK
<1>1. IInv => TypeOK
  BY DEF IInv
<1>. QED
  BY <1>1, Invariance, PTL

\* No process inserts the default user twice, whenever up() is killed.
THEOREM MigrationIsSafe == Spec => []OneInsertPerWorker
<1>1. IInv => OneInsertPerWorker
  BY DEF IInv
<1>. QED
  BY <1>1, Invariance, PTL

\* A process that got past its migrations and listens has a user to sign in.
THEOREM ListenersHaveUser == Spec => []ListeningHasUser
<1>1. IInv => ListeningHasUser
  BY DEF IInv
<1>. QED
  BY <1>1, Invariance, PTL

-----------------------------------------------------------------------------
(* What a first start would owe to a lock, and what it owes nothing.         *)

\* One process at a time is between find() and insertOne().
OneInserts == \A v, w \in Workers : pc[v] = "insert" /\ pc[w] = "insert" => v = w

\* Whoever is about to insert is right that there is no user.
FindHolds == (\E w \in Workers : pc[w] = "insert") => ~HasUser

\* The default user is never duplicated if the find() and the insertOne() of
\* UsersMigration.up() are not interleaved with those of another process: the
\* collection and the index may still be created in any order.
THEOREM OneInsertsNoDuplicate == Spec /\ []OneInserts => []~Duplicated
<1>1. Init => FindHolds /\ ~Duplicated
  BY DEF Init, FindHolds, Duplicated
<1>2. ASSUME IInv, OneInserts, FindHolds, ~Duplicated, [Next]_vars
      PROVE  FindHolds' /\ ~Duplicated'
  <2>. USE <1>2 DEF Go, Exit
  <2>1. ASSUME NEW w \in Workers, Insert(w), inserted' # inserted
        PROVE  FindHolds' /\ ~Duplicated'
    <3>1. /\ pc[w] = "insert" /\ pc' = [pc EXCEPT ![w] = "listening"]
          /\ inserted' = [inserted EXCEPT ![w] = inserted[w] + 1]
      BY <2>1 DEF Insert
    <3>2. \A v \in Workers : inserted[v] = 0
      BY <3>1 DEF FindHolds, HasUser, IInv, TypeOK
    <3>3. ~Duplicated'
      BY <3>1, <3>2 DEF Duplicated, IInv, TypeOK
    <3>4. \A v \in Workers : pc'[v] # "insert"
      BY <3>1 DEF OneInserts, IInv, TypeOK
    <3>. QED
      BY <3>3, <3>4 DEF FindHolds
  <2>2. ASSUME inserted' = inserted,
               \A w \in Workers : pc'[w] = "insert" => pc[w] = "insert" \/ ~HasUser
        PROVE  FindHolds' /\ ~Duplicated'
    BY <2>2 DEF FindHolds, Duplicated, HasUser
  <2>3. ASSUME NEW w \in Workers, \/ Boot(w) \/ List(w) \/ Create(w) \/ Find(w)
                                  \/ InitCollection(w) \/ InitIndex(w) \/ Kill(w)
        PROVE  FindHolds' /\ ~Duplicated'
    BY <2>2, <2>3
    DEF Boot, List, Create, Find, InitCollection, InitIndex, Kill, IInv, TypeOK
  <2>4. ASSUME NEW w \in Workers, Insert(w), inserted' = inserted
        PROVE  FindHolds' /\ ~Duplicated'
    BY <2>2, <2>4 DEF Insert, IInv, TypeOK
  <2>5. CASE UNCHANGED vars
    BY <2>2, <2>5 DEF vars
  <2>. QED
    BY <2>1, <2>3, <2>4, <2>5 DEF Next, Migrate
<1>. QED
  BY <1>1, <1>2, Invariance, PTL DEF Spec

\* The first start is over: nobody is about to create what it creates.
Settled == HasUser /\ exists /\ \A w \in Workers : pc[w] \notin {"create", "insert"}

\* Once the first start is over it is over for good: however often processes are
\* killed and forked again, up() changes nothing any more and no process exits
\* because of it.  What EveryWorkerListens adds, that it is over some day and
\* that all processes get to listen, needs fairness and is model-checked.
THEOREM SettledForGood ==
  Spec => [][ Settled => /\ Settled' /\ inserted' = inserted
                         /\ \A w \in Workers : pc[w] # "down" /\ pc'[w] = "down" => kills' = kills + 1
            ]_vars
<1>. DEFINE Stays == Settled => /\ Settled' /\ inserted' = inserted
                                /\ \A w \in Workers :
                                     pc[w] # "down" /\ pc'[w] = "down" => kills' = kills + 1
<1>1. ASSUME IInv, Next, Settled
      PROVE  /\ Settled' /\ inserted' = inserted
             /\ \A w \in Workers : pc[w] # "down" /\ pc'[w] = "down" => kills' = kills + 1
  <2>. USE <1>1 DEF Go, Exit
  <2>1. PICK w \in Workers : \/ Boot(w) \/ List(w) \/ Find(w)
                             \/ InitCollection(w) \/ InitIndex(w) \/ Kill(w)
    BY DEF Next, Migrate, Settled, Create, Insert
  <2>2. inserted' = inserted /\ exists'
    BY <2>1 DEF Settled, Boot, List, Find, InitCollection, InitIndex, Kill
  <2>3. \A v \in Workers : pc'[v] \notin {"create", "insert"}
    BY <2>1 DEF Settled, Boot, List, Find, InitCollection, InitIndex, Kill, IInv, TypeOK
  <2>4. \A v \in Workers : pc[v] # "down" /\ pc'[v] = "down" => kills' = kills + 1
    BY <2>1 DEF Settled, Boot, List, Find, InitCollection, InitIndex, Kill, IInv, TypeOK
  <2>. QED
    BY <2>2, <2>3, <2>4 DEF Settled, HasUser
<1>2. IInv /\ [Next]_vars => [Stays]_vars
  BY <1>1
<1>. HIDE DEF Stays
<1>3. Spec => [][Stays]_vars
  BY <1>2, Invariance, PTL DEF Spec
<1>. QED
  BY <1>3 DEF Stays
=============================================================================
