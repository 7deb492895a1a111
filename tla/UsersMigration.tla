--------------------------- MODULE UsersMigration ---------------------------
(***************************************************************************)
(* The start of the forked server processes against one database.  Every   *)
(* process runs UsersMigration.up() from onModuleInit() before it listens, *)
(* and beside it mongoose creates the collection of the User model and its *)
(* unique index on `login`.  The transaction of up() holds none of its     *)
(* calls (the session is not passed to them), so each call is a step.      *)
(***************************************************************************)
EXTENDS Naturals

CONSTANTS
  Workers,    \* the processes the master keeps alive
  MaxKills    \* bound: how often a process ends for a reason of its own

ASSUME MaxKillsAssumption == MaxKills \in Nat

VARIABLES
  exists,     \* the database has the collection
  indexed,    \* the collection has the unique index on login
  inserted,   \* how often each worker inserted the default user
  pc,         \* the call of bootstrap() each worker is at
  init,       \* the call of mongoose's model initialisation it is at
  kills       \* processes killed so far

vars == <<exists, indexed, inserted, pc, init, kills>>

\* Every variable keeps its type: a process is down or at a call of bootstrap().
TypeOK ==
  /\ exists \in BOOLEAN
  /\ indexed \in BOOLEAN
  /\ inserted \in [Workers -> Nat]
  /\ pc \in [Workers -> {"down", "list", "create", "find", "insert", "listening"}]
  /\ init \in [Workers -> {"off", "create", "index", "over"}]
  /\ kills \in 0..MaxKills

HasUser    == \E w \in Workers : inserted[w] > 0
Duplicated == \/ \E w \in Workers : inserted[w] > 1
              \/ \E v, w \in Workers : v # w /\ inserted[v] > 0 /\ inserted[w] > 0

Init ==
  /\ exists = FALSE
  /\ indexed = FALSE
  /\ inserted = [w \in Workers |-> 0]
  /\ pc = [w \in Workers |-> "down"]
  /\ init = [w \in Workers |-> "off"]
  /\ kills = 0

-----------------------------------------------------------------------------

Go(w, next) == pc' = [pc EXCEPT ![w] = next]

\* Mutant: the process tries the failed call again and again.
ExitNever(w) ==
  /\ Go(w, "retrying")
  /\ UNCHANGED init

\* An error in bootstrap() is handled by nobody and ends the process.
Exit(w) ==
  /\ Go(w, "down")
  /\ init' = [init EXCEPT ![w] = "off"]

\* fork(): the models are registered, then onModuleInit() runs.
Boot(w) ==
  /\ pc[w] = "down"
  /\ Go(w, "list")
  /\ init' = [init EXCEPT ![w] = "create"]
  /\ UNCHANGED <<exists, indexed, inserted, kills>>

\* Mutant: an existing collection is taken for a migrated one.
ListAndTrust(w) ==
  /\ pc[w] = "list"
  /\ Go(w, IF exists THEN "listening" ELSE "create")
  /\ UNCHANGED <<exists, indexed, inserted, init, kills>>

\* Mutant: the collection is created whether it exists or not.
ListNothing(w) ==
  /\ pc[w] = "list"
  /\ Go(w, "create")
  /\ UNCHANGED <<exists, indexed, inserted, init, kills>>

\* db.listCollections().
List(w) ==
  /\ pc[w] = "list"
  /\ Go(w, IF exists THEN "find" ELSE "create")
  /\ UNCHANGED <<exists, indexed, inserted, init, kills>>

\* db.createCollection() fails if somebody else created it since.
Create(w) ==
  /\ pc[w] = "create"
  /\ IF exists THEN Exit(w) ELSE Go(w, "find") /\ UNCHANGED init
  /\ exists' = TRUE
  /\ UNCHANGED <<indexed, inserted, kills>>

\* Mutant: the default user is inserted without a look at the users.
FindNothing(w) ==
  /\ pc[w] = "find"
  /\ Go(w, "insert")
  /\ UNCHANGED <<exists, indexed, inserted, init, kills>>

\* find(): with any user the migration is over and the process listens.
Find(w) ==
  /\ pc[w] = "find"
  /\ Go(w, IF HasUser THEN "listening" ELSE "insert")
  /\ UNCHANGED <<exists, indexed, inserted, init, kills>>

\* hashPassword() and insertOne(), which the index refuses a second time.
Insert(w) ==
  /\ pc[w] = "insert"
  /\ \/ /\ ~(indexed /\ HasUser)
        /\ inserted' = [inserted EXCEPT ![w] = @ + 1]
        /\ Go(w, "listening")
        /\ UNCHANGED init
     \/ /\ indexed /\ HasUser
        /\ Exit(w)
        /\ UNCHANGED inserted
  /\ UNCHANGED <<exists, indexed, kills>>

\* Model.init(): createCollection(), for which an existing one is no error.
InitCollection(w) ==
  /\ init[w] = "create"
  /\ exists' = TRUE
  /\ init' = [init EXCEPT ![w] = "index"]
  /\ UNCHANGED <<indexed, inserted, pc, kills>>

\* Mutant: the index is not unique.
InitPlainIndex(w) ==
  /\ init[w] = "index"
  /\ indexed' = TRUE
  /\ init' = [init EXCEPT ![w] = "over"]
  /\ UNCHANGED <<exists, inserted, pc, kills>>

\* createIndex({login: 1}, {unique: true}): over duplicates it fails, which is
\* only an 'index' event of the model.
InitIndex(w) ==
  /\ init[w] = "index"
  /\ indexed' = (indexed \/ ~Duplicated)
  /\ init' = [init EXCEPT ![w] = "over"]
  /\ UNCHANGED <<exists, inserted, pc, kills>>

\* The process ends at any other moment, for instance as in PuppeteerService.
Kill(w) ==
  /\ pc[w] # "down"
  /\ kills < MaxKills
  /\ kills' = kills + 1
  /\ Exit(w)
  /\ UNCHANGED <<exists, indexed, inserted>>

Migrate(w) == List(w) \/ Create(w) \/ Find(w) \/ Insert(w)

Next ==
  \E w \in Workers : \/ Boot(w) \/ Migrate(w) \/ InitCollection(w) \/ InitIndex(w)
                     \/ Kill(w)

\* The master forks at once, and the database answers every call.
Fairness ==
  \A w \in Workers : /\ WF_vars(Boot(w)) /\ WF_vars(Migrate(w))
                     /\ WF_vars(InitCollection(w)) /\ WF_vars(InitIndex(w))

Spec == Init /\ [][Next]_vars

FairSpec == Spec /\ Fairness

-----------------------------------------------------------------------------

\* The check before the insert does not keep the processes of a first start
\* from inserting the default user more than once, but no process does it
\* twice, whatever it was killed at and however often it is forked again.
OneInsertPerWorker == \A w \in Workers : inserted[w] <= 1

\* A process only takes requests once there is a user who can sign in.
ListeningHasUser == \A w \in Workers : pc[w] = "listening" => HasUser

\* Processes that lose a race to create the collection or to insert the user
\* exit, and are forked into a migration that finds nothing left to lose:
\* in the end all of them listen.
EveryWorkerListens == <>[](\A w \in Workers : pc[w] = "listening")

\* `@Prop({ unique: true }) login` is asked for beside the migration, and its
\* failure is noticed by nobody: a first start ends with unique logins, or with
\* duplicates over which no process ever gets the index, now or when forked
\* again, although all of them listen.
UniqueOrNeverIndexed ==
  <>[](indexed /\ ~Duplicated) \/ <>[](Duplicated /\ ~indexed)

-----------------------------------------------------------------------------

\* Why no process inserts twice: one about to insert found no user, so it has
\* not inserted any itself.
IInv ==
  /\ TypeOK
  /\ OneInsertPerWorker
  /\ ListeningHasUser
  /\ \A w \in Workers : pc[w] = "insert" => inserted[w] = 0
=============================================================================
