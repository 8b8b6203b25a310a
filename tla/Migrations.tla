------------------------------ MODULE Migrations ------------------------------
(* ApplyMigrations: every API and worker process brings the schema up to   *)
(* date when it starts, under MySQL's named lock, before it serves. MySQL  *)
(* commits every statement by itself and the ledger row comes last, so a   *)
(* process that dies leaves a version half done and the next one resumes.  *)
(* The lock belongs to the connection that runs the statements.            *)
EXTENDS Integers, Sequences

CONSTANTS
  Processes,
  Program,         \* the steps of all versions, in file order
  Ends,            \* the last step of each version
  At,              \* the schema after each number of steps
  Objects,         \* tables, columns and indexes
  Tables,          \* tables whose rows a data step converts
  Absent, Unknown, \* no such object; a definition no migration knows
  MaxDrift,        \* bound: objects somebody else redefined
  MaxFaults,       \* bound: deaths and failing statements
  None

Versions == 1..Len(Ends)
Final == Len(Program)
EndOf(v) == IF v = 0 THEN 0 ELSE Ends[v]
Start(v) == EndOf(v - 1) + 1
Objs(p) == DOMAIN Program[p].want

ASSUME ProgramAssumption ==
  /\ None \notin Processes /\ Unknown # Absent
  /\ MaxDrift \in Nat /\ MaxFaults \in Nat
  /\ Final \in Nat /\ Len(Ends) \in Nat
  /\ \A v \in Versions : Ends[v] \in Nat /\ Ends[v] >= Start(v) /\ Ends[v] <= Final
  /\ EndOf(Len(Ends)) = Final
  /\ \A p \in 1..Final :
       /\ Objs(p) \subseteq Objects /\ Program[p].rows \subseteq Tables
       /\ Program[p].typed \subseteq Objects
       /\ Objs(p) = {} \/ Program[p].rows = {}
       /\ \A o \in Objs(p) : Unknown \notin Program[p].from[o] /\ Program[p].want[o] # Unknown

(* At is what the steps make of an empty database.                         *)
ASSUME AtAssumption ==
  /\ At[0] = [o \in Objects |-> Absent]
  /\ \A p \in 1..Final :
       At[p] = [o \in Objects |-> IF o \in Objs(p) THEN Program[p].want[o] ELSE At[p - 1][o]]

(* What the files must satisfy to be resumable: a step starts from what    *)
(* the steps before it left, no later step of its version touches what it  *)
(* defined, no table is converted twice, and a column whose type a         *)
(* conversion asks for is there from then on.                              *)
ASSUME ResumableAssumption ==
  /\ \A p \in 1..Final : \A o \in Objs(p) : At[p - 1][o] \in Program[p].from[o]
  /\ \A v \in Versions : \A p, q \in Start(v)..Ends[v] :
       p <= q => \A o \in Objs(p) : At[q][o] = Program[p].want[o]
  /\ \A p, q \in 1..Final : p # q => Program[p].rows \cap Program[q].rows = {}
  /\ \A v \in Versions : \A p \in Start(v)..Ends[v] : \A q \in (p - 1)..Ends[v] :
       \A o \in Program[p].typed : At[q][o] \notin {Absent, Unknown}

VARIABLES
  schema,          \* the definition of each object
  drift,           \* the objects somebody else redefined
  ledger,          \* schema_migrations
  rows,            \* the kinds of rows a table may have: "legacy", "fresh"
  touched,         \* the tables of which a fresh row was converted
  lock, phase, ver, step, faults

procVars == <<lock, phase, ver, step>>
vars == <<schema, drift, ledger, rows, touched, procVars, faults>>

Locked == {"ledger", "inspect", "execute", "record"}
Phases == {"start", "serving", "failed", "conflict"} \cup Locked

(* The tables whose rows steps 1..p convert.                               *)
Converted(p) == {t \in Tables : \E i \in 1..p : t \in Program[i].rows}

(* The database of an earlier release or an empty one. A release writes    *)
(* rows that need the conversions it does not have.                        *)
Init ==
  /\ \E v \in 0..Len(Ends) :
       LET p == EndOf(v) IN
       /\ ledger = 1..v
       /\ \E f \in [1..MaxDrift -> Objects \cup {None}] :
            drift = {f[i] : i \in 1..MaxDrift} \ {None}
       /\ schema = [o \in Objects |-> IF o \in drift THEN Unknown ELSE At[p][o]]
       /\ rows = [t \in Tables |-> IF t \in Converted(p) THEN {"fresh"}
                                   ELSE IF v = 0 THEN {} ELSE {"legacy"}]
  /\ touched = {}
  /\ lock = None
  /\ phase = [m \in Processes |-> "start"]
  /\ ver = [m \in Processes |-> 1]
  /\ step = [m \in Processes |-> 1]
  /\ faults = 0

-----------------------------------------------------------------------------
Goes(m, to) == phase' = [phase EXCEPT ![m] = to] /\ UNCHANGED <<lock, ver, step>>

(* ApplyMigrations returns; the process serves or exits.                   *)
Leaves(m, to) ==
  /\ phase' = [phase EXCEPT ![m] = to]
  /\ lock' = IF lock = m THEN None ELSE lock
  /\ ver' = [ver EXCEPT ![m] = 1]
  /\ step' = [step EXCEPT ![m] = 1]

Acquire(m) ==
  /\ phase[m] = "start"
  /\ lock = None
  /\ lock' = m
  /\ phase' = [phase EXCEPT ![m] = "ledger"]
  /\ ver' = [ver EXCEPT ![m] = 1]
  /\ UNCHANGED <<step, schema, drift, ledger, rows, touched, faults>>

(* Mutant of LockTimeout: a process that gets no lock serves all the same. *)
LockTimeout_Serves(m) ==
  /\ phase[m] = "start"
  /\ lock # None
  /\ Leaves(m, "serving")
  /\ UNCHANGED <<schema, drift, ledger, rows, touched, faults>>

(* GET_LOCK gives up after 30 seconds.                                     *)
LockTimeout(m) ==
  /\ phase[m] = "start"
  /\ lock # None
  /\ Leaves(m, "failed")
  /\ UNCHANGED <<schema, drift, ledger, rows, touched, faults>>

(* Mutant of Recorded: the ledger is not consulted.                        *)
Recorded_Never(v) == FALSE
Recorded(v) == v \in ledger

(* A recorded version is passed over; after the last the process serves.   *)
ReadLedger(m) ==
  /\ phase[m] = "ledger"
  /\ \/ ver[m] > Len(Ends) /\ Leaves(m, "serving")
     \/ /\ ver[m] <= Len(Ends) /\ Recorded(ver[m])
        /\ ver' = [ver EXCEPT ![m] = @ + 1]
        /\ UNCHANGED <<lock, phase, step>>
     \/ /\ ver[m] <= Len(Ends) /\ ~Recorded(ver[m])
        /\ step' = [step EXCEPT ![m] = Start(ver[m])]
        /\ phase' = [phase EXCEPT ![m] = "inspect"]
        /\ UNCHANGED <<lock, ver>>
  /\ UNCHANGED <<schema, drift, ledger, rows, touched, faults>>

(* Mutant of Done: a statement is executed without asking the schema.      *)
Done_Never(p) == FALSE

(* The objects have the wanted definitions already.                        *)
Done(p) == Program[p].rows = {} /\ \A o \in Objs(p) : schema[o] = Program[p].want[o]

Executable(p) ==
  /\ \A o \in Objs(p) : schema[o] \in Program[p].from[o]
  /\ \A o \in Program[p].typed : schema[o] # Absent

NextStep(m) ==
  /\ step' = [step EXCEPT ![m] = @ + 1]
  /\ phase' = [phase EXCEPT ![m] = IF step[m] = Ends[ver[m]] THEN "record" ELSE "inspect"]
  /\ UNCHANGED <<lock, ver>>

(* Mutant of Inspect: a version whose first object exists counts as done.  *)
Inspect_FirstDecides(m) ==
  /\ phase[m] = "inspect"
  /\ IF Done(step[m]) THEN Goes(m, "record") ELSE Goes(m, "execute")
  /\ UNCHANGED <<schema, drift, ledger, rows, touched, faults>>

(* information_schema is asked before each statement; a definition that is *)
(* neither the wanted nor a known older one ends the migration. Where only *)
(* the type is asked for, an unknown definition may pass.                  *)
Inspect(m) ==
  /\ phase[m] = "inspect"
  /\ LET p == step[m] IN
     \/ Done(p) /\ NextStep(m)
     \/ ~Done(p) /\ Executable(p) /\ Goes(m, "execute")
     \/ /\ ~Done(p)
        /\ ~Executable(p) \/ \E o \in Program[p].typed : schema[o] = Unknown
        /\ Leaves(m, "conflict")
  /\ UNCHANGED <<schema, drift, ledger, rows, touched, faults>>

(* The statement, which MySQL commits at once.                             *)
Effect(p) ==
  /\ schema' = [o \in Objects |-> IF o \in Objs(p) THEN Program[p].want[o] ELSE schema[o]]
  /\ rows' = [t \in Tables |-> IF t \in Program[p].rows THEN rows[t] \ {"legacy"} ELSE rows[t]]
  /\ touched' = touched \cup {t \in Program[p].rows : "fresh" \in rows[t]}

(* It fails where what was inspected no longer holds.                      *)
Execute(m) ==
  /\ phase[m] = "execute"
  /\ \/ Executable(step[m]) /\ Effect(step[m]) /\ NextStep(m)
     \/ ~Executable(step[m]) /\ Leaves(m, "failed") /\ UNCHANGED <<schema, rows, touched>>
  /\ UNCHANGED <<drift, ledger, faults>>

Record(m) ==
  /\ phase[m] = "record"
  /\ ledger' = ledger \cup {ver[m]}
  /\ ver' = [ver EXCEPT ![m] = @ + 1]
  /\ phase' = [phase EXCEPT ![m] = "ledger"]
  /\ UNCHANGED <<schema, drift, rows, touched, lock, step, faults>>

(* The process dies, its two minutes are over or a query fails; MySQL may  *)
(* still carry out the statement before it gives the lock back.            *)
Die(m) ==
  /\ phase[m] \in Locked
  /\ faults < MaxFaults
  /\ faults' = faults + 1
  /\ Leaves(m, "failed")
  /\ \/ phase[m] = "execute" /\ Executable(step[m]) /\ Effect(step[m])
     \/ UNCHANGED <<schema, rows, touched>>
  /\ UNCHANGED <<drift, ledger>>

(* Processes are restarted when they exit, or when the operator says so.   *)
Restart(m) ==
  /\ phase[m] \in {"failed", "conflict", "serving"}
  /\ Leaves(m, "start")
  /\ UNCHANGED <<schema, drift, ledger, rows, touched, faults>>

(* A process that serves writes rows of the current release, some of which *)
(* look like those a conversion is after.                                  *)
WriteRow(m) ==
  /\ phase[m] = "serving"
  /\ \E t \in Tables : rows' = [rows EXCEPT ![t] = @ \cup {"fresh"}]
  /\ UNCHANGED <<schema, drift, ledger, touched, procVars, faults>>

Migrate(m) ==
  Acquire(m) \/ ReadLedger(m) \/ Inspect(m) \/ Execute(m) \/ Record(m)

Next == \E m \in Processes : Migrate(m) \/ LockTimeout(m) \/ Die(m) \/ Restart(m) \/ WriteRow(m)

Spec == Init /\ [][Next]_vars

(* MySQL answers whoever holds the lock and gives a free lock to one of    *)
(* those that wait; something that exited is restarted.                    *)
FairSpec ==
  /\ Spec
  /\ WF_vars(\E m \in Processes : Acquire(m))
  /\ WF_vars(\E m \in Processes : ReadLedger(m) \/ Inspect(m) \/ Execute(m) \/ Record(m))
  /\ WF_vars(\E m \in Processes : phase[m] # "serving" /\ Restart(m))

-----------------------------------------------------------------------------
(* A process that serves does so on the final schema, with every row of an *)
(* older release converted, however often a migration was cut short before *)
(* its ledger row.                                                         *)
ServingIsCurrent ==
  (\E m \in Processes : phase[m] = "serving") =>
    /\ \A o \in Objects \ drift : schema[o] = At[Final][o]
    /\ \A t \in Converted(Final) : "legacy" \notin rows[t]

(* Resuming never takes the migrations' own work, complete or half done,   *)
(* for somebody else's: only a redefined object is a schema conflict.      *)
NoSelfConflict == drift = {} => \A m \in Processes : phase[m] # "conflict"

(* A conversion sees no row of the current release: a process whose        *)
(* migrations are recorded may have claimed a job, and a second process    *)
(* that starts now must not mark it.                                       *)
FreshUntouched == touched = {}

(* A database that nobody else changed ends up with every version recorded,*)
(* whichever processes die on the way.                                     *)
SchemaCompleted == drift = {} ~> ledger = Versions

=============================================================================
