--------------------------- MODULE Migrations_proofs ---------------------------
(* Proofs that migrations resume: for any files that satisfy the           *)
(* assumptions of Migrations, any processes and any number of deaths.      *)
EXTENDS Migrations, TLAPS

MigrationTypeOK ==
  /\ drift \subseteq Objects
  /\ schema = [o \in Objects |-> schema[o]]
  /\ rows \in [Tables -> SUBSET {"legacy", "fresh"}]
  /\ lock \in Processes \cup {None}
  /\ phase \in [Processes -> Phases]
  /\ ver \in [Processes -> 1..(Len(Ends) + 1)]
  /\ step \in [Processes -> Nat]

(* Where process m stands, given that v versions are recorded and p steps  *)
(* have been carried out.                                                  *)
Stands(m, v, p) ==
  /\ phase[m] \in Locked => lock = m
  /\ phase[m] = "ledger" => ver[m] <= v + 1
  /\ phase[m] \in {"inspect", "execute"} =>
       /\ v < Len(Ends) /\ ver[m] = v + 1
       /\ step[m] >= Start(v + 1) /\ step[m] <= Ends[v + 1] /\ step[m] <= p + 1
  /\ phase[m] = "record" => v < Len(Ends) /\ ver[m] = v + 1 /\ p = Ends[v + 1]
  /\ phase[m] = "serving" => v = Len(Ends)

(* The database after v recorded versions and p steps: the steps of one    *)
(* further version at most.                                                *)
Reached(v, p) ==
  /\ v \in Nat /\ v <= Len(Ends) /\ p \in Nat
  /\ p >= EndOf(v) /\ (v = Len(Ends) => p = Final) /\ (v < Len(Ends) => p <= Ends[v + 1])
  /\ ledger = 1..v
  /\ \A o \in Objects : schema[o] = IF o \in drift THEN Unknown ELSE At[p][o]
  /\ \A t \in Tables :
       /\ t \in Converted(p) => "legacy" \notin rows[t]
       /\ "fresh" \in rows[t] => t \in Converted(EndOf(v)) \/ v = Len(Ends)

(* The inductive invariant. What is recorded and what is carried out are   *)
(* not the same, and no variable says how far the latter got.              *)
MigrationInv ==
  /\ MigrationTypeOK
  /\ FreshUntouched
  /\ NoSelfConflict
  /\ \E v, p \in Nat : Reached(v, p) /\ \A m \in Processes : Stands(m, v, p)

(* The number of steps that a prefix of the versions has.                  *)
LEMMA EndsOrdered ==
  ASSUME NEW v \in Nat, v < Len(Ends)
  PROVE  /\ v + 1 \in Versions /\ Ends[v + 1] \in Nat /\ Ends[v + 1] <= Final
         /\ EndOf(v) \in Nat /\ Start(v + 1) = EndOf(v) + 1 /\ EndOf(v + 1) = Ends[v + 1]
         /\ EndOf(v) < Ends[v + 1]
<1>1. v + 1 \in Versions
  BY ProgramAssumption DEF Versions
<1>2. EndOf(v) \in Nat
  BY ProgramAssumption DEF EndOf, Versions
<1> QED
  BY <1>1, <1>2, ProgramAssumption DEF EndOf, Start

(* The types of what a process that leaves assigns.                        *)
LEMMA LeavesTypes ==
  ASSUME MigrationTypeOK, NEW m \in Processes, NEW to \in Phases, Leaves(m, to)
  PROVE  /\ phase' \in [Processes -> Phases] /\ lock' \in Processes \cup {None}
         /\ ver' \in [Processes -> 1..(Len(Ends) + 1)] /\ step' \in [Processes -> Nat]
         /\ \A n \in Processes : phase'[n] = IF n = m THEN to ELSE phase[n]
<1>1. 1 \in 1..(Len(Ends) + 1)
  BY ProgramAssumption
<1>2. /\ phase' \in [Processes -> Phases]
      /\ \A n \in Processes : phase'[n] = IF n = m THEN to ELSE phase[n]
  BY DEF Leaves, MigrationTypeOK
<1>3. lock' \in Processes \cup {None} /\ step' \in [Processes -> Nat]
  BY DEF Leaves, MigrationTypeOK
<1>4. ver' \in [Processes -> 1..(Len(Ends) + 1)]
  BY <1>1 DEF Leaves, MigrationTypeOK
<1> QED
  BY <1>2, <1>3, <1>4

(* A database of an earlier release stands at the end of its versions.     *)
LEMMA InitMigration == Init => MigrationInv
<1> SUFFICES ASSUME Init PROVE MigrationInv
  OBVIOUS
<1> PICK v \in 0..Len(Ends) :
         /\ ledger = 1..v
         /\ drift \subseteq Objects
         /\ schema = [o \in Objects |-> IF o \in drift THEN Unknown ELSE At[EndOf(v)][o]]
         /\ rows = [t \in Tables |-> IF t \in Converted(EndOf(v)) THEN {"fresh"}
                                     ELSE IF v = 0 THEN {} ELSE {"legacy"}]
  BY DEF Init
<1>1. v \in Nat /\ v <= Len(Ends) /\ EndOf(v) \in Nat
  BY ProgramAssumption DEF EndOf, Versions
<1>2. MigrationTypeOK
  BY ProgramAssumption DEF Init, MigrationTypeOK, Phases
<1>3. FreshUntouched /\ NoSelfConflict
  BY DEF Init, FreshUntouched, NoSelfConflict
<1>4. Reached(v, EndOf(v))
  <2>1. v = Len(Ends) => EndOf(v) = Final
    BY ProgramAssumption
  <2>2. v < Len(Ends) => EndOf(v) <= Ends[v + 1]
    BY <1>1, EndsOrdered
  <2> QED
    BY <1>1, <2>1, <2>2 DEF Reached
<1>5. \A m \in Processes : Stands(m, v, EndOf(v))
  BY DEF Init, Stands, Locked
<1> QED
  BY <1>1, <1>2, <1>3, <1>4, <1>5 DEF MigrationInv

(* A step that has been carried out is recognised, and the one after the   *)
(* last that was can be carried out: nothing else is ever inspected.       *)
LEMMA InspectedStep ==
  ASSUME NEW v \in Nat, NEW p \in Nat, Reached(v, p), v < Len(Ends),
         NEW q \in Nat, q >= Start(v + 1), q <= Ends[v + 1], q <= p + 1
  PROVE  /\ q \in 1..Final
         /\ q <= p => \A o \in Objs(q) : At[p][o] = Program[q].want[o]
         /\ drift = {} => Done(q) \/ Executable(q)
         /\ drift = {} => \A o \in Program[q].typed : schema[o] # Unknown
         /\ Done(q) \/ Executable(q) => Objs(q) \cap drift = {}
<1>1. q \in 1..Final /\ p <= Ends[v + 1] /\ v + 1 \in Versions
  BY EndsOrdered, ProgramAssumption DEF Reached
<1>2. ASSUME q <= p PROVE \A o \in Objs(q) : At[p][o] = Program[q].want[o]
  <2>1. q \in Start(v + 1)..Ends[v + 1] /\ p \in Start(v + 1)..Ends[v + 1]
    BY <1>1, <1>2, EndsOrdered
  <2> QED
    BY <1>1, <1>2, <2>1, ResumableAssumption
<1>3. /\ Objs(q) \subseteq Objects /\ (Objs(q) = {} \/ Program[q].rows = {})
      /\ Program[q].typed \subseteq Objects
  BY <1>1, ProgramAssumption
<1>4. ASSUME drift = {}, NEW o \in Program[q].typed
      PROVE  schema[o] \notin {Absent, Unknown}
  <2>1. q \in Start(v + 1)..Ends[v + 1] /\ p \in (q - 1)..Ends[v + 1]
    BY <1>1, EndsOrdered
  <2>2. At[p][o] \notin {Absent, Unknown}
    BY <1>1, <2>1, ResumableAssumption
  <2> QED
    BY <1>3, <1>4, <2>2 DEF Reached
<1>5. ASSUME drift = {} PROVE Done(q) \/ Executable(q)
  <2>1. CASE q <= p
    BY <1>2, <1>3, <1>4, <1>5, <2>1 DEF Reached, Done, Executable
  <2>2. CASE q = p + 1
    <3>1. \A o \in Objs(q) : At[q - 1][o] \in Program[q].from[o]
      BY <1>1, ResumableAssumption
    <3>2. q - 1 = p
      BY <2>2
    <3> QED
      BY <1>3, <1>4, <1>5, <3>1, <3>2 DEF Reached, Executable
  <2> QED
    BY <2>1, <2>2
<1>6. ASSUME Done(q) \/ Executable(q), NEW o \in Objs(q) PROVE o \notin drift
  <2>1. Unknown \notin Program[q].from[o] /\ Program[q].want[o] # Unknown /\ o \in Objects
    BY <1>1, <1>3, ProgramAssumption
  <2>2. schema[o] # Unknown
    BY <1>6, <2>1 DEF Done, Executable
  <2> QED
    BY <2>1, <2>2 DEF Reached
<1> QED
  BY <1>1, <1>2, <1>4, <1>5, <1>6

(* Converting one step further adds that step's tables.                    *)
LEMMA ConvertedNext ==
  ASSUME NEW p \in Nat, p + 1 <= Final
  PROVE  Converted(p + 1) = Converted(p) \cup Program[p + 1].rows
<1>1. p + 1 \in 1..Final /\ Program[p + 1].rows \subseteq Tables
  BY ProgramAssumption
<1>2. \A i : i \in 1..(p + 1) <=> i \in 1..p \/ i = p + 1
  OBVIOUS
<1> QED
  BY <1>1, <1>2 DEF Converted

(* A step found done counts as carried out.                                *)
LEMMA PassedOver ==
  ASSUME NEW v \in Nat, NEW p \in Nat, Reached(v, p), v < Len(Ends),
         NEW q \in Nat, q >= Start(v + 1), q <= Ends[v + 1], q <= p + 1, Done(q)
  PROVE  \E r \in Nat : r >= q /\ r >= p /\ Reached(v, r)
<1>1. CASE q <= p
  BY <1>1
<1>2. CASE q = p + 1
  <2>1. /\ q \in 1..Final /\ Objs(q) \cap drift = {} /\ Program[q].rows = {}
        /\ \A o \in Objs(q) : schema[o] = Program[q].want[o]
    BY InspectedStep DEF Done
  <2>2. At[q] = [o \in Objects |-> IF o \in Objs(q) THEN Program[q].want[o] ELSE At[p][o]]
    <3>1. q - 1 = p
      BY <1>2
    <3> QED
      BY <2>1, <3>1, AtAssumption
  <2>3. \A o \in Objects : schema[o] = IF o \in drift THEN Unknown ELSE At[q][o]
    BY <2>1, <2>2 DEF Reached
  <2>4. Converted(q) = Converted(p)
    <3>1. p + 1 <= Final /\ Program[p + 1].rows = {}
      BY <1>2, <2>1, ProgramAssumption
    <3>2. Converted(p + 1) = Converted(p)
      BY <3>1, ConvertedNext
    <3> QED
      BY <1>2, <3>2
  <2>5. Reached(v, q)
    <3>1. q >= EndOf(v) /\ v <= Len(Ends) /\ v # Len(Ends)
      BY EndsOrdered, ProgramAssumption
    <3> QED
      BY <2>3, <2>4, <3>1 DEF Reached
  <2> QED
    BY <1>2, <2>5
<1> QED
  BY <1>1, <1>2

(* A statement moves the database one step further, or, where it had been  *)
(* carried out before, changes nothing; it converts no fresh row.          *)
LEMMA CarriedOut ==
  ASSUME MigrationTypeOK, FreshUntouched,
         NEW v \in Nat, NEW p \in Nat, Reached(v, p), v < Len(Ends),
         NEW q \in Nat, q >= Start(v + 1), q <= Ends[v + 1], q <= p + 1,
         Executable(q), Effect(q), UNCHANGED <<drift, ledger>>
  PROVE  /\ \E r \in Nat : r >= q /\ r >= p /\ Reached(v, r)'
         /\ FreshUntouched'
         /\ schema' = [o \in Objects |-> schema'[o]]
         /\ rows' \in [Tables -> SUBSET {"legacy", "fresh"}]
<1>1. /\ q \in 1..Final /\ Objs(q) \cap drift = {}
      /\ q <= p => \A o \in Objs(q) : At[p][o] = Program[q].want[o]
  BY InspectedStep
<1>2. Program[q].rows \subseteq Tables
  BY <1>1, ProgramAssumption
<1>3. \A t \in Program[q].rows : "fresh" \notin rows[t]
  <2>0. v # Len(Ends)
    BY ProgramAssumption
  <2> SUFFICES ASSUME NEW t \in Program[q].rows, t \in Converted(EndOf(v)) PROVE FALSE
    BY <1>2, <2>0 DEF Reached
  <2>1. PICK i \in 1..EndOf(v) : t \in Program[i].rows
    BY DEF Converted
  <2>2. i \in 1..Final /\ i # q
    BY <2>1, EndsOrdered, ProgramAssumption
  <2> QED
    BY <1>1, <2>1, <2>2, ResumableAssumption
<1>4. FreshUntouched'
  BY <1>3 DEF Effect, FreshUntouched
<1>5. /\ \A o \in Objects : schema'[o] = IF o \in Objs(q) THEN Program[q].want[o] ELSE schema[o]
      /\ \A t \in Tables : rows'[t] = IF t \in Program[q].rows THEN rows[t] \ {"legacy"} ELSE rows[t]
      /\ schema' = [o \in Objects |-> schema'[o]]
      /\ rows' \in [Tables -> SUBSET {"legacy", "fresh"}]
  BY DEF Effect, MigrationTypeOK
<1>6. CASE q <= p
  <2>1. Reached(v, p)'
    BY <1>1, <1>5, <1>6 DEF Reached, Converted
  <2> QED
    BY <1>4, <1>5, <1>6, <2>1
<1>7. CASE q = p + 1
  <2>1. At[q] = [o \in Objects |-> IF o \in Objs(q) THEN Program[q].want[o] ELSE At[p][o]]
    <3>1. q - 1 = p
      BY <1>7
    <3> QED
      BY <1>1, <3>1, AtAssumption
  <2>2. \A o \in Objects : schema'[o] = IF o \in drift THEN Unknown ELSE At[q][o]
    BY <1>1, <1>5, <2>1 DEF Reached
  <2>3. Converted(q) = Converted(p) \cup Program[q].rows
    <3>1. p + 1 <= Final
      BY <1>1, <1>7, ProgramAssumption
    <3>2. Converted(p + 1) = Converted(p) \cup Program[p + 1].rows
      BY <3>1, ConvertedNext
    <3> QED
      BY <1>7, <3>2
  <2>4. \A t \in Tables :
          /\ t \in Converted(q) => "legacy" \notin rows'[t]
          /\ "fresh" \in rows'[t] => t \in Converted(EndOf(v)) \/ v = Len(Ends)
    BY <1>5, <2>3 DEF Reached
  <2>5. Reached(v, q)'
    <3>1. q >= EndOf(v) /\ v <= Len(Ends) /\ v # Len(Ends) /\ ledger' = 1..v
      BY EndsOrdered, ProgramAssumption DEF Reached
    <3> QED
      BY <2>2, <2>4, <3>1 DEF Reached, Converted
  <2> QED
    BY <1>4, <1>5, <1>7, <2>5
<1> QED
  BY <1>6, <1>7

(* Only the owner of the lock migrates, so the others stand where they     *)
(* stood.                                                                  *)
LEMMA OthersStand ==
  ASSUME NEW v \in Nat, NEW p \in Nat, NEW w \in Nat, NEW r \in Nat,
         NEW m \in Processes, phase[m] \in Locked, Stands(m, v, p),
         NEW n \in Processes, n # m, Stands(n, v, p), phase'[n] = phase[n],
         w = v \/ v < Len(Ends)
  PROVE  Stands(n, w, r)'
<1>1. phase'[n] \notin Locked
  BY DEF Stands
<1> QED
  BY <1>1, ProgramAssumption DEF Stands, Locked

(* The steps of ApplyMigrations, and its end by an error.                  *)
LEMMA ReadLedgerPreserves ==
  ASSUME MigrationInv, NEW m \in Processes, ReadLedger(m)
  PROVE  MigrationInv'
<1> PICK v \in Nat, p \in Nat : Reached(v, p) /\ \A n \in Processes : Stands(n, v, p)
  BY DEF MigrationInv
<1> USE DEF MigrationInv
<1>1. /\ phase[m] = "ledger" /\ lock = m /\ ver[m] <= v + 1 /\ ver[m] \in 1..(Len(Ends) + 1)
      /\ UNCHANGED <<schema, drift, ledger, rows, touched>>
  BY DEF ReadLedger, Stands, Locked, MigrationTypeOK
<1>2. Reached(v, p)' /\ FreshUntouched'
  BY <1>1 DEF Reached, Converted, FreshUntouched
<1>3. v <= Len(Ends) /\ ledger = 1..v /\ Len(Ends) \in Nat
  BY ProgramAssumption DEF Reached
<1>4. CASE ver[m] > Len(Ends) /\ Leaves(m, "serving")
  <2>0. "serving" \in Phases
    BY DEF Phases
  <2>1. MigrationTypeOK' /\ NoSelfConflict'
    <3>1. NoSelfConflict'
      BY <1>1, <1>4, <2>0, LeavesTypes DEF NoSelfConflict
    <3>2. MigrationTypeOK'
      BY <1>1, <1>4, <2>0, LeavesTypes DEF MigrationTypeOK
    <3> QED
      BY <3>1, <3>2
  <2>2. Stands(m, v, p)'
    BY <1>1, <1>3, <1>4 DEF Stands, Leaves, MigrationTypeOK, Locked
  <2>3. \A n \in Processes : n # m => Stands(n, v, p)'
    BY <1>1, <1>4, OthersStand DEF Leaves, MigrationTypeOK, Locked
  <2> QED
    BY <1>2, <2>1, <2>2, <2>3
<1>5. CASE /\ ver[m] <= Len(Ends) /\ Recorded(ver[m])
           /\ ver' = [ver EXCEPT ![m] = @ + 1] /\ UNCHANGED <<lock, phase, step>>
  <2>1. MigrationTypeOK' /\ NoSelfConflict'
    <3>1. ver[m] + 1 \in 1..(Len(Ends) + 1)
      BY <1>1, <1>3, <1>5
    <3>2. ver' \in [Processes -> 1..(Len(Ends) + 1)]
      BY <1>5, <3>1 DEF MigrationTypeOK
    <3> QED
      BY <1>1, <1>5, <3>2 DEF MigrationTypeOK, NoSelfConflict
  <2>2. Stands(m, v, p)'
    BY <1>1, <1>3, <1>5 DEF Stands, MigrationTypeOK, Locked, Recorded
  <2>3. \A n \in Processes : n # m => Stands(n, v, p)'
    BY <1>1, <1>5, OthersStand DEF MigrationTypeOK, Locked
  <2> QED
    BY <1>2, <2>1, <2>2, <2>3
<1>6. CASE /\ ver[m] <= Len(Ends) /\ ~Recorded(ver[m])
           /\ step' = [step EXCEPT ![m] = Start(ver[m])]
           /\ phase' = [phase EXCEPT ![m] = "inspect"] /\ UNCHANGED <<lock, ver>>
  <2>1. ver[m] = v + 1 /\ v < Len(Ends)
    BY <1>1, <1>3, <1>6 DEF Recorded
  <2>2. /\ Start(v + 1) \in Nat /\ Start(v + 1) <= p + 1 /\ Start(v + 1) <= Ends[v + 1]
    <3>1. p >= EndOf(v)
      BY DEF Reached
    <3> QED
      BY <2>1, <3>1, EndsOrdered
  <2>3. MigrationTypeOK' /\ NoSelfConflict'
    BY <1>1, <1>6, <2>1, <2>2 DEF MigrationTypeOK, NoSelfConflict, Phases, Locked
  <2>4. Stands(m, v, p)'
    BY <1>1, <1>6, <2>1, <2>2 DEF Stands, MigrationTypeOK, Locked
  <2>5. \A n \in Processes : n # m => Stands(n, v, p)'
    BY <1>1, <1>6, OthersStand DEF MigrationTypeOK, Locked
  <2> QED
    BY <1>2, <2>3, <2>4, <2>5
<1> QED
  BY <1>4, <1>5, <1>6 DEF ReadLedger

(* NextStep, once the step is known to have been carried out.              *)
LEMMA NextStepStands ==
  ASSUME MigrationTypeOK, NEW v \in Nat, NEW p \in Nat, NEW r \in Nat,
         Reached(v, r)', NEW m \in Processes,
         phase[m] \in {"inspect", "execute"}, Stands(m, v, p),
         r >= step[m], NextStep(m), UNCHANGED drift
  PROVE  /\ Stands(m, v, r)'
         /\ \A n \in Processes \ {m} : phase'[n] = phase[n]
         /\ phase' \in [Processes -> Phases] /\ phase'[m] # "conflict"
         /\ ver' = ver /\ lock' = lock /\ step' \in [Processes -> Nat]
<1>1. /\ v < Len(Ends) /\ ver[m] = v + 1 /\ step[m] \in Nat
      /\ step[m] >= Start(v + 1) /\ step[m] <= Ends[v + 1] /\ lock = m
  BY DEF Stands, Locked, MigrationTypeOK
<1>2. Ends[v + 1] \in Nat /\ Start(v + 1) \in Nat /\ r <= Ends[v + 1]
  BY <1>1, EndsOrdered DEF Reached
<1>3. /\ step'[m] = step[m] + 1
      /\ phase'[m] = IF step[m] = Ends[v + 1] THEN "record" ELSE "inspect"
      /\ \A n \in Processes \ {m} : phase'[n] = phase[n]
      /\ phase' \in [Processes -> Phases]
      /\ ver' = ver /\ lock' = lock /\ step' \in [Processes -> Nat]
  BY <1>1 DEF NextStep, MigrationTypeOK, Phases, Locked
<1>4. CASE step[m] = Ends[v + 1]
  BY <1>1, <1>2, <1>3, <1>4 DEF Stands, Locked
<1>5. CASE step[m] # Ends[v + 1]
  BY <1>1, <1>2, <1>3, <1>5, SMTT(30) DEF Stands, Locked
<1> QED
  BY <1>3, <1>4, <1>5

(* A process that leaves stands nowhere.                                   *)
LEMMA LeavesStands ==
  ASSUME MigrationTypeOK, NEW v \in Nat, NEW p \in Nat, NEW r \in Nat, NEW m \in Processes,
         phase[m] \in Locked, \A n \in Processes : Stands(n, v, p),
         NEW to \in {"failed", "conflict"}, Leaves(m, to)
  PROVE  /\ \A n \in Processes : Stands(n, v, r)'
         /\ phase' \in [Processes -> Phases] /\ lock' \in Processes \cup {None}
         /\ ver' \in [Processes -> 1..(Len(Ends) + 1)] /\ step' \in [Processes -> Nat]
         /\ \A n \in Processes : phase'[n] = "conflict" => to = "conflict" \/ phase[n] = "conflict"
<1>1. Stands(m, v, r)'
  BY DEF Leaves, Stands, MigrationTypeOK, Locked
<1>2. \A n \in Processes : n # m => Stands(n, v, r)'
  BY OthersStand DEF Leaves, MigrationTypeOK
<1>3. /\ phase' \in [Processes -> Phases] /\ lock' \in Processes \cup {None}
      /\ ver' \in [Processes -> 1..(Len(Ends) + 1)] /\ step' \in [Processes -> Nat]
      /\ \A n \in Processes : phase'[n] = "conflict" => to = "conflict" \/ phase[n] = "conflict"
  <2>1. to \in Phases
    BY DEF Phases
  <2> QED
    BY <2>1, LeavesTypes
<1> QED
  BY <1>1, <1>2, <1>3

LEMMA InspectPreserves ==
  ASSUME MigrationInv, NEW m \in Processes, Inspect(m)
  PROVE  MigrationInv'
<1> PICK v \in Nat, p \in Nat : Reached(v, p) /\ \A n \in Processes : Stands(n, v, p)
  BY DEF MigrationInv
<1> USE DEF MigrationInv
<1> DEFINE q == step[m]
<1>1. /\ phase[m] = "inspect" /\ v < Len(Ends) /\ q \in Nat
      /\ q >= Start(v + 1) /\ q <= Ends[v + 1] /\ q <= p + 1
      /\ UNCHANGED <<schema, drift, ledger, rows, touched>>
  BY DEF Inspect, Stands, MigrationTypeOK
<1>2. FreshUntouched' /\ \A r \in Nat : Reached(v, r) => Reached(v, r)'
  BY <1>1 DEF Reached, Converted, FreshUntouched
<1>3. CASE Done(q) /\ NextStep(m)
  <2>1. PICK r \in Nat : r >= q /\ Reached(v, r)
    BY <1>1, <1>3, PassedOver
  <2>2. /\ Stands(m, v, r)'
        /\ \A n \in Processes \ {m} : phase'[n] = phase[n]
        /\ phase' \in [Processes -> Phases] /\ phase'[m] # "conflict"
        /\ ver' = ver /\ lock' = lock /\ step' \in [Processes -> Nat]
    BY <1>1, <1>2, <1>3, <2>1, NextStepStands
  <2>3. \A n \in Processes : n # m => Stands(n, v, r)'
    BY <1>1, <2>2, OthersStand DEF Locked
  <2>4. MigrationTypeOK' /\ NoSelfConflict'
    BY <1>1, <2>2 DEF MigrationTypeOK, NoSelfConflict
  <2> QED
    BY <1>2, <2>1, <2>2, <2>3, <2>4
<1>4. CASE ~Done(q) /\ Executable(q) /\ Goes(m, "execute")
  <2>1. MigrationTypeOK' /\ NoSelfConflict'
    BY <1>1, <1>4 DEF MigrationTypeOK, NoSelfConflict, Goes, Phases, Locked
  <2>2. Stands(m, v, p)'
    BY <1>1, <1>4 DEF Stands, Goes, MigrationTypeOK, Locked
  <2>3. \A n \in Processes : n # m => Stands(n, v, p)'
    BY <1>1, <1>4, OthersStand DEF Goes, MigrationTypeOK, Locked
  <2> QED
    BY <1>2, <2>1, <2>2, <2>3
<1>5. CASE /\ ~Done(q)
           /\ ~Executable(q) \/ \E o \in Program[q].typed : schema[o] = Unknown
           /\ Leaves(m, "conflict")
  <2>1. drift # {}
    BY <1>1, <1>5, InspectedStep
  <2>2. MigrationTypeOK' /\ \A n \in Processes : Stands(n, v, p)'
    BY <1>1, <1>5, LeavesStands DEF MigrationTypeOK, Locked
  <2> QED
    BY <1>1, <1>2, <2>1, <2>2 DEF NoSelfConflict
<1> QED
  BY <1>3, <1>4, <1>5 DEF Inspect

LEMMA ExecutePreserves ==
  ASSUME MigrationInv, NEW m \in Processes, Execute(m)
  PROVE  MigrationInv'
<1> PICK v \in Nat, p \in Nat : Reached(v, p) /\ \A n \in Processes : Stands(n, v, p)
  BY DEF MigrationInv
<1> USE DEF MigrationInv
<1> DEFINE q == step[m]
<1>1. /\ phase[m] = "execute" /\ v < Len(Ends) /\ q \in Nat
      /\ q >= Start(v + 1) /\ q <= Ends[v + 1] /\ q <= p + 1
      /\ UNCHANGED <<drift, ledger>>
  BY DEF Execute, Stands, MigrationTypeOK
<1>2. CASE Executable(q) /\ Effect(q) /\ NextStep(m)
  <2>1. /\ \E r \in Nat : r >= q /\ r >= p /\ Reached(v, r)'
        /\ FreshUntouched'
        /\ schema' = [o \in Objects |-> schema'[o]]
        /\ rows' \in [Tables -> SUBSET {"legacy", "fresh"}]
    BY <1>1, <1>2, CarriedOut
  <2>2. PICK r \in Nat : r >= q /\ Reached(v, r)'
    BY <2>1
  <2>3. /\ Stands(m, v, r)'
        /\ \A n \in Processes \ {m} : phase'[n] = phase[n]
        /\ phase' \in [Processes -> Phases] /\ phase'[m] # "conflict"
        /\ ver' = ver /\ lock' = lock /\ step' \in [Processes -> Nat]
    BY <1>1, <1>2, <2>2, NextStepStands
  <2>4. \A n \in Processes : n # m => Stands(n, v, r)'
    BY <1>1, <2>3, OthersStand DEF Locked
  <2>5. MigrationTypeOK' /\ NoSelfConflict'
    BY <1>1, <2>1, <2>3 DEF MigrationTypeOK, NoSelfConflict
  <2> QED
    BY <2>1, <2>2, <2>3, <2>4, <2>5
<1>3. CASE ~Executable(q) /\ Leaves(m, "failed") /\ UNCHANGED <<schema, rows, touched>>
  <2>1. MigrationTypeOK' /\ NoSelfConflict' /\ \A n \in Processes : Stands(n, v, p)'
    BY <1>1, <1>3, LeavesStands DEF MigrationTypeOK, NoSelfConflict, Locked
  <2>2. Reached(v, p)' /\ FreshUntouched'
    BY <1>1, <1>3 DEF Reached, Converted, FreshUntouched
  <2> QED
    BY <2>1, <2>2
<1> QED
  BY <1>2, <1>3 DEF Execute

LEMMA RecordPreserves ==
  ASSUME MigrationInv, NEW m \in Processes, Record(m)
  PROVE  MigrationInv'
<1> PICK v \in Nat, p \in Nat : Reached(v, p) /\ \A n \in Processes : Stands(n, v, p)
  BY DEF MigrationInv
<1> USE DEF MigrationInv
<1>1. phase[m] = "record" /\ v < Len(Ends) /\ ver[m] = v + 1 /\ p = Ends[v + 1] /\ lock = m
  BY DEF Record, Stands, Locked
<1>2. v + 1 \in Nat /\ v + 1 <= Len(Ends) /\ EndOf(v + 1) = p /\ EndOf(v) <= p /\ EndOf(v) \in Nat
  <2>1. Len(Ends) \in Nat
    BY ProgramAssumption
  <2>2. EndOf(v) \in Nat /\ EndOf(v + 1) = p /\ EndOf(v) < p /\ p \in Nat
    BY <1>1, EndsOrdered
  <2> QED
    BY <1>1, <2>1, <2>2
<1>3. Reached(v + 1, p)'
  <2>1. ledger' = 1..(v + 1)
    <3>1. ledger = 1..v /\ ledger' = ledger \cup {v + 1} /\ v \in Nat
      BY <1>1 DEF Record, Reached
    <3> QED
      BY <3>1
  <2>2. v + 1 = Len(Ends) => p = Final
    BY <1>2, ProgramAssumption
  <2>3. v + 1 < Len(Ends) => p <= Ends[(v + 1) + 1]
    BY <1>2, EndsOrdered
  <2>4. UNCHANGED <<schema, drift, rows>>
    BY DEF Record
  <2>5. \A t \in Tables : t \in Converted(EndOf(v)) => t \in Converted(p)
    BY <1>2 DEF Converted
  <2>6. \A t \in Tables :
          /\ t \in Converted(p) => "legacy" \notin rows[t]
          /\ "fresh" \in rows[t] => t \in Converted(EndOf(v + 1))
    <3>1. v # Len(Ends)
      BY <1>1, ProgramAssumption
    <3> QED
      BY <1>2, <2>5, <3>1 DEF Reached
  <2>7. \A o \in Objects : schema[o] = IF o \in drift THEN Unknown ELSE At[p][o]
    BY DEF Reached
  <2>8. /\ v + 1 \in Nat /\ v + 1 <= Len(Ends) /\ p \in Nat /\ p >= EndOf(v + 1)
    BY <1>2
  <2> HIDE DEF Converted, MigrationInv
  <2> QED
    BY <2>1, <2>2, <2>3, <2>4, <2>6, <2>7, <2>8 DEF Reached
<1>4. MigrationTypeOK' /\ NoSelfConflict' /\ FreshUntouched'
  <2>1. ver' \in [Processes -> 1..(Len(Ends) + 1)]
    <3>1. (v + 1) + 1 \in 1..(Len(Ends) + 1)
      BY <1>2, ProgramAssumption
    <3> QED
      BY <1>1, <3>1 DEF Record, MigrationTypeOK
  <2>2. phase' \in [Processes -> Phases] /\ NoSelfConflict'
    BY DEF Record, MigrationTypeOK, NoSelfConflict, Phases, Locked
  <2> QED
    BY <2>1, <2>2 DEF Record, MigrationTypeOK, FreshUntouched
<1>5. Stands(m, v + 1, p)'
  BY <1>1 DEF Record, Stands, MigrationTypeOK, Locked
<1>6. ASSUME NEW n \in Processes, n # m PROVE Stands(n, v + 1, p)'
  <2>1. phase'[n] = phase[n]
    BY <1>6 DEF Record, MigrationTypeOK
  <2> QED
    BY <1>1, <1>2, <1>6, <2>1, OthersStand DEF Locked
<1> QED
  BY <1>2, <1>3, <1>4, <1>5, <1>6

LEMMA DiePreserves ==
  ASSUME MigrationInv, NEW m \in Processes, Die(m)
  PROVE  MigrationInv'
<1> PICK v \in Nat, p \in Nat : Reached(v, p) /\ \A n \in Processes : Stands(n, v, p)
  BY DEF MigrationInv
<1> USE DEF MigrationInv
<1>1. /\ phase[m] \in Locked /\ Leaves(m, "failed") /\ UNCHANGED <<drift, ledger>>
  BY DEF Die
<1>2. CASE phase[m] = "execute" /\ Executable(step[m]) /\ Effect(step[m])
  <2>1. /\ \E r \in Nat : r >= step[m] /\ r >= p /\ Reached(v, r)'
        /\ FreshUntouched'
        /\ schema' = [o \in Objects |-> schema'[o]]
        /\ rows' \in [Tables -> SUBSET {"legacy", "fresh"}]
    <3>1. /\ v < Len(Ends) /\ step[m] \in Nat
          /\ step[m] >= Start(v + 1) /\ step[m] <= Ends[v + 1] /\ step[m] <= p + 1
      BY <1>2 DEF Stands, MigrationTypeOK
    <3> QED
      BY <1>1, <1>2, <3>1, CarriedOut
  <2>2. PICK r \in Nat : Reached(v, r)'
    BY <2>1
  <2>3. MigrationTypeOK' /\ NoSelfConflict' /\ \A n \in Processes : Stands(n, v, r)'
    BY <1>1, <2>1, LeavesStands DEF MigrationTypeOK, NoSelfConflict
  <2> QED
    BY <2>1, <2>2, <2>3
<1>3. CASE UNCHANGED <<schema, rows, touched>>
  <2>1. MigrationTypeOK' /\ NoSelfConflict' /\ \A n \in Processes : Stands(n, v, p)'
    BY <1>1, <1>3, LeavesStands DEF MigrationTypeOK, NoSelfConflict
  <2>2. Reached(v, p)' /\ FreshUntouched'
    BY <1>1, <1>3 DEF Reached, Converted, FreshUntouched
  <2> QED
    BY <2>1, <2>2
<1> QED
  BY <1>2, <1>3 DEF Die

(* Processes that start, wait, give up, serve or restart change neither    *)
(* the schema nor the ledger.                                              *)
LEMMA OutsidePreserves ==
  ASSUME MigrationInv, NEW m \in Processes,
         Acquire(m) \/ LockTimeout(m) \/ Restart(m) \/ WriteRow(m)
  PROVE  MigrationInv'
<1> PICK v \in Nat, p \in Nat : Reached(v, p) /\ \A n \in Processes : Stands(n, v, p)
  BY DEF MigrationInv
<1> USE DEF MigrationInv
<1>1. /\ UNCHANGED <<schema, drift, ledger, touched>>
      /\ phase[m] \in Phases \ Locked
  BY DEF Acquire, LockTimeout, Restart, WriteRow, Phases, Locked
<1>2. MigrationTypeOK' /\ NoSelfConflict' /\ FreshUntouched'
  <2>0. 1 \in 1..(Len(Ends) + 1)
    BY ProgramAssumption
  <2>1. CASE Acquire(m)
    BY <2>0, <2>1 DEF Acquire, MigrationTypeOK, NoSelfConflict, FreshUntouched, Phases, Locked
  <2>a. CASE LockTimeout(m) \/ Restart(m)
    <3>0. {"failed", "start"} \subseteq Phases
      BY DEF Phases
    <3>1. \E to \in {"failed", "start"} : Leaves(m, to)
      BY <2>a DEF LockTimeout, Restart
    <3>2. /\ ver' \in [Processes -> 1..(Len(Ends) + 1)] /\ step' \in [Processes -> Nat]
          /\ phase' \in [Processes -> Phases] /\ lock' \in Processes \cup {None}
      BY <3>0, <3>1, LeavesTypes
    <3>3. NoSelfConflict'
      BY <1>1, <3>0, <3>1, LeavesTypes DEF NoSelfConflict
    <3> QED
      BY <1>1, <2>a, <3>2, <3>3 DEF LockTimeout, Restart, MigrationTypeOK, FreshUntouched
  <2>2. CASE WriteRow(m)
    BY <2>2 DEF WriteRow, procVars, MigrationTypeOK, NoSelfConflict, FreshUntouched
  <2> QED
    BY <2>1, <2>a, <2>2
<1>3. \A n \in Processes : Stands(n, v, p)'
  <2> SUFFICES ASSUME NEW n \in Processes PROVE Stands(n, v, p)'
    OBVIOUS
  <2>1. CASE Acquire(m)
    <3>1. CASE n = m
      BY <2>1, <3>1 DEF Acquire, Stands, MigrationTypeOK, Locked
    <3>2. CASE n # m
      <4>1. phase[n] \notin Locked
        BY <2>1, ProgramAssumption DEF Acquire, Stands
      <4> QED
        BY <2>1, <3>2, <4>1 DEF Acquire, Stands, MigrationTypeOK, Locked
    <3> QED
      BY <3>1, <3>2
  <2>2. CASE LockTimeout(m) \/ Restart(m)
    <3>1. PICK to \in {"failed", "start"} : Leaves(m, to)
      BY <2>2 DEF LockTimeout, Restart
    <3>2. phase'[n] = IF n = m THEN to ELSE phase[n]
      BY <3>1 DEF Leaves, MigrationTypeOK
    <3>3. CASE n = m
      BY <3>2, <3>3 DEF Stands, Locked
    <3>4. CASE n # m
      <4>1. ver'[n] = ver[n] /\ step'[n] = step[n] /\ phase'[n] = phase[n]
        BY <3>1, <3>2, <3>4 DEF Leaves, MigrationTypeOK
      <4>2. lock = n => lock' = n
        BY <3>1, <3>4 DEF Leaves
      <4> QED
        BY <4>1, <4>2 DEF Stands
    <3> QED
      BY <3>3, <3>4
  <2>3. CASE WriteRow(m)
    BY <2>3 DEF WriteRow, procVars, Stands
  <2> QED
    BY <2>1, <2>2, <2>3
<1>4. Reached(v, p)'
  <2>1. CASE Acquire(m) \/ LockTimeout(m) \/ Restart(m)
    BY <1>1, <2>1 DEF Acquire, LockTimeout, Restart, Reached, Converted
  <2>2. CASE WriteRow(m)
    <3>1. v = Len(Ends)
      BY <2>2 DEF WriteRow, Stands
    <3>2. \A t \in Tables : "legacy" \in rows'[t] => "legacy" \in rows[t]
      BY <2>2 DEF WriteRow, MigrationTypeOK
    <3> QED
      BY <1>1, <3>1, <3>2 DEF Reached, Converted
  <2> QED
    BY <2>1, <2>2
<1> QED
  BY <1>2, <1>3, <1>4

(* The invariant of ApplyMigrations, for any resumable files, processes    *)
(* and deaths.                                                             *)
THEOREM MigrationInvariance == Spec => []MigrationInv
<1>1. MigrationInv /\ [Next]_vars => MigrationInv'
  <2> SUFFICES ASSUME MigrationInv, [Next]_vars PROVE MigrationInv'
    OBVIOUS
  <2>1. ASSUME NEW m \in Processes,
               Migrate(m) \/ LockTimeout(m) \/ Die(m) \/ Restart(m) \/ WriteRow(m)
        PROVE  MigrationInv'
    BY <2>1, ReadLedgerPreserves, InspectPreserves, ExecutePreserves, RecordPreserves,
       DiePreserves, OutsidePreserves DEF Migrate
  <2>2. CASE UNCHANGED vars
    <3>1. PICK v \in Nat, p \in Nat : Reached(v, p) /\ \A n \in Processes : Stands(n, v, p)
      BY DEF MigrationInv
    <3>2. Reached(v, p)' /\ \A n \in Processes : Stands(n, v, p)'
      BY <2>2, <3>1 DEF vars, procVars, Reached, Converted, Stands
    <3>3. MigrationTypeOK' /\ FreshUntouched' /\ NoSelfConflict'
      BY <2>2 DEF vars, procVars, MigrationInv, MigrationTypeOK, FreshUntouched, NoSelfConflict
    <3> QED
      BY <3>2, <3>3 DEF MigrationInv
  <2> QED
    BY <2>1, <2>2 DEF Next
<1> QED
  BY InitMigration, <1>1, PTL DEF Spec

(* However often a migration is cut short, whoever serves has the final    *)
(* schema and converted rows.                                              *)
THEOREM ServesOnFinalSchema == Spec => []ServingIsCurrent
<1>1. MigrationInv => ServingIsCurrent
  <2> SUFFICES ASSUME MigrationInv, NEW m \in Processes, phase[m] = "serving"
               PROVE  /\ \A o \in Objects \ drift : schema[o] = At[Final][o]
                      /\ \A t \in Converted(Final) : "legacy" \notin rows[t]
    BY DEF ServingIsCurrent
  <2>1. PICK v \in Nat, p \in Nat : Reached(v, p) /\ Stands(m, v, p)
    BY DEF MigrationInv
  <2>2. p = Final
    BY <2>1 DEF Reached, Stands
  <2> QED
    BY <2>1, <2>2 DEF Reached, Converted
<1> QED
  BY <1>1, MigrationInvariance, PTL

(* Files that satisfy ResumableAssumption can be cut short anywhere and    *)
(* never mistake their own work for a schema conflict.                     *)
THEOREM ResumesWithoutConflict == Spec => []NoSelfConflict
<1>1. MigrationInv => NoSelfConflict
  BY DEF MigrationInv
<1> QED
  BY <1>1, MigrationInvariance, PTL

(* No conversion ever meets a row of a release that has it.                *)
THEOREM ConversionsMeetNoFreshRow == Spec => []FreshUntouched
<1>1. MigrationInv => FreshUntouched
  BY DEF MigrationInv
<1> QED
  BY <1>1, MigrationInvariance, PTL

=============================================================================
