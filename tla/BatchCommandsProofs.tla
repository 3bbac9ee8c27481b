-------------------------- MODULE BatchCommandsProofs --------------------------
(***************************************************************************)
(* Proofs about BatchCommands, for any number of processes, any builds and *)
(* any failures of statements and processes: a command that goes on finds  *)
(* its files recorded as its own, and so its tables unless another build   *)
(* made them and did not record them, its row tells how it ended, and what *)
(* a feature job stores is whole, warm and never looks back.               *)
(*                                                                         *)
(* SchemaReady is not inductive: it says nothing of a process that is      *)
(* still migrating.  The invariant adds that the files before the one a    *)
(* process is at are recorded with its own contents, and of each file that *)
(* its tables are what is recorded, or that whoever made them has not      *)
(* recorded it.  RowsTellEnd is not either: the invariant adds what a row  *)
(* may say at each place a process is at, that the results inserted so far *)
(* are the first ones computed, and that no correlation of a mandatory     *)
(* column is of more rows than the tables hold now; these only ever grow,  *)
(* and since stored rows are warm none of them lacks such a column.        *)
(*                                                                         *)
(* EveryBarWritten and LabelsLookAhead speak of the end of a job that has  *)
(* read the table in overlapping chunks while others stored bars and wrote *)
(* labels.  Their invariant, ReadInv, says of each place in what a job has *)
(* loaded that its label is settled, or that the bar comes again, or that  *)
(* the loop will still come back to it; of each bar the job knew that it   *)
(* has its row or gets it; and of each label that as many stored bars lie  *)
(* between it and its bar as its horizon says.  RowsWarm rests on what     *)
(* each column computes: the recursive ones have a value because a         *)
(* recurrence over the chunk has one, and a value that read outside the    *)
(* chunk would have a least index.                                         *)
(***************************************************************************)
EXTENDS BatchCommands, FiniteSetTheorems, SequenceTheorems, WellFoundedInduction, TLAPS

USE BatchAssumption DEF M!MigrationAssumption

-----------------------------------------------------------------------------
(***************************************************************************)
(* The migrations.                                                         *)
(***************************************************************************)
\* The files a process has passed are recorded with its own contents, and where it
\* stands says what of the next one is done.
Passed(p) ==
    /\ file[p] \in 1..Len(binary[p]) + 1
    /\ \A f \in 1..Len(binary[p]) : f < file[p] => recorded[f] = binary[p][f]
    /\ step[p] \in {"execute", "record"} => file[p] <= Len(binary[p])
    /\ step[p] = "record" => schema[file[p]] # 0
    /\ step[p] = "ready" => file[p] = Len(binary[p]) + 1

\* Tables are recorded as what they are, or whoever made them did not record them.
SchemaTold == \A f \in M!Files : schema[f] # 0 => schema[f] = recorded[f] \/ M!Unrecorded(f)

MigrationInv ==
    /\ M!MigrationTypeOK
    /\ M!ExecutedInOrder
    /\ SchemaTold
    /\ \A p \in Processes : Passed(p)

\* A build is a sequence of contents, and its files are files.
LEMMA BuildFiles ==
    ASSUME M!MigrationTypeOK, NEW p \in Processes
    PROVE  /\ binary[p] \in Seq(Nat \ {0}) /\ DOMAIN binary[p] = 1..Len(binary[p])
           /\ Len(binary[p]) \in Nat
           /\ \A f \in 1..Len(binary[p]) : f \in M!Files /\ binary[p][f] \in Nat \ {0}
<1>1. binary[p] \in Binaries
  BY DEF M!MigrationTypeOK
<1>2. binary[p] \in Seq(Nat \ {0})
  BY <1>1
<1>3. DOMAIN binary[p] = 1..Len(binary[p]) /\ Len(binary[p]) \in Nat
        /\ \A f \in 1..Len(binary[p]) : binary[p][f] \in Nat \ {0}
  BY <1>2
<1>4. \A f \in DOMAIN binary[p] : f \in M!Files
  BY <1>1 DEF M!Files
<1> QED BY <1>2, <1>3, <1>4

LEMMA FilesAreNumbers == M!Files \subseteq Nat \ {0}
<1> SUFFICES ASSUME NEW b \in Binaries, NEW f \in DOMAIN b PROVE f \in Nat \ {0}
  BY DEF M!Files
<1>1. b \in Seq(Nat \ {0})
  OBVIOUS
<1>2. DOMAIN b = 1..Len(b) /\ Len(b) \in Nat
  BY <1>1
<1> QED BY <1>2

LEMMA MigrationInit == M!migrationInit => MigrationInv
<1> SUFFICES ASSUME M!migrationInit PROVE MigrationInv
  OBVIOUS
<1> USE DEF M!migrationInit
<1>1. M!MigrationTypeOK
  BY DEF M!MigrationTypeOK
<1>2. M!ExecutedInOrder
  BY DEF M!ExecutedInOrder
<1>3. ASSUME NEW p \in Processes PROVE Passed(p)
  BY <1>1, BuildFiles DEF Passed
<1>4. SchemaTold
  BY DEF SchemaTold
<1> QED BY <1>1, <1>2, <1>3, <1>4 DEF MigrationInv

\* A process may move on from a file it made and did not record only by recording it.
LEMMA ToldKept ==
    ASSUME SchemaTold, NEW p \in Processes, UNCHANGED <<binary, schema>>,
           \A f \in M!Files : recorded[f] # 0 => recorded'[f] = recorded[f],
           \A q \in Processes : q # p => step'[q] = step[q] /\ file'[q] = file[q],
           \/ step[p] \notin {"record", "dead"}
           \/ step'[p] \in {"record", "dead"} /\ file'[p] = file[p]
           \/ recorded'[file[p]] = binary[p][file[p]]
    PROVE  SchemaTold'
<1> SUFFICES ASSUME NEW f \in M!Files, schema[f] # 0
             PROVE  schema[f] = recorded'[f] \/ M!Unrecorded(f)'
  BY DEF SchemaTold
<1>1. CASE schema[f] = recorded[f]
  BY <1>1
<1>2. CASE M!Unrecorded(f)
  <2>1. PICK q \in Processes : /\ file[q] = f /\ step[q] \in {"record", "dead"}
                               /\ f \in DOMAIN binary[q] /\ binary[q][f] = schema[f]
    BY <1>2 DEF M!Unrecorded
  <2>2. CASE file'[q] = f /\ step'[q] \in {"record", "dead"}
    BY <2>1, <2>2 DEF M!Unrecorded
  <2>3. CASE q = p /\ recorded'[f] = binary[p][f]
    BY <2>1, <2>3
  <2> QED BY <2>1, <2>2, <2>3
<1> QED BY <1>1, <1>2 DEF SchemaTold

\* A step that leaves the tables alone keeps the other processes where they were.
LEMMA OthersPassed ==
    ASSUME MigrationInv, NEW p \in Processes, NEW q \in Processes, q # p,
           UNCHANGED <<binary, recorded, schema>>,
           step'[q] = step[q], file'[q] = file[q]
    PROVE  Passed(q)'
BY DEF MigrationInv, Passed

\* Start, ensureSchemaTable and a crash move no process past a file.
LEMMA MoveKeeps ==
    ASSUME MigrationInv, NEW p \in Processes, NEW s \in {"ensure", "check", "dead"},
           step[p] \notin {"record", "dead"} \/ (s = "dead" /\ step[p] # "dead"),
           step' = [step EXCEPT ![p] = s], table' \in BOOLEAN,
           UNCHANGED <<binary, file, recorded, schema>>
    PROVE  MigrationInv'
<1> USE DEF MigrationInv
<1>1. M!MigrationTypeOK'
  BY DEF M!MigrationTypeOK
<1>2. M!ExecutedInOrder'
  BY DEF M!ExecutedInOrder
<1>3. step'[p] = s
  BY DEF M!MigrationTypeOK
<1>4. Passed(p)'
  BY <1>3 DEF Passed
<1>5. ASSUME NEW q \in Processes, q # p PROVE Passed(q)'
  BY <1>5, OthersPassed DEF M!MigrationTypeOK
<1>6. SchemaTold'
  BY <1>3, ToldKept DEF M!MigrationTypeOK
<1> QED BY <1>1, <1>2, <1>4, <1>5, <1>6

LEMMA CheckKeeps ==
    ASSUME MigrationInv, NEW p \in Processes, NEW o \in Outcomes, M!Check(p, o)
    PROVE  MigrationInv'
<1> USE DEF MigrationInv
<1> DEFINE f == file[p]
           n == Len(binary[p])
<1>1. f \in 1..n + 1 /\ n \in Nat /\ DOMAIN binary[p] = 1..n
        /\ f \in Nat
  BY BuildFiles DEF Passed
<1> DEFINE Moves(s, g) ==
             /\ step' = [step EXCEPT ![p] = s] /\ file' = [file EXCEPT ![p] = g]
             /\ s = "ready" => f = n + 1 /\ g = f
             /\ s = "execute" => f <= n /\ g = f
             /\ g = f + 1 => f <= n /\ recorded[f] = binary[p][f]
           Places == {"ready", "execute", "check", "dead"}
<1>2. step[p] = "check" /\ UNCHANGED <<binary, table, recorded, schema>>
  BY DEF M!Check
<1>3. PICK s \in Places, g \in {f, f + 1} : Moves(s, g)
  <2>1. f # f + 1
    BY <1>1
  <2>2. UNCHANGED file => file' = [file EXCEPT ![p] = f]
    BY DEF M!MigrationTypeOK
  <2>3. CASE f \notin DOMAIN binary[p]
    <3>1. step' = [step EXCEPT ![p] = "ready"] /\ UNCHANGED file
      BY <2>3 DEF M!Check, M!Then
    <3>2. f = n + 1
      BY <1>1, <2>3
    <3>3. Moves("ready", f)
      BY <2>1, <2>2, <3>1, <3>2
    <3> HIDE DEF Moves, f, n
    <3> QED BY <3>3
  <2>4. CASE f \in DOMAIN binary[p] /\ (o # "ok" \/ (recorded[f] # 0 /\ recorded[f] # M!Content(p)))
    <3>1. step' = [step EXCEPT ![p] = "dead"] /\ UNCHANGED file
      BY <2>4 DEF M!Check, M!Then
    <3>2. Moves("dead", f)
      BY <2>1, <2>2, <3>1
    <3> HIDE DEF Moves, f, n
    <3> QED BY <3>2
  <2>5. CASE f \in DOMAIN binary[p] /\ o = "ok" /\ recorded[f] = 0
    <3>1. step' = [step EXCEPT ![p] = "execute"] /\ UNCHANGED file
      BY <2>5 DEF M!Check, M!Then
    <3>2. f <= n
      BY <1>1, <2>5
    <3>3. Moves("execute", f)
      BY <2>1, <2>2, <3>1, <3>2
    <3> HIDE DEF Moves, f, n
    <3> QED BY <3>3
  <2>6. CASE f \in DOMAIN binary[p] /\ o = "ok" /\ recorded[f] # 0 /\ recorded[f] = M!Content(p)
    <3>1. step' = [step EXCEPT ![p] = "check"] /\ file' = [file EXCEPT ![p] = f + 1]
      BY <2>6 DEF M!Check, M!Then
    <3>2. f <= n /\ recorded[f] = binary[p][f]
      BY <1>1, <2>6 DEF M!Content
    <3>3. Moves("check", f + 1)
      BY <3>1, <3>2
    <3> HIDE DEF Moves, f, n
    <3> QED BY <3>3
  <2> QED BY <2>3, <2>4, <2>5, <2>6
<1>4. step'[p] = s /\ file'[p] = g /\ g \in Nat
  BY <1>1, <1>3 DEF M!MigrationTypeOK
<1>5. M!MigrationTypeOK'
  BY <1>2, <1>3, <1>4 DEF M!MigrationTypeOK
<1>6. M!ExecutedInOrder'
  BY <1>2 DEF M!ExecutedInOrder
<1>7. Passed(p)'
  <2>1. Len(binary[p])' = n /\ g \in 1..n + 1
    <3>1. g = f \/ (g = f + 1 /\ f <= n)
      BY <1>3
    <3> HIDE DEF Moves, Places
    <3> QED BY <1>1, <1>2, <3>1
  <2>2. ASSUME NEW e \in 1..n, e < f PROVE recorded[e] = binary[p][e]
    BY <2>2 DEF Passed
  <2>3. \A e \in 1..n : e < g => recorded[e] = binary[p][e]
    <3> HIDE DEF f, n
    <3>1. g = f \/ (g = f + 1 /\ recorded[f] = binary[p][f])
      BY <1>3
    <3> HIDE DEF Moves
    <3> QED BY <1>1, <2>2, <3>1
  <2> HIDE DEF f, n
  <2> QED BY <1>1, <1>2, <1>3, <1>4, <2>1, <2>3 DEF Passed
<1>8. ASSUME NEW q \in Processes, q # p PROVE Passed(q)'
  BY <1>2, <1>3, <1>8, OthersPassed DEF M!MigrationTypeOK
<1>9. SchemaTold'
  <2> HIDE DEF f, n, Moves, Places
  <2>1. \A q \in Processes : q # p => step'[q] = step[q] /\ file'[q] = file[q]
    BY <1>3 DEF Moves, M!MigrationTypeOK
  <2> QED BY <1>2, <2>1, ToldKept
<1> QED BY <1>5, <1>6, <1>7, <1>8, <1>9

\* What a process executes comes after files it found or made recorded.
LEMMA ExecuteKeeps ==
    ASSUME MigrationInv, NEW p \in Processes, NEW o \in Outcomes, M!Execute(p, o)
    PROVE  MigrationInv'
<1> USE DEF MigrationInv
<1> DEFINE f == file[p]
           n == Len(binary[p])
           s == IF o = "ok" THEN "record" ELSE "dead"
<1>1. f \in 1..n /\ n \in Nat /\ f \in M!Files /\ binary[p][f] \in Nat
        /\ \A g \in 1..n : g \in M!Files /\ binary[p][g] # 0
  BY BuildFiles DEF M!Execute, Passed
<1>2. UNCHANGED <<binary, file, table, recorded>> /\ step' = [step EXCEPT ![p] = s]
  BY DEF M!Execute, M!Then
<1>3. /\ schema' \in [M!Files -> Nat]
      /\ \A g \in M!Files : g # f \/ schema[g] # 0 => schema'[g] = schema[g]
      /\ schema'[f] # 0 /\ schema[f] = 0 => schema'[f] = binary[p][f]
      /\ o = "ok" => schema'[f] # 0
  <2>1. schema \in [M!Files -> Nat]
    BY DEF M!MigrationTypeOK
  <2>2. CASE M!Applies(o) /\ schema[f] = 0
    <3>1. schema' = [schema EXCEPT ![f] = binary[p][f]]
      BY <2>2 DEF M!Execute, M!Content
    <3> HIDE DEF f
    <3> QED BY <1>1, <2>1, <2>2, <3>1
  <2>3. CASE ~(M!Applies(o) /\ schema[f] = 0)
    <3>1. schema' = schema
      BY <2>3 DEF M!Execute
    <3>2. o # "ok" \/ schema[f] # 0
      BY <2>3 DEF M!Applies
    <3> QED BY <2>1, <3>1, <3>2
  <2> QED BY <2>2, <2>3
<1>4. step'[p] = s /\ s \in {"record", "dead"}
  BY <1>2 DEF M!MigrationTypeOK
<1>5. M!MigrationTypeOK'
  BY <1>2, <1>3, <1>4 DEF M!MigrationTypeOK
<1>6. M!ExecutedInOrder'
  <2>1. ASSUME NEW g \in M!Files, recorded[g] # 0 PROVE schema'[g] # 0
    BY <1>3, <2>1 DEF M!ExecutedInOrder
  <2>2. ASSUME NEW g \in M!Files, schema'[g] # 0, NEW h \in M!Files, h < g PROVE recorded[h] # 0
    <3>1. CASE g # f
      BY <1>3, <2>2, <3>1 DEF M!ExecutedInOrder
    <3>2. CASE g = f
      <4>1. h \in 1..n
        BY <1>1, <2>2, <3>2, FilesAreNumbers
      <4>2. recorded[h] = binary[p][h]
        BY <2>2, <3>2, <4>1 DEF Passed
      <4> QED BY <1>1, <4>1, <4>2
    <3> QED BY <3>1, <3>2
  <2> QED BY <1>2, <2>1, <2>2 DEF M!ExecutedInOrder
<1>7. Passed(p)'
  <2> HIDE DEF s, n
  <2> QED BY <1>1, <1>2, <1>3, <1>4 DEF Passed, n, s
<1>8. ASSUME NEW q \in Processes, q # p PROVE Passed(q)'
  <2>1. step'[q] = step[q]
    BY <1>2, <1>8 DEF M!MigrationTypeOK
  <2>2. ASSUME step[q] = "record" PROVE file[q] \in M!Files
    <3>1. M!MigrationTypeOK /\ Passed(q)
      OBVIOUS
    <3>2. Len(binary[q]) \in Nat /\ \A g \in 1..Len(binary[q]) : g \in M!Files
      BY ONLY <3>1, BuildFiles
    <3>3. file[q] \in 1..Len(binary[q])
      BY ONLY <2>2, <3>1, <3>2 DEF Passed
    <3> QED BY ONLY <3>2, <3>3
  <2> HIDE DEF s, n, f
  <2> QED BY <1>2, <1>3, <2>1, <2>2 DEF Passed
<1>9. SchemaTold'
  <2> SUFFICES ASSUME NEW g \in M!Files, schema'[g] # 0
               PROVE  schema'[g] = recorded[g] \/ M!Unrecorded(g)'
    BY <1>2 DEF SchemaTold
  <2>1. CASE g = f /\ schema[f] = 0
    <3>1. schema'[f] = binary[p][f] /\ file'[p] = f /\ step'[p] \in {"record", "dead"}
      BY <1>2, <1>3, <1>4, <2>1
    <3>2. f \in DOMAIN binary'[p] /\ binary'[p][f] = schema'[f]
      BY <1>1, <1>2, <3>1, BuildFiles
    <3> QED BY <2>1, <3>1, <3>2 DEF M!Unrecorded
  <2>2. CASE g # f \/ schema[f] # 0
    <3>1. schema'[g] = schema[g]
      BY <1>3, <2>2
    <3>2. CASE schema[g] = recorded[g]
      BY <3>1, <3>2
    <3>3. CASE M!Unrecorded(g)
      <4>1. PICK q \in Processes : /\ file[q] = g /\ step[q] \in {"record", "dead"}
                                   /\ g \in DOMAIN binary[q] /\ binary[q][g] = schema[g]
        BY <3>3 DEF M!Unrecorded
      <4>2. q # p
        BY <4>1 DEF M!Execute
      <4>3. step'[q] = step[q]
        BY <1>2, <4>2 DEF M!MigrationTypeOK
      <4> QED BY <1>2, <3>1, <4>1, <4>3 DEF M!Unrecorded
    <3> QED BY <3>1, <3>2, <3>3 DEF SchemaTold
  <2> QED BY <2>1, <2>2
<1> QED BY <1>5, <1>6, <1>7, <1>8, <1>9

\* The primary key keeps a file from being recorded with a second content.
LEMMA RecordKeeps ==
    ASSUME MigrationInv, NEW p \in Processes, NEW o \in Outcomes, M!Record(p, o)
    PROVE  MigrationInv'
<1> USE DEF MigrationInv
<1> DEFINE f == file[p]
           n == Len(binary[p])
<1>1. f \in 1..n /\ n \in Nat /\ f \in M!Files /\ binary[p][f] \in Nat \ {0} /\ f \in Nat
        /\ schema[f] # 0
  BY BuildFiles DEF M!Record, Passed
<1>2. UNCHANGED <<binary, table, schema>> /\ step[p] = "record"
  BY DEF M!Record
<1>3. /\ recorded' \in [M!Files -> Nat]
      /\ \A g \in M!Files : recorded[g] # 0 => recorded'[g] = recorded[g]
      /\ \A g \in M!Files : recorded'[g] # 0 => schema[g] # 0
      /\ \E s \in {"check", "dead"}, g \in {f, f + 1} :
            /\ step' = [step EXCEPT ![p] = s] /\ file' = [file EXCEPT ![p] = g]
            /\ g = f + 1 => recorded'[f] = binary[p][f]
            /\ s = "dead" => g = f
            /\ s = "check" => g = f + 1
  <2>1. recorded \in [M!Files -> Nat] /\ file \in [Processes -> Nat]
    BY DEF M!MigrationTypeOK
  <2>2. \A g \in M!Files : recorded[g] # 0 => schema[g] # 0
    BY DEF M!ExecutedInOrder
  <2>3. UNCHANGED file => file' = [file EXCEPT ![p] = f]
    BY <2>1
  <2>4. CASE recorded[f] # 0
    <3>1. UNCHANGED <<recorded, file>> /\ step' = [step EXCEPT ![p] = "dead"]
      BY <2>4 DEF M!Record, M!Then
    <3> QED BY <1>1, <2>1, <2>2, <2>3, <3>1
  <2>5. CASE recorded[f] = 0
    <3>1. \/ recorded' = [recorded EXCEPT ![f] = binary[p][f]]
          \/ o # "ok" /\ recorded' = recorded
      BY <2>5 DEF M!Record, M!Applies, M!Content
    <3>2. \/ o = "ok" /\ step' = [step EXCEPT ![p] = "check"] /\ file' = [file EXCEPT ![p] = f + 1]
          \/ o # "ok" /\ step' = [step EXCEPT ![p] = "dead"] /\ UNCHANGED file
      BY <2>5 DEF M!Record, M!Then
    <3>3. /\ recorded' \in [M!Files -> Nat]
          /\ \A g \in M!Files : recorded[g] # 0 => recorded'[g] = recorded[g]
          /\ \A g \in M!Files : recorded'[g] # 0 => schema[g] # 0
          /\ o = "ok" => recorded'[f] = binary[p][f]
      <4> HIDE DEF f
      <4> QED BY <1>1, <2>1, <2>2, <2>5, <3>1
    <3>4. \E s \in {"check", "dead"}, g \in {f, f + 1} :
            /\ step' = [step EXCEPT ![p] = s] /\ file' = [file EXCEPT ![p] = g]
            /\ g = f + 1 => recorded'[f] = binary[p][f]
            /\ s = "dead" => g = f
            /\ s = "check" => g = f + 1
      <4> HIDE DEF f
      <4> QED BY <1>1, <2>3, <3>2, <3>3 DEF f
    <3> QED BY <3>3, <3>4
  <2> QED BY <2>4, <2>5
<1>4. PICK s \in {"check", "dead"}, g \in {f, f + 1} :
            /\ step' = [step EXCEPT ![p] = s] /\ file' = [file EXCEPT ![p] = g]
            /\ g = f + 1 => recorded'[f] = binary[p][f]
            /\ s = "dead" => g = f
            /\ s = "check" => g = f + 1
  BY <1>3
<1>5. step'[p] = s /\ file'[p] = g /\ g \in Nat
  BY <1>1, <1>4 DEF M!MigrationTypeOK
<1>6. M!MigrationTypeOK'
  BY <1>2, <1>3, <1>4, <1>5 DEF M!MigrationTypeOK
<1>7. M!ExecutedInOrder'
  BY <1>2, <1>3 DEF M!ExecutedInOrder
<1>8. ASSUME NEW q \in Processes
      PROVE  \A e \in 1..Len(binary[q]) : e < file[q] => recorded'[e] = binary[q][e]
  <2> SUFFICES ASSUME NEW e \in 1..Len(binary[q]), e < file[q] PROVE recorded'[e] = binary[q][e]
    OBVIOUS
  <2>1. recorded[e] = binary[q][e] /\ binary[q][e] # 0 /\ e \in M!Files
    BY BuildFiles DEF Passed
  <2> QED BY <1>3, <2>1
<1>9. Passed(p)'
  <2>1. g \in 1..n + 1
    BY <1>1
  <2>2. ASSUME NEW e \in 1..n, e < g PROVE recorded'[e] = binary[p][e]
    <3>1. CASE e < f
      BY <1>8, <3>1
    <3>2. CASE ~(e < f)
      <4>1. e = f /\ g = f + 1
        BY <1>1, <2>2, <3>2
      <4> QED BY <1>4, <4>1
    <3> QED BY <3>1, <3>2
  <2> HIDE DEF f, n
  <2> QED BY <1>2, <1>5, <2>1, <2>2 DEF Passed, n
<1>10. ASSUME NEW q \in Processes, q # p PROVE Passed(q)'
  <2>1. step'[q] = step[q] /\ file'[q] = file[q]
    BY <1>4, <1>10 DEF M!MigrationTypeOK
  <2> QED BY <1>2, <1>8, <2>1 DEF Passed
<1>11. SchemaTold'
  <2> HIDE DEF f, n
  <2>1. \A q \in Processes : q # p => step'[q] = step[q] /\ file'[q] = file[q]
    BY <1>4 DEF M!MigrationTypeOK
  <2>2. \/ step'[p] \in {"record", "dead"} /\ file'[p] = file[p]
        \/ recorded'[file[p]] = binary[p][file[p]]
    BY <1>4, <1>5 DEF f
  <2> QED BY <1>2, <1>3, <2>1, <2>2, ToldKept
<1> QED BY <1>6, <1>7, <1>9, <1>10, <1>11

-----------------------------------------------------------------------------
(***************************************************************************)
(* The composition: only Migrate touches the migrations' variables.        *)
(***************************************************************************)
LEMMA MigrationStutter ==
    ASSUME MigrationInv, UNCHANGED migrationVars
    PROVE  MigrationInv'
BY DEF migrationVars, MigrationInv, M!MigrationTypeOK, M!ExecutedInOrder, SchemaTold, M!Unrecorded, Passed

LEMMA MigrateKeeps == MigrationInv /\ Migrate => MigrationInv'
<1> SUFFICES ASSUME MigrationInv, Migrate PROVE MigrationInv'
  OBVIOUS
<1>1. PICK p \in Processes :
        \/ M!Begin(p)
        \/ \E o \in Outcomes : M!RunMigrations(p, o)
        \/ M!Die(p)
  BY DEF Migrate, Ends
<1>2. table \in BOOLEAN
  BY DEF MigrationInv, M!MigrationTypeOK
<1>3. CASE M!Begin(p)
  BY <1>2, <1>3, MoveKeeps DEF M!Begin
<1>4. CASE M!Die(p)
  BY <1>2, <1>4, MoveKeeps DEF M!Die
<1>5. ASSUME NEW o \in Outcomes, M!RunMigrations(p, o) PROVE MigrationInv'
  <2>1. CASE M!ensureSchemaTable(p, o)
    <3>1. table' \in BOOLEAN /\ UNCHANGED <<binary, file, recorded, schema>>
      BY <1>2, <2>1, Zenon DEF M!ensureSchemaTable, M!Applies
    <3>2. CASE o = "ok"
      BY <2>1, <3>1, <3>2, MoveKeeps DEF M!ensureSchemaTable, M!Then
    <3>3. CASE o # "ok"
      BY <2>1, <3>1, <3>3, MoveKeeps DEF M!ensureSchemaTable, M!Then
    <3> QED BY <3>2, <3>3
  <2> QED BY <1>5, <2>1, CheckKeeps, ExecuteKeeps, RecordKeeps DEF M!RunMigrations
<1> QED BY <1>1, <1>3, <1>4, <1>5

LEMMA NextMigrationInv == MigrationInv /\ [Next]_vars => MigrationInv'
<1> SUFFICES ASSUME MigrationInv, [Next]_vars PROVE MigrationInv'
  OBVIOUS
<1>1. Migrate \/ UNCHANGED migrationVars
  BY DEF Next, BeginJob, BeginStudy, Backfill, Study, vars, migrationVars
<1> QED BY <1>1, MigrateKeeps, MigrationStutter

\* Whatever processes of whatever builds run, fail or die at the same time, each file
\* is executed after all before it are recorded, and a command that goes on finds every
\* one of its files recorded with its own content and its tables as its own build makes
\* them, or as a process made them that did not get to record its own.
THEOREM SchemaAlwaysReady == Spec => []SchemaReady
<1>1. Init => MigrationInv
  BY MigrationInit DEF Init
<1>2. MigrationInv => SchemaReady
  <2> SUFFICES ASSUME MigrationInv PROVE SchemaReady
    OBVIOUS
  <2>1. ASSUME NEW p \in Processes, step[p] = "ready", NEW f \in DOMAIN binary[p]
        PROVE  /\ recorded[f] = binary[p][f]
               /\ schema[f] = binary[p][f] \/ (schema[f] # 0 /\ M!Unrecorded(f))
    <3>1. f \in 1..Len(binary[p]) /\ f \in M!Files /\ binary[p][f] # 0 /\ f < file[p]
      BY <2>1, BuildFiles, SMTT(30) DEF MigrationInv, Passed
    <3>2. recorded[f] = binary[p][f]
      BY <3>1 DEF MigrationInv, Passed
    <3> QED BY <3>1, <3>2 DEF MigrationInv, M!ExecutedInOrder, SchemaTold
  <2> QED BY <2>1 DEF SchemaReady, M!SchemaReady, MigrationInv
<1> QED BY <1>1, <1>2, NextMigrationInv, PTL DEF Spec

HIDE BatchAssumption DEF M!MigrationAssumption

-----------------------------------------------------------------------------
(***************************************************************************)
(* The job rows.                                                           *)
(***************************************************************************)
\* A function on all jobs.
OnJobs(f) == f = [k \in Jobs |-> f[k]]

\* The job rows are records, and what a process keeps is kept for every process.
JobShape ==
    /\ jobs = [k \in Jobs |-> [status |-> jobs[k].status, processed |-> jobs[k].processed]]
    /\ OnJobs(place) /\ OnJobs(totalWritten) /\ OnJobs(allCandles)
    /\ OnJobs(upserted) /\ OnJobs(blame)

\* The bars a job has loaded are labelled, and it knows it.
LabelsDone(j) ==
    Len(allCandles[j]) >= MinCandles =>
        /\ {allCandles[j][i] : i \in DOMAIN allCandles[j]} \subseteq DOMAIN labels
        /\ j \in upserted[j]

\* How far a job has come, and what its row may say there.
JobEnds(j) ==
    /\ place[j] # "ended" => jobs[j].status \notin {"completed", "failed"}
    /\ place[j] = "complete" \/ jobs[j].status = "completed" => LabelsDone(j)
    /\ jobs[j].status = "completed" => jobs[j].processed = totalWritten[j]
    /\ place[j] = "ended" /\ blame[j] = {} => jobs[j].status \in {"completed", "failed"}

JobInv == JobShape /\ \A j \in Jobs : JobEnds(j)

\* What the steps of other processes may do to a job.
LEMMA OthersKeep ==
    ASSUME NEW k \in Jobs, JobEnds(k),
           jobs'[k] = jobs[k], place'[k] = place[k], allCandles'[k] = allCandles[k],
           totalWritten'[k] = totalWritten[k], blame'[k] = blame[k],
           k \in upserted[k] /\ place[k] \in {"complete", "ended"} => k \in upserted'[k],
           DOMAIN labels \subseteq DOMAIN labels'
    PROVE  JobEnds(k)'
BY DEF JobEnds, LabelsDone

\* A changed row is still a record.
LEMMA RowsKept ==
    ASSUME JobShape, NEW j \in Jobs,
           \/ jobs' = jobs
           \/ \E s : jobs' = [jobs EXCEPT ![j].status = s]
           \/ \E n : jobs' = [jobs EXCEPT ![j].processed = n]
           \/ \E s, n : jobs' = [jobs EXCEPT ![j] = [status |-> s, processed |-> n]]
    PROVE  jobs' = [k \in Jobs |-> [status |-> jobs'[k].status, processed |-> jobs'[k].processed]]
<1>1. /\ DOMAIN jobs = Jobs /\ jobs = [k \in Jobs |-> jobs[k]]
      /\ \A k \in Jobs : jobs[k] = [status |-> jobs[k].status, processed |-> jobs[k].processed]
  BY DEF JobShape
<1>2. ASSUME NEW r, jobs' = [jobs EXCEPT ![j] = r],
             r = [status |-> r.status, processed |-> r.processed]
      PROVE  jobs' = [k \in Jobs |-> [status |-> jobs'[k].status, processed |-> jobs'[k].processed]]
  BY <1>1, <1>2
<1>3. ASSUME NEW s, jobs' = [jobs EXCEPT ![j].status = s]
      PROVE  jobs' = [k \in Jobs |-> [status |-> jobs'[k].status, processed |-> jobs'[k].processed]]
  <2>0. [jobs[j] EXCEPT !.status = s] = [status |-> s, processed |-> jobs[j].processed]
    BY <1>1
  <2>1. jobs' = [jobs EXCEPT ![j] = [status |-> s, processed |-> jobs[j].processed]]
    BY <1>3, <2>0
  <2> QED BY <1>2, <2>1
<1>4. ASSUME NEW n, jobs' = [jobs EXCEPT ![j].processed = n]
      PROVE  jobs' = [k \in Jobs |-> [status |-> jobs'[k].status, processed |-> jobs'[k].processed]]
  <2>0. [jobs[j] EXCEPT !.processed = n] = [status |-> jobs[j].status, processed |-> n]
    BY <1>1
  <2>1. jobs' = [jobs EXCEPT ![j] = [status |-> jobs[j].status, processed |-> n]]
    BY <1>4, <2>0
  <2> QED BY <1>2, <2>1
<1>5. ASSUME NEW s, NEW n, jobs' = [jobs EXCEPT ![j] = [status |-> s, processed |-> n]]
      PROVE  jobs' = [k \in Jobs |-> [status |-> jobs'[k].status, processed |-> jobs'[k].processed]]
  BY <1>2, <1>5
<1>6. CASE jobs' = jobs
  BY <1>6 DEF JobShape
<1> QED BY <1>3, <1>4, <1>5, <1>6

\* Creating and starting the job row.
LEMMA BeginRow ==
    ASSUME JobInv, NEW j \in Jobs, NEW o \in Outcomes, J!Create(j, o) \/ J!Start(j, o)
    PROVE  JobInv'
<1>1. /\ place[j] \in {"create", "start"}
      /\ UNCHANGED <<labels, allCandles, totalWritten, upserted>>
      /\ \/ jobs' = jobs
         \/ \E s \in {"pending", "running"} : jobs' = [jobs EXCEPT ![j].status = s]
      /\ \E p \in {"start", "load", "ended"} : place' = [place EXCEPT ![j] = p]
      /\ place'[j] = "ended" => blame'[j] # {}
      /\ blame' = blame \/ blame' = [blame EXCEPT ![j] = @ \cup {"row"}]
  <2>1. /\ place[j] \in {"create", "start"}
        /\ UNCHANGED <<labels, allCandles, totalWritten, upserted>>
        /\ \E s \in {"pending", "running"} :
              jobs' = IF J!applied(o) THEN [jobs EXCEPT ![j].status = s] ELSE jobs
        /\ \E p \in {"start", "load"} :
              place' = [place EXCEPT ![j] = IF o = "ok" THEN p ELSE "ended"]
        /\ blame' = IF o = "ok" THEN blame ELSE [blame EXCEPT ![j] = @ \cup {"row"}]
    BY DEF J!Create, J!Start, J!Status, J!Goto, J!Blamed, J!tables, J!local
  <2>2. OnJobs(place) /\ OnJobs(blame)
    BY DEF JobInv, JobShape
  <2>3. CASE o = "ok"
    BY <2>1, <2>2, <2>3 DEF J!applied, OnJobs
  <2>4. CASE o # "ok"
    <3>1. place' = [place EXCEPT ![j] = "ended"] /\ blame' = [blame EXCEPT ![j] = @ \cup {"row"}]
      BY <2>1, <2>4
    <3>2. blame'[j] # {}
      BY <2>2, <3>1 DEF OnJobs
    <3> QED BY <2>1, <3>1, <3>2
  <2> QED BY <2>3, <2>4
<1>2. JobShape'
  <2>1. jobs' = [k \in Jobs |-> [status |-> jobs'[k].status, processed |-> jobs'[k].processed]]
    BY <1>1, RowsKept DEF JobInv
  <2> QED BY <1>1, <2>1 DEF JobInv, JobShape, OnJobs
<1>3. ASSUME NEW k \in Jobs, k # j PROVE JobEnds(k)'
  BY <1>1, <1>3, OthersKeep DEF JobInv, JobShape, OnJobs
<1>4. JobEnds(j)'
  BY <1>1 DEF JobInv, JobShape, OnJobs, JobEnds
<1> QED BY <1>2, <1>3, <1>4 DEF JobInv

\* A chunk loaded, written and noted in the row.
LEMMA ChunkStep ==
    ASSUME JobInv, NEW j \in Jobs, NEW o \in Outcomes,
           J!Load(j, o) \/ J!Upsert(j, o) \/ J!Progress(j, o)
    PROVE  JobInv'
<1>1. /\ place[j] \in {"load", "upsert", "progress"}
      /\ UNCHANGED <<labels, blame>>
      /\ \/ jobs' = jobs
         \/ \E n : jobs' = [jobs EXCEPT ![j].processed = n]
      /\ \E p \in {"load", "labels", "upsert", "progress", "fail"} :
            place' = [place EXCEPT ![j] = p]
      /\ allCandles' = allCandles \/ \E c : allCandles' = [allCandles EXCEPT ![j] = c]
      /\ totalWritten' = totalWritten \/ \E n : totalWritten' = [totalWritten EXCEPT ![j] = n]
      /\ upserted' = upserted \/ upserted' = [upserted EXCEPT ![j] = {}]
  <2>1. CASE J!Load(j, o)
    BY <2>1 DEF J!Load, J!Goto, J!tables
  <2>2. CASE J!Upsert(j, o)
    BY <2>2 DEF J!Upsert, J!Goto, J!observed
  <2>3. CASE J!Progress(j, o)
    BY <2>3 DEF J!Progress, J!Goto, J!tables, J!observed
  <2> QED BY <2>1, <2>2, <2>3
<1>2. JobShape'
  <2>1. jobs' = [k \in Jobs |-> [status |-> jobs'[k].status, processed |-> jobs'[k].processed]]
    BY <1>1, RowsKept DEF JobInv
  <2> QED BY <1>1, <2>1 DEF JobInv, JobShape, OnJobs
<1>3. ASSUME NEW k \in Jobs, k # j PROVE JobEnds(k)'
  BY <1>1, <1>3, OthersKeep DEF JobInv, JobShape, OnJobs
<1>4. JobEnds(j)'
  <2>1. place'[j] \notin {"complete", "ended"}
    BY <1>1 DEF JobInv, JobShape, OnJobs
  <2>2. jobs[j].status \notin {"completed", "failed"}
    BY <1>1 DEF JobInv, JobEnds
  <2>3. jobs'[j].status = jobs[j].status
    <3>1. DOMAIN jobs = Jobs /\ jobs[j] = [status |-> jobs[j].status, processed |-> jobs[j].processed]
      BY DEF JobInv, JobShape
    <3>2. ASSUME NEW n, jobs' = [jobs EXCEPT ![j].processed = n] PROVE jobs'[j].status = jobs[j].status
      BY <3>1, <3>2
    <3> QED BY <1>1, <3>2
  <2> QED BY <2>1, <2>2, <2>3 DEF JobEnds
<1> QED BY <1>2, <1>3, <1>4 DEF JobInv

\* The labels of everything loaded.
LEMMA LabelStep ==
    ASSUME JobInv, NEW j \in Jobs, NEW o \in Outcomes, J!Labels(j, o)
    PROVE  JobInv'
<1>1. /\ place[j] = "labels" /\ UNCHANGED <<jobs, allCandles, totalWritten, blame>>
      /\ \E p \in {"complete", "fail"} : place' = [place EXCEPT ![j] = p]
      /\ upserted' = upserted \/ upserted' = [k \in Jobs |-> upserted[k] \cup {j}]
  BY DEF J!Labels, J!Goto, J!local
<1>2. /\ DOMAIN labels \subseteq DOMAIN labels'
      /\ place'[j] = "complete" => LabelsDone(j)'
  <2>1. CASE Len(allCandles[j]) >= MinCandles /\ J!applied(o)
    <3>1. DOMAIN labels' = DOMAIN labels \cup {allCandles[j][i] : i \in DOMAIN allCandles[j]}
      BY <2>1 DEF J!Labels, J!UpsertLabels
    <3>2. upserted' = [k \in Jobs |-> upserted[k] \cup {j}]
      BY <2>1 DEF J!Labels
    <3> QED BY <1>1, <3>1, <3>2 DEF LabelsDone
  <2>2. CASE Len(allCandles[j]) >= MinCandles /\ ~J!applied(o)
    <3>1. labels' = labels /\ place' = [place EXCEPT ![j] = "fail"]
      BY <2>2 DEF J!Labels, J!applied, J!Goto
    <3> QED BY <3>1 DEF JobInv, JobShape, OnJobs
  <2>3. CASE ~(Len(allCandles[j]) >= MinCandles)
    BY <1>1, <2>3 DEF J!Labels, LabelsDone
  <2> QED BY <2>1, <2>2, <2>3
<1>3. JobShape'
  BY <1>1 DEF JobInv, JobShape, OnJobs
<1>4. ASSUME NEW k \in Jobs, k # j PROVE JobEnds(k)'
  BY <1>1, <1>2, <1>4, OthersKeep DEF JobInv, JobShape, OnJobs
<1>5. JobEnds(j)'
  BY <1>1, <1>2 DEF JobInv, JobShape, OnJobs, JobEnds
<1> QED BY <1>3, <1>4, <1>5 DEF JobInv

\* The row's end, and the process's.
LEMMA EndStep ==
    ASSUME JobInv, NEW j \in Jobs, NEW o \in Outcomes,
           J!Fail(j, o) \/ J!Complete(j, o) \/ J!Kill(j)
    PROVE  JobInv'
<1>1. /\ UNCHANGED <<labels, allCandles, totalWritten, upserted>>
      /\ place' = [place EXCEPT ![j] = "ended"] /\ place[j] # "ended"
      /\ \/ jobs' = jobs /\ blame'[j] # {}
         \/ place[j] = "fail" /\ jobs' = [jobs EXCEPT ![j].status = "failed"]
         \/ /\ place[j] = "complete"
            /\ jobs' = [jobs EXCEPT ![j] = [status |-> "completed", processed |-> totalWritten[j]]]
      /\ \/ blame' = blame
         \/ \E w : blame' = [blame EXCEPT ![j] = @ \cup {w}]
  <2>1. CASE J!Fail(j, o)
    BY <2>1 DEF J!Fail, J!Status, J!Goto, J!Blamed, J!applied, J!tables, J!local, JobInv, JobShape, OnJobs
  <2>2. CASE J!Complete(j, o)
    BY <2>2 DEF J!Complete, J!Goto, J!Blamed, J!applied, J!tables, J!local, JobInv, JobShape, OnJobs
  <2>3. CASE J!Kill(j)
    BY <2>3 DEF J!Kill, J!tables, J!local, JobInv, JobShape, OnJobs
  <2> QED BY <2>1, <2>2, <2>3
<1>2. JobShape'
  <2>1. jobs' = [k \in Jobs |-> [status |-> jobs'[k].status, processed |-> jobs'[k].processed]]
    BY <1>1, RowsKept DEF JobInv
  <2> QED BY <1>1, <2>1 DEF JobInv, JobShape, OnJobs
<1>3. ASSUME NEW k \in Jobs, k # j PROVE JobEnds(k)'
  BY <1>1, <1>3, OthersKeep DEF JobInv, JobShape, OnJobs
<1>4. JobEnds(j)'
  BY <1>1 DEF JobInv, JobShape, OnJobs, JobEnds, LabelsDone
<1> QED BY <1>2, <1>3, <1>4 DEF JobInv

\* No job has begun.
LEMMA JobInit == J!jobInit => JobInv
<1> SUFFICES ASSUME J!jobInit PROVE JobInv
  OBVIOUS
<1>1. JobShape
  BY DEF J!jobInit, J!NoJob, JobShape, OnJobs
<1>2. ASSUME NEW j \in Jobs PROVE JobEnds(j)
  BY DEF J!jobInit, J!NoJob, JobEnds
<1> QED BY <1>1, <1>2 DEF JobInv

\* Each step of any process keeps what the job rows tell.
LEMMA JobStep == ASSUME JobInv, [Next]_vars PROVE JobInv'
<1>1. ASSUME UNCHANGED jobVars PROVE JobInv'
  BY <1>1 DEF jobVars, JobInv, JobShape, OnJobs, JobEnds, LabelsDone
<1>2. CASE Migrate
  BY <1>1, <1>2 DEF Migrate
<1>3. ASSUME NEW j \in Jobs, BeginJob(j) PROVE JobInv'
  <2>1. /\ UNCHANGED <<jobs, labels, allCandles, totalWritten, upserted, blame>>
        /\ place[j] = "ready" /\ place' = [place EXCEPT ![j] = "create"]
    BY <1>3 DEF BeginJob
  <2>2. JobShape'
    BY <2>1 DEF JobInv, JobShape, OnJobs
  <2>3. ASSUME NEW k \in Jobs, k # j PROVE JobEnds(k)'
    BY <2>1, <2>3, OthersKeep DEF JobInv, JobShape, OnJobs
  <2>4. JobEnds(j)'
    BY <2>1 DEF JobInv, JobShape, OnJobs, JobEnds
  <2> QED BY <2>2, <2>3, <2>4 DEF JobInv
<1>4. ASSUME NEW s \in Studies, BeginStudy(s) PROVE JobInv'
  BY <1>1, <1>4 DEF BeginStudy
<1>5. CASE Backfill
  <2>1. CASE J!CandleStored
    BY <2>1 DEF J!CandleStored, J!local, J!observed, JobInv, JobShape, OnJobs, JobEnds, LabelsDone
  <2>2. ASSUME NEW j \in Jobs, NEW o \in Ends, J!processPair(j, o) PROVE JobInv'
    <3>1. o \in Outcomes
      BY BatchAssumption DEF Ends, J!JobAssumption
    <3> QED BY <2>2, <3>1, BeginRow, ChunkStep, LabelStep, EndStep DEF J!processPair
  <2>3. ASSUME NEW j \in Jobs, J!Kill(j) PROVE JobInv'
    <3>1. "ok" \in Outcomes
      BY BatchAssumption DEF J!JobAssumption
    <3> QED BY <2>3, <3>1, EndStep
  <2> QED BY <1>5, <2>1, <2>2, <2>3 DEF Backfill
<1>6. CASE Study
  BY <1>1, <1>6 DEF Study
<1>7. CASE UNCHANGED vars
  BY <1>1, <1>7 DEF vars
<1> QED BY <1>2, <1>3, <1>4, <1>5, <1>6, <1>7 DEF Next

\* What the job rows tell follows.
LEMMA JobTells == JobInv => J!RowTellsEnd
BY DEF JobInv, JobEnds, LabelsDone, J!RowTellsEnd

-----------------------------------------------------------------------------
(***************************************************************************)
(* The data a study reads.                                                 *)
(***************************************************************************)
\* What a chunk has in common with every finite sequence.
Finite(c) == \E T : c \in Seq(T)

\* The tables a study joins are finite, whatever was loaded.
DataInv ==
    /\ candles \subseteq J!Bars
    /\ IsFiniteSet(DOMAIN features) /\ IsFiniteSet(DOMAIN labels)
    /\ OnJobs(chunk) /\ OnJobs(allCandles)
    /\ \A j \in Jobs : Finite(chunk[j]) /\ Finite(allCandles[j])

\* The elements of a sequence are finitely many.
LEMMA ElementsFinite ==
    ASSUME NEW c, Finite(c), NEW D, D \subseteq DOMAIN c
    PROVE  IsFiniteSet({c[i] : i \in D})
<1>1. PICK T : c \in Seq(T)
  BY DEF Finite
<1>2. Len(c) \in Nat /\ DOMAIN c = 1..Len(c)
  BY <1>1
<1>3. IsFiniteSet(D)
  <2>1. IsFiniteSet(1..Len(c)) /\ D \in SUBSET (1..Len(c))
    BY <1>2, FS_Interval
  <2> QED BY <2>1, FS_Subset
<1> DEFINE f == [i \in D |-> c[i]]
           E1 == {c[i] : i \in D}
<1>4. f \in Surjection(D, E1)
  BY DEF Surjection
<1> HIDE DEF f, E1
<1>5. IsFiniteSet(E1)
  BY <1>3, <1>4, FS_Surjection
<1> QED BY <1>5 DEF E1

\* The operator of FiniteSets an instance brings in is that of this module.
LEMMA OneCardinality ==
    /\ \A S : J!Cardinality(S) = Cardinality(S)
    /\ \A S : E!Cardinality(S) = Cardinality(S)
BY DEF J!Cardinality, E!Cardinality, Cardinality

\* Finitely many bars in the order of time are a sequence.
LEMMA AscendingFinite == ASSUME NEW S, IsFiniteSet(S) PROVE Finite(J!Ascending(S))
<1> DEFINE k == Cardinality(S)
           f == [i \in 1..k |-> J!Nth(S, i)]
           T == {f[i] : i \in 1..k}
<1>1. k \in Nat
  BY FS_CardinalityType
<1>2. J!Ascending(S) = f
  BY OneCardinality DEF J!Ascending
<1>3. f \in [1..k -> T]
  <2> HIDE DEF k
  <2> QED OBVIOUS
<1> HIDE DEF f, k, T
<1>4. f \in Seq(T)
  BY <1>1, <1>3
<1> QED BY <1>2, <1>4 DEF Finite

\* A loaded chunk is a sequence.
LEMMA LoadedFinite == ASSUME DataInv, NEW a, NEW n PROVE Finite(J!LoadCandlesAfter(a, n))
<1> DEFINE later == {b \in candles : b > a}
           S == {b \in later : Cardinality({c \in later : c <= b}) <= n}
<1>1. IsFiniteSet(S)
  <2>1. MaxBar \in Nat
    BY BatchAssumption DEF J!JobAssumption
  <2>2. IsFiniteSet(J!Bars)
    BY <2>1, FS_Interval DEF J!Bars
  <2>3. S \in SUBSET J!Bars
    BY DEF DataInv
  <2> HIDE DEF S
  <2> QED BY <2>2, <2>3, FS_Subset
<1>2. J!LoadCandlesAfter(a, n) = J!Ascending(S)
  BY OneCardinality DEF J!LoadCandlesAfter
<1> HIDE DEF S
<1> QED BY <1>1, <1>2, AscendingFinite

\* Two finite sequences make a finite one.
LEMMA ConcatFinite == ASSUME NEW a, NEW b, Finite(a), Finite(b) PROVE Finite(a \o b)
<1>1. PICK S : a \in Seq(S)
  BY DEF Finite
<1>2. PICK T : b \in Seq(T)
  BY DEF Finite
<1> DEFINE U == S \cup T
<1>3. a \in Seq(U) /\ b \in Seq(U)
  <2>1. Len(a) \in Nat /\ a \in [1..Len(a) -> S] /\ Len(b) \in Nat /\ b \in [1..Len(b) -> T]
    BY <1>1, <1>2, LenProperties
  <2>2. a \in [1..Len(a) -> U] /\ b \in [1..Len(b) -> U]
    BY <2>1
  <2> HIDE DEF U
  <2> QED BY <2>1, <2>2
<1>4. a \o b \in Seq(U)
  <2> HIDE DEF U
  <2> QED BY <1>3, ConcatProperties
<1> QED BY <1>4 DEF Finite

\* The tables start empty.
LEMMA DataInit == J!jobInit => DataInv
<1> SUFFICES ASSUME J!jobInit PROVE DataInv
  OBVIOUS
<1>1. Finite(<< >>)
  <2>1. << >> \in Seq(Jobs)
    OBVIOUS
  <2> QED BY <2>1 DEF Finite
<1>2. DOMAIN << >> = {}
  OBVIOUS
<1>3. candles \subseteq J!Bars
  BY BatchAssumption DEF J!jobInit, J!JobAssumption, J!Bars
<1> QED BY <1>1, <1>2, <1>3, FS_EmptySet DEF J!jobInit, DataInv, OnJobs

\* Feature rows and labels are upserted for finitely many bars.
LEMMA DataStep == ASSUME DataInv, [Next]_vars
                  PROVE  /\ DataInv'
                         /\ DOMAIN features \subseteq DOMAIN features'
                         /\ DOMAIN labels \subseteq DOMAIN labels'
<1> DEFINE Goal == /\ DataInv'
                   /\ DOMAIN features \subseteq DOMAIN features'
                   /\ DOMAIN labels \subseteq DOMAIN labels'
<1>1. ASSUME UNCHANGED <<features, labels, chunk, allCandles>>, candles' \subseteq J!Bars PROVE Goal
  BY <1>1 DEF DataInv, OnJobs
<1>2. candles \subseteq J!Bars
  BY DEF DataInv
<1>3. CASE UNCHANGED jobVars
  BY <1>1, <1>2, <1>3 DEF jobVars
<1>4. ASSUME NEW j \in Jobs, BeginJob(j) PROVE Goal
  BY <1>1, <1>2, <1>4 DEF BeginJob
<1>5. CASE Backfill
  <2>1. CASE J!CandleStored
    BY <1>1, <1>2, <2>1 DEF J!CandleStored, J!local
  <2>2. ASSUME NEW j \in Jobs, J!Kill(j) PROVE Goal
    BY <1>1, <1>2, <2>2 DEF J!Kill, J!tables, J!local
  <2>3. ASSUME NEW j \in Jobs, NEW o, J!Load(j, o) PROVE Goal
    <3>1. Finite(J!LoadCandlesAfter(lastTime[j], ChunkSize))
      BY LoadedFinite
    <3> DEFINE c == J!LoadCandlesAfter(lastTime[j], ChunkSize)
    <3>2. /\ UNCHANGED <<candles, features, labels>>
          /\ \/ UNCHANGED <<chunk, allCandles>>
             \/ /\ chunk' = [chunk EXCEPT ![j] = c]
                /\ allCandles' = [allCandles EXCEPT ![j] = @ \o c]
      BY <2>3 DEF J!Load, J!tables
    <3>3. Finite(allCandles[j] \o c)
      <4> HIDE DEF c
      <4> QED BY <3>1, ConcatFinite DEF DataInv, c
    <3>4. CASE UNCHANGED <<chunk, allCandles>>
      BY <1>1, <1>2, <3>2, <3>4
    <3>5. CASE /\ chunk' = [chunk EXCEPT ![j] = c]
               /\ allCandles' = [allCandles EXCEPT ![j] = @ \o c]
      <4> HIDE DEF c
      <4> QED BY <3>1, <3>2, <3>3, <3>5 DEF DataInv, OnJobs, c
    <3> QED BY <3>2, <3>4, <3>5
  <2>4. ASSUME NEW j \in Jobs, NEW o, J!Upsert(j, o) PROVE Goal
    <3>1. /\ UNCHANGED <<candles, labels, chunk, allCandles>>
          /\ features' = features \/ features' = J!UpsertFeatures(chunk[j])
      BY <2>4 DEF J!Upsert
    <3>2. CASE features' = features
      BY <1>1, <1>2, <3>1, <3>2
    <3>3. CASE features' = J!UpsertFeatures(chunk[j])
      <4> DEFINE c == chunk[j]
                 V == {c[k] : k \in J!Valid(c)}
      <4>1. IsFiniteSet(V)
        <5>1. Finite(c)
          BY DEF DataInv
        <5>2. J!Valid(c) \subseteq DOMAIN c
          <6>1. PICK T : c \in Seq(T)
            BY <5>1 DEF Finite
          <6>2. DOMAIN c = 1..Len(c) /\ Len(c) \in Nat /\ WarmupBars \in Nat
            BY <6>1, BatchAssumption DEF J!JobAssumption
          <6> QED BY <6>2 DEF J!Valid
        <5> HIDE DEF c
        <5> QED BY <5>1, <5>2, ElementsFinite
      <4>2. DOMAIN features' = DOMAIN features \cup V
        BY <3>3 DEF J!UpsertFeatures
      <4> HIDE DEF V
      <4>3. IsFiniteSet(DOMAIN features')
        BY <4>1, <4>2, FS_Union DEF DataInv
      <4> QED BY <3>1, <4>2, <4>3 DEF DataInv, OnJobs
    <3> QED BY <3>1, <3>2, <3>3
  <2>5. ASSUME NEW j \in Jobs, NEW o, J!Labels(j, o) PROVE Goal
    <3>1. /\ UNCHANGED <<candles, features, chunk, allCandles>>
          /\ labels' = labels \/ labels' = J!UpsertLabels(allCandles[j])
      BY <2>5 DEF J!Labels, J!local
    <3>2. CASE labels' = labels
      BY <1>1, <1>2, <3>1, <3>2
    <3>3. CASE labels' = J!UpsertLabels(allCandles[j])
      <4> DEFINE c == allCandles[j]
                 V == {c[k] : k \in DOMAIN c}
      <4>1. IsFiniteSet(V)
        <5>1. Finite(c)
          BY DEF DataInv
        <5> HIDE DEF c
        <5> QED BY <5>1, ElementsFinite
      <4>2. DOMAIN labels' = DOMAIN labels \cup V
        BY <3>3 DEF J!UpsertLabels
      <4> HIDE DEF V
      <4>3. IsFiniteSet(DOMAIN labels')
        BY <4>1, <4>2, FS_Union DEF DataInv
      <4> QED BY <3>1, <4>2, <4>3 DEF DataInv, OnJobs
    <3> QED BY <3>1, <3>2, <3>3
  <2>6. ASSUME NEW j \in Jobs, NEW o,
               J!Create(j, o) \/ J!Start(j, o) \/ J!Progress(j, o) \/ J!Fail(j, o) \/ J!Complete(j, o)
        PROVE  Goal
    <3>1. UNCHANGED <<candles, features, labels, chunk, allCandles>>
      BY <2>6 DEF J!Create, J!Start, J!Progress, J!Fail, J!Complete, J!tables, J!local
    <3> QED BY <1>1, <1>2, <3>1
  <2> QED BY <1>5, <2>1, <2>2, <2>3, <2>4, <2>5, <2>6 DEF Backfill, J!processPair
<1>6. CASE UNCHANGED vars
  BY <1>3, <1>6 DEF vars
<1> QED BY <1>3, <1>4, <1>5, <1>6 DEF Next, Migrate, Study, BeginStudy

-----------------------------------------------------------------------------
(***************************************************************************)
(* The studies: every result is backed, and a completed run has them all.  *)
(***************************************************************************)
\* A function on all studies.
OnStudies(f) == f = [k \in Studies |-> f[k]]

\* What a study keeps is kept for every study, its results in finite sequences.
StudyShape ==
    /\ OnStudies(runs) /\ OnStudies(results) /\ OnStudies(at) /\ OnStudies(next)
    /\ OnStudies(allResults) /\ OnStudies(lapse)
    /\ \A s \in Studies : next[s] \in Nat \ {0} /\ Finite(allResults[s]) /\ Finite(results[s])

\* The rows a query of a column that has no NULL would join now.
Rows == DOMAIN features \cap DOMAIN labels
RowsNow == Cardinality(Rows)

\* No result of a horizon without its correlation.
Backed(all) ==
    \A k \in DOMAIN all : all[k].metric \in {"quantile", "rolling", "regime"} =>
        \E l \in 1..k : all[l].metric = "corr" /\ all[l].of = all[k].of

\* The correlations of the mandatory columns.
MandatoryCorr(all) ==
    {k \in DOMAIN all : all[k].metric = "corr" /\ all[k].of[1] \in E!MandatoryColumns}

\* None of them of fewer rows than one before.
Growing(all) == \A k, l \in MandatoryCorr(all) : k < l => all[k].samples <= all[l].samples

\* None of more rows than there are.
Within(all) == \A k \in DOMAIN all : all[k].samples \in 0..RowsNow

Good(all) == Backed(all) /\ Growing(all) /\ Within(all)

\* A score for every feature.
Scored(all) ==
    \A i \in DOMAIN Names : \E k \in DOMAIN all : all[k] = E!Overall("score", Names[i])

\* The results inserted are the first ones computed.
Saved(s) ==
    /\ Scored(allResults[s])
    /\ Len(results[s]) = next[s] - 1 /\ next[s] <= Len(allResults[s]) + 1
    /\ \A k \in 1..Len(results[s]) : results[s][k] = allResults[s][k]

\* How far a study has come, and what its row and its results may be there.
StudyEnds(s) ==
    /\ Good(allResults[s])
    /\ at[s] \notin {"save", "exit"} => results[s] = << >>
    /\ at[s] # "exit" => runs[s] \notin {"completed", "failed"}
    /\ at[s] = "save" => Saved(s)
    /\ runs[s] = "completed" => results[s] = allResults[s] /\ Scored(allResults[s])
    /\ runs[s] = "failed" => results[s] = << >>
    /\ at[s] = "exit" /\ ~lapse[s] => runs[s] \in {"completed", "failed"}

StudyInv == StudyShape /\ \A s \in Studies : StudyEnds(s)

\* What concatenating two sequences gives.
LEMMA ConcatParts ==
    ASSUME NEW a, NEW b, Finite(a), Finite(b)
    PROVE  /\ Finite(a \o b) /\ Len(a) \in Nat /\ Len(b) \in Nat
           /\ DOMAIN a = 1..Len(a) /\ DOMAIN b = 1..Len(b)
           /\ DOMAIN (a \o b) = 1..Len(a) + Len(b)
           /\ \A i \in 1..Len(a) : (a \o b)[i] = a[i]
           /\ \A i \in 1..Len(b) : (a \o b)[Len(a) + i] = b[i]
<1>1. PICK S : a \in Seq(S)
  BY DEF Finite
<1>2. PICK T : b \in Seq(T)
  BY DEF Finite
<1> DEFINE U == S \cup T
<1>3. Len(a) \in Nat /\ a \in [1..Len(a) -> S] /\ Len(b) \in Nat /\ b \in [1..Len(b) -> T]
  BY <1>1, <1>2, LenProperties
<1>4. a \in Seq(U) /\ b \in Seq(U)
  <2>1. a \in [1..Len(a) -> U] /\ b \in [1..Len(b) -> U]
    BY <1>3
  <2> HIDE DEF U
  <2> QED BY <1>3, <2>1
<1> HIDE DEF U
<1>5. /\ a \o b \in Seq(U) /\ Len(a \o b) = Len(a) + Len(b)
      /\ \A i \in 1..Len(a) + Len(b) : (a \o b)[i] = IF i <= Len(a) THEN a[i] ELSE b[i - Len(a)]
  BY <1>4, ConcatProperties
<1>6. DOMAIN (a \o b) = 1..Len(a \o b)
  BY <1>5, LenProperties
<1>7. \A i \in 1..Len(b) : (a \o b)[Len(a) + i] = b[i]
  <2> TAKE i \in 1..Len(b)
  <2>1. Len(a) + i \in 1..Len(a) + Len(b) /\ ~(Len(a) + i <= Len(a)) /\ Len(a) + i - Len(a) = i
    BY <1>3
  <2> QED BY <1>5, <2>1
<1>8. \A i \in 1..Len(a) : (a \o b)[i] = a[i]
  BY <1>3, <1>5
<1> QED BY <1>3, <1>5, <1>6, <1>7, <1>8 DEF Finite

\* The sequences of no and of one element.
LEMMA ShortFinite == Finite(<< >>) /\ \A x : Finite(<<x>>) /\ DOMAIN <<x>> = {1} /\ <<x>>[1] = x
<1>1. Finite(<< >>)
  <2>1. << >> \in Seq({})
    OBVIOUS
  <2> QED BY <2>1 DEF Finite
<1>2. ASSUME NEW x PROVE Finite(<<x>>)
  <2>1. <<x>> \in Seq({x})
    OBVIOUS
  <2> QED BY <2>1 DEF Finite
<1>3. ASSUME NEW x PROVE DOMAIN <<x>> = {1} /\ <<x>>[1] = x
  OBVIOUS
<1> QED BY <1>1, <1>2, <1>3

\* A function of each element of a finite sequence.
LEMMA MappedFinite ==
    ASSUME NEW c, Finite(c), NEW f, DOMAIN f = DOMAIN c, f = [k \in DOMAIN c |-> f[k]]
    PROVE  Finite(f)
<1>1. PICK T : c \in Seq(T)
  BY DEF Finite
<1>2. Len(c) \in Nat /\ DOMAIN c = 1..Len(c)
  BY <1>1
<1> DEFINE V == {f[k] : k \in DOMAIN c}
<1>3. f \in [1..Len(c) -> V]
  BY <1>2
<1> HIDE DEF V
<1>4. f \in Seq(V)
  BY <1>2, <1>3
<1> QED BY <1>4 DEF Finite

\* The rows a query joins are a number.
LEMMA RowsNumber == ASSUME DataInv PROVE IsFiniteSet(Rows) /\ RowsNow \in Nat
<1>1. IsFiniteSet(Rows)
  BY FS_Intersection DEF DataInv, Rows
<1> QED BY <1>1, FS_CardinalityType DEF RowsNow

\* What one analysis adds: its correlation first, of the rows of now if the column is
\* a mandatory one.
Part(b) ==
    /\ Finite(b)
    /\ \A k \in DOMAIN b :
          /\ b[k].samples \in 0..RowsNow
          /\ b[k].metric = "corr" /\ b[k].of[1] \in E!MandatoryColumns => b[k].samples = RowsNow
          /\ b[k].metric \in {"quantile", "rolling", "regime"} =>
                b[1].metric = "corr" /\ b[1].of = b[k].of

\* What was good stays so with what an analysis adds.
LEMMA GoodConcat ==
    ASSUME DataInv, NEW a, NEW b, Finite(a), Good(a), Part(b)
    PROVE  Finite(a \o b) /\ Good(a \o b)
<1> DEFINE c == a \o b
           n == Len(a)
           m == Len(b)
<1>1. /\ Finite(c) /\ n \in Nat /\ m \in Nat
      /\ DOMAIN a = 1..n /\ DOMAIN b = 1..m /\ DOMAIN c = 1..n + m
      /\ \A i \in 1..n : c[i] = a[i]
      /\ \A i \in 1..m : c[n + i] = b[i]
  BY ConcatParts DEF Part
<1>2. RowsNow \in Nat
  BY RowsNumber
<1> HIDE DEF c, n, m
<1>3. ASSUME NEW k \in DOMAIN c
      PROVE  \/ k \in 1..n /\ c[k] = a[k]
             \/ \E i \in 1..m : k = n + i /\ c[k] = b[i]
  <2>1. CASE k <= n
    BY <1>1, <2>1
  <2>2. CASE k > n
    <3>1. k - n \in 1..m /\ k = n + (k - n)
      BY <1>1, <2>2
    <3> QED BY <1>1, <3>1
  <2> QED BY <1>1, <2>1, <2>2
<1>4. Within(c)
  BY <1>1, <1>3 DEF Good, Within, Part
<1>5. Backed(c)
  <2> SUFFICES ASSUME NEW k \in DOMAIN c, c[k].metric \in {"quantile", "rolling", "regime"}
               PROVE  \E l \in 1..k : c[l].metric = "corr" /\ c[l].of = c[k].of
    BY DEF Backed
  <2>1. CASE k \in 1..n /\ c[k] = a[k]
    <3>1. PICK l \in 1..k : a[l].metric = "corr" /\ a[l].of = a[k].of
      BY <1>1, <2>1 DEF Good, Backed
    <3>2. l \in 1..n
      BY <1>1, <2>1
    <3> QED BY <1>1, <2>1, <3>1, <3>2
  <2>2. ASSUME NEW i \in 1..m, k = n + i, c[k] = b[i]
        PROVE  \E l \in 1..k : c[l].metric = "corr" /\ c[l].of = c[k].of
    <3>1. b[1].metric = "corr" /\ b[1].of = b[i].of
      BY <1>1, <2>2 DEF Part
    <3>2. 1 \in 1..m /\ n + 1 \in 1..k
      BY <1>1, <2>2
    <3>3. c[n + 1] = b[1]
      BY <1>1, <3>2
    <3> QED BY <2>2, <3>1, <3>2, <3>3
  <2> QED BY <1>3, <2>1, <2>2
<1>6. Growing(c)
  <2> SUFFICES ASSUME NEW k \in MandatoryCorr(c), NEW l \in MandatoryCorr(c), k < l
               PROVE  c[k].samples <= c[l].samples
    BY DEF Growing
  <2> USE DEF MandatoryCorr
  <2>1. CASE l \in 1..n /\ c[l] = a[l]
    <3>1. k \in 1..n /\ c[k] = a[k]
      BY <1>1, <2>1
    <3> QED BY <1>1, <2>1, <3>1 DEF Good, Growing
  <2>2. ASSUME NEW i \in 1..m, l = n + i, c[l] = b[i] PROVE c[k].samples <= c[l].samples
    <3>1. c[l].samples = RowsNow
      BY <1>1, <2>2 DEF Part
    <3>2. c[k].samples \in 0..RowsNow
      BY <1>4 DEF Within
    <3> QED BY <1>2, <3>1, <3>2
  <2> QED BY <1>3, <2>1, <2>2
<1> QED BY <1>1, <1>4, <1>5, <1>6 DEF Good, c

\* An analysis asks for the correlation first, and nothing else without it.
LEMMA AnsweredShape ==
    ASSUME NEW name, NEW lacking, NEW failed
    PROVE  /\ Finite(E!Answered(name, lacking, failed))
           /\ E!Answered(name, lacking, failed) # << >> =>
                 /\ 1 \in DOMAIN E!Answered(name, lacking, failed)
                 /\ E!Answered(name, lacking, failed)[1] = "corr"
<1>1. CASE failed = "corr"
  BY <1>1, ShortFinite DEF E!Answered
<1>2. CASE failed # "corr"
  <2> DEFINE q == E!Answer("quantile", name, lacking, failed)
             r == E!Answer("rolling", name, lacking, failed)
             g == E!Answer("regime", name, lacking, failed)
  <2>1. Finite(q) /\ Finite(r) /\ Finite(g) /\ Finite(<<"corr">>)
    BY ShortFinite DEF E!Answer
  <2>2. E!Answered(name, lacking, failed) = <<"corr">> \o q \o r \o g
    BY <1>2 DEF E!Answered
  <2> HIDE DEF q, r, g
  <2>3. Finite(<<"corr">> \o q) /\ 1 \in DOMAIN (<<"corr">> \o q) /\ (<<"corr">> \o q)[1] = "corr"
    BY <2>1, ConcatParts, ShortFinite
  <2>4. /\ Finite(<<"corr">> \o q \o r) /\ 1 \in DOMAIN (<<"corr">> \o q \o r)
        /\ (<<"corr">> \o q \o r)[1] = "corr"
    <3> DEFINE x == <<"corr">> \o q
    <3> HIDE DEF x
    <3>1. Finite(x \o r) /\ 1 \in DOMAIN (x \o r) /\ (x \o r)[1] = "corr"
      BY <2>1, <2>3, ConcatParts DEF x
    <3> QED BY <3>1 DEF x
  <2>5. /\ Finite(<<"corr">> \o q \o r \o g) /\ 1 \in DOMAIN (<<"corr">> \o q \o r \o g)
        /\ (<<"corr">> \o q \o r \o g)[1] = "corr"
    <3> DEFINE x == <<"corr">> \o q \o r
    <3> HIDE DEF x
    <3>1. Finite(x \o g) /\ 1 \in DOMAIN (x \o g) /\ (x \o g)[1] = "corr"
      BY <2>1, <2>4, ConcatParts DEF x
    <3> QED BY <3>1 DEF x
  <2> QED BY <2>2, <2>5
<1> QED BY <1>1, <1>2

\* What a query joins is among the rows of now; that of a mandatory column's correlation
\* is all of them.
LEMMA JoinedRows ==
    ASSUME DataInv, RowsWarm, NEW query, NEW name, NEW lacking
    PROVE  /\ Cardinality(E!Joined(query, name, lacking)) \in 0..RowsNow
           /\ lacking = {} => E!Joined(query, name, lacking) = Rows
<1> DEFINE joined == E!Joined(query, name, lacking)
<1>1. joined \subseteq Rows
  BY DEF E!Joined, Rows
<1>2. IsFiniteSet(Rows) /\ RowsNow \in Nat
  BY RowsNumber
<1>3. IsFiniteSet(joined) /\ Cardinality(joined) <= Cardinality(Rows)
  BY <1>1, <1>2, FS_Subset
<1>4. Cardinality(joined) \in 0..RowsNow
  <2> HIDE DEF joined
  <2>1. Cardinality(joined) \in Nat
    BY <1>3, FS_CardinalityType
  <2> QED BY <1>2, <1>3, <2>1 DEF RowsNow
<1>5. ASSUME lacking = {} PROVE Rows \subseteq joined
  BY <1>5 DEF E!Joined, Rows, RowsWarm, J!RowsWarm
<1> QED BY <1>1, <1>4, <1>5

\* The results of a horizon.
LEMMA ResultsPart ==
    ASSUME DataInv, RowsWarm, NEW cell, NEW lacking, NEW failed,
           cell[1] \in E!MandatoryColumns => lacking = {}
    PROVE  Part(E!Results(cell, lacking, failed))
<1> DEFINE a == E!Answered(cell[1], lacking, failed)
           b == E!Results(cell, lacking, failed)
           n(query) == Cardinality(E!Joined(query, cell[1], lacking))
<1>1. b = [k \in DOMAIN a |-> [of |-> cell, metric |-> a[k], samples |-> n(a[k])]]
  BY OneCardinality DEF E!Results
<1>2. Finite(a) /\ (a # << >> => 1 \in DOMAIN a /\ a[1] = "corr")
  BY AnsweredShape
<1>3. \A query : /\ n(query) \in 0..RowsNow
                 /\ cell[1] \in E!MandatoryColumns => n(query) = RowsNow
  BY JoinedRows DEF RowsNow
<1> HIDE DEF a, b, n
<1>4. Finite(b)
  BY <1>1, <1>2, MappedFinite
<1>5. ASSUME NEW k \in DOMAIN b
      PROVE  /\ b[k].samples \in 0..RowsNow
             /\ b[k].of[1] \in E!MandatoryColumns => b[k].samples = RowsNow
             /\ b[1].metric = "corr" /\ b[1].of = b[k].of
  <2>1. k \in DOMAIN a /\ b[k] = [of |-> cell, metric |-> a[k], samples |-> n(a[k])]
    BY <1>1
  <2>2. a # << >>
    BY <2>1
  <2>3. 1 \in DOMAIN a /\ a[1] = "corr"
    BY <1>2, <2>2
  <2>4. b[1] = [of |-> cell, metric |-> "corr", samples |-> n("corr")]
    BY <1>1, <2>3
  <2> QED BY <1>3, <2>1, <2>4
<1> QED BY <1>4, <1>5 DEF Part, b

\* The results that are not of a horizon.
LEMMA OverallPart ==
    ASSUME DataInv, NEW b, Finite(b), NEW metric \in {"decay", "score"},
           \A k \in DOMAIN b : \E name : b[k] = E!Overall(metric, name)
    PROVE  Part(b)
<1>1. RowsNow \in Nat
  BY RowsNumber
<1>2. ASSUME NEW k \in DOMAIN b PROVE b[k].samples = 0 /\ b[k].metric = metric
  BY DEF E!Overall
<1> QED BY <1>1, <1>2 DEF Part

\* No study has begun.
LEMMA StudyInitially == E!studyInit => StudyInv
<1> SUFFICES ASSUME E!studyInit PROVE StudyInv
  OBVIOUS
<1>1. Finite(<< >>) /\ DOMAIN << >> = {}
  BY ShortFinite
<1>2. StudyShape
  BY <1>1 DEF E!studyInit, StudyShape, OnStudies
<1>3. ASSUME NEW s \in Studies PROVE StudyEnds(s)
  <2>1. Good(<< >>)
    BY <1>1 DEF Good, Backed, Growing, Within, MandatoryCorr
  <2> QED BY <2>1 DEF E!studyInit, StudyEnds
<1> QED BY <1>2, <1>3 DEF StudyInv

\* The tables only grow, so that a count of their rows does too.
LEMMA RowsGrow ==
    ASSUME DataInv, [Next]_vars
    PROVE  RowsNow \in Nat /\ RowsNow' \in Nat /\ RowsNow <= RowsNow'
<1>1. DataInv' /\ Rows \subseteq Rows'
  BY DataStep DEF Rows
<1>2. IsFiniteSet(Rows) /\ RowsNow \in Nat
  BY RowsNumber
<1>3. IsFiniteSet(Rows')
  BY <1>1, FS_Intersection DEF DataInv, Rows
<1>4. Cardinality(Rows') \in Nat /\ Cardinality(Rows) <= Cardinality(Rows')
  BY <1>1, <1>3, FS_CardinalityType, FS_Subset
<1> QED BY <1>2, <1>4 DEF RowsNow

\* The steps of others leave a study's results as good as they are.
LEMMA StudyKept ==
    ASSUME RowsNow \in Nat, RowsNow' \in Nat, RowsNow <= RowsNow',
           NEW s \in Studies, StudyEnds(s),
           runs'[s] = runs[s], results'[s] = results[s], at'[s] = at[s], next'[s] = next[s],
           allResults'[s] = allResults[s], lapse'[s] = lapse[s]
    PROVE  StudyEnds(s)'
<1> DEFINE all == allResults[s]
<1>1. \A k \in DOMAIN all : all[k].samples \in 0..RowsNow'
  BY DEF StudyEnds, Good, Within
<1>2. Good(allResults[s])'
  BY <1>1 DEF StudyEnds, Good, Within, Backed, Growing, MandatoryCorr, E!MandatoryColumns
<1> QED BY <1>2 DEF StudyEnds, Saved, Scored, E!Overall

\* A step of one study, which the other ones do not see.
LEMMA OneStudy ==
    ASSUME StudyInv, RowsNow \in Nat, RowsNow' \in Nat, RowsNow <= RowsNow', NEW s \in Studies,
           runs' = runs \/ \E x : runs' = [runs EXCEPT ![s] = x],
           results' = results \/ \E x : results' = [results EXCEPT ![s] = x],
           at' = at \/ \E x : at' = [at EXCEPT ![s] = x],
           next' = next \/ \E x : next' = [next EXCEPT ![s] = x],
           allResults' = allResults \/ \E x : allResults' = [allResults EXCEPT ![s] = x],
           lapse' = lapse \/ \E x : lapse' = [lapse EXCEPT ![s] = x],
           next'[s] \in Nat \ {0}, Finite(allResults'[s]), Finite(results'[s]),
           StudyEnds(s)'
    PROVE  StudyInv'
<1>1. /\ OnStudies(runs) /\ OnStudies(results) /\ OnStudies(at) /\ OnStudies(next)
      /\ OnStudies(allResults) /\ OnStudies(lapse)
  BY DEF StudyInv, StudyShape
<1>2. /\ OnStudies(runs') /\ OnStudies(results') /\ OnStudies(at') /\ OnStudies(next')
      /\ OnStudies(allResults') /\ OnStudies(lapse')
  BY <1>1 DEF OnStudies
<1>3. ASSUME NEW k \in Studies, k # s
      PROVE  /\ runs'[k] = runs[k] /\ results'[k] = results[k] /\ at'[k] = at[k]
             /\ next'[k] = next[k] /\ allResults'[k] = allResults[k] /\ lapse'[k] = lapse[k]
  BY <1>1, <1>3 DEF OnStudies
<1>4. StudyShape'
  BY <1>2, <1>3 DEF StudyInv, StudyShape, OnStudies
<1>5. ASSUME NEW k \in Studies PROVE StudyEnds(k)'
  BY <1>3, StudyKept DEF StudyInv
<1> QED BY <1>4, <1>5 DEF StudyInv

\* The tables do not change in a study's step.
LEMMA SameRows ==
    ASSUME DataInv, UNCHANGED <<features, labels>>
    PROVE  RowsNow \in Nat /\ RowsNow' = RowsNow
BY RowsNumber DEF RowsNow, Rows

\* What is good stays so.
LEMMA GoodKept ==
    ASSUME RowsNow' = RowsNow, NEW s \in Studies, Good(allResults[s]), allResults'[s] = allResults[s]
    PROVE  Good(allResults[s])'
BY DEF Good, Within, Backed, Growing, MandatoryCorr, E!MandatoryColumns

\* The statements of the run row, and the end of the process.
LEMMA RunRowStep ==
    ASSUME StudyInv, DataInv, UNCHANGED <<features, labels>>, NEW s \in Studies, NEW o \in Outcomes,
           \/ E!CreateRun(s, o) \/ E!StartRun(s, o) \/ E!CountFeatures(s, o)
           \/ E!CompleteRun(s, o) \/ E!FailRun(s, o) \/ E!Abort(s)
    PROVE  StudyInv'
<1>1. RowsNow \in Nat /\ RowsNow' \in Nat /\ RowsNow <= RowsNow' /\ RowsNow' = RowsNow
  BY SameRows
<1>2. StudyEnds(s) /\ StudyShape /\ next[s] \in Nat \ {0} /\ Finite(allResults[s]) /\ Finite(results[s])
  BY DEF StudyInv, StudyShape
<1>3. UNCHANGED <<results, next, allResults>>
  BY DEF E!CreateRun, E!StartRun, E!CountFeatures, E!CompleteRun, E!FailRun, E!Abort, E!studyLocal
<1>4. Good(allResults[s])'
  BY <1>1, <1>2, <1>3, GoodKept DEF StudyEnds
<1>5. OnStudies(runs) /\ OnStudies(at) /\ OnStudies(lapse)
  BY <1>2 DEF StudyShape
<1>6. CASE E!CreateRun(s, o) \/ E!StartRun(s, o) \/ E!CountFeatures(s, o)
  <2>1. /\ at[s] \in {"create", "start", "count"}
        /\ runs' = runs \/ \E x \in {"pending", "running"} : runs' = [runs EXCEPT ![s] = x]
        /\ \E x \in {"start", "count", "failing", "analyse", "exit"} : at' = [at EXCEPT ![s] = x]
        /\ lapse' = lapse \/ lapse' = [lapse EXCEPT ![s] = TRUE]
        /\ at'[s] = "exit" => lapse'[s]
    BY <1>5, <1>6 DEF E!CreateRun, E!StartRun, E!CountFeatures, E!Mark, E!Go, E!Lapsed, OnStudies
  <2>2. StudyEnds(s)'
    BY <1>2, <1>3, <1>4, <1>5, <2>1 DEF StudyEnds, OnStudies
  <2> QED BY <1>1, <1>2, <1>3, <2>1, <2>2, OneStudy
<1>7. CASE E!FailRun(s, o) \/ E!Abort(s)
  <2>1. /\ at[s] # "exit" /\ at' = [at EXCEPT ![s] = "exit"]
        /\ \/ runs' = runs /\ lapse' = [lapse EXCEPT ![s] = TRUE]
           \/ /\ at[s] = "failing" /\ runs' = [runs EXCEPT ![s] = "failed"]
              /\ lapse' = lapse \/ lapse' = [lapse EXCEPT ![s] = TRUE]
    BY <1>7 DEF E!FailRun, E!Abort, E!Mark, E!Go, E!Lapsed, E!takes
  <2>2. StudyEnds(s)'
    BY <1>2, <1>3, <1>4, <1>5, <2>1 DEF StudyEnds, OnStudies
  <2> QED BY <1>1, <1>2, <1>3, <2>1, <2>2, OneStudy
<1>8. CASE E!CompleteRun(s, o)
  <2>1. /\ at[s] = "save" /\ next[s] \notin DOMAIN allResults[s]
        /\ at' = [at EXCEPT ![s] = "exit"]
        /\ \/ runs' = runs /\ lapse' = [lapse EXCEPT ![s] = TRUE]
           \/ /\ runs' = [runs EXCEPT ![s] = "completed"]
              /\ lapse' = lapse \/ lapse' = [lapse EXCEPT ![s] = TRUE]
    BY <1>8 DEF E!CompleteRun, E!Mark, E!Go, E!Lapsed, E!takes
  <2>2. Saved(s)
    BY <1>2, <2>1 DEF StudyEnds
  <2>3. results[s] = allResults[s]
    <3> DEFINE r == results[s]
               a == allResults[s]
    <3>1. PICK T : r \in Seq(T)
      BY <1>2 DEF Finite
    <3>2. PICK U : a \in Seq(U)
      BY <1>2 DEF Finite
    <3>3. /\ Len(r) \in Nat /\ r = [k \in 1..Len(r) |-> r[k]]
          /\ Len(a) \in Nat /\ a = [k \in 1..Len(a) |-> a[k]] /\ DOMAIN a = 1..Len(a)
      BY <3>1, <3>2
    <3>4. Len(r) = Len(a)
      BY <1>2, <2>1, <2>2, <3>3 DEF Saved
    <3>5. \A k \in 1..Len(r) : r[k] = a[k]
      BY <2>2 DEF Saved
    <3> HIDE DEF r, a
    <3>6. r = a
      BY <3>3, <3>4, <3>5
    <3> QED BY <3>6 DEF r, a
  <2>4. Scored(allResults[s])'
    BY <1>3, <2>2 DEF Saved, Scored, E!Overall
  <2>5. StudyEnds(s)'
    BY <1>2, <1>3, <1>4, <1>5, <2>1, <2>3, <2>4 DEF StudyEnds, OnStudies
  <2> QED BY <1>1, <1>2, <1>3, <2>1, <2>5, OneStudy
<1> QED BY <1>6, <1>7, <1>8

\* An analysis adds what is good.
LEMMA AnalyseStep ==
    ASSUME StudyInv, DataInv, RowsWarm, UNCHANGED <<features, labels>>, NEW s \in Studies,
           NEW lacking, NEW failed, E!Analyse(s, lacking, failed)
    PROVE  StudyInv'
<1>1. RowsNow \in Nat /\ RowsNow' \in Nat /\ RowsNow <= RowsNow' /\ RowsNow' = RowsNow
  BY SameRows
<1>2. StudyEnds(s) /\ StudyShape /\ next[s] \in Nat \ {0} /\ Finite(allResults[s]) /\ Finite(results[s])
  BY DEF StudyInv, StudyShape
<1> DEFINE cell == E!Cells[next[s]]
           decay == IF next[s] % Len(StudyHorizons) = 0 THEN << E!Overall("decay", cell[1]) >> ELSE << >>
           one == allResults[s] \o E!Results(cell, lacking, failed)
           two == one \o decay
<1>3. /\ at[s] = "analyse" /\ UNCHANGED <<runs, results, at, lapse>>
      /\ allResults' = [allResults EXCEPT ![s] = two]
      /\ next' = [next EXCEPT ![s] = @ + 1]
  BY DEF E!Analyse
<1>4. Part(decay)
  <2>1. Finite(decay)
    BY ShortFinite
  <2>2. \A k \in DOMAIN decay : \E name : decay[k] = E!Overall("decay", name)
    <3>1. DOMAIN << >> = {}
      OBVIOUS
    <3> QED BY <3>1, ShortFinite
  <2> HIDE DEF decay
  <2> QED BY <2>1, <2>2, OverallPart
<1>5. Finite(one) /\ Good(one)
  <2>1. cell[1] \in E!MandatoryColumns => lacking = {}
    BY DEF E!Analyse
  <2>2. Part(E!Results(cell, lacking, failed))
    BY <2>1, ResultsPart
  <2> QED BY <1>2, <2>2, GoodConcat DEF StudyEnds
<1>6. Finite(two) /\ Good(two)
  <2> HIDE DEF one, decay
  <2> QED BY <1>4, <1>5, GoodConcat
<1> HIDE DEF two
<1>7. /\ OnStudies(allResults) /\ OnStudies(next) /\ allResults'[s] = two /\ next'[s] = next[s] + 1
  BY <1>2, <1>3 DEF StudyShape, OnStudies
<1>8. Good(allResults[s])'
  BY <1>1, <1>6, <1>7 DEF Good, Within, Backed, Growing, MandatoryCorr, E!MandatoryColumns
<1>9. StudyEnds(s)'
  BY <1>2, <1>3, <1>8 DEF StudyEnds
<1>10. next'[s] \in Nat \ {0} /\ Finite(allResults'[s]) /\ Finite(results'[s])
  BY <1>2, <1>3, <1>6, <1>7
<1>11. /\ \E x : allResults' = [allResults EXCEPT ![s] = x]
       /\ \E x : next' = [next EXCEPT ![s] = x]
  BY <1>3
<1> QED BY <1>1, <1>3, <1>9, <1>10, <1>11, OneStudy

\* The ranking scores every feature.
LEMMA RankingStep ==
    ASSUME StudyInv, DataInv, UNCHANGED <<features, labels>>, NEW s \in Studies, E!Ranking(s)
    PROVE  StudyInv'
<1>1. RowsNow \in Nat /\ RowsNow' \in Nat /\ RowsNow <= RowsNow' /\ RowsNow' = RowsNow
  BY SameRows
<1>2. StudyEnds(s) /\ StudyShape /\ next[s] \in Nat \ {0} /\ Finite(allResults[s]) /\ Finite(results[s])
  BY DEF StudyInv, StudyShape
<1> DEFINE scores == [i \in DOMAIN Names |-> E!Overall("score", Names[i])]
           a == allResults[s]
           two == a \o scores
<1>3. /\ at[s] = "analyse" /\ UNCHANGED <<runs, results, lapse>>
      /\ allResults' = [allResults EXCEPT ![s] = two]
      /\ next' = [next EXCEPT ![s] = 1] /\ at' = [at EXCEPT ![s] = "save"]
  BY DEF E!Ranking, E!Go
<1>4. Finite(scores) /\ Part(scores)
  <2>1. Finite(Names)
    BY BatchAssumption DEF E!StudyAssumption, Finite
  <2>2. Finite(scores)
    BY <2>1, MappedFinite
  <2>3. \A k \in DOMAIN scores : \E name : scores[k] = E!Overall("score", name)
    OBVIOUS
  <2> HIDE DEF scores
  <2> QED BY <2>2, <2>3, OverallPart
<1>5. Finite(two) /\ Good(two)
  <2> HIDE DEF scores
  <2> QED BY <1>2, <1>4, GoodConcat DEF StudyEnds
<1>6. Scored(two)
  <2> HIDE DEF a
  <2>1. Finite(a)
    BY <1>2 DEF a
  <2> SUFFICES ASSUME NEW i \in DOMAIN Names PROVE \E k \in DOMAIN two : two[k] = E!Overall("score", Names[i])
    BY DEF Scored
  <2>2. DOMAIN scores = DOMAIN Names /\ scores[i] = E!Overall("score", Names[i])
    OBVIOUS
  <2> HIDE DEF scores
  <2>3. /\ Len(a) \in Nat /\ Len(scores) \in Nat /\ DOMAIN scores = 1..Len(scores)
        /\ DOMAIN two = 1..Len(a) + Len(scores)
        /\ \A k \in 1..Len(scores) : two[Len(a) + k] = scores[k]
    BY <1>4, <2>1, ConcatParts
  <2> HIDE DEF two
  <2>4. i \in 1..Len(scores) /\ Len(a) + i \in 1..Len(a) + Len(scores)
    BY <2>2, <2>3
  <2> QED BY <2>2, <2>3, <2>4
<1> HIDE DEF two
<1>7. /\ allResults'[s] = two /\ next'[s] = 1 /\ at'[s] = "save"
  BY <1>2, <1>3 DEF StudyShape, OnStudies
<1>8. Good(allResults[s])'
  BY <1>1, <1>5, <1>7 DEF Good, Within, Backed, Growing, MandatoryCorr, E!MandatoryColumns
<1>9. Saved(s)'
  <2>1. results[s] = << >> /\ Len(<< >>) = 0
    BY <1>2, <1>3 DEF StudyEnds
  <2>2. Len(two) \in Nat
    <3>1. PICK T : two \in Seq(T)
      BY <1>5 DEF Finite
    <3> QED BY <3>1
  <2>3. Scored(allResults[s])'
    BY <1>6, <1>7 DEF Scored, E!Overall
  <2> QED BY <1>3, <1>7, <2>1, <2>2, <2>3 DEF Saved
<1>10. StudyEnds(s)'
  BY <1>2, <1>3, <1>7, <1>8, <1>9 DEF StudyEnds
<1>11. next'[s] \in Nat \ {0} /\ Finite(allResults'[s]) /\ Finite(results'[s])
  BY <1>2, <1>3, <1>5, <1>7
<1>12. /\ \E x : allResults' = [allResults EXCEPT ![s] = x]
       /\ \E x : next' = [next EXCEPT ![s] = x]
       /\ \E x : at' = [at EXCEPT ![s] = x]
  BY <1>3
<1> QED BY <1>1, <1>3, <1>10, <1>11, <1>12, OneStudy

\* One more insert, in the order computed.
LEMMA SaveStep ==
    ASSUME StudyInv, DataInv, UNCHANGED <<features, labels>>, NEW s \in Studies, NEW o \in Outcomes,
           E!SaveResult(s, o)
    PROVE  StudyInv'
<1>1. RowsNow \in Nat /\ RowsNow' \in Nat /\ RowsNow <= RowsNow' /\ RowsNow' = RowsNow
  BY SameRows
<1>2. StudyEnds(s) /\ StudyShape /\ next[s] \in Nat \ {0} /\ Finite(allResults[s]) /\ Finite(results[s])
  BY DEF StudyInv, StudyShape
<1> DEFINE r == results[s]
           a == allResults[s]
           n == next[s]
           more == Append(r, a[n])
<1>3. /\ at[s] = "save" /\ n \in DOMAIN a /\ UNCHANGED <<runs, allResults>>
      /\ results' = IF E!takes(o) THEN [results EXCEPT ![s] = more] ELSE results
      /\ next' = [next EXCEPT ![s] = @ + 1]
      /\ at' = IF o = "ok" THEN at ELSE [at EXCEPT ![s] = "exit"]
      /\ lapse' = IF o = "ok" THEN lapse ELSE [lapse EXCEPT ![s] = TRUE]
  BY DEF E!SaveResult, E!Go, E!Lapsed
<1>4. Saved(s) /\ runs[s] \notin {"completed", "failed"}
  BY <1>2, <1>3 DEF StudyEnds
<1>5. /\ Finite(more) /\ Len(more) = n /\ Len(r) = n - 1 /\ n \in Nat \ {0}
      /\ \A k \in 1..n : more[k] = a[k]
      /\ Len(a) \in Nat /\ n <= Len(a)
  <2>1. PICK T : r \in Seq(T)
    BY <1>2 DEF Finite
  <2>2. PICK U : a \in Seq(U)
    BY <1>2 DEF Finite
  <2>3. Len(a) \in Nat /\ DOMAIN a = 1..Len(a) /\ n <= Len(a)
    BY <1>3, <2>2
  <2>4. Len(r) = n - 1 /\ \A k \in 1..Len(r) : r[k] = a[k]
    BY <1>4 DEF Saved
  <2> DEFINE x == a[n]
             V == T \cup {x}
  <2>5. r \in Seq(V) /\ x \in V
    <3>1. Len(r) \in Nat /\ r \in [1..Len(r) -> T]
      BY <2>1, LenProperties
    <3>2. r \in [1..Len(r) -> V]
      BY <3>1
    <3> HIDE DEF V
    <3>3. r \in Seq(V)
      BY <3>1, <3>2
    <3> QED BY <3>3 DEF V
  <2> HIDE DEF V, x
  <2>6. /\ Append(r, x) \in Seq(V) /\ Len(Append(r, x)) = Len(r) + 1
        /\ \A k \in 1..Len(r) : Append(r, x)[k] = r[k]
        /\ Append(r, x)[Len(r) + 1] = x
    BY <2>5, AppendProperties
  <2>7. \A k \in 1..n : Append(r, x)[k] = a[k]
    <3> TAKE k \in 1..n
    <3>1. CASE k = n
      BY <1>2, <2>4, <2>6, <3>1 DEF x
    <3>2. CASE k # n
      <4>1. k \in 1..Len(r)
        BY <1>2, <2>4, <3>2
      <4> QED BY <2>4, <2>6, <4>1
    <3> QED BY <3>1, <3>2
  <2> QED BY <1>2, <2>3, <2>4, <2>6, <2>7 DEF Finite, x
<1> HIDE DEF more
<1>6. Good(allResults[s])'
  BY <1>1, <1>2, <1>3, GoodKept DEF StudyEnds
<1>7. /\ next'[s] = n + 1 /\ results'[s] = IF E!takes(o) THEN more ELSE r
      /\ o # "ok" => at'[s] = "exit" /\ lapse'[s]
      /\ o = "ok" => at'[s] = "save"
  BY <1>2, <1>3 DEF StudyShape, OnStudies
<1>8. ASSUME o = "ok" PROVE Saved(s)'
  <2>1. results'[s] = more
    BY <1>7, <1>8 DEF E!takes
  <2>2. Scored(allResults[s])'
    BY <1>3, <1>4 DEF Saved, Scored, E!Overall
  <2>3. allResults'[s] = a /\ n + 1 - 1 = n /\ n + 1 <= Len(a) + 1
    BY <1>3, <1>5
  <2> HIDE DEF a, n
  <2>4. /\ Len(results'[s]) = next'[s] - 1 /\ next'[s] <= Len(allResults'[s]) + 1
        /\ \A k \in 1..Len(results'[s]) : results'[s][k] = allResults'[s][k]
    BY <1>5, <1>7, <2>1, <2>3
  <2> QED BY <2>2, <2>4 DEF Saved
<1>9. StudyEnds(s)'
  BY <1>3, <1>4, <1>6, <1>7, <1>8 DEF StudyEnds
<1>10. next'[s] \in Nat \ {0} /\ Finite(allResults'[s]) /\ Finite(results'[s])
  BY <1>2, <1>3, <1>5, <1>7
<1>11. /\ results' = results \/ \E x : results' = [results EXCEPT ![s] = x]
       /\ \E x : next' = [next EXCEPT ![s] = x]
       /\ at' = at \/ \E x : at' = [at EXCEPT ![s] = x]
       /\ lapse' = lapse \/ \E x : lapse' = [lapse EXCEPT ![s] = x]
  BY <1>3
<1> QED BY <1>1, <1>3, <1>9, <1>10, <1>11, OneStudy

\* Each step of any process keeps what the runs tell.
LEMMA StudyStep ==
    ASSUME StudyInv, DataInv, RowsWarm, [Next]_vars PROVE StudyInv'
<1>1. RowsNow \in Nat /\ RowsNow' \in Nat /\ RowsNow <= RowsNow'
  BY RowsGrow
<1>2. ASSUME UNCHANGED studyVars PROVE StudyInv'
  <2>1. StudyShape'
    BY <1>2 DEF studyVars, StudyInv, StudyShape, OnStudies
  <2>2. ASSUME NEW s \in Studies PROVE StudyEnds(s)'
    BY <1>1, <1>2, StudyKept DEF studyVars, StudyInv
  <2> QED BY <2>1, <2>2 DEF StudyInv
<1>3. CASE Migrate \/ (\E j \in Jobs : BeginJob(j)) \/ Backfill \/ UNCHANGED vars
  BY <1>2, <1>3 DEF Migrate, BeginJob, Backfill, vars
<1>4. ASSUME NEW s \in Studies, BeginStudy(s) PROVE StudyInv'
  <2>1. /\ UNCHANGED <<runs, results, next, allResults, lapse>>
        /\ at[s] = "wait" /\ at' = [at EXCEPT ![s] = "create"] /\ UNCHANGED <<features, labels>>
    BY <1>4 DEF BeginStudy, jobVars
  <2>2. StudyEnds(s) /\ StudyShape /\ next[s] \in Nat \ {0} /\ Finite(allResults[s]) /\ Finite(results[s])
    BY DEF StudyInv, StudyShape
  <2>3. RowsNow' = RowsNow
    BY <2>1, SameRows
  <2>4. Good(allResults[s])'
    BY <2>1, <2>2, <2>3, GoodKept DEF StudyEnds
  <2>5. StudyEnds(s)'
    BY <2>1, <2>2, <2>4 DEF StudyShape, OnStudies, StudyEnds
  <2> QED BY <1>1, <2>1, <2>2, <2>5, OneStudy
<1>5. CASE Study
  <2>1. UNCHANGED <<features, labels>>
    BY <1>5 DEF Study, jobVars
  <2>2. Ends \subseteq Outcomes /\ "ok" \in Outcomes
    BY BatchAssumption DEF Ends, J!JobAssumption
  <2>3. ASSUME NEW s \in Studies, NEW o \in Ends, E!RunStudy(s, o) PROVE StudyInv'
    <3>1. o \in Outcomes
      BY <2>2
    <3>2. CASE \/ E!CreateRun(s, o) \/ E!StartRun(s, o) \/ E!CountFeatures(s, o)
               \/ E!CompleteRun(s, o) \/ E!FailRun(s, o)
      BY <2>1, <3>1, <3>2, RunRowStep
    <3>3. CASE \E lacking, failed : E!Analyse(s, lacking, failed)
      BY <2>1, <3>3, AnalyseStep
    <3>4. CASE E!Ranking(s)
      BY <2>1, <3>4, RankingStep
    <3>5. CASE E!SaveResult(s, o)
      BY <2>1, <3>1, <3>5, SaveStep
    <3> QED BY <2>3, <3>2, <3>3, <3>4, <3>5 DEF E!RunStudy
  <2>4. ASSUME NEW s \in Studies, E!Abort(s) PROVE StudyInv'
    BY <2>1, <2>2, <2>4, RunRowStep
  <2> QED BY <1>5, <2>3, <2>4 DEF Study
<1> QED BY <1>3, <1>4, <1>5 DEF Next

\* What a completed run has, it has from its results.
LEMMA StudyTells == StudyInv => E!RunTellsEnd
<1> SUFFICES ASSUME StudyInv, NEW s \in Studies
             PROVE  /\ runs[s] = "completed" =>
                           /\ results[s] = allResults[s]
                           /\ Scored(results[s]) /\ Backed(results[s]) /\ Growing(results[s])
                    /\ runs[s] = "failed" => results[s] = << >>
                    /\ at[s] = "exit" /\ ~lapse[s] => runs[s] \in {"completed", "failed"}
  BY DEF E!RunTellsEnd, Scored, Backed, Growing, MandatoryCorr, E!MandatoryColumns
<1> QED BY DEF StudyInv, StudyEnds, Good

-----------------------------------------------------------------------------
(***************************************************************************)
(* Bars in the order of time.                                              *)
(***************************************************************************)
\* The bars of a sequence.
Elements(c) == {c[i] : i \in DOMAIN c}

\* Its bars ascend.
Ascends(c) == \A i, k \in DOMAIN c : i < k => c[i] < c[k]

\* How many of a set are not after a bar.
Rank(S, b) == Cardinality({x \in S : x <= b})

\* A subset of the bars is finite.
LEMMA BarsFinite ==
    /\ \A S \in SUBSET J!Bars : IsFiniteSet(S) /\ Cardinality(S) \in Nat
    /\ J!Bars \subseteq Nat \ {0} /\ MaxBar \in Nat
<1>1. MaxBar \in Nat
  BY BatchAssumption DEF J!JobAssumption
<1>2. IsFiniteSet(J!Bars) /\ J!Bars \subseteq Nat \ {0}
  BY <1>1, FS_Interval DEF J!Bars
<1>3. ASSUME NEW S \in SUBSET J!Bars PROVE IsFiniteSet(S) /\ Cardinality(S) \in Nat
  BY <1>2, FS_Subset, FS_CardinalityType
<1> QED BY <1>1, <1>2, <1>3

\* A part has no more elements than the whole, and as many only if it is the whole.
LEMMA PartSmaller ==
    ASSUME NEW S \in SUBSET J!Bars, NEW T \in SUBSET S
    PROVE  /\ Cardinality(T) \in Nat /\ Cardinality(S) \in Nat /\ Cardinality(T) <= Cardinality(S)
           /\ T # S => Cardinality(T) < Cardinality(S)
<1>1. IsFiniteSet(S) /\ Cardinality(S) \in Nat /\ Cardinality(T) \in Nat
  BY BarsFinite
<1>2. Cardinality(T) <= Cardinality(S) /\ (Cardinality(S) = Cardinality(T) => S = T)
  BY <1>1, FS_Subset
<1> DEFINE s == Cardinality(S)
           t == Cardinality(T)
<1> HIDE DEF s, t
<1>3. s \in Nat /\ t \in Nat /\ t <= s /\ (s = t => S = T)
  BY <1>1, <1>2 DEF s, t
<1>4. T # S => t < s
  BY <1>3
<1> QED BY <1>3, <1>4 DEF s, t

\* The ranks of the elements of a set are the numbers up to its cardinality.
LEMMA Ranks ==
    ASSUME NEW S \in SUBSET J!Bars
    PROVE  /\ \A b \in S : Rank(S, b) \in 1..Cardinality(S)
           /\ \A b, d \in S : b < d <=> Rank(S, b) < Rank(S, d)
           /\ \A i \in 1..Cardinality(S) : \E b \in S : Rank(S, b) = i
<1> DEFINE Below(b) == {x \in S : x <= b}
           n == Cardinality(S)
           r == [b \in S |-> Rank(S, b)]
<1>0. S \subseteq Nat
  BY BarsFinite
<1>1. ASSUME NEW b \in S PROVE b \in Below(b) /\ Below(b) \in SUBSET S
  <2>1. b \in Nat /\ b <= b
    BY <1>0
  <2> QED BY <2>1
<1>2. ASSUME NEW b \in S PROVE Rank(S, b) \in 1..n
  <2> DEFINE B == Below(b)
  <2>1. B \in SUBSET S /\ b \in B
    BY <1>1
  <2> HIDE DEF B
  <2>2. Cardinality(B) \in Nat /\ Cardinality(S) \in Nat /\ Cardinality(B) <= Cardinality(S)
    BY <2>1, PartSmaller
  <2>3. Cardinality(B) # 0
    <3>1. {} \in SUBSET B /\ {} # B /\ B \in SUBSET J!Bars
      BY <2>1
    <3>2. Cardinality({}) = 0
      BY FS_EmptySet
    <3>3. Cardinality({}) < Cardinality(B)
      BY <3>1, PartSmaller
    <3> QED BY <3>2, <3>3, <2>2
  <2>4. Rank(S, b) = Cardinality(B)
    BY DEF B, Rank
  <2> QED BY <2>2, <2>3, <2>4
<1>3. ASSUME NEW b \in S, NEW d \in S, b < d PROVE Rank(S, b) < Rank(S, d)
  <2> DEFINE B == Below(b)
             D == Below(d)
  <2>1. B \subseteq D /\ D \in SUBSET J!Bars
    <3>1. b \in Nat /\ d \in Nat
      BY <1>0
    <3>2. \A x \in S : x \in Nat /\ (x <= b => x <= d)
      BY <1>0, <1>3, <3>1
    <3>3. D \subseteq S
      OBVIOUS
    <3> QED BY <3>2, <3>3
  <2>3. d \in D /\ d \notin B
    BY <1>0, <1>3
  <2> HIDE DEF B, D
  <2>2. Cardinality(B) < Cardinality(D)
    BY <2>1, <2>3, PartSmaller
  <2> QED BY <2>2 DEF B, D, Rank
<1>4. \A b, d \in S : b < d <=> Rank(S, b) < Rank(S, d)
  <2> SUFFICES ASSUME NEW b \in S, NEW d \in S, Rank(S, b) < Rank(S, d) PROVE b < d
    BY <1>3
  <2>1. Rank(S, b) \in Nat /\ Rank(S, d) \in Nat /\ b \in Nat /\ d \in Nat
    BY <1>0, <1>2
  <2>2. CASE d < b
    BY <1>3, <2>1, <2>2
  <2>3. CASE d = b
    BY <2>1, <2>3
  <2> QED BY <2>1, <2>2, <2>3
<1>5. \A i \in 1..n : \E b \in S : Rank(S, b) = i
  <2>1. r \in Injection(S, 1..n)
    <3>1. r \in [S -> 1..n]
      BY <1>2
    <3>2. ASSUME NEW b \in S, NEW d \in S, r[b] = r[d] PROVE b = d
      <4>1. Rank(S, b) = Rank(S, d) /\ Rank(S, b) \in Nat /\ b \in Nat /\ d \in Nat
        BY <1>0, <1>2, <3>2
      <4> QED BY <1>3, <4>1
    <3> HIDE DEF r
    <3> QED BY <3>1, <3>2 DEF Injection, IsInjective
  <2>2. n \in Nat /\ IsFiniteSet(1..n) /\ Cardinality(1..n) = n
    <3>1. n \in Nat
      BY BarsFinite
    <3> HIDE DEF n
    <3>2. 0 <= n /\ n - 1 + 1 = n
      BY <3>1
    <3> QED BY <3>1, <3>2, FS_Interval
  <2>3. r \in Surjection(S, 1..n)
    <3>1. Cardinality(S) = Cardinality(1..n)
      BY <2>2
    <3> HIDE DEF r, n
    <3> QED BY <2>1, <2>2, <3>1, FS_Injection
  <2>4. \A i \in 1..n : \E b \in S : r[b] = i
    <3> HIDE DEF r, n
    <3> QED BY <2>3 DEF Surjection
  <2> QED BY <2>4
<1> QED BY <1>2, <1>4, <1>5

\* A set of bars in the order of time: each once, at the place of its rank.
LEMMA AscendingShape ==
    ASSUME NEW S \in SUBSET J!Bars, NEW c, c = J!Ascending(S)
    PROVE  /\ c \in Seq(J!Bars) /\ Len(c) = Cardinality(S) /\ Len(c) \in Nat
           /\ DOMAIN c = 1..Len(c)
           /\ \A i \in 1..Len(c) : c[i] \in S /\ Rank(S, c[i]) = i
           /\ Elements(c) = S /\ Ascends(c)
<1> DEFINE n == Cardinality(S)
<1>1. n \in Nat /\ S \subseteq Nat
  BY BarsFinite
<1>2. c = [i \in 1..n |-> J!Nth(S, i)]
  BY OneCardinality DEF J!Ascending
<1>3. \A i \in 1..n : c[i] \in S /\ Rank(S, c[i]) = i
  <2> SUFFICES ASSUME NEW i \in 1..n PROVE c[i] \in S /\ Rank(S, c[i]) = i
    OBVIOUS
  <2>1. \A b : J!Cardinality({x \in S : x <= b}) = Rank(S, b)
    BY OneCardinality DEF Rank
  <2>2. PICK b \in S : Rank(S, b) = i
    BY Ranks DEF n
  <2>3. J!Cardinality({x \in S : x <= b}) = i
    BY <2>1, <2>2
  <2> DEFINE m == J!Nth(S, i)
  <2>4. m \in S /\ J!Cardinality({x \in S : x <= m}) = i
    BY <2>3 DEF J!Nth
  <2>5. c[i] = m
    BY <1>2
  <2> HIDE DEF m
  <2> QED BY <2>1, <2>4, <2>5
<1> HIDE DEF n
<1>4. c \in [1..n -> J!Bars]
  BY <1>2, <1>3
<1>5. c \in Seq(J!Bars) /\ Len(c) = n /\ DOMAIN c = 1..n
  BY <1>1, <1>4
<1>6. Elements(c) = S
  <2>1. ASSUME NEW b \in S PROVE b \in Elements(c)
    <3> DEFINE i == Rank(S, b)
    <3>1. i \in 1..n
      BY Ranks DEF n
    <3>2. c[i] \in S /\ Rank(S, c[i]) = Rank(S, b)
      BY <1>3, <3>1
    <3>3. c[i] = b
      <4>1. c[i] \in Nat /\ b \in Nat /\ c[i] \in S
        BY <1>1, <3>2
      <4>2. Rank(S, b) \in Nat /\ Rank(S, c[i]) \in Nat
        BY <3>1, <3>2
      <4> HIDE DEF i
      <4>3. ~(c[i] < b) /\ ~(b < c[i])
        <5> DEFINE x == Rank(S, b)
                   y == Rank(S, c[i])
        <5>1. (b < c[i] => x < y) /\ (c[i] < b => y < x)
          BY <4>1, Ranks
        <5> HIDE DEF x, y
        <5>2. x = y /\ x \in Nat
          BY <3>2, <4>2 DEF x, y
        <5> QED BY <5>1, <5>2
      <4> QED BY <4>1, <4>3
    <3> HIDE DEF i
    <3> QED BY <1>5, <3>1, <3>3 DEF Elements
  <2> QED BY <1>3, <1>5, <2>1 DEF Elements
<1>7. Ascends(c)
  <2> SUFFICES ASSUME NEW i \in 1..n, NEW k \in 1..n, i < k PROVE c[i] < c[k]
    BY <1>5 DEF Ascends
  <2> QED BY <1>3, Ranks
<1> QED BY <1>1, <1>3, <1>5, <1>6, <1>7 DEF n

\* A stretch of a sequence in which the bars ascend.
Stretch(c, lo, hi) ==
    /\ \A k \in lo + 1..hi : c[k] \in J!Bars
    /\ \A k, m \in lo + 1..hi : k < m => c[k] < c[m]

StretchBars(c, lo, hi) == {c[k] : k \in lo + 1..hi}

\* It holds as many bars as it has places.
LEMMA StretchCount ==
    ASSUME NEW c, NEW lo \in Nat, NEW hi \in Nat, lo <= hi, Stretch(c, lo, hi)
    PROVE  /\ StretchBars(c, lo, hi) \in SUBSET J!Bars
           /\ Cardinality(StretchBars(c, lo, hi)) = hi - lo
<1> DEFINE D == lo + 1..hi
           T == StretchBars(c, lo, hi)
           f == [k \in D |-> c[k]]
<1> USE DEF Stretch, StretchBars
<1>1. T \subseteq J!Bars /\ IsFiniteSet(T)
  <2>1. T \subseteq J!Bars
    OBVIOUS
  <2> QED BY <2>1, BarsFinite
<1>2. IsFiniteSet(D) /\ Cardinality(D) = hi - lo
  <2>1. lo + 1 \in Int /\ hi \in Int /\ hi - (lo + 1) + 1 = hi - lo
    OBVIOUS
  <2>2. CASE lo + 1 <= hi
    BY <2>1, <2>2, FS_Interval
  <2>3. CASE lo = hi
    <3>1. D = {} /\ hi - lo = 0
      BY <2>3
    <3> QED BY <3>1, FS_EmptySet
  <2> QED BY <2>2, <2>3
<1>3. f \in Injection(D, T)
  <2>1. f \in [D -> T]
    OBVIOUS
  <2>2. ASSUME NEW k \in D, NEW m \in D, f[k] = f[m] PROVE k = m
    <3>3. f[k] = c[k] /\ f[m] = c[m] /\ k \in Nat /\ m \in Nat
      OBVIOUS
    <3>4. c[k] \in J!Bars /\ c[m] \in J!Bars /\ J!Bars \subseteq Nat
      BY BarsFinite
    <3>1. c[k] = c[m] /\ c[k] \in Nat /\ c[m] \in Nat /\ k \in Nat /\ m \in Nat
      BY <2>2, <3>3, <3>4
    <3>2. ~(k < m) /\ ~(m < k)
      <4>1. (k < m => c[k] < c[m]) /\ (m < k => c[m] < c[k])
        OBVIOUS
      <4> HIDE DEF D, f
      <4> QED BY <3>1, <4>1
    <3> HIDE DEF D, f
    <3> QED BY <3>1, <3>2
  <2> HIDE DEF D, f
  <2> QED BY <2>1, <2>2 DEF Injection, IsInjective
<1>4. f \in Surjection(D, T)
  <2>1. \A t \in T : \E k \in D : f[k] = t
    OBVIOUS
  <2>2. f \in [D -> T]
    OBVIOUS
  <2> HIDE DEF D, f
  <2> QED BY <2>1, <2>2 DEF Surjection
<1>5. Cardinality(T) = Cardinality(D)
  <2> HIDE DEF D, f
  <2> QED BY <1>2, <1>3, <1>4, FS_Surjection
<1> QED BY <1>1, <1>2, <1>5

\* The same for the first places of a sequence: a bar's rank is its place.
LEMMA RankIsPlace ==
    ASSUME NEW S \in SUBSET J!Bars, NEW L \in SUBSET J!Bars, S \subseteq L,
           \A x \in S, y \in L : y <= x => y \in S,
           NEW b \in S
    PROVE  Rank(S, b) = Rank(L, b)
<1>1. {x \in S : x <= b} = {x \in L : x <= b}
  OBVIOUS
<1> QED BY <1>1 DEF Rank

\* A chunk: the oldest bars after the given one, in order, and all of them if they are
\* fewer than the limit.
IsChunk(c, a, n) ==
    /\ c \in Seq(J!Bars) /\ Len(c) \in Nat /\ DOMAIN c = 1..Len(c) /\ Ascends(c)
    /\ Len(c) <= n
    /\ Elements(c) \subseteq {b \in candles : b > a}
    /\ \A b \in candles : b > a /\ b \notin Elements(c) =>
           Len(c) = n /\ \A k \in 1..Len(c) : c[k] < b
    /\ \A k \in 1..Len(c) : Cardinality({b \in candles : a < b /\ b <= c[k]}) = k

\* LoadCandlesAfter returns a chunk.
LEMMA Loaded ==
    ASSUME candles \subseteq J!Bars, NEW a \in Nat, NEW n \in Nat \ {0},
           NEW c, c = J!LoadCandlesAfter(a, n)
    PROVE  IsChunk(c, a, n)
<1> DEFINE L == {b \in candles : b > a}
           S == {b \in L : Rank(L, b) <= n}
<1>1. L \in SUBSET J!Bars /\ S \in SUBSET J!Bars /\ S \subseteq L
  OBVIOUS
<1>2. c = J!Ascending(S)
  <2>1. \A b : J!Cardinality({x \in L : x <= b}) = Rank(L, b)
    BY OneCardinality DEF Rank
  <2>2. {b \in L : J!Cardinality({x \in L : x <= b}) <= n} = S
    BY <2>1
  <2> QED BY <2>2 DEF J!LoadCandlesAfter
<1>3. \A b \in L : Rank(L, b) \in 1..Cardinality(L)
  BY <1>1, Ranks
<1>4. Cardinality(L) \in Nat /\ Cardinality(S) \in Nat
  BY <1>1, BarsFinite
<1>5. \A b \in L : b \in S <=> Rank(L, b) <= n
  OBVIOUS
<1>6. \A b, d \in L : b < d <=> Rank(L, b) < Rank(L, d)
  BY <1>1, Ranks
<1>7. \A i \in 1..Cardinality(L) : \E b \in L : Rank(L, b) = i
  BY <1>1, Ranks
<1>8. L \subseteq Nat /\ \A b \in candles : b > a => b \in L
  BY <1>1, BarsFinite
<1>9. /\ c \in Seq(J!Bars) /\ Len(c) = Cardinality(S) /\ Len(c) \in Nat
      /\ DOMAIN c = 1..Len(c)
      /\ \A i \in 1..Len(c) : c[i] \in S /\ Rank(S, c[i]) = i
      /\ Elements(c) = S /\ Ascends(c)
  <2> HIDE DEF L, S
  <2> QED BY <1>1, <1>2, AscendingShape
<1>10. \A k \in 1..Len(c) : {b \in candles : a < b /\ b <= c[k]} = {b \in L : b <= c[k]}
  BY <1>8
<1> HIDE DEF L, S
<1>11. \A x \in S, y \in L : y <= x => y \in S
  <2> SUFFICES ASSUME NEW x \in S, NEW y \in L, y <= x PROVE y \in S
    OBVIOUS
  <2> DEFINE p == Rank(L, x)
             q == Rank(L, y)
  <2>1. x \in Nat /\ y \in Nat /\ x \in L
    BY <1>1, <1>8
  <2>2. p \in Nat /\ q \in Nat /\ p <= n
    BY <1>3, <1>5, <2>1
  <2>3. p < q <=> x < y
    BY <1>6, <2>1
  <2> HIDE DEF p, q
  <2>4. q <= n
    BY <2>1, <2>2, <2>3
  <2> QED BY <1>5, <2>4 DEF q
<1>12. \A b \in S : Rank(S, b) = Rank(L, b)
  BY <1>1, <1>11, RankIsPlace
<1>13. Len(c) <= n
  <2>1. CASE Len(c) = 0
    BY <2>1
  <2>2. CASE Len(c) # 0
    <3>1. Len(c) \in 1..Len(c)
      BY <1>9, <2>2
    <3>2. c[Len(c)] \in S /\ Rank(L, c[Len(c)]) = Len(c)
      BY <1>9, <1>12, <3>1
    <3> QED BY <1>1, <1>5, <3>2
  <2> QED BY <2>1, <2>2
<1>14. ASSUME NEW b \in candles, b > a, b \notin Elements(c)
       PROVE  Len(c) = n /\ \A k \in 1..Len(c) : c[k] < b
  <2> DEFINE q == Rank(L, b)
             m == Cardinality(L)
  <2>1. b \in L /\ b \notin S
    BY <1>8, <1>9, <1>14
  <2>2. q \in 1..m /\ ~(q <= n) /\ m \in Nat
    BY <1>3, <1>4, <1>5, <2>1
  <2>3. \A i \in 1..m : \E x \in L : Rank(L, x) = i
    BY <1>7
  <2>4. \A k \in 1..Len(c) : Rank(L, c[k]) < q => c[k] < b
    BY <1>1, <1>6, <1>9, <2>1
  <2>5. \A k \in 1..Len(c) : Rank(L, c[k]) = k
    BY <1>9, <1>12
  <2> HIDE DEF q, m
  <2>6. n \in 1..m
    BY <2>2
  <2>7. PICK x \in L : Rank(L, x) = n
    BY <2>3, <2>6
  <2>8. x \in S /\ Rank(S, x) = n
    <3>1. n <= n
      OBVIOUS
    <3> QED BY <1>5, <1>12, <2>7, <3>1
  <2>9. Rank(S, x) \in 1..Len(c)
    BY <1>1, <1>9, <2>8, Ranks
  <2>10. Len(c) = n
    BY <1>9, <1>13, <2>8, <2>9
  <2>11. \A k \in 1..Len(c) : k < q
    BY <2>2, <2>10
  <2> QED BY <2>4, <2>5, <2>10, <2>11
<1>15. ASSUME NEW k \in 1..Len(c) PROVE Cardinality({b \in candles : a < b /\ b <= c[k]}) = k
  <2>1. Rank(L, c[k]) = k
    BY <1>9, <1>12
  <2> QED BY <1>10, <2>1 DEF Rank
<1> QED BY <1>1, <1>9, <1>13, <1>14, <1>15 DEF L, IsChunk

-----------------------------------------------------------------------------
(***************************************************************************)
(* What a job reads on.                                                    *)
(***************************************************************************)
\* Whether a job will still load a bar, if it goes on.
ToRead(j, b) ==
    \/ place[j] \in {"ready", "create", "start", "load"} /\ b > lastTime[j]
    \/ /\ place[j] \in {"upsert", "progress"} /\ Len(chunk[j]) = ChunkSize
       /\ b > J!NextAfter(chunk[j])

\* The bars a job has loaded or will.
Reached(j) == {b \in candles : b \in Elements(allCandles[j]) \/ ToRead(j, b)}

\* A place is settled if as many later bars follow it as the warm-up has; it is repeated if
\* the bar comes again; and it is final if all loaded bars after it follow.
Settled(all, i) ==
    i + WarmupBars <= Len(all) /\ \A k, m \in i..i + WarmupBars : k < m => all[k] < all[m]
Repeated(all, i) == \E k \in DOMAIN all : k > i /\ all[k] = all[i]
Final(all, i) ==
    /\ \A k, m \in i..Len(all) : k < m => all[k] < all[m]
    /\ \A b \in Elements(all) : b > all[i] => \E k \in DOMAIN all : k > i /\ all[k] = b

\* A job reads on: what it has loaded is settled, or it comes back to it.
Loading(j) ==
    place[j] \in {"load", "upsert", "progress", "labels"} =>
        \A i \in DOMAIN allCandles[j] :
            \/ Settled(allCandles[j], i) \/ Repeated(allCandles[j], i)
            \/ ToRead(j, allCandles[j][i])
            \/ /\ place[j] = "labels" \/ (place[j] # "load" /\ Len(chunk[j]) < ChunkSize)
               /\ Final(allCandles[j], i)

\* What the two places between loading and reading on know of the chunk.
ChunkLoaded(j) ==
    place[j] \in {"upsert", "progress"} =>
        /\ Ascends(chunk[j]) /\ Elements(chunk[j]) \subseteq Elements(allCandles[j])
        /\ WarmupBars < Len(chunk[j]) /\ Len(chunk[j]) <= ChunkSize

\* Nothing is loaded before the first chunk, and no labels are written before all are.
Begins(j) ==
    /\ place[j] \in {"ready", "create", "start"} => lastTime[j] = 0
    /\ place[j] \in {"ready", "create", "start", "load"} /\ lastTime[j] = 0 => allCandles[j] = << >>
    /\ place[j] \in {"ready", "create", "start", "load", "upsert", "progress", "labels"} =>
           j \notin upserted[j]
    /\ Elements(allCandles[j]) \subseteq candles
    /\ place[j] \in {"start", "load", "upsert", "progress", "labels"} => known[j] \subseteq Reached(j)

\* A label stands for bars that are stored.
Ahead(b, x, h, S) == Cardinality(S \cap b + 1..x) >= h
LabelsStand ==
    \A b \in DOMAIN labels : labels[b] \in [Horizons -> {0} \cup J!Bars]
        /\ \A h \in Horizons : labels[b][h] # 0 => labels[b][h] > b /\ Ahead(b, labels[b][h], h, candles)

\* Until others write labels, what the labels there are stand for is loaded.
LabelsReached(j) ==
    place[j] \in {"load", "upsert", "progress", "labels"} /\ upserted[j] = {}
    => \A b \in DOMAIN labels : \A h \in Horizons :
           labels[b][h] # 0 => Ahead(b, labels[b][h], h, Reached(j))

\* Of the bars known to a job, those after the warm-up have their row or get it.
Between(a, b) == {c \in candles : a < c /\ c < b}
Written(j) ==
    place[j] \in {"start", "load", "upsert", "progress", "labels", "complete"}
      \/ jobs[j].status = "completed" =>
        \A b \in known[j] : Cardinality({c \in known[j] : c <= b}) > WarmupBars =>
            \/ b \in DOMAIN features
            \/ /\ place[j] \in {"start", "load"} /\ b > lastTime[j]
               /\ Cardinality(Between(lastTime[j], b)) >= WarmupBars
            \/ place[j] = "upsert" /\ \E k \in J!Valid(chunk[j]) : chunk[j][k] = b
            \/ /\ place[j] \in {"upsert", "progress"} /\ Len(chunk[j]) = ChunkSize
               /\ b > chunk[j][ChunkSize]

\* A job that has written its labels, alone, has labelled what it knew.
Labelled(j) ==
    (place[j] = "complete" \/ jobs[j].status = "completed") /\ upserted[j] = {j} =>
        \A b \in known[j], h \in Horizons :
            Cardinality({c \in known[j] : c > b}) >= h => b \in DOMAIN labels /\ labels[b][h] # 0

Bounded(j) ==
    /\ lastTime[j] \in {0} \cup J!Bars /\ known[j] \subseteq candles
    /\ chunk[j] \in Seq(J!Bars) /\ allCandles[j] \in Seq(J!Bars)

JobReads(j) ==
    /\ Loading(j) /\ ChunkLoaded(j) /\ Begins(j) /\ LabelsReached(j)
    /\ Written(j) /\ Labelled(j) /\ Bounded(j)

ReadInv ==
    /\ OnJobs(lastTime) /\ OnJobs(known) /\ OnJobs(chunk)
    /\ candles \subseteq J!Bars /\ LabelsStand
    /\ \A j \in Jobs : JobReads(j)

\* What the assumptions say of the constants the loop over the chunks uses.
LEMMA Windows ==
    /\ ChunkSize \in Nat \ {0} /\ WarmupBars \in Nat \ {0} /\ WarmupBars < ChunkSize
    /\ MinCandles \in Nat /\ Horizons \subseteq Nat \ {0} /\ \A h \in Horizons : h <= WarmupBars
BY BatchAssumption DEF J!JobAssumption, J!FeatureAssumption

\* A sequence of bars, its places and its bars.
LEMMA BarSequence ==
    ASSUME NEW c \in Seq(J!Bars)
    PROVE  /\ Len(c) \in Nat /\ DOMAIN c = 1..Len(c)
           /\ \A i \in 1..Len(c) : c[i] \in J!Bars /\ c[i] \in Nat \ {0} /\ c[i] \in Elements(c)
           /\ \A b \in Elements(c) : \E i \in 1..Len(c) : c[i] = b
           /\ Elements(c) \in SUBSET J!Bars
<1>1. Len(c) \in Nat /\ DOMAIN c = 1..Len(c) /\ \A i \in 1..Len(c) : c[i] \in J!Bars
  OBVIOUS
<1> QED BY <1>1, BarsFinite DEF Elements

\* A sequence is a, and after it c: its length, its places and its bars.
Concatenated(all, a, c) ==
    /\ all \in Seq(J!Bars) /\ Len(all) = Len(a) + Len(c)
    /\ \A i \in 1..Len(a) : all[i] = a[i]
    /\ \A i \in 1..Len(c) : all[Len(a) + i] = c[i]
    /\ \A i \in Len(a) + 1..Len(all) : i - Len(a) \in 1..Len(c) /\ all[i] = c[i - Len(a)]
    /\ Elements(all) = Elements(a) \cup Elements(c)

\* Appending a chunk keeps the places before it, and its own places follow.
LEMMA Appended ==
    ASSUME NEW a \in Seq(J!Bars), NEW c \in Seq(J!Bars)
    PROVE  Concatenated(a \o c, a, c)
<1> DEFINE all == a \o c
<1>1. all \in Seq(J!Bars) /\ Len(all) = Len(a) + Len(c)
  OBVIOUS
<1>2. Len(a) \in Nat /\ Len(c) \in Nat
  OBVIOUS
<1>3. \A i \in 1..Len(all) : all[i] = IF i <= Len(a) THEN a[i] ELSE c[i - Len(a)]
  BY <1>1, ConcatProperties
<1> HIDE DEF all
<1>4. \A i \in 1..Len(a) : all[i] = a[i]
  BY <1>1, <1>2, <1>3
<1>5. \A i \in Len(a) + 1..Len(all) : i - Len(a) \in 1..Len(c) /\ all[i] = c[i - Len(a)]
  BY <1>1, <1>2, <1>3
<1>6. \A i \in 1..Len(c) : all[Len(a) + i] = c[i]
  <2> TAKE i \in 1..Len(c)
  <2>1. Len(a) + i \in Len(a) + 1..Len(all) /\ Len(a) + i - Len(a) = i
    BY <1>1, <1>2
  <2> QED BY <1>5, <2>1
<1>7. Elements(all) = Elements(a) \cup Elements(c)
  <2>1. DOMAIN all = 1..Len(all) /\ DOMAIN a = 1..Len(a) /\ DOMAIN c = 1..Len(c)
    BY <1>1, BarSequence
  <2>2. \A i \in 1..Len(all) : i \in 1..Len(a) \/ i \in Len(a) + 1..Len(all)
    BY <1>1, <1>2
  <2>3. \A i \in 1..Len(a) : i \in 1..Len(all)
    BY <1>1, <1>2
  <2>4. \A i \in 1..Len(c) : Len(a) + i \in 1..Len(all)
    BY <1>1, <1>2
  <2>5. ASSUME NEW b \in Elements(all) PROVE b \in Elements(a) \cup Elements(c)
    <3>1. PICK i \in 1..Len(all) : all[i] = b
      BY <2>1 DEF Elements
    <3> QED BY <1>4, <1>5, <2>1, <2>2, <3>1 DEF Elements
  <2>6. Elements(a) \subseteq Elements(all)
    BY <1>4, <2>1, <2>3 DEF Elements
  <2>7. Elements(c) \subseteq Elements(all)
    BY <1>6, <2>1, <2>4 DEF Elements
  <2> QED BY <2>5, <2>6, <2>7
<1>8. Concatenated(all, a, c)
  BY <1>1, <1>4, <1>5, <1>6, <1>7 DEF Concatenated
<1> QED BY <1>8 DEF all

\* Of two sets of bars one within the other.
LEMMA CountGrows ==
    ASSUME NEW T \in SUBSET J!Bars, NEW S \in SUBSET T, NEW n \in Nat, Cardinality(S) >= n
    PROVE  Cardinality(T) >= n
<1> DEFINE s == Cardinality(S)
           t == Cardinality(T)
<1>1. s \in Nat /\ t \in Nat /\ s <= t
  BY PartSmaller
<1> HIDE DEF s, t
<1>2. s >= n => t >= n
  BY <1>1
<1> QED BY <1>2 DEF s, t

\* The loop over the chunks comes back to every bar it has not settled.
LEMMA LoadKeepsLoading ==
    ASSUME candles \subseteq J!Bars, NEW a \in Nat, NEW old \in Seq(J!Bars),
           NEW c, c = J!LoadCandlesAfter(a, ChunkSize), NEW all, Concatenated(all, old, c),
           Elements(old) \subseteq candles,
           \A i \in DOMAIN old : Settled(old, i) \/ Repeated(old, i) \/ old[i] > a,
           NEW i \in DOMAIN all
    PROVE  \/ Settled(all, i) \/ Repeated(all, i)
           \/ WarmupBars < Len(c) /\ Len(c) = ChunkSize /\ all[i] > J!NextAfter(c)
           \/ Len(c) < ChunkSize /\ Final(all, i)
<1> USE Windows
<1> DEFINE n == Len(old)
           m == Len(c)
           W == WarmupBars
<1>1. /\ c \in Seq(J!Bars) /\ m \in Nat /\ DOMAIN c = 1..m /\ Ascends(c) /\ m <= ChunkSize
      /\ Elements(c) \subseteq {b \in candles : b > a}
      /\ \A b \in candles : b > a /\ b \notin Elements(c) =>
             m = ChunkSize /\ \A k \in 1..m : c[k] < b
  <2>1. IsChunk(c, a, ChunkSize)
    BY Loaded
  <2> QED BY ONLY <2>1 DEF IsChunk
<1>2. /\ n \in Nat /\ DOMAIN old = 1..n /\ \A k \in 1..n : old[k] \in Nat /\ old[k] \in Elements(old)
      /\ \A k \in 1..m : c[k] \in Nat /\ c[k] \in Elements(c)
      /\ \A b \in Elements(c) : \E k \in 1..m : c[k] = b
  BY <1>1, BarSequence, Zenon
<1>3. /\ all \in Seq(J!Bars) /\ Len(all) = n + m
      /\ \A k \in 1..n : all[k] = old[k]
      /\ \A k \in n + 1..Len(all) : k - n \in 1..m /\ all[k] = c[k - n]
      /\ \A k \in 1..m : all[n + k] = c[k]
      /\ Elements(all) = Elements(old) \cup Elements(c)
  <2>1. Concatenated(all, old, c)
    BY Zenon
  <2> QED BY ONLY <2>1 DEF Concatenated
<1>0. n \in Nat /\ m \in Nat /\ W \in Nat \ {0}
  BY ONLY <1>1, <1>2, Windows
<1>4. DOMAIN all = 1..n + m /\ i \in 1..n + m
  BY <1>3, BarSequence
<1>5. \A k, l \in n + 1..n + m : k < l => all[k] < all[l]
  <2> SUFFICES ASSUME NEW k \in n + 1..n + m, NEW l \in n + 1..n + m, k < l PROVE all[k] < all[l]
    OBVIOUS
  <2>1. k - n \in 1..m /\ l - n \in 1..m /\ k - n < l - n
    <3> HIDE DEF n, m
    <3> QED BY <1>0
  <2>2. c[k - n] < c[l - n]
    BY ONLY <1>1, <2>1 DEF Ascends
  <2> QED BY <1>3, <2>2
<1>6. m = ChunkSize => W < m /\ J!NextAfter(c) = c[m - W] /\ m - W \in 1..m
  BY <1>1 DEF J!NextAfter
<1> HIDE DEF n, m, W
<1>7. CASE i \in 1..n
  <2>1. CASE Settled(old, i)
    <3>1. i + W <= n /\ \A k, l \in i..i + W : k < l => old[k] < old[l]
      BY <2>1 DEF Settled, n, W
    <3>2. i + W <= n + m /\ \A k \in i..i + W : k \in 1..n
      BY ONLY <1>0, <1>7, <3>1
    <3> QED BY <1>3, <3>1, <3>2 DEF Settled, W
  <2>2. CASE Repeated(old, i)
    <3>1. PICK k \in 1..n : k > i /\ old[k] = old[i]
      BY <1>2, <2>2 DEF Repeated
    <3>2. k \in 1..n + m /\ all[k] = all[i]
      BY ONLY <1>0, <1>3, <1>7, <3>1
    <3> QED BY <1>4, <3>1, <3>2 DEF Repeated
  <2>3. CASE old[i] > a
    <3>1. old[i] \in candles /\ all[i] = old[i]
      BY <1>2, <1>3, <1>7
    <3>2. CASE old[i] \in Elements(c)
      <4>1. PICK k \in 1..m : c[k] = old[i]
        BY <1>2, <3>2
      <4>2. n + k \in 1..n + m /\ n + k > i
        BY <1>0, <1>7
      <4>3. all[n + k] = all[i]
        BY <1>3, <3>1, <4>1
      <4> QED BY <1>4, <4>2, <4>3 DEF Repeated
    <3>3. CASE old[i] \notin Elements(c)
      <4>1. m = ChunkSize /\ \A k \in 1..m : c[k] < old[i]
        BY <1>1, <2>3, <3>1, <3>3
      <4>2. c[m - W] < all[i] /\ c[m - W] \in Nat /\ all[i] \in Nat
        BY <1>2, <1>6, <1>7, <3>1, <4>1
      <4> QED BY <1>6, <4>1, <4>2 DEF m, W
    <3> QED BY <3>2, <3>3
  <2> QED BY <1>2, <1>7, <2>1, <2>2, <2>3
<1>8. CASE i \in n + 1..n + m
  <2>1. i - n \in 1..m /\ all[i] = c[i - n]
    BY <1>3, <1>8
  <2>2. CASE i + W <= n + m
    <3>1. \A k \in i..i + W : k \in n + 1..n + m
      BY <1>2, <1>1, <1>8, <2>2 DEF W
    <3> QED BY <1>3, <1>5, <2>2, <3>1 DEF Settled, W
  <2>3. CASE ~(i + W <= n + m) /\ m = ChunkSize
    <3>1. m - W \in 1..m /\ m - W < i - n
      <4>1. m - W \in 1..m
        BY <1>6, <2>3
      <4>2. i \in Nat
        BY <1>0, <1>8
      <4> QED BY <1>0, <2>3, <4>1, <4>2
    <3>2. c[m - W] < c[i - n]
      BY <1>1, <2>1, <3>1 DEF Ascends
    <3>3. c[m - W] \in Nat /\ c[i - n] \in Nat
      BY <1>2, <2>1, <3>1
    <3> QED BY <1>6, <2>1, <2>3, <3>2, <3>3 DEF m, W
  <2>4. CASE m < ChunkSize
    <3>1. \A k, l \in i..Len(all) : k < l => all[k] < all[l]
      <4>1. \A k \in i..Len(all) : k \in n + 1..n + m
        BY <1>1, <1>2, <1>3, <1>8
      <4> QED BY <1>5, <4>1
    <3>2. ASSUME NEW b \in Elements(all), b > all[i] PROVE \E k \in DOMAIN all : k > i /\ all[k] = b
      <4>1. b \in candles /\ c[i - n] \in candles /\ c[i - n] > a /\ b > c[i - n]
        BY <1>1, <1>2, <1>3, <2>1, <3>2
      <4>2. b \in Nat /\ c[i - n] \in Nat
        BY <4>1, BarsFinite
      <4>3. b > a
        BY <4>1, <4>2
      <4>4. b \in Elements(c)
        BY <1>1, <2>4, <4>1, <4>3
      <4>5. PICK k \in 1..m : c[k] = b
        BY <1>2, <4>4
      <4>6. ~(k < i - n) /\ k # i - n
        <5>1. k < i - n => c[k] < c[i - n]
          BY <1>1, <2>1 DEF Ascends
        <5> QED BY <4>1, <4>2, <4>5, <5>1
      <4>7. n + k \in 1..n + m /\ n + k > i
        <5>1. i \in Nat
          BY <1>0, <1>8
        <5> QED BY <1>0, <4>6, <5>1
      <4> QED BY <1>3, <1>4, <4>5, <4>7
    <3> QED BY <2>4, <3>1, <3>2 DEF Final, m
  <2>5. m = ChunkSize \/ m < ChunkSize
    BY ONLY <1>0, <1>1, Windows
  <2> QED BY <2>2, <2>3, <2>4, <2>5, Zenon
<1> QED BY <1>1, <1>2, <1>4, <1>7, <1>8

\* More bars still hold those a label stands for.
LEMMA AheadGrows ==
    ASSUME NEW T \in SUBSET J!Bars, NEW S \in SUBSET T, NEW b, NEW x, NEW h \in Nat, Ahead(b, x, h, S)
    PROVE  Ahead(b, x, h, T)
<1> DEFINE A == S \cap b + 1..x
           B == T \cap b + 1..x
<1>1. B \in SUBSET J!Bars /\ A \in SUBSET B /\ Cardinality(A) >= h
  BY DEF Ahead
<1> HIDE DEF A, B
<1>2. Cardinality(B) >= h
  BY <1>1, CountGrows
<1> QED BY <1>2 DEF Ahead, B

\* A job that has failed or ended without completing has nothing more to keep.
LEMMA Stopped ==
    ASSUME NEW j \in Jobs, JobReads(j), candles \subseteq candles', known'[j] \subseteq candles',
           UNCHANGED <<lastTime, chunk>>, allCandles'[j] \in Seq(J!Bars),
           Elements(allCandles'[j]) \subseteq candles',
           place'[j] \in {"fail", "ended"}, jobs'[j].status # "completed"
    PROVE  JobReads(j)'
<1> USE DEF JobReads
<1>1. Loading(j)' /\ ChunkLoaded(j)' /\ LabelsReached(j)' /\ Written(j)' /\ Labelled(j)'
  BY DEF Loading, ChunkLoaded, LabelsReached, Written, Labelled
<1>2. Begins(j)'
  BY DEF Begins
<1>3. Bounded(j)'
  BY DEF Bounded
<1> QED BY <1>1, <1>2, <1>3

\* A bar after the warm-up is at a place of the chunk that gets its row.
LEMMA WrittenWhenLoaded ==
    ASSUME candles \subseteq J!Bars, NEW a \in Nat, NEW b \in candles, b > a,
           Cardinality(Between(a, b)) >= WarmupBars,
           NEW c, c = J!LoadCandlesAfter(a, ChunkSize)
    PROVE  \/ \E k \in J!Valid(c) : c[k] = b
           \/ Len(c) = ChunkSize /\ b > c[ChunkSize]
<1>1. /\ c \in Seq(J!Bars) /\ Len(c) \in Nat
      /\ \A x \in candles : x > a /\ x \notin Elements(c) =>
             Len(c) = ChunkSize /\ \A k \in 1..Len(c) : c[k] < x
      /\ \A k \in 1..Len(c) : Cardinality({x \in candles : a < x /\ x <= c[k]}) = k
  <2>1. IsChunk(c, a, ChunkSize)
    BY Loaded, Windows
  <2> QED BY <2>1 DEF IsChunk
<1>2. /\ \A k \in 1..Len(c) : c[k] \in Nat
      /\ \A x \in Elements(c) : \E i \in 1..Len(c) : c[i] = x
  BY <1>1, BarSequence
<1>3. CASE b \notin Elements(c)
  <2>1. Len(c) = ChunkSize /\ \A k \in 1..Len(c) : c[k] < b
    BY <1>1, <1>3
  <2>2. ChunkSize \in 1..Len(c)
    BY <2>1, Windows
  <2>3. c[ChunkSize] < b /\ c[ChunkSize] \in Nat /\ b \in Nat
    BY <1>2, <2>1, <2>2, BarsFinite
  <2> QED BY <2>1, <2>3
<1>4. CASE b \in Elements(c)
  <2>1. PICK k \in 1..Len(c) : c[k] = b
    BY <1>2, <1>4
  <2> DEFINE A == Between(a, b)
             B == {x \in candles : a < x /\ x <= c[k]}
  <2>2. Cardinality(B) = k
    BY <1>1
  <2>3. B \in SUBSET J!Bars /\ A \in SUBSET B /\ b \in B /\ b \notin A
    <3>1. candles \subseteq Nat
      BY BarsFinite
    <3>2. \A x \in candles : x < b => x <= c[k]
      BY <2>1, <3>1
    <3>3. b <= c[k] /\ ~(b < b)
      BY <2>1, <3>1
    <3>4. B \in SUBSET J!Bars
      OBVIOUS
    <3> QED BY <3>2, <3>3, <3>4 DEF Between
  <2> HIDE DEF A, B
  <2>4. Cardinality(A) < Cardinality(B) /\ Cardinality(A) \in Nat
    BY <2>3, PartSmaller
  <2>5. WarmupBars < k
    <3> DEFINE u == Cardinality(A)
    <3>1. u \in Nat /\ u < k /\ u >= WarmupBars
      BY <2>2, <2>4 DEF A
    <3> HIDE DEF u
    <3> QED BY <3>1, Windows
  <2>6. k \in J!Valid(c)
    BY <1>1, <2>5, Windows DEF J!Valid
  <2> QED BY <2>1, <2>6
<1> QED BY <1>3, <1>4

\* What a chunk that was loaded does to the job that loaded it.
LEMMA ChunkReads ==
    ASSUME ReadInv, NEW j \in Jobs, place[j] = "load", jobs[j].status # "completed",
           NEW c, c = J!LoadCandlesAfter(lastTime[j], ChunkSize),
           UNCHANGED <<candles, features, labels, jobs, lastTime, known>>,
           chunk'[j] = c, allCandles'[j] = allCandles[j] \o c,
           upserted'[j] = IF lastTime[j] = 0 THEN {} ELSE upserted[j],
           \/ place'[j] = "labels" /\ Len(c) <= WarmupBars
           \/ place'[j] = "upsert" /\ Len(c) > WarmupBars
    PROVE  JobReads(j)'
<1> DEFINE a == lastTime[j]
           old == allCandles[j]
           all == old \o c
<1>1. candles \subseteq J!Bars /\ LabelsStand /\ JobReads(j)
  BY DEF ReadInv
<1>2. a \in Nat /\ old \in Seq(J!Bars) /\ lastTime'[j] = a /\ known'[j] = known[j]
  <2>1. a \in {0} \cup J!Bars /\ old \in Seq(J!Bars)
    BY <1>1 DEF JobReads, Bounded
  <2>2. J!Bars \subseteq Nat
    BY BarsFinite
  <2>3. a \in Nat
    <3> HIDE DEF a
    <3> QED BY <2>1, <2>2
  <2> QED BY <2>1, <2>3
<1>3. /\ c \in Seq(J!Bars) /\ Len(c) \in Nat /\ DOMAIN c = 1..Len(c) /\ Ascends(c)
      /\ Len(c) <= ChunkSize
      /\ Elements(c) \subseteq {b \in candles : b > a}
      /\ \A b \in candles : b > a /\ b \notin Elements(c) =>
             Len(c) = ChunkSize /\ \A k \in 1..Len(c) : c[k] < b
  <2>1. IsChunk(c, lastTime[j], ChunkSize)
    BY <1>1, <1>2, Loaded, Windows
  <2> QED BY <2>1 DEF IsChunk
<1>c. Concatenated(all, old, c)
  BY <1>2, <1>3, Appended
<1>4. all \in Seq(J!Bars) /\ Elements(all) = Elements(old) \cup Elements(c)
  BY ONLY <1>c DEF Concatenated
<1>5. Elements(old) \subseteq candles /\ j \notin upserted[j] /\ known[j] \subseteq Reached(j)
        /\ (a = 0 => old = << >>)
  BY <1>1 DEF JobReads, Begins
<1>6. \A b : ToRead(j, b) <=> b > a
  BY DEF ToRead
<1>7. \A b : ToRead(j, b)' <=> place'[j] = "upsert" /\ Len(c) = ChunkSize /\ b > J!NextAfter(c)
  BY DEF ToRead
<1>8. Loading(j)'
  <2>1. \A i \in DOMAIN old : Settled(old, i) \/ Repeated(old, i) \/ old[i] > a
    BY <1>1, <1>6 DEF JobReads, Loading
  <2> SUFFICES ASSUME NEW i \in DOMAIN all
               PROVE  \/ Settled(all, i) \/ Repeated(all, i)
                      \/ place'[j] = "upsert" /\ Len(c) = ChunkSize /\ all[i] > J!NextAfter(c)
                      \/ /\ place'[j] = "labels" \/ (place'[j] # "load" /\ Len(c) < ChunkSize)
                         /\ Final(all, i)
    <3>1. allCandles'[j] = all /\ chunk'[j] = c
      OBVIOUS
    <3>2. \A i \in DOMAIN all :
             ToRead(j, allCandles[j][i])' <=> /\ place'[j] = "upsert" /\ Len(c) = ChunkSize
                                              /\ all[i] > J!NextAfter(c)
      BY <3>1 DEF ToRead
    <3> HIDE DEF all
    <3> QED BY <3>1, <3>2 DEF Loading
  <2>2. \/ Settled(all, i) \/ Repeated(all, i)
        \/ WarmupBars < Len(c) /\ Len(c) = ChunkSize /\ all[i] > J!NextAfter(c)
        \/ Len(c) < ChunkSize /\ Final(all, i)
    <3> HIDE DEF all
    <3> QED BY <1>1, <1>2, <1>5, <1>c, <2>1, LoadKeepsLoading
  <2>3. WarmupBars < Len(c) => place'[j] = "upsert"
    BY <1>3, Windows
  <2>4. place'[j] # "load"
    OBVIOUS
  <2>5. place'[j] = "upsert" \/ place'[j] = "labels"
    OBVIOUS
  <2> HIDE DEF all
  <2> QED BY <2>2, <2>3, <2>4, <2>5
<1>9. ChunkLoaded(j)'
  <2>1. place'[j] \in {"upsert", "progress"} => WarmupBars < Len(c)
    BY <1>3, Windows
  <2> HIDE DEF all
  <2>2. Elements(c) \subseteq Elements(all)
    BY <1>4
  <2> QED BY <1>3, <2>1, <2>2 DEF ChunkLoaded, all
<1>10. Reached(j) \subseteq Reached(j)' /\ Reached(j)' \subseteq candles
  <2>1. Reached(j)' = {b \in candles : b \in Elements(all) \/ ToRead(j, b)'}
    BY DEF Reached
  <2>2. ASSUME NEW b \in candles, b > a, b \notin Elements(c) PROVE ToRead(j, b)'
    <3>1. Len(c) = ChunkSize /\ \A k \in 1..Len(c) : c[k] < b
      BY <1>3, <2>2
    <3>2. Len(c) - WarmupBars \in 1..Len(c) /\ place'[j] = "upsert"
      BY <3>1, Windows
    <3>3. J!NextAfter(c) < b /\ J!NextAfter(c) \in Nat /\ b \in Nat
      BY <1>1, <1>3, <3>1, <3>2, BarSequence, BarsFinite DEF J!NextAfter
    <3> QED BY <1>7, <3>1, <3>2, <3>3
  <2> HIDE DEF all
  <2> QED BY <1>4, <1>6, <2>1, <2>2 DEF Reached
<1>11. Begins(j)'
  <2>1. j \notin upserted'[j]
    BY <1>5
  <2>2. Elements(all) \subseteq candles
    BY <1>3, <1>4, <1>5
  <2>3. known'[j] \subseteq Reached(j)'
    BY <1>2, <1>5, <1>10
  <2> HIDE DEF all
  <2> QED BY <2>1, <2>2, <2>3 DEF Begins, all
<1>12. LabelsReached(j)'
  <2> SUFFICES ASSUME upserted'[j] = {}, NEW b \in DOMAIN labels, NEW h \in Horizons, labels[b][h] # 0
               PROVE  Ahead(b, labels[b][h], h, Reached(j)')
    BY DEF LabelsReached
  <2>1. h \in Nat
    BY Windows
  <2>2. Ahead(b, labels[b][h], h, Reached(j))
    <3>1. CASE a = 0
      <4>1. Reached(j) = candles
        <5>1. \A b1 \in candles : b1 > 0
          BY <1>1, BarsFinite
        <5> QED BY <1>6, <3>1, <5>1 DEF Reached
      <4> QED BY <1>1, <4>1 DEF LabelsStand
    <3>2. CASE a # 0
      BY <1>1, <3>2 DEF JobReads, LabelsReached
    <3> QED BY <3>1, <3>2
  <2> QED BY <1>1, <1>10, <2>1, <2>2, AheadGrows
<1>13. Written(j)'
  <2> SUFFICES ASSUME NEW b \in known[j],
                      Cardinality({x \in known[j] : x <= b}) > WarmupBars, b \notin DOMAIN features
               PROVE  /\ place'[j] = "upsert"
                      /\ \/ \E k \in J!Valid(c) : c[k] = b
                         \/ Len(c) = ChunkSize /\ b > c[ChunkSize]
    BY <1>2 DEF Written
  <2>1. b > a /\ Cardinality(Between(a, b)) >= WarmupBars
    BY <1>1 DEF JobReads, Written
  <2>2. b \in candles
    BY <1>1 DEF JobReads, Bounded
  <2>3. \/ \E k \in J!Valid(c) : c[k] = b
        \/ Len(c) = ChunkSize /\ b > c[ChunkSize]
    BY <1>1, <1>2, <2>1, <2>2, WrittenWhenLoaded
  <2>4. Len(c) > WarmupBars
    BY <1>3, <2>3, Windows DEF J!Valid
  <2>5. place'[j] = "upsert"
    BY <1>3, <2>4, Windows
  <2> QED BY <2>3, <2>5
<1>14. Labelled(j)' /\ Bounded(j)'
  <2> HIDE DEF all
  <2>1. Labelled(j)'
    BY DEF Labelled
  <2>2. Bounded(j)'
    BY <1>1, <1>2, <1>3, <1>4 DEF JobReads, Bounded, all
  <2> QED BY <2>1, <2>2
<1> QED BY <1>8, <1>9, <1>11, <1>12, <1>13, <1>14 DEF JobReads

-----------------------------------------------------------------------------
(***************************************************************************)
(* What the steps of others, and of the loop, leave of it.                 *)
(***************************************************************************)
\* What the steps of others may do to what a job reads: store candles, write features, and
\* write labels if that is recorded.
LEMMA OthersRead ==
    ASSUME NEW k \in Jobs, JobReads(k), candles \subseteq candles', candles' \subseteq J!Bars,
           DOMAIN features \subseteq DOMAIN features',
           lastTime'[k] = lastTime[k], chunk'[k] = chunk[k], allCandles'[k] = allCandles[k],
           known'[k] = known[k], place'[k] = place[k], jobs'[k].status = jobs[k].status,
           \/ labels' = labels /\ upserted'[k] = upserted[k]
           \/ \E i \in Jobs : i # k /\ upserted'[k] = upserted[k] \cup {i}
    PROVE  JobReads(k)'
<1> USE DEF JobReads
<1>1. \A b : ToRead(k, b)' <=> ToRead(k, b)
  BY DEF ToRead
<1>2. Reached(k) \subseteq Reached(k)' /\ Reached(k)' \in SUBSET J!Bars
  BY <1>1 DEF Reached
<1>3. Loading(k)'
  <2>1. \A b \in Elements(allCandles[k]) : ToRead(k, b)' <=> ToRead(k, b)
    BY <1>1
  <2>2. \A i \in DOMAIN allCandles[k] : ToRead(k, allCandles[k][i])' <=> ToRead(k, allCandles[k][i])
    BY DEF ToRead
  <2> QED BY <2>2 DEF Loading
<1>4. ChunkLoaded(k)' /\ Bounded(k)'
  BY DEF ChunkLoaded, Bounded
<1>5. Begins(k)'
  <2>1. k \in upserted'[k] => k \in upserted[k]
    OBVIOUS
  <2> QED BY <1>2, <2>1 DEF Begins
<1>6. LabelsReached(k)'
  <2> SUFFICES ASSUME place[k] \in {"load", "upsert", "progress", "labels"}, upserted'[k] = {},
                      NEW b \in DOMAIN labels', NEW h \in Horizons, labels'[b][h] # 0
               PROVE  Ahead(b, labels'[b][h], h, Reached(k)')
    BY DEF LabelsReached
  <2>1. labels' = labels /\ upserted[k] = {} /\ h \in Nat
    BY Windows
  <2>2. Ahead(b, labels'[b][h], h, Reached(k))
    BY <2>1 DEF LabelsReached
  <2> QED BY <1>2, <2>1, <2>2, AheadGrows
<1>7. Written(k)'
  <2> SUFFICES ASSUME place[k] \in {"start", "load", "upsert", "progress", "labels", "complete"}
                          \/ jobs[k].status = "completed",
                      NEW b \in known[k], Cardinality({c \in known[k] : c <= b}) > WarmupBars,
                      b \notin DOMAIN features'
               PROVE  \/ /\ place[k] \in {"start", "load"} /\ b > lastTime[k]
                         /\ Cardinality(Between(lastTime[k], b)') >= WarmupBars
                      \/ place[k] = "upsert" /\ \E i \in J!Valid(chunk[k]) : chunk[k][i] = b
                      \/ /\ place[k] \in {"upsert", "progress"} /\ Len(chunk[k]) = ChunkSize
                         /\ b > chunk[k][ChunkSize]
    BY DEF Written, Between
  <2>1. \/ /\ place[k] \in {"start", "load"} /\ b > lastTime[k]
           /\ Cardinality(Between(lastTime[k], b)) >= WarmupBars
        \/ place[k] = "upsert" /\ \E i \in J!Valid(chunk[k]) : chunk[k][i] = b
        \/ /\ place[k] \in {"upsert", "progress"} /\ Len(chunk[k]) = ChunkSize
           /\ b > chunk[k][ChunkSize]
    BY DEF Written
  <2>2. Cardinality(Between(lastTime[k], b)) >= WarmupBars
        => Cardinality(Between(lastTime[k], b)') >= WarmupBars
    <3>1. Between(lastTime[k], b) \subseteq Between(lastTime[k], b)'
            /\ Between(lastTime[k], b)' \subseteq J!Bars
      BY DEF Between
    <3> QED BY <3>1, CountGrows, Windows
  <2> QED BY <2>1, <2>2
<1>8. Labelled(k)'
  <2>1. upserted'[k] = {k} => labels' = labels /\ upserted[k] = {k}
    OBVIOUS
  <2> QED BY <2>1 DEF Labelled
<1> QED BY <1>3, <1>4, <1>5, <1>6, <1>7, <1>8

\* The rows of a chunk are written before the next is loaded.
LEMMA UpsertReads ==
    ASSUME NEW j \in Jobs, JobReads(j), candles \subseteq J!Bars, jobs[j].status # "completed",
           place[j] = "upsert", place'[j] = "progress",
           features' = J!UpsertFeatures(chunk[j]),
           UNCHANGED <<candles, labels, jobs, lastTime, chunk, allCandles, known, upserted>>
    PROVE  JobReads(j)'
<1> USE DEF JobReads
<1>1. \A b : ToRead(j, b)' <=> ToRead(j, b)
  BY DEF ToRead
<1>2. Reached(j)' = Reached(j)
  BY <1>1 DEF Reached
<1>3. Loading(j)'
  <2>1. \A i \in DOMAIN allCandles[j] : ToRead(j, allCandles[j][i])' <=> ToRead(j, allCandles[j][i])
    BY DEF ToRead
  <2> QED BY <2>1 DEF Loading
<1>4. ChunkLoaded(j)' /\ Bounded(j)' /\ Labelled(j)'
  BY DEF ChunkLoaded, Bounded, Labelled
<1>5. Begins(j)'
  BY <1>2 DEF Begins
<1>6. LabelsReached(j)'
  BY <1>2 DEF LabelsReached
<1>7. Written(j)'
  <2>1. DOMAIN features' = DOMAIN features \cup {chunk[j][k] : k \in J!Valid(chunk[j])}
    BY DEF J!UpsertFeatures
  <2> QED BY <2>1 DEF Written
<1> QED BY <1>3, <1>4, <1>5, <1>6, <1>7

\* The next chunk begins as many bars before the end of this one as the warm-up has.
LEMMA ProgressReads ==
    ASSUME NEW j \in Jobs, JobReads(j), candles \subseteq J!Bars,
           jobs[j].status # "completed", jobs'[j].status # "completed",
           place[j] = "progress",
           UNCHANGED <<candles, features, labels, chunk, allCandles, known, upserted>>,
           \/ Len(chunk[j]) < ChunkSize /\ place'[j] = "labels" /\ lastTime'[j] = lastTime[j]
           \/ ~(Len(chunk[j]) < ChunkSize) /\ place'[j] = "load" /\ lastTime'[j] = J!NextAfter(chunk[j])
    PROVE  JobReads(j)'
<1> USE DEF JobReads
<1> DEFINE c == chunk[j]
           from == J!NextAfter(c)
<1>1. /\ c \in Seq(J!Bars) /\ Ascends(c) /\ Elements(c) \subseteq candles
      /\ WarmupBars < Len(c) /\ Len(c) <= ChunkSize /\ Len(c) \in Nat
      /\ DOMAIN c = 1..Len(c)
  BY BarSequence DEF ChunkLoaded, Bounded, Begins
<1>2. Len(c) < ChunkSize \/ Len(c) = ChunkSize
  BY <1>1, Windows
<1>3. from = c[Len(c) - WarmupBars] /\ Len(c) - WarmupBars \in 1..Len(c) /\ from \in J!Bars /\ from # 0
        /\ from \in Nat
  <2>1. Len(c) - WarmupBars \in 1..Len(c)
    BY <1>1, Windows
  <2>2. c[Len(c) - WarmupBars] \in J!Bars /\ c[Len(c) - WarmupBars] \in Nat \ {0}
    BY <1>1, <2>1, BarSequence
  <2> QED BY <2>1, <2>2 DEF J!NextAfter
<1>4. \A b : ToRead(j, b)' <=> ToRead(j, b)
  BY <1>1, <1>2, Windows DEF ToRead
<1>5. Reached(j)' = Reached(j)
  BY <1>4 DEF Reached
<1>6. Loading(j)'
  <2>1. \A i \in DOMAIN allCandles[j] : ToRead(j, allCandles[j][i])' <=> ToRead(j, allCandles[j][i])
    BY <1>1, <1>2, Windows DEF ToRead
  <2> QED BY <2>1 DEF Loading
<1>7. ChunkLoaded(j)' /\ Labelled(j)'
  BY DEF ChunkLoaded, Labelled
<1>8. Bounded(j)'
  BY <1>3 DEF Bounded
<1>9. Begins(j)'
  BY <1>3, <1>5 DEF Begins
<1>10. LabelsReached(j)'
  BY <1>5 DEF LabelsReached
<1>11. Written(j)'
  <2> SUFFICES ASSUME NEW b \in known[j], Len(c) = ChunkSize, b > c[ChunkSize]
               PROVE  b > from /\ Cardinality(Between(from, b)) >= WarmupBars
    <3>1. ASSUME NEW b \in known[j], Cardinality({x \in known[j] : x <= b}) > WarmupBars
          PROVE  \/ b \in DOMAIN features
                 \/ Len(c) = ChunkSize /\ b > c[ChunkSize]
      BY <3>1 DEF Written
    <3>2. Len(c) = ChunkSize => place'[j] = "load" /\ lastTime'[j] = from
      BY <1>1, Windows
    <3>3. \A b : Between(from, b)' = Between(from', b)
      BY DEF Between
    <3>4. from' = from
      OBVIOUS
    <3> HIDE DEF from, c
    <3> QED BY <3>1, <3>2, <3>3, <3>4 DEF Written
  <2> DEFINE lo == ChunkSize - WarmupBars
             T == {c[k] : k \in lo + 1..ChunkSize}
  <2>1. lo \in Nat /\ lo \in 1..Len(c) /\ lo <= ChunkSize /\ ChunkSize - lo = WarmupBars
          /\ from = c[lo] /\ ChunkSize \in 1..Len(c)
    BY <1>1, <1>3, Windows
  <2>2. \A k \in lo + 1..ChunkSize : k \in 1..Len(c) /\ lo < k
    BY <1>1, <2>1
  <2>3. \A k \in 1..Len(c) : c[k] \in J!Bars /\ c[k] \in candles /\ c[k] \in Nat
    BY <1>1, BarSequence
  <2>4. \A k, m \in 1..Len(c) : k < m => c[k] < c[m]
    BY <1>1 DEF Ascends
  <2>5. b \in Nat
    BY BarsFinite DEF Bounded
  <2> HIDE DEF c, lo
  <2>6. Cardinality(T) = WarmupBars
    <3>1. Cardinality(T) = ChunkSize - lo
      <4>1. \A k \in lo + 1..ChunkSize : c[k] \in J!Bars
        BY <2>2, <2>3
      <4>2. \A k, m \in lo + 1..ChunkSize : k < m => c[k] < c[m]
        BY <2>2, <2>4
      <4>4. Stretch(c, lo, ChunkSize)
        BY <4>1, <4>2 DEF Stretch
      <4>3. T = StretchBars(c, lo, ChunkSize)
        BY DEF StretchBars
      <4> HIDE DEF T
      <4> QED BY <2>1, <4>3, <4>4, StretchCount, Windows
    <3> QED BY <2>1, <3>1
  <2>7. T \subseteq Between(from, b)
    <3>1. \A k \in lo + 1..ChunkSize : c[k] \in candles /\ from < c[k]
      BY <2>1, <2>2, <2>3, <2>4
    <3>2. ASSUME NEW k \in lo + 1..ChunkSize PROVE c[k] < b
      <4>1. k \in 1..Len(c) /\ k \in Nat /\ (k < ChunkSize \/ k = ChunkSize)
        BY <2>1, <2>2, Windows
      <4>2. c[k] \in Nat /\ c[ChunkSize] \in Nat /\ (c[k] < c[ChunkSize] \/ c[k] = c[ChunkSize])
        BY <2>1, <2>3, <2>4, <4>1
      <4> QED BY <2>5, <4>2
    <3> QED BY <3>1, <3>2 DEF Between
  <2>8. Between(from, b) \in SUBSET J!Bars
    BY DEF Between
  <2> HIDE DEF T
  <2>9. Cardinality(T) >= WarmupBars
    BY <2>6, Windows
  <2>10. Cardinality(Between(from, b)) >= WarmupBars
    BY <2>7, <2>8, <2>9, CountGrows, Windows
  <2>11. b > from
    <3>1. lo < ChunkSize
      BY <2>1, Windows
    <3>2. c[lo] < c[ChunkSize] /\ c[lo] \in Nat /\ c[ChunkSize] \in Nat
      BY <2>1, <2>3, <2>4, <3>1
    <3> QED BY <2>1, <2>5, <3>2
  <2> QED BY <2>10, <2>11
<1> QED BY <1>6, <1>7, <1>8, <1>9, <1>10, <1>11

-----------------------------------------------------------------------------
(***************************************************************************)
(* The labels a job writes.                                                *)
(***************************************************************************)
\* A set of numbers that is not empty has a least one.
LEMMA LeastNumber ==
    ASSUME NEW T, T \subseteq Nat, T # {}
    PROVE  \E x \in T : \A y \in T : x <= y
<1> DEFINE R == OpToRel(<, Nat)
<1>1. IsWellFoundedOn(R, Nat)
  BY NatLessThanWellFounded
<1>2. \A x, y \in Nat : y < x => <<y, x>> \in R
  BY DEF OpToRel
<1> HIDE DEF R
<1>3. PICK x \in T : \A y \in T : ~ (<<y, x>> \in R)
  BY <1>1, WFMin
<1>4. x \in Nat /\ \A y \in T : y \in Nat /\ ~(y < x)
  BY <1>2, <1>3
<1>5. \A y \in T : x <= y
  BY <1>4
<1> QED BY <1>5

\* The last place of a bar.
LEMMA LastPlace ==
    ASSUME NEW c \in Seq(J!Bars), NEW b \in Elements(c), NEW i, i = J!LastOf(c, b)
    PROVE  i \in 1..Len(c) /\ c[i] = b /\ ~Repeated(c, i)
<1> DEFINE n == Len(c)
           T == {k \in 0..n - 1 : c[n - k] = b}
<1>1. n \in Nat /\ DOMAIN c = 1..n
  BY BarSequence
<1>2. T \subseteq Nat /\ T # {}
  <2>1. PICK k \in 1..n : c[k] = b
    BY BarSequence
  <2>2. n - k \in 0..n - 1 /\ n - (n - k) = k
    BY <1>1
  <2>3. n - k \in T
    BY <2>1, <2>2
  <2>4. T \subseteq Nat
    <3> HIDE DEF n
    <3> QED BY <1>1
  <2> QED BY <2>3, <2>4
<1>3. PICK l \in T : \A y \in T : l <= y
  <2> HIDE DEF T
  <2> QED BY <1>2, LeastNumber
<1>4. n - l \in 1..n /\ c[n - l] = b
  BY <1>1, <1>3
<1>5. \A k \in 1..n : c[k] = b => k <= n - l
  <2> TAKE k \in 1..n
  <2> HAVE c[k] = b
  <2>1. n - k \in 0..n - 1 /\ n - (n - k) = k
    BY <1>1
  <2>2. n - k \in T
    BY <2>1
  <2>3. l <= n - k /\ l \in Nat
    BY <1>2, <1>3, <2>2
  <2> QED BY <1>1, <2>3
<1> HIDE DEF n, T
<1>6. \E k \in DOMAIN c : c[k] = b /\ \A m \in DOMAIN c : c[m] = b => m <= k
  BY <1>1, <1>4, <1>5
<1>7. i \in DOMAIN c /\ c[i] = b /\ \A m \in DOMAIN c : c[m] = b => m <= i
  BY <1>6 DEF J!LastOf
<1>8. ~Repeated(c, i)
  <2> SUFFICES ASSUME NEW k \in DOMAIN c, k > i, c[k] = c[i] PROVE FALSE
    BY DEF Repeated
  <2>1. k <= i
    BY <1>7
  <2>2. k \in Nat /\ i \in Nat
    BY <1>1, <1>7
  <2> QED BY <2>1, <2>2
<1> QED BY <1>1, <1>7, <1>8 DEF n

\* What a settled or final place is labelled with: the bar h places further lies ahead, with
\* at least h bars up to it; and without such a place fewer than h loaded bars follow.
LEMMA LabelAt ==
    ASSUME candles \subseteq J!Bars, NEW all \in Seq(J!Bars), Elements(all) \subseteq candles,
           NEW i \in 1..Len(all), Settled(all, i) \/ Final(all, i), NEW h \in Horizons
    PROVE  /\ i + h <= Len(all) =>
                  /\ all[i + h] \in J!Bars /\ all[i + h] > all[i]
                  /\ Ahead(all[i], all[i + h], h, candles)
           /\ ~(i + h <= Len(all)) => ~(Cardinality({x \in Elements(all) : x > all[i]}) >= h)
<1> DEFINE n == Len(all)
           b == all[i]
<1>0. h \in Nat \ {0} /\ h <= WarmupBars /\ WarmupBars \in Nat
  BY Windows
<1>1. n \in Nat /\ i \in Nat /\ \A k \in 1..n : all[k] \in J!Bars /\ all[k] \in candles /\ all[k] \in Nat
  BY BarSequence
<1>2. ASSUME i + h <= n
      PROVE  all[i + h] \in J!Bars /\ all[i + h] > b /\ Ahead(b, all[i + h], h, candles)
  <2> DEFINE x == all[i + h]
             T == {all[k] : k \in i + 1..i + h}
  <2>1. \A k, m \in i..i + h : k < m => all[k] < all[m]
    <3>1. CASE Settled(all, i)
      <4>1. \A k \in i..i + h : k \in i..i + WarmupBars
        BY <1>0, <1>1
      <4> QED BY <3>1, <4>1 DEF Settled
    <3>2. CASE Final(all, i)
      <4>1. \A k \in i..i + h : k \in i..n
        BY <1>0, <1>1, <1>2
      <4> QED BY <3>2, <4>1 DEF Final
    <3> QED BY <3>1, <3>2
  <2>2. i + h \in i..i + h /\ i \in i..i + h /\ i < i + h /\ i + h \in 1..n /\ i + h \in Nat
          /\ i <= i + h /\ i + h - i = h
    BY <1>0, <1>1, <1>2
  <2>3. \A k \in i + 1..i + h : k \in i..i + h /\ k \in 1..n /\ i < k /\ (k < i + h \/ k = i + h)
    BY <1>0, <1>1, <1>2
  <2>4. x \in J!Bars /\ x > b /\ x \in Nat
    BY <1>1, <2>1, <2>2
  <2>5. Stretch(all, i, i + h)
    BY <1>1, <2>1, <2>3 DEF Stretch
  <2>6. T = StretchBars(all, i, i + h)
    BY DEF StretchBars
  <2>7. T \subseteq candles \cap b + 1..x
    <3> SUFFICES ASSUME NEW k \in i + 1..i + h PROVE all[k] \in candles /\ all[k] \in b + 1..x
      OBVIOUS
    <3>1. all[k] \in candles /\ all[k] \in Nat /\ b \in Nat /\ b < all[k] /\ (all[k] < x \/ all[k] = x)
      BY <1>1, <2>1, <2>2, <2>3
    <3> HIDE DEF x, b
    <3> QED BY <2>4, <3>1
  <2> HIDE DEF T, x, b, n
  <2>8. T \in SUBSET J!Bars /\ Cardinality(T) = h
    <3> DEFINE e == i + h
    <3>1. e \in Nat /\ i <= e /\ e - i = h
      <4>1. i \in Nat /\ h \in Nat
        BY <1>0, <1>1
      <4> QED BY <4>1
    <3>2. Stretch(all, i, e)
      BY <2>5
    <3>3. T = StretchBars(all, i, e)
      BY <2>6
    <3>4. i \in Nat
      BY <1>1
    <3> HIDE DEF e
    <3>5. T \in SUBSET J!Bars /\ Cardinality(T) = e - i
      BY ONLY <3>1, <3>2, <3>3, <3>4, StretchCount
    <3> QED BY <3>1, <3>5
  <2>9. Cardinality(candles \cap b + 1..x) >= h
    <3> DEFINE U == candles \cap b + 1..x
    <3>1. U \in SUBSET J!Bars /\ T \in SUBSET U
      BY <2>7
    <3> HIDE DEF U
    <3>2. Cardinality(U) >= h
      BY <1>0, <2>8, <3>1, CountGrows
    <3> QED BY <3>2 DEF U
  <2> QED BY <2>4, <2>9 DEF Ahead, x, b
<1>3. ASSUME ~(i + h <= n) PROVE ~(Cardinality({x \in Elements(all) : x > b}) >= h)
  <2> DEFINE T == {all[k] : k \in i + 1..n}
             U == {x \in Elements(all) : x > b}
  <2>1. Final(all, i)
    BY <1>0, <1>1, <1>3 DEF Settled
  <2>2. \A k \in i + 1..n : k \in i..n /\ k \in 1..n /\ i \in i..n /\ i < k
    BY <1>1
  <2>3. Stretch(all, i, n)
    BY <1>1, <2>1, <2>2 DEF Final, Stretch
  <2>4. U \subseteq T
    <3> SUFFICES ASSUME NEW x \in Elements(all), x > b PROVE \E k \in i + 1..n : all[k] = x
      OBVIOUS
    <3>1. PICK k \in DOMAIN all : k > i /\ all[k] = x
      BY <2>1 DEF Final
    <3>2. k \in i + 1..n
      BY <1>1, <3>1, BarSequence
    <3> QED BY <3>1, <3>2
  <2>5. i <= n
    OBVIOUS
  <2>6. T = StretchBars(all, i, n)
    BY DEF StretchBars
  <2> HIDE DEF T, U, n
  <2>7. T \in SUBSET J!Bars /\ Cardinality(T) = n - i
    BY <1>1, <2>3, <2>5, <2>6, StretchCount
  <2>8. Cardinality(U) <= n - i /\ Cardinality(U) \in Nat
    BY <2>4, <2>7, PartSmaller
  <2> DEFINE u == Cardinality(U)
  <2> HIDE DEF u
  <2>9. u <= n - i /\ u \in Nat
    BY <2>8 DEF u
  <2>10. ~(u >= h)
    BY <1>0, <1>1, <1>3, <2>9
  <2> QED BY <2>10 DEF u, U
<1> QED BY <1>2, <1>3

\* What a job's labels say when it writes them, and whose it may erase.
LEMMA LabelsWritten ==
    ASSUME ReadInv, NEW j \in Jobs, place[j] = "labels",
           labels' = J!UpsertLabels(allCandles[j]), UNCHANGED candles
    PROVE  /\ LabelsStand'
           /\ \A b \in DOMAIN labels, h \in Horizons :
                  labels[b][h] # 0 /\ labels'[b][h] = 0 => upserted[j] # {}
           /\ \A b \in known[j], h \in Horizons :
                  Cardinality({x \in known[j] : x > b}) >= h => b \in DOMAIN labels' /\ labels'[b][h] # 0
<1> DEFINE all == allCandles[j]
           n == Len(all)
           After(b) == {x \in Elements(all) : x > b}
<1>1. candles \subseteq J!Bars /\ LabelsStand /\ JobReads(j)
  BY DEF ReadInv
<1>2. all \in Seq(J!Bars) /\ Elements(all) \subseteq candles /\ known[j] \subseteq Reached(j)
  BY <1>1 DEF JobReads, Bounded, Begins
<1>3. Reached(j) \subseteq Elements(all)
  BY DEF Reached, ToRead
<1>4. \A b : (\E i \in DOMAIN all : all[i] = b) <=> b \in Elements(all)
  BY DEF Elements
<1>5. DOMAIN labels' = DOMAIN labels \cup Elements(all)
  BY DEF J!UpsertLabels, Elements
<1>6. \A b \in DOMAIN labels : b \notin Elements(all) => labels'[b] = labels[b]
  BY <1>4 DEF J!UpsertLabels
<1>7. ASSUME NEW b \in Elements(all)
      PROVE  \E i \in 1..n :
                 /\ all[i] = b
                 /\ Settled(all, i) \/ Final(all, i)
                 /\ labels'[b] = [h \in Horizons |-> IF i + h > n THEN 0 ELSE all[i + h]]
  <2> DEFINE i == J!LastOf(all, b)
  <2>1. i \in 1..n /\ all[i] = b /\ ~Repeated(all, i)
    <3> HIDE DEF all
    <3> QED BY <1>2, LastPlace DEF n
  <2>2. DOMAIN all = 1..n
    BY <1>2, BarSequence
  <2>3. labels'[b] = J!ComputeLabels(all)[i]
    BY <1>4, <1>5 DEF J!UpsertLabels
  <2>4. J!ComputeLabels(all)[i] = [h \in Horizons |-> IF i + h > n THEN 0 ELSE all[i + h]]
    <3> HIDE DEF i
    <3> QED BY <2>1, <2>2 DEF J!ComputeLabels
  <2>5. Settled(all, i) \/ Final(all, i)
    <3>1. ~ToRead(j, all[i])
      BY DEF ToRead
    <3> HIDE DEF i
    <3> QED BY <1>1, <2>1, <2>2, <3>1 DEF JobReads, Loading
  <2> HIDE DEF i, all, n
  <2> QED BY <2>1, <2>3, <2>4, <2>5
<1>8. ASSUME NEW b \in Elements(all), NEW h \in Horizons
      PROVE  /\ labels'[b] \in [Horizons -> {0} \cup J!Bars]
             /\ labels'[b][h] # 0 => labels'[b][h] > b /\ Ahead(b, labels'[b][h], h, candles)
             /\ labels'[b][h] = 0 => ~(Cardinality(After(b)) >= h)
  <2>1. PICK i \in 1..n : /\ all[i] = b
                          /\ Settled(all, i) \/ Final(all, i)
                          /\ labels'[b] = [g \in Horizons |-> IF i + g > n THEN 0 ELSE all[i + g]]
    BY <1>7
  <2>2. \A g \in Horizons :
          /\ i + g <= n => /\ all[i + g] \in J!Bars /\ all[i + g] > all[i]
                           /\ Ahead(all[i], all[i + g], g, candles)
          /\ ~(i + g <= n) => ~(Cardinality({x \in Elements(all) : x > all[i]}) >= g)
    <3> HIDE DEF all
    <3> QED BY <1>1, <1>2, <2>1, LabelAt DEF n
  <2>3. n \in Nat /\ i \in Nat /\ Horizons \subseteq Nat /\ J!Bars \subseteq Nat \ {0}
    BY <1>2, <2>1, BarSequence, BarsFinite, Windows
  <2>4. \A g \in Horizons : i + g > n <=> ~(i + g <= n)
    BY <2>3
  <2>5. \A g \in Horizons : ~(i + g <= n) => ~(Cardinality(After(b)) >= g)
    <3>1. {x \in Elements(all) : x > all[i]} = After(b)
      BY <2>1
    <3> HIDE DEF After
    <3> QED BY <2>2, <3>1
  <2> HIDE DEF all, n, After
  <2>6. \A g \in Horizons : labels'[b][g] = IF i + g > n THEN 0 ELSE all[i + g]
    BY <2>1
  <2>7. labels'[b] \in [Horizons -> {0} \cup J!Bars]
    BY <2>1, <2>2, <2>4
  <2>8. labels'[b][h] = 0 <=> ~(i + h <= n)
    BY <2>2, <2>3, <2>4, <2>6
  <2>9. labels'[b][h] # 0 => labels'[b][h] > b /\ Ahead(b, labels'[b][h], h, candles)
    BY <2>1, <2>2, <2>4, <2>6, <2>8
  <2> QED BY <2>5, <2>7, <2>8, <2>9
<1>9. \A b : After(b) \in SUBSET J!Bars
  BY <1>1, <1>2
<1>10. LabelsStand'
  <2> SUFFICES ASSUME NEW b \in DOMAIN labels'
               PROVE  /\ labels'[b] \in [Horizons -> {0} \cup J!Bars]
                      /\ \A h \in Horizons : labels'[b][h] # 0 =>
                             labels'[b][h] > b /\ Ahead(b, labels'[b][h], h, candles)
    BY DEF LabelsStand
  <2>1. CASE b \in Elements(all)
    <3>1. CASE Horizons = {}
      BY <1>7, <2>1, <3>1
    <3>2. CASE Horizons # {}
      BY <1>8, <2>1, <3>2
    <3> QED BY <3>1, <3>2
  <2>2. CASE b \notin Elements(all)
    BY <1>1, <1>5, <1>6, <2>2 DEF LabelsStand
  <2> QED BY <2>1, <2>2
<1>11. ASSUME NEW b \in DOMAIN labels, NEW h \in Horizons, labels[b][h] # 0, labels'[b][h] = 0,
              upserted[j] = {}
       PROVE  FALSE
  <2>1. b \in Elements(all)
    BY <1>6, <1>11
  <2> DEFINE S == Reached(j) \cap b + 1..labels[b][h]
  <2>2. Cardinality(S) >= h
    <3>1. Ahead(b, labels[b][h], h, Reached(j))
      BY <1>1, <1>11 DEF JobReads, LabelsReached
    <3> QED BY <3>1 DEF Ahead
  <2>3. S \in SUBSET After(b)
    <3>1. b \in Nat
      BY <1>1, <1>2, <2>1, BarsFinite
    <3>2. \A x \in Elements(all) : x \in Nat
      BY <1>1, <1>2, BarsFinite
    <3>3. ASSUME NEW x \in S PROVE x \in After(b)
      <4>1. x \in Elements(all) /\ x \in b + 1..labels[b][h]
        BY <1>3
      <4>2. x \in Nat /\ x >= b + 1
        BY <3>2, <4>1
      <4>3. x > b
        BY <3>1, <4>2
      <4> HIDE DEF all
      <4> QED BY <4>1, <4>3
    <3> QED BY <3>3
  <2>4. Cardinality(After(b)) >= h
    <3>1. h \in Nat /\ After(b) \in SUBSET J!Bars
      BY <1>9, Windows
    <3> HIDE DEF S, After
    <3> QED BY <2>2, <2>3, <3>1, CountGrows
  <2> QED BY <1>8, <1>11, <2>1, <2>4
<1>12. ASSUME NEW b \in known[j], NEW h \in Horizons, Cardinality({x \in known[j] : x > b}) >= h
       PROVE  b \in DOMAIN labels' /\ labels'[b][h] # 0
  <2>1. b \in Elements(all)
    BY <1>2, <1>3
  <2> DEFINE S == {x \in known[j] : x > b}
  <2>2. S \in SUBSET After(b)
    BY <1>2, <1>3
  <2>3. Cardinality(After(b)) >= h
    <3>1. h \in Nat /\ After(b) \in SUBSET J!Bars /\ Cardinality(S) >= h
      BY <1>9, <1>12, Windows
    <3> HIDE DEF S, After
    <3> QED BY <2>2, <3>1, CountGrows
  <2> QED BY <1>5, <1>8, <2>1, <2>3
<1> QED BY <1>10, <1>11, <1>12

-----------------------------------------------------------------------------
(***************************************************************************)
(* Every step keeps what the jobs read, write and label.                   *)
(***************************************************************************)
\* A step of one job leaves what the others keep alone.
LEMMA OneJob ==
    ASSUME ReadInv, JobInv, DataInv, NEW j \in Jobs, NEW o \in Outcomes,
           J!processPair(j, o) \/ J!Kill(j) \/ BeginJob(j)
    PROVE  /\ OnJobs(lastTime)' /\ OnJobs(known)' /\ OnJobs(chunk)' /\ candles' = candles
           /\ \A k \in Jobs : k # j =>
                /\ lastTime'[k] = lastTime[k] /\ chunk'[k] = chunk[k] /\ allCandles'[k] = allCandles[k]
                /\ known'[k] = known[k] /\ place'[k] = place[k] /\ jobs'[k].status = jobs[k].status
                /\ \/ labels' = labels /\ upserted'[k] = upserted[k]
                   \/ \E i \in Jobs : i # k /\ upserted'[k] = upserted[k] \cup {i}
<1> DEFINE Goal ==
        /\ OnJobs(lastTime)' /\ OnJobs(known)' /\ OnJobs(chunk)' /\ candles' = candles
        /\ \A k \in Jobs : k # j =>
             /\ lastTime'[k] = lastTime[k] /\ chunk'[k] = chunk[k] /\ allCandles'[k] = allCandles[k]
             /\ known'[k] = known[k] /\ place'[k] = place[k] /\ jobs'[k].status = jobs[k].status
             /\ \/ labels' = labels /\ upserted'[k] = upserted[k]
                \/ \E i \in Jobs : i # k /\ upserted'[k] = upserted[k] \cup {i}
<1> USE DEF OnJobs, JobInv, JobShape, ReadInv, DataInv
<1>1. CASE BeginJob(j)
  BY <1>1 DEF BeginJob
<1>2. CASE J!Kill(j)
  BY <1>2 DEF J!Kill, J!tables, J!local
<1>3. CASE J!Create(j, o)
  BY <1>3 DEF J!Create, J!Goto, J!Status, J!tables, J!local
<1>4. CASE J!Start(j, o)
  BY <1>4 DEF J!Start, J!Goto, J!Status, J!tables, J!local
<1>5. CASE J!Load(j, o)
  <2> DEFINE c == J!LoadCandlesAfter(lastTime[j], ChunkSize)
  <2>1. /\ UNCHANGED <<candles, labels, jobs, lastTime, known>>
        /\ \/ UNCHANGED <<chunk, allCandles>>
           \/ chunk' = [chunk EXCEPT ![j] = c] /\ allCandles' = [allCandles EXCEPT ![j] = @ \o c]
        /\ \E p : place' = [place EXCEPT ![j] = p]
        /\ upserted' = upserted \/ upserted' = [upserted EXCEPT ![j] = {}]
    BY <1>5 DEF J!Load, J!Goto, J!tables
  <2> HIDE DEF c
  <2> QED BY <2>1
<1>6. CASE J!Upsert(j, o)
  BY <1>6 DEF J!Upsert, J!Goto, J!observed
<1>7. CASE J!Progress(j, o)
  <2>1. /\ UNCHANGED <<candles, labels, chunk, allCandles, known, upserted>>
        /\ jobs' = jobs \/ \E n : jobs' = [jobs EXCEPT ![j].processed = n]
        /\ \E p : place' = [place EXCEPT ![j] = p]
        /\ lastTime' = lastTime \/ \E t : lastTime' = [lastTime EXCEPT ![j] = t]
    BY <1>7 DEF J!Progress, J!Goto, J!tables, J!observed
  <2> QED BY <2>1
<1>8. CASE J!Labels(j, o)
  <2>1. /\ UNCHANGED <<candles, jobs, lastTime, chunk, allCandles, known>>
        /\ \/ UNCHANGED <<labels, upserted>>
           \/ upserted' = [k \in Jobs |-> upserted[k] \cup {j}]
        /\ \E p : place' = [place EXCEPT ![j] = p]
    BY <1>8 DEF J!Labels, J!Goto, J!local
  <2> QED BY <2>1
<1>9. CASE J!Fail(j, o)
  BY <1>9 DEF J!Fail, J!Goto, J!Status, J!tables, J!local
<1>10. CASE J!Complete(j, o)
  BY <1>10 DEF J!Complete, J!Goto, J!tables, J!local
<1> QED BY <1>1, <1>2, <1>3, <1>4, <1>5, <1>6, <1>7, <1>8, <1>9, <1>10 DEF J!processPair

\* Until the first chunk a job knows the stored bars and has loaded none.
LEMMA BeginReads ==
    ASSUME ReadInv, JobInv, NEW j \in Jobs, NEW o \in Outcomes,
           BeginJob(j) \/ J!Create(j, o) \/ J!Start(j, o)
    PROVE  JobReads(j)'
<1>1. /\ candles \subseteq J!Bars /\ LabelsStand /\ JobReads(j) /\ JobEnds(j)
      /\ JobShape /\ OnJobs(place) /\ OnJobs(known)
  BY DEF ReadInv, JobInv, JobShape, OnJobs
<1>2. /\ UNCHANGED <<candles, features, labels, lastTime, chunk, allCandles, upserted>>
      /\ \/ place[j] = "ready" /\ place'[j] = "create" /\ UNCHANGED known
         \/ place[j] = "create" /\ place'[j] = "start" /\ known'[j] = candles
         \/ place[j] = "create" /\ place'[j] = "ended" /\ known'[j] = candles
         \/ place[j] = "start" /\ place'[j] \in {"load", "ended"} /\ UNCHANGED known
      /\ jobs'[j].status # "completed"
  <2> USE <1>1 DEF JobEnds, OnJobs
  <2>1. CASE BeginJob(j)
    BY <2>1 DEF BeginJob
  <2>2. CASE J!Create(j, o)
    <3>1. UNCHANGED <<candles, features, labels, lastTime, chunk, allCandles, upserted>>
      BY <2>2 DEF J!Create, J!tables, J!local
    <3>2. place[j] = "create" /\ place'[j] \in {"start", "ended"} /\ known'[j] = candles
      BY <2>2 DEF J!Create, J!Goto
    <3>3. jobs' = jobs \/ jobs' = [jobs EXCEPT ![j].status = "pending"]
      BY <2>2 DEF J!Create, J!Status
    <3>4. jobs'[j].status # "completed"
      BY <3>2, <3>3 DEF JobShape
    <3> QED BY <3>1, <3>2, <3>4
  <2>3. CASE J!Start(j, o)
    <3>1. UNCHANGED <<candles, features, labels, lastTime, chunk, allCandles, known, upserted>>
      BY <2>3 DEF J!Start, J!tables, J!local
    <3>2. place[j] = "start" /\ place'[j] \in {"load", "ended"}
      BY <2>3 DEF J!Start, J!Goto
    <3>3. jobs' = jobs \/ jobs' = [jobs EXCEPT ![j].status = "running"]
      BY <2>3 DEF J!Start, J!Status
    <3>4. jobs'[j].status # "completed"
      BY <3>2, <3>3 DEF JobShape
    <3> QED BY <3>1, <3>2, <3>4
  <2> QED BY <2>1, <2>2, <2>3
<1>3. known'[j] \subseteq candles /\ allCandles[j] \in Seq(J!Bars) /\ Elements(allCandles[j]) \subseteq candles
  BY <1>1, <1>2 DEF JobReads, Bounded, Begins
<1>4. CASE place'[j] = "ended"
  BY <1>1, <1>2, <1>3, <1>4, Stopped
<1>5. CASE place'[j] \in {"create", "start", "load"}
  <2>1. lastTime[j] = 0 /\ allCandles[j] = << >> /\ j \notin upserted[j]
    BY <1>1, <1>2, <1>5 DEF JobReads, Begins
  <2>2. Bounded(j)'
    BY <1>1, <1>2, <1>3 DEF JobReads, Bounded
  <2>3. Reached(j)' = candles
    <3>1. \A b \in candles : b > 0
      BY <1>1, BarsFinite
    <3> QED BY <1>2, <1>5, <2>1, <3>1 DEF Reached, ToRead
  <2>4. Begins(j)'
    BY <1>2, <1>3, <2>1, <2>3 DEF Begins
  <2>5. Loading(j)' /\ ChunkLoaded(j)' /\ Labelled(j)'
    BY <1>2, <1>5, <2>1 DEF Loading, ChunkLoaded, Labelled
  <2>6. LabelsReached(j)'
    BY <1>1, <1>2, <2>3 DEF LabelsReached, LabelsStand
  <2>7. Written(j)'
    <3>1. CASE place'[j] = "create"
      BY <1>2, <3>1 DEF Written
    <3>2. CASE place'[j] = "load"
      <4>1. \A a, b : Between(a, b)' = Between(a, b)
        BY <1>2 DEF Between
      <4> QED BY <1>1, <1>2, <3>2, <4>1 DEF JobReads, Written
    <3>3. CASE place'[j] = "start"
      <4> SUFFICES ASSUME NEW b \in candles, Cardinality({x \in candles : x <= b}) > WarmupBars
                   PROVE  b > 0 /\ Cardinality(Between(0, b)) >= WarmupBars
        BY <1>2, <2>1, <3>3 DEF Written, Between
      <4> DEFINE A == Between(0, b)
                 B == {x \in candles : x <= b}
      <4>1. candles \subseteq Nat \ {0} /\ candles \subseteq J!Bars
        BY <1>1, BarsFinite
      <4>2. b > 0
        BY <4>1
      <4>3. B \in SUBSET J!Bars /\ A \in SUBSET J!Bars
        BY <4>1 DEF Between
      <4>4. B \subseteq A \cup {b}
        <5> SUFFICES ASSUME NEW x \in candles, x <= b, x # b PROVE 0 < x /\ x < b
          BY DEF Between
        <5> QED BY <4>1
      <4> HIDE DEF A, B
      <4>5. Cardinality(B) <= Cardinality(A \cup {b}) /\ IsFiniteSet(A)
        <5>1. A \cup {b} \in SUBSET J!Bars
          BY <4>1, <4>3
        <5> QED BY <4>3, <4>4, <5>1, PartSmaller, BarsFinite
      <4>6. Cardinality(A \cup {b}) <= Cardinality(A) + 1 /\ Cardinality(A) \in Nat
              /\ Cardinality(A \cup {b}) \in Nat
        <5>1. Cardinality(A) \in Nat
          BY <4>5, FS_CardinalityType
        <5>2. Cardinality(A \cup {b}) = IF b \in A THEN Cardinality(A) ELSE Cardinality(A) + 1
          BY <4>5, FS_AddElement
        <5> DEFINE u == Cardinality(A)
                   v == Cardinality(A \cup {b})
        <5> HIDE DEF u, v
        <5>3. u \in Nat /\ (v = u \/ v = u + 1)
          BY <5>1, <5>2 DEF u, v
        <5>4. v <= u + 1 /\ v \in Nat /\ u \in Nat
          BY <5>3
        <5> QED BY <5>4 DEF u, v
      <4>7. Cardinality(A) >= WarmupBars
        <5> DEFINE u == Cardinality(A)
                   v == Cardinality(A \cup {b})
                   w == Cardinality(B)
        <5>1. w \in Nat
          BY <4>3, BarsFinite
        <5>2. w > WarmupBars
          BY DEF B
        <5> HIDE DEF u, v, w
        <5>3. u \in Nat /\ v \in Nat /\ w <= v /\ v <= u + 1
          BY <4>5, <4>6 DEF u, v, w
        <5>4. u >= WarmupBars
          BY <5>1, <5>2, <5>3, Windows
        <5> QED BY <5>4 DEF u
      <4> QED BY <4>2, <4>7 DEF A
    <3> QED BY <1>5, <3>1, <3>2, <3>3
  <2> QED BY <2>2, <2>4, <2>5, <2>6, <2>7 DEF JobReads
<1> QED BY <1>2, <1>4, <1>5

\* Loading a chunk, whatever becomes of it.
LEMMA LoadReads ==
    ASSUME ReadInv, JobInv, DataInv, NEW j \in Jobs, NEW o \in Outcomes, J!Load(j, o)
    PROVE  JobReads(j)' /\ labels' = labels
<1> DEFINE c == J!LoadCandlesAfter(lastTime[j], ChunkSize)
           old == allCandles[j]
<1>1. /\ candles \subseteq J!Bars /\ JobReads(j) /\ JobEnds(j)
      /\ OnJobs(place) /\ OnJobs(chunk) /\ OnJobs(allCandles) /\ OnJobs(upserted)
  BY DEF ReadInv, JobInv, JobShape, DataInv
<1>2. /\ UNCHANGED <<candles, features, labels, jobs, lastTime, known>>
      /\ place[j] = "load"
  BY DEF J!Load, J!tables
<1>3. /\ \/ o = "ok" /\ chunk' = [chunk EXCEPT ![j] = c] /\ allCandles' = [allCandles EXCEPT ![j] = @ \o c]
            /\ \/ Len(c) <= WarmupBars /\ place' = [place EXCEPT ![j] = "labels"]
               \/ ~(Len(c) <= WarmupBars) /\ place' = [place EXCEPT ![j] = "upsert"]
               \/ place' = [place EXCEPT ![j] = "fail"]
         \/ UNCHANGED <<chunk, allCandles>> /\ place' = [place EXCEPT ![j] = "fail"]
      /\ upserted' = IF lastTime[j] = 0 THEN [upserted EXCEPT ![j] = {}] ELSE upserted
  BY DEF J!Load, J!Goto
<1> HIDE DEF c
<1>4. jobs'[j].status # "completed"
  BY <1>1, <1>2 DEF JobEnds
<1>5. lastTime[j] \in Nat /\ old \in Seq(J!Bars) /\ Elements(old) \subseteq candles /\ known[j] \subseteq candles
  <2>1. lastTime[j] \in {0} \cup J!Bars
    BY <1>1 DEF JobReads, Bounded
  <2>2. J!Bars \subseteq Nat
    BY BarsFinite
  <2>3. lastTime[j] \in Nat
    <3> DEFINE t == lastTime[j]
    <3>1. t \in {0} \cup J!Bars
      BY <2>1
    <3> HIDE DEF t
    <3>2. t \in Nat
      BY <2>2, <3>1
    <3> QED BY <3>2 DEF t
  <2> QED BY <1>1, <2>3 DEF JobReads, Bounded, Begins
<1>6. c \in Seq(J!Bars) /\ Elements(c) \subseteq candles /\ Len(c) \in Nat
  <2>1. IsChunk(c, lastTime[j], ChunkSize)
    BY <1>1, <1>5, Loaded, Windows DEF c
  <2> QED BY <2>1 DEF IsChunk
<1>7. upserted'[j] = IF lastTime[j] = 0 THEN {} ELSE upserted[j]
  BY <1>1, <1>3 DEF OnJobs
<1>8. CASE place'[j] = "fail"
  <2>1. allCandles'[j] = old \/ allCandles'[j] = old \o c
    BY <1>1, <1>3 DEF OnJobs
  <2>2. (old \o c) \in Seq(J!Bars) /\ Elements(old \o c) \subseteq candles
    <3>1. Concatenated(old \o c, old, c)
      BY <1>5, <1>6, Appended
    <3>2. (old \o c) \in Seq(J!Bars) /\ Elements(old \o c) = Elements(old) \cup Elements(c)
      BY ONLY <3>1 DEF Concatenated
    <3> QED BY ONLY <1>5, <1>6, <3>2
  <2>3. allCandles'[j] \in Seq(J!Bars) /\ Elements(allCandles'[j]) \subseteq candles
    BY <1>5, <2>1, <2>2
  <2>4. JobReads(j)'
    <3>1. CASE UNCHANGED chunk
      BY <1>1, <1>2, <1>4, <1>5, <1>8, <2>3, <3>1, Stopped
    <3>2. CASE chunk' = [chunk EXCEPT ![j] = c]
      <4>1. chunk'[j] = c
        BY <1>1, <3>2 DEF OnJobs
      <4>2. Loading(j)' /\ ChunkLoaded(j)' /\ LabelsReached(j)' /\ Written(j)' /\ Labelled(j)'
        BY <1>4, <1>8 DEF Loading, ChunkLoaded, LabelsReached, Written, Labelled
      <4>3. Begins(j)'
        BY <1>2, <1>8, <2>3 DEF Begins
      <4>4. Bounded(j)'
        BY <1>1, <1>2, <1>5, <1>6, <2>3, <4>1 DEF JobReads, Bounded
      <4> QED BY <4>2, <4>3, <4>4 DEF JobReads
    <3> QED BY <1>3, <3>1, <3>2
  <2> QED BY <1>2, <2>4
<1>9. CASE place'[j] # "fail"
  <2>1. chunk'[j] = c /\ allCandles'[j] = allCandles[j] \o c
    BY <1>1, <1>3, <1>9 DEF OnJobs
  <2>2. \/ place'[j] = "labels" /\ Len(c) <= WarmupBars
        \/ place'[j] = "upsert" /\ Len(c) > WarmupBars
    BY <1>1, <1>3, <1>6, <1>9, Windows DEF OnJobs
  <2>3. jobs[j].status # "completed"
    BY <1>2, <1>4
  <2> QED BY <1>2, <1>7, <2>1, <2>2, <2>3, ChunkReads DEF c
<1> QED BY <1>8, <1>9

\* Writing a chunk's rows and reading on.
LEMMA WriteReads ==
    ASSUME ReadInv, JobInv, DataInv, NEW j \in Jobs, NEW o \in Outcomes, J!Upsert(j, o) \/ J!Progress(j, o)
    PROVE  JobReads(j)' /\ labels' = labels
<1>1. /\ candles \subseteq J!Bars /\ JobReads(j) /\ JobEnds(j)
      /\ OnJobs(place) /\ OnJobs(lastTime) /\ JobShape
  BY DEF ReadInv, JobInv, JobShape, DataInv
<1>2. allCandles[j] \in Seq(J!Bars) /\ Elements(allCandles[j]) \subseteq candles /\ known[j] \subseteq candles
  BY <1>1 DEF JobReads, Bounded, Begins
<1>3. CASE J!Upsert(j, o)
  <2>1. /\ UNCHANGED <<candles, labels, jobs, lastTime, chunk, allCandles, known, upserted>>
        /\ place[j] = "upsert"
        /\ \/ o = "ok" /\ place' = [place EXCEPT ![j] = "progress"] /\ features' = J!UpsertFeatures(chunk[j])
           \/ place' = [place EXCEPT ![j] = "fail"]
    BY <1>3 DEF J!Upsert, J!Goto, J!observed, J!applied
  <2>2. jobs[j].status # "completed" /\ jobs'[j].status # "completed"
    BY <1>1, <2>1 DEF JobEnds
  <2>3. CASE place' = [place EXCEPT ![j] = "fail"]
    <3>1. place'[j] = "fail"
      BY <1>1, <2>3 DEF OnJobs
    <3> QED BY <1>1, <1>2, <2>1, <2>2, <3>1, Stopped
  <2>4. CASE place' = [place EXCEPT ![j] = "progress"] /\ features' = J!UpsertFeatures(chunk[j])
    <3>1. place'[j] = "progress"
      BY <1>1, <2>4 DEF OnJobs
    <3> QED BY <1>1, <2>1, <2>2, <2>4, <3>1, UpsertReads
  <2> QED BY <2>1, <2>3, <2>4
<1>4. CASE J!Progress(j, o)
  <2>1. /\ UNCHANGED <<candles, features, labels, chunk, allCandles, known, upserted>>
        /\ place[j] = "progress"
        /\ jobs' = jobs \/ \E n : jobs' = [jobs EXCEPT ![j].processed = n]
        /\ \/ /\ Len(chunk[j]) < ChunkSize /\ place' = [place EXCEPT ![j] = "labels"]
              /\ lastTime' = lastTime
           \/ /\ ~(Len(chunk[j]) < ChunkSize) /\ place' = [place EXCEPT ![j] = "load"]
              /\ lastTime' = [lastTime EXCEPT ![j] = J!NextAfter(chunk[j])]
    BY <1>4 DEF J!Progress, J!Goto, J!tables, J!observed
  <2>2. jobs[j].status # "completed" /\ jobs'[j].status # "completed"
    BY <1>1, <2>1 DEF JobEnds, JobShape
  <2>3. \/ Len(chunk[j]) < ChunkSize /\ place'[j] = "labels" /\ lastTime'[j] = lastTime[j]
        \/ ~(Len(chunk[j]) < ChunkSize) /\ place'[j] = "load" /\ lastTime'[j] = J!NextAfter(chunk[j])
    BY <1>1, <2>1 DEF OnJobs
  <2> QED BY <1>1, <2>1, <2>2, <2>3, ProgressReads
<1> QED BY <1>3, <1>4

\* A computed label is erased only by a job another one overtook.
ErasedByOverlap ==
    \A b \in DOMAIN labels : \A h \in Horizons :
        labels[b][h] # 0 /\ labels'[b][h] = 0 => \E j \in Jobs : place[j] = "labels" /\ upserted[j] # {}

\* Writing the labels.
LEMMA LabelReads ==
    ASSUME ReadInv, JobInv, DataInv, NEW j \in Jobs, NEW o \in Outcomes, J!Labels(j, o)
    PROVE  JobReads(j)' /\ LabelsStand' /\ ErasedByOverlap
<1>1. /\ candles \subseteq J!Bars /\ JobReads(j) /\ JobEnds(j) /\ LabelsStand
      /\ OnJobs(place) /\ OnJobs(upserted)
  BY DEF ReadInv, JobInv, JobShape
<1>2. /\ UNCHANGED <<candles, features, jobs, lastTime, chunk, allCandles, known>>
      /\ place[j] = "labels"
      /\ \/ /\ labels' = J!UpsertLabels(allCandles[j])
            /\ place' = [place EXCEPT ![j] = "complete"] \/ place' = [place EXCEPT ![j] = "fail"]
         \/ labels' = labels /\ place' = [place EXCEPT ![j] = "fail"]
         \/ UNCHANGED <<labels, upserted>> /\ place' = [place EXCEPT ![j] = "complete"]
  BY DEF J!Labels, J!Goto, J!local, J!applied
<1>3. jobs'[j].status # "completed"
  BY <1>1, <1>2 DEF JobEnds
<1>4. allCandles[j] \in Seq(J!Bars) /\ Elements(allCandles[j]) \subseteq candles /\ known[j] \subseteq candles
        /\ j \notin upserted[j]
  BY <1>1, <1>2 DEF JobReads, Bounded, Begins
<1>5. LabelsStand' /\ ErasedByOverlap
  <2>1. CASE labels' = J!UpsertLabels(allCandles[j])
    BY <1>2, <2>1, LabelsWritten DEF ErasedByOverlap
  <2>2. CASE labels' = labels
    BY <1>1, <1>2, <2>2 DEF LabelsStand, ErasedByOverlap
  <2> QED BY <1>2, <2>1, <2>2
<1>6. CASE place' = [place EXCEPT ![j] = "fail"]
  <2>1. place'[j] = "fail"
    BY <1>1, <1>6 DEF OnJobs
  <2> QED BY <1>1, <1>2, <1>3, <1>4, <1>5, <2>1, Stopped
<1>7. CASE place' = [place EXCEPT ![j] = "complete"]
  <2>1. place'[j] = "complete"
    BY <1>1, <1>7 DEF OnJobs
  <2>2. Loading(j)' /\ ChunkLoaded(j)' /\ LabelsReached(j)'
    BY <2>1 DEF Loading, ChunkLoaded, LabelsReached
  <2>3. Begins(j)' /\ Bounded(j)'
    BY <1>1, <1>2, <1>4, <2>1 DEF JobReads, Begins, Bounded
  <2>4. Written(j)'
    BY <1>1, <1>2, <2>1 DEF JobReads, Written
  <2>5. Labelled(j)'
    <3>1. CASE labels' = J!UpsertLabels(allCandles[j])
      BY <1>2, <3>1, LabelsWritten DEF Labelled
    <3>2. CASE UNCHANGED upserted
      <4>1. upserted'[j] # {j}
        BY <1>4, <3>2
      <4> QED BY <4>1 DEF Labelled
    <3>3. labels' = J!UpsertLabels(allCandles[j]) \/ UNCHANGED upserted
      <4>1. "complete" # "fail"
        OBVIOUS
      <4> QED BY <1>1, <1>2, <2>1, <4>1 DEF OnJobs
    <3> QED BY <3>1, <3>2, <3>3
  <2> QED BY <1>5, <2>2, <2>3, <2>4, <2>5 DEF JobReads
<1> QED BY <1>2, <1>6, <1>7

\* How a job ends.
LEMMA EndReads ==
    ASSUME ReadInv, JobInv, DataInv, NEW j \in Jobs, NEW o \in Outcomes,
           J!Fail(j, o) \/ J!Complete(j, o) \/ J!Kill(j)
    PROVE  JobReads(j)' /\ labels' = labels
<1>1. /\ candles \subseteq J!Bars /\ JobReads(j) /\ JobEnds(j) /\ JobShape
      /\ OnJobs(place)
  BY DEF ReadInv, JobInv, JobShape
<1>2. /\ UNCHANGED <<candles, features, labels, lastTime, chunk, allCandles, known, upserted>>
      /\ place' = [place EXCEPT ![j] = "ended"]
  BY DEF J!Fail, J!Complete, J!Kill, J!Goto, J!tables, J!local
<1>3. \/ jobs'[j].status # "completed"
      \/ place[j] = "complete"
  <2>1. CASE J!Complete(j, o)
    BY <2>1 DEF J!Complete
  <2>2. CASE J!Fail(j, o)
    <3>1. place[j] = "fail" /\ (jobs' = jobs \/ jobs' = [jobs EXCEPT ![j].status = "failed"])
      BY <2>2 DEF J!Fail, J!Status
    <3>2. jobs[j].status # "completed"
      BY <1>1, <3>1 DEF JobEnds
    <3> QED BY <1>1, <3>1, <3>2 DEF JobShape
  <2>3. CASE J!Kill(j)
    <3>1. place[j] # "ended" /\ jobs' = jobs
      BY <2>3 DEF J!Kill
    <3> QED BY <1>1, <3>1 DEF JobEnds
  <2> QED BY <2>1, <2>2, <2>3
<1>4. place'[j] = "ended"
  BY <1>1, <1>2 DEF OnJobs
<1>5. allCandles[j] \in Seq(J!Bars) /\ Elements(allCandles[j]) \subseteq candles /\ known[j] \subseteq candles
  BY <1>1 DEF JobReads, Bounded, Begins
<1>6. CASE jobs'[j].status # "completed"
  BY <1>1, <1>2, <1>4, <1>5, <1>6, Stopped
<1>7. CASE place[j] = "complete"
  <2>1. Loading(j)' /\ ChunkLoaded(j)' /\ LabelsReached(j)'
    BY <1>4 DEF Loading, ChunkLoaded, LabelsReached
  <2>2. Begins(j)' /\ Bounded(j)'
    BY <1>1, <1>2, <1>4 DEF JobReads, Begins, Bounded
  <2>3. Written(j)' /\ Labelled(j)'
    BY <1>1, <1>2, <1>7 DEF JobReads, Written, Labelled
  <2> QED BY <1>2, <2>1, <2>2, <2>3 DEF JobReads
<1> QED BY <1>2, <1>3, <1>6, <1>7

\* No job has loaded anything.
LEMMA ReadInit == J!jobInit => ReadInv
<1> SUFFICES ASSUME J!jobInit PROVE ReadInv
  OBVIOUS
<1>1. candles \subseteq J!Bars /\ DOMAIN labels = {}
  BY BatchAssumption DEF J!jobInit, J!JobAssumption, J!Bars
<1>2. OnJobs(lastTime) /\ OnJobs(known) /\ OnJobs(chunk)
  BY DEF J!jobInit, OnJobs
<1>3. ASSUME NEW j \in Jobs PROVE JobReads(j)
  <2>1. /\ place[j] = "ready" /\ jobs[j].status = "absent" /\ lastTime[j] = 0 /\ known[j] = {}
        /\ chunk[j] = << >> /\ allCandles[j] = << >> /\ upserted[j] = {}
    BY DEF J!jobInit, J!NoJob
  <2>2. << >> \in Seq(J!Bars) /\ Elements(<< >>) = {}
    BY DEF Elements
  <2> QED BY <2>1, <2>2 DEF JobReads, Loading, ChunkLoaded, Begins, LabelsReached, Written, Labelled, Bounded
<1> QED BY <1>1, <1>2, <1>3 DEF ReadInv, LabelsStand

\* Each step of any process keeps what the jobs read, write and label.
LEMMA ReadStep ==
    ASSUME ReadInv, JobInv, DataInv, [Next]_vars
    PROVE  ReadInv' /\ ErasedByOverlap
<1>0. /\ candles \subseteq J!Bars /\ LabelsStand /\ \A k \in Jobs : JobReads(k)
      /\ OnJobs(lastTime) /\ OnJobs(known) /\ OnJobs(chunk)
  BY DEF ReadInv
<1>1. DOMAIN features \subseteq DOMAIN features'
  BY DataStep
<1>2. ASSUME candles \subseteq candles', candles' \subseteq J!Bars, labels' = labels
      PROVE  LabelsStand' /\ ErasedByOverlap
  <2>1. \A h \in Horizons : h \in Nat
    BY Windows
  <2> QED BY <1>0, <1>2, <2>1, AheadGrows DEF LabelsStand, ErasedByOverlap
<1>3. ASSUME UNCHANGED jobVars PROVE ReadInv' /\ ErasedByOverlap
  <2>1. \A k \in Jobs : JobReads(k)'
    BY <1>0, <1>3, OthersRead DEF jobVars
  <2>2. LabelsStand' /\ ErasedByOverlap
    BY <1>0, <1>2, <1>3 DEF jobVars
  <2> QED BY <1>0, <1>3, <2>1, <2>2 DEF jobVars, ReadInv, OnJobs
<1>4. ASSUME NEW j \in Jobs, NEW o \in Outcomes, J!processPair(j, o) \/ J!Kill(j) \/ BeginJob(j)
      PROVE  ReadInv' /\ ErasedByOverlap
  <2>1. /\ OnJobs(lastTime)' /\ OnJobs(known)' /\ OnJobs(chunk)' /\ candles' = candles
        /\ \A k \in Jobs : k # j =>
             /\ lastTime'[k] = lastTime[k] /\ chunk'[k] = chunk[k] /\ allCandles'[k] = allCandles[k]
             /\ known'[k] = known[k] /\ place'[k] = place[k] /\ jobs'[k].status = jobs[k].status
             /\ \/ labels' = labels /\ upserted'[k] = upserted[k]
                \/ \E i \in Jobs : i # k /\ upserted'[k] = upserted[k] \cup {i}
    BY <1>4, OneJob
  <2>2. ASSUME NEW k \in Jobs, k # j PROVE JobReads(k)'
    BY <1>0, <1>1, <2>1, <2>2, OthersRead
  <2>3. JobReads(j)' /\ LabelsStand' /\ ErasedByOverlap
    <3>1. CASE J!Labels(j, o)
      BY <3>1, LabelReads
    <3>2. CASE BeginJob(j) \/ J!Create(j, o) \/ J!Start(j, o)
      <4>1. labels' = labels
        BY <3>2 DEF BeginJob, J!Create, J!Start, J!tables
      <4> QED BY <1>0, <1>2, <2>1, <3>2, <4>1, BeginReads
    <3>3. CASE J!Load(j, o)
      BY <1>0, <1>2, <2>1, <3>3, LoadReads
    <3>4. CASE J!Upsert(j, o) \/ J!Progress(j, o)
      BY <1>0, <1>2, <2>1, <3>4, WriteReads
    <3>5. CASE J!Fail(j, o) \/ J!Complete(j, o) \/ J!Kill(j)
      BY <1>0, <1>2, <2>1, <3>5, EndReads
    <3> QED BY <1>4, <3>1, <3>2, <3>3, <3>4, <3>5 DEF J!processPair
  <2> QED BY <1>0, <2>1, <2>2, <2>3 DEF ReadInv
<1>5. CASE Migrate
  BY <1>3, <1>5 DEF Migrate
<1>6. ASSUME NEW j \in Jobs, BeginJob(j) PROVE ReadInv' /\ ErasedByOverlap
  <2>1. "ok" \in Outcomes
    BY BatchAssumption DEF J!JobAssumption
  <2> QED BY <1>4, <1>6, <2>1
<1>7. ASSUME NEW s \in Studies, BeginStudy(s) PROVE ReadInv' /\ ErasedByOverlap
  BY <1>3, <1>7 DEF BeginStudy
<1>8. CASE Backfill
  <2>1. CASE J!CandleStored
    <3>1. /\ candles \subseteq candles' /\ candles' \subseteq J!Bars
          /\ UNCHANGED <<labels, jobs, place, lastTime, chunk, allCandles, known, upserted>>
      BY <1>0, <2>1 DEF J!CandleStored, J!local, J!observed
    <3>2. \A k \in Jobs : JobReads(k)'
      BY <1>0, <1>1, <3>1, OthersRead
    <3>3. LabelsStand' /\ ErasedByOverlap
      BY <1>2, <3>1
    <3> QED BY <1>0, <3>1, <3>2, <3>3 DEF ReadInv, OnJobs
  <2>2. ASSUME NEW j \in Jobs, NEW o \in Ends, J!processPair(j, o) PROVE ReadInv' /\ ErasedByOverlap
    <3>1. o \in Outcomes
      BY BatchAssumption DEF Ends, J!JobAssumption
    <3> QED BY <1>4, <2>2, <3>1
  <2>3. ASSUME NEW j \in Jobs, J!Kill(j) PROVE ReadInv' /\ ErasedByOverlap
    <3>1. "ok" \in Outcomes
      BY BatchAssumption DEF J!JobAssumption
    <3> QED BY <1>4, <2>3, <3>1
  <2> QED BY <1>8, <2>1, <2>2, <2>3 DEF Backfill
<1>9. CASE Study
  BY <1>3, <1>9 DEF Study
<1>10. CASE UNCHANGED vars
  BY <1>3, <1>10 DEF vars
<1> QED BY <1>5, <1>6, <1>7, <1>8, <1>9, <1>10 DEF Next

\* The invariants follow.
LEMMA ReadTells == ReadInv /\ JobInv => LabelsLookAhead /\ EveryBarWritten
<1> SUFFICES ASSUME ReadInv, JobInv PROVE LabelsLookAhead /\ EveryBarWritten
  OBVIOUS
<1>1. LabelsLookAhead
  <2>1. \A S : J!Cardinality(S) = Cardinality(S)
    BY OneCardinality
  <2> QED BY <2>1 DEF ReadInv, LabelsStand, Ahead, LabelsLookAhead, J!LabelsLookAhead
<1>2. EveryBarWritten
  <2> SUFFICES ASSUME NEW j \in Jobs, jobs[j].status = "completed"
               PROVE  /\ {b \in known[j] : J!Cardinality({c \in known[j] : c <= b}) > WarmupBars}
                           \subseteq DOMAIN features
                      /\ upserted[j] = {j} => \A b \in known[j], h \in Horizons :
                             J!Cardinality({c \in known[j] : c > b}) >= h => labels[b][h] # 0
    BY DEF EveryBarWritten, J!EveryBarWritten
  <2>1. \A S : J!Cardinality(S) = Cardinality(S)
    BY OneCardinality
  <2>2. Written(j) /\ Labelled(j) /\ place[j] = "ended"
    BY DEF ReadInv, JobReads, JobInv, JobEnds
  <2>3. \A b : J!Cardinality({c \in known[j] : c <= b}) = Cardinality({c \in known[j] : c <= b})
    BY <2>1
  <2>4. \A b : J!Cardinality({c \in known[j] : c > b}) = Cardinality({c \in known[j] : c > b})
    BY <2>1
  <2>5. {b \in known[j] : J!Cardinality({c \in known[j] : c <= b}) > WarmupBars} \subseteq DOMAIN features
    BY <2>2, <2>3 DEF Written
  <2>6. ASSUME upserted[j] = {j}, NEW b \in known[j], NEW h \in Horizons,
               J!Cardinality({c \in known[j] : c > b}) >= h
        PROVE  labels[b][h] # 0
    BY <2>2, <2>4, <2>6 DEF Labelled
  <2> QED BY <2>5, <2>6
<1> QED BY <1>1, <1>2

\* Whatever jobs overlap, are killed or fail, and whatever is stored meanwhile, a label is of a
\* bar that lies ahead, with as many stored bars up to it as its horizon says.
THEOREM LabelsAlwaysLookAhead == Spec => []LabelsLookAhead
<1>1. Init => ReadInv /\ JobInv /\ DataInv
  BY ReadInit, JobInit, DataInit DEF Init
<1>2. ReadInv /\ JobInv /\ DataInv /\ [Next]_vars => (ReadInv /\ JobInv /\ DataInv)'
  BY ReadStep, JobStep, DataStep
<1>3. ReadInv /\ JobInv => LabelsLookAhead
  BY ReadTells
<1> QED BY <1>1, <1>2, <1>3, PTL DEF Spec

\* A completed job has written a row for every bar it knew after the warm-up, and, if no other
\* job wrote labels meanwhile, the label of every horizon that the bars it knew reach.
THEOREM EveryBarAlwaysWritten == Spec => []EveryBarWritten
<1>1. Init => ReadInv /\ JobInv /\ DataInv
  BY ReadInit, JobInit, DataInit DEF Init
<1>2. ReadInv /\ JobInv /\ DataInv /\ [Next]_vars => (ReadInv /\ JobInv /\ DataInv)'
  BY ReadStep, JobStep, DataStep
<1>3. ReadInv /\ JobInv => EveryBarWritten
  BY ReadTells
<1> QED BY <1>1, <1>2, <1>3, PTL DEF Spec

\* A computed label is set back to zero only by a job beside which another one has written
\* labels since it began to load.
THEOREM LabelsOnlyErasedByOverlap == Spec => LabelsErasedByOverlap
<1>1. Init => ReadInv /\ JobInv /\ DataInv
  BY ReadInit, JobInit, DataInit DEF Init
<1>2. ReadInv /\ JobInv /\ DataInv /\ [Next]_vars => (ReadInv /\ JobInv /\ DataInv)'
  BY ReadStep, JobStep, DataStep
<1>3. ReadInv /\ JobInv /\ DataInv /\ [Next]_vars => [ErasedByOverlap]_J!jobVars
  BY ReadStep
<1> QED BY <1>1, <1>2, <1>3, PTL DEF Spec, LabelsErasedByOverlap, J!LabelsErasedByOverlap, ErasedByOverlap

-----------------------------------------------------------------------------
(***************************************************************************)
(* The columns after the warm-up.                                          *)
(***************************************************************************)
\* A function whose values come each from the one before, the first one from d.
Iterates(f, n, V, d, F) ==
    /\ f \in [0..n -> V]
    /\ f = [i \in 0..n |-> F[<<i, IF i = 0 THEN d ELSE f[i - 1]>>]]

\* There is one.
LEMMA IterationExists ==
    ASSUME NEW n \in Nat, NEW V, NEW d \in V, NEW F \in [(0..n) \X V -> V]
    PROVE  \E f : Iterates(f, n, V, d, F)
<1> DEFINE Ready(m) == \E f \in [0..m -> V] : f = [i \in 0..m |-> F[<<i, IF i = 0 THEN d ELSE f[i - 1]>>]]
           T == {m \in 0..n : ~Ready(m)}
<1> HIDE DEF Ready
<1>1. T = {}
  <2> SUFFICES ASSUME T # {} PROVE FALSE
    OBVIOUS
  <2>1. PICK m \in T : \A y \in T : m <= y
    <3>1. T \subseteq Nat
      OBVIOUS
    <3> HIDE DEF T
    <3> QED BY <3>1, LeastNumber
  <2>2. CASE m = 0
    <3> DEFINE f == [i \in 0..0 |-> F[<<0, d>>]]
    <3>1. f \in [0..0 -> V]
      BY <2>1
    <3>2. f = [i \in 0..0 |-> F[<<i, IF i = 0 THEN d ELSE f[i - 1]>>]]
      OBVIOUS
    <3> QED BY <2>1, <2>2, <3>1, <3>2 DEF Ready
  <2>3. CASE m # 0
    <3>1. m - 1 \in 0..n /\ m - 1 \notin T /\ m \in 1..n
      BY <2>1, <2>3
    <3>2. PICK g \in [0..m-1 -> V] : g = [i \in 0..m-1 |-> F[<<i, IF i = 0 THEN d ELSE g[i - 1]>>]]
      BY <3>1 DEF Ready
    <3> DEFINE f == [i \in 0..m |-> IF i = m THEN F[<<m, g[m - 1]>>] ELSE g[i]]
    <3>3. f \in [0..m -> V]
      <4>1. g[m - 1] \in V /\ F[<<m, g[m - 1]>>] \in V
        BY <3>1
      <4>2. \A i \in 0..m : i # m => g[i] \in V
        BY <3>1
      <4> QED BY <4>1, <4>2
    <3>4. \A i \in 0..m : f[i] = F[<<i, IF i = 0 THEN d ELSE f[i - 1]>>]
      <4> TAKE i \in 0..m
      <4>1. CASE i = m
        <5>1. i - 1 \in 0..m /\ i - 1 # m /\ i # 0
          BY <3>1, <4>1
        <5>2. f[i - 1] = g[m - 1] /\ f[i] = F[<<m, g[m - 1]>>]
          BY <5>1, <4>1
        <5> HIDE DEF f
        <5> QED BY <5>1, <5>2, <4>1
      <4>2. CASE i # m
        <5>1. i \in 0..m-1 /\ f[i] = g[i] /\ (i # 0 => f[i - 1] = g[i - 1])
          BY <3>1, <4>2
        <5>2. g[i] = F[<<i, IF i = 0 THEN d ELSE g[i - 1]>>]
          BY <3>2, <5>1
        <5> HIDE DEF f
        <5> QED BY <5>1, <5>2
      <4> QED BY <4>1, <4>2
    <3>5. Ready(m)
      <4> HIDE DEF f
      <4>1. f = [i \in 0..m |-> F[<<i, IF i = 0 THEN d ELSE f[i - 1]>>]]
        BY <3>3, <3>4
      <4> QED BY <3>3, <4>1 DEF Ready
    <3> QED BY <2>1, <3>5
  <2> QED BY <2>2, <2>3
<1>2. Ready(n)
  <2>1. n \in 0..n /\ n \notin T
    <3> HIDE DEF T
    <3> QED BY <1>1
  <2> QED BY <2>1
<1> QED BY <1>2 DEF Ready, Iterates

\* The bars of a chunk up to a place, as the sets of them a number may be computed from.
UpTo(c, i) == SUBSET {c[k] : k \in 1..i + 1}

\* A column is warm from an index on if it reads only bars of the chunk that are there by then.
WarmFrom(c, a, q) == \A i \in 0..Len(c) - 1 : i >= q => a[i] \in UpTo(c, i)

\* What is computed from warm numbers is warm.
LEMMA FromWarm ==
    ASSUME NEW c \in Seq(J!Bars), NEW i \in 0..Len(c) - 1, NEW N, N \subseteq UpTo(c, i)
    PROVE  J!From(N) \in UpTo(c, i)
<1>1. \A k \in 1..i + 1 : c[k] # 0
  <2> TAKE k \in 1..i + 1
  <2>1. k \in 1..Len(c)
    OBVIOUS
  <2> QED BY <2>1, BarSequence
<1>2. J!NaN \notin UpTo(c, i)
  <2>1. 0 \in J!NaN
    BY DEF J!NaN
  <2>2. 0 \notin {c[k] : k \in 1..i + 1}
    BY <1>1
  <2> QED BY <2>1, <2>2 DEF UpTo
<1>3. J!From(N) = UNION N
  BY <1>2 DEF J!From
<1>4. UNION N \subseteq {c[k] : k \in 1..i + 1}
  BY DEF UpTo
<1> QED BY <1>3, <1>4 DEF UpTo

\* The numbers that are computed from bars.
Numbers == SUBSET Nat

\* What is computed from numbers is a number.
LEMMA FromNumber == ASSUME NEW N, N \subseteq Numbers PROVE J!From(N) \in Numbers
<1>1. J!NaN \in Numbers
  BY DEF J!NaN, Numbers
<1>2. UNION N \in Numbers
  BY DEF Numbers
<1> QED BY <1>1, <1>2 DEF J!From

\* What reads bars of the chunk up to an index is a number.
LEMMA WarmIsNumber ==
    ASSUME NEW c \in Seq(J!Bars), NEW i \in 0..Len(c) - 1, NEW x \in UpTo(c, i)
    PROVE  x \in Numbers
<1>1. \A k \in 1..i + 1 : c[k] \in Nat
  <2> TAKE k \in 1..i + 1
  <2>1. k \in 1..Len(c)
    OBVIOUS
  <2> QED BY <2>1, BarSequence
<1> QED BY <1>1 DEF UpTo, Numbers

\* More of the chunk is there later.
LEMMA WarmLater ==
    ASSUME NEW c, NEW i \in Nat, NEW k \in Nat, i <= k, NEW x \in UpTo(c, i)
    PROVE  x \in UpTo(c, k)
<1>1. \A m \in 1..i + 1 : m \in 1..k + 1
  OBVIOUS
<1>2. {c[m] : m \in 1..i + 1} \subseteq {c[m] : m \in 1..k + 1}
  BY <1>1
<1> QED BY <1>2 DEF UpTo

\* The recursion the indicators have in common: no number before p, a first one at p, and from
\* then on one of the number before and of the inputs D of the index.
Recurrence(f, n, p, S, D) ==
    f = [i \in 0..n |-> IF i < p THEN J!NaN ELSE IF i = p THEN S ELSE J!From(D[i] \cup {f[i - 1]})]

\* There is a function that follows a recurrence: the recursive definition of the column has a value.
LEMMA RecurrenceExists ==
    ASSUME NEW n \in Nat, NEW p \in Nat \ {0}, NEW S \in Numbers,
           NEW D, \A i \in 0..n : D[i] \subseteq Numbers
    PROVE  \E f : Recurrence(f, n, p, S, D)
<1> DEFINE F == [x \in (0..n) \X Numbers |->
                    IF x[1] < p THEN J!NaN ELSE IF x[1] = p THEN S ELSE J!From(D[x[1]] \cup {x[2]})]
<1>1. F \in [(0..n) \X Numbers -> Numbers]
  <2> SUFFICES ASSUME NEW i \in 0..n, NEW y \in Numbers
               PROVE  (IF i < p THEN J!NaN ELSE IF i = p THEN S ELSE J!From(D[i] \cup {y})) \in Numbers
    OBVIOUS
  <2>1. J!From(D[i] \cup {y}) \in Numbers
    <3>1. D[i] \cup {y} \subseteq Numbers
      OBVIOUS
    <3> QED BY <3>1, FromNumber
  <2>2. J!NaN \in Numbers
    BY DEF J!NaN, Numbers
  <2> QED BY <2>1, <2>2
<1>2. {} \in Numbers
  BY DEF Numbers
<1>3. \A i \in 0..n, y \in Numbers :
        F[<<i, y>>] = IF i < p THEN J!NaN ELSE IF i = p THEN S ELSE J!From(D[i] \cup {y})
  OBVIOUS
<1> HIDE DEF F
<1>4. PICK f : Iterates(f, n, Numbers, {}, F)
  BY <1>1, <1>2, IterationExists
<1>5. \A i \in 0..n : f[i] = IF i < p THEN J!NaN ELSE IF i = p THEN S ELSE J!From(D[i] \cup {f[i - 1]})
  <2> TAKE i \in 0..n
  <2> DEFINE y == IF i = 0 THEN {} ELSE f[i - 1]
  <2>1. y \in Numbers
    <3>1. i # 0 => i - 1 \in 0..n
      OBVIOUS
    <3> QED BY <1>2, <1>4, <3>1 DEF Iterates
  <2>2. f[i] = F[<<i, y>>]
    BY <1>4 DEF Iterates
  <2>3. f[i] = IF i < p THEN J!NaN ELSE IF i = p THEN S ELSE J!From(D[i] \cup {y})
    <3> HIDE DEF y
    <3> QED BY <1>3, <2>1, <2>2
  <2>4. ~(i < p) /\ i # p => y = f[i - 1]
    OBVIOUS
  <2> HIDE DEF y
  <2> QED BY <2>3, <2>4
<1>6. f = [i \in 0..n |-> f[i]]
  BY <1>4 DEF Iterates
<1>7. Recurrence(f, n, p, S, D)
  BY <1>5, <1>6 DEF Recurrence
<1> QED BY <1>7

\* What follows a recurrence is warm, if what it starts from and each step is.
LEMMA RecurrenceWarm ==
    ASSUME NEW c \in Seq(J!Bars), c # << >>, NEW p \in Nat \ {0}, NEW S, NEW D, NEW f,
           Recurrence(f, Len(c) - 1, p, S, D),
           p <= Len(c) - 1 => S \in UpTo(c, p),
           \A i \in 0..Len(c) - 1 : i > p => D[i] \subseteq UpTo(c, i)
    PROVE  WarmFrom(c, f, p)
<1> DEFINE n == Len(c) - 1
           T == {i \in 0..n : i >= p /\ f[i] \notin UpTo(c, i)}
<1>1. n \in Nat
  <2>1. Len(c) \in Nat /\ Len(c) # 0
    OBVIOUS
  <2> QED BY <2>1
<1>2. \A i \in 0..n : f[i] = IF i < p THEN J!NaN ELSE IF i = p THEN S ELSE J!From(D[i] \cup {f[i - 1]})
  BY DEF Recurrence
<1>3. T = {}
  <2> SUFFICES ASSUME T # {} PROVE FALSE
    OBVIOUS
  <2>1. PICK i \in T : \A y \in T : i <= y
    <3>1. T \subseteq Nat
      <4> HIDE DEF n
      <4> QED BY <1>1
    <3> HIDE DEF T
    <3> QED BY <3>1, LeastNumber
  <2>2. i \in 0..n /\ i >= p /\ f[i] \notin UpTo(c, i) /\ i \in Nat
    BY <1>1, <2>1
  <2>3. CASE i = p
    <3>1. f[i] = S
      <4>1. ~(i < p)
        BY <2>2, <2>3
      <4>2. f[i] = IF i < p THEN J!NaN ELSE IF i = p THEN S ELSE J!From(D[i] \cup {f[i - 1]})
        BY <1>2, <2>2
      <4> QED BY <2>3, <4>1, <4>2
    <3> QED BY <2>2, <2>3, <3>1
  <2>4. CASE i # p
    <3>1. i > p /\ i - 1 \in 0..n /\ i - 1 >= p /\ ~(i < p) /\ i - 1 \in Nat /\ i - 1 <= i /\ ~(i <= i - 1)
      BY <1>1, <2>2, <2>4
    <3>2. i - 1 \notin T
      BY <2>1, <3>1
    <3>3. f[i - 1] \in UpTo(c, i - 1)
      BY <3>1, <3>2
    <3>4. f[i - 1] \in UpTo(c, i)
      BY <2>2, <3>1, <3>3, WarmLater
    <3>5. D[i] \cup {f[i - 1]} \subseteq UpTo(c, i)
      BY <2>2, <3>1, <3>4
    <3>6. J!From(D[i] \cup {f[i - 1]}) \in UpTo(c, i)
      BY <2>2, <3>5, FromWarm
    <3> QED BY <1>2, <2>2, <2>4, <3>1, <3>6
  <2> QED BY <2>3, <2>4
<1> QED BY <1>3 DEF WarmFrom

\* The numbers of a series are its bars, at their places.
LEMMA SeriesWarm ==
    ASSUME NEW c \in Seq(J!Bars), c # << >>, NEW v, v = J!Series(c)
    PROVE  /\ Len(c) - 1 \in Nat /\ DOMAIN v = 0..Len(c) - 1
           /\ \A i \in 0..Len(c) - 1 : v[i] = {c[i + 1]}
           /\ \A i \in 0..Len(c) - 1 : \A k \in 0..i : v[k] \in UpTo(c, i)
           /\ \A i \in 0..Len(c) - 1 : v[i] \in Numbers
<1>1. Len(c) \in Nat /\ Len(c) # 0
  OBVIOUS
<1>2. Len(c) - 1 \in Nat
  BY <1>1
<1>3. v = [i \in 0..Len(c) - 1 |-> {c[i + 1]}]
  BY DEF J!Series
<1>4. ASSUME NEW i \in 0..Len(c) - 1, NEW k \in 0..i PROVE v[k] \in UpTo(c, i)
  <2>1. k \in 0..Len(c) - 1 /\ k + 1 \in 1..i + 1
    BY <1>2
  <2> QED BY <1>3, <2>1 DEF UpTo
<1>5. ASSUME NEW i \in 0..Len(c) - 1 PROVE v[i] \in Numbers
  <2>1. v[i] \in UpTo(c, i)
    BY <1>2, <1>4
  <2> QED BY <2>1, WarmIsNumber
<1> QED BY <1>2, <1>3, <1>4, <1>5

\* A range of a bar is of it and the one before.
LEMMA RangeWarm ==
    ASSUME NEW c \in Seq(J!Bars), c # << >>, NEW i \in 0..Len(c) - 1, NEW v, v = J!Series(c)
    PROVE  J!trueRange(v, i) \in UpTo(c, i)
<1>1. Len(c) - 1 \in Nat /\ \A k \in 0..i : v[k] \in UpTo(c, i)
  BY SeriesWarm
<1>2. CASE i = 0
  BY <1>1, <1>2 DEF J!trueRange
<1>3. CASE i # 0
  <2>1. i \in 0..i /\ i - 1 \in 0..i
    BY <1>1, <1>3
  <2>2. {v[i], v[i - 1]} \subseteq UpTo(c, i)
    BY <1>1, <2>1
  <2>3. J!From({v[i], v[i - 1]}) \in UpTo(c, i)
    BY <2>2, FromWarm
  <2> QED BY <1>3, <2>3 DEF J!trueRange
<1> QED BY <1>2, <1>3

\* An indicator of this shape is there, and warm from p on, if its inputs are.
LEMMA IndicatorWarm ==
    ASSUME NEW c \in Seq(J!Bars), c # << >>, NEW p \in Nat \ {0}, NEW S, NEW D,
           p <= Len(c) - 1 => S \in UpTo(c, p),
           \A i \in 0..Len(c) - 1 : i > p => D[i] \subseteq UpTo(c, i)
    PROVE  /\ \E f : Recurrence(f, Len(c) - 1, p, S, D)
           /\ \A f : Recurrence(f, Len(c) - 1, p, S, D) => WarmFrom(c, f, p)
<1> DEFINE n == Len(c) - 1
           S0 == IF p <= n THEN S ELSE {}
           D0 == [i \in 0..n |-> IF i > p THEN D[i] ELSE {}]
<1>1. n \in Nat
  BY SeriesWarm
<1>2. S0 \in Numbers
  <2>1. CASE p <= n
    <3>1. p \in 0..n
      BY <1>1, <2>1
    <3> QED BY <2>1, <3>1, WarmIsNumber
  <2>2. CASE ~(p <= n)
    BY <2>2 DEF Numbers
  <2> QED BY <2>1, <2>2
<1>3. \A i \in 0..n : D0[i] \subseteq Numbers
  <2> SUFFICES ASSUME NEW i \in 0..n, i > p, NEW x \in D[i] PROVE x \in Numbers
    OBVIOUS
  <2>1. x \in UpTo(c, i)
    OBVIOUS
  <2> QED BY <2>1, WarmIsNumber
<1>4. ASSUME NEW f PROVE Recurrence(f, n, p, S0, D0) <=> Recurrence(f, n, p, S, D)
  <2>1. \A i \in 0..n : ~(i < p) /\ i # p => D0[i] = D[i]
    OBVIOUS
  <2>2. p \in 0..n => S0 = S
    BY <1>1
  <2> HIDE DEF S0, D0, n
  <2> QED BY <2>1, <2>2 DEF Recurrence
<1> HIDE DEF S0, D0
<1>5. \E f : Recurrence(f, n, p, S, D)
  <2> HIDE DEF n
  <2> QED BY <1>1, <1>2, <1>3, <1>4, RecurrenceExists
<1>6. \A f : Recurrence(f, n, p, S, D) => WarmFrom(c, f, p)
  BY RecurrenceWarm
<1> QED BY <1>5, <1>6

\* The first number of an average is of the bars up to its index.
LEMMA FirstWarm ==
    ASSUME NEW c \in Seq(J!Bars), c # << >>, NEW p \in Nat, p <= Len(c) - 1, NEW v, v = J!Series(c)
    PROVE  J!From({v[k] : k \in 0..p}) \in UpTo(c, p)
<1>1. p \in 0..Len(c) - 1 /\ \A k \in 0..p : v[k] \in UpTo(c, p)
  BY SeriesWarm
<1>2. {v[k] : k \in 0..p} \subseteq UpTo(c, p)
  BY <1>1
<1> QED BY <1>1, <1>2, FromWarm

\* An exponential average is warm from its period on.
LEMMA EmaWarm ==
    ASSUME NEW c \in Seq(J!Bars), c # << >>, NEW p \in Nat \ {0}
    PROVE  WarmFrom(c, J!EMA(J!Series(c), p), p)
<1> DEFINE n == Len(c) - 1
           v == J!Series(c)
           e == J!EMA(v, p)
           S == J!From({v[k] : k \in 0..p})
           D == [i \in 0..n |-> {v[i]}]
<1>1. /\ n \in Nat /\ DOMAIN v = 0..n
      /\ \A i \in 0..n : \A k \in 0..i : v[k] \in UpTo(c, i)
  BY SeriesWarm
<1>2. p <= n => S \in UpTo(c, p)
  BY <1>1, FirstWarm
<1>3. \A i \in 0..n : i > p => D[i] \subseteq UpTo(c, i)
  <2> SUFFICES ASSUME NEW i \in 0..n PROVE v[i] \in UpTo(c, i)
    OBVIOUS
  <2>1. i \in 0..i
    BY <1>1
  <2> QED BY <1>1, <2>1
<1>4. \A f : Recurrence(f, n, p, S, D)
               <=> f = [i \in DOMAIN v |-> IF i < p THEN J!NaN
                                           ELSE IF i = p THEN J!From({v[k] : k \in 0..p})
                                           ELSE J!From({v[i], f[i - 1]})]
  <2> TAKE f
  <2>1. \A i \in 0..n : D[i] \cup {f[i - 1]} = {v[i], f[i - 1]}
    OBVIOUS
  <2>2. S = J!From({v[k] : k \in 0..p})
    OBVIOUS
  <2> HIDE DEF v, S, D, n
  <2> QED BY <1>1, <2>1, <2>2 DEF Recurrence
<1> HIDE DEF S, D, v
<1>5. \E f : Recurrence(f, n, p, S, D)
  BY <1>2, <1>3, IndicatorWarm
<1>6. PICK f : f = [i \in DOMAIN v |-> IF i < p THEN J!NaN
                                       ELSE IF i = p THEN J!From({v[k] : k \in 0..p})
                                       ELSE J!From({v[i], f[i - 1]})]
  BY <1>4, <1>5
<1>7. e = [i \in DOMAIN v |-> IF i < p THEN J!NaN
                              ELSE IF i = p THEN J!From({v[k] : k \in 0..p})
                              ELSE J!From({v[i], e[i - 1]})]
  BY <1>6, Zenon DEF J!EMA
<1> HIDE DEF e
<1>8. Recurrence(e, n, p, S, D)
  BY <1>4, <1>7
<1>9. WarmFrom(c, e, p)
  BY <1>2, <1>3, <1>8, IndicatorWarm
<1> QED BY <1>9 DEF e, v

\* The relative strength is warm from its period on.
LEMMA RsiWarm ==
    ASSUME NEW c \in Seq(J!Bars), c # << >>, NEW p \in Nat \ {0}
    PROVE  WarmFrom(c, J!RSI(J!Series(c), p), p)
<1> DEFINE n == Len(c) - 1
           v == J!Series(c)
           e == J!RSI(v, p)
           S == J!From({v[k] : k \in 0..p})
           D == [i \in 0..n |-> {v[i], v[i - 1]}]
<1>1. /\ n \in Nat /\ DOMAIN v = 0..n
      /\ \A i \in 0..n : \A k \in 0..i : v[k] \in UpTo(c, i)
  BY SeriesWarm
<1>2. p <= n => S \in UpTo(c, p)
  BY <1>1, FirstWarm
<1>3. \A i \in 0..n : i > p => D[i] \subseteq UpTo(c, i)
  <2> SUFFICES ASSUME NEW i \in 0..n, i > p PROVE v[i] \in UpTo(c, i) /\ v[i - 1] \in UpTo(c, i)
    OBVIOUS
  <2>1. i \in 0..i /\ i - 1 \in 0..i
    BY <1>1
  <2> QED BY <1>1, <2>1
<1>4. \A f : Recurrence(f, n, p, S, D)
               <=> f = [i \in DOMAIN v |-> IF i < p THEN J!NaN
                                           ELSE IF i = p THEN J!From({v[k] : k \in 0..p})
                                           ELSE J!From({v[i], v[i - 1], f[i - 1]})]
  <2> TAKE f
  <2>1. \A i \in 0..n : D[i] \cup {f[i - 1]} = {v[i], v[i - 1], f[i - 1]}
    OBVIOUS
  <2>2. S = J!From({v[k] : k \in 0..p})
    OBVIOUS
  <2> HIDE DEF v, S, D, n
  <2> QED BY <1>1, <2>1, <2>2 DEF Recurrence
<1> HIDE DEF S, D, v
<1>5. \E f : Recurrence(f, n, p, S, D)
  BY <1>2, <1>3, IndicatorWarm
<1>6. PICK f : f = [i \in DOMAIN v |-> IF i < p THEN J!NaN
                                       ELSE IF i = p THEN J!From({v[k] : k \in 0..p})
                                       ELSE J!From({v[i], v[i - 1], f[i - 1]})]
  BY <1>4, <1>5
<1>7. e = [i \in DOMAIN v |-> IF i < p THEN J!NaN
                              ELSE IF i = p THEN J!From({v[k] : k \in 0..p})
                              ELSE J!From({v[i], v[i - 1], e[i - 1]})]
  BY <1>6, Zenon DEF J!RSI
<1> HIDE DEF e
<1>8. Recurrence(e, n, p, S, D)
  BY <1>4, <1>7
<1>9. WarmFrom(c, e, p)
  BY <1>2, <1>3, <1>8, IndicatorWarm
<1> QED BY <1>9 DEF e, v

\* A smoothed range is warm from its period on.
LEMMA SmoothedWarm ==
    ASSUME NEW c \in Seq(J!Bars), c # << >>, NEW p \in Nat \ {0}
    PROVE  WarmFrom(c, J!Smoothed(J!Series(c), p), p)
<1> DEFINE n == Len(c) - 1
           v == J!Series(c)
           e == J!Smoothed(v, p)
           S == J!From({J!trueRange(v, k) : k \in 0..p - 1})
           D == [i \in 0..n |-> {J!trueRange(v, i)}]
<1>1. n \in Nat /\ DOMAIN v = 0..n /\ \A i \in 0..n : J!trueRange(v, i) \in UpTo(c, i)
  BY SeriesWarm, RangeWarm
<1>2. p <= n => S \in UpTo(c, p)
  <2> SUFFICES ASSUME p <= n PROVE S \in UpTo(c, p)
    OBVIOUS
  <2>1. p \in 0..n /\ \A k \in 0..p - 1 : k \in 0..n /\ k \in Nat /\ k <= p
    BY <1>1
  <2>2. \A k \in 0..p - 1 : J!trueRange(v, k) \in UpTo(c, p)
    <3> HIDE DEF v
    <3> QED BY <1>1, <2>1, WarmLater
  <2>3. {J!trueRange(v, k) : k \in 0..p - 1} \subseteq UpTo(c, p)
    BY <2>2
  <2> HIDE DEF v
  <2> QED BY <2>1, <2>3, FromWarm
<1>3. \A i \in 0..n : i > p => D[i] \subseteq UpTo(c, i)
  BY <1>1
<1>4. \A f : Recurrence(f, n, p, S, D)
               <=> f = [i \in DOMAIN v |-> IF i < p THEN J!NaN
                                           ELSE IF i = p THEN J!From({J!trueRange(v, k) : k \in 0..p - 1})
                                           ELSE J!From({f[i - 1], J!trueRange(v, i)})]
  <2> TAKE f
  <2>1. \A i \in 0..n : D[i] \cup {f[i - 1]} = {f[i - 1], J!trueRange(v, i)}
    OBVIOUS
  <2>2. S = J!From({J!trueRange(v, k) : k \in 0..p - 1})
    OBVIOUS
  <2> HIDE DEF v, S, D, n
  <2> QED BY <1>1, <2>1, <2>2 DEF Recurrence
<1> HIDE DEF S, D, v
<1>5. \E f : Recurrence(f, n, p, S, D)
  BY <1>2, <1>3, IndicatorWarm
<1>6. PICK f : f = [i \in DOMAIN v |-> IF i < p THEN J!NaN
                                       ELSE IF i = p THEN J!From({J!trueRange(v, k) : k \in 0..p - 1})
                                       ELSE J!From({f[i - 1], J!trueRange(v, i)})]
  BY <1>4, <1>5
<1>7. e = [i \in DOMAIN v |-> IF i < p THEN J!NaN
                              ELSE IF i = p THEN J!From({J!trueRange(v, k) : k \in 0..p - 1})
                              ELSE J!From({e[i - 1], J!trueRange(v, i)})]
  BY <1>6, Zenon DEF J!Smoothed
<1> HIDE DEF e
<1>8. Recurrence(e, n, p, S, D)
  BY <1>4, <1>7
<1>9. WarmFrom(c, e, p)
  BY <1>2, <1>3, <1>8, IndicatorWarm
<1> QED BY <1>9 DEF e, v

\* The directional index smooths twice.
LEMMA AdxWarm ==
    ASSUME NEW c \in Seq(J!Bars), c # << >>, NEW p \in Nat \ {0}
    PROVE  WarmFrom(c, J!ADX(J!Series(c), p), 2 * p)
<1> DEFINE n == Len(c) - 1
           v == J!Series(c)
           dx == J!Smoothed(v, p)
           e == J!ADX(v, p)
           S == J!From({dx[k] : k \in p + 1..2 * p})
           D == [i \in 0..n |-> {dx[i]}]
<1>0. 2 * p \in Nat \ {0} /\ p < 2 * p /\ p \in Nat
  OBVIOUS
<1>1. n \in Nat /\ DOMAIN v = 0..n /\ \A i \in 0..n : i >= p => dx[i] \in UpTo(c, i)
  <2>1. WarmFrom(c, dx, p)
    BY SmoothedWarm
  <2>2. n \in Nat /\ DOMAIN v = 0..n
    BY SeriesWarm
  <2> HIDE DEF dx, v
  <2> QED BY <2>1, <2>2 DEF WarmFrom
<1> HIDE DEF dx
<1>2. 2 * p <= n => S \in UpTo(c, 2 * p)
  <2> SUFFICES ASSUME 2 * p <= n PROVE S \in UpTo(c, 2 * p)
    OBVIOUS
  <2>1. 2 * p \in 0..n /\ \A k \in p + 1..2 * p : k \in 0..n /\ k \in Nat /\ k <= 2 * p /\ k >= p
    BY <1>0, <1>1
  <2>2. \A k \in p + 1..2 * p : dx[k] \in UpTo(c, 2 * p)
    BY <1>0, <1>1, <2>1, WarmLater
  <2>3. {dx[k] : k \in p + 1..2 * p} \subseteq UpTo(c, 2 * p)
    BY <2>2
  <2> QED BY <2>1, <2>3, FromWarm
<1>3. \A i \in 0..n : i > 2 * p => D[i] \subseteq UpTo(c, i)
  <2> SUFFICES ASSUME NEW i \in 0..n, i > 2 * p PROVE dx[i] \in UpTo(c, i)
    OBVIOUS
  <2>1. i >= p
    BY <1>0, <1>1
  <2> QED BY <1>1, <2>1
<1>4. \A f : Recurrence(f, n, 2 * p, S, D)
               <=> f = [i \in DOMAIN v |-> IF i < 2 * p THEN J!NaN
                                           ELSE IF i = 2 * p THEN J!From({dx[k] : k \in p + 1..2 * p})
                                           ELSE J!From({f[i - 1], dx[i]})]
  <2> TAKE f
  <2>1. \A i \in 0..n : D[i] \cup {f[i - 1]} = {f[i - 1], dx[i]}
    OBVIOUS
  <2>2. S = J!From({dx[k] : k \in p + 1..2 * p})
    OBVIOUS
  <2> HIDE DEF v, S, D, n
  <2> QED BY <1>1, <2>1, <2>2 DEF Recurrence
<1> HIDE DEF S, D, v
<1>5. \E f : Recurrence(f, n, 2 * p, S, D)
  BY <1>0, <1>2, <1>3, IndicatorWarm
<1>6. PICK f : f = [i \in DOMAIN v |-> IF i < 2 * p THEN J!NaN
                                       ELSE IF i = 2 * p THEN J!From({dx[k] : k \in p + 1..2 * p})
                                       ELSE J!From({f[i - 1], dx[i]})]
  BY <1>4, <1>5
<1>7. e = [i \in DOMAIN v |-> IF i < 2 * p THEN J!NaN
                              ELSE IF i = 2 * p THEN J!From({dx[k] : k \in p + 1..2 * p})
                              ELSE J!From({e[i - 1], dx[i]})]
  BY <1>6, Zenon DEF J!ADX, dx
<1> HIDE DEF e
<1>8. Recurrence(e, n, 2 * p, S, D)
  BY <1>4, <1>7
<1>9. WarmFrom(c, e, 2 * p)
  BY <1>0, <1>2, <1>3, <1>8, IndicatorWarm
<1> QED BY <1>9 DEF e, v

\* A return is of two bars that many places apart.
LEMMA ReturnWarm ==
    ASSUME NEW c \in Seq(J!Bars), c # << >>, NEW p \in Nat \ {0}
    PROVE  /\ WarmFrom(c, J!LogReturn(J!Series(c), p), p)
           /\ \A i \in 0..Len(c) - 1 : i >= p => c[i + 1] \in J!LogReturn(J!Series(c), p)[i]
<1> DEFINE n == Len(c) - 1
           v == J!Series(c)
           r == J!LogReturn(v, p)
<1>1. /\ n \in Nat /\ DOMAIN v = 0..n /\ \A i \in 0..n : v[i] = {c[i + 1]}
      /\ \A i \in 0..n : \A k \in 0..i : v[k] \in UpTo(c, i)
  BY SeriesWarm
<1>2. \A i \in 0..n : r[i] = IF i < p THEN J!NaN ELSE J!From({v[i], v[i - p]})
  BY <1>1 DEF J!LogReturn
<1>3. ASSUME NEW i \in 0..n, i >= p PROVE r[i] \in UpTo(c, i) /\ c[i + 1] \in r[i]
  <2>1. i \in 0..i /\ i - p \in 0..i /\ i - p \in 0..n /\ ~(i < p)
    BY <1>1, <1>3
  <2>2. {v[i], v[i - p]} \subseteq UpTo(c, i)
    BY <1>1, <2>1
  <2>3. r[i] = J!From({v[i], v[i - p]})
    BY <1>2, <2>1
  <2>4. J!NaN \notin {v[i], v[i - p]}
    <3>1. c[i + 1] # 0 /\ c[i - p + 1] # 0
      <4>1. i + 1 \in 1..Len(c) /\ i - p + 1 \in 1..Len(c)
        BY <1>1, <2>1
      <4> QED BY <4>1, BarSequence
    <3>2. v[i] = {c[i + 1]} /\ v[i - p] = {c[i - p + 1]}
      BY <1>1, <2>1
    <3> HIDE DEF v
    <3> QED BY <3>1, <3>2 DEF J!NaN
  <2> HIDE DEF r, v
  <2>5. r[i] \in UpTo(c, i)
    BY <2>2, <2>3, FromWarm
  <2>6. r[i] = UNION {v[i], v[i - p]}
    BY <2>3, <2>4 DEF J!From
  <2>7. c[i + 1] \in v[i]
    BY <1>1
  <2> QED BY <2>5, <2>6, <2>7
<1> HIDE DEF r
<1>4. WarmFrom(c, r, p)
  BY <1>3 DEF WarmFrom
<1> QED BY <1>3, <1>4 DEF r

\* A window over a column is warm when all of it is.
LEMMA WindowWarm ==
    ASSUME NEW c \in Seq(J!Bars), c # << >>, NEW q \in Nat, NEW w \in Nat \ {0}, NEW a,
           DOMAIN a = 0..Len(c) - 1, WarmFrom(c, a, q)
    PROVE  WarmFrom(c, J!Window(a, w), q + w - 1)
<1> DEFINE n == Len(c) - 1
           b == J!Window(a, w)
<1>1. n \in Nat
  BY SeriesWarm
<1>2. \A i \in 0..n : b[i] = IF i < w - 1 THEN J!NaN ELSE J!From({a[k] : k \in i - w + 1..i})
  BY DEF J!Window
<1>3. ASSUME NEW i \in 0..n, i >= q + w - 1 PROVE b[i] \in UpTo(c, i)
  <2>1. ~(i < w - 1) /\ \A k \in i - w + 1..i : k \in 0..n /\ k \in Nat /\ k <= i /\ k >= q
    BY <1>1, <1>3
  <2>2. \A k \in i - w + 1..i : a[k] \in UpTo(c, k)
    BY <2>1 DEF WarmFrom
  <2>3. i \in Nat
    BY <1>1
  <2>4. \A k \in i - w + 1..i : a[k] \in UpTo(c, i)
    BY <2>1, <2>2, <2>3, WarmLater
  <2>5. {a[k] : k \in i - w + 1..i} \subseteq UpTo(c, i)
    BY <2>4
  <2>6. b[i] = J!From({a[k] : k \in i - w + 1..i})
    BY <1>2, <2>1
  <2> HIDE DEF b
  <2> QED BY <2>5, <2>6, FromWarm
<1> HIDE DEF b
<1>4. WarmFrom(c, b, q + w - 1)
  BY <1>3 DEF WarmFrom
<1> QED BY <1>4 DEF b

-----------------------------------------------------------------------------
(***************************************************************************)
(* The rows.                                                               *)
(***************************************************************************)
\* The entries of a sequence are in the set it is over.
LEMMA Entries ==
    ASSUME NEW S, NEW s \in Seq(S)
    PROVE  \A k \in 1..Len(s) : s[k] \in S
OBVIOUS

\* What the code's periods are to the warm-up.
LEMMA Periods ==
    /\ Len(EmaPeriods) = 3 /\ Len(ReturnPeriods) = 3 /\ Len(VolWindows) = 2
    /\ Period \in Nat \ {0} /\ 2 * Period <= WarmupBars
    /\ \A k \in 1..3 : EmaPeriods[k] \in Nat \ {0} /\ EmaPeriods[k] <= WarmupBars
    /\ \A k \in 1..3 : ReturnPeriods[k] \in Nat \ {0} /\ ReturnPeriods[k] <= WarmupBars
    /\ \A k \in 1..2 : VolWindows[k] \in Nat \ {0} /\ ReturnPeriods[1] + VolWindows[k] - 1 <= WarmupBars
<1>1. /\ EmaPeriods \in Seq(Nat \ {0}) /\ ReturnPeriods \in Seq(Nat \ {0})
      /\ VolWindows \in Seq(Nat \ {0, 1}) /\ Period \in Nat \ {0}
  BY BatchAssumption DEF J!FeatureAssumption
<1>2. J!WarmupCovers
  BY BatchAssumption DEF J!JobAssumption
<1>3. /\ Len(EmaPeriods) = 3 /\ Len(ReturnPeriods) = 3 /\ Len(VolWindows) = 2 /\ 2 * Period <= WarmupBars
      /\ \A k \in 1..3 : EmaPeriods[k] <= WarmupBars /\ ReturnPeriods[k] <= WarmupBars
      /\ \A k \in 1..2 : ReturnPeriods[1] + VolWindows[k] - 1 <= WarmupBars
  BY <1>2 DEF J!WarmupCovers
<1>4. \A k \in 1..3 : EmaPeriods[k] \in Nat \ {0} /\ ReturnPeriods[k] \in Nat \ {0}
  <2>1. \A k \in 1..Len(EmaPeriods) : EmaPeriods[k] \in Nat \ {0}
    BY <1>1, Entries
  <2>2. \A k \in 1..Len(ReturnPeriods) : ReturnPeriods[k] \in Nat \ {0}
    BY <1>1, Entries
  <2> QED BY <1>3, <2>1, <2>2
<1>5. \A k \in 1..2 : VolWindows[k] \in Nat \ {0}
  <2>1. \A k \in 1..Len(VolWindows) : VolWindows[k] \in Nat \ {0, 1}
    BY <1>1, Entries
  <2> QED BY <1>3, <2>1
<1> QED BY <1>1, <1>3, <1>4, <1>5

\* All of the twelve columns are warm after the warm-up, and one reads the bar itself.
LEMMA ColumnsWarm ==
    ASSUME NEW c \in Seq(J!Bars), c # << >>
    PROVE  /\ DOMAIN J!Mandatory(c) = 1..12
           /\ \A m \in 1..12 : WarmFrom(c, J!Mandatory(c)[m], WarmupBars)
           /\ \A i \in 0..Len(c) - 1 : i >= WarmupBars => c[i + 1] \in J!Mandatory(c)[8][i]
<1> DEFINE v == J!Series(c)
           M12 == J!Mandatory(c)
<1>1. Len(c) - 1 \in Nat /\ DOMAIN v = 0..Len(c) - 1 /\ WarmupBars \in Nat
  BY SeriesWarm, Windows
<1>2. /\ DOMAIN M12 = 1..12
      /\ M12[1] = J!EMA(v, EmaPeriods[1]) /\ M12[2] = J!EMA(v, EmaPeriods[2])
      /\ M12[3] = J!EMA(v, EmaPeriods[3]) /\ M12[4] = J!RSI(v, Period) /\ M12[5] = J!ATR(v, Period)
      /\ M12[6] = J!ADX(v, Period) /\ M12[7] = J!EMA(v, EmaPeriods[1])
      /\ M12[8] = J!LogReturn(v, ReturnPeriods[1]) /\ M12[9] = J!LogReturn(v, ReturnPeriods[2])
      /\ M12[10] = J!LogReturn(v, ReturnPeriods[3])
      /\ M12[11] = J!Window(J!LogReturn(v, ReturnPeriods[1]), VolWindows[1])
      /\ M12[12] = J!Window(J!LogReturn(v, ReturnPeriods[1]), VolWindows[2])
  BY DEF J!Mandatory
<1> HIDE DEF M12
<1>3. ASSUME NEW a, NEW q \in Nat, q <= WarmupBars, WarmFrom(c, a, q)
      PROVE  WarmFrom(c, a, WarmupBars)
  <2> SUFFICES ASSUME NEW i \in 0..Len(c) - 1, i >= WarmupBars PROVE a[i] \in UpTo(c, i)
    BY DEF WarmFrom
  <2>1. i >= q
    BY <1>1, <1>3
  <2> QED BY <1>3, <2>1 DEF WarmFrom
<1>4. \A k \in 1..3 : WarmFrom(c, J!EMA(v, EmaPeriods[k]), WarmupBars)
  BY <1>3, EmaWarm, Periods
<1>5. WarmFrom(c, J!RSI(v, Period), WarmupBars) /\ WarmFrom(c, J!ATR(v, Period), WarmupBars)
  <2>1. Period \in Nat \ {0} /\ Period \in Nat /\ Period <= WarmupBars
    BY <1>1, Periods
  <2>2. WarmFrom(c, J!RSI(v, Period), Period)
    BY <2>1, RsiWarm
  <2>3. WarmFrom(c, J!Smoothed(v, Period), Period)
    BY <2>1, SmoothedWarm
  <2> QED BY <1>3, <2>1, <2>2, <2>3 DEF J!ATR
<1>6. WarmFrom(c, J!ADX(v, Period), WarmupBars)
  <2>1. 2 * Period \in Nat /\ 2 * Period <= WarmupBars /\ Period \in Nat \ {0}
    BY Periods
  <2>2. WarmFrom(c, J!ADX(v, Period), 2 * Period)
    BY <2>1, AdxWarm
  <2> QED BY <1>3, <2>1, <2>2
<1>7. \A k \in 1..3 : WarmFrom(c, J!LogReturn(v, ReturnPeriods[k]), ReturnPeriods[k])
  BY ReturnWarm, Periods
<1>8. \A k \in 1..3 : WarmFrom(c, J!LogReturn(v, ReturnPeriods[k]), WarmupBars)
  BY <1>3, <1>7, Periods
<1>9. \A k \in 1..2 : WarmFrom(c, J!Window(J!LogReturn(v, ReturnPeriods[1]), VolWindows[k]), WarmupBars)
  <2> TAKE k \in 1..2
  <2> DEFINE a == J!LogReturn(v, ReturnPeriods[1])
             q == ReturnPeriods[1] + VolWindows[k] - 1
  <2>1. 1 \in 1..3 /\ ReturnPeriods[1] \in Nat \ {0} /\ VolWindows[k] \in Nat \ {0} /\ q <= WarmupBars
    BY Periods, SMTT(30)
  <2>2. q \in Nat
    BY <2>1
  <2>3. WarmFrom(c, a, ReturnPeriods[1])
    BY <1>7, <2>1
  <2>4. DOMAIN a = 0..Len(c) - 1
    BY <1>1 DEF J!LogReturn
  <2> HIDE DEF a
  <2>5. WarmFrom(c, J!Window(a, VolWindows[k]), q)
    BY <2>1, <2>3, <2>4, WindowWarm
  <2> HIDE DEF q
  <2>6. WarmFrom(c, J!Window(a, VolWindows[k]), WarmupBars)
    BY <1>3, <2>1, <2>2, <2>5
  <2> QED BY <2>6 DEF a
<1>10. ASSUME NEW i \in 0..Len(c) - 1, i >= WarmupBars PROVE c[i + 1] \in M12[8][i]
  <2>1. ReturnPeriods[1] \in Nat \ {0} /\ ReturnPeriods[1] <= WarmupBars
    BY Periods
  <2>2. i >= ReturnPeriods[1]
    BY <1>1, <1>10, <2>1
  <2> QED BY <1>2, <2>1, <2>2, ReturnWarm
<1>11. ASSUME NEW m \in 1..12 PROVE WarmFrom(c, M12[m], WarmupBars)
  <2> HIDE DEF v
  <2>1. m \in {1, 2, 3, 4, 5, 6, 7, 8, 9, 10, 11, 12}
    OBVIOUS
  <2>2. 1 \in 1..3 /\ 2 \in 1..3 /\ 3 \in 1..3 /\ 1 \in 1..2 /\ 2 \in 1..2
    OBVIOUS
  <2>3. CASE m \in {1, 2, 3, 7}
    BY <1>2, <1>4, <2>2, <2>3
  <2>4. CASE m \in {4, 5, 6}
    BY <1>2, <1>5, <1>6, <2>4
  <2>5. CASE m \in {8, 9, 10}
    BY <1>2, <1>8, <2>2, <2>5
  <2>6. CASE m \in {11, 12}
    BY <1>2, <1>9, <2>2, <2>6
  <2> QED BY <2>1, <2>3, <2>4, <2>5, <2>6
<1> QED BY <1>2, <1>10, <1>11 DEF M12

\* A row that misses no column, reads its bar, and none after it.
WarmRow(b, r) ==
    /\ r.nan = {} /\ b \in r.reads /\ r.reads \in SUBSET J!Bars
    /\ \A x \in r.reads : x <= b

\* The rows a chunk is stored with are such.
LEMMA RowWarm ==
    ASSUME NEW c \in Seq(J!Bars), Ascends(c), NEW k \in J!Valid(c)
    PROVE  WarmRow(c[k], J!FeatureRow(c, k))
<1> DEFINE cols == J!Mandatory(c)
           i == k - 1
<1>1. /\ Len(c) \in Nat /\ DOMAIN c = 1..Len(c) /\ WarmupBars \in Nat \ {0} /\ k \in WarmupBars + 1..Len(c)
  BY BarSequence, Windows DEF J!Valid
<1>2. i \in 0..Len(c) - 1 /\ i >= WarmupBars /\ i + 1 = k /\ k \in 1..Len(c)
  BY <1>1
<1>3. c # << >>
  BY <1>1
<1>4. /\ DOMAIN cols = 1..12 /\ \A m \in 1..12 : WarmFrom(c, cols[m], WarmupBars)
      /\ c[i + 1] \in cols[8][i]
  BY <1>2, <1>3, ColumnsWarm
<1> HIDE DEF cols, i
<1>5. \A m \in 1..12 : cols[m][i] \in UpTo(c, i)
  BY <1>2, <1>4 DEF WarmFrom
<1>6. \A x \in {c[p] : p \in 1..i + 1} : x \in J!Bars /\ x # 0 /\ x <= c[k]
  <2> SUFFICES ASSUME NEW p \in 1..i + 1 PROVE c[p] \in J!Bars /\ c[p] # 0 /\ c[p] <= c[k]
    OBVIOUS
  <2>1. p \in 1..Len(c) /\ (p < k \/ p = k)
    BY <1>1, <1>2
  <2>2. c[p] \in J!Bars /\ c[p] \in Nat \ {0} /\ c[k] \in Nat
    BY <1>2, <2>1, BarSequence
  <2>3. p < k => c[p] < c[k]
    BY <1>1, <1>2, <2>1 DEF Ascends
  <2> QED BY <2>1, <2>2, <2>3
<1>7. \A m \in 1..12 : \A x \in cols[m][i] : x \in J!Bars /\ x # 0 /\ x <= c[k]
  BY <1>5, <1>6 DEF UpTo
<1>8. \A m \in 1..12 : cols[m][i] # J!NaN
  <2>1. 0 \in J!NaN
    BY DEF J!NaN
  <2> QED BY <1>7, <2>1
<1> DEFINE r == J!FeatureRow(c, k)
       U == UNION {cols[m][i] : m \in DOMAIN cols}
<1>9. r.nan = {m \in DOMAIN cols : cols[m][i] = J!NaN} /\ r.reads = U \ J!NaN
  BY DEF J!FeatureRow, J!Row, cols, i
<1> HIDE DEF r, U
<1>10. r.nan = {}
  BY <1>4, <1>8, <1>9
<1>11. \A x \in r.reads : x \in J!Bars /\ x <= c[k]
  BY <1>4, <1>7, <1>9 DEF U
<1>12. c[k] \in r.reads
  <2>1. c[k] \in cols[8][i] /\ 8 \in 1..12
    BY <1>2, <1>4
  <2>2. c[k] # 0
    BY <1>2, BarSequence
  <2>3. c[k] \notin J!NaN
    BY <2>2 DEF J!NaN
  <2>4. cols[8][i] \in {cols[m][i] : m \in DOMAIN cols}
    BY <1>4, <2>1
  <2>5. c[k] \in U
    BY <2>1, <2>4 DEF U
  <2> QED BY <1>9, <2>3, <2>5
<1> QED BY <1>10, <1>11, <1>12 DEF WarmRow, r

\* Every stored row is warm.
WarmInv == DOMAIN features \subseteq J!Bars /\ \A b \in DOMAIN features : WarmRow(b, features[b])

\* Each step of any process keeps the rows warm.
LEMMA WarmStep ==
    ASSUME WarmInv, ReadInv, [Next]_vars
    PROVE  WarmInv'
<1>1. ASSUME UNCHANGED features PROVE WarmInv'
  BY <1>1 DEF WarmInv
<1>2. CASE Migrate
  BY <1>1, <1>2 DEF Migrate, jobVars
<1>3. ASSUME NEW j \in Jobs, BeginJob(j) PROVE WarmInv'
  BY <1>1, <1>3 DEF BeginJob
<1>4. ASSUME NEW s \in Studies, BeginStudy(s) PROVE WarmInv'
  BY <1>1, <1>4 DEF BeginStudy, jobVars
<1>5. CASE Backfill
  <2>1. CASE J!CandleStored
    BY <1>1, <2>1 DEF J!CandleStored
  <2>2. ASSUME NEW j \in Jobs, J!Kill(j) PROVE WarmInv'
    BY <1>1, <2>2 DEF J!Kill, J!tables
  <2>3. ASSUME NEW j \in Jobs, NEW o, J!Upsert(j, o) PROVE WarmInv'
    <3>1. place[j] = "upsert" /\ (features' = features \/ features' = J!UpsertFeatures(chunk[j]))
      BY <2>3 DEF J!Upsert
    <3>2. CASE features' = J!UpsertFeatures(chunk[j])
      <4> DEFINE c == chunk[j]
      <4>1. c \in Seq(J!Bars) /\ Ascends(c)
        BY <3>1 DEF ReadInv, JobReads, ChunkLoaded, Bounded
      <4>2. \A k \in J!Valid(c) : c[k] \in J!Bars
        BY <4>1, BarSequence, Windows DEF J!Valid
      <4>3. DOMAIN features' = DOMAIN features \cup {c[k] : k \in J!Valid(c)}
        BY <3>2 DEF J!UpsertFeatures
      <4>4. ASSUME NEW b \in DOMAIN features' PROVE WarmRow(b, features'[b])
        <5>1. CASE \E k \in J!Valid(c) : c[k] = b
          <6> DEFINE k == CHOOSE k \in J!Valid(c) : c[k] = b
          <6>1. k \in J!Valid(c) /\ c[k] = b
            BY <5>1
          <6>2. features'[b] = J!FeatureRow(c, k)
            BY <3>2, <4>3, <5>1 DEF J!UpsertFeatures
          <6> HIDE DEF k, c
          <6>3. WarmRow(c[k], J!FeatureRow(c, k))
            BY <4>1, <6>1, RowWarm
          <6> QED BY <6>1, <6>2, <6>3
        <5>2. CASE ~(\E k \in J!Valid(c) : c[k] = b)
          <6>1. b \in DOMAIN features /\ features'[b] = features[b]
            BY <3>2, <4>3, <5>2 DEF J!UpsertFeatures
          <6> QED BY <6>1 DEF WarmInv
        <5> QED BY <5>1, <5>2
      <4>5. DOMAIN features' \subseteq J!Bars
        BY <4>2, <4>3 DEF WarmInv
      <4> QED BY <4>4, <4>5 DEF WarmInv
    <3> QED BY <1>1, <3>1, <3>2
  <2>4. ASSUME NEW j \in Jobs, NEW o,
               J!Create(j, o) \/ J!Start(j, o) \/ J!Load(j, o) \/ J!Progress(j, o) \/ J!Labels(j, o)
                 \/ J!Fail(j, o) \/ J!Complete(j, o)
        PROVE  WarmInv'
    <3>1. UNCHANGED features
      BY <2>4 DEF J!Create, J!Start, J!Load, J!Progress, J!Labels, J!Fail, J!Complete, J!tables
    <3> QED BY <1>1, <3>1
  <2> QED BY <1>5, <2>1, <2>2, <2>3, <2>4 DEF Backfill, J!processPair
<1>6. CASE Study
  BY <1>1, <1>6 DEF Study, jobVars
<1>7. CASE UNCHANGED vars
  BY <1>1, <1>7 DEF vars, jobVars
<1> QED BY <1>2, <1>3, <1>4, <1>5, <1>6, <1>7 DEF Next

\* Every stored row has all its mandatory columns, reads the bar it is of and no later one.
THEOREM RowsAlwaysWarm == Spec => []RowsWarm
<1> DEFINE Inv == ReadInv /\ JobInv /\ DataInv /\ WarmInv
<1>1. Init => Inv
  <2>1. J!jobInit => WarmInv
    BY DEF J!jobInit, WarmInv
  <2> QED BY <2>1, ReadInit, JobInit, DataInit DEF Init
<1>2. Inv /\ [Next]_vars => Inv'
  BY ReadStep, JobStep, DataStep, WarmStep
<1>3. Inv => RowsWarm
  BY DEF WarmInv, WarmRow, RowsWarm, J!RowsWarm
<1> HIDE DEF Inv
<1> QED BY <1>1, <1>2, <1>3, PTL DEF Spec

\* The job row and the run row tell how their process ended, for any number of processes,
\* any sizes and any number of faults; and a completed run holds what was computed, whole
\* and in order.
THEOREM RowsAlwaysTellEnd == Spec => []RowsTellEnd
<1>1. Init => JobInv /\ DataInv /\ StudyInv
  BY JobInit, DataInit, StudyInitially DEF Init
<1>2. JobInv /\ DataInv /\ StudyInv /\ RowsWarm /\ [Next]_vars => (JobInv /\ DataInv /\ StudyInv)'
  BY JobStep, DataStep, StudyStep
<1>3. JobInv /\ DataInv /\ StudyInv => RowsTellEnd
  BY JobTells, StudyTells DEF RowsTellEnd
<1> QED BY <1>1, <1>2, <1>3, RowsAlwaysWarm, PTL DEF Spec

-----------------------------------------------------------------------------
(***************************************************************************)
(* The types.                                                              *)
(***************************************************************************)
Statuses == {"absent", "pending", "running", "failed", "completed"}
Places == {"ready", "create", "start", "load", "upsert", "progress", "labels", "complete", "fail", "ended"}

\* What a row may say, and no more rows than were written.
TypedJob(j) ==
    /\ jobs[j].status \in Statuses /\ place[j] \in Places
    /\ totalWritten[j] \in Nat /\ jobs[j].processed \in 0..totalWritten[j]

TypedJobs == DOMAIN labels \subseteq J!Bars /\ \A j \in Jobs : TypedJob(j)

\* At the end of a study its results are still no more than it has computed.
TypedStudies ==
    /\ runs \in [Studies -> Statuses]
    /\ at \in [Studies -> {"wait", "create", "start", "count", "analyse", "save", "failing", "exit"}]
    /\ \A s \in Studies : Len(results[s]) <= Len(allResults[s])

\* A chunk has a natural number of rows.
LEMMA ValidCount ==
    ASSUME NEW c, Len(c) \in Nat
    PROVE  J!Cardinality(J!Valid(c)) \in Nat
<1>1. IsFiniteSet(J!Valid(c))
  <2>1. WarmupBars + 1 \in Int /\ Len(c) \in Int
    BY Windows
  <2> QED BY <2>1, FS_Interval DEF J!Valid
<1>2. Cardinality(J!Valid(c)) \in Nat
  BY <1>1, FS_CardinalityType
<1>3. J!Cardinality(J!Valid(c)) = Cardinality(J!Valid(c))
  BY OneCardinality
<1> QED BY <1>2, <1>3

\* A step of a job keeps the types of all of them.
LEMMA JobTyped ==
    ASSUME TypedJobs, JobInv, ReadInv, NEW j \in Jobs, NEW o \in Outcomes,
           J!processPair(j, o) \/ J!Kill(j) \/ BeginJob(j)
    PROVE  TypedJobs'
<1>1. /\ OnJobs(place) /\ OnJobs(totalWritten) /\ TypedJob(j) /\ DOMAIN jobs = Jobs
      /\ jobs[j] = [status |-> jobs[j].status, processed |-> jobs[j].processed]
  BY DEF JobInv, JobShape, TypedJobs
<1>2. \/ place' = place
      \/ \E p \in Places : place' = [place EXCEPT ![j] = p]
  BY DEF J!processPair, J!Create, J!Start, J!Load, J!Upsert, J!Progress, J!Labels, J!Fail, J!Complete,
         J!Kill, BeginJob, J!Goto, Places
<1>3. \/ totalWritten' = totalWritten
      \/ \E n \in Nat : totalWritten' = [totalWritten EXCEPT ![j] = @ + n]
  <2>1. CASE J!Upsert(j, o) /\ o = "ok"
    <3>1. place[j] = "upsert"
      BY <2>1 DEF J!Upsert
    <3>2. chunk[j] \in Seq(J!Bars)
      BY DEF ReadInv, JobReads, Bounded
    <3>3. Len(chunk[j]) \in Nat
      BY <3>2
    <3>4. totalWritten' = [totalWritten EXCEPT ![j] = @ + J!Cardinality(J!Valid(chunk[j]))]
      BY <2>1 DEF J!Upsert
    <3> QED BY <3>3, <3>4, ValidCount
  <2>2. CASE ~(J!Upsert(j, o) /\ o = "ok")
    BY <2>2 DEF J!processPair, J!Create, J!Start, J!Load, J!Upsert, J!Progress, J!Labels, J!Fail,
         J!Complete, J!Kill, BeginJob, J!local
  <2> QED BY <2>1, <2>2
<1>4. \/ jobs' = jobs
      \/ totalWritten' = totalWritten
         /\ \/ \E s \in Statuses : jobs' = [jobs EXCEPT ![j].status = s]
            \/ jobs' = [jobs EXCEPT ![j].processed = totalWritten[j]]
            \/ jobs' = [jobs EXCEPT ![j] = [status |-> "completed", processed |-> totalWritten[j]]]
  BY DEF J!processPair, J!Create, J!Start, J!Load, J!Upsert, J!Progress, J!Labels, J!Fail, J!Complete,
         J!Kill, BeginJob, J!Status, J!local, Statuses
<1>5. place'[j] \in Places /\ \A k \in Jobs : k # j => place'[k] = place[k]
  BY <1>1, <1>2 DEF OnJobs, TypedJob
<1>6. totalWritten'[j] \in Nat /\ totalWritten[j] <= totalWritten'[j]
      /\ \A k \in Jobs : k # j => totalWritten'[k] = totalWritten[k]
  BY <1>1, <1>3 DEF OnJobs, TypedJob
<1>7. \A k \in Jobs : k # j => jobs'[k] = jobs[k]
  BY <1>1, <1>4
<1>8. jobs'[j].status \in Statuses /\ jobs'[j].processed \in 0..totalWritten'[j]
  <2> DEFINE t == totalWritten[j]
             u == totalWritten'[j]
             n == jobs[j].processed
  <2>1. t \in Nat /\ u \in Nat /\ t <= u /\ n \in 0..t /\ jobs[j].status \in Statuses
    BY <1>1, <1>6 DEF TypedJob
  <2>2. CASE jobs' = jobs
    BY <2>1, <2>2
  <2>3. CASE totalWritten' = totalWritten
    <3>1. t = u /\ t \in 0..u
      <4>1. t = u
        BY <2>3
      <4> HIDE DEF t, u
      <4> QED BY <2>1, <4>1
    <3>2. ASSUME NEW s \in Statuses, jobs' = [jobs EXCEPT ![j].status = s]
          PROVE  jobs'[j].status \in Statuses /\ jobs'[j].processed = n
      BY <1>1, <3>2
    <3>3. CASE jobs' = [jobs EXCEPT ![j].processed = totalWritten[j]]
      <4>1. jobs'[j].status = jobs[j].status /\ jobs'[j].processed = t
        BY <1>1, <3>3
      <4> QED BY <2>1, <3>1, <4>1
    <3>4. CASE jobs' = [jobs EXCEPT ![j] = [status |-> "completed", processed |-> totalWritten[j]]]
      <4>1. jobs'[j].status = "completed" /\ jobs'[j].processed = t
        BY <1>1, <3>4
      <4> QED BY <3>1, <4>1 DEF Statuses
    <3> HIDE DEF t, u, n
    <3>5. ASSUME NEW s \in Statuses, jobs' = [jobs EXCEPT ![j].status = s]
          PROVE  jobs'[j].status \in Statuses /\ jobs'[j].processed \in 0..u
      BY <2>1, <3>1, <3>2, <3>5
    <3> QED BY <1>4, <2>1, <2>2, <3>3, <3>4, <3>5 DEF u
  <2> QED BY <1>4, <2>2, <2>3
<1>9. \A k \in Jobs : TypedJob(k)'
  BY <1>5, <1>6, <1>7, <1>8 DEF TypedJobs, TypedJob
<1>10. DOMAIN labels' \subseteq J!Bars
  <2>1. CASE J!Labels(j, o)
    <3>1. labels' = labels \/ labels' = J!UpsertLabels(allCandles[j])
      BY <2>1 DEF J!Labels
    <3>2. allCandles[j] \in Seq(J!Bars)
      BY DEF ReadInv, JobReads, Bounded
    <3>3. \A i \in DOMAIN allCandles[j] : allCandles[j][i] \in J!Bars
      BY <3>2
    <3>4. DOMAIN J!UpsertLabels(allCandles[j])
            = DOMAIN labels \cup {allCandles[j][i] : i \in DOMAIN allCandles[j]}
      BY DEF J!UpsertLabels
    <3> QED BY <3>1, <3>3, <3>4 DEF TypedJobs
  <2>2. CASE ~J!Labels(j, o)
    <3>1. labels' = labels
      BY <2>2 DEF J!processPair, J!Create, J!Start, J!Load, J!Upsert, J!Progress, J!Fail,
         J!Complete, J!Kill, BeginJob, J!tables
    <3> QED BY <3>1 DEF TypedJobs
  <2> QED BY <2>1, <2>2
<1> QED BY <1>9, <1>10 DEF TypedJobs

\* A step of a study keeps the types of all of them.
LEMMA StudyTyped ==
    ASSUME TypedStudies, StudyInv, StudyInv', NEW s \in Studies, NEW o,
           E!RunStudy(s, o) \/ E!Abort(s) \/ BeginStudy(s)
    PROVE  TypedStudies'
<1> DEFINE Ats == {"wait", "create", "start", "count", "analyse", "save", "failing", "exit"}
<1>1. OnStudies(results) /\ OnStudies(allResults)
  BY DEF StudyInv, StudyShape
<1>2. runs' = runs \/ \E x \in Statuses : runs' = [runs EXCEPT ![s] = x]
  BY DEF E!RunStudy, E!CreateRun, E!StartRun, E!CountFeatures, E!Analyse, E!Ranking, E!SaveResult,
         E!CompleteRun, E!FailRun, E!Abort, BeginStudy, E!Mark, Statuses
<1>3. at' = at \/ \E x \in Ats : at' = [at EXCEPT ![s] = x]
  BY DEF E!RunStudy, E!CreateRun, E!StartRun, E!CountFeatures, E!Analyse, E!Ranking, E!SaveResult,
         E!CompleteRun, E!FailRun, E!Abort, BeginStudy, E!Go
<1>4. runs' \in [Studies -> Statuses] /\ at' \in [Studies -> Ats]
  BY <1>2, <1>3 DEF TypedStudies
<1>5. ASSUME NEW k \in Studies PROVE Len(results'[k]) <= Len(allResults'[k])
  <2>1. Finite(results'[k]) /\ Finite(allResults'[k]) /\ next'[k] \in Nat \ {0}
    BY DEF StudyInv, StudyShape
  <2>2. Len(results'[k]) \in Nat /\ Len(allResults'[k]) \in Nat
    BY <2>1 DEF Finite
  <2>3. CASE at'[k] = "save"
    <3>1. Len(results'[k]) = next'[k] - 1 /\ next'[k] <= Len(allResults'[k]) + 1
      BY <2>3 DEF StudyInv, StudyEnds, Saved
    <3> QED BY <2>1, <2>2, <3>1
  <2>4. CASE at'[k] \notin {"save", "exit"}
    <3>1. results'[k] = << >>
      BY <2>4 DEF StudyInv, StudyEnds
    <3> QED BY <2>2, <3>1
  <2>5. CASE results'[k] = results[k] /\ allResults'[k] = allResults[k]
    BY <2>5 DEF TypedStudies
  <2>6. CASE k = s /\ at'[k] = "exit" /\ E!SaveResult(s, o)
    <3>1. /\ at[s] = "save" /\ next[s] \in DOMAIN allResults[s] /\ allResults' = allResults
          /\ results' = results \/ \E x : results' = [results EXCEPT ![s] = Append(@, x)]
      BY <2>6 DEF E!SaveResult
    <3>2. Finite(results[s]) /\ Finite(allResults[s]) /\ next[s] \in Nat \ {0}
      BY DEF StudyInv, StudyShape
    <3>3. Len(results[s]) = next[s] - 1
      BY <3>1 DEF StudyInv, StudyEnds, Saved
    <3>4. DOMAIN allResults[s] = 1..Len(allResults[s]) /\ Len(allResults[s]) \in Nat
      BY <3>2 DEF Finite
    <3>5. \A x : Len(Append(results[s], x)) = Len(results[s]) + 1
      <4>1. PICK T : results[s] \in Seq(T)
        BY <3>2 DEF Finite
      <4> TAKE x
      <4>2. results[s] \in Seq(T \cup {x})
        BY <4>1
      <4> QED BY <4>2
    <3>6. Len(results'[s]) = next[s] - 1 \/ Len(results'[s]) = next[s]
      <4>1. CASE results' = results
        BY <3>3, <4>1
      <4>2. ASSUME NEW x, results' = [results EXCEPT ![s] = Append(@, x)]
            PROVE  Len(results'[s]) = next[s]
        <5>1. results'[s] = Append(results[s], x)
          BY <1>1, <4>2 DEF OnStudies
        <5> QED BY <3>2, <3>3, <3>5, <5>1
      <4> QED BY <3>1, <4>1, <4>2
    <3> QED BY <2>6, <3>1, <3>2, <3>4, <3>6
  <2>7. \/ at'[k] # "exit" \/ (results'[k] = results[k] /\ allResults'[k] = allResults[k])
        \/ k = s /\ E!SaveResult(s, o)
    <3>1. CASE k # s
      <4>1. /\ results' = results \/ \E x : results' = [results EXCEPT ![s] = x]
            /\ allResults' = allResults \/ \E x : allResults' = [allResults EXCEPT ![s] = x]
        BY DEF E!RunStudy, E!CreateRun, E!StartRun, E!CountFeatures, E!Analyse, E!Ranking, E!SaveResult,
               E!CompleteRun, E!FailRun, E!Abort, BeginStudy, E!studyLocal
      <4> QED BY <1>1, <3>1, <4>1 DEF OnStudies
    <3>2. CASE k = s /\ ~E!SaveResult(s, o)
      <4>1. CASE \E lacking, failed : E!Analyse(s, lacking, failed)
        BY <3>2, <4>1 DEF E!Analyse
      <4>2. CASE E!Ranking(s)
        <5>1. at' = [at EXCEPT ![s] = "save"]
          BY <4>2 DEF E!Ranking, E!Go
        <5> QED BY <3>2, <5>1 DEF TypedStudies
      <4>3. CASE ~(\E lacking, failed : E!Analyse(s, lacking, failed)) /\ ~E!Ranking(s)
        BY <3>2, <4>3 DEF E!RunStudy, E!CreateRun, E!StartRun, E!CountFeatures,
               E!CompleteRun, E!FailRun, E!Abort, BeginStudy, E!studyLocal
      <4> QED BY <4>1, <4>2, <4>3
    <3> QED BY <3>1, <3>2
  <2> QED BY <2>3, <2>4, <2>5, <2>6, <2>7
<1> QED BY <1>4, <1>5 DEF TypedStudies

\* Each step of any process keeps the types.
LEMMA TypesStep ==
    ASSUME TypedJobs, TypedStudies, JobInv, ReadInv, StudyInv, StudyInv', [Next]_vars
    PROVE  TypedJobs' /\ TypedStudies'
<1>1. ASSUME UNCHANGED jobVars PROVE TypedJobs'
  BY <1>1 DEF jobVars, TypedJobs, TypedJob
<1>2. ASSUME UNCHANGED studyVars PROVE TypedStudies'
  BY <1>2 DEF studyVars, TypedStudies
<1>3. "ok" \in Outcomes /\ Ends \subseteq Outcomes
  BY BatchAssumption DEF J!JobAssumption, Ends
<1>4. CASE Migrate \/ UNCHANGED vars
  BY <1>1, <1>2, <1>4 DEF Migrate, vars
<1>5. ASSUME NEW j \in Jobs, BeginJob(j) PROVE TypedJobs' /\ TypedStudies'
  <2>1. UNCHANGED studyVars
    BY <1>5 DEF BeginJob
  <2> QED BY <1>2, <1>3, <1>5, <2>1, JobTyped
<1>6. ASSUME NEW s \in Studies, BeginStudy(s) PROVE TypedJobs' /\ TypedStudies'
  <2>1. UNCHANGED jobVars
    BY <1>6 DEF BeginStudy
  <2> QED BY <1>1, <1>6, <2>1, StudyTyped
<1>7. CASE Backfill
  <2>1. UNCHANGED studyVars
    BY <1>7 DEF Backfill
  <2>2. ASSUME J!CandleStored PROVE TypedJobs'
    BY <2>2 DEF J!CandleStored, J!local, TypedJobs, TypedJob
  <2>3. ASSUME NEW j \in Jobs, NEW o \in Ends, J!processPair(j, o) PROVE TypedJobs'
    BY <1>3, <2>3, JobTyped
  <2>4. ASSUME NEW j \in Jobs, J!Kill(j) PROVE TypedJobs'
    BY <1>3, <2>4, JobTyped
  <2> QED BY <1>2, <1>7, <2>1, <2>2, <2>3, <2>4 DEF Backfill
<1>8. CASE Study
  <2>1. UNCHANGED jobVars
    BY <1>8 DEF Study
  <2>2. ASSUME NEW s \in Studies, NEW o, E!RunStudy(s, o) \/ E!Abort(s) PROVE TypedStudies'
    BY <2>2, StudyTyped
  <2>3. TypedStudies'
    BY <1>8, <2>2 DEF Study
  <2> QED BY <1>1, <2>1, <2>3
<1> QED BY <1>4, <1>5, <1>6, <1>7, <1>8 DEF Next

\* At first nothing has begun.
LEMMA TypesInit == J!jobInit /\ E!studyInit => TypedJobs /\ TypedStudies
<1> SUFFICES ASSUME J!jobInit, E!studyInit PROVE TypedJobs /\ TypedStudies
  OBVIOUS
<1>1. TypedJobs
  BY DEF J!jobInit, J!NoJob, TypedJobs, TypedJob, Statuses, Places
<1>2. TypedStudies
  BY DEF E!studyInit, TypedStudies, Statuses
<1> QED BY <1>1, <1>2

\* The types follow.
LEMMA TypesTell ==
    MigrationInv /\ ReadInv /\ WarmInv /\ StudyInv /\ TypedJobs /\ TypedStudies => TypeOK
<1> SUFFICES ASSUME MigrationInv, ReadInv, WarmInv, StudyInv, TypedJobs, TypedStudies PROVE TypeOK
  OBVIOUS
<1>1. M!MigrationTypeOK
  BY DEF MigrationInv
<1>2. J!JobTypeOK
  <2>1. candles \subseteq J!Bars /\ \A b \in DOMAIN labels : labels[b] \in [Horizons -> {0} \cup J!Bars]
    BY DEF ReadInv, LabelsStand
  <2>2. DOMAIN features \subseteq J!Bars /\ \A b \in DOMAIN features : features[b].reads \subseteq J!Bars
    BY DEF WarmInv, WarmRow
  <2>3. \A j \in Jobs : chunk[j] \in Seq(J!Bars) /\ allCandles[j] \in Seq(J!Bars) /\ lastTime[j] \in {0} \cup J!Bars
    BY DEF ReadInv, JobReads, Bounded
  <2>4. DOMAIN labels \subseteq J!Bars /\ \A j \in Jobs : TypedJob(j)
    BY DEF TypedJobs
  <2> QED BY <2>1, <2>2, <2>3, <2>4 DEF J!JobTypeOK, TypedJob, Statuses, Places
<1>3. E!StudyTypeOK
  BY DEF TypedStudies, Statuses, StudyInv, StudyShape, E!StudyTypeOK
<1> QED BY <1>1, <1>2, <1>3 DEF TypeOK

\* Every variable of the commands always has its type.
THEOREM BatchTypes == Spec => []TypeOK
<1> DEFINE Inv == ReadInv /\ JobInv /\ DataInv /\ WarmInv /\ StudyInv /\ TypedJobs /\ TypedStudies
                  /\ MigrationInv
<1>1. Init => Inv
  <2>1. J!jobInit => WarmInv
    BY DEF J!jobInit, WarmInv
  <2> QED BY <2>1, ReadInit, JobInit, DataInit, StudyInitially, TypesInit, MigrationInit DEF Init
<1>2. Inv /\ [Next]_vars => Inv'
  <2>1. Inv => RowsWarm
    BY DEF WarmInv, WarmRow, RowsWarm, J!RowsWarm
  <2> QED BY <2>1, ReadStep, JobStep, DataStep, WarmStep, StudyStep, TypesStep, NextMigrationInv
<1>3. Inv => TypeOK
  BY TypesTell
<1> HIDE DEF Inv
<1> QED BY <1>1, <1>2, <1>3, PTL DEF Spec
=============================================================================
