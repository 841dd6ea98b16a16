----------------------------- MODULE BackupProofs -----------------------------
(***************************************************************************)
(* Theorems about Backup for any tables, contents, faults and number of    *)
(* runs: what export.sql and the file on the server may restore.           *)
(***************************************************************************)
EXTENDS Backup, SequenceTheorems, TLAPS

-----------------------------------------------------------------------------
(* The database *)

Inside == Main \in inside

DatabaseInv ==
    /\ content \in Contents /\ inside \subseteq {Main, Other} /\ writers \subseteq inside
    /\ view \in [{Main, Other} -> Contents \cup {None}]
    /\ \A c \in inside : view[c] \in Contents

\* One step of either process keeps the types of the database.
LEMMA DatabaseStep ==
    ASSUME DatabaseInv, NEW c \in {Main, Other},
           Database!Start(c) \/ Database!Change(c) \/ Database!Commit(c) \/ Database!End(c)
    PROVE  DatabaseInv'
  <1> USE DEF DatabaseInv
  <1>1. CASE Database!Start(c)
    BY <1>1 DEF Database!Start
  <1>2. CASE Database!Change(c)
    <2>1. PICK new \in Contents : view' = [view EXCEPT ![c] = new]
      BY <1>2 DEF Database!Change
    <2> QED
      BY <1>2, <2>1 DEF Database!Change
  <1>3. CASE Database!Commit(c)
    BY <1>3 DEF Database!Commit
  <1>4. CASE Database!End(c)
    BY <1>4 DEF Database!End
  <1> QED
    BY <1>1, <1>2, <1>3, <1>4

\* Main has nothing open in the database after it left it.
LEMMA Leaving ==
    ASSUME DatabaseInv, LeaveDatabase
    PROVE  DatabaseInv' /\ ~Inside' /\ since' = since
  <1>1. CASE Inside
    <2>1. Database!End(Main)
      BY <1>1 DEF LeaveDatabase, Inside
    <2> QED
      BY <2>1, DatabaseStep DEF Database!End, Inside, LeaveDatabase
  <1>2. CASE ~Inside
    BY <1>2 DEF LeaveDatabase, Inside, DatabaseInv
  <1> QED
    BY <1>1, <1>2

\* Of the actions of main and of the other process.
LEMMA DatabaseKept == DatabaseInv /\ [Next]_vars => DatabaseInv'
  <1> SUFFICES ASSUME DatabaseInv, [Next]_vars PROVE DatabaseInv'
    OBVIOUS
  <1>1. CASE UNCHANGED <<content, inside, writers, view>>
    BY <1>1 DEF DatabaseInv
  <1>2. CASE FirstStatement \/ CreateTable \/ CommitTransaction
    BY <1>2, DatabaseStep DEF FirstStatement, CreateTable, CommitTransaction
  <1>3. CASE CommitFails \/ StatementFails \/ DeleteDb \/ Crash
    BY <1>3, Leaving DEF CommitFails, StatementFails, DeleteDb, Crash
  <1>4. CASE OtherStep
    BY <1>4, DatabaseStep DEF OtherStep
  <1> QED
    BY <1>1, <1>2, <1>3, <1>4
       DEF Next, MainStep, CommitBusy, OpenFile, DumpTable, FinishDump, ReadFile, SendData,
           DeleteFtp, SessionFails, Report, Store, NextRun, database, vars

-----------------------------------------------------------------------------
(* The lines of a file *)

N == Len(Tables)

\* A prefix of one line per table, in order, and the COMMIT.
WellFormed(lines) ==
    /\ lines \in Seq(Lines) /\ Len(lines) <= N + 1
    /\ \A i \in 1..Len(lines) : IF i <= N THEN \E v \in Versions : lines[i] = Line(Tables[i], v)
                                          ELSE lines[i] = Commit

LEMMA TablesFacts ==
    /\ N \in Nat /\ DOMAIN Tables = 1..N
    /\ \A i \in 1..N : Tables[i] \in Range(Tables)
    /\ \A i, j \in 1..N : Tables[i] = Tables[j] => i = j
  BY TablesAssumption, LenProperties DEF N, Range, IsInjective

LEMMA LinesFacts ==
    /\ Commit \in Lines
    /\ \A t \in Range(Tables), v \in Versions :
          Line(t, v) \in Lines /\ Line(t, v).table = t /\ Line(t, v).version = v
    /\ \A t, v : Line(t, v) # Commit
  <1>1. ASSUME NEW t, NEW v PROVE Line(t, v) # Commit
    <2>1. "version" \in DOMAIN Line(t, v) /\ "version" \notin DOMAIN Commit
      BY DEF Line, Commit
    <2> QED
      BY <2>1
  <1> QED
    BY <1>1 DEF Lines, Line, Commit

LEMMA EmptyFile == WellFormed(<<>>)
  BY TablesFacts DEF WellFormed

LEMMA FilePrefix ==
    ASSUME NEW lines, WellFormed(lines), NEW n \in 0..Len(lines)
    PROVE  WellFormed(SubSeq(lines, 1, n)) /\ Len(SubSeq(lines, 1, n)) = n
  <1>1. /\ SubSeq(lines, 1, n) \in Seq(Lines)
        /\ Len(SubSeq(lines, 1, n)) = n
        /\ \A i \in 1..n : SubSeq(lines, 1, n)[i] = lines[i]
    BY DEF WellFormed
  <1>2. Len(lines) \in Nat
    BY DEF WellFormed
  <1> QED
    BY <1>1, <1>2, TablesFacts DEF WellFormed

\* The line of the next table, and at the end the COMMIT, may be appended.
LEMMA FileGrows ==
    ASSUME NEW lines, WellFormed(lines), NEW l,
           \/ /\ Len(lines) < N
              /\ \E v \in Versions : l = Line(Tables[Len(lines) + 1], v)
           \/ Len(lines) = N /\ l = Commit
    PROVE  WellFormed(Append(lines, l)) /\ Len(Append(lines, l)) = Len(lines) + 1
  <1>1. Len(lines) \in Nat /\ lines \in Seq(Lines)
    BY DEF WellFormed
  <1>2. l \in Lines
    BY <1>1, TablesFacts, LinesFacts
  <1>3. /\ Append(lines, l) \in Seq(Lines)
        /\ Len(Append(lines, l)) = Len(lines) + 1
        /\ \A i \in 1..Len(lines) : Append(lines, l)[i] = lines[i]
        /\ Append(lines, l)[Len(lines) + 1] = l
    BY <1>1, <1>2, AppendProperties
  <1>4. ASSUME NEW i \in 1..(Len(lines) + 1)
        PROVE  IF i <= N THEN \E v \in Versions : Append(lines, l)[i] = Line(Tables[i], v)
                         ELSE Append(lines, l)[i] = Commit
    <2>1. CASE i \in 1..Len(lines)
      BY <1>3, <2>1 DEF WellFormed
    <2>2. CASE i = Len(lines) + 1
      BY <1>1, <1>3, <2>2, TablesFacts
    <2> QED
      BY <1>1, <2>1, <2>2
  <1> QED
    BY <1>1, <1>3, <1>4, TablesFacts DEF WellFormed

\* A file with a COMMIT restores one content of every table.
LEMMA WholeFile ==
    ASSUME NEW lines, WellFormed(lines), Committed(lines)
    PROVE  /\ Restorable(lines)
           /\ \E c \in Contents : Restored(lines) = {Line(t, c[t]) : t \in Range(Tables)}
  <1>1. lines \in Seq(Lines) /\ Len(lines) \in Nat /\ DOMAIN lines = 1..Len(lines)
    BY LenProperties DEF WellFormed
  <1>2. PICK n \in 1..Len(lines) : lines[n] = Commit
    BY <1>1 DEF Committed, Range
  <1>3. Len(lines) = N + 1 /\ lines[N + 1] = Commit
    <2>1. ASSUME n <= N PROVE FALSE
      <3>1. PICK v : lines[n] = Line(Tables[n], v)
        BY <2>1 DEF WellFormed
      <3> QED
        BY <1>2, <3>1, LinesFacts
    <2>2. Len(lines) <= N + 1
      BY DEF WellFormed
    <2>3. N \in Nat
      BY TablesFacts
    <2>4. n = N + 1 /\ n = Len(lines)
      <3>1. Len(lines) \in Nat
        BY <1>1
      <3>2. n \in Nat /\ n <= Len(lines) /\ ~(n <= N)
        BY <2>1, <3>1
      <3> QED
        BY <2>2, <2>3, <3>1, <3>2
    <2> QED
      BY <1>2, <2>4
  <1>4. \A i \in 1..N : lines[i] # Commit
    BY <1>3, LinesFacts, TablesFacts DEF WellFormed
  <1>5. Transaction(lines) = 1..N
    <2>1. N + 1 \notin Transaction(lines)
      BY <1>3, TablesFacts DEF Transaction
    <2>2. \A j \in 1..N : j \in Transaction(lines)
      BY <1>1, <1>3, <1>4, TablesFacts DEF Transaction
    <2>3. Transaction(lines) \subseteq 1..(N + 1)
      BY <1>1, <1>3 DEF Transaction
    <2>4. \A j \in 1..(N + 1) : j = N + 1 \/ j \in 1..N
      BY TablesFacts
    <2> QED
      BY <2>1, <2>2, <2>3, <2>4, Zenon
  <1>5a. Restored(lines) = {lines[i] : i \in 1..N}
    BY <1>5, Zenon DEF Restored
  <1> DEFINE Version(t) == CHOOSE v \in Versions : \E i \in 1..N : Tables[i] = t /\ lines[i] = Line(t, v)
             c == [t \in Range(Tables) |-> Version(t)]
  <1>6. ASSUME NEW i \in 1..N
        PROVE  Version(Tables[i]) \in Versions /\ lines[i] = Line(Tables[i], Version(Tables[i]))
    <2>1. \E v \in Versions : lines[i] = Line(Tables[i], v)
      BY <1>3, TablesFacts DEF WellFormed
    <2>2. /\ Version(Tables[i]) \in Versions
          /\ \E j \in 1..N : Tables[j] = Tables[i] /\ lines[j] = Line(Tables[i], Version(Tables[i]))
      BY <2>1
    <2> QED
      BY <2>2, TablesFacts
  <1> HIDE DEF Version
  <1>7. \A t \in Range(Tables) : \E i \in 1..N : t = Tables[i]
    BY TablesFacts DEF Range
  <1>8. c \in Contents
    BY <1>6, <1>7 DEF Contents
  <1>9. \A i \in 1..N : lines[i] = Line(Tables[i], c[Tables[i]])
    BY <1>6, TablesFacts
  <1> HIDE DEF c
  <1>10. Restored(lines) = {Line(t, c[t]) : t \in Range(Tables)}
    BY <1>5a, <1>7, <1>9, TablesFacts
  <1>11. \A i \in 1..N : lines[i].table = Tables[i]
    BY <1>6, TablesFacts, LinesFacts
  <1>12. Restorable(lines)
    BY <1>5, <1>11, TablesFacts DEF Restorable
  <1> QED
    BY <1>8, <1>10, <1>12

-----------------------------------------------------------------------------
(* The files *)

\* The tables still to do are the last of Tables; a stream that has taken every
\* line so far has one for each table that is done.
FileInv ==
    /\ todo \in Seq(Range(Tables)) /\ Len(todo) <= N
    /\ \A i \in 1..Len(todo) : todo[i] = Tables[N - Len(todo) + i]
    /\ good \in BOOLEAN
    /\ WellFormed(file)
    /\ pc = "dump" /\ good => Len(file) + Len(todo) = N

SessionInv ==
    /\ WellFormed(buf) /\ WellFormed(remote)
    /\ size = Len(buf) /\ sent \in 0..size /\ stored \in -1..sent
    /\ outcome \in {"none", "running", "done", "failed"} /\ reliable \in BOOLEAN

LEMMA AllTables ==
    /\ Tables \in Seq(Range(Tables)) /\ Len(Tables) <= N
    /\ \A i \in 1..Len(Tables) : Tables[i] = Tables[N - Len(Tables) + i]
  <1>1. Tables \in Seq(Range(Tables))
    BY TablesFacts, TablesAssumption, LenProperties DEF Range, N
  <1> QED
    BY <1>1, TablesFacts DEF N

\* The next table is done.
LEMMA TableDone ==
    ASSUME FileInv, todo # <<>>, todo' = Tail(todo)
    PROVE  /\ todo' \in Seq(Range(Tables)) /\ Len(todo') <= N /\ Len(todo') = Len(todo) - 1
           /\ \A i \in 1..Len(todo') : todo'[i] = Tables[N - Len(todo') + i]
           /\ Len(todo) \in 1..N /\ Head(todo) = Tables[N - Len(todo) + 1]
           /\ Head(todo) \in Range(Tables)
  <1>1. /\ Len(todo) \in Nat \ {0} /\ todo' \in Seq(Range(Tables)) /\ Head(todo) = todo[1]
        /\ Len(todo') = Len(todo) - 1 /\ Head(todo) \in Range(Tables)
        /\ \A i \in 1..Len(todo') : todo'[i] = todo[i + 1]
    BY HeadTailProperties, EmptySeq DEF FileInv
  <1> QED
    BY <1>1, TablesFacts DEF FileInv

LEMMA FileStep == DatabaseInv /\ FileInv /\ [Next]_vars => FileInv'
  <1> SUFFICES ASSUME DatabaseInv, FileInv, [Next]_vars PROVE FileInv'
    OBVIOUS
  <1>1. CASE UNCHANGED <<todo, file, good>> /\ (pc' # "dump" \/ pc' = pc)
    BY <1>1 DEF FileInv
  <1>2. CASE CreateTable
    <2>1. todo # <<>> /\ todo' = Tail(todo) /\ pc' # "dump" /\ file' = file /\ good' = good
      BY <1>2 DEF CreateTable
    <2> QED
      BY <2>1, TableDone DEF FileInv
  <1>3. CASE OpenFile
    <2>1. WellFormed(file') /\ good' \in BOOLEAN /\ (good' => Len(file') = 0)
      BY <1>3, EmptyFile DEF OpenFile, Opened, FileInv
    <2>2. todo' = Tables
      BY <1>3 DEF OpenFile
    <2>3. /\ todo' \in Seq(Range(Tables)) /\ Len(todo') = N
          /\ \A i \in 1..Len(todo') : todo'[i] = Tables[N - Len(todo') + i]
      BY <2>2, AllTables DEF N
    <2> QED
      BY <2>1, <2>3, TablesFacts DEF FileInv
  <1>4. CASE DumpTable
    <2> DEFINE seen == IF Main \in inside THEN view[Main] ELSE content
               l    == Line(Head(todo), seen[Head(todo)])
    <2>1. todo # <<>> /\ todo' = Tail(todo) /\ pc = "dump" /\ pc' = "dump" /\ Write(l)
      BY <1>4 DEF DumpTable
    <2>2. seen \in Contents
      BY DEF DatabaseInv
    <2>3. seen[Head(todo)] \in Versions
      BY <2>1, <2>2, TableDone DEF Contents
    <2>4. \E v \in Versions : l = Line(Tables[N - Len(todo) + 1], v)
      BY <2>1, <2>3, TableDone
    <2> HIDE DEF l, seen
    <2>5. CASE good /\ file' = Append(file, l) /\ good' = good
      <3>1. Len(file) = N - Len(todo) /\ Len(file) < N
        BY <2>1, <2>5, TableDone, TablesFacts DEF FileInv, WellFormed
      <3>2. WellFormed(file') /\ Len(file') = Len(file) + 1
        BY <2>4, <2>5, <3>1, FileGrows DEF FileInv
      <3> QED
        BY <2>1, <2>5, <3>1, <3>2, TableDone, TablesFacts DEF FileInv
    <2>6. CASE file' = file /\ good' = FALSE
      BY <2>1, <2>6, TableDone DEF FileInv
    <2> QED
      BY <2>1, <2>5, <2>6 DEF Write, FileInv
  <1>5. CASE FinishDump
    <2>1. pc = "dump" /\ pc' # "dump" /\ todo = <<>> /\ todo' = todo /\ Write(Commit)
      BY <1>5 DEF FinishDump, Goto
    <2>2. CASE good /\ file' = Append(file, Commit) /\ good' = good
      <3>1. Len(file) = N
        BY <2>1, <2>2, EmptySeq DEF FileInv, WellFormed
      <3>2. WellFormed(file')
        BY <2>2, <3>1, FileGrows DEF FileInv
      <3> QED
        BY <2>1, <2>2, <3>2 DEF FileInv
    <2>3. CASE file' = file /\ good' \in BOOLEAN
      BY <2>1, <2>3 DEF FileInv
    <2> QED
      BY <2>1, <2>2, <2>3 DEF Write, FileInv
  <1>6. CASE NextRun
    <2>1. todo' = Tables /\ good' = FALSE /\ file' = file /\ pc' # "dump"
      BY <1>6 DEF NextRun, Goto
    <2> QED
      BY <2>1, AllTables DEF FileInv
  <1> QED
    BY <1>1, <1>2, <1>3, <1>4, <1>5, <1>6
       DEF Next, MainStep, FirstStatement, CommitTransaction, CommitBusy, CommitFails,
           StatementFails, DeleteDb, ReadFile, SendData, DeleteFtp, SessionFails, Report, Store,
           Crash, OtherStep, Goto, vars

LEMMA SessionStep == FileInv /\ SessionInv /\ [Next]_vars => SessionInv'
  <1> SUFFICES ASSUME FileInv, SessionInv, [Next]_vars PROVE SessionInv'
    OBVIOUS
  <1>1. CASE UNCHANGED <<buf, remote, session>>
    BY <1>1 DEF SessionInv, session
  <1>2. CASE ReadFile
    <2>1. WellFormed(buf')
      BY <1>2, EmptyFile DEF ReadFile, FileInv
    <2>2. size' = Len(buf') /\ size' \in Nat /\ sent' = 0 /\ stored' = -1
      BY <1>2, <2>1 DEF ReadFile, WellFormed
    <2>3. reliable' \in BOOLEAN /\ outcome' = "running" /\ remote' = remote
      BY <1>2 DEF ReadFile
    <2>4. WellFormed(remote')
      BY <2>3 DEF SessionInv
    <2> QED
      BY <2>1, <2>2, <2>3, <2>4 DEF SessionInv
  <1>3. CASE SendData
    BY <1>3 DEF SendData, FTP!Send, SessionInv, WellFormed
  <1>4. CASE Store
    <2>1. stored' = stored + 1 /\ stored < sent /\ remote' = SubSeq(buf, 1, stored')
      BY <1>4 DEF Store, FTP!Store
    <2>2. stored' \in 0..Len(buf) /\ stored' \in -1..sent
      BY <2>1 DEF SessionInv, WellFormed
    <2>3. WellFormed(remote')
      BY <2>1, <2>2, FilePrefix DEF SessionInv
    <2> QED
      BY <1>4, <2>2, <2>3 DEF Store, FTP!Store, SessionInv
  <1>5. CASE DeleteFtp \/ SessionFails
    BY <1>5 DEF DeleteFtp, SessionFails, FTP!Finish, FTP!Fail, SessionInv
  <1>6. CASE Crash
    BY <1>6 DEF Crash, SessionInv
  <1>7. CASE NextRun
    <2>1. /\ buf' = <<>> /\ remote' = remote /\ size' = 0 /\ sent' = 0 /\ stored' = -1
          /\ outcome' = "none" /\ reliable' = FALSE
      BY <1>7 DEF NextRun
    <2>2. WellFormed(buf') /\ WellFormed(remote') /\ Len(buf') = 0
      BY <2>1, EmptyFile DEF SessionInv
    <2>3. /\ size' = Len(buf') /\ sent' \in 0..size' /\ stored' \in -1..sent'
          /\ outcome' \in {"none", "running", "done", "failed"}
      BY <2>1, <2>2
    <2>4. reliable' \in BOOLEAN
      BY <2>1
    <2> QED
      BY <2>2, <2>3, <2>4, Zenon DEF SessionInv
  <1> QED
    BY <1>1, <1>2, <1>3, <1>4, <1>5, <1>6, <1>7
       DEF Next, MainStep, FirstStatement, CreateTable, CommitTransaction, CommitBusy,
           CommitFails, StatementFails, OpenFile, DumpTable, FinishDump, DeleteDb, Report,
           OtherStep, vars

-----------------------------------------------------------------------------
(* Runs *)

Steps == {"work", "open", "dump", "close", "read", "upload", "report", "done", "dead"}

\* Main has left the database before it reads export.sql.
RunInv ==
    /\ pc \in Steps /\ runs \in 1..MaxRuns
    /\ since \subseteq Contents /\ faults \subseteq {"open", "other"}
    /\ pc \in {"read", "upload", "report", "done", "dead"} => ~Inside

LEMMA RunStep == DatabaseInv /\ RunInv /\ [Next]_vars => RunInv'
  <1> SUFFICES ASSUME DatabaseInv, RunInv, [Next]_vars PROVE RunInv'
    OBVIOUS
  <1> USE DEF RunInv, Goto, Fault
  <1>0. DatabaseInv'
    BY DatabaseKept
  <1>1. CASE FirstStatement \/ CreateTable
    BY <1>1 DEF FirstStatement, CreateTable
  <1>2. CASE CommitTransaction
    <2>1. content' \in Contents /\ since' = {content'} /\ pc' = "open"
      BY <1>0, <1>2 DEF CommitTransaction, DatabaseInv
    <2> QED
      BY <1>2, <2>1 DEF CommitTransaction, Steps
  <1>3. CASE CommitFails \/ StatementFails
    BY <1>3, Leaving DEF CommitFails, StatementFails, Steps
  <1>4. CASE DeleteDb \/ Crash
    BY <1>4, Leaving DEF DeleteDb, Crash, Steps
  <1>5. CASE CommitBusy \/ OpenFile
    BY <1>5 DEF CommitBusy, OpenFile, Steps, database, Inside
  <1>6. CASE DumpTable \/ FinishDump
    BY <1>6 DEF DumpTable, FinishDump, Write, Steps, database, Inside
  <1>7. CASE ReadFile \/ SendData \/ Store \/ DeleteFtp \/ SessionFails \/ Report
    BY <1>7 DEF ReadFile, SendData, Store, DeleteFtp, SessionFails, Report, Steps, database, Inside
  <1>8. CASE NextRun
    BY <1>8, RunsAssumption DEF NextRun, Steps
  <1>9. CASE OtherStep
    <2>1. since' \subseteq Contents
      BY <1>0, <1>9 DEF OtherStep, DatabaseInv
    <2> QED
      BY <1>9, <2>1 DEF OtherStep
  <1>10. CASE UNCHANGED vars
    BY <1>10 DEF vars, database, Inside
  <1> QED
    BY <1>1, <1>2, <1>3, <1>4, <1>5, <1>6, <1>7, <1>8, <1>9, <1>10 DEF Next, MainStep

TypeInv == DatabaseInv /\ FileInv /\ SessionInv /\ RunInv

LEMMA TypeInvariant == Spec => []TypeInv
  <1>1. Init => TypeInv
    <2> SUFFICES ASSUME Init PROVE TypeInv
      OBVIOUS
    <2>1. DatabaseInv
      BY DEF Init, Database!Init, DatabaseInv
    <2>2. FileInv
      BY AllTables, EmptyFile DEF Init, FileInv
    <2>3. SessionInv
      <3>1. WellFormed(buf) /\ WellFormed(remote) /\ Len(buf) = 0
        BY EmptyFile DEF Init
      <3>2. /\ size = Len(buf) /\ sent \in 0..size /\ stored \in -1..sent
            /\ outcome \in {"none", "running", "done", "failed"}
        BY <3>1 DEF Init
      <3>3. reliable \in BOOLEAN
        BY DEF Init
      <3> QED
        BY <3>1, <3>2, <3>3, Zenon DEF SessionInv
    <2>4. RunInv
      BY RunsAssumption DEF Init, RunInv, Steps
    <2> QED
      BY <2>1, <2>2, <2>3, <2>4 DEF TypeInv
  <1>2. TypeInv /\ [Next]_vars => TypeInv'
    BY DatabaseKept, FileStep, SessionStep, RunStep DEF TypeInv
  <1> QED
    BY <1>1, <1>2, PTL DEF Spec

\* Every variable keeps its type, and main never holds the database while it
\* reads export.sql or talks to the server, whatever fails.
THEOREM TypeCorrect == Spec => []TypeOK
  <1>1. TypeInv => TypeOK
    BY DEF TypeInv, DatabaseInv, FileInv, SessionInv, RunInv, WellFormed, TypeOK, Steps, Inside
  <1> QED
    BY <1>1, TypeInvariant, PTL

\* Whatever fails where, in whichever run: export.sql and the file on the server
\* have no COMMIT, or restore every table and have none twice.
THEOREM AllOrNothing == Spec => []RestoresAllOrNothing
  <1>1. TypeInv => RestoresAllOrNothing
    BY WholeFile DEF TypeInv, FileInv, SessionInv, RestoresAllOrNothing
  <1> QED
    BY <1>1, TypeInvariant, PTL

-----------------------------------------------------------------------------
(* Recent backups *)

RecentLine(l) == l = Commit \/ \E c \in since : c[l.table] = l.version
Recent(lines) == \A i \in DOMAIN lines : RecentLine(lines[i])

\* From a COMMIT that took effect to the end of the dump the committed content
\* is a recent one and the one main sees.
RecentInv ==
    /\ pc = "work" => since = {}
    /\ since # {} /\ "open" \notin faults =>
          /\ pc \in {"open", "dump", "close"} => content \in since /\ ~Inside
          /\ pc \in {"dump", "close", "read", "upload", "report", "done"} => Recent(file)
          /\ pc \in {"upload", "report", "done"} =>
                Recent(buf) /\ (stored >= 0 => Recent(remote))

LEMMA RecentAppend ==
    ASSUME NEW lines \in Seq(Lines), Recent(lines), NEW l \in Lines, RecentLine(l)
    PROVE  Recent(Append(lines, l))
  BY AppendProperties, LenProperties DEF Recent

\* A step of main on the way from the database to the server.
LEMMA RecentStep == TypeInv /\ RecentInv /\ [Next]_vars => RecentInv'
  <1> SUFFICES ASSUME TypeInv, RecentInv, [Next]_vars PROVE RecentInv'
    OBVIOUS
  <1> USE DEF Goto, Fault
  <1>1. CASE FirstStatement \/ CreateTable \/ CommitBusy \/ CommitFails
    <2>1. pc = "work" /\ since' = since
      BY <1>1 DEF FirstStatement, CreateTable, CommitBusy, AtCommit, CommitFails, database,
                  LeaveDatabase
    <2> QED
      BY <2>1 DEF RecentInv
  <1>2. CASE CommitTransaction
    <2>1. pc' = "open" /\ since' = {content'} /\ ~Inside'
      BY <1>2 DEF CommitTransaction, Database!Commit, Inside
    <2> QED
      BY <2>1 DEF RecentInv
  <1>3. CASE StatementFails \/ Crash
    BY <1>3 DEF StatementFails, Crash, RecentInv
  <1>4. ASSUME since' = since, faults \subseteq faults', content' = content, inside' = inside,
               UNCHANGED file, pc \in {"dump", "close", "read", "upload", "report"} => pc' # "work",
               pc' \in {"open", "dump", "close"} => pc \in {"open", "dump", "close"},
               pc' \in {"dump", "close", "read", "upload", "report", "done"} =>
                  pc \in {"dump", "close", "read", "upload", "report", "done"},
               UNCHANGED <<buf, remote, stored>> /\ pc' # "work",
               pc' \in {"upload", "report", "done"} => pc \in {"upload", "report", "done"}
        PROVE  RecentInv'
    BY <1>4 DEF RecentInv, Recent, RecentLine, Inside
  <1>5. CASE OpenFile
    <2>1. /\ pc = "open" /\ pc' = "dump" /\ since' = since /\ content' = content
          /\ inside' = inside
          /\ (file' = <<>> /\ faults' = faults) \/ "open" \in faults'
      BY <1>5 DEF OpenFile, Opened, database
    <2>2. DOMAIN file' = {} \/ "open" \in faults'
      BY <2>1
    <2> QED
      BY <2>1, <2>2 DEF RecentInv, Recent, Inside
  <1>6. ASSUME NEW l \in Lines, Write(l), UNCHANGED database, pc = "dump",
               pc' \in {"dump", "close"},
               since # {} /\ content \in since /\ ~Inside => RecentLine(l)
        PROVE  RecentInv'
    <2>1. since' = since /\ content' = content /\ inside' = inside /\ faults \subseteq faults'
      BY <1>6 DEF database, Write
    <2>2. ASSUME since # {}, "open" \notin faults PROVE Recent(file')
      <3>1. Recent(file) /\ RecentLine(l)
        BY <1>6, <2>2 DEF RecentInv
      <3>2. file \in Seq(Lines)
        BY DEF TypeInv, FileInv, WellFormed
      <3>3. file' = file \/ file' = Append(file, l)
        BY <1>6 DEF Write
      <3> QED
        BY <3>1, <3>2, <3>3, RecentAppend
    <2>3. ASSUME since # {}, "open" \notin faults PROVE Recent(file)'
      BY <2>1, <2>2, <2>3 DEF Recent, RecentLine
    <2> QED
      BY <1>6, <2>1, <2>3 DEF RecentInv, Inside
  <1>7. CASE DumpTable
    <2> DEFINE seen == IF Main \in inside THEN view[Main] ELSE content
               l    == Line(Head(todo), seen[Head(todo)])
    <2>1. /\ todo # <<>> /\ todo' = Tail(todo) /\ pc = "dump" /\ pc' = "dump" /\ Write(l)
          /\ UNCHANGED database
      BY <1>7 DEF DumpTable
    <2>2. Head(todo) \in Range(Tables)
      BY <2>1, TableDone DEF TypeInv
    <2>3. seen \in Contents
      BY DEF TypeInv, DatabaseInv
    <2>4. seen[Head(todo)] \in Versions
      BY <2>2, <2>3 DEF Contents
    <2>5. l \in Lines /\ l.table = Head(todo) /\ l.version = seen[Head(todo)]
      BY <2>2, <2>4, LinesFacts
    <2>6. content \in since /\ ~Inside => RecentLine(l)
      BY <2>5 DEF RecentLine, Inside
    <2> HIDE DEF l, seen
    <2> QED
      BY <1>6, <2>1, <2>5, <2>6
  <1>8. CASE FinishDump
    BY <1>6, <1>8, LinesFacts DEF FinishDump, RecentLine
  <1>9. CASE DeleteDb
    BY <1>9 DEF DeleteDb, LeaveDatabase, RecentInv, Recent, RecentLine
  <1>10. CASE ReadFile
    <2>1. /\ pc = "read" /\ pc' = "upload" /\ since' = since /\ faults \subseteq faults'
          /\ file' = file /\ buf' \in {file, <<>>} /\ stored' = -1
      BY <1>10 DEF ReadFile, database
    <2>2. DOMAIN buf' = {} \/ buf' = file
      BY <2>1
    <2> QED
      BY <2>1, <2>2 DEF RecentInv, Recent, RecentLine
  <1>11. CASE SendData
    BY <1>4, <1>11 DEF SendData, FTP!Send, database
  <1>12. CASE Store
    <2>1. /\ stored' = stored + 1 /\ stored < sent /\ remote' = SubSeq(buf, 1, stored')
          /\ pc' = pc /\ UNCHANGED <<database, file, buf, faults>>
      BY <1>12 DEF Store, FTP!Store
    <2>2. stored' \in 0..Len(buf) /\ buf \in Seq(Lines)
      BY <2>1 DEF TypeInv, SessionInv, WellFormed
    <2>3. DOMAIN remote' \subseteq DOMAIN buf /\ \A i \in DOMAIN remote' : remote'[i] = buf[i]
      BY <2>1, <2>2
    <2>4. since' = since /\ content' = content /\ inside' = inside
      BY <2>1 DEF database
    <2> QED
      BY <2>1, <2>3, <2>4 DEF RecentInv, Recent, RecentLine, Inside
  <1>13. CASE DeleteFtp \/ SessionFails \/ Report
    BY <1>4, <1>13
       DEF DeleteFtp, SessionFails, Report, FTP!Finish, FTP!Fail, database, session
  <1>14. CASE NextRun
    BY <1>14 DEF NextRun, RecentInv
  <1>15. CASE OtherStep
    <2>1. /\ pc' = pc /\ pc \in {"work", "open", "dump", "close"}
          /\ UNCHANGED <<file, buf, remote, faults, stored>>
      BY <1>15 DEF OtherStep, session
    <2>2. \/ content' = content /\ since' = since
          \/ since = {} /\ since' = {}
          \/ since' = since \cup {content'}
      BY <1>15 DEF OtherStep, Database!Start, Database!End, Database!Change
    <2>3. ~Inside => ~Inside'
      BY <1>15, ConnectionsAssumption
         DEF OtherStep, Database!Start, Database!End, Database!Change, Database!Commit, Inside
    <2>4. since = {} => since' = {}
      BY <1>15 DEF OtherStep
    <2>5. since \subseteq since'
      BY <2>2
    <2>6. ASSUME since' # {}, "open" \notin faults', pc' \in {"open", "dump", "close"}
          PROVE  content' \in since' /\ ~Inside'
      BY <2>1, <2>2, <2>3, <2>4, <2>6 DEF RecentInv
    <2>7. ASSUME since' # {}, "open" \notin faults', pc' \in {"dump", "close"}
          PROVE  Recent(file)'
      <3>1. Recent(file)
        BY <2>1, <2>4, <2>7 DEF RecentInv
      <3> QED
        BY <2>1, <2>5, <3>1 DEF Recent, RecentLine
    <2> QED
      BY <2>1, <2>4, <2>6, <2>7 DEF RecentInv
  <1>16. CASE UNCHANGED vars
    BY <1>16 DEF vars, database, session, RecentInv, Recent, RecentLine, Inside
  <1> QED
    BY <1>1, <1>2, <1>3, <1>5, <1>7, <1>8, <1>9, <1>10, <1>11, <1>12, <1>13, <1>14, <1>15, <1>16
       DEF Next, MainStep

\* If the COMMIT of a run took effect and export.sql could be opened, what the
\* run has uploaded restores only what the database has had since that COMMIT,
\* in spite of what is left of earlier runs on either side.
THEOREM BackupsAreRecent == Spec => []BackupIsRecent
  <1>1. Init => RecentInv
    BY DEF Init, RecentInv
  <1>2. TypeInv /\ RecentInv => BackupIsRecent
    <2> SUFFICES ASSUME TypeInv, RecentInv, pc \in {"upload", "report", "done"}, stored >= 0,
                        since # {}, "open" \notin faults
                 PROVE  IsRecent(remote)
      BY DEF BackupIsRecent
    <2>1. Recent(remote)
      BY DEF RecentInv
    <2>2. DOMAIN remote = 1..Len(remote) /\ Len(remote) \in Nat
      BY LenProperties DEF TypeInv, SessionInv, WellFormed
    <2>3. ASSUME NEW l \in Restored(remote) PROVE \E c \in since : c[l.table] = l.version
      <3>1. PICK j \in DOMAIN remote : l = remote[j] /\ \A k \in 1..j : remote[k] # Commit
        BY DEF Restored, Transaction
      <3>2. l # Commit
        BY <2>2, <3>1
      <3> QED
        BY <2>1, <3>1, <3>2 DEF Recent, RecentLine
    <2> QED
      BY <2>3 DEF IsRecent
  <1> QED
    BY <1>1, <1>2, TypeInvariant, RecentStep, PTL DEF Spec
================================================================================
