---------------------------- MODULE Logger_proofs ----------------------------
(***************************************************************************)
(* For any number of goroutines, backups and entries: the open log file is  *)
(* the one under the log's path, and no file grows by more than one entry   *)
(* per goroutine beyond its limit.  Read from the oldest backup to the      *)
(* current file, the entries are consecutive, and every step drops nothing  *)
(* or the oldest of them: Logger implements LogBook.                        *)
(***************************************************************************)
EXTENDS Logger, InductionLemmas

(* Who rotates holds the lock and has closed the file; where it opens one,  *)
(* none is under the path.  Nobody logs before New.                         *)
RotationInv ==
    /\ \A g \in Goroutine : pc[g] \in {"rename", "open"} => mu = g /\ ~open /\ up
    /\ \A g \in Goroutine : pc[g] = "open" => name[0] = NoFile
    /\ ~up => ~open /\ \A g \in Goroutine : pc[g] = "idle"

(* No file has two names.                                                   *)
NamesDiffer == \A m, n \in Slots : name[m] = name[n] /\ name[m] # NoFile => m = n

OpenIsCurrent == open => file = name[0] /\ file \in File

LoggerInv == LoggerTypeOK /\ RotationInv /\ NamesDiffer /\ OpenIsCurrent

LEMMA SlotFacts == /\ 0 \in Slots
                   /\ \A k \in 0..(MaxBackups - 1) : k \in Slots /\ k + 1 \in Slots /\ k # k + 1 /\ k + 1 # 0
                   /\ 1..MaxBackups \subseteq Slots
BY SizeAssumption DEF Slots

LEMMA RenamedFacts ==
    ASSUME LoggerTypeOK, NamesDiffer, NEW k \in 0..(MaxBackups - 1)
    PROVE  LET N == Renamed(k, k + 1)
           IN  /\ N \in [Slots -> File \cup {NoFile}]
               /\ \A m, n \in Slots : N[m] = N[n] /\ N[m] # NoFile => m = n
               /\ N[k] = NoFile
<1>1. k \in Slots /\ k + 1 \in Slots /\ k # k + 1
  BY SlotFacts
<1>2. name \in [Slots -> File \cup {NoFile}]
  BY DEF LoggerTypeOK
<1> QED BY <1>1, <1>2 DEF Renamed, NamesDiffer

LEMMA OpenFileFacts ==
    ASSUME LoggerTypeOK, NamesDiffer, OpenFile
    PROVE  /\ open' = TRUE /\ file' \in File /\ file' = name'[0]
           /\ name' \in [Slots -> File \cup {NoFile}]
           /\ content' \in [File -> Seq(Nat)]
           /\ NamesDiffer'
           /\ name[0] = NoFile => content'[file'] = <<>>
           /\ name[0] # NoFile => content' = content
           /\ \A f \in File : content'[f] = content[f] \/ content'[f] = <<>>
<1>1. name \in [Slots -> File \cup {NoFile}] /\ content \in [File -> Seq(Nat)] /\ 0 \in Slots
  BY SlotFacts DEF LoggerTypeOK
<1>2. CASE name[0] # NoFile
  BY <1>1, <1>2 DEF OpenFile, NamesDiffer
<1>3. CASE name[0] = NoFile
  <2>1. PICK f \in File \ (Named \cup {file}) :
            /\ file' = f /\ open' = TRUE
            /\ name' = [name EXCEPT ![0] = f]
            /\ content' = [content EXCEPT ![f] = <<>>]
    BY <1>3 DEF OpenFile
  <2>2. \A n \in Slots : name[n] # f
    BY <2>1, FileAssumption DEF Named
  <2>3. <<>> \in Seq(Nat)
    OBVIOUS
  <2>4. name' \in [Slots -> File \cup {NoFile}] /\ name'[0] = f
        /\ \A n \in Slots : n # 0 => name'[n] = name[n]
    BY <1>1, <2>1
  <2>5. NamesDiffer'
    BY <2>2, <2>4, <1>1 DEF NamesDiffer, Slots
  <2>6. content' \in [File -> Seq(Nat)] /\ content'[f] = <<>>
        /\ \A e \in File : e # f => content'[e] = content[e]
    BY <1>1, <2>1, <2>3
  <2> QED BY <1>3, <2>1, <2>4, <2>5, <2>6
<1> QED BY <1>2, <1>3

LEMMA InitInv == Init => LoggerInv
<1> SUFFICES ASSUME Init PROVE LoggerInv
  OBVIOUS
<1>1. <<>> \in Seq(Nat) /\ 0 \in 0..(MaxBackups - 1)
  BY SizeAssumption
<1> QED BY <1>1, GoroutineAssumption
        DEF Init, LoggerInv, LoggerTypeOK, RotationInv, NamesDiffer, OpenIsCurrent

(* A step of a goroutine that changes neither names nor l.file: what is     *)
(* left is where it stands and who holds the lock.                          *)
LEMMA StepInv == LoggerInv /\ [Next]_vars => LoggerInv'
<1> SUFFICES ASSUME LoggerInv, [Next]_vars
             PROVE  LoggerInv'
  OBVIOUS
<1> USE DEF LoggerInv
<1>1. ASSUME NEW g \in Goroutine, Log(g)
      PROVE  LoggerInv'
  BY <1>1 DEF Log, disk, Goto, LoggerTypeOK, RotationInv, NamesDiffer, OpenIsCurrent, Slots
<1>2. ASSUME NEW g \in Goroutine, Stat(g)
      PROVE  LoggerInv'
  <2>1. MaxBackups - 1 \in 0..(MaxBackups - 1)
    BY SizeAssumption
  <2>2. mu = Nobody /\ pc[g] = "rotate" /\ UNCHANGED disk /\ file' = file /\ up' = up
    BY <1>2 DEF Stat
  <2>3. up
    BY <2>2 DEF RotationInv
  <2>4. \A h \in Goroutine : pc[h] \notin {"rename", "open"}
    BY <2>2, GoroutineAssumption DEF RotationInv
  <2>5. CASE ~Full
    BY <1>2, <2>2, <2>3, <2>4, <2>5
       DEF Stat, disk, Return, Goto, LoggerTypeOK, RotationInv, NamesDiffer, OpenIsCurrent, Slots, Full
  <2>6. CASE Full
    BY <1>2, <2>1, <2>2, <2>3, <2>4, <2>6
       DEF Stat, disk, Goto, LoggerTypeOK, RotationInv, NamesDiffer, OpenIsCurrent, Slots
  <2> QED BY <2>5, <2>6
<1>3. ASSUME NEW g \in Goroutine, Rename(g)
      PROVE  LoggerInv'
  <2>1. /\ pc[g] = "rename" /\ mu = g /\ ~open /\ up
        /\ i \in 0..(MaxBackups - 1) /\ name' = Renamed(i, i + 1)
        /\ UNCHANGED <<content, written, file, open, mu, up>>
    BY <1>3 DEF Rename, RotationInv, LoggerTypeOK
  <2>2. /\ name' \in [Slots -> File \cup {NoFile}]
        /\ \A m, n \in Slots : name'[m] = name'[n] /\ name'[m] # NoFile => m = n
        /\ name'[i] = NoFile
    BY <2>1, RenamedFacts
  <2>3. NamesDiffer'
    BY <2>2 DEF NamesDiffer, Slots
  <2>4. \A h \in Goroutine : pc[h] \in {"rename", "open"} => h = g
    BY <2>1 DEF RotationInv
  <2>5. CASE i > 0
    <3>1. i' = i - 1 /\ i - 1 \in 0..(MaxBackups - 1) /\ pc' = pc
      BY <1>3, <2>1, <2>5, SizeAssumption DEF Rename
    <3>2. \A h \in Goroutine : pc[h] # "open"
      BY <2>1, <2>4
    <3> QED BY <2>1, <2>2, <2>3, <3>1, <3>2 DEF LoggerTypeOK, RotationInv, OpenIsCurrent, Slots
  <2>6. CASE ~(i > 0)
    <3>1. i = 0
      BY <2>1, <2>6
    <3>2. pc' = [pc EXCEPT ![g] = "open"] /\ i' = i
      BY <1>3, <2>6 DEF Rename, Goto
    <3>3. name'[0] = NoFile
      BY <2>2, <3>1
    <3> QED BY <2>1, <2>2, <2>3, <2>4, <3>2, <3>3 DEF LoggerTypeOK, RotationInv, OpenIsCurrent, Slots
  <2> QED BY <2>5, <2>6
<1>4. ASSUME NEW g \in Goroutine, Open(g)
      PROVE  LoggerInv'
  <2>1. /\ pc[g] = "open" /\ mu = g /\ ~open /\ up
        /\ OpenFile /\ pc' = [pc EXCEPT ![g] = "write"] /\ mu' = Nobody
        /\ UNCHANGED <<written, i, up>>
    BY <1>4 DEF Open, RotationInv, Return, Goto
  <2>2. \A h \in Goroutine : pc[h] \in {"rename", "open"} => h = g
    BY <2>1 DEF RotationInv
  <2>3. \A h \in Goroutine : pc'[h] \notin {"rename", "open"}
    BY <2>1, <2>2 DEF LoggerTypeOK
  <2> QED BY <2>1, <2>3, OpenFileFacts DEF LoggerTypeOK, RotationInv, OpenIsCurrent, Slots
<1>5. ASSUME NEW g \in Goroutine, RotateFails(g)
      PROVE  LoggerInv'
  <2>1. /\ pc[g] \in {"rename", "open"} /\ mu = g /\ ~open /\ up
        /\ pc' = [pc EXCEPT ![g] = "write"] /\ mu' = Nobody
        /\ UNCHANGED <<disk, file, open, i, up>>
    BY <1>5 DEF RotateFails, RotationInv, Return, Goto
  <2>2. \A h \in Goroutine : pc[h] \in {"rename", "open"} => h = g
    BY <2>1 DEF RotationInv
  <2>3. \A h \in Goroutine : pc'[h] \notin {"rename", "open"}
    BY <2>1, <2>2 DEF LoggerTypeOK
  <2> QED BY <2>1, <2>3 DEF disk, LoggerTypeOK, RotationInv, NamesDiffer, OpenIsCurrent, Slots
<1>6. ASSUME NEW g \in Goroutine, Write(g)
      PROVE  LoggerInv'
  <2>1. content' \in [File -> Seq(Nat)] /\ written' \in Nat
    <3>1. CASE UNCHANGED <<content, written>>
      BY <3>1 DEF LoggerTypeOK
    <3>2. CASE /\ open /\ content' = [content EXCEPT ![file] = Append(@, written + 1)]
               /\ written' = written + 1
      <4>1. file \in File /\ Append(content[file], written + 1) \in Seq(Nat)
        BY <3>2 DEF OpenIsCurrent, LoggerTypeOK
      <4> QED BY <3>2, <4>1 DEF LoggerTypeOK
    <3> QED BY <1>6, <3>1, <3>2 DEF Write
  <2>2. /\ pc[g] = "write" /\ mu = Nobody /\ pc' = [pc EXCEPT ![g] = "idle"]
        /\ UNCHANGED <<name, file, open, mu, i, up>>
    BY <1>6 DEF Write, Goto
  <2> QED BY <2>1, <2>2 DEF LoggerTypeOK, RotationInv, NamesDiffer, OpenIsCurrent, Slots
<1>7. CASE Close
  <2>1. \A h \in Goroutine : pc[h] \notin {"rename", "open"}
    BY <1>7, GoroutineAssumption DEF Close, RotationInv
  <2> QED BY <1>7, <2>1 DEF Close, disk, LoggerTypeOK, RotationInv, NamesDiffer, OpenIsCurrent, Slots
<1>8. CASE Crash
  BY <1>8 DEF Crash, disk, LoggerTypeOK, RotationInv, NamesDiffer, OpenIsCurrent, Slots
<1>9. CASE Restart
  <2>1. OpenFile /\ up' = TRUE /\ UNCHANGED <<written, mu, pc, i>>
    BY <1>9 DEF Restart
  <2>2. \A h \in Goroutine : pc'[h] \notin {"rename", "open"}
    BY <1>9, <2>1 DEF Restart, RotationInv
  <2> QED BY <2>1, <2>2, OpenFileFacts DEF LoggerTypeOK, RotationInv, OpenIsCurrent, Slots
<1>10. CASE UNCHANGED vars
  BY <1>10 DEF vars, disk, LoggerTypeOK, RotationInv, NamesDiffer, OpenIsCurrent, Slots
<1> QED BY <1>1, <1>2, <1>3, <1>4, <1>5, <1>6, <1>7, <1>8, <1>9, <1>10 DEF Next, Call

THEOREM LoggerInvariant == Spec => []LoggerInv
<1> QED BY InitInv, StepInv, PTL DEF Spec

(* LoggerTypeOK: every variable of the logger keeps its type, and with it   *)
(* the counters of a rotation their ranges, through crashes and failures.   *)
THEOREM LoggerTypeCorrect == Spec => []LoggerTypeOK
BY LoggerInvariant, PTL DEF LoggerInv

(* WritesGoToCurrent: an open log file is the one under the log's path and  *)
(* no backup.                                                               *)
THEOREM EntriesGoToCurrent == Spec => []WritesGoToCurrent
<1>1. LoggerInv => WritesGoToCurrent
  BY SlotFacts, FileAssumption DEF LoggerInv, OpenIsCurrent, NamesDiffer, WritesGoToCurrent, Slots
<1> QED BY <1>1, LoggerInvariant, PTL

-----------------------------------------------------------------------------
(* The size of the files.                                                   *)

Limit == MaxSize + Cardinality(Goroutine)

(* An entry more for every goroutine about to write still fits the limit.   *)
SizeInv ==
    /\ \A f \in File : Len(content[f]) < Limit
    /\ open => Len(content[file]) + Cardinality(Writers) < Limit

LEMMA WritersAreFew ==
    /\ Cardinality(Goroutine) \in Nat /\ Limit \in Nat
    /\ IsFiniteSet(Writers) /\ Cardinality(Writers) \in Nat
    /\ Cardinality(Writers) <= Cardinality(Goroutine)
<1>1. Writers \in SUBSET Goroutine
  BY DEF Writers
<1> QED BY <1>1, GoroutineAssumption, SizeAssumption, FS_Subset, FS_CardinalityType DEF Limit

LEMMA WritersAreFewNext ==
    /\ IsFiniteSet(Writers') /\ Cardinality(Writers') \in Nat
    /\ Cardinality(Writers') <= Cardinality(Goroutine)
<1>1. Writers' \in SUBSET Goroutine
  BY DEF Writers
<1> QED BY <1>1, GoroutineAssumption, SizeAssumption, FS_Subset, FS_CardinalityType

LEMMA InitSize == Init => SizeInv
<1> SUFFICES ASSUME Init PROVE SizeInv
  OBVIOUS
<1>1. \A f \in File : content[f] = <<>>
  BY DEF Init
<1> QED BY <1>1, GoroutineAssumption, SizeAssumption, FS_CardinalityType DEF Init, SizeInv, Limit

LEMMA StepSize == LoggerInv /\ LoggerInv' /\ SizeInv /\ [Next]_vars => SizeInv'
<1> SUFFICES ASSUME LoggerInv, LoggerInv', SizeInv, [Next]_vars
             PROVE  SizeInv'
  OBVIOUS
<1>1. /\ \A f \in File : content[f] \in Seq(Nat) /\ Len(content[f]) \in Nat
      /\ open => file \in File
  BY DEF LoggerInv, LoggerTypeOK, OpenIsCurrent
<1>2. ASSUME UNCHANGED <<content, file>>, open' => open /\ Writers' = Writers
      PROVE  SizeInv'
  BY <1>2 DEF SizeInv
<1>3. ASSUME UNCHANGED content, ~open'
      PROVE  SizeInv'
  BY <1>3 DEF SizeInv
<1>4. ASSUME OpenFile, name[0] = NoFile \/ Writers' = {}
      PROVE  SizeInv'
  <2>1. /\ open' = TRUE /\ file' \in File
        /\ name[0] = NoFile => content'[file'] = <<>>
        /\ name[0] # NoFile => content' = content
        /\ \A f \in File : content'[f] = content[f] \/ content'[f] = <<>>
    BY <1>4, OpenFileFacts DEF LoggerInv
  <2>2. 0 < Limit /\ Cardinality(Goroutine) < Limit
    BY SizeAssumption, WritersAreFew DEF Limit
  <2>3. \A f \in File : Len(content'[f]) < Limit
    BY <2>1, <2>2 DEF SizeInv
  <2>4. Len(content'[file']) + Cardinality(Writers') < Limit
    <3>1. CASE name[0] = NoFile
      BY <2>1, <2>2, <3>1, WritersAreFew, WritersAreFewNext
    <3>2. CASE name[0] # NoFile
      <4>1. Cardinality(Writers') = 0
        BY <1>4, <3>2, FS_EmptySet
      <4>2. Len(content'[file']) < Limit /\ Len(content'[file']) \in Nat
        BY <1>1, <2>1, <2>3, <3>2
      <4> QED BY <4>1, <4>2
    <3> QED BY <3>1, <3>2
  <2> QED BY <2>3, <2>4 DEF SizeInv, Limit
<1>5. ASSUME NEW g \in Goroutine, Log(g)
      PROVE  SizeInv'
  <2>1. Writers' = Writers
    BY <1>5 DEF Log, Goto, Writers, LoggerInv, LoggerTypeOK
  <2> QED BY <1>5, <2>1, <1>2 DEF Log, disk
<1>6. ASSUME NEW g \in Goroutine, Stat(g)
      PROVE  SizeInv'
  <2>1. UNCHANGED <<content, file>>
    BY <1>6 DEF Stat, disk
  <2>2. CASE Full
    BY <1>6, <1>3, <2>1, <2>2 DEF Stat
  <2>3. CASE ~Full /\ ~open
    <3>1. ~open'
      BY <1>6, <2>3 DEF Stat
    <3> QED BY <1>3, <2>1, <3>1
  <2>4. CASE ~Full /\ open
    <3>1. Len(content[file]) < MaxSize
      BY <2>4, <1>1, SizeAssumption DEF Full
    <3>2. Len(content[file]) + Cardinality(Writers') < Limit
      BY <3>1, <1>1, <2>4, SizeAssumption, WritersAreFew, WritersAreFewNext DEF Limit
    <3> QED BY <3>2, <2>1 DEF SizeInv, Limit
  <2> QED BY <2>2, <2>3, <2>4
<1>7. ASSUME NEW g \in Goroutine, Rename(g)
      PROVE  SizeInv'
  BY <1>7, <1>3 DEF Rename, LoggerInv, RotationInv
<1>8. ASSUME NEW g \in Goroutine, Open(g)
      PROVE  SizeInv'
  BY <1>8, <1>4 DEF Open, LoggerInv, RotationInv
<1>9. ASSUME NEW g \in Goroutine, RotateFails(g)
      PROVE  SizeInv'
  BY <1>9, <1>3 DEF RotateFails, disk, LoggerInv, RotationInv
<1>10. ASSUME NEW g \in Goroutine, Write(g)
       PROVE  SizeInv'
  <2>1. Writers' = Writers \ {g} /\ g \in Writers /\ open' = open /\ file' = file
    BY <1>10 DEF Write, Goto, Writers, LoggerInv, LoggerTypeOK
  <2>2. Cardinality(Writers') = Cardinality(Writers) - 1
    BY <2>1, WritersAreFew, FS_RemoveElement
  <2>3. CASE UNCHANGED <<content, written>>
    <3>1. \A f \in File : Len(content'[f]) < Limit
      BY <2>3 DEF SizeInv, Limit
    <3>2. ASSUME open'
          PROVE  Len(content'[file']) + Cardinality(Writers') < Limit'
      <4>1. Len(content[file]) + Cardinality(Writers) < Limit /\ Len(content[file]) \in Nat
        BY <1>1, <2>1, <3>2 DEF SizeInv
      <4> QED BY <4>1, <2>1, <2>2, <2>3, WritersAreFew DEF Limit
    <3> QED BY <3>1, <3>2 DEF SizeInv, Limit
  <2>4. CASE open /\ content' = [content EXCEPT ![file] = Append(@, written + 1)]
    <3>1. Len(content'[file]) = Len(content[file]) + 1
          /\ \A f \in File : f # file => content'[f] = content[f]
      BY <1>1, <2>4 DEF LoggerInv, LoggerTypeOK
    <3>2. Len(content[file]) + Cardinality(Writers) < Limit /\ Cardinality(Writers) >= 1
      BY <2>2, <2>4, WritersAreFew, WritersAreFewNext DEF SizeInv
    <3>3. Len(content'[file]) + Cardinality(Writers') < Limit /\ Len(content'[file]) < Limit
      BY <1>1, <2>2, <2>4, <3>1, <3>2, WritersAreFew, WritersAreFewNext
    <3>4. \A f \in File : Len(content'[f]) < Limit
      BY <3>1, <3>3 DEF SizeInv
    <3> QED BY <2>1, <3>3, <3>4 DEF SizeInv, Limit
  <2> QED BY <1>10, <2>3, <2>4 DEF Write
<1>11. CASE Close
  BY <1>11, <1>3 DEF Close, disk
<1>12. CASE Crash
  BY <1>12, <1>3 DEF Crash, disk
<1>13. CASE Restart
  <2>1. Writers' = {}
    BY <1>13 DEF Restart, Writers, LoggerInv, RotationInv
  <2> QED BY <1>13, <1>4, <2>1 DEF Restart
<1>14. CASE UNCHANGED vars
  <2>1. Writers' = Writers
    BY <1>14 DEF vars, Writers
  <2> QED BY <1>14, <2>1, <1>2 DEF vars, disk
<1> QED BY <1>5, <1>6, <1>7, <1>8, <1>9, <1>10, <1>11, <1>12, <1>13, <1>14 DEF Next, Call

(* SizeBounded: a file outgrows its limit by less than the number of        *)
(* goroutines.                                                              *)
THEOREM SizeIsBounded == Spec => []SizeBounded
<1>1. SizeInv => SizeBounded
  BY DEF SizeInv, SizeBounded, Limit
<1> QED BY <1>1, InitSize, StepSize, LoggerInvariant, PTL DEF Spec


-----------------------------------------------------------------------------
(* The order of the entries.  The n-th entry is n, so a piece of the log is *)
(* an interval, and the files are adjoining pieces, the oldest in the last  *)
(* backup.                                                                  *)

Interval(a, b) == [k \in 1..(b - a) |-> a + k]

(* What is under each name, if names are of the files with these contents.  *)
TextsOf(names, contents) ==
    [n \in Slots |-> IF names[n] = NoFile THEN <<>> ELSE contents[names[n]]]

Texts == TextsOf(name, content)

(* at[n] is the last entry under the name n or older.                       *)
Divided(T, at, w) ==
    /\ at \in [0..(MaxBackups + 1) -> Nat] /\ at[0] = w
    /\ \A n \in Slots : at[n + 1] <= at[n] /\ T[n] = Interval(at[n + 1], at[n])

(* Nothing was written between a point and itself. *)
LEMMA EmptyInterval == ASSUME NEW a \in Nat PROVE Interval(a, a) = <<>>
BY DEF Interval

LEMMA IntervalFacts ==
    ASSUME NEW a \in Nat, NEW b \in Nat, a <= b
    PROVE  /\ Interval(a, b) \in Seq(Nat) /\ Len(Interval(a, b)) = b - a
           /\ \A k \in 1..(b - a) : Interval(a, b)[k] = a + k
           /\ Interval(a, a) = <<>>
           /\ Append(Interval(a, b), b + 1) = Interval(a, b + 1)
<1>1. /\ Interval(a, b) \in Seq(Nat) /\ Len(Interval(a, b)) = b - a
      /\ \A k \in 1..(b - a) : Interval(a, b)[k] = a + k
  BY DEF Interval
<1>2. Interval(a, a) = <<>>
  BY DEF Interval
<1>3. Append(Interval(a, b), b + 1) = Interval(a, b + 1)
  <2>1. Append(Interval(a, b), b + 1)
            = [k \in 1..(b - a + 1) |-> IF k = b - a + 1 THEN b + 1 ELSE Interval(a, b)[k]]
    BY <1>1
  <2>2. b - a + 1 = (b + 1) - a
    OBVIOUS
  <2> QED BY <1>1, <2>1, <2>2 DEF Interval
<1> QED BY <1>1, <1>2, <1>3

LEMMA JoinFacts ==
    ASSUME NEW s \in Seq(Nat), NEW t \in Seq(Nat)
    PROVE  /\ s \o t \in Seq(Nat) /\ Len(s \o t) = Len(s) + Len(t)
           /\ \A k \in 1..(Len(s) + Len(t)) :
                 (s \o t)[k] = IF k <= Len(s) THEN s[k] ELSE t[k - Len(s)]
OBVIOUS

LEMMA IntervalsJoin ==
    ASSUME NEW a \in Nat, NEW b \in Nat, NEW c \in Nat, a <= b, b <= c
    PROVE  Interval(a, b) \o Interval(b, c) = Interval(a, c)
<1> DEFINE s == Interval(a, b)
           t == Interval(b, c)
           r == s \o t
<1>1. /\ s \in Seq(Nat) /\ Len(s) = b - a /\ \A k \in 1..(b - a) : s[k] = a + k
      /\ t \in Seq(Nat) /\ Len(t) = c - b /\ \A k \in 1..(c - b) : t[k] = b + k
  BY IntervalFacts
<1> HIDE DEF s, t
<1>2. /\ r \in Seq(Nat) /\ Len(r) = Len(s) + Len(t)
      /\ \A k \in 1..(Len(s) + Len(t)) : r[k] = IF k <= Len(s) THEN s[k] ELSE t[k - Len(s)]
  BY <1>1, JoinFacts
<1>3. Len(s) + Len(t) = c - a
  BY <1>1
<1> HIDE DEF r
<1>4. \A k \in 1..(c - a) : r[k] = a + k
  <2> SUFFICES ASSUME NEW k \in 1..(c - a)
               PROVE  r[k] = a + k
    OBVIOUS
  <2>1. r[k] = IF k <= b - a THEN s[k] ELSE t[k - (b - a)]
    BY <1>1, <1>2, <1>3
  <2>2. CASE k <= b - a
    BY <1>1, <2>1, <2>2
  <2>3. CASE ~(k <= b - a)
    <3>1. k - (b - a) \in 1..(c - b) /\ b + (k - (b - a)) = a + k
      BY <2>3
    <3> QED BY <1>1, <2>1, <2>3, <3>1
  <2> QED BY <2>2, <2>3
<1>5. r = [k \in 1..(c - a) |-> r[k]]
  BY <1>2, <1>3
<1>6. r = Interval(a, c)
  BY <1>4, <1>5 DEF Interval
<1> QED BY <1>6 DEF r, s, t

LEMMA IntervalSuffix ==
    ASSUME NEW a \in Nat, NEW b \in Nat, NEW c \in Nat, a < b, b <= c
    PROVE  \E n \in 1..Len(Interval(a, c)) :
              Interval(b, c) = SubSeq(Interval(a, c), n + 1, Len(Interval(a, c)))
<1> DEFINE n == b - a
           N == c - a
<1>1. Interval(a, c) \in Seq(Nat) /\ Len(Interval(a, c)) = N
  <2>1. a <= c
    OBVIOUS
  <2> QED BY <2>1, IntervalFacts
<1>2. n \in 1..N
  OBVIOUS
<1>3. SubSeq(Interval(a, c), n + 1, N) = [k \in 1..(N - n) |-> Interval(a, c)[n + k]]
  BY <1>1, <1>2
<1>4. \A k \in 1..(N - n) : Interval(a, c)[n + k] = b + k
  BY DEF Interval
<1>5. N - n = c - b
  OBVIOUS
<1>6. SubSeq(Interval(a, c), n + 1, N) = Interval(b, c)
  BY <1>3, <1>4, <1>5 DEF Interval
<1> QED BY <1>1, <1>2, <1>6

-----------------------------------------------------------------------------
(* FlattenSeq is a recursion over the sequences it joins.                   *)

Joining(seqs, n, F) ==
    F = [m \in 1..n |-> IF m = 1 THEN seqs[m] ELSE F[m - 1] \o seqs[m]]

LEMMA JoiningExists ==
    ASSUME NEW seqs, NEW n \in Nat
    PROVE  \E F : Joining(seqs, n, F)
<1> DEFINE S == {m \in Nat : \E F : Joining(seqs, m, F)}
<1>1. 0 \in S
  <2>1. Joining(seqs, 0, [m \in 1..0 |-> <<>>])
    BY DEF Joining
  <2> QED BY <2>1
<1>2. ASSUME NEW m \in Nat, m \in S
      PROVE  m + 1 \in S
  <2>1. PICK F : Joining(seqs, m, F)
    BY <1>2
  <2> DEFINE next == IF m + 1 = 1 THEN seqs[m + 1] ELSE F[m] \o seqs[m + 1]
             G == [k \in 1..(m + 1) |-> IF k = m + 1 THEN next ELSE F[k]]
  <2>2. \A k \in 1..m : F[k] = IF k = 1 THEN seqs[k] ELSE F[k - 1] \o seqs[k]
    BY <2>1 DEF Joining
  <2> HIDE DEF next
  <2>3. /\ \A k \in 1..m : G[k] = F[k]
        /\ G[m + 1] = next
    OBVIOUS
  <2> USE DEF next
  <2>4. \A k \in 1..(m + 1) : G[k] = IF k = 1 THEN seqs[k] ELSE G[k - 1] \o seqs[k]
    <3> SUFFICES ASSUME NEW k \in 1..(m + 1)
                 PROVE  G[k] = IF k = 1 THEN seqs[k] ELSE G[k - 1] \o seqs[k]
      OBVIOUS
    <3> HIDE DEF G
    <3>1. CASE k \in 1..m
      <4>1. G[k] = F[k] /\ (k # 1 => G[k - 1] = F[k - 1])
        BY <2>3, <3>1
      <4> QED BY <2>2, <3>1, <4>1
    <3>2. CASE k = m + 1
      <4>1. k # 1 => G[k - 1] = F[m]
        BY <2>3, <3>2
      <4> QED BY <2>3, <3>2, <4>1
    <3> QED BY <3>1, <3>2
  <2>5. G = [k \in 1..(m + 1) |-> G[k]]
    OBVIOUS
  <2> HIDE DEF G
  <2>6. Joining(seqs, m + 1, G)
    BY <2>4, <2>5 DEF Joining
  <2> QED BY <2>6
<1> HIDE DEF S
<1>3. Nat \subseteq S
  BY <1>1, <1>2, SetInduction
<1> QED BY <1>3 DEF S

LEMMA FlattenSteps ==
    ASSUME NEW seqs, NEW N \in Nat \ {0}, Len(seqs) = N
    PROVE  \E F : /\ F[1] = seqs[1]
                  /\ \A n \in 2..N : F[n] = F[n - 1] \o seqs[n]
                  /\ FlattenSeq(seqs) = F[N]
<1> DEFINE F == CHOOSE G : Joining(seqs, N, G)
<1>1. Joining(seqs, N, F)
  BY JoiningExists
<1>2. FlattenSeq(seqs) = F[N]
  BY DEF FlattenSeq, Joining
<1> HIDE DEF F
<1>3. \A n \in 1..N : F[n] = IF n = 1 THEN seqs[n] ELSE F[n - 1] \o seqs[n]
  BY <1>1 DEF Joining
<1>4. F[1] = seqs[1]
  <2>1. 1 \in 1..N
    OBVIOUS
  <2> QED BY <1>3, <2>1
<1>5. \A n \in 2..N : F[n] = F[n - 1] \o seqs[n]
  <2>1. TAKE n \in 2..N
  <2>2. n \in 1..N /\ n # 1
    OBVIOUS
  <2> QED BY <1>3, <2>2
<1> QED BY <1>2, <1>4, <1>5

(* Adjoining pieces flatten to one.                                         *)
LEMMA DividedFlattens ==
    ASSUME NEW T, NEW at, NEW w, Divided(T, at, w)
    PROVE  /\ FlattenSeq([k \in 1..(MaxBackups + 1) |-> T[(MaxBackups + 1) - k]])
                  = Interval(at[MaxBackups + 1], w)
           /\ at[MaxBackups + 1] <= w
<1> DEFINE M == MaxBackups + 1
           seqs == [k \in 1..M |-> T[M - k]]
<1> SUFFICES FlattenSeq(seqs) = Interval(at[M], w) /\ at[M] <= w
  OBVIOUS
<1>1. M \in Nat \ {0} /\ M - 1 \in Nat /\ Slots = 0..(M - 1)
  BY SizeAssumption DEF Slots
<1>2. Len(seqs) = M
  BY <1>1
<1>3. /\ at \in [0..M -> Nat] /\ at[0] = w
      /\ \A n \in 0..(M - 1) : at[n + 1] <= at[n] /\ T[n] = Interval(at[n + 1], at[n])
  BY <1>1 DEF Divided
<1>4. \A k \in 1..M : seqs[k] = T[M - k]
  OBVIOUS
<1> HIDE DEF M, seqs
<1>5. PICK F : /\ F[1] = seqs[1]
               /\ \A n \in 2..M : F[n] = F[n - 1] \o seqs[n]
               /\ FlattenSeq(seqs) = F[M]
  BY <1>1, <1>2, FlattenSteps
<1> DEFINE S == {n \in 0..(M - 1) : /\ F[n + 1] = Interval(at[M], at[M - (n + 1)])
                                    /\ at[M] <= at[M - (n + 1)]}
<1>6. 0 \in S
  <2>1. M - 1 \in 0..(M - 1) /\ 1 \in 1..M
    BY <1>1
  <2>2. F[1] = Interval(at[M], at[M - 1]) /\ at[M] <= at[M - 1]
    BY <1>1, <1>3, <1>4, <1>5, <2>1
  <2> QED BY <1>1, <2>2
<1>7. ASSUME NEW n \in 0..((M - 1) - 1), n \in S
      PROVE  n + 1 \in S
  <2> DEFINE j == M - (n + 2)
  <2>1. /\ j \in 0..(M - 1) /\ j + 1 \in 0..M /\ j \in 0..M /\ M \in 0..M
        /\ n + 2 \in 2..M /\ n + 2 \in 1..M /\ (n + 2) - 1 = n + 1
        /\ M - (n + 1) = j + 1 /\ n + 1 \in 0..(M - 1) /\ (n + 1) + 1 = n + 2
    BY <1>1
  <2>2. F[n + 1] = Interval(at[M], at[j + 1]) /\ at[M] <= at[j + 1]
    BY <1>7, <2>1
  <2>3. seqs[n + 2] = T[j]
    BY <1>4, <2>1
  <2>4. F[n + 2] = F[n + 1] \o T[j]
    BY <1>5, <2>1, <2>3
  <2>5. /\ at[M] \in Nat /\ at[j + 1] \in Nat /\ at[j] \in Nat
        /\ at[j + 1] <= at[j] /\ T[j] = Interval(at[j + 1], at[j])
    BY <1>3, <2>1
  <2> HIDE DEF j
  <2>6. F[n + 2] = Interval(at[M], at[j]) /\ at[M] <= at[j]
    <3> DEFINE a == at[M]
               b == at[j + 1]
               c == at[j]
    <3>1. a \in Nat /\ b \in Nat /\ c \in Nat /\ a <= b /\ b <= c
      BY <2>2, <2>5
    <3>2. F[n + 2] = Interval(a, b) \o Interval(b, c)
      BY <2>2, <2>4, <2>5
    <3> HIDE DEF a, b, c
    <3>3. Interval(a, b) \o Interval(b, c) = Interval(a, c)
      BY <3>1, IntervalsJoin, Zenon
    <3>4. a <= c
      BY <3>1
    <3> QED BY <3>2, <3>3, <3>4 DEF a, c
  <2>7. M - ((n + 1) + 1) = j
    BY <1>1 DEF j
  <2> QED BY <2>1, <2>6, <2>7
<1> HIDE DEF S
<1>8. 0..(M - 1) \subseteq S
  BY <1>1, <1>6, <1>7, BoundedInduction
<1>9. M - 1 \in S
  BY <1>1, <1>8
<1>10. F[M] = Interval(at[M], at[0]) /\ at[M] <= at[0]
  BY <1>1, <1>9 DEF S
<1> QED BY <1>3, <1>5, <1>10

LEMMA DividedBounds ==
    ASSUME NEW T, NEW at, NEW w, Divided(T, at, w)
    PROVE  at[MaxBackups + 1] \in Nat /\ at[MaxBackups + 1] <= w
<1>1. at[MaxBackups + 1] <= w
  BY DividedFlattens
<1>2. at[MaxBackups + 1] \in Nat
  BY SizeAssumption DEF Divided
<1> QED BY <1>1, <1>2

LEMMA TextsFlatten ==
    ASSUME NEW names, NEW contents, NEW at, NEW w, Divided(TextsOf(names, contents), at, w)
    PROVE  LET text(n) == IF names[n] = NoFile THEN <<>> ELSE contents[names[n]]
           IN  FlattenSeq([k \in 1..(MaxBackups + 1) |-> text(MaxBackups + 1 - k)])
                   = Interval(at[MaxBackups + 1], w)
<1> DEFINE T == TextsOf(names, contents)
           seqs == [k \in 1..(MaxBackups + 1) |-> T[(MaxBackups + 1) - k]]
           text(n) == IF names[n] = NoFile THEN <<>> ELSE contents[names[n]]
<1>1. seqs = [k \in 1..(MaxBackups + 1) |-> text(MaxBackups + 1 - k)]
  <2>1. \A k \in 1..(MaxBackups + 1) : T[(MaxBackups + 1) - k] = text(MaxBackups + 1 - k)
    <3>1. TAKE k \in 1..(MaxBackups + 1)
    <3>2. (MaxBackups + 1) - k = MaxBackups + 1 - k /\ MaxBackups + 1 - k \in Slots
      BY SizeAssumption DEF Slots
    <3> QED BY <3>2 DEF TextsOf
  <2> QED BY <2>1
<1>2. FlattenSeq(seqs) = Interval(at[MaxBackups + 1], w)
  <2> HIDE DEF T
  <2> QED BY DividedFlattens DEF T
<1> HIDE DEF seqs, text
<1>3. FlattenSeq([k \in 1..(MaxBackups + 1) |-> text(MaxBackups + 1 - k)])
          = Interval(at[MaxBackups + 1], w)
  BY <1>1, <1>2
<1> QED BY <1>3 DEF text

LEMMA KeptIsInterval ==
    ASSUME NEW at
    PROVE  /\ Divided(Texts, at, written) => Kept = Interval(at[MaxBackups + 1], written)
           /\ Divided(Texts', at, written') => Kept' = Interval(at[MaxBackups + 1], written')
<1>1. ASSUME Divided(Texts, at, written)
      PROVE  Kept = Interval(at[MaxBackups + 1], written)
  BY <1>1, TextsFlatten DEF Kept, Texts
<1>2. ASSUME Divided(Texts', at, written')
      PROVE  Kept' = Interval(at[MaxBackups + 1], written')
  BY <1>2, TextsFlatten DEF Kept, Texts
<1> QED BY <1>1, <1>2

-----------------------------------------------------------------------------
(* The invariant, and what each action does to it.                          *)

(* A rotation renames to a name that the step before has left free, but for *)
(* the last backup.                                                         *)
OrderInv ==
    /\ \E at : Divided(Texts, at, written)
    /\ \A g \in Goroutine : pc[g] = "rename" /\ i < MaxBackups - 1 => name[i + 1] = NoFile

BookStep == [Book!Next]_<<Kept, written + 1>>

LEMMA TextsStay ==
    ASSUME OrderInv, Texts' = Texts, written' = written
    PROVE  BookStep /\ \E at : Divided(Texts', at, written')
<1>1. PICK at : Divided(Texts, at, written)
  BY DEF OrderInv
<1>2. Divided(Texts', at, written')
  BY <1>1
<1>3. Kept' = Kept
  BY <1>1, <1>2, KeptIsInterval
<1> QED BY <1>2, <1>3 DEF BookStep

LEMMA OpeningKeepsTexts ==
    ASSUME LoggerInv, OpenFile
    PROVE  Texts' = Texts
<1>1. name \in [Slots -> File \cup {NoFile}] /\ content \in [File -> Seq(Nat)] /\ 0 \in Slots
  BY SlotFacts DEF LoggerInv, LoggerTypeOK
<1>2. CASE name[0] # NoFile
  BY <1>2 DEF OpenFile, Texts, TextsOf
<1>3. CASE name[0] = NoFile
  <2>1. PICK f \in File \ (Named \cup {file}) :
            name' = [name EXCEPT ![0] = f] /\ content' = [content EXCEPT ![f] = <<>>]
    BY <1>3 DEF OpenFile
  <2>2. \A n \in Slots : name[n] # f
    BY <2>1, FileAssumption DEF Named
  <2>3. Texts'[0] = <<>> /\ Texts[0] = <<>>
    BY <1>1, <1>3, <2>1, FileAssumption DEF Texts, TextsOf
  <2>4. ASSUME NEW n \in Slots, n # 0
        PROVE  Texts'[n] = Texts[n]
    <3>1. name'[n] = name[n] /\ (name[n] # NoFile => content'[name[n]] = content[name[n]])
      BY <1>1, <2>1, <2>2, <2>4
    <3> QED BY <2>4, <3>1 DEF Texts, TextsOf
  <2>5. Texts' = [n \in Slots |-> Texts'[n]] /\ Texts = [n \in Slots |-> Texts[n]]
    BY DEF Texts, TextsOf
  <2> QED BY <2>3, <2>4, <2>5
<1> QED BY <1>2, <1>3

LEMMA WritingAppends ==
    ASSUME LoggerInv, OrderInv, open, content' = [content EXCEPT ![file] = Append(@, written + 1)],
           written' = written + 1, name' = name
    PROVE  BookStep /\ \E at : Divided(Texts', at, written')
<1>1. PICK at : Divided(Texts, at, written)
  BY DEF OrderInv
<1>2. /\ file = name[0] /\ file \in File /\ 0 \in Slots /\ written \in Nat
      /\ content \in [File -> Seq(Nat)] /\ name \in [Slots -> File \cup {NoFile}]
      /\ MaxBackups \in Nat \ {0} /\ Slots = 0..MaxBackups
  BY SlotFacts, SizeAssumption DEF LoggerInv, LoggerTypeOK, OpenIsCurrent, Slots
<1>3. Texts[0] = content[file] /\ Texts'[0] = Append(Texts[0], written + 1)
  BY <1>2, FileAssumption DEF Texts, TextsOf
<1>4. ASSUME NEW n \in Slots, n # 0
      PROVE  Texts'[n] = Texts[n]
  <2>1. name[n] # NoFile => name[n] # file /\ name[n] \in File
    BY <1>2, <1>4 DEF LoggerInv, NamesDiffer
  <2> QED BY <1>2, <1>4, <2>1 DEF Texts, TextsOf
<1>5. /\ at \in [0..(MaxBackups + 1) -> Nat] /\ at[0] = written
      /\ \A n \in Slots : at[n + 1] <= at[n] /\ Texts[n] = Interval(at[n + 1], at[n])
  BY <1>1 DEF Divided
<1> DEFINE b == [at EXCEPT ![0] = written + 1]
<1>6. /\ b \in [0..(MaxBackups + 1) -> Nat] /\ b[0] = written + 1
      /\ \A n \in 1..(MaxBackups + 1) : b[n] = at[n]
  BY <1>2, <1>5
<1> HIDE DEF b
<1>7. b[1] <= b[0] /\ Texts'[0] = Interval(b[1], b[0])
  <2>1. at[1] \in Nat /\ at[1] <= written /\ Texts[0] = Interval(at[1], written) /\ b[1] = at[1]
    <3>1. 1 \in 1..(MaxBackups + 1) /\ 1 \in 0..(MaxBackups + 1) /\ 0 + 1 = 1
      BY <1>2
    <3>2. at[0 + 1] <= at[0] /\ Texts[0] = Interval(at[0 + 1], at[0])
      BY <1>2, <1>5
    <3>3. b[1] = at[1] /\ at[1] \in Nat
      BY <1>5, <1>6, <3>1
    <3> QED BY <1>5, <3>1, <3>2, <3>3
  <2>2. Append(Interval(at[1], written), written + 1) = Interval(at[1], written + 1)
    BY <1>2, <2>1, IntervalFacts
  <2> QED BY <1>2, <1>3, <1>6, <2>1, <2>2
<1>8. ASSUME NEW n \in Slots
      PROVE  b[n + 1] <= b[n] /\ Texts'[n] = Interval(b[n + 1], b[n])
  <2>1. CASE n = 0
    BY <1>7, <2>1
  <2>2. CASE n # 0
    <3>1. n \in 1..(MaxBackups + 1) /\ n + 1 \in 1..(MaxBackups + 1)
      BY <1>2, <2>2
    <3> QED BY <1>4, <1>5, <1>6, <2>2, <3>1
  <2> QED BY <2>1, <2>2
<1>9. Divided(Texts', b, written')
  BY <1>6, <1>8 DEF Divided
<1>10. Kept = Interval(at[MaxBackups + 1], written) /\ Kept' = Interval(at[MaxBackups + 1], written + 1)
  <2>1. MaxBackups + 1 \in 1..(MaxBackups + 1)
    BY <1>2
  <2>2. b[MaxBackups + 1] = at[MaxBackups + 1]
    BY <1>6, <2>1
  <2> QED BY <1>1, <1>9, <2>2, KeptIsInterval
<1>11. Kept' = Append(Kept, written + 1)
  <2>1. at[MaxBackups + 1] <= written /\ at[MaxBackups + 1] \in Nat
    BY <1>1, DividedBounds
  <2>2. Append(Interval(at[MaxBackups + 1], written), written + 1)
            = Interval(at[MaxBackups + 1], written + 1)
    BY <1>2, <2>1, IntervalFacts
  <2> QED BY <1>10, <2>2
<1>12. Book!Write
  BY <1>11 DEF Book!Write
<1> QED BY <1>9, <1>12 DEF BookStep, Book!Next

(* One name is moved to the next; only what the last backup had is dropped. *)
LEMMA RenamingDrops ==
    ASSUME LoggerInv, OrderInv, NEW g \in Goroutine, pc[g] = "rename",
           name' = Renamed(i, i + 1), content' = content, written' = written
    PROVE  BookStep /\ \E at : Divided(Texts', at, written')
<1> DEFINE M == MaxBackups
<1>1. /\ i \in 0..(M - 1) /\ i \in Slots /\ i + 1 \in Slots /\ written \in Nat
      /\ name \in [Slots -> File \cup {NoFile}] /\ M \in Nat \ {0} /\ Slots = 0..M
  BY SlotFacts, SizeAssumption DEF LoggerInv, LoggerTypeOK, Slots
<1>2. CASE name[i] = NoFile
  <2>1. name' = name
    BY <1>2 DEF Renamed
  <2>2. Texts' = Texts
    BY <2>1 DEF Texts
  <2> QED BY <2>2, TextsStay
<1>3. CASE name[i] # NoFile
  <2>1. name' = [name EXCEPT ![i] = NoFile, ![i + 1] = name[i]]
    BY <1>3 DEF Renamed
  <2>2. /\ name'[i] = NoFile /\ name'[i + 1] = name[i]
        /\ \A n \in Slots : n # i /\ n # i + 1 => name'[n] = name[n]
    BY <1>1, <2>1
  <2>3. /\ Texts'[i] = <<>> /\ Texts'[i + 1] = Texts[i]
        /\ \A n \in Slots : n # i /\ n # i + 1 => Texts'[n] = Texts[n]
    BY <1>1, <2>2 DEF Texts, TextsOf
  <2>4. PICK at : Divided(Texts, at, written)
    BY DEF OrderInv
  <2>5. /\ at \in [0..(M + 1) -> Nat] /\ at[0] = written
        /\ \A n \in Slots : at[n + 1] <= at[n] /\ Texts[n] = Interval(at[n + 1], at[n])
    BY <2>4 DEF Divided
  <2> DEFINE last == IF i = M - 1 THEN at[M] ELSE at[M + 1]
             b == [n \in 0..(M + 1) |-> IF n = i + 1 THEN at[i]
                                        ELSE IF n = M + 1 THEN last ELSE at[n]]
  <2>6. /\ b \in [0..(M + 1) -> Nat] /\ b[0] = written /\ b[i + 1] = at[i]
        /\ \A n \in 0..M : n # i + 1 => b[n] = at[n]
        /\ b[M + 1] = IF i = M - 1 THEN at[M] ELSE at[M + 1]
    <3>1. /\ i + 1 \in 0..(M + 1) /\ 0 \in 0..(M + 1) /\ M + 1 \in 0..(M + 1)
          /\ M \in 0..(M + 1) /\ i \in 0..(M + 1) /\ 0 # i + 1 /\ 0 # M + 1 /\ M + 1 # i + 1
          /\ \A n \in 0..M : n \in 0..(M + 1) /\ n # M + 1
      BY <1>1
    <3>2. at \in [0..(M + 1) -> Nat] /\ at[0] = written
      BY <2>5
    <3> HIDE DEF M
    <3>3. last \in Nat
      BY <3>1, <3>2
    <3>4. last = IF i = M - 1 THEN at[M] ELSE at[M + 1]
      OBVIOUS
    <3> HIDE DEF last
    <3>5. b \in [0..(M + 1) -> Nat]
      BY <3>1, <3>2, <3>3
    <3>6. b[0] = written
      BY <3>1, <3>2
    <3>7. b[i + 1] = at[i]
      BY <3>1
    <3>8. \A n \in 0..M : n # i + 1 => b[n] = at[n]
      BY <3>1
    <3>9. b[M + 1] = last
      BY <3>1
    <3> QED BY <3>4, <3>5, <3>6, <3>7, <3>8, <3>9
  <2> HIDE DEF b, last
  <2>7. i < M - 1 => at[i + 1] = at[i + 2]
    <3> SUFFICES ASSUME i < M - 1 PROVE at[i + 1] = at[i + 2]
      OBVIOUS
    <3>1. name[i + 1] = NoFile
      BY DEF OrderInv
    <3>2. Texts[i + 1] = <<>>
      BY <1>1, <3>1 DEF Texts, TextsOf
    <3>3. /\ at[(i + 1) + 1] <= at[i + 1]
          /\ Texts[i + 1] = Interval(at[(i + 1) + 1], at[i + 1])
      BY <1>1, <2>5
    <3>4. at[i + 1] \in Nat /\ at[(i + 1) + 1] \in Nat /\ (i + 1) + 1 = i + 2
      BY <1>1, <2>5
    <3>5. Len(Interval(at[(i + 1) + 1], at[i + 1])) = at[i + 1] - at[(i + 1) + 1]
      BY <3>3, <3>4, IntervalFacts
    <3> QED BY <3>2, <3>3, <3>4, <3>5
  <2>8. ASSUME NEW n \in Slots
        PROVE  b[n + 1] <= b[n] /\ Texts'[n] = Interval(b[n + 1], b[n])
    <3>1. CASE n = i
      <4>1. b[n] = at[i] /\ b[n + 1] = at[i] /\ at[i] \in Nat
        BY <1>1, <2>5, <2>6, <3>1
      <4>2. Interval(at[i], at[i]) = <<>>
        BY <4>1, EmptyInterval
      <4> QED BY <2>3, <3>1, <4>1, <4>2
    <3>2. CASE n = i + 1
      <4>1. at[i + 1] <= at[i] /\ Texts[i] = Interval(at[i + 1], at[i])
        BY <1>1, <2>5
      <4>2. b[n + 1] = at[i + 1]
        <5>1. CASE i = M - 1
          BY <1>1, <2>6, <3>2, <5>1
        <5>2. CASE i < M - 1
          <6>1. n + 1 = i + 2 /\ i + 2 \in 0..M /\ i + 2 # i + 1
            BY <1>1, <3>2, <5>2
          <6> QED BY <2>6, <2>7, <5>2, <6>1
        <5> QED BY <1>1, <5>1, <5>2
      <4>3. b[n] = at[i] /\ Texts'[n] = Texts[i]
        BY <2>3, <2>6, <3>2
      <4> QED BY <4>1, <4>2, <4>3
    <3>3. CASE n # i /\ n # i + 1
      <4>1. b[n] = at[n] /\ n + 1 # i + 1 /\ n \in 0..M
        BY <1>1, <2>6, <3>3
      <4>2. b[n + 1] = at[n + 1]
        <5>1. CASE n = M
          <6>1. i # M - 1
            BY <1>1, <3>3, <5>1
          <6> QED BY <2>6, <5>1, <6>1
        <5>2. CASE n # M
          <6>1. n + 1 \in 0..M
            BY <1>1, <4>1, <5>2
          <6> QED BY <2>6, <4>1, <6>1
        <5> QED BY <5>1, <5>2
      <4>3. Texts'[n] = Texts[n]
        BY <2>3, <3>3
      <4> QED BY <2>5, <4>1, <4>2, <4>3
    <3> QED BY <3>1, <3>2, <3>3
  <2>9. Divided(Texts', b, written')
    BY <2>6, <2>8 DEF Divided
  <2>10. Kept = Interval(at[M + 1], written) /\ Kept' = Interval(b[M + 1], written)
    BY <2>4, <2>9, KeptIsInterval
  <2>11. /\ at[M + 1] \in Nat /\ b[M + 1] \in Nat /\ b[M + 1] <= written
         /\ at[M + 1] <= b[M + 1]
    <3>1. b[M + 1] \in Nat /\ b[M + 1] <= written
      BY <2>9, DividedBounds
    <3>2. at[M + 1] \in Nat /\ at[M + 1] <= at[M]
      BY <1>1, <2>5
    <3> QED BY <2>6, <3>1, <3>2
  <2>12. CASE b[M + 1] = at[M + 1]
    <3>1. Kept' = Kept
      BY <2>10, <2>12
    <3> QED BY <2>9, <3>1 DEF BookStep
  <2>13. CASE b[M + 1] # at[M + 1]
    <3> DEFINE a == at[M + 1]
               d == b[M + 1]
    <3>1. a \in Nat /\ d \in Nat /\ a < d /\ d <= written
      BY <2>11, <2>13
    <3>2. Kept = Interval(a, written) /\ Kept' = Interval(d, written)
      BY <2>10
    <3> HIDE DEF a, d
    <3>3. \E n \in 1..Len(Kept) : Kept' = SubSeq(Kept, n + 1, Len(Kept))
      <4>1. \E n \in 1..Len(Interval(a, written)) :
                Interval(d, written)
                    = SubSeq(Interval(a, written), n + 1, Len(Interval(a, written)))
        BY <1>1, <3>1, IntervalSuffix, Zenon
      <4> QED BY <3>2, <4>1, Zenon
    <3>4. Book!DropOldest
      BY <3>3 DEF Book!DropOldest
    <3> QED BY <2>9, <3>4 DEF BookStep, Book!Next
  <2> QED BY <2>12, <2>13
<1> QED BY <1>2, <1>3

LEMMA OrderInitially == Init => OrderInv /\ Book!Init
<1> SUFFICES ASSUME Init PROVE OrderInv /\ Book!Init
  OBVIOUS
<1> DEFINE at == [n \in 0..(MaxBackups + 1) |-> 0]
<1>1. written = 0 /\ \A n \in Slots : name[n] = NoFile
  BY DEF Init
<1>2. Interval(0, 0) = <<>>
  BY IntervalFacts
<1>3. \A n \in Slots : Texts[n] = <<>> /\ at[n] = 0 /\ at[n + 1] = 0
  BY <1>1, SizeAssumption DEF Texts, TextsOf, Slots
<1>4. at \in [0..(MaxBackups + 1) -> Nat] /\ at[0] = 0 /\ at[MaxBackups + 1] = 0
  BY SizeAssumption
<1> HIDE DEF at
<1>5. Divided(Texts, at, written)
  BY <1>1, <1>2, <1>3, <1>4 DEF Divided
<1>6. Kept = <<>>
  BY <1>1, <1>2, <1>4, <1>5, KeptIsInterval
<1>7. \A g \in Goroutine : pc[g] # "rename"
  BY DEF Init
<1>8. OrderInv
  BY <1>5, <1>7 DEF OrderInv
<1> QED BY <1>1, <1>6, <1>8 DEF Book!Init

LEMMA OrderStep == LoggerInv /\ LoggerInv' /\ OrderInv /\ [Next]_vars => OrderInv' /\ BookStep
<1> SUFFICES ASSUME LoggerInv, LoggerInv', OrderInv, [Next]_vars
             PROVE  OrderInv' /\ BookStep
  OBVIOUS
<1> DEFINE Free(g) == pc[g] = "rename" /\ i < MaxBackups - 1 => name[i + 1] = NoFile
<1>1. ASSUME UNCHANGED disk, \A h \in Goroutine : Free(h)'
      PROVE  OrderInv' /\ BookStep
  <2>1. Texts' = Texts /\ written' = written
    BY <1>1 DEF disk, Texts
  <2> QED BY <1>1, <2>1, TextsStay DEF OrderInv
<1>2. pc \in [Goroutine -> {"idle", "rotate", "rename", "open", "write"}]
  BY DEF LoggerInv, LoggerTypeOK
<1>3. \A h \in Goroutine : Free(h)
  BY DEF OrderInv
<1>4. ASSUME NEW g \in Goroutine, Log(g)
      PROVE  OrderInv' /\ BookStep
  <2>1. UNCHANGED <<disk, i>> /\ pc' = [pc EXCEPT ![g] = "rotate"]
    BY <1>4 DEF Log, Goto
  <2>2. \A h \in Goroutine : Free(h)'
    BY <1>2, <1>3, <2>1 DEF disk
  <2> QED BY <1>1, <2>1, <2>2
<1>5. ASSUME NEW g \in Goroutine, Stat(g)
      PROVE  OrderInv' /\ BookStep
  <2>1. mu = Nobody /\ UNCHANGED disk
    BY <1>5 DEF Stat
  <2>2. \A h \in Goroutine : pc[h] # "rename"
    BY <2>1, GoroutineAssumption DEF LoggerInv, RotationInv
  <2>3. \/ pc' = [pc EXCEPT ![g] = "write"]
        \/ pc' = [pc EXCEPT ![g] = "rename"] /\ i' = MaxBackups - 1
    BY <1>5 DEF Stat, Return, Goto
  <2>4. \A h \in Goroutine : Free(h)'
    BY <1>2, <2>2, <2>3, SizeAssumption
  <2> QED BY <1>1, <2>1, <2>4
<1>6. ASSUME NEW g \in Goroutine, Rename(g)
      PROVE  OrderInv' /\ BookStep
  <2>1. /\ pc[g] = "rename" /\ name' = Renamed(i, i + 1) /\ content' = content
        /\ written' = written /\ i \in 0..(MaxBackups - 1) /\ mu = g
    BY <1>6 DEF Rename, LoggerInv, LoggerTypeOK, RotationInv
  <2>2. BookStep /\ \E at : Divided(Texts', at, written')
    BY <2>1, RenamingDrops
  <2>3. name'[i] = NoFile
    BY <2>1, RenamedFacts DEF LoggerInv
  <2>4. \A h \in Goroutine : pc[h] = "rename" => h = g
    BY <2>1 DEF LoggerInv, RotationInv
  <2>5. \A h \in Goroutine : Free(h)'
    <3>1. CASE i > 0
      <4>1. i' = i - 1 /\ i' + 1 = i
        BY <1>6, <2>1, <3>1 DEF Rename
      <4> QED BY <2>3, <4>1
    <3>2. CASE ~(i > 0)
      <4>1. pc' = [pc EXCEPT ![g] = "open"]
        BY <1>6, <3>2 DEF Rename, Goto
      <4> QED BY <1>2, <2>4, <4>1
    <3> QED BY <3>1, <3>2
  <2> QED BY <2>2, <2>5 DEF OrderInv
<1>7. ASSUME NEW g \in Goroutine, Open(g)
      PROVE  OrderInv' /\ BookStep
  <2>1. OpenFile /\ pc' = [pc EXCEPT ![g] = "write"] /\ written' = written /\ mu = g
    BY <1>7 DEF Open, Return, Goto, LoggerInv, RotationInv
  <2>2. Texts' = Texts
    BY <2>1, OpeningKeepsTexts
  <2>3. \A h \in Goroutine : pc'[h] # "rename"
    BY <1>2, <2>1 DEF LoggerInv, RotationInv
  <2> QED BY <2>1, <2>2, <2>3, TextsStay DEF OrderInv
<1>8. ASSUME NEW g \in Goroutine, RotateFails(g)
      PROVE  OrderInv' /\ BookStep
  <2>1. UNCHANGED <<disk, i>> /\ pc' = [pc EXCEPT ![g] = "write"]
    BY <1>8 DEF RotateFails, Return, Goto
  <2>2. \A h \in Goroutine : Free(h)'
    BY <1>2, <1>3, <2>1 DEF disk
  <2> QED BY <1>1, <2>1, <2>2
<1>9. ASSUME NEW g \in Goroutine, Write(g)
      PROVE  OrderInv' /\ BookStep
  <2>1. UNCHANGED <<name, i>> /\ pc' = [pc EXCEPT ![g] = "idle"]
    BY <1>9 DEF Write, Goto
  <2>2. \A h \in Goroutine : Free(h)'
    BY <1>2, <1>3, <2>1
  <2>3. CASE UNCHANGED <<content, written>>
    BY <1>1, <2>1, <2>2, <2>3 DEF disk
  <2>4. CASE /\ open /\ content' = [content EXCEPT ![file] = Append(@, written + 1)]
             /\ written' = written + 1
    BY <2>1, <2>2, <2>4, WritingAppends DEF OrderInv
  <2> QED BY <1>9, <2>3, <2>4 DEF Write
<1>10. CASE Close
  <2>1. UNCHANGED <<disk, i, pc>>
    BY <1>10 DEF Close
  <2>2. \A h \in Goroutine : Free(h)'
    BY <1>3, <2>1 DEF disk
  <2> QED BY <1>1, <2>1, <2>2
<1>11. CASE Crash
  <2>1. UNCHANGED disk /\ \A h \in Goroutine : Free(h)'
    BY <1>11 DEF Crash
  <2> QED BY <1>1, <2>1
<1>12. CASE Restart
  <2>1. OpenFile /\ written' = written /\ pc' = pc /\ ~up
    BY <1>12 DEF Restart
  <2>2. Texts' = Texts
    BY <2>1, OpeningKeepsTexts
  <2>3. \A h \in Goroutine : pc'[h] # "rename"
    BY <2>1 DEF LoggerInv, RotationInv
  <2> QED BY <2>1, <2>2, <2>3, TextsStay DEF OrderInv
<1>13. CASE UNCHANGED vars
  <2>1. UNCHANGED disk /\ \A h \in Goroutine : Free(h)'
    BY <1>3, <1>13 DEF vars, disk
  <2> QED BY <1>1, <2>1
<1> QED BY <1>4, <1>5, <1>6, <1>7, <1>8, <1>9, <1>10, <1>11, <1>12, <1>13 DEF Next, Call

(* OldestDroppedFirst: read from the oldest backup to the current file, the *)
(* log has every entry once and in order, without a gap; rotations drop     *)
(* only the oldest, also those that failed half way or were cut short by a  *)
(* crash.                                                                   *)
THEOREM RefinesLogBook == Spec => OldestDroppedFirst
<1>1. OrderInv /\ LoggerInv /\ LoggerInv' /\ [Next]_vars => [Book!Next]_<<Kept, written + 1>>
  BY OrderStep DEF BookStep
<1>2. OrderInv /\ LoggerInv /\ LoggerInv' /\ [Next]_vars => OrderInv'
  BY OrderStep
<1> QED BY <1>1, <1>2, OrderInitially, LoggerInvariant, PTL DEF Spec, OldestDroppedFirst, Book!Spec

=============================================================================
