------------------------------- MODULE Logger -------------------------------
(***************************************************************************)
(* The log file and its rotation.  Several goroutines log at once.  A call  *)
(* takes l.mu twice: rotate looks at the size of the file and, if it is     *)
(* full, closes it, renames the backups and the file and opens a new one;   *)
(* then the entry is written.  Each rename and the opening may fail, the    *)
(* process may be killed between any two of them, and it is started again   *)
(* on the files it left.                                                    *)
(*                                                                          *)
(* Left out: the level, the format and the copy of the entry on stdout.     *)
(***************************************************************************)
EXTENDS Integers, FiniteSets, SequencesExt

CONSTANTS
    Goroutine,
    File,        \* identities of files on disk
    NoFile,
    Nobody,
    MaxSize,     \* entries a file holds before it is rotated
    MaxBackups,  \* backups kept
    MaxEntries   \* bound: entries ever written

ASSUME GoroutineAssumption == IsFiniteSet(Goroutine) /\ Nobody \notin Goroutine
ASSUME FileAssumption == NoFile \notin File
ASSUME SizeAssumption == MaxSize \in Nat \ {0} /\ MaxBackups \in Nat \ {0} /\ MaxEntries \in Nat

VARIABLES
    name,     \* external: the file under the log's path (0) and under path.i
    content,  \* external: the entries in each file; the n-th written is n
    file,     \* l.file
    open,     \* whether l.file is open
    mu,       \* the holder of l.mu across the calls of a rotation
    pc,       \* where each goroutine's call is
    i,        \* the loop variable of rotate
    written,  \* number of entries written
    up        \* whether the process runs

disk == <<name, content, written>>
vars == <<name, content, file, open, mu, pc, i, written, up>>

Slots == 0..MaxBackups
Named == {name[n] : n \in Slots} \ {NoFile}

(* Variant: what is under the path is truncated.                            *)
OpenTruncating ==
    /\ open' = TRUE
    /\ \E f \in File \ (Named \cup {file}) :
          /\ file' = f
          /\ name' = [name EXCEPT ![0] = f]
          /\ content' = [content EXCEPT ![f] = <<>>]

(* os.OpenFile(path, O_CREATE | O_APPEND | O_WRONLY)                        *)
OpenFile ==
    /\ open' = TRUE
    /\ IF name[0] # NoFile
       THEN file' = name[0] /\ UNCHANGED <<name, content>>
       ELSE \E f \in File \ (Named \cup {file}) :
                /\ file' = f
                /\ name' = [name EXCEPT ![0] = f]
                /\ content' = [content EXCEPT ![f] = <<>>]

(* os.Rename; a backup that is not there is passed over.                    *)
Renamed(from, to) ==
    IF name[from] = NoFile THEN name
    ELSE [name EXCEPT ![from] = NoFile, ![to] = name[from]]

Goto(g, l) == pc' = [pc EXCEPT ![g] = l]

(* log, up to the call of rotate.                                           *)
Log(g) ==
    /\ up /\ pc[g] = "idle"
    /\ Goto(g, "rotate")
    /\ UNCHANGED <<disk, file, open, mu, i, up>>

(* rotate ends, with or without an error, and log goes on to write.         *)
Return(g) == Goto(g, "write") /\ mu' = Nobody

Full == open /\ Len(content[file]) >= MaxSize

(* Variants: the file may be as large as the limit; the last backup is      *)
(* renamed too; the file is not closed; an error returns with the lock.     *)
StatAtLimit(g) ==
    /\ pc[g] = "rotate" /\ mu = Nobody
    /\ IF open /\ Len(content[file]) > MaxSize
       THEN mu' = g /\ open' = FALSE /\ i' = MaxBackups - 1 /\ Goto(g, "rename")
       ELSE Return(g) /\ UNCHANGED <<open, i>>
    /\ UNCHANGED <<disk, file, up>>
StatFromLast(g) ==
    /\ pc[g] = "rotate" /\ mu = Nobody
    /\ IF Full THEN mu' = g /\ open' = FALSE /\ i' = MaxBackups /\ Goto(g, "rename")
       ELSE Return(g) /\ UNCHANGED <<open, i>>
    /\ UNCHANGED <<disk, file, up>>
StatWithoutClose(g) ==
    /\ pc[g] = "rotate" /\ mu = Nobody
    /\ IF Full THEN mu' = g /\ i' = MaxBackups - 1 /\ Goto(g, "rename") /\ UNCHANGED open
       ELSE Return(g) /\ UNCHANGED <<open, i>>
    /\ UNCHANGED <<disk, file, up>>
StatLocking(g) ==
    /\ pc[g] = "rotate" /\ mu = Nobody
    /\ IF Full THEN open' = FALSE /\ i' = MaxBackups - 1 /\ Goto(g, "rename")
       ELSE Goto(g, "write") /\ UNCHANGED <<open, i>>
    /\ mu' = IF Full \/ ~open THEN g ELSE Nobody
    /\ UNCHANGED <<disk, file, up>>

(* rotate finds the file closed, or not full; or begins and closes it.      *)
Stat(g) ==
    /\ pc[g] = "rotate" /\ mu = Nobody
    /\ \/ ~Full /\ Return(g) /\ UNCHANGED <<open, i>>
       \/ /\ Full
          /\ mu' = g /\ open' = FALSE /\ i' = MaxBackups - 1
          /\ Goto(g, "rename")
    /\ UNCHANGED <<disk, file, up>>

(* The backups, oldest first, then the file itself, which must be there.    *)
Rename(g) ==
    /\ pc[g] = "rename"
    /\ i = 0 => name[0] # NoFile
    /\ name' = Renamed(i, i + 1)
    /\ IF i > 0 THEN i' = i - 1 /\ UNCHANGED pc ELSE Goto(g, "open") /\ UNCHANGED i
    /\ UNCHANGED <<content, written, file, open, mu, up>>

Open(g) ==
    /\ pc[g] = "open"
    /\ OpenFile
    /\ Return(g)
    /\ UNCHANGED <<written, i, up>>

(* Closing, a rename or the opening fails: the file stays closed.           *)
RotateFails(g) ==
    /\ pc[g] \in {"rename", "open"}
    /\ Return(g)
    /\ UNCHANGED <<disk, file, open, i, up>>

(* The entry is added to the file, unless it is closed or the write fails.  *)
Write(g) ==
    /\ pc[g] = "write" /\ mu = Nobody
    /\ \/ /\ open /\ written < MaxEntries
          /\ content' = [content EXCEPT ![file] = Append(@, written + 1)]
          /\ written' = written + 1
       \/ UNCHANGED <<content, written>>
    /\ Goto(g, "idle")
    /\ UNCHANGED <<name, file, open, mu, i, up>>

(* Close, at the end of Start, while others may still log.                  *)
Close ==
    /\ up /\ mu = Nobody
    /\ open' = FALSE
    /\ UNCHANGED <<disk, file, mu, pc, i, up>>

(* The process ends or is killed.                                           *)
Crash ==
    /\ up /\ up' = FALSE
    /\ open' = FALSE /\ mu' = Nobody
    /\ pc' = [g \in Goroutine |-> "idle"]
    /\ UNCHANGED <<disk, file, i>>

(* New                                                                      *)
Restart ==
    /\ ~up /\ up' = TRUE
    /\ OpenFile
    /\ UNCHANGED <<written, mu, pc, i>>

Init ==
    /\ name = [n \in Slots |-> NoFile]
    /\ content = [f \in File |-> <<>>]
    /\ file = NoFile /\ open = FALSE /\ up = FALSE
    /\ mu = Nobody /\ i = 0 /\ written = 0
    /\ pc = [g \in Goroutine |-> "idle"]

Call(g) == Stat(g) \/ Rename(g) \/ Open(g) \/ RotateFails(g) \/ Write(g)

Next ==
    \/ Close \/ Crash \/ Restart
    \/ \E g \in Goroutine : Log(g) \/ Call(g)

Spec == Init /\ [][Next]_vars

(* A call that has begun goes on; sync.Mutex hands itself over to whoever   *)
(* has waited long.                                                         *)
FairSpec ==
    Spec /\ \A g \in Goroutine :
                SF_vars(Stat(g)) /\ WF_vars(Rename(g) \/ Open(g) \/ RotateFails(g)) /\ SF_vars(Write(g))

-----------------------------------------------------------------------------
(* Properties.                                                              *)

LoggerTypeOK ==
    /\ name \in [Slots -> File \cup {NoFile}]
    /\ content \in [File -> Seq(Nat)]
    /\ file \in File \cup {NoFile} /\ {open, up} \subseteq BOOLEAN
    /\ mu \in Goroutine \cup {Nobody}
    /\ pc \in [Goroutine -> {"idle", "rotate", "rename", "open", "write"}]
    /\ i \in 0..(MaxBackups - 1) /\ written \in Nat

(* An open log file is the one under the log's path and no backup, whatever *)
(* rotation was cut short before (rotate, New): otherwise entries go to a   *)
(* file the next rotation overwrites.                                       *)
WritesGoToCurrent ==
    open => file = name[0] /\ \A n \in 1..MaxBackups : name[n] # file

(* The goroutines that passed the check of the size and have not written.   *)
Writers == {g \in Goroutine : pc[g] = "write"}

(* The size is checked before the lock is given up and taken again to       *)
(* write, so a file outgrows its limit, but by less than the number of      *)
(* goroutines (log).                                                        *)
SizeBounded ==
    \A f \in File : Len(content[f]) < MaxSize + Cardinality(Goroutine)

(* The entries from the oldest backup to the current file.                  *)
Kept ==
    LET text(n) == IF name[n] = NoFile THEN <<>> ELSE content[name[n]]
    IN  FlattenSeq([k \in 1..(MaxBackups + 1) |-> text(MaxBackups + 1 - k)])

Book == INSTANCE LogBook WITH kept <- Kept, next <- written + 1

(* Read from the oldest backup to the current file, the log has every entry *)
(* once, in the order written, without a gap: rotations, also one that      *)
(* failed or was cut short and was done again after a restart, drop only    *)
(* the oldest entries (rotate, New).                                        *)
OldestDroppedFirst == Book!Spec

(* Every call of the logger returns, whoever rotates and whatever fails.    *)
CallsReturn == \A g \in Goroutine : pc[g] # "idle" ~> pc[g] = "idle"

=============================================================================
