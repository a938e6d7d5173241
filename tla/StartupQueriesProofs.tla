------------------------ MODULE StartupQueriesProofs ------------------------
(* The invariants of StartupQueries, proved for every set of modems and    *)
(* any finite number of processes.                                         *)
EXTENDS StartupQueries, FiniteSetTheorems, TLAPS

(* A lock file that nobody died over is open in a process that removes it, *)
(* or that finds it locked by one which will.                              *)
FileIsOpen ==
  ~died /\ path # None =>
    \E p \in Proc : proc[p].at \notin {"none", "started"} /\ proc[p].file = path

(* A process has a modem, and from open to unlink a file. *)
ProcessComplete ==
  \A p \in Proc :
    /\ proc[p].at # "none" => proc[p].modem \in Modem
    /\ proc[p].at \notin {"none", "started"} => proc[p].file \in File

IInv == TypeOK /\ ProcessComplete /\ FileIsOpen /\ LockedSimIsAsked

USE StartupAssumption DEF StartupAssumption

(* There are more files than processes, so that one is open in none.       *)
LEMMA NewFileType == ASSUME TypeOK PROVE NewFile \in File
<1> DEFINE Open == {proc[q].file : q \in Proc}
<1>1. IsFiniteSet(Open) /\ Cardinality(Open) <= Cardinality(Proc)
  <2>1. [q \in Proc |-> proc[q].file] \in Surjection(Proc, Open)
    BY DEF Surjection
  <2>. QED BY <2>1, FS_Surjection
<1>2. Cardinality(Proc) \in Nat
  BY FS_CardinalityType
<1>3. IsFiniteSet(File) /\ Cardinality(File) = Cardinality(Proc) + 1
  BY <1>2, FS_Interval DEF File
<1>4. \E f \in File : f \notin Open
  <2>1. SUFFICES ASSUME File \subseteq Open PROVE FALSE
    OBVIOUS
  <2>2. Cardinality(File) <= Cardinality(Open)
    BY <1>1, <2>1, FS_Subset
  <2>3. Cardinality(Open) \in Nat
    BY <1>1, FS_CardinalityType
  <2>. QED BY <1>1, <1>2, <1>3, <2>2, <2>3
<1>5. \E f \in File : \A q \in Proc : proc[q].file # f
  BY <1>4
<1>. QED BY <1>5 DEF NewFile

-----------------------------------------------------------------------------
(* What a process may become without another file: the parts of Process.   *)
LEMMA ProcessKept ==
  ASSUME TypeOK, NEW p \in Proc,
         NEW at \in {"none", "started", "opened", "modem", "query", "unlock", "unlink"},
         Goes(p, at)
  PROVE  /\ proc' \in [Proc -> Process]
         /\ proc'[p].at = at /\ proc'[p].file = proc[p].file
         /\ proc'[p].modem = proc[p].modem
         /\ \A q \in Proc \ {p} : proc'[q] = proc[q]
BY DEF TypeOK, Goes, Process

LEMMA ProcessEnded ==
  ASSUME TypeOK, NEW p \in Proc, proc' = [proc EXCEPT ![p] = NoProcess]
  PROVE  /\ proc' \in [Proc -> Process]
         /\ proc'[p] = NoProcess
         /\ \A q \in Proc \ {p} : proc'[q] = proc[q]
<1>1. NoProcess \in Process
  BY DEF NoProcess, Process
<1>. QED BY <1>1 DEF TypeOK

LEMMA ProcessStarted ==
  ASSUME TypeOK, NEW p \in Proc, NEW m \in Modem, Started(p, m)
  PROVE  /\ proc' \in [Proc -> Process]
         /\ proc'[p].at = "started" /\ proc'[p].file = None /\ proc'[p].modem = m
         /\ \A q \in Proc \ {p} : proc'[q] = proc[q]
<1>1. [at |-> "started", modem |-> m, file |-> None] \in Process
  BY DEF Process
<1>. QED BY <1>1 DEF TypeOK, Started

(* A process that has no lock, before and after, changes nothing of who    *)
(* has which.                                                              *)
LEMMA LocksKept ==
  ASSUME TypeOK, NEW p \in Proc, UNCHANGED lock,
         proc[p].at \notin Holding, proc'[p].at \notin Holding,
         \A q \in Proc \ {p} : proc'[q] = proc[q]
  PROVE  \A q \in Proc, f \in File :
           lock'[f] = q <=> proc'[q].at \in Holding /\ proc'[q].file = f
BY DEF TypeOK

(* ... nor one that keeps its lock.                                        *)
LEMMA LockHeld ==
  ASSUME TypeOK, NEW p \in Proc, UNCHANGED lock,
         proc[p].at \in Holding, proc'[p].at \in Holding, proc'[p].file = proc[p].file,
         \A q \in Proc \ {p} : proc'[q] = proc[q]
  PROVE  \A q \in Proc, f \in File :
           lock'[f] = q <=> proc'[q].at \in Holding /\ proc'[q].file = f
BY DEF TypeOK

(* A process that holds a lock has a file open.                            *)
LEMMA HolderHasFile ==
  ASSUME IInv, NEW p \in Proc, proc[p].at \in Holding \cup {"opened"}
  PROVE  proc[p].file \in File
BY DEF IInv, ProcessComplete, Holding

-----------------------------------------------------------------------------
(* Whom a step leaves unasked was turned away by it, or is told of later.  *)
LEMMA AskedStep == IInv /\ [Next]_vars => LockedSimIsAsked'
<1> SUFFICES ASSUME IInv, [Next]_vars PROVE LockedSimIsAsked'
  OBVIOUS
<1>1. CASE UNCHANGED vars
  BY <1>1 DEF vars, IInv, Asking, Required, LockedSimIsAsked
<1>2. ASSUME NEW m \in Modem, SimChanges(m) PROVE LockedSimIsAsked'
  BY <1>2 DEF IInv, LockedSimIsAsked, Asking, Required, TypeOK, SimStatus, SimChanges
<1>3. ASSUME NEW m \in Modem, SimStatusTold(m) PROVE LockedSimIsAsked'
  BY <1>3, ProcessStarted
     DEF IInv, LockedSimIsAsked, Asking, Required, TypeOK, SimStatus, SimStatusTold, WantsQuery
<1>4. ASSUME NEW m \in Modem, SimStatusIgnored(m) PROVE LockedSimIsAsked'
  BY <1>4
     DEF IInv, LockedSimIsAsked, Asking, Required, TypeOK, SimStatus, SimStatusIgnored, WantsQuery
<1>5. ASSUME NEW p \in Proc, NEW m \in Modem, SettingsOpened(p, m) PROVE LockedSimIsAsked'
  BY <1>5, ProcessStarted
     DEF IInv, LockedSimIsAsked, Asking, Required, TypeOK, SimStatus, SettingsOpened
<1>6. ASSUME NEW p \in Proc, Declined(p) PROVE LockedSimIsAsked'
  BY <1>6, ProcessEnded
     DEF IInv, LockedSimIsAsked, Asking, Required, TypeOK, SimStatus, Declined, NoProcess
<1>7. ASSUME NEW p \in Proc, OpensFile(p) PROVE LockedSimIsAsked'
  BY <1>7 DEF IInv, LockedSimIsAsked, Asking, Required, TypeOK, SimStatus, OpensFile
<1>8. ASSUME NEW p \in Proc, Locks(p) PROVE LockedSimIsAsked'
  BY <1>8, ProcessKept
     DEF IInv, LockedSimIsAsked, Asking, Required, TypeOK, SimStatus, Locks
<1>9. ASSUME NEW p \in Proc, FindsLocked(p) PROVE LockedSimIsAsked'
  BY <1>9, ProcessEnded
     DEF IInv, LockedSimIsAsked, Asking, Required, TypeOK, SimStatus, FindsLocked, NoProcess
<1>10. ASSUME NEW p \in Proc, ModemReady(p) PROVE LockedSimIsAsked'
  BY <1>10, ProcessKept
     DEF IInv, LockedSimIsAsked, Asking, Required, TypeOK, SimStatus, ModemReady
<1>11. ASSUME NEW p \in Proc, ModemNotReady(p) PROVE LockedSimIsAsked'
  BY <1>11, ProcessKept
     DEF IInv, LockedSimIsAsked, Asking, Required, TypeOK, SimStatus, ModemNotReady
<1>12. ASSUME NEW p \in Proc, Asks(p) PROVE LockedSimIsAsked'
  BY <1>12 DEF IInv, LockedSimIsAsked, Asking, Required, TypeOK, SimStatus, Asks
<1>13. ASSUME NEW p \in Proc, Answered(p) PROVE LockedSimIsAsked'
  BY <1>13, ProcessKept
     DEF IInv, LockedSimIsAsked, Asking, Required, TypeOK, SimStatus, Answered
<1>14. ASSUME NEW p \in Proc, QueryEnds(p) PROVE LockedSimIsAsked'
  BY <1>14, ProcessKept
     DEF IInv, LockedSimIsAsked, Asking, Required, TypeOK, SimStatus, QueryEnds
<1>15. ASSUME NEW p \in Proc, Unlocks(p) PROVE LockedSimIsAsked'
  BY <1>15, ProcessKept
     DEF IInv, LockedSimIsAsked, Asking, Required, TypeOK, SimStatus, Unlocks
<1>16. ASSUME NEW p \in Proc, Unlinks(p) PROVE LockedSimIsAsked'
  BY <1>16, ProcessEnded
     DEF IInv, LockedSimIsAsked, Asking, Required, TypeOK, SimStatus, Unlinks, NoProcess
<1>17. ASSUME NEW p \in Proc, Dies(p) PROVE LockedSimIsAsked'
  BY <1>17, ProcessEnded
     DEF IInv, LockedSimIsAsked, Asking, Required, TypeOK, SimStatus, Dies, NoProcess
<1>. QED BY <1>1, <1>2, <1>3, <1>4, <1>5, <1>6, <1>7, <1>8, <1>9, <1>10, <1>11, <1>12, <1>13, <1>14, <1>15, <1>16, <1>17
            DEF Next

-----------------------------------------------------------------------------
(* A process that finds its file locked leaves it to the one that has the  *)
(* lock; the others take the name away when they end.                      *)
LEMMA FileStep == IInv /\ [Next]_vars => ProcessComplete' /\ FileIsOpen'
<1> SUFFICES ASSUME IInv, [Next]_vars PROVE ProcessComplete' /\ FileIsOpen'
  OBVIOUS
<1>1. CASE UNCHANGED vars
  BY <1>1 DEF vars, IInv, ProcessComplete, FileIsOpen
<1>2. ASSUME NEW m \in Modem, SimChanges(m) PROVE ProcessComplete' /\ FileIsOpen'
  BY <1>2 DEF IInv, ProcessComplete, FileIsOpen, TypeOK, SimChanges
<1>3. ASSUME NEW m \in Modem, SimStatusTold(m) PROVE ProcessComplete' /\ FileIsOpen'
  BY <1>3, ProcessStarted DEF IInv, ProcessComplete, FileIsOpen, TypeOK, SimStatusTold
<1>4. ASSUME NEW m \in Modem, SimStatusIgnored(m) PROVE ProcessComplete' /\ FileIsOpen'
  BY <1>4 DEF IInv, ProcessComplete, FileIsOpen, TypeOK, SimStatusIgnored
<1>5. ASSUME NEW p \in Proc, NEW m \in Modem, SettingsOpened(p, m)
      PROVE ProcessComplete' /\ FileIsOpen'
  BY <1>5, ProcessStarted DEF IInv, ProcessComplete, FileIsOpen, TypeOK, SettingsOpened
<1>6. ASSUME NEW p \in Proc, Declined(p) PROVE ProcessComplete' /\ FileIsOpen'
  BY <1>6, ProcessEnded DEF IInv, ProcessComplete, FileIsOpen, TypeOK, Declined, NoProcess
<1>7. ASSUME NEW p \in Proc, OpensFile(p) PROVE ProcessComplete' /\ FileIsOpen'
  <2>1. path' \in File
    BY <1>7, NewFileType DEF IInv, OpensFile, TypeOK
  <2>2. proc'[p].at = "opened" /\ proc'[p].file = path'
    BY <1>7 DEF IInv, OpensFile, TypeOK, Process
  <2>3. \A q \in Proc \ {p} : proc'[q] = proc[q]
    BY <1>7 DEF IInv, OpensFile, TypeOK
  <2>4. proc'[p].modem = proc[p].modem /\ proc[p].at = "started"
    BY <1>7 DEF IInv, OpensFile, TypeOK, Process
  <2>5. ProcessComplete'
    BY <2>1, <2>2, <2>3, <2>4 DEF IInv, ProcessComplete
  <2>. QED BY <2>2, <2>5 DEF FileIsOpen
<1>8. ASSUME NEW p \in Proc, Locks(p) PROVE ProcessComplete' /\ FileIsOpen'
  BY <1>8, ProcessKept DEF IInv, ProcessComplete, FileIsOpen, TypeOK, Locks
<1>9. ASSUME NEW p \in Proc, FindsLocked(p) PROVE ProcessComplete' /\ FileIsOpen'
  <2>1. PICK q \in Proc \ {p} : proc[q].at \in Holding /\ proc[q].file = proc[p].file
    BY <1>9, HolderHasFile DEF IInv, TypeOK, FindsLocked, MayLock, Holding
  <2>. QED BY <2>1, <1>9, ProcessEnded
           DEF IInv, ProcessComplete, FileIsOpen, FindsLocked, NoProcess, Holding
<1>10. ASSUME NEW p \in Proc, ModemReady(p) PROVE ProcessComplete' /\ FileIsOpen'
  BY <1>10, ProcessKept DEF IInv, ProcessComplete, FileIsOpen, TypeOK, ModemReady
<1>11. ASSUME NEW p \in Proc, ModemNotReady(p) PROVE ProcessComplete' /\ FileIsOpen'
  BY <1>11, ProcessKept DEF IInv, ProcessComplete, FileIsOpen, TypeOK, ModemNotReady
<1>12. ASSUME NEW p \in Proc, Asks(p) PROVE ProcessComplete' /\ FileIsOpen'
  BY <1>12 DEF IInv, ProcessComplete, FileIsOpen, TypeOK, Asks
<1>13. ASSUME NEW p \in Proc, Answered(p) PROVE ProcessComplete' /\ FileIsOpen'
  BY <1>13, ProcessKept DEF IInv, ProcessComplete, FileIsOpen, TypeOK, Answered
<1>14. ASSUME NEW p \in Proc, QueryEnds(p) PROVE ProcessComplete' /\ FileIsOpen'
  BY <1>14, ProcessKept DEF IInv, ProcessComplete, FileIsOpen, TypeOK, QueryEnds
<1>15. ASSUME NEW p \in Proc, Unlocks(p) PROVE ProcessComplete' /\ FileIsOpen'
  BY <1>15, ProcessKept DEF IInv, ProcessComplete, FileIsOpen, TypeOK, Unlocks
<1>16. ASSUME NEW p \in Proc, Unlinks(p) PROVE ProcessComplete' /\ FileIsOpen'
  BY <1>16, ProcessEnded DEF IInv, ProcessComplete, FileIsOpen, TypeOK, Unlinks, NoProcess
<1>17. ASSUME NEW p \in Proc, Dies(p) PROVE ProcessComplete' /\ FileIsOpen'
  BY <1>17, ProcessEnded DEF IInv, ProcessComplete, FileIsOpen, TypeOK, Dies, NoProcess
<1>. QED BY <1>1, <1>2, <1>3, <1>4, <1>5, <1>6, <1>7, <1>8, <1>9, <1>10, <1>11, <1>12, <1>13, <1>14, <1>15, <1>16, <1>17
            DEF Next

-----------------------------------------------------------------------------
(* Locks go with the files they are of. *)
LEMMA TypeStep == IInv /\ [Next]_vars => TypeOK'
<1> SUFFICES ASSUME IInv, [Next]_vars PROVE TypeOK'
  OBVIOUS
<1>1. CASE UNCHANGED vars
  BY <1>1 DEF vars, IInv, TypeOK
<1>2. ASSUME NEW m \in Modem, SimChanges(m) PROVE TypeOK'
  BY <1>2 DEF IInv, TypeOK, SimChanges, Process
<1>3. ASSUME NEW m \in Modem, SimStatusTold(m) PROVE TypeOK'
  <2>1. CASE UNCHANGED proc
    BY <2>1, <1>3 DEF IInv, TypeOK, SimStatusTold
  <2>2. ASSUME NEW p \in Proc, proc[p].at = "none", Started(p, m) PROVE TypeOK'
    <3>1. \A q \in Proc, f \in File :
            lock'[f] = q <=> proc'[q].at \in Holding /\ proc'[q].file = f
      BY <1>3, <2>2, ProcessStarted, LocksKept DEF IInv, SimStatusTold, Holding
    <3>. QED BY <3>1, <2>2, <1>3, ProcessStarted DEF IInv, TypeOK, SimStatusTold
  <2>. QED BY <2>1, <2>2, <1>3 DEF SimStatusTold
<1>4. ASSUME NEW m \in Modem, SimStatusIgnored(m) PROVE TypeOK'
  BY <1>4 DEF IInv, TypeOK, SimStatusIgnored, Process
<1>5. ASSUME NEW p \in Proc, NEW m \in Modem, SettingsOpened(p, m) PROVE TypeOK'
  <2>1. \A q \in Proc, f \in File :
          lock'[f] = q <=> proc'[q].at \in Holding /\ proc'[q].file = f
    BY <1>5, ProcessStarted, LocksKept DEF IInv, SettingsOpened, Holding
  <2>. QED BY <2>1, <1>5, ProcessStarted DEF IInv, TypeOK, SettingsOpened
<1>6. ASSUME NEW p \in Proc, Declined(p) PROVE TypeOK'
  <2>1. \A q \in Proc, f \in File :
          lock'[f] = q <=> proc'[q].at \in Holding /\ proc'[q].file = f
    BY <1>6, ProcessEnded, LocksKept DEF IInv, Declined, NoProcess, Holding
  <2>2. proc[p].modem \in Modem
    BY <1>6 DEF IInv, ProcessComplete, Declined
  <2>3. turned' \subseteq Modem
    BY <2>2, <1>6 DEF IInv, TypeOK, Declined
  <2>. QED BY <2>1, <2>3, <1>6, ProcessEnded DEF IInv, TypeOK, Declined
<1>7. ASSUME NEW p \in Proc, OpensFile(p) PROVE TypeOK'
  <2>1. path' \in File
    BY <1>7, NewFileType DEF IInv, OpensFile, TypeOK
  <2>5. [at |-> "opened", modem |-> proc[p].modem, file |-> path'] \in Process
    BY <2>1 DEF IInv, TypeOK, Process
  <2>2. proc' \in [Proc -> Process]
    BY <1>7, <2>5 DEF IInv, OpensFile, TypeOK
  <2>3. proc'[p].at = "opened" /\ \A q \in Proc \ {p} : proc'[q] = proc[q]
    BY <1>7 DEF IInv, OpensFile, TypeOK, Process
  <2>4. \A q \in Proc, f \in File :
          lock'[f] = q <=> proc'[q].at \in Holding /\ proc'[q].file = f
    BY <1>7, <2>3, LocksKept DEF IInv, OpensFile, Holding
  <2>. QED BY <2>1, <2>2, <2>4, <1>7 DEF IInv, TypeOK, OpensFile
<1>8. ASSUME NEW p \in Proc, Locks(p) PROVE TypeOK'
  <2>1. proc[p].file \in File
    BY <1>8 DEF IInv, ProcessComplete, Locks
  <2>2. lock' \in [File -> Proc \cup {None}]
    BY <1>8 DEF IInv, TypeOK, Locks
  <2>3. \A q \in Proc, f \in File :
          lock'[f] = q <=> proc'[q].at \in Holding /\ proc'[q].file = f
    BY <2>1, <1>8, ProcessKept DEF IInv, TypeOK, Locks, MayLock, Holding
  <2>. QED BY <2>2, <2>3, <1>8, ProcessKept DEF IInv, TypeOK, Locks
<1>9. ASSUME NEW p \in Proc, FindsLocked(p) PROVE TypeOK'
  <2>1. \A q \in Proc, f \in File :
          lock'[f] = q <=> proc'[q].at \in Holding /\ proc'[q].file = f
    BY <1>9, ProcessEnded, LocksKept DEF IInv, FindsLocked, NoProcess, Holding
  <2>2. proc[p].modem \in Modem
    BY <1>9 DEF IInv, ProcessComplete, FindsLocked
  <2>3. turned' \subseteq Modem
    BY <2>2, <1>9 DEF IInv, TypeOK, FindsLocked
  <2>. QED BY <2>1, <2>3, <1>9, ProcessEnded DEF IInv, TypeOK, FindsLocked
<1>10. ASSUME NEW p \in Proc, ModemReady(p) PROVE TypeOK'
  <2>1. \A q \in Proc, f \in File :
          lock'[f] = q <=> proc'[q].at \in Holding /\ proc'[q].file = f
    BY <1>10, ProcessKept, LockHeld DEF IInv, ModemReady, Holding
  <2>. QED BY <2>1, <1>10, ProcessKept DEF IInv, TypeOK, ModemReady
<1>11. ASSUME NEW p \in Proc, ModemNotReady(p) PROVE TypeOK'
  <2>1. \A q \in Proc, f \in File :
          lock'[f] = q <=> proc'[q].at \in Holding /\ proc'[q].file = f
    BY <1>11, ProcessKept, LockHeld DEF IInv, ModemNotReady, Holding
  <2>2. proc[p].modem \in Modem
    BY <1>11 DEF IInv, ProcessComplete, ModemNotReady
  <2>. QED BY <2>1, <2>2, <1>11, ProcessKept DEF IInv, TypeOK, ModemNotReady, SimStatus
<1>12. ASSUME NEW p \in Proc, Asks(p) PROVE TypeOK'
  <2>1. proc[p].modem \in Modem
    BY <1>12 DEF IInv, ProcessComplete, Asks
  <2>. QED BY <2>1, <1>12 DEF IInv, TypeOK, Asks
<1>13. ASSUME NEW p \in Proc, Answered(p) PROVE TypeOK'
  <2>1. \A q \in Proc, f \in File :
          lock'[f] = q <=> proc'[q].at \in Holding /\ proc'[q].file = f
    BY <1>13, ProcessKept, LockHeld DEF IInv, Answered, Holding
  <2>2. proc[p].modem \in Modem
    BY <1>13 DEF IInv, ProcessComplete, Answered
  <2>. QED BY <2>1, <2>2, <1>13, ProcessKept DEF IInv, TypeOK, Answered, SimStatus
<1>14. ASSUME NEW p \in Proc, QueryEnds(p) PROVE TypeOK'
  <2>1. \A q \in Proc, f \in File :
          lock'[f] = q <=> proc'[q].at \in Holding /\ proc'[q].file = f
    BY <1>14, ProcessKept, LockHeld DEF IInv, QueryEnds, Holding
  <2>. QED BY <2>1, <1>14, ProcessKept DEF IInv, TypeOK, QueryEnds
<1>15. ASSUME NEW p \in Proc, Unlocks(p) PROVE TypeOK'
  <2>1. proc[p].file \in File
    BY <1>15 DEF IInv, ProcessComplete, Unlocks
  <2>2. lock' \in [File -> Proc \cup {None}]
    BY <1>15 DEF IInv, TypeOK, Unlocks
  <2>3. \A q \in Proc, f \in File :
          lock'[f] = q <=> proc'[q].at \in Holding /\ proc'[q].file = f
    BY <2>1, <1>15, ProcessKept DEF IInv, TypeOK, Unlocks, Holding
  <2>. QED BY <2>2, <2>3, <1>15, ProcessKept DEF IInv, TypeOK, Unlocks
<1>16. ASSUME NEW p \in Proc, Unlinks(p) PROVE TypeOK'
  <2>1. \A q \in Proc, f \in File :
          lock'[f] = q <=> proc'[q].at \in Holding /\ proc'[q].file = f
    BY <1>16, ProcessEnded, LocksKept DEF IInv, Unlinks, NoProcess, Holding
  <2>. QED BY <2>1, <1>16, ProcessEnded DEF IInv, TypeOK, Unlinks
<1>17. ASSUME NEW p \in Proc, Dies(p) PROVE TypeOK'
  <2>1. lock' \in [File -> Proc \cup {None}]
    BY <1>17 DEF IInv, TypeOK, Dies
  <2>2. \A q \in Proc, f \in File :
          lock'[f] = q <=> proc'[q].at \in Holding /\ proc'[q].file = f
    BY <1>17, ProcessEnded DEF IInv, TypeOK, Dies, Holding, NoProcess
  <2>3. proc[p].modem \in Modem
    BY <1>17 DEF IInv, ProcessComplete, Dies
  <2>. QED BY <2>1, <2>2, <2>3, <1>17, ProcessEnded DEF IInv, TypeOK, Dies
<1>. QED BY <1>1, <1>2, <1>3, <1>4, <1>5, <1>6, <1>7, <1>8, <1>9, <1>10, <1>11, <1>12, <1>13, <1>14, <1>15, <1>16, <1>17
            DEF Next

-----------------------------------------------------------------------------
LEMMA InitIInv == Init => IInv
<1> SUFFICES ASSUME Init PROVE IInv
  OBVIOUS
<1>1. NoProcess \in Process
  BY DEF NoProcess, Process
<1>2. \A p \in Proc : proc[p] = NoProcess /\ proc[p].at = "none"
  BY DEF Init, NoProcess
<1>3. TypeOK
  BY <1>1, <1>2 DEF Init, TypeOK, Holding
<1>4. ProcessComplete /\ FileIsOpen /\ LockedSimIsAsked
  BY <1>2 DEF Init, ProcessComplete, FileIsOpen, LockedSimIsAsked
<1>. QED BY <1>3, <1>4 DEF IInv

LEMMA Invariance == Spec => []IInv
<1>1. IInv /\ [Next]_vars => IInv'
  BY TypeStep, FileStep, AskedStep DEF IInv
<1>. QED BY InitIInv, <1>1, PTL DEF Spec

(* Whatever the processes do and wherever they die, each has the lock of   *)
(* the file it has open, from flock to flock, and of no other.             *)
THEOREM TypeCorrect == Spec => []TypeOK
<1>1. IInv => TypeOK
  BY DEF IInv
<1>. QED BY Invariance, <1>1, PTL

(* When all processes have ended by themselves, no lock file is left       *)
(* behind, however their open, flock and unlink interleave: one that finds *)
(* the file locked leaves it to the one that removes it.                   *)
THEOREM NoLockFileLeft == Spec => []LockFileRemoved
<1>1. IInv => LockFileRemoved
  BY DEF IInv, FileIsOpen, LockFileRemoved
<1>. QED BY Invariance, <1>1, PTL

(* A SIM that wants a code, as the status item was told, has a process     *)
(* that is about to ask, unless somebody asked or was turned away.         *)
THEOREM LockedSimsAreAsked == Spec => []LockedSimIsAsked
<1>1. IInv => LockedSimIsAsked
  BY DEF IInv
<1>. QED BY Invariance, <1>1, PTL
=============================================================================
