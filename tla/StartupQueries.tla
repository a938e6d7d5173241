--------------------------- MODULE StartupQueries ---------------------------
(***************************************************************************)
(* Who asks for the PIN: the status item forks startup-pin-query whenever  *)
(* it is told that a SIM wants its PIN or PUK (status-item.c), the         *)
(* settings open a code UI too, and a lock file keeps them apart           *)
(* (connui_cell_code_ui_lock, ..._unlock and ..._init in lib/code-ui.c).   *)
(*                                                                         *)
(* What a code UI does once it has the lock is module CodeUi; here it asks *)
(* while its SIM wants a code, and ends.  Files are told apart by their    *)
(* inodes: an unlinked file lives, with its lock, in the processes that    *)
(* have it open.                                                           *)
(***************************************************************************)
EXTENDS FiniteSets, Naturals

CONSTANTS Modem, \* the modems, each with a SIM
          Proc,  \* bound on the processes at a time
          None

ASSUME StartupAssumption ==
  /\ None \notin Modem \cup Proc
  /\ IsFiniteSet(Proc)

VARIABLES
  sim,     \* [Modem -> SimStatus]
  pending, \* modems whose SIM status the status item has yet to be told
  proc,    \* the processes with a code UI, or about to have one
  path,    \* the file that LOCK_FILE names, or None
  lock,    \* [File -> the process that has it locked, or None]
  asked,   \* the user was asked for the code that the SIM wants now
  turned,  \* ... or a process that should have asked could not
  died     \* a process died with the lock file there

vars == <<sim, pending, proc, path, lock, asked, turned, died>>

SimStatus == {"ok", "pin", "puk"}
Required(m) == sim[m] \in {"pin", "puk"}

File == 1..(Cardinality(Proc) + 1)

(* A process: forked or opening the settings, with the file open, waiting  *)
(* for the modem with the lock, in the loop of connui_cell_code_ui_init,   *)
(* and in connui_cell_code_ui_unlock before each of its effects.           *)
Process == [at: {"none", "started", "opened", "modem", "query", "unlock", "unlink"},
            modem: Modem \cup {None}, file: File \cup {None}]
NoProcess == [at |-> "none", modem |-> None, file |-> None]

Holding == {"modem", "query", "unlock"}

Init ==
  /\ sim \in [Modem -> SimStatus]
  /\ pending = Modem
  /\ proc = [p \in Proc |-> NoProcess]
  /\ path = None
  /\ lock = [f \in File |-> None]
  /\ asked = {}
  /\ turned = {}
  /\ died = FALSE
-----------------------------------------------------------------------------
(* The SIM changes by itself: it is put in, or its PIN is used up or       *)
(* entered elsewhere.                                                      *)
SimChanges(m) ==
  /\ \E s \in SimStatus \ {sim[m]} : sim' = [sim EXCEPT ![m] = s]
  /\ pending' = pending \cup {m}
  /\ asked' = asked \ {m}
  /\ turned' = turned \ {m}
  /\ UNCHANGED <<proc, path, lock, died>>

(* Mutant: only the PIN counts. *)
WantsQuery_PinOnly(m) == sim[m] = "pin"

WantsQuery(m) == Required(m)

Started(p, m) ==
  proc' = [proc EXCEPT ![p] = [at |-> "started", modem |-> m, file |-> None]]

(* _sim_status_cb and connui_cellular_status_item_pin_query: fork and exec *)
(* of startup-pin-query.                                                   *)
SimStatusTold(m) ==
  /\ m \in pending
  /\ WantsQuery(m)
  /\ pending' = pending \ {m}
  /\ \/ /\ \E p \in Proc : proc[p].at = "none" /\ Started(p, m)
        /\ UNCHANGED turned
     \/ /\ turned' = turned \cup {m} \* fork fails
        /\ UNCHANGED proc
  /\ UNCHANGED <<sim, path, lock, asked, died>>

SimStatusIgnored(m) ==
  /\ m \in pending
  /\ ~WantsQuery(m)
  /\ pending' = pending \ {m}
  /\ UNCHANGED <<sim, proc, path, lock, asked, turned, died>>

(* The user opens the settings, or selects a modem there. *)
SettingsOpened(p, m) ==
  /\ proc[p].at = "none"
  /\ Started(p, m)
  /\ UNCHANGED <<sim, pending, path, lock, asked, turned, died>>

(* flightmode_status_cb: the device is offline and the user leaves it so. *)
Declined(p) ==
  /\ proc[p].at = "started"
  /\ proc' = [proc EXCEPT ![p] = NoProcess]
  /\ turned' = turned \cup {proc[p].modem}
  /\ UNCHANGED <<sim, pending, path, lock, asked, died>>
-----------------------------------------------------------------------------
(* connui_cell_code_ui_lock *)

Goes(p, at) == proc' = [proc EXCEPT ![p].at = at]

(* An inode that nobody has open. *)
NewFile == CHOOSE f \in File : \A q \in Proc : proc[q].file # f

(* open(LOCK_FILE, O_RDWR | O_CREAT) *)
OpensFile(p) ==
  /\ proc[p].at = "started"
  /\ path' = IF path = None THEN NewFile ELSE path
  /\ proc' = [proc EXCEPT ![p] = [at |-> "opened", modem |-> @.modem, file |-> path']]
  /\ UNCHANGED <<sim, pending, lock, asked, turned, died>>

(* Mutant: a shared lock. *)
MayLock_Shared(p) == TRUE

MayLock(p) == lock[proc[p].file] = None

(* flock(fd, LOCK_EX | LOCK_NB) *)
Locks(p) ==
  /\ proc[p].at = "opened"
  /\ MayLock(p)
  /\ lock' = [lock EXCEPT ![proc[p].file] = p]
  /\ Goes(p, "modem")
  /\ UNCHANGED <<sim, pending, path, asked, turned, died>>

(* "Code UI is already running." *)
FindsLocked(p) ==
  /\ proc[p].at = "opened"
  /\ ~MayLock(p)
  /\ proc' = [proc EXCEPT ![p] = NoProcess]
  /\ turned' = turned \cup {proc[p].modem}
  /\ UNCHANGED <<sim, pending, path, lock, asked, died>>
-----------------------------------------------------------------------------
(* connui_cell_code_ui_init with the lock *)

(* The modem is online (powered, for the settings), or it is not: a note.  *)
ModemReady(p) ==
  /\ proc[p].at = "modem"
  /\ Goes(p, "query")
  /\ UNCHANGED <<sim, pending, path, lock, asked, turned, died>>

ModemNotReady(p) ==
  /\ proc[p].at = "modem"
  /\ Goes(p, "unlock")
  /\ turned' = turned \cup {proc[p].modem}
  /\ UNCHANGED <<sim, pending, path, lock, asked, died>>

(* The code UI shows its dialog. *)
Asks(p) ==
  /\ proc[p].at = "query"
  /\ Required(proc[p].modem)
  /\ asked' = asked \cup {proc[p].modem}
  /\ UNCHANGED <<sim, pending, proc, path, lock, turned, died>>

(* A right code is typed. *)
Answered(p) ==
  LET m == proc[p].modem IN
  /\ proc[p].at = "query"
  /\ Required(m)
  /\ m \in asked
  /\ sim' = [sim EXCEPT ![m] = "ok"]
  /\ pending' = pending \cup {m}
  /\ asked' = asked \ {m}
  /\ turned' = turned \ {m}
  /\ Goes(p, "unlock")
  /\ UNCHANGED <<path, lock, died>>

(* The SIM is OK, or the user cancels. *)
QueryEnds(p) ==
  /\ proc[p].at = "query"
  /\ Required(proc[p].modem) => proc[p].modem \in asked
  /\ Goes(p, "unlock")
  /\ UNCHANGED <<sim, pending, path, lock, asked, turned, died>>
-----------------------------------------------------------------------------
(* connui_cell_code_ui_unlock *)

(* flock(fd, LOCK_UN), which leaves nothing to do for close. *)
Unlocks(p) ==
  /\ proc[p].at = "unlock"
  /\ lock' = [lock EXCEPT ![proc[p].file] = None]
  /\ Goes(p, "unlink")
  /\ UNCHANGED <<sim, pending, path, asked, turned, died>>

(* Mutant: the file stays. *)
Unlinks_Kept(p) ==
  /\ proc[p].at = "unlink"
  /\ proc' = [proc EXCEPT ![p] = NoProcess]
  /\ UNCHANGED <<sim, pending, path, lock, asked, turned, died>>

(* unlink(LOCK_FILE), whatever file that names now. *)
Unlinks(p) ==
  /\ proc[p].at = "unlink"
  /\ path' = None
  /\ proc' = [proc EXCEPT ![p] = NoProcess]
  /\ UNCHANGED <<sim, pending, lock, asked, turned, died>>

(* A process dies; the kernel closes its file. *)
Dies(p) ==
  /\ proc[p].at # "none"
  /\ lock' = [f \in File |-> IF lock[f] = p THEN None ELSE lock[f]]
  /\ proc' = [proc EXCEPT ![p] = NoProcess]
  /\ turned' = turned \cup {proc[p].modem}
  /\ died' = TRUE
  /\ UNCHANGED <<sim, pending, path, asked>>

Next ==
  \/ \E m \in Modem : SimChanges(m)
  \/ \E m \in Modem : SimStatusTold(m)
  \/ \E m \in Modem : SimStatusIgnored(m)
  \/ \E p \in Proc, m \in Modem : SettingsOpened(p, m)
  \/ \E p \in Proc : Declined(p)
  \/ \E p \in Proc : OpensFile(p)
  \/ \E p \in Proc : Locks(p)
  \/ \E p \in Proc : FindsLocked(p)
  \/ \E p \in Proc : ModemReady(p)
  \/ \E p \in Proc : ModemNotReady(p)
  \/ \E p \in Proc : Asks(p)
  \/ \E p \in Proc : Answered(p)
  \/ \E p \in Proc : QueryEnds(p)
  \/ \E p \in Proc : Unlocks(p)
  \/ \E p \in Proc : Unlinks(p)
  \/ \E p \in Proc : Dies(p)

Spec == Init /\ [][Next]_vars
-----------------------------------------------------------------------------
(* Types; a process holds the lock of the file it has open, and of no      *)
(* other, from flock to flock.                                             *)
TypeOK ==
  /\ sim \in [Modem -> SimStatus]
  /\ pending \subseteq Modem
  /\ proc \in [Proc -> Process]
  /\ path \in File \cup {None}
  /\ lock \in [File -> Proc \cup {None}]
  /\ asked \subseteq Modem
  /\ turned \subseteq Modem
  /\ died \in BOOLEAN
  /\ \A p \in Proc, f \in File :
       lock[f] = p <=> proc[p].at \in Holding /\ proc[p].file = f

Asking(m) ==
  \E p \in Proc : proc[p].modem = m /\ proc[p].at \in {"started", "opened", "modem", "query"}

(* A SIM that wants its PIN or PUK, as the status item was told, has a     *)
(* process that is about to ask for it, unless the user was asked already  *)
(* or a process could not ask: it was not forked, was not let out of       *)
(* flight mode, found the lock taken or the modem not ready, or died.      *)
(* Nobody tries again for those.                                           *)
LockedSimIsAsked ==
  \A m \in Modem : Required(m) /\ m \notin pending => Asking(m) \/ m \in asked \cup turned

(* When all processes have ended by themselves, the lock file is gone:     *)
(* although each of them removes whatever file has the name, none is left. *)
LockFileRemoved == ~died /\ (\A p \in Proc : proc[p].at = "none") => path = None

(* "allow only one cell_code_ui dialog at a time" (debian/changelog:28)    *)
OneCodeUiAtATime ==
  Cardinality({p \in Proc : proc[p].at \in {"modem", "query"}}) <= 1
=============================================================================
