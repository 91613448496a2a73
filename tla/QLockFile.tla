------------------------------ MODULE QLockFile ------------------------------
(***************************************************************************)
(* Lock files (src/corelib/io/qlockfile.cpp and qlockfile_unix.cpp):       *)
(* processes that lock the same file name, crash and leave it behind,      *)
(* notice that it is stale and remove it.                                  *)
(*                                                                         *)
(* The lock file "f" has level 0.  A process that removes it holds         *)
(* "f.rmlock" meanwhile, a lock file of level 1, which may be left behind  *)
(* in turn and is removed under "f.rmlock.rmlock", and so on.  Each system *)
(* call is one step.  A directory maps levels to inodes; an inode has a    *)
(* flock and lives as long as it has a name or is open.                    *)
(*                                                                         *)
(* Time is reduced to one bit: a file is old when its age has passed the   *)
(* staleLockTime.  Files of live owners get old only where Slow says so.   *)
(***************************************************************************)
EXTENDS Naturals, Sequences

CONSTANTS
  Procs,        \* process identifiers; a crashed one may be used again
  Inodes,       \* a set of numbers, as many as may be in use at once and one more
  Levels,       \* the number of levels
  MaxCrashes,   \* bound on crashes
  MaxFull,      \* bound on failures to write
  Slow          \* may a process take longer than the staleLockTime?

Names == 0..Levels - 1

\* A file of the last level is never left behind: one crash leaves one file.
ASSUME LockFileAssumption ==
  /\ Levels \in Nat /\ MaxCrashes \in Nat /\ MaxFull \in Nat /\ MaxCrashes < Levels
  /\ Inodes \subseteq Nat \ {0} /\ Slow \in BOOLEAN

VARIABLES
  stale,     \* has the lock file a staleLockTime, or 0?  Never changes
  entry,     \* the directory: the inode of each name
  inode,     \* the inodes
  own,       \* the descriptors of the lock files each process has created
  alive,     \* the processes that run
  stack,     \* the calls of each process, the innermost last
  crashes, full

counts == <<crashes, full>>
vars   == <<stale, entry, inode, own, alive, stack, counts>>

None  == 0
Blank == [pid |-> None, written |-> FALSE, flock |-> None, old |-> FALSE]

\* Frame 1 is the client's, which uses the lock file of level 0.  Frame i + 1
\* is the tryLock() for the file that frame i uses: it tries level i - 1 and
\* uses level i as its rmlock.  fd is the descriptor of removeStaleLock().
Frame(pc) == [pc |-> pc, fd |-> None, removed |-> FALSE, forever |-> FALSE]

Init ==
  /\ stale \in BOOLEAN
  /\ entry = [n \in Names |-> None]
  /\ inode = [i \in Inodes |-> Blank]
  /\ own = [p \in Procs |-> [n \in Names |-> None]]
  /\ alive = Procs
  /\ stack = [p \in Procs |-> <<Frame("out")>>]
  /\ crashes = 0 /\ full = 0

-----------------------------------------------------------------------------
Depth(p)  == Len(stack[p])
Top(p)    == stack[p][Depth(p)]
At(p, pc) == p \in alive /\ Top(p).pc = pc

Uses(p)  == Depth(p) - 1    \* the level of the lock file the innermost call uses
Tries(p) == Depth(p) - 2    \* the level it tries to lock

With(p, frame) == stack' = [stack EXCEPT ![p][Depth(p)] = frame]
Goto(p, pc)    == With(p, [Top(p) EXCEPT !.pc = pc])

Call(p, pc, forever) ==
  stack' = [stack EXCEPT ![p] = Append([@ EXCEPT ![Len(@)].pc = pc],
                                       [Frame("try") EXCEPT !.forever = forever])]

\* tryLock() returns to its caller, the client or the tryLock() of a level below.
Return(p, locked) ==
  LET i    == Depth(p) - 1
      next == IF i = 1 THEN IF locked THEN "in" ELSE "done"
              ELSE IF locked THEN "recheck" ELSE "sleep"
  IN  stack' = [stack EXCEPT ![p] = [SubSeq(@, 1, i) EXCEPT ![i].pc = next]]

InUse(i) ==
  \/ \E n \in Names : entry[n] = i
  \/ \E p \in Procs : \/ \E n \in Names : own[p][n] = i
                      \/ \E k \in 1..Len(stack[p]) : stack[p][k].fd = i

\* The first inode that is free.
Unused(i) == ~InUse(i) /\ \A j \in Inodes : InUse(j) \/ i <= j

\* The file system forgets what has neither a name nor a descriptor any more.
Keep(files) == inode' = [i \in Inodes |-> IF InUse(i)' THEN files[i] ELSE Blank]

Unlocked(i) == [inode EXCEPT ![i].flock = None]

-----------------------------------------------------------------------------
(* QLockFilePrivate::tryLock_sys()                                         *)

\* open(O_CREAT | O_EXCL)
Create(p) ==
  /\ At(p, "try")
  /\ IF entry[Tries(p)] # None
     THEN Goto(p, "check") /\ UNCHANGED <<entry, inode, own>>
     ELSE \E i \in Inodes :
            /\ Unused(i)
            /\ entry' = [entry EXCEPT ![Tries(p)] = i]
            /\ own' = [own EXCEPT ![p][Tries(p)] = i]
            /\ inode' = [inode EXCEPT ![i].pid = p]
            /\ Goto(p, "flock")
  /\ UNCHANGED <<stale, alive, counts>>

\* A failure is only warned about.
Flock(p) ==
  /\ At(p, "flock")
  /\ inode' = [inode EXCEPT ![own[p][Tries(p)]].flock = IF @ = None THEN p ELSE @]
  /\ Goto(p, "write")
  /\ UNCHANGED <<stale, entry, own, alive, counts>>

Write(p) ==
  /\ At(p, "write")
  /\ inode' = [inode EXCEPT ![own[p][Tries(p)]].written = TRUE, ![own[p][Tries(p)]].old = FALSE]
  /\ Return(p, TRUE)
  /\ UNCHANGED <<stale, entry, own, alive, counts>>

Release(p, i) == IF i \in Inodes /\ inode[i].flock = p THEN Unlocked(i) ELSE inode

\* The partition is full: the descriptor is closed, then the name removed.
WriteFails(p) ==
  /\ At(p, "write") /\ full < MaxFull
  /\ full' = full + 1
  /\ own' = [own EXCEPT ![p][Tries(p)] = None]
  /\ Goto(p, "full")
  /\ UNCHANGED <<stale, entry, alive, crashes>>
  /\ Keep(Release(p, own[p][Tries(p)]))

RemoveFull(p) ==
  /\ At(p, "full")
  /\ entry' = [entry EXCEPT ![Tries(p)] = None]
  /\ Return(p, FALSE)
  /\ UNCHANGED <<stale, own, alive, counts>>
  /\ Keep(inode)

-----------------------------------------------------------------------------
(* QLockFile::tryLock(), from LockFailedError on                           *)

\* Mutant of IsApparentlyStale: only a dead process leaves a stale file.
StaleIfDead(n) ==
  /\ entry[n] # None
  /\ inode[entry[n]].written /\ inode[entry[n]].pid \notin alive

\* The process that is named in the file does not run, or the file is old.
IsApparentlyStale(n) ==
  /\ entry[n] # None
  /\ LET file == inode[entry[n]] IN
     \/ file.written /\ file.pid \notin alive
     \/ file.old /\ (n > 0 \/ stale)

\* Mutant of Check: goes on without the rmlock.
CheckAlone(p) ==
  /\ At(p, "check")
  /\ Goto(p, IF IsApparentlyStale(Tries(p)) THEN "open" ELSE "sleep")
  /\ UNCHANGED <<stale, entry, inode, own, alive, counts>>

\* rmlock.tryLock(), without a timeout
Check(p) ==
  /\ At(p, "check")
  /\ IF IsApparentlyStale(Tries(p)) THEN Call(p, "rmlock", FALSE) ELSE Goto(p, "sleep")
  /\ UNCHANGED <<stale, entry, inode, own, alive, counts>>

\* Mutant of Recheck: relies on the check before the rmlock was taken.
RecheckNot(p) ==
  /\ At(p, "recheck")
  /\ Goto(p, "open")
  /\ UNCHANGED <<stale, entry, inode, own, alive, counts>>

Recheck(p) ==
  /\ At(p, "recheck")
  /\ Goto(p, IF IsApparentlyStale(Tries(p)) THEN "open" ELSE "unlock")
  /\ UNCHANGED <<stale, entry, inode, own, alive, counts>>

\* removeStaleLock(): open, flock, unlink, close
OpenStale(p) ==
  /\ At(p, "open")
  /\ IF entry[Tries(p)] = None
     THEN Goto(p, "unlock")
     ELSE With(p, [Top(p) EXCEPT !.fd = entry[Tries(p)], !.pc = "flockStale"])
  /\ UNCHANGED <<stale, entry, inode, own, alive, counts>>

FlockStale(p) ==
  /\ At(p, "flockStale")
  /\ UNCHANGED <<stale, entry, own, alive, counts>>
  /\ IF inode[Top(p).fd].flock = None
     THEN Goto(p, "unlinkStale") /\ inode' = [inode EXCEPT ![Top(p).fd].flock = p]
     ELSE With(p, [Top(p) EXCEPT !.fd = None, !.pc = "unlock"]) /\ Keep(inode)

UnlinkStale(p) ==
  /\ At(p, "unlinkStale")
  /\ entry' = [entry EXCEPT ![Tries(p)] = None]
  /\ With(p, [Top(p) EXCEPT !.removed = entry[Tries(p)] # None, !.pc = "closeStale"])
  /\ UNCHANGED <<stale, own, alive, counts>>
  /\ Keep(inode)

CloseStale(p) ==
  /\ At(p, "closeStale")
  /\ With(p, [Top(p) EXCEPT !.fd = None, !.pc = "unlock"])
  /\ UNCHANGED <<stale, entry, own, alive, counts>>
  /\ Keep(Unlocked(Top(p).fd))

\* A lock() waits, a tryLock() until its time is up, that for an rmlock not at all.
Sleep(p) ==
  /\ At(p, "sleep")
  /\ IF Tries(p) = 0 THEN Goto(p, "try") ELSE Return(p, FALSE)
  /\ UNCHANGED <<stale, entry, inode, own, alive, counts>>

TimeOut(p) ==
  /\ At(p, "sleep") /\ ~Top(p).forever
  /\ Return(p, FALSE)
  /\ UNCHANGED <<stale, entry, inode, own, alive, counts>>

-----------------------------------------------------------------------------
(* QLockFile::unlock(), of the client or of an rmlock, and the client      *)

Unlock(p) ==
  /\ At(p, "unlock") \/ At(p, "in")
  /\ entry' = [entry EXCEPT ![Uses(p)] = None]
  /\ Goto(p, "close")
  /\ UNCHANGED <<stale, own, alive, counts>>
  /\ Keep(inode)

Close(p) ==
  /\ At(p, "close")
  /\ own' = [own EXCEPT ![p][Uses(p)] = None]
  /\ With(p, [Top(p) EXCEPT !.removed = FALSE,
                            !.pc = IF Depth(p) = 1 THEN "done"
                                   ELSE IF Top(p).removed THEN "try" ELSE "sleep"])
  /\ UNCHANGED <<stale, entry, alive, counts>>
  /\ Keep(Release(p, own[p][Uses(p)]))

\* lock() or tryLock(timeout), once
Lock(p) ==
  /\ At(p, "out")
  /\ \E forever \in BOOLEAN : Call(p, "locking", forever)
  /\ UNCHANGED <<stale, entry, inode, own, alive, counts>>

-----------------------------------------------------------------------------
(* The system                                                              *)

\* The descriptors of a process that crashes are closed; its files remain.
Crash(p) ==
  /\ p \in alive /\ crashes < MaxCrashes
  /\ crashes' = crashes + 1
  /\ alive' = alive \ {p}
  /\ own' = [own EXCEPT ![p] = [n \in Names |-> None]]
  /\ stack' = [stack EXCEPT ![p] = <<Frame("dead")>>]
  /\ UNCHANGED <<stale, entry, full>>
  /\ Keep([i \in Inodes |-> IF inode[i].flock = p THEN [inode[i] EXCEPT !.flock = None]
                                                  ELSE inode[i]])

\* The same program is started anew and gets the same process identifier.
Restart(p) ==
  /\ p \notin alive
  /\ alive' = alive \cup {p}
  /\ stack' = [stack EXCEPT ![p] = <<Frame("out")>>]
  /\ UNCHANGED <<stale, entry, inode, own, counts>>

\* A running process is not done with the file it has created.
Owned(i) ==
  \E p \in alive :
    \/ \E n \in Names : own[p][n] = i
    \/ Top(p).pc = "full" /\ entry[Tries(p)] = i

GetOld(i) ==
  /\ InUse(i) /\ ~inode[i].old /\ (Slow \/ ~Owned(i))
  /\ inode' = [inode EXCEPT ![i].old = TRUE]
  /\ UNCHANGED <<stale, entry, own, alive, stack, counts>>

Step(p) ==
  \/ Create(p) \/ Flock(p) \/ Write(p) \/ RemoveFull(p)
  \/ Check(p) \/ Recheck(p)
  \/ OpenStale(p) \/ FlockStale(p) \/ UnlinkStale(p) \/ CloseStale(p)
  \/ Sleep(p) \/ Unlock(p) \/ Close(p)

Next ==
  \/ \E p \in Procs : Step(p) \/ Lock(p) \/ WriteFails(p) \/ TimeOut(p) \/ Crash(p) \/ Restart(p)
  \/ \E i \in Inodes : GetOld(i)

\* Processes that run go on, also in what they do with the lock, and time passes.
Fairness == (\A p \in Procs : WF_vars(Step(p))) /\ (\A i \in Inodes : WF_vars(GetOld(i)))

Spec == Init /\ [][Next]_vars /\ Fairness

-----------------------------------------------------------------------------
(* Properties                                                              *)

\* Everything has its type; a call in progress has exactly the descriptors it
\* needs, and none is left open behind it.
TypeOK ==
  /\ stale \in BOOLEAN /\ alive \subseteq Procs
  /\ entry \in [Names -> Inodes \cup {None}]
  /\ inode \in [Inodes -> [pid : Procs \cup {None}, written : BOOLEAN,
                           flock : Procs \cup {None}, old : BOOLEAN]]
  /\ crashes \in 0..MaxCrashes /\ full \in 0..MaxFull
  /\ \A p \in Procs : Depth(p) \in 1..Levels + 1
  /\ \A p \in Procs, n \in Names :
       own[p][n] # None <=>
         \/ n + 1 <= Depth(p) /\ stack[p][n + 1].pc \in {"in", "recheck", "open", "flockStale",
                                        "unlinkStale", "closeStale", "unlock", "close"}
         \/ n + 2 <= Depth(p) /\ stack[p][n + 2].pc \in {"flock", "write"}

Holds(p, n) == p \in alive /\ n + 1 <= Depth(p)
               /\ stack[p][n + 1].pc \in {"in", "recheck", "open", "flockStale", "unlinkStale",
                                          "closeStale", "unlock"}

\* While a process has the lock, or an rmlock, the file is there and is the one
\* it has created, so that no two have it: whatever files crashes left behind and
\* however many noticed them.
Exclusion == \A p \in Procs, n \in Names : Holds(p, n) => entry[n] # None /\ entry[n] = own[p][n]

\* No descriptor is lost, and the lock excludes.
LocksSane == TypeOK /\ Exclusion

\* "Ensure nobody else can delete the file while we have it": the name of a file
\* that a running process has created and still has open is removed by nobody else.
NoForeignRemoval ==
  [][\A n \in Names : \A p \in alive :
       entry[n] # None /\ own[p][n] = entry[n] /\ entry'[n] # entry[n]
         => stack'[p] # stack[p]]_vars

\* With a staleLockTime of 0 nobody can tell that a file is left behind when its
\* process identifier is in use again, or was never written.
Unrecognizable ==
  ~stale /\ entry[0] # None /\ ~Owned(entry[0]) /\ ~IsApparentlyStale(0)

\* lock() returns: what a crashed process has left behind is removed in the end,
\* also when it crashed while it was removing what another had left.
LockReturns ==
  \A p \in Procs :
    Depth(p) > 1 /\ stack[p][2].forever ~> Depth(p) = 1 \/ Unrecognizable

=============================================================================
