-------------------------- MODULE QLockFile_proofs --------------------------
(***************************************************************************)
(* TLAPS proofs about the lock files, for any number of processes, levels  *)
(* and crashes, as long as no process is held up for longer than the       *)
(* staleLockTime (~Slow).  The argument: a file that looks stale is an     *)
(* orphan, one that a crash has left behind; whoever removes an orphan     *)
(* holds the rmlock, and nobody else touches its name meanwhile; and there *)
(* are never more orphans to climb over than there were crashes.           *)
(***************************************************************************)
EXTENDS QLockFile, FiniteSets, FiniteSetTheorems, SequenceTheorems, TLAPS

ClientPcs == {"out", "in", "close", "done", "dead"}
TryPcs    == {"try", "check", "flock", "write", "full", "recheck", "open", "flockStale",
              "unlinkStale", "closeStale", "unlock", "close", "sleep"}
Reading   == {"flockStale", "unlinkStale", "closeStale"}
InLock    == {"in", "recheck", "open", "flockStale", "unlinkStale", "closeStale", "unlock"}
Frames    == [pc : ClientPcs \cup TryPcs \cup {"locking", "rmlock"}, fd : Inodes \cup {None},
              removed : BOOLEAN, forever : BOOLEAN]

\* A stack of calls: only the innermost one is at work and has a descriptor.
IsStack(s) ==
  /\ s \in Seq(Frames) /\ Len(s) >= 1
  /\ \A k \in 1..Len(s) - 1 : s[k].fd = None /\ s[k].pc = IF k = 1 THEN "locking" ELSE "rmlock"
  /\ s[Len(s)].pc \in IF Len(s) = 1 THEN ClientPcs ELSE TryPcs
  /\ s[Len(s)].fd # None <=> s[Len(s)].pc \in Reading

Files     == [pid : Procs \cup {None}, written : BOOLEAN, flock : Procs \cup {None},
              old : BOOLEAN]

Types ==
  /\ stale \in BOOLEAN /\ alive \subseteq Procs
  /\ entry \in [Names -> Inodes \cup {None}]
  /\ inode \in [Inodes -> Files]
  /\ own \in [Procs -> [Names -> Inodes \cup {None}]]
  /\ crashes \in 0..MaxCrashes /\ full \in 0..MaxFull
  /\ stack \in [Procs -> Seq(Frames)]

\* There is a level for the file that a call uses.
Stacks ==
  \A p \in Procs : /\ IsStack(stack[p]) /\ Depth(p) <= Levels + 1
                   /\ Top(p).pc \in InLock \cup {"close"} => Depth(p) <= Levels
                   /\ p \notin alive <=> Top(p).pc = "dead"

\* The innermost call of p has created, and still has open, the file of level n.
Opened(p, n) ==
  \/ n = Uses(p) /\ Top(p).pc \in InLock \cup {"close"}
  \/ n = Tries(p) /\ Top(p).pc \in {"flock", "write"}

Descriptors == \A p \in Procs, n \in Names : own[p][n] # None <=> Opened(p, n)

\* p could not write the file that has the name of level n and is about to remove it.
Full(p, n) == p \in alive /\ Top(p).pc = "full" /\ n = Tries(p)

\* Every file has one name and one owner.
OneName  == \A n, m \in Names : entry[n] # None /\ entry[n] = entry[m] => n = m
OneOwner == \A p, q \in Procs : \A n, m \in Names :
              own[p][n] # None /\ own[p][n] = own[q][m] => p = q /\ n = m

\* The owner's name for it is there until the owner unlinks it.
NamedWhileOpen ==
  /\ \A p \in Procs, n \in Names :
       own[p][n] # None /\ Top(p).pc # "close" => own[p][n] = entry[n]
  /\ \A p \in Procs, n, m \in Names :
       own[p][n] # None /\ Top(p).pc = "close" => own[p][n] # entry[m]
  /\ \A p \in Procs, n \in Names : Full(p, n) =>
       /\ entry[n] # None
       /\ \A q \in Procs, m \in Names : own[q][m] # entry[n] /\ (Full(q, n) => q = p)

\* The owner is what the file says.
Stamped ==
  \A p \in Procs, n \in Names : \A i \in Inodes :
    own[p][n] = i \/ (Full(p, n) /\ entry[n] = i) => inode[i].pid = p /\ ~inode[i].old

UnusedBlank == \A i \in Inodes : InUse(i) \/ inode[i] = Blank

Owners == OneName /\ OneOwner /\ NamedWhileOpen /\ Stamped /\ UnusedBlank

\* A file left behind.
Orphan(n) == entry[n] # None /\ ~Owned(entry[n])

\* Who is about to remove a stale file removes an orphan.
Removers == \A p \in Procs : Top(p).pc \in {"open", "flockStale", "unlinkStale"} => Orphan(Tries(p))

\* The levels at which somebody has met a file left behind, or will.
Climbed == {n \in Names : Orphan(n) \/ \E p \in Procs : Depth(p) > n + 2}

IInv == Types /\ Stacks /\ Descriptors /\ Owners /\ Removers /\ Cardinality(Climbed) <= crashes

-----------------------------------------------------------------------------
(* Stacks                                                                  *)

LEMMA StackReplaced ==
  ASSUME NEW s, IsStack(s), NEW frame \in Frames,
         frame.pc \in (IF Len(s) = 1 THEN ClientPcs ELSE TryPcs),
         frame.fd # None <=> frame.pc \in Reading
  PROVE  LET r == [s EXCEPT ![Len(s)] = frame]
         IN  IsStack(r) /\ Len(r) = Len(s) /\ r[Len(s)] = frame
  BY ExceptSeq DEF IsStack

LEMMA StackGrown ==
  ASSUME NEW s, IsStack(s), NEW forever \in BOOLEAN, s[Len(s)].fd = None,
         NEW pc, pc = IF Len(s) = 1 THEN "locking" ELSE "rmlock"
  PROVE  LET r == Append([s EXCEPT ![Len(s)].pc = pc], [Frame("try") EXCEPT !.forever = forever])
         IN  /\ IsStack(r) /\ Len(r) = Len(s) + 1
             /\ r[Len(r)].pc = "try" /\ r[Len(r)].fd = None
<1> DEFINE f == [s[Len(s)] EXCEPT !.pc = pc]
           g == [Frame("try") EXCEPT !.forever = forever]
           b == [s EXCEPT ![Len(s)] = f]
<1>0. s \in Seq(Frames) /\ Len(s) \in Nat \ {0} /\ s[Len(s)] \in Frames
  BY ElementOfSeq, LenProperties DEF IsStack
<1>1. f \in Frames /\ f.fd = None /\ f.pc = pc
  BY <1>0 DEF Frames
<1>2. g \in Frames /\ g.pc = "try" /\ g.fd = None
  BY DEF Frames, Frame, TryPcs, None
<1>3. [s EXCEPT ![Len(s)].pc = pc] = b
  OBVIOUS
<1> HIDE DEF f, g
<1>4. /\ b \in Seq(Frames) /\ Len(b) = Len(s)
      /\ \A k \in 1..Len(s) : b[k] = IF k = Len(s) THEN f ELSE s[k]
  BY <1>0, <1>1, ExceptSeq
<1> HIDE DEF b
<1> DEFINE r == Append(b, g)
<1>5. /\ r \in Seq(Frames) /\ Len(r) = Len(s) + 1
      /\ \A k \in 1..Len(s) : r[k] = b[k]
      /\ r[Len(r)] = g
  BY <1>0, <1>2, <1>4, AppendProperties
<1> HIDE DEF r
<1>6. ASSUME NEW k \in 1..Len(r) - 1
      PROVE  r[k].fd = None /\ r[k].pc = IF k = 1 THEN "locking" ELSE "rmlock"
  <2>1. CASE k = Len(s)
    BY <2>1, <1>0, <1>1, <1>4, <1>5
  <2>2. CASE k # Len(s)
    <3>1. k \in 1..Len(s) - 1 /\ r[k] = s[k]
      BY <2>2, <1>0, <1>4, <1>5
    <3> QED
      BY <3>1 DEF IsStack
  <2> QED
    BY <2>1, <2>2
<1>7. IsStack(r)
  BY <1>0, <1>2, <1>5, <1>6 DEF IsStack, TryPcs, Reading
<1> QED
  BY <1>2, <1>3, <1>5, <1>7 DEF r, g

LEMMA StackShrunk ==
  ASSUME NEW s, IsStack(s), Len(s) > 1, NEW pc,
         pc \in (IF Len(s) = 2 THEN ClientPcs ELSE TryPcs \ Reading), pc \notin Reading
  PROVE  LET i == Len(s) - 1
             r == [SubSeq(s, 1, i) EXCEPT ![i].pc = pc]
         IN  IsStack(r) /\ Len(r) = i /\ r[i].pc = pc /\ r[i].fd = None
<1> DEFINE i == Len(s) - 1
           b == SubSeq(s, 1, i)
           f == [s[i] EXCEPT !.pc = pc]
<1>1. i \in Nat /\ i >= 1 /\ i \in 1..Len(s) /\ s \in Seq(Frames) /\ s[i].fd = None
  BY DEF IsStack
<1>2. \A k \in 1..i : s[k] \in Frames
  BY <1>1
<1>3. b \in Seq(Frames) /\ Len(b) = i /\ \A k \in 1..i : b[k] = s[k]
  BY <1>1, <1>2, SubSeqProperties
<1>4. f \in Frames /\ f.fd = None /\ f.pc = pc
  <2>1. pc \in ClientPcs \cup TryPcs
    OBVIOUS
  <2> QED
    BY <2>1, <1>1, <1>2 DEF Frames
<1>5. [b EXCEPT ![i].pc = pc] = [b EXCEPT ![i] = f]
  BY <1>1, <1>3
<1> HIDE DEF b, f
<1> DEFINE r == [b EXCEPT ![i] = f]
<1>6. /\ r \in Seq(Frames) /\ Len(r) = i
      /\ \A k \in 1..i : r[k] = IF k = i THEN f ELSE s[k]
  BY <1>1, <1>3, <1>4, ExceptSeq
<1> HIDE DEF r
<1>7. IsStack(r)
  <2>1. \A k \in 1..i - 1 : r[k] = s[k] /\ k \in 1..Len(s) - 1
    BY <1>1, <1>6
  <2>2. r[i].pc = pc /\ r[i].fd = None
    BY <1>1, <1>4, <1>6
  <2> QED
    BY <1>1, <1>6, <2>1, <2>2 DEF IsStack
<1> QED
  BY <1>1, <1>4, <1>5, <1>6, <1>7 DEF b, r

\* What a step of p does to the stacks, as the invariant sees it.
Moved(p, d, pc, fd) ==
  /\ stack' \in [Procs -> Seq(Frames)]
  /\ \A q \in Procs \ {p} : stack'[q] = stack[q]
  /\ IsStack(stack'[p]) /\ Len(stack'[p]) = d
  /\ stack'[p][d].pc = pc /\ stack'[p][d].fd = fd

LEMMA WithMoves ==
  ASSUME Types, Stacks, NEW p \in Procs, NEW frame \in Frames, With(p, frame),
         frame.pc \in (IF Depth(p) = 1 THEN ClientPcs ELSE TryPcs),
         frame.fd # None <=> frame.pc \in Reading
  PROVE  Moved(p, Depth(p), frame.pc, frame.fd)
<1>1. IsStack(stack[p])
  BY DEF Stacks
<1>2. stack' = [stack EXCEPT ![p] = [stack[p] EXCEPT ![Len(stack[p])] = frame]]
  BY DEF With, Depth
<1> QED
  BY <1>1, <1>2, StackReplaced DEF Moved, Types, Depth, IsStack

LEMMA GotoMoves ==
  ASSUME Types, Stacks, NEW p \in Procs, NEW pc, Goto(p, pc),
         pc \in (IF Depth(p) = 1 THEN ClientPcs ELSE TryPcs),
         Top(p).pc \in Reading <=> pc \in Reading
  PROVE  Moved(p, Depth(p), pc, Top(p).fd)
<1>1. Top(p) \in Frames /\ (Top(p).fd # None <=> Top(p).pc \in Reading)
  BY DEF Stacks, IsStack, Top, Depth
<1>2. [Top(p) EXCEPT !.pc = pc] \in Frames
  BY <1>1 DEF Frames
<1> QED
  BY <1>1, <1>2, WithMoves DEF Goto, Frames

LEMMA CallMoves ==
  ASSUME Types, Stacks, NEW p \in Procs, NEW forever \in BOOLEAN, NEW pc,
         pc = IF Depth(p) = 1 THEN "locking" ELSE "rmlock",
         Top(p).pc \notin Reading, Call(p, pc, forever)
  PROVE  Moved(p, Depth(p) + 1, "try", None)
<1>1. IsStack(stack[p]) /\ stack[p][Len(stack[p])].fd = None
  BY DEF Stacks, IsStack, Top, Depth
<1>2. stack' = [stack EXCEPT ![p] =
                  Append([stack[p] EXCEPT ![Len(stack[p])].pc = pc],
                         [Frame("try") EXCEPT !.forever = forever])]
  BY DEF Call
<1> DEFINE r == Append([stack[p] EXCEPT ![Len(stack[p])].pc = pc],
                      [Frame("try") EXCEPT !.forever = forever])
<1>3. IsStack(r) /\ Len(r) = Len(stack[p]) + 1 /\ r[Len(r)].pc = "try" /\ r[Len(r)].fd = None
  BY <1>1, StackGrown DEF Depth
<1>4. stack' = [stack EXCEPT ![p] = r]
  BY <1>2
<1> HIDE DEF r
<1> QED
  BY <1>3, <1>4 DEF Moved, Types, Depth, IsStack

\* Where tryLock() leaves its caller.
Caller(d, locked) ==
  IF d = 1 THEN IF locked THEN "in" ELSE "done" ELSE IF locked THEN "recheck" ELSE "sleep"

LEMMA ReturnMoves ==
  ASSUME Types, Stacks, NEW p \in Procs, Depth(p) > 1, NEW locked \in BOOLEAN, Return(p, locked)
  PROVE  Moved(p, Depth(p) - 1, Caller(Depth(p) - 1, locked), None)
<1> DEFINE i == Depth(p) - 1
<1>1. IsStack(stack[p]) /\ Depth(p) \in Nat
  BY DEF Stacks, IsStack, Depth
<1>2. stack' = [stack EXCEPT ![p] = [SubSeq(stack[p], 1, i) EXCEPT ![i].pc = Caller(i, locked)]]
  BY DEF Return, Caller
<1>3. Caller(i, locked) \in (IF Depth(p) = 2 THEN ClientPcs ELSE TryPcs \ Reading)
      /\ Caller(i, locked) \notin Reading
  BY <1>1 DEF Caller, ClientPcs, TryPcs, Reading
<1> DEFINE r == [SubSeq(stack[p], 1, i) EXCEPT ![i].pc = Caller(i, locked)]
<1>4. IsStack(r) /\ Len(r) = i /\ r[i].pc = Caller(i, locked) /\ r[i].fd = None
  BY <1>1, <1>3, StackShrunk DEF Depth
<1>5. stack' = [stack EXCEPT ![p] = r]
  BY <1>2
<1> HIDE DEF r
<1> QED
  BY <1>4, <1>5 DEF Moved, Types, IsStack

-----------------------------------------------------------------------------
(* What the invariant says of each process                                 *)

LEMMA InnermostHasDescriptor ==
  ASSUME NEW s, IsStack(s), NEW k \in 1..Len(s), s[k].fd # None
  PROVE  k = Len(s)
<1>1. Len(s) \in Nat
  BY DEF IsStack
<1> QED
  BY <1>1 DEF IsStack

LEMMA Places ==
  ASSUME Types, Stacks, NEW p \in Procs
  PROVE  /\ Depth(p) \in 1..Levels + 1 /\ Top(p) \in Frames
         /\ Uses(p) \in 0..Levels /\ Tries(p) = Uses(p) - 1
         /\ Depth(p) = 1 => Top(p).pc \in ClientPcs
         /\ Depth(p) # 1 => Top(p).pc \in TryPcs /\ Tries(p) \in Names
         /\ Top(p).fd \in Inodes \cup {None}
         /\ Top(p).fd # None <=> Top(p).pc \in Reading
<1>1. Depth(p) \in Nat /\ Depth(p) >= 1 /\ Depth(p) <= Levels + 1 /\ Top(p) \in Frames
  BY LockFileAssumption DEF Stacks, IsStack, Depth, Top
<1>2. Uses(p) = Depth(p) - 1 /\ Tries(p) = Depth(p) - 2 /\ Levels \in Nat
  BY LockFileAssumption DEF Uses, Tries
<1>3. /\ Depth(p) = 1 => Top(p).pc \in ClientPcs
      /\ Depth(p) # 1 => Top(p).pc \in TryPcs
      /\ Top(p).fd # None <=> Top(p).pc \in Reading
  BY DEF Stacks, IsStack, Depth, Top
<1> QED
  BY <1>1, <1>2, <1>3 DEF Names, Frames

LEMMA Places2 ==
  ASSUME NEW p \in Procs, NEW d, NEW pc, NEW fd, Moved(p, d, pc, fd), Types, Stacks
  PROVE  /\ Depth(p)' = d /\ Top(p)'.pc = pc /\ Top(p)'.fd = fd
         /\ Uses(p)' = d - 1 /\ Tries(p)' = d - 2
         /\ \A q \in Procs \ {p} : /\ Depth(q)' = Depth(q) /\ Top(q)' = Top(q)
                                   /\ Uses(q)' = Uses(q) /\ Tries(q)' = Tries(q)
  BY DEF Moved, Depth, Top, Uses, Tries

\* A file stays in use if its names, its owners and its readers stay.
LEMMA UseKept ==
  ASSUME Types, Stacks, NEW p \in Procs, NEW d, NEW pc, NEW fd, Moved(p, d, pc, fd),
         Top(p).fd # None => fd = Top(p).fd, NEW i \in Inodes,
         \A n \in Names : entry[n] = i => entry'[n] = i,
         \A q \in Procs, n \in Names : own[q][n] = i => own'[q][n] = i,
         InUse(i)
  PROVE  InUse(i)'
<1>1. CASE \E n \in Names : entry[n] = i
  BY <1>1 DEF InUse
<1>2. CASE \E q \in Procs, n \in Names : own[q][n] = i
  BY <1>2 DEF InUse
<1>3. ASSUME NEW q \in Procs, NEW k \in 1..Len(stack[q]), stack[q][k].fd = i
      PROVE  InUse(i)'
  <2>1. k = Len(stack[q]) /\ Top(q).fd = i /\ i # None
    BY <1>3, InnermostHasDescriptor, LockFileAssumption DEF Stacks, Top, Depth, None
  <2>2. Len(stack'[q]) \in Nat \ {0} /\ stack'[q][Len(stack'[q])].fd = i
    <3>1. CASE q = p
      BY <2>1, <3>1 DEF Moved, IsStack
    <3>2. CASE q # p
      BY <2>1, <3>2 DEF Moved, Top, Depth, Stacks, IsStack
    <3> QED
      BY <3>1, <3>2
  <2> QED
    BY <2>2 DEF InUse
<1> QED
  BY <1>1, <1>2, <1>3 DEF InUse

\* What looks stale has been left behind.
LEMMA StaleIsOrphan ==
  ASSUME IInv, NEW n \in Names, IsApparentlyStale(n)
  PROVE  Orphan(n)
<1>1. entry[n] \in Inodes
  BY DEF IInv, Types, IsApparentlyStale
<1> SUFFICES ASSUME NEW p \in alive,
                    \/ \E m \in Names : own[p][m] = entry[n]
                    \/ Top(p).pc = "full" /\ entry[Tries(p)] = entry[n]
             PROVE  FALSE
  BY DEF Orphan, Owned, IsApparentlyStale
<1>2. p \in Procs /\ (Top(p).pc = "full" => Tries(p) \in Names)
  BY Places DEF IInv, Types, ClientPcs
<1>3. inode[entry[n]].pid = p /\ ~inode[entry[n]].old
  BY <1>1, <1>2 DEF IInv, Owners, Stamped, Full
<1> QED
  BY <1>3 DEF IsApparentlyStale

LEMMA NamesFinite == IsFiniteSet(Climbed) /\ Cardinality(Climbed) \in Nat
<1>1. IsFiniteSet(Names)
  BY LockFileAssumption, FS_Interval DEF Names
<1>2. Climbed \in SUBSET Names
  BY DEF Climbed
<1> QED
  BY <1>1, <1>2, FS_Subset, FS_CardinalityType

\* There is a level more above a file left behind.
LEMMA Room ==
  ASSUME IInv, NEW p \in Procs, Depth(p) > 1, Orphan(Tries(p))
  PROVE  Depth(p) <= Levels
<1>1. Tries(p) \in Names /\ Depth(p) \in Nat /\ Tries(p) = Depth(p) - 2
  BY Places DEF IInv, Tries
<1>2. ASSUME NEW n \in 0..Tries(p) PROVE n \in Climbed
  <2>1. n \in Names /\ (n = Tries(p) \/ Depth(p) > n + 2)
    BY <1>1, LockFileAssumption DEF Names
  <2> QED
    BY <2>1 DEF Climbed
<1>3. Cardinality(0..Tries(p)) = Tries(p) + 1
  BY <1>1, FS_Interval DEF Names
<1>4. Tries(p) + 1 <= Cardinality(Climbed)
  BY <1>2, <1>3, NamesFinite, FS_Subset
<1> QED
  BY <1>1, <1>4, NamesFinite, LockFileAssumption DEF IInv, Types, Names

LEMMA FewClimbed ==
  ASSUME IInv, Climbed' \subseteq Climbed, crashes' = crashes
  PROVE  Cardinality(Climbed') <= crashes'
<1>1. Cardinality(Climbed') <= Cardinality(Climbed) /\ Cardinality(Climbed') \in Nat
  BY NamesFinite, FS_Subset, FS_CardinalityType
<1> QED
  BY <1>1, NamesFinite DEF IInv, Types

-----------------------------------------------------------------------------
(* The steps that leave names and owners alone                             *)

\* The inodes keep what the invariant reads in them.
InodesKept ==
  /\ inode' \in [Inodes -> Files]
  /\ \A i \in Inodes :
       /\ InUse(i)' \/ inode'[i] = Blank
       /\ InUse(i)' => inode'[i].pid = inode[i].pid /\ (inode'[i].old => inode[i].old)

LEMMA Quiet ==
  ASSUME IInv, NEW p \in alive, NEW d \in Nat, NEW pc, NEW fd, Moved(p, d, pc, fd),
         UNCHANGED <<stale, entry, own, alive, counts>>, InodesKept, d <= Levels + 1,
         \A n \in Names : Opened(p, n)' <=> Opened(p, n),
         Top(p).pc \notin {"full", "close"}, pc \notin {"full", "close", "dead"},
         pc \in InLock => d <= Levels,
         \A n \in Names : d > n + 2 => Depth(p) > n + 2 \/ Orphan(n),
         pc \in {"open", "flockStale", "unlinkStale"} => d - 2 \in Names /\ Orphan(d - 2)
  PROVE  IInv'
<1> p \in Procs
  BY DEF IInv, Types
<1>1. Types'
  BY DEF IInv, Types, Moved, InodesKept, counts
<1>2. /\ Depth(p)' = d /\ Top(p)'.pc = pc /\ Tries(p)' = d - 2
      /\ \A q \in Procs \ {p} : /\ Depth(q)' = Depth(q) /\ Top(q)' = Top(q)
                                /\ Uses(q)' = Uses(q) /\ Tries(q)' = Tries(q)
  BY Places2 DEF IInv
<1>3. Stacks'
  <2>1. ASSUME NEW q \in Procs
        PROVE  /\ IsStack(stack'[q]) /\ Depth(q)' <= Levels + 1
               /\ Top(q)'.pc \in InLock \cup {"close"} => Depth(q)' <= Levels
               /\ q \notin alive' <=> Top(q)'.pc = "dead"
    BY <1>2 DEF IInv, Stacks, Moved
  <2> QED
    BY <2>1 DEF Stacks
<1>4. \A q \in Procs, n \in Names : Full(q, n)' <=> Full(q, n)
  BY <1>2 DEF Full
<1>5. \A n \in Names : Orphan(n)' <=> Orphan(n)
  <2>1. \A q \in alive : q \in Procs
    BY DEF IInv, Types
  <2> QED
    BY <1>2, <2>1 DEF Orphan, Owned
<1>6. Descriptors'
  BY <1>2 DEF IInv, Descriptors, Opened
<1>7. NamedWhileOpen'
  BY <1>2, <1>4 DEF IInv, Owners, NamedWhileOpen
<1>8. Stamped'
  <2>1. ASSUME NEW q \in Procs, NEW n \in Names, NEW i \in Inodes,
               own[q][n] = i \/ (Full(q, n) /\ entry[n] = i)
        PROVE  inode'[i].pid = q /\ ~inode'[i].old
    <3>1. InUse(i)'
      BY <2>1 DEF InUse
    <3> QED
      BY <2>1, <3>1 DEF InodesKept, IInv, Owners, Stamped
  <2> QED
    BY <1>4, <2>1 DEF Stamped
<1>9. OneName' /\ OneOwner' /\ UnusedBlank'
  BY DEF IInv, Owners, OneName, OneOwner, UnusedBlank, InodesKept
<1>10. Removers'
  <2>1. ASSUME NEW q \in Procs \ {p}, Top(q).pc \in {"open", "flockStale", "unlinkStale"}
        PROVE  Orphan(Tries(q))'
    <3>1. Tries(q) \in Names /\ Tries(q)' = Tries(q)
      BY <1>2, <2>1, Places DEF IInv, ClientPcs
    <3> QED
      BY <2>1, <3>1, <1>5 DEF IInv, Removers, Orphan, Owned
  <2>2. pc \in {"open", "flockStale", "unlinkStale"} => Orphan(Tries(p))'
    BY <1>2, <1>5 DEF Orphan
  <2> QED
    BY <1>2, <2>1, <2>2 DEF Removers
<1>11. Climbed' \subseteq Climbed
  BY <1>2, <1>5 DEF Climbed
<1>12. Cardinality(Climbed') <= crashes'
  BY <1>11, FewClimbed DEF counts
<1> QED
  BY <1>1, <1>3, <1>6, <1>7, <1>8, <1>9, <1>10, <1>12 DEF IInv, Owners

LEMMA SameInodes ==
  ASSUME IInv, NEW p \in Procs, NEW d, NEW pc, NEW fd, Moved(p, d, pc, fd),
         Top(p).fd # None => fd = Top(p).fd, UNCHANGED <<entry, own>>,
         inode' \in [Inodes -> Files],
         \A i \in Inodes :
           /\ inode'[i].pid = inode[i].pid /\ (inode'[i].old => inode[i].old)
           /\ inode'[i] # inode[i] => InUse(i)
  PROVE  InodesKept
<1> SUFFICES ASSUME NEW i \in Inodes PROVE InUse(i)' \/ inode'[i] = Blank
  BY DEF InodesKept
<1>1. InUse(i) => InUse(i)'
  BY UseKept DEF IInv
<1> QED
  BY <1>1 DEF IInv, Owners, UnusedBlank

LEMMA OneInode ==
  ASSUME IInv, NEW p \in Procs, NEW d, NEW pc, NEW fd, Moved(p, d, pc, fd),
         Top(p).fd # None => fd = Top(p).fd, UNCHANGED <<entry, own>>,
         NEW i \in Inodes, InUse(i), NEW file \in Files,
         file.pid = inode[i].pid, file.old => inode[i].old,
         inode' = [inode EXCEPT ![i] = file]
  PROVE  InodesKept
<1>1. inode \in [Inodes -> Files]
  BY DEF IInv, Types
<1>2. inode' \in [Inodes -> Files]
  BY <1>1
<1>3. ASSUME NEW j \in Inodes
      PROVE  /\ inode'[j].pid = inode[j].pid /\ (inode'[j].old => inode[j].old)
             /\ inode'[j] # inode[j] => InUse(j)
  BY <1>1
<1> QED
  BY <1>2, <1>3, SameInodes

LEMMA KeptInodes ==
  ASSUME IInv, NEW files, Keep(files),
         files \in [Inodes -> Files],
         \A i \in Inodes : files[i].pid = inode[i].pid /\ (files[i].old => inode[i].old)
  PROVE  InodesKept
<1>1. Blank \in Files
  BY DEF Blank, Files
<1>2. inode' = [i \in Inodes |-> IF InUse(i)' THEN files[i] ELSE Blank]
  BY DEF Keep
<1> QED
  BY <1>1, <1>2 DEF InodesKept

LEMMA AliveInProcs == IInv => alive \subseteq Procs
  BY DEF IInv, Types

LEMMA FlockKeeps == ASSUME IInv, NEW p \in Procs, Flock(p) PROVE IInv'
<1> DEFINE i == own[p][Tries(p)]
<1>1. p \in alive /\ Top(p).pc = "flock" /\ Depth(p) \in 2..Levels + 1 /\ Tries(p) \in Names
      /\ Depth(p) # 1
  BY Places DEF Flock, At, IInv, ClientPcs
<1>2. Moved(p, Depth(p), "write", Top(p).fd)
  BY <1>1, GotoMoves DEF Flock, IInv, TryPcs, Reading
<1>3. InodesKept
  <2>1. i \in Inodes /\ InUse(i)
    BY <1>1 DEF IInv, Types, Descriptors, Opened, InUse
  <2> DEFINE file == [inode[i] EXCEPT !.flock = IF @ = None THEN p ELSE @]
  <2>2. file \in Files /\ file.pid = inode[i].pid /\ file.old = inode[i].old
    BY <2>1 DEF IInv, Types, Files
  <2>3. inode' = [inode EXCEPT ![i] = file]
    BY DEF Flock
  <2>4. UNCHANGED <<entry, own>>
    BY DEF Flock
  <2> HIDE DEF i, file
  <2> QED
    BY <1>2, <2>1, <2>2, <2>3, <2>4, OneInode
<1>4. \A n \in Names : Opened(p, n)' <=> Opened(p, n)
  BY <1>1, <1>2, Places2 DEF Opened, InLock, IInv, Tries
<1> QED
  BY <1>1, <1>2, <1>3, <1>4, Quiet DEF Flock, InLock

LEMMA WriteKeeps == ASSUME IInv, NEW p \in Procs, Write(p) PROVE IInv'
<1> DEFINE i  == own[p][Tries(p)]
           pc == Caller(Depth(p) - 1, TRUE)
<1>1. p \in alive /\ Top(p).pc = "write" /\ Depth(p) \in 2..Levels + 1 /\ Tries(p) \in Names
      /\ Depth(p) > 1 /\ Top(p).fd = None
  BY Places DEF Write, At, IInv, ClientPcs, Reading
<1>2. Moved(p, Depth(p) - 1, pc, None)
  BY <1>1, ReturnMoves DEF Write, IInv
<1>3. InodesKept
  <2>1. i \in Inodes /\ InUse(i)
    BY <1>1 DEF IInv, Types, Descriptors, Opened, InUse
  <2> DEFINE file == [inode[i] EXCEPT !.written = TRUE, !.old = FALSE]
  <2>2. file \in Files /\ file.pid = inode[i].pid /\ ~file.old
    BY <2>1 DEF IInv, Types, Files
  <2>3. inode' = [inode EXCEPT ![i] = file]
    BY <2>1 DEF Write, IInv, Types
  <2>4. UNCHANGED <<entry, own>>
    BY DEF Write
  <2> HIDE DEF i, file
  <2> QED
    BY <1>1, <1>2, <2>1, <2>2, <2>3, <2>4, OneInode
<1>4. \A n \in Names : Opened(p, n)' <=> Opened(p, n)
  BY <1>1, <1>2, Places2 DEF Opened, InLock, IInv, Tries, Uses, Caller
<1>5. pc \in {"in", "recheck"}
  BY DEF Caller
<1>6. Depth(p) - 1 \in Nat /\ Depth(p) - 1 <= Levels /\ Depth(p) - 1 <= Levels + 1
      /\ \A n \in Names : Depth(p) - 1 > n + 2 => Depth(p) > n + 2
  BY <1>1, LockFileAssumption DEF Names
<1> HIDE DEF pc
<1> QED
  BY <1>1, <1>2, <1>3, <1>4, <1>5, <1>6, Quiet DEF Write

LEMMA CheckKeeps == ASSUME IInv, NEW p \in Procs, Check(p) PROVE IInv'
<1>1. p \in alive /\ Top(p).pc = "check" /\ Depth(p) \in 2..Levels + 1 /\ Tries(p) \in Names
      /\ Depth(p) # 1 /\ Tries(p) = Depth(p) - 2 /\ Top(p).fd = None
  BY Places DEF Check, At, IInv, ClientPcs, Reading, Uses
<1>2. CASE IsApparentlyStale(Tries(p))
  <2>1. Orphan(Tries(p)) /\ Depth(p) <= Levels
    BY <1>1, <1>2, StaleIsOrphan, Room
  <2>2. Moved(p, Depth(p) + 1, "try", None)
    BY <1>1, <1>2, CallMoves DEF Check, IInv, Reading
  <2>3. InodesKept
    BY <1>1, <2>2, SameInodes DEF Check, IInv, Types
  <2>4. \A n \in Names : Opened(p, n)' <=> Opened(p, n)
    BY <1>1, <2>2, Places2 DEF Opened, InLock, IInv
  <2>5. \A n \in Names : Depth(p) + 1 > n + 2 => Depth(p) > n + 2 \/ Orphan(n)
    BY <1>1, <2>1 DEF Names
  <2> QED
    BY <1>1, <2>1, <2>2, <2>3, <2>4, <2>5, LockFileAssumption, Quiet DEF Check, InLock
<1>3. CASE ~IsApparentlyStale(Tries(p))
  <2>1. Moved(p, Depth(p), "sleep", None)
    BY <1>1, <1>3, GotoMoves DEF Check, IInv, TryPcs, Reading
  <2>2. InodesKept
    BY <1>1, <2>1, SameInodes DEF Check, IInv, Types
  <2>3. \A n \in Names : Opened(p, n)' <=> Opened(p, n)
    BY <1>1, <2>1, Places2 DEF Opened, InLock, IInv
  <2> QED
    BY <1>1, <2>1, <2>2, <2>3, Quiet DEF Check, InLock
<1> QED
  BY <1>2, <1>3

\* A step that leaves the files alone and moves p within its innermost call.
LEMMA GotoKeeps ==
  ASSUME IInv, NEW p \in alive, Depth(p) > 1, NEW pc \in TryPcs, NEW fd,
         Moved(p, Depth(p), pc, fd), InodesKept,
         UNCHANGED <<stale, entry, own, alive, counts>>,
         Top(p).pc \in InLock <=> pc \in InLock,
         Top(p).pc \notin {"flock", "write", "full", "close"},
         pc \notin {"flock", "write", "full", "close"},
         pc \in {"open", "flockStale", "unlinkStale"} => Orphan(Tries(p))
  PROVE  IInv'
<1>1. p \in Procs /\ Depth(p) \in Nat /\ Depth(p) <= Levels + 1 /\ Tries(p) \in Names
      /\ Tries(p) = Depth(p) - 2
  BY AliveInProcs, Places, LockFileAssumption DEF IInv, Uses
<1>2. \A n \in Names : Opened(p, n)' <=> Opened(p, n)
  <2>1. Top(p)'.pc = pc /\ Uses(p)' = Uses(p) /\ Tries(p)' = Tries(p)
    BY <1>1, Places2 DEF IInv, Uses, Tries
  <2>2. \A n \in Names : Opened(p, n) <=> n = Uses(p) /\ Top(p).pc \in InLock
    BY DEF Opened
  <2>3. \A n \in Names : Opened(p, n)' <=> n = Uses(p) /\ pc \in InLock
    BY <2>1 DEF Opened
  <2> QED
    BY <2>2, <2>3
<1>3. pc # "dead"
  BY DEF TryPcs
<1>4. pc \in InLock => Depth(p) <= Levels
  BY <1>1 DEF IInv, Stacks
<1> QED
  BY <1>1, <1>2, <1>3, <1>4, Quiet

\* A call returns without the lock, to its client or to the call that needs it.
LEMMA ReturnKeeps ==
  ASSUME IInv, NEW p \in alive, Depth(p) > 1, Top(p).pc = "sleep", Return(p, FALSE),
         UNCHANGED <<stale, entry, inode, own, alive, counts>>
  PROVE  IInv'
<1> DEFINE d  == Depth(p) - 1
           pc == Caller(d, FALSE)
<1>1. p \in Procs /\ Depth(p) \in 2..Levels + 1 /\ Top(p).fd = None
  BY AliveInProcs, Places DEF IInv, Reading
<1>2. Moved(p, d, pc, None)
  BY <1>1, ReturnMoves DEF IInv
<1>3. InodesKept
  BY <1>1, <1>2, SameInodes DEF IInv, Types
<1>4. pc \in {"done", "sleep"}
  BY DEF Caller
<1>5. \A n \in Names : Opened(p, n)' <=> Opened(p, n)
  BY <1>1, <1>2, <1>4, Places2 DEF Opened, InLock, IInv
<1>6. d \in Nat /\ d <= Levels + 1 /\ \A n \in Names : d > n + 2 => Depth(p) > n + 2
  BY <1>1, LockFileAssumption DEF Names
<1> HIDE DEF d, pc
<1> QED
  BY <1>2, <1>3, <1>4, <1>5, <1>6, Quiet DEF InLock

LEMMA LookKeeps ==
  ASSUME IInv, NEW p \in Procs, Recheck(p) \/ OpenStale(p)
  PROVE  IInv'
<1>1. p \in alive /\ Top(p).pc \in {"recheck", "open"} /\ Depth(p) > 1 /\ Tries(p) \in Names
      /\ Depth(p) # 1 /\ Top(p) \in Frames /\ Top(p).fd = None
  BY Places DEF Recheck, OpenStale, At, IInv, ClientPcs, Reading
<1>2. UNCHANGED <<stale, entry, inode, own, alive, counts>>
  BY DEF Recheck, OpenStale
<1>3. ASSUME NEW pc \in {"open", "unlock"}, Goto(p, pc),
             pc = "open" => Orphan(Tries(p))
      PROVE  IInv'
  <2>1. Moved(p, Depth(p), pc, None)
    BY <1>1, <1>3, GotoMoves DEF IInv, TryPcs, Reading
  <2>2. InodesKept
    BY <1>1, <1>2, <2>1, SameInodes DEF IInv, Types
  <2> QED
    BY <1>1, <1>2, <1>3, <2>1, <2>2, GotoKeeps DEF TryPcs, InLock
<1>4. CASE Recheck(p)
  BY <1>1, <1>3, <1>4, StaleIsOrphan DEF Recheck
<1>5. CASE OpenStale(p) /\ entry[Tries(p)] = None
  BY <1>3, <1>5 DEF OpenStale
<1>6. CASE OpenStale(p) /\ entry[Tries(p)] # None
  <2> DEFINE i     == entry[Tries(p)]
             frame == [Top(p) EXCEPT !.fd = i, !.pc = "flockStale"]
  <2>1. i \in Inodes /\ i # None
    BY <1>1, <1>6 DEF IInv, Types
  <2>2. frame \in Frames /\ frame.pc = "flockStale" /\ frame.fd = i
    BY <1>1, <2>1 DEF Frames, TryPcs
  <2>3. With(p, frame)
    BY <1>6 DEF OpenStale
  <2> HIDE DEF i, frame
  <2>4. Moved(p, Depth(p), "flockStale", i)
    BY <1>1, <2>1, <2>2, <2>3, WithMoves DEF IInv, TryPcs, Reading
  <2>5. InodesKept
    BY <1>1, <1>2, <2>4, SameInodes DEF IInv, Types
  <2>6. Orphan(Tries(p))
    BY <1>6 DEF IInv, Removers, OpenStale, At
  <2> QED
    BY <1>1, <1>2, <2>4, <2>5, <2>6, GotoKeeps DEF TryPcs, InLock
<1> QED
  BY <1>4, <1>5, <1>6

LEMMA FlockStaleKeeps == ASSUME IInv, NEW p \in Procs, FlockStale(p) PROVE IInv'
<1> DEFINE i == Top(p).fd
<1>1. p \in alive /\ Top(p).pc = "flockStale" /\ Depth(p) > 1 /\ Tries(p) \in Names
      /\ Depth(p) # 1 /\ Top(p) \in Frames /\ i \in Inodes /\ Orphan(Tries(p))
  BY Places DEF FlockStale, At, IInv, ClientPcs, Reading, Removers
<1>2. UNCHANGED <<stale, entry, own, alive, counts>>
  BY DEF FlockStale
<1>3. CASE inode[i].flock = None
  <2> DEFINE file == [inode[i] EXCEPT !.flock = p]
  <2>1. file \in Files /\ file.pid = inode[i].pid /\ file.old = inode[i].old
    BY <1>1 DEF IInv, Types, Files
  <2>2. inode' = [inode EXCEPT ![i] = file] /\ Goto(p, "unlinkStale")
    BY <1>3 DEF FlockStale
  <2>3. InUse(i)
    <3>1. Depth(p) \in 1..Len(stack[p])
      BY <1>1, Places DEF IInv, Depth
    <3> QED
      BY <3>1, <1>1 DEF InUse, Top
  <2>4. Moved(p, Depth(p), "unlinkStale", i)
    BY <1>1, <2>2, GotoMoves DEF IInv, TryPcs, Reading
  <2> HIDE DEF file
  <2>5. InodesKept
    BY <1>1, <1>2, <2>1, <2>2, <2>3, <2>4, OneInode
  <2> QED
    BY <1>1, <1>2, <2>4, <2>5, GotoKeeps DEF TryPcs, InLock
<1>4. CASE inode[i].flock # None
  <2> DEFINE frame == [Top(p) EXCEPT !.fd = None, !.pc = "unlock"]
  <2>1. frame \in Frames /\ frame.pc = "unlock" /\ frame.fd = None
    BY <1>1 DEF Frames, TryPcs
  <2>2. With(p, frame) /\ Keep(inode)
    BY <1>4 DEF FlockStale
  <2> HIDE DEF frame
  <2>3. Moved(p, Depth(p), "unlock", None)
    BY <1>1, <2>1, <2>2, WithMoves DEF IInv, TryPcs, Reading
  <2>4. InodesKept
    BY <2>2, KeptInodes DEF IInv, Types
  <2> QED
    BY <1>1, <1>2, <2>3, <2>4, GotoKeeps DEF TryPcs, InLock
<1> QED
  BY <1>3, <1>4

LEMMA CloseStaleKeeps == ASSUME IInv, NEW p \in Procs, CloseStale(p) PROVE IInv'
<1> DEFINE i     == Top(p).fd
           frame == [Top(p) EXCEPT !.fd = None, !.pc = "unlock"]
<1>1. p \in alive /\ Top(p).pc = "closeStale" /\ Depth(p) > 1
      /\ Depth(p) # 1 /\ Top(p) \in Frames /\ i \in Inodes
  BY Places DEF CloseStale, At, IInv, ClientPcs, Reading
<1>2. frame \in Frames /\ frame.pc = "unlock" /\ frame.fd = None
  BY <1>1 DEF Frames, TryPcs
<1>3. With(p, frame) /\ Keep(Unlocked(i)) /\ UNCHANGED <<stale, entry, own, alive, counts>>
  BY DEF CloseStale
<1> HIDE DEF frame
<1>4. Moved(p, Depth(p), "unlock", None)
  BY <1>1, <1>2, <1>3, WithMoves DEF IInv, TryPcs, Reading
<1>5. InodesKept
  <2>1. Unlocked(i) \in [Inodes -> Files]
    BY <1>1 DEF IInv, Types, Unlocked, Files
  <2>2. \A j \in Inodes : /\ Unlocked(i)[j].pid = inode[j].pid
                          /\ Unlocked(i)[j].old = inode[j].old
    BY <1>1 DEF IInv, Types, Unlocked, Files
  <2> QED
    BY <1>3, <2>1, <2>2, KeptInodes
<1> QED
  BY <1>1, <1>3, <1>4, <1>5, GotoKeeps DEF TryPcs, InLock

LEMMA WaitKeeps ==
  ASSUME IInv, NEW p \in Procs, Sleep(p) \/ TimeOut(p)
  PROVE  IInv'
<1>1. p \in alive /\ Top(p).pc = "sleep" /\ Depth(p) > 1 /\ Depth(p) # 1 /\ Top(p).fd = None
  <2>1. p \in alive /\ Top(p).pc = "sleep"
    BY DEF Sleep, TimeOut, At
  <2> QED
    BY <2>1, Places DEF IInv, ClientPcs, Reading
<1>2. UNCHANGED <<stale, entry, inode, own, alive, counts>>
  BY DEF Sleep, TimeOut
<1>3. CASE Goto(p, "try")
  <2>1. Moved(p, Depth(p), "try", None)
    BY <1>1, <1>3, GotoMoves DEF IInv, TryPcs, Reading
  <2>2. InodesKept
    BY <1>1, <1>2, <2>1, SameInodes DEF IInv, Types
  <2> QED
    BY <1>1, <1>2, <2>1, <2>2, GotoKeeps DEF TryPcs, InLock
<1>4. CASE Return(p, FALSE)
  BY <1>1, <1>2, <1>4, ReturnKeeps
<1> QED
  BY <1>3, <1>4 DEF Sleep, TimeOut

LEMMA LockKeeps == ASSUME IInv, NEW p \in Procs, Lock(p) PROVE IInv'
<1>1. PICK forever \in BOOLEAN : Call(p, "locking", forever)
  BY DEF Lock
<1>2. p \in alive /\ Top(p).pc = "out" /\ Depth(p) = 1 /\ Top(p).fd = None
  BY Places DEF Lock, At, IInv, TryPcs, Reading
<1>3. UNCHANGED <<stale, entry, inode, own, alive, counts>>
  BY DEF Lock
<1>4. Moved(p, 2, "try", None)
  BY <1>1, <1>2, CallMoves DEF IInv, Reading
<1>5. InodesKept
  BY <1>2, <1>3, <1>4, SameInodes DEF IInv, Types
<1>6. \A n \in Names : Opened(p, n)' <=> Opened(p, n)
  BY <1>2, <1>4, Places2 DEF Opened, InLock, IInv
<1>7. 2 <= Levels + 1 /\ \A n \in Names : ~(2 > n + 2)
  BY LockFileAssumption DEF Names
<1> QED
  BY <1>2, <1>3, <1>4, <1>5, <1>6, <1>7, Quiet DEF InLock

-----------------------------------------------------------------------------
(* The steps that remove a name                                            *)

LEMMA NameRemoved ==
  ASSUME IInv, NEW p \in alive, NEW n \in Names, NEW d \in Nat, NEW pc, NEW fd,
         Moved(p, d, pc, fd), d <= Levels + 1, entry' = [entry EXCEPT ![n] = None],
         UNCHANGED <<stale, own, alive, counts>>, InodesKept,
         \A m \in Names : Opened(p, m)' <=> Opened(p, m),
         \A m \in Names : d > m + 2 => Depth(p) > m + 2,
         Top(p).pc # "close", Top(p).pc = "full" => n = Tries(p),
         pc \in InLock \cup {"close"} => d <= Levels,
         pc \notin {"full", "dead", "open", "flockStale", "unlinkStale"},
         pc = "close" => \A m \in Names : own[p][m] # None => own[p][m] = entry[n],
         \A q \in Procs : own[q][n] # None => IF q = p THEN pc = "close" ELSE Top(q).pc = "close",
         \A q \in Procs \ {p} : ~Full(q, n),
         \A q \in Procs \ {p} :
           Top(q).pc \in {"open", "flockStale", "unlinkStale"} => Tries(q) # n
  PROVE  IInv'
<1> p \in Procs /\ entry \in [Names -> Inodes \cup {None}]
  BY DEF IInv, Types
<1>1. Types'
  BY DEF IInv, Types, Moved, InodesKept, counts
<1>2. /\ Depth(p)' = d /\ Top(p)'.pc = pc /\ Tries(p)' = d - 2
      /\ \A q \in Procs \ {p} : /\ Depth(q)' = Depth(q) /\ Top(q)' = Top(q)
                                /\ Uses(q)' = Uses(q) /\ Tries(q)' = Tries(q)
  BY Places2 DEF IInv
<1>3. Stacks'
  <2>1. ASSUME NEW q \in Procs
        PROVE  /\ IsStack(stack'[q]) /\ Depth(q)' <= Levels + 1
               /\ Top(q)'.pc \in InLock \cup {"close"} => Depth(q)' <= Levels
               /\ q \notin alive' <=> Top(q)'.pc = "dead"
    BY <1>2 DEF IInv, Stacks, Moved
  <2> QED
    BY <2>1 DEF Stacks
<1>4. \A q \in Procs, m \in Names : Full(q, m)' => Full(q, m) /\ q # p /\ m # n
  <2>1. ASSUME NEW q \in Procs, NEW m \in Names, Full(q, m)'
        PROVE  Full(q, m) /\ q # p /\ m # n
    BY <1>2, <2>1 DEF Full
  <2> QED
    BY <2>1
<1>5. \A m \in Names : entry'[m] = IF m = n THEN None ELSE entry[m]
  OBVIOUS
<1>6. Descriptors'
  BY <1>2 DEF IInv, Descriptors, Opened
<1>7. OneName' /\ OneOwner' /\ UnusedBlank'
  BY <1>5 DEF IInv, Owners, OneName, OneOwner, UnusedBlank, InodesKept
<1>8. NamedWhileOpen'
  <2>1. ASSUME NEW q \in Procs, NEW m \in Names, own[q][m] # None, Top(q)'.pc # "close"
        PROVE  own[q][m] = entry'[m]
    BY <1>2, <1>5, <2>1 DEF IInv, Owners, NamedWhileOpen
  <2>2. ASSUME NEW q \in Procs, NEW m \in Names, NEW l \in Names,
               own[q][m] # None, Top(q)'.pc = "close"
        PROVE  own[q][m] # entry'[l]
    <3>1. CASE q = p
      BY <1>2, <1>5, <2>2, <3>1 DEF IInv, Owners, OneName
    <3>2. CASE q # p
      BY <1>2, <1>5, <2>2, <3>2 DEF IInv, Owners, NamedWhileOpen
    <3> QED
      BY <3>1, <3>2
  <2>3. ASSUME NEW q \in Procs, NEW m \in Names, Full(q, m)'
        PROVE  /\ entry'[m] # None
               /\ \A r \in Procs, l \in Names : own[r][l] # entry'[m] /\ (Full(r, m)' => r = q)
    BY <1>4, <1>5, <2>3 DEF IInv, Owners, NamedWhileOpen
  <2> QED
    BY <2>1, <2>2, <2>3 DEF NamedWhileOpen
<1>9. Stamped'
  <2>1. ASSUME NEW q \in Procs, NEW m \in Names, NEW i \in Inodes,
               own[q][m] = i \/ (Full(q, m)' /\ entry'[m] = i)
        PROVE  inode'[i].pid = q /\ ~inode'[i].old
    <3>1. InUse(i)'
      BY <2>1 DEF InUse
    <3>2. own[q][m] = i \/ (Full(q, m) /\ entry[m] = i)
      BY <2>1, <1>4, <1>5
    <3> QED
      BY <3>1, <3>2 DEF InodesKept, IInv, Owners, Stamped
  <2> QED
    BY <2>1 DEF Stamped
<1>10. \A m \in Names : Orphan(m)' <=> Orphan(m) /\ m # n
  <2>1. \A q \in alive : q \in Procs /\ (Top(q).pc = "full" => Tries(q) \in Names)
    BY Places DEF IInv, Types, ClientPcs
  <2>2. ASSUME NEW m \in Names, m # n, entry[m] # None
        PROVE  Owned(entry[m])' <=> Owned(entry[m])
    <3>1. ASSUME NEW q \in alive
          PROVE  Top(q)'.pc = "full" /\ entry'[Tries(q)'] = entry[m]
                   <=> Top(q).pc = "full" /\ entry[Tries(q)] = entry[m]
      <4>1. CASE q = p
        BY <1>2, <2>1, <2>2, <4>1 DEF IInv, Owners, OneName
      <4>2. CASE q # p
        <5>1. Top(q)' = Top(q) /\ Tries(q)' = Tries(q) /\ q \in Procs
          BY <1>2, <2>1, <4>2
        <5>2. Top(q).pc = "full" => Tries(q) \in Names /\ Tries(q) # n
          BY <2>1, <4>2 DEF Full
        <5> QED
          BY <1>5, <5>1, <5>2
      <4> QED
        BY <4>1, <4>2
    <3>2. Owned(entry[m])' <=>
            \E q \in alive : \/ \E l \in Names : own[q][l] = entry[m]
                             \/ Top(q)'.pc = "full" /\ entry'[Tries(q)'] = entry[m]
      BY <2>2, <1>5 DEF Owned
    <3>3. Owned(entry[m]) <=>
            \E q \in alive : \/ \E l \in Names : own[q][l] = entry[m]
                             \/ Top(q).pc = "full" /\ entry[Tries(q)] = entry[m]
      BY DEF Owned
    <3> QED
      BY <3>1, <3>2, <3>3
  <2> QED
    BY <1>5, <2>2 DEF Orphan
<1>11. Removers'
  <2>1. ASSUME NEW q \in Procs, Top(q)'.pc \in {"open", "flockStale", "unlinkStale"}
        PROVE  Orphan(Tries(q))'
    <3>1. q # p /\ Top(q).pc = Top(q)'.pc /\ Tries(q)' = Tries(q)
      BY <1>2, <2>1
    <3>2. Tries(q) \in Names
      BY <2>1, <3>1, Places DEF IInv, ClientPcs
    <3>3. Tries(q) # n /\ Orphan(Tries(q))
      BY <2>1, <3>1 DEF IInv, Removers
    <3>4. ASSUME NEW m \in Names, m = Tries(q), Orphan(m)'
          PROVE  Orphan(Tries(q))'
      BY <3>1, <3>4 DEF Orphan, Owned
    <3> QED
      BY <1>10, <3>2, <3>3, <3>4
  <2> QED
    BY <2>1 DEF Removers
<1>12. Climbed' \subseteq Climbed
  BY <1>2, <1>10 DEF Climbed
<1>13. Cardinality(Climbed') <= crashes'
  BY <1>12, FewClimbed DEF counts
<1> QED
  BY <1>1, <1>3, <1>6, <1>7, <1>8, <1>9, <1>11, <1>13 DEF IInv, Owners

\* What has an owner is no orphan.
LEMMA OwnedIsNoOrphan ==
  ASSUME IInv, NEW p \in Procs, NEW n \in Names,
         (own[p][n] # None /\ Top(p).pc # "close") \/ Full(p, n)
  PROVE  ~Orphan(n)
<1>1. CASE own[p][n] # None /\ Top(p).pc # "close"
  <2>1. own[p][n] = entry[n] /\ p \in alive
    BY <1>1 DEF IInv, Owners, NamedWhileOpen, Stacks, Descriptors, Opened, InLock
  <2> QED
    BY <2>1 DEF Orphan, Owned
<1>2. CASE Full(p, n)
  BY <1>2 DEF Full, Orphan, Owned
<1> QED
  BY <1>1, <1>2

\* Whoever removes a stale file has the rmlock, so that there is one at a time.
LEMMA OneRemover ==
  ASSUME IInv, NEW p \in Procs, NEW q \in Procs, Tries(p) = Tries(q),
         Top(p).pc \in {"open", "flockStale", "unlinkStale"},
         Top(q).pc \in {"open", "flockStale", "unlinkStale"}
  PROVE  p = q
<1>1. Depth(p) # 1 /\ Depth(q) # 1 /\ Uses(p) = Uses(q) /\ Uses(p) \in Names
  <2>1. Depth(p) # 1 /\ Depth(q) # 1 /\ Tries(p) \in Names /\ Depth(p) > 1
    BY Places DEF IInv, ClientPcs
  <2>2. Uses(p) = Uses(q) /\ Uses(p) = Tries(p) + 1
    BY Places DEF IInv
  <2>3. Depth(p) <= Levels
    BY <2>1, Room DEF IInv, Removers
  <2> QED
    BY <2>1, <2>2, <2>3, Places, LockFileAssumption DEF IInv, Uses, Names
<1>2. Opened(p, Uses(p)) /\ Opened(q, Uses(p))
  BY <1>1 DEF Opened, InLock
<1>3. own[p][Uses(p)] = entry[Uses(p)] /\ own[q][Uses(p)] = entry[Uses(p)]
      /\ own[p][Uses(p)] # None
  BY <1>1, <1>2 DEF IInv, Descriptors, Owners, NamedWhileOpen
<1> QED
  BY <1>1, <1>3 DEF IInv, Owners, OneOwner

LEMMA RemoveFullKeeps == ASSUME IInv, NEW p \in Procs, RemoveFull(p) PROVE IInv'
<1> DEFINE n  == Tries(p)
           d  == Depth(p) - 1
           pc == Caller(d, FALSE)
<1>1. p \in alive /\ Top(p).pc = "full"
  BY DEF RemoveFull, At
<1>2. n \in Names /\ Depth(p) \in 2..Levels + 1 /\ Depth(p) > 1 /\ Full(p, n)
  BY <1>1, Places, LockFileAssumption DEF IInv, ClientPcs, Full, Tries
<1>3. Moved(p, d, pc, None)
  BY <1>2, ReturnMoves DEF RemoveFull, IInv
<1>4. UNCHANGED <<stale, own, alive, counts>> /\ entry' = [entry EXCEPT ![n] = None] /\ Keep(inode)
  BY DEF RemoveFull
<1>5. InodesKept
  BY <1>4, KeptInodes DEF IInv, Types
<1>6. pc \in {"done", "sleep"}
  BY DEF Caller
<1>7. d \in Nat /\ d <= Levels + 1 /\ \A m \in Names : d > m + 2 => Depth(p) > m + 2
  BY <1>2, LockFileAssumption DEF Names
<1>8. \A m \in Names : Opened(p, m)' <=> Opened(p, m)
  BY <1>1, <1>3, <1>6, Places2 DEF Opened, InLock, IInv
<1>9. \A q \in Procs : own[q][n] # None => Top(q).pc = "close"
  BY <1>2 DEF IInv, Owners, NamedWhileOpen
<1>10. \A q \in Procs \ {p} : ~Full(q, n)
  BY <1>2 DEF IInv, Owners, NamedWhileOpen
<1>11. \A q \in Procs : Top(q).pc \in {"open", "flockStale", "unlinkStale"} => Tries(q) # n
  BY <1>2, OwnedIsNoOrphan DEF IInv, Removers
<1>12. own[p][n] = None
  BY <1>1, <1>9
<1> HIDE DEF n, d, pc
<1> QED
  BY <1>1, <1>2, <1>3, <1>4, <1>5, <1>6, <1>7, <1>8, <1>9, <1>10, <1>11, <1>12, NameRemoved DEF InLock, n

LEMMA UnlinkStaleKeeps == ASSUME IInv, NEW p \in Procs, UnlinkStale(p) PROVE IInv'
<1> DEFINE n     == Tries(p)
           frame == [Top(p) EXCEPT !.removed = entry[Tries(p)] # None, !.pc = "closeStale"]
<1>1. p \in alive /\ Top(p).pc = "unlinkStale"
  BY DEF UnlinkStale, At
<1>2. n \in Names /\ Depth(p) \in 2..Levels + 1 /\ Depth(p) # 1 /\ Orphan(n) /\ Top(p) \in Frames
      /\ Top(p).fd # None
  BY <1>1, Places DEF IInv, ClientPcs, Removers, Reading
<1>3. frame \in Frames /\ frame.pc = "closeStale" /\ frame.fd = Top(p).fd
  BY <1>2 DEF Frames, TryPcs
<1>4. With(p, frame)
  BY DEF UnlinkStale
<1> HIDE DEF frame
<1>5. Moved(p, Depth(p), "closeStale", Top(p).fd)
  BY <1>2, <1>3, <1>4, WithMoves DEF IInv, TryPcs, Reading
<1>6. UNCHANGED <<stale, own, alive, counts>> /\ entry' = [entry EXCEPT ![n] = None] /\ Keep(inode)
  BY DEF UnlinkStale
<1>7. InodesKept
  BY <1>6, KeptInodes DEF IInv, Types
<1>8. \A m \in Names : Opened(p, m)' <=> Opened(p, m)
  BY <1>1, <1>5, Places2 DEF Opened, InLock, IInv, Uses
<1>9. \A q \in Procs : (own[q][n] # None => Top(q).pc = "close") /\ ~Full(q, n)
  BY <1>2, OwnedIsNoOrphan
<1>10. \A q \in Procs \ {p} : Top(q).pc \in {"open", "flockStale", "unlinkStale"} => Tries(q) # n
  BY <1>1, OneRemover
<1>11. own[p][n] = None /\ Depth(p) \in Nat /\ Depth(p) <= Levels + 1 /\ Depth(p) <= Levels
  BY <1>1, <1>2, <1>9, LockFileAssumption DEF IInv, Stacks, InLock
<1> HIDE DEF n
<1> QED
  <2> DEFINE pc == "closeStale"
             fd == Top(p).fd
  <2>1. Moved(p, Depth(p), pc, fd) /\ pc = "closeStale"
    BY <1>5
  <2> HIDE DEF pc, fd
  <2>2. \A q \in Procs : own[q][n] # None => IF q = p THEN pc = "close" ELSE Top(q).pc = "close"
    BY <1>9, <1>11
  <2>3. \A q \in Procs \ {p} : ~Full(q, n)
    BY <1>9
  <2>4. Top(p).pc \notin {"close", "full"}
    BY <1>1
  <2> QED
    BY <1>1, <1>2, <1>6, <1>7, <1>8, <1>10, <1>11, <2>1, <2>2, <2>3, <2>4, NameRemoved

LEMMA UnlockKeeps == ASSUME IInv, NEW p \in Procs, Unlock(p) PROVE IInv'
<1> DEFINE n == Uses(p)
<1>1. p \in alive /\ Top(p).pc \in {"unlock", "in"}
  BY DEF Unlock, At
<1>2. /\ Depth(p) \in Nat /\ Depth(p) <= Levels + 1
      /\ Top(p).pc # "close" /\ Top(p).pc # "full" /\ Top(p).fd = None
  BY <1>1, Places, LockFileAssumption DEF IInv, Reading
<1>3. n \in Names
  BY <1>1, Places, LockFileAssumption DEF IInv, Stacks, InLock, Names, Uses
<1>4. own[p][n] # None /\ own[p][n] = entry[n]
  BY <1>1, <1>3 DEF IInv, Descriptors, Opened, InLock, Owners, NamedWhileOpen
<1>5. Moved(p, Depth(p), "close", None)
  BY <1>1, <1>2, GotoMoves DEF Unlock, IInv, TryPcs, ClientPcs, Reading
<1>6. UNCHANGED <<stale, own, alive, counts>> /\ entry' = [entry EXCEPT ![n] = None] /\ Keep(inode)
  BY DEF Unlock
<1>7. InodesKept
  BY <1>6, KeptInodes DEF IInv, Types
<1>8. \A m \in Names : Opened(p, m)' <=> Opened(p, m)
  BY <1>1, <1>5, Places2 DEF Opened, InLock, IInv, Uses
<1>13. Depth(p) <= Levels
  BY <1>1 DEF IInv, Stacks, InLock
<1>9. \A m \in Names : own[p][m] # None => own[p][m] = entry[n]
  BY <1>1, <1>4 DEF IInv, Descriptors, Opened
<1>10. \A q \in Procs \ {p} : own[q][n] # None => Top(q).pc = "close"
  BY <1>3, <1>4 DEF IInv, Owners, OneOwner, NamedWhileOpen
<1>11. \A q \in Procs \ {p} : ~Full(q, n)
  BY <1>3, <1>4 DEF IInv, Owners, NamedWhileOpen
<1>12. \A q \in Procs \ {p} : Top(q).pc \in {"open", "flockStale", "unlinkStale"} => Tries(q) # n
  BY <1>1, <1>3, <1>4, OwnedIsNoOrphan DEF IInv, Removers
<1> HIDE DEF n
<1> QED
  BY <1>1, <1>2, <1>3, <1>5, <1>6, <1>7, <1>8, <1>9, <1>10, <1>11, <1>12,
     <1>13, NameRemoved

-----------------------------------------------------------------------------
(* The steps that change owners                                            *)

OwnersInAll ==
  \A i \in Inodes : Owned(i) <=>
    \E q \in Procs, n \in Names : own[q][n] = i \/ (Full(q, n) /\ entry[n] = i)

LEMMA OwnersAre == Types /\ Stacks /\ Descriptors => OwnersInAll
<1> SUFFICES ASSUME Types, Stacks, Descriptors, NEW i \in Inodes
             PROVE  Owned(i) <=>
                      \E q \in Procs, n \in Names : own[q][n] = i \/ (Full(q, n) /\ entry[n] = i)
  BY DEF OwnersInAll
<1>1. i # None /\ \A q \in alive : q \in Procs
  BY LockFileAssumption DEF None, Types
<1>2. ASSUME NEW q \in Procs, NEW n \in Names, own[q][n] = i
      PROVE  q \in alive
  BY <1>1, <1>2 DEF Descriptors, Opened, Stacks, InLock
<1>3. ASSUME NEW q \in alive, Top(q).pc = "full", entry[Tries(q)] = i
      PROVE  \E n \in Names : Full(q, n) /\ entry[n] = i
  BY <1>1, <1>3, Places DEF ClientPcs, Full
<1> QED
  BY <1>1, <1>2, <1>3 DEF Owned, Full

LEMMA OwnersAreNext == Types' /\ Stacks' /\ Descriptors' => OwnersInAll'
BY OwnersAre, PTL

\* The stacks are well formed after a step of one process that stays within the levels.
LEMMA StacksKept ==
  ASSUME IInv, NEW p \in Procs, NEW d \in Nat, NEW pc, NEW fd, Moved(p, d, pc, fd),
         d <= Levels + 1, pc \in InLock \cup {"close"} => d <= Levels,
         \A q \in Procs \ {p} : q \in alive' <=> q \in alive,
         p \notin alive' <=> pc = "dead"
  PROVE  Stacks'
<1>1. ASSUME NEW q \in Procs
      PROVE  /\ IsStack(stack'[q]) /\ Depth(q)' <= Levels + 1
             /\ Top(q)'.pc \in InLock \cup {"close"} => Depth(q)' <= Levels
             /\ q \notin alive' <=> Top(q)'.pc = "dead"
  BY Places2 DEF IInv, Stacks, Moved
<1> QED
  BY <1>1 DEF Stacks

\* Orphans are taken care of if they stay orphans.
LEMMA RemoversKept ==
  ASSUME IInv, NEW p \in Procs, NEW d, NEW pc, NEW fd, Moved(p, d, pc, fd),
         pc \notin {"open", "flockStale", "unlinkStale"},
         \A n \in Names : Orphan(n) => Orphan(n)'
  PROVE  Removers'
<1>1. ASSUME NEW q \in Procs, Top(q)'.pc \in {"open", "flockStale", "unlinkStale"}
      PROVE  Orphan(Tries(q))'
  <2>1. q # p /\ Top(q).pc = Top(q)'.pc /\ Tries(q)' = Tries(q)
    BY <1>1, Places2 DEF IInv
  <2>2. Tries(q) \in Names
    BY <1>1, <2>1, Places DEF IInv, ClientPcs
  <2>3. Orphan(Tries(q))
    BY <1>1, <2>1 DEF IInv, Removers
  <2>4. ASSUME NEW m \in Names, m = Tries(q), Orphan(m)'
        PROVE  Orphan(Tries(q))'
    BY <2>1, <2>4 DEF Orphan, Owned
  <2> QED
    BY <2>2, <2>3, <2>4
<1> QED
  BY <1>1 DEF Removers

LEMMA OrphansKept ==
  ASSUME Types, UNCHANGED entry, \A j \in Inodes : Owned(j)' <=> Owned(j)
  PROVE  \A m \in Names : Orphan(m)' <=> Orphan(m)
<1> SUFFICES ASSUME NEW m \in Names, entry[m] # None
             PROVE  Owned(entry[m])' <=> Owned(entry[m])
  BY DEF Orphan
<1>1. entry[m] \in Inodes /\ entry'[m] = entry[m]
  BY DEF Types
<1>2. \A j \in Inodes : j = entry[m] => (Owned(entry[m])' <=> Owned(j)')
  BY <1>1 DEF Owned
<1> QED
  BY <1>1, <1>2

LEMMA CreateKeeps == ASSUME IInv, NEW p \in Procs, Create(p) PROVE IInv'
<1>1. p \in alive /\ Top(p).pc = "try" /\ Depth(p) > 1 /\ Depth(p) # 1 /\ Tries(p) \in Names
      /\ Top(p).fd = None /\ Depth(p) \in Nat /\ Depth(p) <= Levels + 1
  <2>1. p \in alive /\ Top(p).pc = "try"
    BY DEF Create, At
  <2> QED
    BY <2>1, Places, LockFileAssumption DEF IInv, ClientPcs, Reading
<1>2. CASE entry[Tries(p)] # None
  <2>1. Goto(p, "check") /\ UNCHANGED <<stale, entry, inode, own, alive, counts>>
    BY <1>2 DEF Create
  <2>2. Moved(p, Depth(p), "check", None)
    BY <1>1, <2>1, GotoMoves DEF IInv, TryPcs, Reading
  <2>3. InodesKept
    BY <1>1, <2>1, <2>2, SameInodes DEF IInv, Types
  <2> QED
    BY <1>1, <2>1, <2>2, <2>3, GotoKeeps DEF TryPcs, InLock
<1>3. ASSUME NEW n \in Names, n = Tries(p), entry[n] = None, NEW i \in Inodes, ~InUse(i),
             entry' = [entry EXCEPT ![n] = i], own' = [own EXCEPT ![p][n] = i],
             inode' = [inode EXCEPT ![i].pid = p], Goto(p, "flock"),
             UNCHANGED <<stale, alive, counts>>
      PROVE  IInv'
  <2>1. Moved(p, Depth(p), "flock", None)
    BY <1>1, <1>3, GotoMoves DEF IInv, TryPcs, Reading
  <2>2. /\ Depth(p)' = Depth(p) /\ Top(p)'.pc = "flock" /\ Tries(p)' = n /\ Top(p)'.fd = None
        /\ \A q \in Procs \ {p} : Top(q)' = Top(q) /\ Uses(q)' = Uses(q) /\ Tries(q)' = Tries(q)
        /\ \A q \in Procs : Depth(q)' = Depth(q)
    BY <1>3, <2>1, Places2 DEF IInv, Tries
  <2>3. /\ i # None /\ inode[i] = Blank
        /\ \A m \in Names : entry[m] # i
        /\ \A q \in Procs, m \in Names : own[q][m] # i
    BY <1>3, LockFileAssumption DEF IInv, Owners, UnusedBlank, InUse, None
  <2>4. /\ \A m \in Names : entry'[m] = IF m = n THEN i ELSE entry[m]
        /\ \A q \in Procs, m \in Names : own'[q][m] = IF q = p /\ m = n THEN i ELSE own[q][m]
        /\ \A m \in Names : own[p][m] = None
    BY <1>1, <1>3 DEF IInv, Types, Descriptors, Opened, InLock
  <2>5. inode' \in [Inodes -> Files] /\ inode'[i].pid = p /\ ~inode'[i].old
        /\ \A j \in Inodes \ {i} : inode'[j] = inode[j]
    <3> DEFINE file == [inode[i] EXCEPT !.pid = p]
    <3>1. file \in Files /\ file.pid = p /\ ~file.old
      <4>1. inode[i] \in Files
        BY DEF IInv, Types
      <4>2. ~inode[i].old
        BY <2>3 DEF Blank
      <4> QED
        BY <4>1, <4>2 DEF Files
    <3>2. inode \in [Inodes -> Files] /\ inode' = [inode EXCEPT ![i] = file]
      BY <1>3 DEF IInv, Types
    <3> HIDE DEF file
    <3> QED
      BY <3>1, <3>2
  <2>6. Types'
    <3>1. entry' \in [Names -> Inodes \cup {None}]
      BY <1>1, <1>3 DEF IInv, Types
    <3>2. own' \in [Procs -> [Names -> Inodes \cup {None}]]
      BY <1>1, <1>3 DEF IInv, Types
    <3> QED
      BY <1>3, <2>1, <2>5, <3>1, <3>2 DEF IInv, Types, Moved, counts
  <2>7. Stacks'
    BY <1>1, <1>3, <2>1, StacksKept DEF InLock
  <2>8. Descriptors'
    BY <2>2, <2>3, <2>4 DEF IInv, Descriptors, Opened, InLock
  <2>9. OneName' /\ OneOwner'
    BY <2>3, <2>4 DEF IInv, Owners, OneName, OneOwner
  <2>10. \A q \in Procs, m \in Names : Full(q, m)' <=> Full(q, m)
    <3>1. ASSUME NEW q \in Procs, NEW m \in Names
          PROVE  Full(q, m)' <=> Full(q, m)
      BY <1>1, <1>3, <2>2 DEF Full
    <3> QED
      BY <3>1
  <2>11. NamedWhileOpen'
    <3>1. ASSUME NEW q \in Procs, NEW m \in Names, own'[q][m] # None
          PROVE  IF Top(q)'.pc = "close" THEN \A l \in Names : own'[q][m] # entry'[l]
                                         ELSE own'[q][m] = entry'[m]
      BY <1>3, <2>2, <2>3, <2>4, <3>1 DEF IInv, Owners, NamedWhileOpen
    <3>2. ASSUME NEW q \in Procs, NEW m \in Names, Full(q, m)'
          PROVE  /\ entry'[m] # None
                 /\ \A r \in Procs, l \in Names : own'[r][l] # entry'[m] /\ (Full(r, m)' => r = q)
      BY <1>3, <2>3, <2>4, <2>10, <3>2 DEF IInv, Owners, NamedWhileOpen
    <3> QED
      BY <3>1, <3>2 DEF NamedWhileOpen
  <2>12. Stamped'
    BY <1>3, <2>3, <2>4, <2>5, <2>10 DEF IInv, Owners, Stamped, NamedWhileOpen
  <2>13. UnusedBlank'
    <3>1. ASSUME NEW j \in Inodes, j # i, InUse(j)
          PROVE  InUse(j)'
      <4>1. j # None
        BY LockFileAssumption DEF None
      <4> QED
        BY <1>1, <1>3, <2>1, <2>3, <2>4, <3>1, <4>1, UseKept DEF IInv
    <3>2. InUse(i)'
      BY <1>1, <2>4 DEF InUse
    <3> QED
      BY <2>5, <3>1, <3>2 DEF IInv, Owners, UnusedBlank
  <2>14. \A m \in Names : Orphan(m)' <=> Orphan(m)
    <3>1. ASSUME NEW m \in Names, m # n, entry[m] # None
          PROVE  Owned(entry[m])' <=> Owned(entry[m])
      <4>1. entry[m] \in Inodes /\ entry[m] # i /\ entry'[m] = entry[m]
        BY <2>3, <2>4, <3>1 DEF IInv, Types
      <4>2. \A j \in Inodes \ {i} : Owned(j)' <=> Owned(j)
        <5>1. OwnersInAll /\ OwnersInAll'
          BY <2>6, <2>7, <2>8, OwnersAre, OwnersAreNext DEF IInv
        <5>2. ASSUME NEW j \in Inodes \ {i}, NEW q \in Procs, NEW l \in Names
              PROVE  own'[q][l] = j \/ (Full(q, l)' /\ entry'[l] = j)
                       <=> own[q][l] = j \/ (Full(q, l) /\ entry[l] = j)
          <6>1. j # None /\ j # i
            BY <5>2, LockFileAssumption DEF None
          <6> QED
            BY <1>3, <2>3, <2>4, <2>10, <6>1
        <5> SUFFICES ASSUME NEW j \in Inodes \ {i} PROVE Owned(j)' <=> Owned(j)
          OBVIOUS
        <5>3. Owned(j) <=>
                \E q \in Procs, l \in Names : own[q][l] = j \/ (Full(q, l) /\ entry[l] = j)
          BY <5>1 DEF OwnersInAll
        <5>4. Owned(j)' <=>
                \E q \in Procs, l \in Names : own'[q][l] = j \/ (Full(q, l)' /\ entry'[l] = j)
          BY <5>1 DEF OwnersInAll
        <5> QED
          BY <5>2, <5>3, <5>4
      <4>3. \A j \in Inodes : j = entry[m] => (Owned(entry[m])' <=> Owned(j)')
        BY <4>1 DEF Owned
      <4> QED
        BY <4>1, <4>2, <4>3
    <3>2. Owned(i)'
      BY <1>1, <1>3, <2>4 DEF Owned
    <3>3. ~Orphan(n)'
      <4>1. \A j \in Inodes : j = entry'[n] => (Owned(entry[n])' <=> Owned(j)')
        BY DEF Owned
      <4> QED
        BY <1>1, <2>4, <3>2, <4>1 DEF Orphan
    <3> QED
      BY <1>3, <2>4, <3>1, <3>3 DEF Orphan
  <2>15. Removers'
    BY <2>1, <2>14, RemoversKept
  <2>16. Climbed' \subseteq Climbed
    BY <2>2, <2>14 DEF Climbed
  <2>17. Cardinality(Climbed') <= crashes'
    BY <1>3, <2>16, FewClimbed DEF counts
  <2> QED
    BY <2>6, <2>7, <2>8, <2>9, <2>11, <2>12, <2>13, <2>15, <2>17 DEF IInv, Owners
<1> QED
  BY <1>1, <1>2, <1>3 DEF Create, Unused

LEMMA ReleaseKeeps ==
  ASSUME IInv, NEW p \in Procs, NEW i
  PROVE  /\ Release(p, i) \in [Inodes -> Files]
         /\ \A j \in Inodes : /\ Release(p, i)[j].pid = inode[j].pid
                              /\ Release(p, i)[j].old => inode[j].old
<1>1. inode \in [Inodes -> Files]
  BY DEF IInv, Types
<1>2. CASE i \in Inodes
  <2>1. /\ Unlocked(i) \in [Inodes -> Files]
        /\ \A j \in Inodes : /\ Unlocked(i)[j].pid = inode[j].pid
                             /\ Unlocked(i)[j].old = inode[j].old
    BY <1>1, <1>2 DEF Unlocked, Files
  <2> QED
    BY <1>1, <2>1 DEF Release
<1>3. CASE i \notin Inodes
  BY <1>1, <1>3 DEF Release
<1> QED
  BY <1>2, <1>3

LEMMA WriteFailsKeeps == ASSUME IInv, NEW p \in Procs, WriteFails(p) PROVE IInv'
<1>1. p \in alive /\ Top(p).pc = "write" /\ Depth(p) > 1 /\ Depth(p) # 1 /\ Tries(p) \in Names
      /\ Top(p).fd = None /\ Depth(p) \in Nat /\ Depth(p) <= Levels + 1
  <2>1. p \in alive /\ Top(p).pc = "write"
    BY DEF WriteFails, At
  <2> QED
    BY <2>1, Places, LockFileAssumption DEF IInv, ClientPcs, Reading
<1> SUFFICES ASSUME NEW n \in Names, n = Tries(p), NEW i, i = own[p][n]
             PROVE  IInv'
  BY <1>1
<1>2. i \in Inodes /\ i # None /\ i = entry[n]
  BY <1>1 DEF IInv, Types, Descriptors, Opened, Owners, NamedWhileOpen
<1>3. Moved(p, Depth(p), "full", None)
  BY <1>1, GotoMoves DEF WriteFails, IInv, TryPcs, Reading
<1>4. /\ Depth(p)' = Depth(p) /\ Top(p)'.pc = "full" /\ Tries(p)' = n
      /\ \A q \in Procs \ {p} : Top(q)' = Top(q) /\ Uses(q)' = Uses(q) /\ Tries(q)' = Tries(q)
      /\ \A q \in Procs : Depth(q)' = Depth(q)
  BY <1>3, Places2 DEF IInv, Tries
<1>5. /\ own' = [own EXCEPT ![p][n] = None] /\ Keep(Release(p, i))
      /\ UNCHANGED <<stale, entry, alive, crashes>> /\ full' = full + 1 /\ full < MaxFull
  BY DEF WriteFails
<1>6. /\ \A q \in Procs, m \in Names : own'[q][m] = IF q = p /\ m = n THEN None ELSE own[q][m]
      /\ \A m \in Names : m # n => own[p][m] = None
  BY <1>1, <1>5 DEF IInv, Types, Descriptors, Opened, InLock
<1>7. InodesKept
  BY <1>5, ReleaseKeeps, KeptInodes
<1>8. Types'
  <2>1. own' \in [Procs -> [Names -> Inodes \cup {None}]]
    BY <1>5 DEF IInv, Types
  <2>2. full' \in 0..MaxFull
    BY <1>5, LockFileAssumption DEF IInv, Types
  <2> QED
    BY <1>3, <1>5, <1>7, <2>1, <2>2 DEF IInv, Types, Moved, InodesKept
<1>9. Stacks'
  BY <1>1, <1>3, <1>5, StacksKept DEF InLock
<1>10. Descriptors'
  BY <1>4, <1>6 DEF IInv, Descriptors, Opened, InLock
<1>11. OneName' /\ OneOwner'
  BY <1>5, <1>6 DEF IInv, Owners, OneName, OneOwner
<1>12. \A q \in Procs, m \in Names : Full(q, m)' <=> Full(q, m) \/ (q = p /\ m = n)
  <2>1. ASSUME NEW q \in Procs, NEW m \in Names
        PROVE  Full(q, m)' <=> Full(q, m) \/ (q = p /\ m = n)
    BY <1>1, <1>4, <1>5 DEF Full
  <2> QED
    BY <2>1
<1>13. \A q \in Procs : ~Full(q, n)
  <2> SUFFICES ASSUME NEW q \in Procs, Full(q, n) PROVE FALSE
    OBVIOUS
  <2>1. own[p][n] # entry[n]
    BY DEF IInv, Owners, NamedWhileOpen
  <2> QED
    BY <1>2, <2>1
<1>14. NamedWhileOpen'
  <2>1. ASSUME NEW q \in Procs, NEW m \in Names, own'[q][m] # None
        PROVE  IF Top(q)'.pc = "close" THEN \A l \in Names : own'[q][m] # entry'[l]
                                       ELSE own'[q][m] = entry'[m]
    BY <1>4, <1>5, <1>6, <2>1 DEF IInv, Owners, NamedWhileOpen
  <2>2. ASSUME NEW q \in Procs, NEW m \in Names, Full(q, m)'
        PROVE  entry'[m] # None /\ \A r \in Procs : Full(r, m)' => r = q
    BY <1>2, <1>5, <1>12, <1>13, <2>2 DEF IInv, Owners, NamedWhileOpen
  <2>3. ASSUME NEW q \in Procs, NEW m \in Names, Full(q, m)', NEW r \in Procs, NEW l \in Names
        PROVE  own'[r][l] # entry'[m]
    <3>1. CASE Full(q, m)
      <4>1. own[r][l] # entry[m] /\ entry[m] # None
        BY <3>1 DEF IInv, Owners, NamedWhileOpen
      <4>2. entry'[m] = entry[m]
        BY <1>5
      <4> QED
        BY <1>6, <4>1, <4>2
    <3>2. CASE m = n
      <4>0. entry' = entry
        BY <1>5
      <4>1. entry'[m] = i
        BY <1>2, <3>2, <4>0
      <4>2. own[p][n] # None /\ own[p][n] = own[r][l] => p = r /\ n = l
        BY DEF IInv, Owners, OneOwner
      <4> QED
        BY <1>2, <1>6, <4>1, <4>2
    <3> QED
      BY <1>12, <2>3, <3>1, <3>2
  <2> QED
    BY <2>1, <2>2, <2>3 DEF NamedWhileOpen
<1>15. Stamped'
  <2>1. ASSUME NEW q \in Procs, NEW m \in Names, NEW j \in Inodes,
               own'[q][m] = j \/ (Full(q, m)' /\ entry[m] = j)
        PROVE  inode'[j].pid = q /\ ~inode'[j].old
    <3>1. InUse(j)'
      BY <1>5, <2>1 DEF InUse
    <3>2. j # None
      BY LockFileAssumption DEF None
    <3>3. own[q][m] = j \/ (Full(q, m) /\ entry[m] = j)
      BY <1>2, <1>6, <1>12, <2>1, <3>2
    <3> QED
      BY <3>1, <3>3, <1>7 DEF InodesKept, IInv, Owners, Stamped
  <2> QED
    BY <1>5, <2>1 DEF Stamped
<1>16. UnusedBlank'
  BY <1>7 DEF InodesKept, UnusedBlank
<1>17. \A j \in Inodes : Owned(j)' <=> Owned(j)
  <2>1. OwnersInAll /\ OwnersInAll'
    BY <1>8, <1>9, <1>10, OwnersAre, OwnersAreNext DEF IInv
  <2> SUFFICES ASSUME NEW j \in Inodes PROVE Owned(j)' <=> Owned(j)
    OBVIOUS
  <2>2. Owned(j) <=>
          \E q \in Procs, l \in Names : own[q][l] = j \/ (Full(q, l) /\ entry[l] = j)
    BY <2>1 DEF OwnersInAll
  <2>3. Owned(j)' <=>
          \E q \in Procs, l \in Names : own'[q][l] = j \/ (Full(q, l)' /\ entry'[l] = j)
    BY <2>1 DEF OwnersInAll
  <2>4. ASSUME NEW q \in Procs, NEW l \in Names
        PROVE  own'[q][l] = j \/ (Full(q, l)' /\ entry'[l] = j)
                 <=> own[q][l] = j \/ (Full(q, l) /\ entry[l] = j)
    <3>1. j # None
      BY LockFileAssumption DEF None
    <3>2. entry'[l] = entry[l]
      BY <1>5
    <3>3. CASE q = p /\ l = n
      BY <1>2, <1>6, <1>12, <3>1, <3>2, <3>3
    <3>4. CASE ~(q = p /\ l = n)
      BY <1>6, <1>12, <3>2, <3>4
    <3> QED
      BY <3>3, <3>4
  <2> QED
    BY <2>2, <2>3, <2>4
<1>18. \A m \in Names : Orphan(m)' <=> Orphan(m)
  BY <1>5, <1>17, OrphansKept DEF IInv
<1>19. Removers'
  BY <1>3, <1>18, RemoversKept
<1>20. Climbed' \subseteq Climbed
  BY <1>4, <1>18 DEF Climbed
<1>21. Cardinality(Climbed') <= crashes'
  BY <1>5, <1>20, FewClimbed
<1> QED
  BY <1>8, <1>9, <1>10, <1>11, <1>14, <1>15, <1>16, <1>19, <1>21 DEF IInv, Owners

LEMMA CloseKeeps == ASSUME IInv, NEW p \in Procs, Close(p) PROVE IInv'
<1> DEFINE frame == [Top(p) EXCEPT !.removed = FALSE,
                                   !.pc = IF Depth(p) = 1 THEN "done"
                                          ELSE IF Top(p).removed THEN "try" ELSE "sleep"]
<1>1. /\ p \in alive /\ Top(p).pc = "close" /\ Depth(p) \in Nat /\ Depth(p) <= Levels
      /\ Depth(p) <= Levels + 1 /\ Uses(p) \in Names /\ Top(p) \in Frames /\ Top(p).fd = None
  <2>1. p \in alive /\ Top(p).pc = "close"
    BY DEF Close, At
  <2> QED
    BY <2>1, Places, LockFileAssumption DEF IInv, Stacks, Reading, Names, Uses
<1> SUFFICES ASSUME NEW n \in Names, n = Uses(p), NEW i, i = own[p][n]
             PROVE  IInv'
  BY <1>1
<1>2. i \in Inodes /\ i # None /\ \A m \in Names : entry[m] # i
  BY <1>1 DEF IInv, Types, Descriptors, Opened, Owners, NamedWhileOpen
<1> SUFFICES ASSUME NEW pc, pc = frame.pc
             PROVE  IInv'
  OBVIOUS
<1>3. frame \in Frames /\ frame.fd = None /\ With(p, frame)
      /\ pc \in {"done", "try", "sleep"} /\ pc \in IF Depth(p) = 1 THEN ClientPcs ELSE TryPcs
  BY <1>1 DEF Close, Frames, ClientPcs, TryPcs
<1> HIDE DEF frame
<1>4. Moved(p, Depth(p), pc, None)
  BY <1>3, WithMoves DEF IInv, Reading
<1>5. /\ Depth(p)' = Depth(p) /\ Top(p)'.pc = pc
      /\ \A q \in Procs \ {p} : Top(q)' = Top(q) /\ Uses(q)' = Uses(q) /\ Tries(q)' = Tries(q)
      /\ \A q \in Procs : Depth(q)' = Depth(q)
  BY <1>4, Places2 DEF IInv, Tries
<1>6. /\ own' = [own EXCEPT ![p][n] = None] /\ Keep(Release(p, i))
      /\ UNCHANGED <<stale, entry, alive, counts>>
  BY DEF Close
<1>7. /\ \A q \in Procs, m \in Names : own'[q][m] = IF q = p /\ m = n THEN None ELSE own[q][m]
      /\ \A m \in Names : m # n => own[p][m] = None
      /\ entry' = entry
  BY <1>1, <1>6 DEF IInv, Types, Descriptors, Opened
<1>8. InodesKept
  BY <1>6, ReleaseKeeps, KeptInodes
<1>9. Types'
  <2>1. own' \in [Procs -> [Names -> Inodes \cup {None}]]
    BY <1>6 DEF IInv, Types
  <2> QED
    BY <1>4, <1>6, <1>8, <2>1 DEF IInv, Types, Moved, InodesKept, counts
<1>10. Stacks'
  BY <1>1, <1>3, <1>4, <1>6, StacksKept DEF InLock
<1>11. Descriptors'
  BY <1>3, <1>5, <1>7 DEF IInv, Descriptors, Opened, InLock
<1>12. OneName' /\ OneOwner'
  BY <1>7 DEF IInv, Owners, OneName, OneOwner
<1>13. \A q \in Procs, m \in Names : Full(q, m)' <=> Full(q, m)
  <2>1. ASSUME NEW q \in Procs, NEW m \in Names
        PROVE  Full(q, m)' <=> Full(q, m)
    BY <1>1, <1>3, <1>5, <1>6 DEF Full
  <2> QED
    BY <2>1
<1>14. NamedWhileOpen'
  <2>1. ASSUME NEW q \in Procs, NEW m \in Names, own'[q][m] # None
        PROVE  IF Top(q)'.pc = "close" THEN \A l \in Names : own'[q][m] # entry'[l]
                                       ELSE own'[q][m] = entry'[m]
    BY <1>5, <1>7, <2>1 DEF IInv, Owners, NamedWhileOpen
  <2>2. ASSUME NEW q \in Procs, NEW m \in Names, Full(q, m)', NEW r \in Procs, NEW l \in Names
        PROVE  entry[m] # None /\ own'[r][l] # entry[m] /\ (Full(r, m)' => r = q)
    <3>1. entry[m] # None /\ own[r][l] # entry[m] /\ (Full(r, m) => r = q)
      BY <1>13, <2>2 DEF IInv, Owners, NamedWhileOpen
    <3> QED
      BY <1>7, <1>13, <3>1
  <2> QED
    BY <1>7, <2>1, <2>2 DEF NamedWhileOpen
<1>15. Stamped'
  <2>1. ASSUME NEW q \in Procs, NEW m \in Names, NEW j \in Inodes,
               own'[q][m] = j \/ (Full(q, m)' /\ entry[m] = j)
        PROVE  inode'[j].pid = q /\ ~inode'[j].old
    <3>1. InUse(j)'
      BY <1>7, <2>1 DEF InUse
    <3>2. j # None
      BY LockFileAssumption DEF None
    <3>3. own[q][m] = j \/ (Full(q, m) /\ entry[m] = j)
      BY <1>7, <1>13, <2>1, <3>2
    <3> QED
      BY <3>1, <3>3, <1>8 DEF InodesKept, IInv, Owners, Stamped
  <2> QED
    BY <1>7, <2>1 DEF Stamped
<1>16. UnusedBlank'
  BY <1>8 DEF InodesKept, UnusedBlank
<1>17. \A j \in Inodes : j # i => (Owned(j)' <=> Owned(j))
  <2>1. OwnersInAll /\ OwnersInAll'
    BY <1>9, <1>10, <1>11, OwnersAre, OwnersAreNext DEF IInv
  <2> SUFFICES ASSUME NEW j \in Inodes, j # i PROVE Owned(j)' <=> Owned(j)
    OBVIOUS
  <2>2. Owned(j) <=>
          \E q \in Procs, l \in Names : own[q][l] = j \/ (Full(q, l) /\ entry[l] = j)
    BY <2>1 DEF OwnersInAll
  <2>3. Owned(j)' <=>
          \E q \in Procs, l \in Names : own'[q][l] = j \/ (Full(q, l)' /\ entry'[l] = j)
    BY <2>1 DEF OwnersInAll
  <2>4. ASSUME NEW q \in Procs, NEW l \in Names
        PROVE  own'[q][l] = j \/ (Full(q, l)' /\ entry'[l] = j)
                 <=> own[q][l] = j \/ (Full(q, l) /\ entry[l] = j)
    <3>1. j # None
      BY LockFileAssumption DEF None
    <3> QED
      BY <1>7, <1>13, <3>1
  <2> QED
    BY <2>2, <2>3, <2>4
<1>18. \A m \in Names : Orphan(m)' <=> Orphan(m)
  <2> SUFFICES ASSUME NEW m \in Names, entry[m] # None
               PROVE  Owned(entry[m])' <=> Owned(entry[m])
    BY <1>7 DEF Orphan
  <2>1. entry[m] \in Inodes /\ entry[m] # i
    BY <1>2 DEF IInv, Types
  <2>2. \A j \in Inodes : j = entry[m] => (Owned(entry[m])' <=> Owned(j)')
    BY <1>7 DEF Owned
  <2> QED
    BY <1>17, <2>1, <2>2
<1>19. Removers'
  BY <1>3, <1>4, <1>18, RemoversKept
<1>20. Climbed' \subseteq Climbed
  BY <1>5, <1>18 DEF Climbed
<1>21. Cardinality(Climbed') <= crashes'
  BY <1>6, <1>20, FewClimbed DEF counts
<1> QED
  BY <1>9, <1>10, <1>11, <1>12, <1>14, <1>15, <1>16, <1>19, <1>21 DEF IInv, Owners

-----------------------------------------------------------------------------
(* Crashes, restarts and the time                                          *)

LEMMA FreshStack ==
  ASSUME NEW pc \in {"dead", "out"}
  PROVE  LET s == <<Frame(pc)>> IN IsStack(s) /\ Len(s) = 1 /\ s[1].pc = pc /\ s[1].fd = None
<1>1. Frame(pc) \in Frames /\ Frame(pc).pc = pc /\ Frame(pc).fd = None
  BY DEF Frame, Frames, ClientPcs, None
<1> DEFINE f == Frame(pc)
<1> HIDE DEF f
<1>2. LET s == <<f>> IN IsStack(s) /\ Len(s) = 1 /\ s[1] = f
  BY <1>1 DEF f, IsStack, ClientPcs, Reading
<1> QED
  BY <1>1, <1>2 DEF f

LEMMA CrashKeeps == ASSUME IInv, NEW p \in Procs, Crash(p) PROVE IInv'
<1>1. Moved(p, 1, "dead", None)
  <2> DEFINE s == <<Frame("dead")>>
  <2>1. IsStack(s) /\ Len(s) = 1 /\ s[1].pc = "dead" /\ s[1].fd = None
    BY FreshStack
  <2>2. stack' = [stack EXCEPT ![p] = s]
    BY DEF Crash
  <2> HIDE DEF s
  <2> QED
    BY <2>1, <2>2 DEF Moved, IInv, Types, IsStack
<1>2. /\ Depth(p)' = 1 /\ Top(p)'.pc = "dead"
      /\ \A q \in Procs \ {p} : /\ Depth(q)' = Depth(q) /\ Top(q)' = Top(q)
                                /\ Uses(q)' = Uses(q) /\ Tries(q)' = Tries(q)
  BY <1>1, Places2 DEF IInv
<1>3. /\ p \in alive /\ crashes < MaxCrashes /\ crashes' = crashes + 1 /\ alive' = alive \ {p}
      /\ own' = [own EXCEPT ![p] = [n \in Names |-> None]]
      /\ stale' = stale /\ entry' = entry /\ full' = full
  BY DEF Crash
<1>4. \A q \in Procs, m \in Names : own'[q][m] = IF q = p THEN None ELSE own[q][m]
  BY <1>3 DEF IInv, Types
<1>5. InodesKept
  <2> DEFINE files == [i \in Inodes |-> IF inode[i].flock = p
                                        THEN [inode[i] EXCEPT !.flock = None] ELSE inode[i]]
  <2>1. inode \in [Inodes -> Files]
    BY DEF IInv, Types
  <2>2. ASSUME NEW i \in Inodes
        PROVE  /\ files[i] \in Files /\ files[i].pid = inode[i].pid /\ files[i].old = inode[i].old
    BY <2>1 DEF Files
  <2>3. Keep(files) /\ files \in [Inodes -> Files]
    BY <2>2 DEF Crash
  <2> HIDE DEF files
  <2> QED
    BY <2>2, <2>3, KeptInodes
<1>6. Types'
  <2>1. own' \in [Procs -> [Names -> Inodes \cup {None}]]
    BY <1>3 DEF IInv, Types
  <2>2. crashes' \in 0..MaxCrashes
    BY <1>3, LockFileAssumption DEF IInv, Types
  <2> QED
    BY <1>1, <1>3, <1>5, <2>1, <2>2 DEF IInv, Types, Moved, InodesKept
<1>7. Stacks'
  <2>1. 1 <= Levels + 1
    BY LockFileAssumption
  <2> QED
    BY <1>1, <1>3, <2>1, StacksKept DEF InLock
<1>8. Descriptors'
  BY <1>2, <1>4 DEF IInv, Descriptors, Opened, InLock
<1>9. OneName' /\ OneOwner'
  BY <1>3, <1>4 DEF IInv, Owners, OneName, OneOwner
<1>10. \A q \in Procs, m \in Names : Full(q, m)' <=> Full(q, m) /\ q # p
  <2>1. ASSUME NEW q \in Procs, NEW m \in Names
        PROVE  Full(q, m)' <=> Full(q, m) /\ q # p
    BY <1>2, <1>3 DEF Full
  <2> QED
    BY <2>1
<1>11. NamedWhileOpen'
  <2>1. ASSUME NEW q \in Procs, NEW m \in Names, own'[q][m] # None
        PROVE  IF Top(q)'.pc = "close" THEN \A l \in Names : own'[q][m] # entry'[l]
                                       ELSE own'[q][m] = entry'[m]
    BY <1>2, <1>3, <1>4, <2>1 DEF IInv, Owners, NamedWhileOpen
  <2>2. ASSUME NEW q \in Procs, NEW m \in Names, Full(q, m)', NEW r \in Procs, NEW l \in Names
        PROVE  entry[m] # None /\ own'[r][l] # entry[m] /\ (Full(r, m)' => r = q)
    <3>1. entry[m] # None /\ own[r][l] # entry[m] /\ (Full(r, m) => r = q)
      BY <1>10, <2>2 DEF IInv, Owners, NamedWhileOpen
    <3> QED
      BY <1>4, <1>10, <3>1
  <2> QED
    BY <1>3, <2>1, <2>2 DEF NamedWhileOpen
<1>12. Stamped'
  <2>1. ASSUME NEW q \in Procs, NEW m \in Names, NEW j \in Inodes,
               own'[q][m] = j \/ (Full(q, m)' /\ entry[m] = j)
        PROVE  inode'[j].pid = q /\ ~inode'[j].old
    <3>1. InUse(j)'
      BY <1>3, <2>1 DEF InUse
    <3>2. j # None
      BY LockFileAssumption DEF None
    <3>3. own[q][m] = j \/ (Full(q, m) /\ entry[m] = j)
      BY <1>4, <1>10, <2>1, <3>2
    <3> QED
      BY <3>1, <3>3, <1>5 DEF InodesKept, IInv, Owners, Stamped
  <2> QED
    BY <1>3, <2>1 DEF Stamped
<1>13. UnusedBlank'
  BY <1>5 DEF InodesKept, UnusedBlank
<1>14. ASSUME NEW j \in Inodes
       PROVE  Owned(j)' <=> \E q \in Procs \ {p}, l \in Names :
                              own[q][l] = j \/ (Full(q, l) /\ entry[l] = j)
  <2>1. Owned(j)' <=>
          \E q \in Procs, l \in Names : own'[q][l] = j \/ (Full(q, l)' /\ entry'[l] = j)
    BY <1>6, <1>7, <1>8, OwnersAreNext DEF OwnersInAll
  <2>2. j # None
    BY LockFileAssumption DEF None
  <2> QED
    BY <1>3, <1>4, <1>10, <2>1, <2>2
<1>15. ASSUME NEW j \in Inodes
       PROVE  Owned(j) <=> \E q \in Procs, l \in Names :
                             own[q][l] = j \/ (Full(q, l) /\ entry[l] = j)
  BY OwnersAre DEF OwnersInAll, IInv
<1>16. ASSUME NEW m \in Names, entry[m] # None
       PROVE  LET j == entry[m]
              IN  /\ j \in Inodes
                  /\ Orphan(m) <=> ~Owned(j)
                  /\ Orphan(m)' <=> ~\E q \in Procs \ {p}, l \in Names :
                                       own[q][l] = j \/ (Full(q, l) /\ entry[l] = j)
  <2>1. entry[m] \in Inodes
    BY <1>16 DEF IInv, Types
  <2>2. \A j \in Inodes : j = entry[m] => (Owned(entry[m])' <=> Owned(j)')
    BY <1>3 DEF Owned
  <2> QED
    BY <1>3, <1>14, <1>16, <2>1, <2>2 DEF Orphan
<1>17. \A m \in Names : Orphan(m) => Orphan(m)'
  <2> SUFFICES ASSUME NEW m \in Names, Orphan(m) PROVE Orphan(m)'
    OBVIOUS
  <2>1. entry[m] # None
    BY DEF Orphan
  <2> QED
    BY <1>15, <1>16, <2>1
<1>18. Removers'
  BY <1>1, <1>17, RemoversKept
<1> DEFINE c == IF Top(p).pc \in {"flock", "write", "full"} THEN Tries(p) ELSE Uses(p)
<1>19. ASSUME NEW m \in Names, Orphan(m)', m # c
       PROVE  Orphan(m)
  <2> SUFFICES ASSUME entry[m] \in Inodes,
                      NEW l \in Names, own[p][l] = entry[m] \/ (Full(p, l) /\ entry[l] = entry[m])
               PROVE  FALSE
    <3>1. entry[m] # None
      BY <1>3, <1>19 DEF Orphan
    <3> QED
      BY <1>15, <1>16, <1>19, <3>1
  <2>1. entry[m] # None
    BY LockFileAssumption DEF None
  <2>2. CASE own[p][l] = entry[m]
    <3>1. own[p][l] # None /\ Opened(p, l)
      BY <2>1, <2>2 DEF IInv, Descriptors
    <3>2. entry[l] = entry[m] /\ Top(p).pc # "close"
      BY <2>2, <3>1 DEF IInv, Owners, NamedWhileOpen
    <3>3. l = m
      BY <2>1, <3>2 DEF IInv, Owners, OneName
    <3> QED
      BY <1>19, <3>1, <3>2, <3>3 DEF Opened, InLock
  <2>3. CASE Full(p, l) /\ entry[l] = entry[m]
    <3>1. l = m
      BY <2>1, <2>3 DEF IInv, Owners, OneName
    <3> QED
      BY <1>19, <2>3, <3>1 DEF Full
  <2> QED
    BY <2>2, <2>3
<1>20. Climbed' \subseteq Climbed \cup {c}
  <2>1. ASSUME NEW m \in Names, NEW q \in Procs, Depth(q)' > m + 2
        PROVE  Depth(q) > m + 2
    BY <1>2, <2>1 DEF Names
  <2> QED
    BY <1>19, <2>1 DEF Climbed
<1>21. Cardinality(Climbed') <= crashes'
  <2> HIDE DEF c
  <2>1. /\ IsFiniteSet(Climbed \cup {c})
        /\ Cardinality(Climbed \cup {c}) <= Cardinality(Climbed) + 1
    <3>1. /\ IsFiniteSet(Climbed \cup {c})
          /\ Cardinality(Climbed \cup {c}) =
               IF c \in Climbed THEN Cardinality(Climbed) ELSE Cardinality(Climbed) + 1
      BY NamesFinite, FS_AddElement
    <3> QED
      BY <3>1, NamesFinite
  <2>2. Cardinality(Climbed') <= Cardinality(Climbed \cup {c}) /\ Cardinality(Climbed') \in Nat
        /\ Cardinality(Climbed \cup {c}) \in Nat
    BY <1>20, <2>1, FS_Subset, FS_CardinalityType
  <2> QED
    BY <1>3, <2>1, <2>2, NamesFinite DEF IInv, Types
<1> QED
  BY <1>6, <1>7, <1>8, <1>9, <1>11, <1>12, <1>13, <1>18, <1>21 DEF IInv, Owners

LEMMA RestartKeeps == ASSUME IInv, NEW p \in Procs, Restart(p) PROVE IInv'
<1>1. /\ p \notin alive /\ alive' = alive \cup {p}
      /\ stale' = stale /\ entry' = entry /\ inode' = inode /\ own' = own
      /\ crashes' = crashes /\ full' = full
  BY DEF Restart, counts
<1>2. Top(p).pc = "dead" /\ Top(p).fd = None
  BY <1>1, Places DEF IInv, Stacks, Reading
<1>3. Moved(p, 1, "out", None)
  <2> DEFINE s == <<Frame("out")>>
  <2>1. IsStack(s) /\ Len(s) = 1 /\ s[1].pc = "out" /\ s[1].fd = None
    BY FreshStack
  <2>2. stack' = [stack EXCEPT ![p] = s]
    BY DEF Restart
  <2> HIDE DEF s
  <2> QED
    BY <2>1, <2>2 DEF Moved, IInv, Types, IsStack
<1>4. /\ Depth(p)' = 1 /\ Top(p)'.pc = "out"
      /\ \A q \in Procs \ {p} : /\ Depth(q)' = Depth(q) /\ Top(q)' = Top(q)
                                /\ Uses(q)' = Uses(q) /\ Tries(q)' = Tries(q)
  BY <1>3, Places2 DEF IInv
<1>5. InodesKept
  BY <1>1, <1>2, <1>3, SameInodes DEF IInv, Types
<1>6. Types'
  BY <1>1, <1>3 DEF IInv, Types, Moved
<1>7. Stacks'
  <2>1. 1 <= Levels + 1
    BY LockFileAssumption
  <2> QED
    BY <1>1, <1>3, <2>1, StacksKept DEF InLock
<1>8. Descriptors'
  BY <1>1, <1>2, <1>4 DEF IInv, Descriptors, Opened, InLock
<1>9. \A q \in Procs, m \in Names : Full(q, m)' <=> Full(q, m)
  <2>1. ASSUME NEW q \in Procs, NEW m \in Names
        PROVE  Full(q, m)' <=> Full(q, m)
    BY <1>1, <1>2, <1>4 DEF Full
  <2> QED
    BY <2>1
<1>10. OneName' /\ OneOwner' /\ UnusedBlank'
  BY <1>1, <1>5 DEF IInv, Owners, OneName, OneOwner, UnusedBlank, InodesKept
<1>11. NamedWhileOpen'
  <2>1. ASSUME NEW q \in Procs, NEW m \in Names, own[q][m] # None
        PROVE  Top(q)'.pc = Top(q).pc
    BY <1>2, <1>4, <2>1 DEF IInv, Descriptors, Opened, InLock
  <2> QED
    BY <1>1, <1>9, <2>1 DEF IInv, Owners, NamedWhileOpen
<1>12. Stamped'
  BY <1>1, <1>9 DEF IInv, Owners, Stamped
<1>13. \A j \in Inodes : Owned(j)' <=> Owned(j)
  <2>1. OwnersInAll /\ OwnersInAll'
    BY <1>6, <1>7, <1>8, OwnersAre, OwnersAreNext DEF IInv
  <2> SUFFICES ASSUME NEW j \in Inodes PROVE Owned(j)' <=> Owned(j)
    OBVIOUS
  <2>2. Owned(j) <=>
          \E q \in Procs, l \in Names : own[q][l] = j \/ (Full(q, l) /\ entry[l] = j)
    BY <2>1 DEF OwnersInAll
  <2>3. Owned(j)' <=>
          \E q \in Procs, l \in Names : own'[q][l] = j \/ (Full(q, l)' /\ entry'[l] = j)
    BY <2>1 DEF OwnersInAll
  <2> QED
    BY <1>1, <1>9, <2>2, <2>3
<1>14. \A m \in Names : Orphan(m)' <=> Orphan(m)
  BY <1>1, <1>13, OrphansKept DEF IInv
<1>15. Removers'
  BY <1>3, <1>14, RemoversKept
<1>16. Climbed' \subseteq Climbed
  BY <1>4, <1>14 DEF Climbed, Names
<1>17. Cardinality(Climbed') <= crashes'
  BY <1>1, <1>16, FewClimbed
<1> QED
  BY <1>6, <1>7, <1>8, <1>10, <1>11, <1>12, <1>15, <1>17 DEF IInv, Owners

\* A file of a process that runs does not get old, as long as nobody is slow.
LEMMA GetOldKeeps == ASSUME IInv, ~Slow, NEW i \in Inodes, GetOld(i) PROVE IInv'
<1>1. InUse(i) /\ ~Owned(i) /\ inode' = [inode EXCEPT ![i].old = TRUE]
      /\ UNCHANGED <<stale, entry, own, alive, stack, crashes, full>>
  BY DEF GetOld, counts
<1>2. inode' \in [Inodes -> Files]
      /\ \A j \in Inodes : /\ inode'[j].pid = inode[j].pid
                           /\ j # i => inode'[j] = inode[j]
  BY <1>1 DEF IInv, Types, Files
<1>3. Types'
  BY <1>1, <1>2 DEF IInv, Types
<1>4. Stacks' /\ Descriptors' /\ OneName' /\ OneOwner' /\ NamedWhileOpen'
  BY <1>1 DEF IInv, Stacks, Descriptors, Opened, Owners, OneName, OneOwner, NamedWhileOpen,
              Full, Depth, Top, Uses, Tries
<1>5. Stamped'
  <2>1. ASSUME NEW q \in Procs, NEW m \in Names, own[q][m] = i \/ (Full(q, m) /\ entry[m] = i)
        PROVE  FALSE
    BY <1>1, <2>1, OwnersAre DEF IInv, OwnersInAll
  <2>2. \A q \in Procs, m \in Names : Full(q, m)' <=> Full(q, m)
    BY <1>1 DEF Full, Top, Tries, Depth
  <2> QED
    BY <1>1, <1>2, <2>1, <2>2 DEF IInv, Owners, Stamped
<1>6. UnusedBlank'
  <2>1. \A j \in Inodes : InUse(j)' <=> InUse(j)
    BY <1>1 DEF InUse
  <2> QED
    BY <1>1, <1>2, <2>1 DEF IInv, Owners, UnusedBlank
<1>7. Removers'
  BY <1>1 DEF IInv, Removers, Orphan, Owned, Top, Tries, Depth
<1>8. Climbed' = Climbed
  BY <1>1 DEF Climbed, Orphan, Owned, Top, Tries, Depth
<1> QED
  BY <1>1, <1>3, <1>4, <1>5, <1>6, <1>7, <1>8 DEF IInv, Owners

LEMMA InitIInv == Init => IInv
<1> SUFFICES ASSUME Init PROVE IInv
  OBVIOUS
<1>1. ASSUME NEW p \in Procs
      PROVE  /\ IsStack(stack[p]) /\ Depth(p) = 1 /\ Top(p).pc = "out"
  BY FreshStack DEF Init, Depth, Top
<1>2. Types
  <2>1. Blank \in Files
    BY DEF Blank, Files
  <2>2. stack \in [Procs -> Seq(Frames)]
    BY <1>1 DEF Init, IsStack
  <2> QED
    BY <2>1, <2>2, LockFileAssumption DEF Init, Types
<1>3. Stacks
  <2>1. 1 <= Levels + 1
    BY LockFileAssumption
  <2> QED
    BY <1>1, <2>1 DEF Init, Stacks, InLock
<1>4. Descriptors
  BY <1>1 DEF Init, Descriptors, Opened, InLock
<1>5. Owners
  <2>1. \A p \in Procs, n \in Names : own[p][n] = None /\ ~Full(p, n)
    BY <1>1 DEF Init, Full
  <2>2. \A i \in Inodes : inode[i] = Blank /\ i # None
    BY LockFileAssumption DEF Init, None
  <2> QED
    <3>1. OneName /\ OneOwner
      BY <2>1 DEF Init, OneName, OneOwner
    <3>2. NamedWhileOpen
      BY <2>1 DEF NamedWhileOpen
    <3>3. Stamped /\ UnusedBlank
      BY <2>1, <2>2 DEF Stamped, UnusedBlank
    <3> QED
      BY <3>1, <3>2, <3>3 DEF Owners
<1>6. Removers
  BY <1>1 DEF Removers
<1>7. Climbed = {}
  BY <1>1 DEF Climbed, Orphan, Init, Names
<1> QED
  BY <1>2, <1>3, <1>4, <1>5, <1>6, <1>7, FS_EmptySet DEF IInv, Init

LEMMA NextIInv == ~Slow /\ IInv /\ [Next]_vars => IInv'
<1> SUFFICES ASSUME ~Slow, IInv, [Next]_vars PROVE IInv'
  OBVIOUS
<1>1. ASSUME NEW p \in Procs, Step(p) PROVE IInv'
  BY <1>1, CreateKeeps, FlockKeeps, WriteKeeps, RemoveFullKeeps, CheckKeeps, LookKeeps,
     FlockStaleKeeps, UnlinkStaleKeeps, CloseStaleKeeps, WaitKeeps, UnlockKeeps, CloseKeeps
     DEF Step
<1>2. ASSUME NEW p \in Procs, Lock(p) \/ WriteFails(p) \/ TimeOut(p) \/ Crash(p) \/ Restart(p)
      PROVE  IInv'
  BY <1>2, LockKeeps, WriteFailsKeeps, WaitKeeps, CrashKeeps, RestartKeeps
<1>3. ASSUME NEW i \in Inodes, GetOld(i) PROVE IInv'
  BY <1>3, GetOldKeeps
<1>4. CASE UNCHANGED vars
  BY <1>4 DEF vars, counts, IInv, Types, Stacks, Descriptors, Opened, Owners, OneName, OneOwner,
              NamedWhileOpen, Stamped, UnusedBlank, Removers, Climbed, Orphan, Owned, InUse, Full,
              Depth, Top, Uses, Tries
<1> QED
  BY <1>1, <1>2, <1>3, <1>4 DEF Next

-----------------------------------------------------------------------------
(* What is proved                                                          *)

\* The inductive invariant: the files of running processes have their names and
\* their owners, what looks stale has been left behind, and there are never more
\* files to climb over than there were crashes.
THEOREM Invariance == ~Slow => (Spec => []IInv)
<1> SUFFICES ASSUME ~Slow PROVE Spec => []IInv
  OBVIOUS
<1>1. IInv /\ [Next]_vars => IInv'
  BY NextIInv
<1> QED
  BY <1>1, InitIInv, PTL DEF Spec

LEMMA Sane == IInv => LocksSane
<1> SUFFICES ASSUME IInv PROVE LocksSane
  OBVIOUS
<1>1. \A p \in Procs : Depth(p) \in 1..Levels + 1
  BY Places DEF IInv
<1>2. ASSUME NEW p \in Procs, NEW n \in Names, NEW j \in {1, 2}, n + j <= Depth(p),
             stack[p][n + j].pc \in InLock \cup {"close", "flock", "write"}
      PROVE  n + j = Depth(p) /\ stack[p][n + j] = Top(p)
  <2>1. n + j \in Nat /\ n + j >= 1 /\ Depth(p) \in Nat
    BY <1>1, LockFileAssumption DEF Names
  <2>2. ASSUME n + j \in 1..Depth(p) - 1 PROVE FALSE
    BY <1>2, <2>2 DEF IInv, Stacks, IsStack, Depth, InLock
  <2> QED
    BY <1>2, <2>1, <2>2 DEF Top
<1>3. \A p \in Procs, n \in Names :
        /\ n = Uses(p)  <=> n + 1 = Depth(p)
        /\ n = Tries(p) <=> n + 2 = Depth(p)
  BY <1>1, LockFileAssumption DEF Names, Uses, Tries
<1>4. ASSUME NEW p \in Procs, NEW n \in Names
      PROVE  /\ n + 1 <= Depth(p) /\ stack[p][n + 1].pc \in InLock \cup {"close"}
                  <=> n = Uses(p) /\ Top(p).pc \in InLock \cup {"close"}
             /\ n + 2 <= Depth(p) /\ stack[p][n + 2].pc \in {"flock", "write"}
                  <=> n = Tries(p) /\ Top(p).pc \in {"flock", "write"}
  BY <1>1, <1>2, <1>3 DEF Top, InLock
<1>5. TypeOK
  <2>1. ASSUME NEW p \in Procs, NEW n \in Names
        PROVE  own[p][n] # None <=>
                 \/ n + 1 <= Depth(p) /\ stack[p][n + 1].pc \in InLock \cup {"close"}
                 \/ n + 2 <= Depth(p) /\ stack[p][n + 2].pc \in {"flock", "write"}
    BY <1>4 DEF IInv, Descriptors, Opened
  <2> QED
    BY <1>1, <2>1 DEF TypeOK, IInv, Types, Files, InLock
<1>6. Exclusion
  <2> SUFFICES ASSUME NEW p \in Procs, NEW n \in Names, Holds(p, n)
               PROVE  entry[n] # None /\ entry[n] = own[p][n]
    BY DEF Exclusion
  <2>1. n = Uses(p) /\ Top(p).pc \in InLock
    BY <1>2, <1>3 DEF Holds, InLock
  <2>2. own[p][n] # None /\ Top(p).pc # "close"
    BY <2>1 DEF IInv, Descriptors, Opened, InLock
  <2> QED
    BY <2>2 DEF IInv, Owners, NamedWhileOpen
<1> QED
  BY <1>5, <1>6 DEF LocksSane

\* As long as no process is held up for longer than the staleLockTime, whoever
\* has the lock, or an rmlock, has the file that has its name, so that no two
\* have it; and tryLock_sys(), removeStaleLock() and unlock() lose no descriptor.
THEOREM LocksAreSane == ~Slow => (Spec => []LocksSane)
BY Invariance, Sane, PTL

LEMMA OwnersRemove ==
  ASSUME IInv, Next, NEW n \in Names, NEW p \in alive,
         entry[n] # None, own[p][n] = entry[n], entry'[n] # entry[n]
  PROVE  stack'[p] # stack[p]
<1>1. p \in Procs /\ entry \in [Names -> Inodes \cup {None}]
  BY DEF IInv, Types
<1>2. ASSUME NEW q \in Procs, Create(q) PROVE FALSE
  BY <1>1, <1>2 DEF Create
<1>3. ASSUME NEW q \in Procs, RemoveFull(q) PROVE FALSE
  <2>1. entry' = [entry EXCEPT ![Tries(q)] = None] /\ q \in alive /\ Top(q).pc = "full"
    BY <1>3 DEF RemoveFull, At
  <2>2. Full(q, n)
    BY <1>1, <2>1 DEF Full
  <2> QED
    BY <1>1, <2>2 DEF IInv, Owners, NamedWhileOpen
<1>4. ASSUME NEW q \in Procs, UnlinkStale(q) PROVE FALSE
  <2>1. entry' = [entry EXCEPT ![Tries(q)] = None] /\ Top(q).pc = "unlinkStale"
    BY <1>4 DEF UnlinkStale, At
  <2>2. Orphan(n)
    BY <1>1, <2>1 DEF IInv, Removers
  <2> QED
    BY <2>2 DEF Orphan, Owned
<1>5. ASSUME NEW q \in Procs, Unlock(q) PROVE stack'[p] # stack[p]
  <2>1. entry' = [entry EXCEPT ![Uses(q)] = None] /\ Top(q).pc \in {"unlock", "in"}
        /\ Goto(q, "close")
    BY <1>5 DEF Unlock, At
  <2>2. n = Uses(q)
    BY <1>1, <2>1
  <2>3. own[q][n] # None /\ own[q][n] = entry[n]
    BY <2>1, <2>2 DEF IInv, Descriptors, Opened, InLock, Owners, NamedWhileOpen
  <2>4. p = q
    BY <1>1, <2>3 DEF IInv, Owners, OneOwner
  <2>5. Moved(q, Depth(q), "close", Top(q).fd)
    <3>1. "close" \in IF Depth(q) = 1 THEN ClientPcs ELSE TryPcs
      BY DEF ClientPcs, TryPcs
    <3> QED
      BY <2>1, <3>1, GotoMoves DEF IInv, Reading
  <2> QED
    BY <2>1, <2>4, <2>5 DEF Moved, Top
<1>6. ASSUME UNCHANGED entry PROVE FALSE
  BY <1>6
<1>7. ASSUME NEW q \in Procs, Step(q) PROVE stack'[p] # stack[p]
  BY <1>2, <1>3, <1>4, <1>5, <1>6, <1>7
     DEF Step, Flock, Write, Check, Recheck, OpenStale, FlockStale, CloseStale, Sleep, Close
<1>8. ASSUME NEW q \in Procs, Lock(q) \/ WriteFails(q) \/ TimeOut(q) \/ Crash(q) \/ Restart(q)
      PROVE  FALSE
  BY <1>6, <1>8 DEF Lock, WriteFails, TimeOut, Crash, Restart
<1>9. ASSUME NEW i \in Inodes, GetOld(i) PROVE FALSE
  BY <1>6, <1>9 DEF GetOld
<1> QED
  BY <1>7, <1>8, <1>9 DEF Next

\* "Ensure nobody else can delete the file while we have it" (removeStaleLock()):
\* as long as nobody is held up for longer than the staleLockTime, the name of a
\* file that a running process has created and still has open is removed by that
\* process only, whoever finds the file stale meanwhile.
THEOREM FilesAreRemovedByOwners == ~Slow => (Spec => NoForeignRemoval)
<1> SUFFICES ASSUME ~Slow PROVE Spec => NoForeignRemoval
  OBVIOUS
<1>1. IInv /\ [Next]_vars =>
        [\A n \in Names : \A p \in alive :
           entry[n] # None /\ own[p][n] = entry[n] /\ entry'[n] # entry[n]
             => stack'[p] # stack[p]]_vars
  BY OwnersRemove
<1>2. Spec => []IInv
  BY Invariance
<1> QED
  BY <1>1, <1>2, PTL DEF Spec, NoForeignRemoval

=============================================================================
