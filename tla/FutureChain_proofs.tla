------------------------- MODULE FutureChain_proofs -------------------------
(***************************************************************************)
(* TLAPS proofs about FutureChain, for a chain of any length and any       *)
(* number of cancelling threads: the chain is sound and each continuation  *)
(* is run once, none reads a result that is not there, and cancel() stops  *)
(* the functions linked below.                                             *)
(*                                                                         *)
(* The calls of a thread are numbered from the outermost, so that a call   *)
(* keeps its number for as long as it lasts.                               *)
(***************************************************************************)
EXTENDS FutureChain, TLAPS

Ops     == {"job", "client", "run", "set", "cancelChain"} \cup Cancels
Early   == {"check", "call", "pass", "raise", "cancel"}   \* nothing reported so far
JobPcs  == Early \cup {"finish", "destroyed", "clean"}
OtherPcs == {"out", "enter", "leave", "store", "lock", "links", "walk", "up", "next"}

FrameSet == [op : Ops, f : Futures, pc : JobPcs \cup OtherPcs,
             other : Futures \cup {Nobody}]

depth == [t \in Threads |-> Len(stack[t])]
frame == [t \in Threads |->
            [d \in 1..Len(stack[t]) |-> stack[t][Len(stack[t]) + 1 - d]]]

\* Thread t has such a call at level d.
Has(t, d, op, f) == /\ d \in 1..depth[t]
                    /\ frame[t][d].op = op /\ frame[t][d].f = f
HasAt(t, d, op, f, pc) == Has(t, d, op, f) /\ frame[t][d].pc = pc

-----------------------------------------------------------------------------
(* The invariant.                                                          *)

PcsOf(op) ==
  CASE op = "job"         -> JobPcs
    [] op = "client"      -> {"out"}
    [] op = "run"         -> {"enter", "leave"}
    [] op = "set"         -> {"enter", "store"}
    [] op = "cancelChain" -> {"lock", "up", "next"}
    [] OTHER              -> {"lock", "links", "walk"}

States == /\ kind \in [1..Last -> Kinds] /\ async \in [1..Last -> BOOLEAN] /\ promised \in BOOLEAN
          /\ future \in [Futures -> [finished : BOOLEAN, canceled : BOOLEAN,
                                     exception : BOOLEAN, result : BOOLEAN]]
          /\ link \in [Futures -> [stored : BOOLEAN, executed : BOOLEAN,
                                   state : {"Default", "Canceled", "Cleaned"},
                                   data : BOOLEAN, parent : BOOLEAN,
                                   type : Kinds \cup {"Unknown"}]]
          /\ queue \subseteq 1..Last /\ built \in 0..Last
          /\ jobs \in [Futures -> Nat] /\ called \in [Futures -> Nat]
          /\ takers \subseteq 1..Last /\ stopped \subseteq 1..Last
          /\ \A f \in 1..Last : async[f] => kind[f] = "then"

Stacks == stack \in [Threads -> Seq(FrameSet)]

\* The outermost call of each thread, ...
Outermost ==
  \A t \in Threads : depth[t] > 0 =>
    LET x == frame[t][1] IN
    /\ t = Owner   => x.op = "job" /\ x.f = 0
    /\ t = Builder => x.op = "set" /\ x.f = built /\ built < Last
    /\ t = Pool    => x.op = "job" /\ x.f > 0 /\ x.pc # "check"
    /\ t \in Cancellers => x.op \in {"client", "cancel", "cancelChain"}

\* ... what an outer call waits for, ...
Calls(x, y) ==
  \/ x.op = "job" /\ x.pc = "finish" /\ y.op = "cancel" /\ y.f = x.f
  \/ x.op = "job" /\ x.pc = "destroyed" /\ x.f = 0 /\ y.op = "cancelAndFinish" /\ y.f = 0
  \/ x.op = "job" /\ x.pc = "clean" /\ y.op = "run" /\ y.f = x.f
  \/ x.op = "run" /\ x.pc = "leave" /\ y.op = "job" /\ y.f = x.f + 1
  \/ x.op = "set" /\ x.pc = "store" /\ y.op = "job" /\ y.f = x.f + 1

Nested == \A t \in Threads : \A d \in 1..(depth[t] - 1) :
            Calls(frame[t][d], frame[t][d + 1])

\* ... and where each call may be.
Places ==
  \A t \in Threads : \A d \in 1..depth[t] :
    LET x == frame[t][d] IN
    /\ x.pc \in PcsOf(x.op)
    /\ x.op = "job" /\ x.f = 0 => x.pc \in {"call", "finish", "destroyed", "clean"}
    /\ x.op \in Cancels /\ x.pc = "walk" => x.other > x.f /\ x.other <= Last
    /\ x.op = "cancelChain" /\ x.pc \in {"up", "next"} => x.other \in Futures

Shape == Outermost /\ Nested /\ Places

-----------------------------------------------------------------------------
\* One job for each future.
OneJob ==
  \A t, v \in Threads : \A d \in 1..depth[t], e \in 1..depth[v] :
    /\ frame[t][d].op = "job" /\ frame[v][e].op = "job"
         /\ frame[t][d].f = frame[v][e].f => t = v /\ d = e
    /\ frame[t][d].op = "job" => frame[t][d].f \notin queue

\* The job of a continuation starts when the continuation is marked as executed.
Begun(f) == jobs[f] > 0 \/ f \in queue \/ \E t \in Threads : \E d \in 1..depth[t] : Has(t, d, "job", f)
Due(f)   == \E t \in Threads : \E d \in 1..depth[t] : HasAt(t, d, "job", f, "check")

Executed ==
  \A f \in 1..Last :
    /\ Begun(f) => link[f - 1].executed
    /\ link[f - 1].executed => jobs[f] = 1 \/ Due(f)

JobCounts ==
  /\ \A f \in Futures : jobs[f] <= 1 /\ called[f] <= 1
  /\ \A f \in 1..Last : (called[f] > 0 => jobs[f] = 1) /\ (f \in queue => jobs[f] = 1 /\ called[f] = 0)
  /\ jobs[0] = 0

\* Nothing is attached behind the futures there are.
Attached ==
  /\ \A f \in built..Last : /\ ~link[f].stored /\ ~link[f].data
                            /\ link[f].executed <=> HasAt(Builder, 1, "set", f, "store")
  /\ \A f \in Futures : /\ link[f].data /\ ~link[f].executed => link[f].stored
                        /\ link[f].parent => f > 0

\* A continuation that was not run when its future finished is about to be.
Comes(f) == \E t \in Threads : \E d \in 1..depth[t] :
              HasAt(t, d, "job", f, "destroyed") \/ HasAt(t, d, "run", f, "enter")
NoneForgotten ==
  \A f \in Futures : link[f].stored /\ ~link[f].executed /\ future[f].finished => Comes(f)

Once == OneJob /\ Executed /\ JobCounts /\ Attached /\ NoneForgotten

-----------------------------------------------------------------------------
\* An asynchronous function finds a result, or the exception, if it takes the QFuture.
Queued(f) == /\ ~future[f].finished /\ ~future[f].exception /\ kind[f] = "then"
             /\ f \notin takers => future[f - 1].result

\* The futures finish one after the other, each by its own job; one that
\* finishes has a result or is canceled.
Results ==
  /\ \A f \in Futures : link[f].executed => \A g \in 0..f : future[g].finished
  /\ \A f \in 1..Last : future[f].finished \/ future[f].exception => jobs[f] = 1
  /\ \A f \in Futures : future[f].finished => future[f].canceled \/ future[f].result
  /\ \A f \in queue : Queued(f)
  /\ \A f \in takers : kind[f] = "then" /\ jobs[f] = 1 /\ future[f - 1].exception

\* A continuation that is cleaned is not stored again, and the types are those
\* of the continuations.
Links ==
  /\ \A f \in Futures : link[f].state = "Cleaned" => ~link[f].data /\ future[f].finished
  /\ \A f \in 1..Last : /\ link[f - 1].data => link[f].type = kind[f]
                        /\ link[f].type \in {"Unknown", kind[f]}

\* How far the job of a future is, and what its innermost call leaves behind.
JobOk(x, innermost) ==
  /\ x.pc = "check" => jobs[x.f] = 0
  /\ x.pc # "check" /\ x.f > 0 => jobs[x.f] = 1
  /\ x.pc \in Early => called[x.f] = 0 /\ ~future[x.f].exception
  /\ x.pc \in Early \cup {"finish"} => ~future[x.f].finished
  /\ x.pc = "clean" \/ (x.pc = "destroyed" /\ innermost) => future[x.f].finished
  /\ x.pc = "finish" /\ innermost => future[x.f].canceled \/ future[x.f].result
  /\ x.f > 0 /\ (x.pc = "pass" \/ (x.pc = "call" /\ kind[x.f] = "then" /\ x.f \notin takers))
       => future[x.f - 1].result

\* What cancel() has done so far: it leaves no link behind it as it was.
CancelOk(x) ==
  /\ x.pc \in {"links", "walk"} =>
       future[x.f].canceled /\ (x.op = "cancelAndFinish" => future[x.f].finished)
  /\ x.pc = "walk" =>
       /\ link[x.other].type = kind[x.other]
       /\ \A h \in (x.f + 1)..(x.other - 1) : link[h].state # "Default"

CallOk(x, innermost) ==
  /\ x.op = "job" => JobOk(x, innermost)
  /\ x.op \in Cancels => CancelOk(x)
  /\ x.op = "run" /\ x.pc = "leave" => link[x.f].executed /\ x.f < built

Progress == \A t \in Threads : \A d \in 1..depth[t] : CallOk(frame[t][d], d = depth[t])

-----------------------------------------------------------------------------
\* Whoever continues future p finds its chain canceled.
Marked(p) == link[p].state = "Canceled" /\ link[p].data

\* cancel() has gone down from p to g: all that have not begun are marked.
Swept(p, g) ==
  /\ future[p].canceled
  /\ \A h \in (p + 1)..g : kind[h] = "then" /\ (jobs[h] = 0 => h - 1 = p \/ Marked(h - 1))

\* Future p is canceled, or will be before it finishes, and not by an exception.
Muted(p) ==
  /\ ~future[p].exception
  /\ \/ future[p].canceled
     \/ \E t \in Threads : depth[t] > 0 /\ LET x == frame[t][depth[t]] IN
          /\ x.f = p
          /\ \/ x.op = "job" /\ x.pc = "cancel"
             \/ x.op = "cancel" /\ x.pc = "lock" /\ depth[t] > 1

\* cancel() has found p canceled: from p down to g one cancels the next.
Hushed(p, g) ==
  \A h \in (p + 1)..g :
    /\ kind[h] = "then"
    /\ jobs[h] = 0 /\ (h - 1 = p \/ jobs[h - 1] = 1) => Muted(h - 1)

\* The function of g is called, or about to be.
Callable(g) == \/ called[g] > 0 \/ g \in queue
               \/ \E t \in Threads : \E d \in 1..depth[t] : HasAt(t, d, "job", g, "call")

\* What should be stopped and has not begun is below such a future; what is called
\* all the same takes the QFuture.
StopOk(g) ==
  /\ Callable(g) => g \in takers
  /\ jobs[g] = 0 => \E p \in 0..(g - 1) : Swept(p, g) \/ Hushed(p, g)

Stopped == \A g \in stopped : StopOk(g)

IInv == States /\ Stacks /\ Shape /\ Once /\ Results /\ Links /\ Progress /\ Stopped

-----------------------------------------------------------------------------
(* What a step does to the calls, level by level.                          *)

TopOf(t) == frame[t][depth[t]]

Elsewhere(t) == \A v \in Threads \ {t} : depth'[v] = depth[v] /\ frame'[v] = frame[v]
Below_(t, n)  == \A d \in 1..n : frame'[t][d] = frame[t][d]

Replaces(t, x) ==
  /\ Elsewhere(t) /\ depth'[t] = depth[t] /\ Below_(t, depth[t] - 1)
  /\ frame'[t][depth[t]] = x
Pushes(t, x, y) ==
  /\ Elsewhere(t) /\ depth'[t] = depth[t] + 1 /\ Below_(t, depth[t] - 1)
  /\ frame'[t][depth[t]] = y /\ frame'[t][depth[t] + 1] = x
Pops(t) ==
  /\ Elsewhere(t) /\ depth'[t] = depth[t] - 1 /\ Below_(t, depth[t] - 1)
Starts(t, x) ==
  /\ Elsewhere(t) /\ depth[t] = 0 /\ depth'[t] = 1 /\ frame'[t][1] = x

With(x, pc) == [op |-> x.op, f |-> x.f, pc |-> pc, other |-> x.other]
WithOther(x, pc, o) == [op |-> x.op, f |-> x.f, pc |-> pc, other |-> o]

LEMMA FramesType ==
  ASSUME Stacks
  PROVE  /\ \A t \in Threads : depth[t] \in Nat
         /\ \A t \in Threads : \A d \in 1..depth[t] : frame[t][d] \in FrameSet
         /\ \A t \in Threads : stack[t] = <<>> <=> depth[t] = 0
         /\ \A t \in Threads : depth[t] > 0 => Top(t) = TopOf(t) /\ TopOf(t) \in FrameSet
<1> USE DEF Stacks
<1>1. ASSUME NEW t \in Threads
      PROVE  /\ stack[t] \in Seq(FrameSet) /\ depth[t] = Len(stack[t]) /\ depth[t] \in Nat
             /\ stack[t] = <<>> <=> depth[t] = 0
             /\ \A d \in 1..depth[t] : frame[t][d] = stack[t][depth[t] + 1 - d]
             /\ \A d \in 1..depth[t] : depth[t] + 1 - d \in 1..Len(stack[t])
  <2>1. stack[t] \in Seq(FrameSet) /\ depth[t] = Len(stack[t]) /\ depth[t] \in Nat
    BY <1>1 DEF depth
  <2>2. stack[t] = <<>> <=> depth[t] = 0
    BY <2>1
  <2>3. \A d \in 1..depth[t] : frame[t][d] = stack[t][depth[t] + 1 - d]
    BY <1>1, <2>1 DEF frame
  <2>4. \A n \in Nat : \A d \in 1..n : n + 1 - d \in 1..n
    OBVIOUS
  <2> QED
    BY <2>1, <2>2, <2>3, <2>4
<1>2. ASSUME NEW t \in Threads, NEW d \in 1..depth[t] PROVE frame[t][d] \in FrameSet
  <2>1. \A s \in Seq(FrameSet) : \A i \in 1..Len(s) : s[i] \in FrameSet
    OBVIOUS
  <2>2. stack[t][depth[t] + 1 - d] \in FrameSet
    BY <1>1, <2>1
  <2> QED
    BY <1>1, <2>2
<1>3. ASSUME NEW t \in Threads, depth[t] > 0 PROVE Top(t) = TopOf(t) /\ TopOf(t) \in FrameSet
  <2>1. depth[t] \in 1..depth[t] /\ depth[t] + 1 - depth[t] = 1
    BY <1>1, <1>3
  <2>2. frame[t][depth[t]] = stack[t][1]
    BY <2>1, <1>1
  <2> QED
    BY <2>1, <2>2, <1>1, <1>2, <1>3 DEF Top, TopOf
<1> QED
  BY <1>1, <1>2, <1>3

\* The four ways to change the stack of a thread.
LEMMA ReplaceMove ==
  ASSUME Stacks, NEW t \in Threads, depth[t] > 0, NEW x \in FrameSet,
         stack' = [stack EXCEPT ![t] = <<x>> \o Tail(@)]
  PROVE  Stacks' /\ Replaces(t, x)
<1>0. stack \in [Threads -> Seq(FrameSet)]
  BY DEF Stacks
<1>1. depth[t] = Len(stack[t]) /\ stack[t] \in Seq(FrameSet) /\ Len(stack[t]) \in Nat /\ stack[t] # <<>>
  BY <1>0 DEF depth
<1> DEFINE s == stack[t]
           r == <<x>> \o Tail(s)
<1>2. /\ r \in Seq(FrameSet) /\ Len(r) = Len(s) /\ r[1] = x
      /\ \A i \in 2..Len(s) : r[i] = s[i]
  BY <1>1
<1>3. stack' = [stack EXCEPT ![t] = r]
  OBVIOUS
<1> HIDE DEF r
<1>4. Stacks'
  BY <1>0, <1>2, <1>3 DEF Stacks
<1>5. /\ depth'[t] = Len(r)
      /\ frame'[t] = [d \in 1..Len(r) |-> r[Len(r) + 1 - d]]
      /\ Elsewhere(t)
  BY <1>0, <1>3 DEF depth, frame, Elsewhere
<1>6. frame[t] = [d \in 1..Len(s) |-> s[Len(s) + 1 - d]]
  BY DEF frame
<1>7. \A d \in 1..(Len(s) - 1) : d \in 1..Len(s) /\ Len(s) + 1 - d \in 2..Len(s)
  BY <1>1
<1>8. Below_(t, depth[t] - 1)
  <2>1. ASSUME NEW d \in 1..(Len(s) - 1) PROVE frame'[t][d] = frame[t][d]
    <3>1. frame'[t][d] = r[Len(r) + 1 - d]
      BY <1>1, <1>2, <1>5, <1>7
    <3>2. frame[t][d] = s[Len(s) + 1 - d]
      BY <1>6, <1>7
    <3>3. r[Len(r) + 1 - d] = s[Len(s) + 1 - d]
      BY <1>2, <1>7
    <3> QED
      BY <3>1, <3>2, <3>3
  <2> QED
    BY <2>1, <1>1 DEF Below_
<1>9. frame'[t][depth[t]] = x
  <2>1. Len(s) \in 1..Len(s) /\ Len(s) + 1 - Len(s) = 1
    BY <1>1
  <2> QED
    BY <1>1, <1>2, <1>5, <2>1
<1> QED
  BY <1>1, <1>2, <1>4, <1>5, <1>8, <1>9 DEF Replaces

LEMMA PushMove ==
  ASSUME Stacks, NEW t \in Threads, depth[t] > 0, NEW x \in FrameSet, NEW y \in FrameSet,
         stack' = [stack EXCEPT ![t] = <<x, y>> \o Tail(@)]
  PROVE  Stacks' /\ Pushes(t, x, y)
<1>0. stack \in [Threads -> Seq(FrameSet)]
  BY DEF Stacks
<1>1. depth[t] = Len(stack[t]) /\ stack[t] \in Seq(FrameSet) /\ Len(stack[t]) \in Nat /\ stack[t] # <<>>
  BY <1>0 DEF depth
<1> DEFINE s == stack[t]
           r == <<x, y>> \o Tail(s)
<1>2. /\ r \in Seq(FrameSet) /\ Len(r) = Len(s) + 1 /\ r[1] = x /\ r[2] = y
      /\ \A i \in 3..Len(s) + 1 : r[i] = s[i - 1]
  <2>1. /\ Tail(s) \in Seq(FrameSet) /\ Len(Tail(s)) = Len(s) - 1
        /\ \A i \in 1..Len(s) - 1 : Tail(s)[i] = s[i + 1]
    BY <1>1
  <2>2. \A i \in 3..Len(s) + 1 : r[i] = Tail(s)[i - 2]
    BY <1>1, <2>1
  <2>3. \A i \in 3..Len(s) + 1 : i - 2 \in 1..Len(s) - 1 /\ (i - 2) + 1 = i - 1
    BY <1>1
  <2> QED
    BY <1>1, <2>1, <2>2, <2>3
<1>3. stack' = [stack EXCEPT ![t] = r]
  OBVIOUS
<1> HIDE DEF r
<1>4. Stacks'
  BY <1>0, <1>2, <1>3 DEF Stacks
<1>5. /\ depth'[t] = Len(r)
      /\ frame'[t] = [d \in 1..Len(r) |-> r[Len(r) + 1 - d]]
      /\ Elsewhere(t)
  BY <1>0, <1>3 DEF depth, frame, Elsewhere
<1>6. frame[t] = [d \in 1..Len(s) |-> s[Len(s) + 1 - d]]
  BY DEF frame
<1>7. \A d \in 1..(Len(s) - 1) : /\ d \in 1..Len(s) /\ d \in 1..Len(r)
                                 /\ Len(r) + 1 - d \in 3..Len(s) + 1
                                 /\ (Len(r) + 1 - d) - 1 = Len(s) + 1 - d
  BY <1>1, <1>2
<1>8. Below_(t, depth[t] - 1)
  <2>1. ASSUME NEW d \in 1..(Len(s) - 1) PROVE frame'[t][d] = frame[t][d]
    <3>1. frame'[t][d] = r[Len(r) + 1 - d]
      BY <1>1, <1>2, <1>5, <1>7
    <3>2. frame[t][d] = s[Len(s) + 1 - d]
      BY <1>6, <1>7
    <3>3. r[Len(r) + 1 - d] = s[Len(s) + 1 - d]
      BY <1>2, <1>7
    <3> QED
      BY <3>1, <3>2, <3>3
  <2> QED
    BY <2>1, <1>1 DEF Below_
<1>9. frame'[t][depth[t]] = y /\ frame'[t][depth[t] + 1] = x
  <2>1. /\ Len(s) \in 1..Len(r) /\ Len(r) + 1 - Len(s) = 2
        /\ Len(s) + 1 \in 1..Len(r) /\ Len(r) + 1 - (Len(s) + 1) = 1
    BY <1>1, <1>2
  <2> QED
    BY <1>1, <1>2, <1>5, <2>1
<1> QED
  BY <1>1, <1>2, <1>4, <1>5, <1>8, <1>9 DEF Pushes

LEMMA PopMove ==
  ASSUME Stacks, NEW t \in Threads, depth[t] > 0,
         stack' = [stack EXCEPT ![t] = Tail(@)]
  PROVE  Stacks' /\ Pops(t)
<1>0. stack \in [Threads -> Seq(FrameSet)]
  BY DEF Stacks
<1>1. depth[t] = Len(stack[t]) /\ stack[t] \in Seq(FrameSet) /\ Len(stack[t]) \in Nat /\ stack[t] # <<>>
  BY <1>0 DEF depth
<1> DEFINE s == stack[t]
           r == Tail(s)
<1>2. /\ r \in Seq(FrameSet) /\ Len(r) = Len(s) - 1
      /\ \A i \in 1..Len(s) - 1 : r[i] = s[i + 1]
  BY <1>1
<1>3. stack' = [stack EXCEPT ![t] = r]
  OBVIOUS
<1> HIDE DEF r
<1>4. Stacks'
  BY <1>0, <1>2, <1>3 DEF Stacks
<1>5. /\ depth'[t] = Len(r)
      /\ frame'[t] = [d \in 1..Len(r) |-> r[Len(r) + 1 - d]]
      /\ Elsewhere(t)
  BY <1>0, <1>3 DEF depth, frame, Elsewhere
<1>6. frame[t] = [d \in 1..Len(s) |-> s[Len(s) + 1 - d]]
  BY DEF frame
<1>7. \A d \in 1..(Len(s) - 1) : /\ d \in 1..Len(s) /\ d \in 1..Len(r)
                                 /\ Len(r) + 1 - d \in 1..Len(s) - 1
                                 /\ (Len(r) + 1 - d) + 1 = Len(s) + 1 - d
  BY <1>1, <1>2
<1>8. Below_(t, depth[t] - 1)
  <2>1. ASSUME NEW d \in 1..(Len(s) - 1) PROVE frame'[t][d] = frame[t][d]
    <3>1. frame'[t][d] = r[Len(r) + 1 - d]
      BY <1>1, <1>2, <1>5, <1>7
    <3>2. frame[t][d] = s[Len(s) + 1 - d]
      BY <1>6, <1>7
    <3>3. r[Len(r) + 1 - d] = s[Len(s) + 1 - d]
      BY <1>2, <1>7
    <3> QED
      BY <3>1, <3>2, <3>3
  <2> QED
    BY <2>1, <1>1 DEF Below_
<1> QED
  BY <1>1, <1>2, <1>4, <1>5, <1>8 DEF Pops

LEMMA StartMove ==
  ASSUME Stacks, NEW t \in Threads, stack[t] = <<>>, NEW x \in FrameSet,
         stack' = [stack EXCEPT ![t] = <<x>>]
  PROVE  Stacks' /\ Starts(t, x)
<1>0. stack \in [Threads -> Seq(FrameSet)]
  BY DEF Stacks
<1>1. depth[t] = 0
  BY <1>0 DEF depth
<1>2. <<x>> \in Seq(FrameSet) /\ Len(<<x>>) = 1
  OBVIOUS
<1>3. Stacks'
  BY <1>0, <1>2 DEF Stacks
<1>4. /\ depth'[t] = 1 /\ Elsewhere(t)
      /\ frame'[t] = [d \in 1..1 |-> <<x>>[2 - d]]
  BY <1>0, <1>2 DEF depth, frame, Elsewhere
<1> QED
  BY <1>1, <1>3, <1>4 DEF Starts


AllPcs == JobPcs \cup OtherPcs

LEMMA TopMoves ==
  ASSUME Stacks, NEW t \in Threads
  PROVE  /\ \A op, pc : At(t, op, pc) =>
              /\ depth[t] > 0 /\ Top(t) = TopOf(t) /\ TopOf(t) \in FrameSet
              /\ TopOf(t).op = op /\ TopOf(t).pc = pc
         /\ \A op, pc : depth[t] > 0 /\ TopOf(t).op = op /\ TopOf(t).pc = pc => At(t, op, pc)
<1>1. depth[t] > 0 <=> stack[t] # <<>>
  BY FramesType
<1> QED
  BY <1>1, FramesType DEF At

LEMMA TwoFields ==
  ASSUME NEW x \in FrameSet, NEW pc \in AllPcs, NEW o \in Futures
  PROVE  [x EXCEPT !.pc = pc, !.other = o] = WithOther(x, pc, o)
<1> DEFINE y == [x EXCEPT !.pc = pc, !.other = o]
           z == WithOther(x, pc, o)
<1>1. /\ y \in FrameSet /\ y.op = x.op /\ y.f = x.f /\ y.pc = pc /\ y.other = o
  BY DEF FrameSet, AllPcs
<1>2. /\ z \in FrameSet /\ z.op = x.op /\ z.f = x.f /\ z.pc = pc /\ z.other = o
  BY DEF FrameSet, AllPcs, WithOther
<1> HIDE DEF y, z
<1>3. y = z
  BY <1>1, <1>2 DEF FrameSet
<1> QED
  BY <1>3 DEF y, z

LEMMA Moves ==
  ASSUME Stacks, NEW t \in Threads, depth[t] > 0
  PROVE  /\ \A pc \in AllPcs : Goto(t, pc) => Stacks' /\ Replaces(t, With(TopOf(t), pc))
         /\ \A pc \in AllPcs, o \in Futures : GoOnAt(t, pc, o) =>
              Stacks' /\ Replaces(t, WithOther(TopOf(t), pc, o))
         /\ \A pc \in AllPcs, op \in Ops, f \in Futures, there \in AllPcs :
              Call(t, pc, Frame(op, f, there)) =>
                Stacks' /\ Pushes(t, Frame(op, f, there), With(TopOf(t), pc))
         /\ \A op \in Ops, f \in Futures, there \in AllPcs :
              Become(t, Frame(op, f, there)) => Stacks' /\ Replaces(t, Frame(op, f, there))
         /\ Return(t) => Stacks' /\ Pops(t)
<1>0. /\ stack \in [Threads -> Seq(FrameSet)] /\ stack[t] # <<>>
      /\ Head(stack[t]) = TopOf(t) /\ TopOf(t) \in FrameSet
  BY FramesType DEF Stacks, Top
<1>1. ASSUME NEW pc \in AllPcs, Goto(t, pc) PROVE Stacks' /\ Replaces(t, With(TopOf(t), pc))
  <2>1. /\ With(TopOf(t), pc) \in FrameSet
        /\ [Head(stack[t]) EXCEPT !.pc = pc] = With(TopOf(t), pc)
    BY <1>0, <1>1 DEF FrameSet, With, AllPcs
  <2>2. stack' = [stack EXCEPT ![t] = <<With(TopOf(t), pc)>> \o Tail(@)]
    BY <1>0, <1>1, <2>1 DEF Goto
  <2> QED
    BY <2>1, <2>2, ReplaceMove
<1>2. ASSUME NEW pc \in AllPcs, NEW o \in Futures, GoOnAt(t, pc, o)
      PROVE  Stacks' /\ Replaces(t, WithOther(TopOf(t), pc, o))
  <2>1. /\ WithOther(TopOf(t), pc, o) \in FrameSet
        /\ [Head(stack[t]) EXCEPT !.pc = pc, !.other = o] = WithOther(TopOf(t), pc, o)
    BY <1>0, <1>2, TwoFields DEF FrameSet, WithOther, AllPcs
  <2>2. stack' = [stack EXCEPT ![t] = <<WithOther(TopOf(t), pc, o)>> \o Tail(@)]
    BY <1>0, <1>2, <2>1 DEF GoOnAt
  <2> QED
    BY <2>1, <2>2, ReplaceMove
<1>f. \A op \in Ops, f \in Futures, there \in AllPcs : Frame(op, f, there) \in FrameSet
  BY DEF Frame, FrameSet, AllPcs
<1>3. ASSUME NEW pc \in AllPcs, NEW op \in Ops, NEW f \in Futures, NEW there \in AllPcs,
             Call(t, pc, Frame(op, f, there))
      PROVE  Stacks' /\ Pushes(t, Frame(op, f, there), With(TopOf(t), pc))
  <2>1. /\ With(TopOf(t), pc) \in FrameSet
        /\ [Head(stack[t]) EXCEPT !.pc = pc] = With(TopOf(t), pc)
    BY <1>0, <1>3 DEF FrameSet, With, AllPcs
  <2>2. stack' = [stack EXCEPT ![t] = <<Frame(op, f, there), With(TopOf(t), pc)>> \o Tail(@)]
    BY <1>0, <1>3, <2>1 DEF Call
  <2> QED
    BY <2>1, <2>2, <1>f, PushMove
<1>4. ASSUME NEW op \in Ops, NEW f \in Futures, NEW there \in AllPcs,
             Become(t, Frame(op, f, there))
      PROVE  Stacks' /\ Replaces(t, Frame(op, f, there))
  BY <1>4, <1>f, ReplaceMove DEF Become
<1>5. Return(t) => Stacks' /\ Pops(t)
  BY PopMove DEF Return
<1> QED
  BY <1>1, <1>2, <1>3, <1>4, <1>5

-----------------------------------------------------------------------------
(* The steps, level by level.                                              *)

Now(t, op, f, pc) == /\ depth[t] > 0 /\ TopOf(t) \in FrameSet
                     /\ TopOf(t).op = op /\ TopOf(t).f = f /\ TopOf(t).pc = pc

LEMMA NowAt ==
  ASSUME Stacks, NEW t \in Threads, NEW op, NEW pc, At(t, op, pc)
  PROVE  /\ Top(t) = TopOf(t) /\ Top(t).f \in Futures
         /\ Now(t, op, Top(t).f, pc)
  BY TopMoves DEF Now, FrameSet

USE DEF AllPcs, JobPcs, OtherPcs, Early, Ops, Cancels


\* Where a call of each kind can be.
LEMMA Where ==
  ASSUME Stacks, Shape, NEW t \in Threads, NEW d \in 1..depth[t]
  PROVE  LET x == frame[t][d]
             y == frame[t][d - 1] IN
         /\ d \in Nat /\ x \in FrameSet
         /\ d > 1 => d - 1 \in 1..depth[t] /\ y \in FrameSet /\ Calls(y, x)
         /\ x.op = "set" => t = Builder /\ d = 1 /\ x.f = built /\ built < Last
         /\ x.op \in {"run", "cancelAndFinish"} => d > 1
         /\ x.op = "job" /\ x.pc = "check" => d > 1
         /\ x.op \in {"client", "cancelChain"} => d = 1 /\ t \in Cancellers
         /\ x.op = "cancel" /\ d = 1 => t \in Cancellers
         /\ x.op = "job" /\ d = 1 => (t = Owner /\ x.f = 0) \/ (t = Pool /\ x.f > 0)
         /\ x.op = "job" /\ x.f = 0 => t = Owner /\ d = 1
<1> DEFINE x == frame[t][d]
           y == frame[t][d - 1]
<1>1. depth[t] \in Nat /\ d \in Nat /\ 1 <= d /\ d <= depth[t] /\ x \in FrameSet
  BY FramesType
<1>2. ASSUME d > 1
      PROVE  /\ d - 1 \in 1..depth[t] /\ y \in FrameSet /\ Calls(y, x)
             /\ x.op \in {"cancel", "cancelAndFinish", "run", "job"}
             /\ x.op = "job" => x.f # 0
  <2>1. d - 1 \in 1..depth[t] /\ d - 1 \in 1..(depth[t] - 1) /\ (d - 1) + 1 = d
    BY <1>1, <1>2
  <2>2. y \in FrameSet
    BY <2>1, FramesType
  <2>3. Calls(y, x)
    BY <2>1 DEF Shape, Nested
  <2> QED
    BY <2>1, <2>2, <2>3, ChainAssumption DEF Calls, FrameSet, Futures
<1>3. CASE d = 1
  <2>1. t \in {Owner, Builder, Pool} \cup Cancellers
    BY DEF Threads
  <2>2. /\ t = Owner   => x.op = "job" /\ x.f = 0
        /\ t = Builder => x.op = "set" /\ x.f = built /\ built < Last
        /\ t = Pool    => x.op = "job" /\ x.f > 0 /\ x.pc # "check"
        /\ t \in Cancellers => x.op \in {"client", "cancel", "cancelChain"}
    BY <1>1, <1>3 DEF Shape, Outermost
  <2>3. x.pc = "check" /\ x.op = "job" => t # Owner
    BY <1>1, <2>2 DEF Shape, Places
  <2>4. x.f \in Nat
    BY <1>1, ChainAssumption DEF FrameSet, Futures
  <2> QED
    BY <1>1, <1>3, <2>1, <2>2, <2>3, <2>4
<1>4. CASE d # 1
  BY <1>1, <1>2, <1>4
<1> QED
  BY <1>3, <1>4


\* What the steps do to futures and links, field by field.
FutureOf(g) == future'[g] = future[g]
SameElse(f) == \A g \in Futures \ {f} : FutureOf(g)

Reported(f) ==
  /\ SameElse(f) /\ future'[f].finished = future[f].finished
  /\ future[f].canceled => future'[f].canceled
  /\ future[f].exception => future'[f].exception
  /\ future[f].canceled => future'[f].exception = future[f].exception
  /\ future[f].result => future'[f].result
  /\ ~future[f].finished => future'[f].canceled \/ future'[f].result

Canceled(f, finish) ==
  /\ SameElse(f) /\ future'[f].canceled
  /\ future'[f].finished = (future[f].finished \/ finish)
  /\ future'[f].result = future[f].result /\ future'[f].exception = future[f].exception

LinkElse(S) == \A g \in Futures \ S : link'[g] = link[g]
Kept(g)     == /\ link'[g].executed = link[g].executed /\ link'[g].state = link[g].state

Stores(f) ==
  /\ f + 1 \in Futures /\ LinkElse({f, f + 1}) /\ Kept(f) /\ Kept(f + 1)
  /\ link'[f].stored /\ link'[f].data
  /\ link'[f].type = link[f].type /\ link'[f].parent = link[f].parent
  /\ link'[f + 1].stored = link[f + 1].stored /\ link'[f + 1].data = link[f + 1].data
  /\ link'[f + 1].type = kind[f + 1]

\* The steps.
DecideF(t, f) ==
  /\ f > 0 /\ Now(t, "job", f, "check")
  /\ jobs' = [jobs EXCEPT ![f] = @ + 1]
  /\ \E taking \in BOOLEAN :
       /\ taking => kind[f] = "then" /\ future[f - 1].exception
       /\ takers' = IF taking THEN takers \cup {f} ELSE takers
       /\ \/ /\ queue' = queue \cup {f} /\ kind[f] = "then" /\ Verdict(f, taking) = "call"
             /\ Pops(t)
          \/ queue' = queue /\ Replaces(t, With(TopOf(t), Verdict(f, taking)))
  /\ UNCHANGED <<fixed, future, link, built, called, stopped>>

TakeF(f) ==
  /\ f \in queue /\ queue' = queue \ {f} /\ Starts(Pool, Frame("job", f, "call"))
  /\ UNCHANGED <<fixed, future, link, built, history>>

CallF(t, f) ==
  /\ Now(t, "job", f, "call") /\ Replaces(t, With(TopOf(t), "finish"))
  /\ Reported(f) /\ called' = [called EXCEPT ![f] = @ + 1]
  /\ UNCHANGED <<fixed, link, queue, built, jobs, takers, stopped>>

PassF(t, f) ==
  /\ Now(t, "job", f, "pass") \/ Now(t, "job", f, "raise")
  /\ Replaces(t, With(TopOf(t), "finish")) /\ Reported(f)
  /\ Now(t, "job", f, "raise") /\ ~future[f].finished => future'[f].canceled
  /\ UNCHANGED <<fixed, link, queue, built, history>>

CancelOwnF(t, f) ==
  /\ Now(t, "job", f, "cancel")
  /\ Pushes(t, Frame("cancel", f, "lock"), With(TopOf(t), "finish"))
  /\ UNCHANGED <<fixed, future, link, queue, built, history>>

AbandonF(t) ==
  /\ Now(t, "job", 0, "call")
  /\ Pushes(t, Frame("cancelAndFinish", 0, "lock"), With(TopOf(t), "destroyed"))
  /\ UNCHANGED <<fixed, future, link, queue, built, history>>

FinishF(t, f) ==
  /\ Now(t, "job", f, "finish") /\ Replaces(t, With(TopOf(t), "destroyed"))
  /\ SameElse(f) /\ future'[f].finished
  /\ future'[f].canceled = future[f].canceled /\ future'[f].result = future[f].result
  /\ future'[f].exception = future[f].exception
  /\ UNCHANGED <<fixed, link, queue, built, history>>

RunsF(t, f) ==
  /\ Now(t, "job", f, "destroyed")
  /\ Pushes(t, Frame("run", f, "enter"), With(TopOf(t), "clean"))
  /\ UNCHANGED <<fixed, future, link, queue, built, history>>

CleanF(t, f) ==
  /\ Now(t, "job", f, "clean") /\ Pops(t)
  /\ \/ link' = link
     \/ /\ LinkElse({f}) /\ link'[f].executed = link[f].executed
        /\ ~link'[f].stored /\ ~link'[f].data /\ link'[f].state = "Cleaned"
        /\ link'[f].type = link[f].type /\ link'[f].parent = link[f].parent
  /\ UNCHANGED <<fixed, future, queue, built, history>>

AttachF ==
  /\ Starts(Builder, Frame("set", built, "enter")) /\ built < Last
  /\ UNCHANGED <<fixed, future, link, queue, built, history>>

SetRunF(t, f) ==
  /\ Now(t, "set", f, "enter") /\ future[f].finished /\ f + 1 \in Futures
  /\ LinkElse({f}) /\ link'[f].executed /\ link'[f].stored = link[f].stored
  /\ link'[f].data = link[f].data /\ link'[f].state = link[f].state
  /\ link'[f].type = link[f].type /\ link'[f].parent = link[f].parent
  /\ Pushes(t, Frame("job", f + 1, "check"), With(TopOf(t), "store"))
  /\ UNCHANGED <<fixed, future, queue, built, history>>

SetStoreF(t, f) ==
  /\ Now(t, "set", f, "enter") /\ ~future[f].finished
  /\ Stores(f) /\ Pops(t) /\ built' = built + 1
  /\ UNCHANGED <<fixed, future, queue, history>>

SetBackF(t, f) ==
  /\ Now(t, "set", f, "store")
  /\ link' = link \/ (link[f].state # "Cleaned" /\ Stores(f))
  /\ Pops(t) /\ built' = built + 1
  /\ UNCHANGED <<fixed, future, queue, history>>

RunF(t, f) ==
  /\ Now(t, "run", f, "enter") /\ link[f].stored /\ ~link[f].executed /\ f + 1 \in Futures
  /\ LinkElse({f, f + 1}) /\ link'[f].executed /\ ~link'[f].stored
  /\ link'[f].data = link[f].data /\ link'[f].state = link[f].state
  /\ link'[f].type = link[f].type /\ link'[f].parent = link[f].parent
  /\ Kept(f + 1) /\ link'[f + 1].stored = link[f + 1].stored
  /\ link'[f + 1].data = link[f + 1].data /\ link'[f + 1].type = link[f + 1].type
  /\ Pushes(t, Frame("job", f + 1, "check"), With(TopOf(t), "leave"))
  /\ UNCHANGED <<fixed, future, queue, built, history>>

RunNotF(t, f) ==
  /\ Now(t, "run", f, "enter") /\ ~(link[f].stored /\ ~link[f].executed) /\ Pops(t)
  /\ UNCHANGED <<fixed, future, link, queue, built, history>>

RunBackF(t, f) ==
  /\ Now(t, "run", f, "leave") /\ Pops(t)
  /\ \/ link' = link
     \/ /\ LinkElse({f}) /\ Kept(f) /\ link'[f].stored /\ link'[f].data = link[f].data
        /\ link'[f].type = link[f].type /\ link'[f].parent = link[f].parent
  /\ UNCHANGED <<fixed, future, queue, built, history>>

CancelNotF(t, f) ==
  /\ \E op \in Cancels : /\ Now(t, op, f, "lock")
                         /\ op = "cancelAndFinish" => future[f].finished
  /\ future[f].canceled /\ Pops(t)
  /\ \/ stopped' = stopped
     \/ /\ ~future[f].finished /\ ~future[f].exception
        /\ stopped' = stopped \cup Below(f)
  /\ UNCHANGED <<fixed, future, link, queue, built, jobs, called, takers>>

CancelF(t, f) ==
  /\ \E op \in Cancels : Now(t, op, f, "lock") /\ Canceled(f, op = "cancelAndFinish")
  /\ Replaces(t, With(TopOf(t), "links"))
  /\ UNCHANGED <<fixed, link, queue, built, jobs, called, takers, stopped>>

LinksF(t, f) ==
  /\ \E op \in Cancels : Now(t, op, f, "links")
  /\ \/ /\ link[f].data /\ f + 1 \in Futures /\ Replaces(t, WithOther(TopOf(t), "walk", f + 1))
        /\ stopped' = stopped
     \/ ~link[f].data /\ Pops(t) /\ stopped' = stopped \cup Below(f)
  /\ UNCHANGED <<fixed, future, link, queue, built, jobs, called, takers>>

WalkF(t, f) ==
  LET o == TopOf(t).other IN
  /\ \E op \in Cancels : Now(t, op, f, "walk")
  /\ o \in Futures
  /\ \/ link[o].type # "then" /\ link' = link
     \/ /\ link[o].type = "then" /\ LinkElse({o}) /\ link'[o].state = "Canceled"
        /\ link'[o].executed = link[o].executed /\ link'[o].stored = link[o].stored
        /\ link'[o].data = link[o].data
        /\ link'[o].type = link[o].type /\ link'[o].parent = link[o].parent
  /\ \/ /\ link[o].type = "then" /\ link[o].data /\ o + 1 \in Futures
        /\ Replaces(t, WithOther(TopOf(t), "walk", o + 1)) /\ stopped' = stopped
     \/ /\ ~(link[o].type = "then" /\ link[o].data)
        /\ Pops(t) /\ stopped' = stopped \cup Below(f)
  /\ UNCHANGED <<fixed, future, queue, built, jobs, called, takers>>

ChainF(t, f) ==
  /\ Now(t, "cancelChain", f, "lock") \/ Now(t, "cancelChain", f, "next")
  /\ \/ \E o \in Futures : Replaces(t, WithOther(TopOf(t), "up", o))
     \/ Replaces(t, Frame("cancel", f, "lock"))
  /\ UNCHANGED <<fixed, future, link, queue, built, history>>

ChainCancelF(t, f) ==
  /\ Now(t, "cancelChain", f, "up") /\ TopOf(t).other \in Futures
  /\ Canceled(TopOf(t).other, FALSE) /\ Replaces(t, With(TopOf(t), "next"))
  /\ UNCHANGED <<fixed, link, queue, built, history>>

ClientF(t, f) ==
  /\ Now(t, "client", f, "out")
  /\ \E g \in Futures, op \in {"cancel", "cancelChain"} : Replaces(t, Frame(op, g, "lock"))
  /\ UNCHANGED <<fixed, future, link, queue, built, history>>

-----------------------------------------------------------------------------
(* Every step is one of these.                                             *)

UnchangedData == UNCHANGED <<fixed, future, link, queue, built, history>>

LEMMA SameData == ASSUME States, UnchangedData PROVE States'
  BY DEF States, UnchangedData, fixed, history

LEMMA CancelOwnFlat ==
  ASSUME IInv, NEW t \in Threads, CancelOwn(t)
  PROVE  Stacks' /\ States' /\ CancelOwnF(t, Top(t).f)
<1>1. Stacks /\ States
  BY DEF IInv
<1>2. Now(t, "job", Top(t).f, "cancel") /\ Top(t).f \in Futures
  BY <1>1, NowAt DEF CancelOwn
<1>3. Stacks' /\ Pushes(t, Frame("cancel", Top(t).f, "lock"), With(TopOf(t), "finish"))
  <2>1. Call(t, "finish", Frame("cancel", Top(t).f, "lock")) /\ depth[t] > 0
    BY <1>2 DEF CancelOwn, Now
  <2>2. "finish" \in AllPcs /\ "lock" \in AllPcs /\ "cancel" \in Ops
    OBVIOUS
  <2> QED
    BY <1>1, <1>2, <2>1, <2>2, Moves
<1>4. UnchangedData
  BY DEF CancelOwn, UnchangedData
<1> QED
  BY <1>1, <1>2, <1>3, <1>4, SameData DEF CancelOwnF, UnchangedData

LEMMA AbandonFlat ==
  ASSUME IInv, NEW t \in Threads, Abandon(t)
  PROVE  Stacks' /\ States' /\ AbandonF(t)
<1>1. Stacks /\ States
  BY DEF IInv
<1>2. Now(t, "job", 0, "call") /\ 0 \in Futures
  BY <1>1, NowAt DEF Abandon
<1>3. Stacks' /\ Pushes(t, Frame("cancelAndFinish", 0, "lock"), With(TopOf(t), "destroyed"))
  <2>1. Call(t, "destroyed", Frame("cancelAndFinish", 0, "lock")) /\ depth[t] > 0
    BY <1>2 DEF Abandon, Now
  <2>2. "destroyed" \in AllPcs /\ "lock" \in AllPcs /\ "cancelAndFinish" \in Ops
    OBVIOUS
  <2> QED
    BY <1>1, <1>2, <2>1, <2>2, Moves
<1>4. UnchangedData
  BY DEF Abandon, UnchangedData
<1> QED
  BY <1>1, <1>2, <1>3, <1>4, SameData DEF AbandonF, UnchangedData

LEMMA RunsFlat ==
  ASSUME IInv, NEW t \in Threads, RunsContinuation(t)
  PROVE  Stacks' /\ States' /\ RunsF(t, Top(t).f)
<1>1. Stacks /\ States
  BY DEF IInv
<1>2. Now(t, "job", Top(t).f, "destroyed") /\ Top(t).f \in Futures
  BY <1>1, NowAt DEF RunsContinuation
<1>3. Stacks' /\ Pushes(t, Frame("run", Top(t).f, "enter"), With(TopOf(t), "clean"))
  <2>1. Call(t, "clean", Frame("run", Top(t).f, "enter")) /\ depth[t] > 0
    BY <1>2 DEF RunsContinuation, Now
  <2>2. "clean" \in AllPcs /\ "enter" \in AllPcs /\ "run" \in Ops
    OBVIOUS
  <2> QED
    BY <1>1, <1>2, <2>1, <2>2, Moves
<1>4. UnchangedData
  BY DEF RunsContinuation, UnchangedData
<1> QED
  BY <1>1, <1>2, <1>3, <1>4, SameData DEF RunsF, UnchangedData

LEMMA AttachFlat ==
  ASSUME IInv, Attach
  PROVE  Stacks' /\ States' /\ AttachF
<1>1. Stacks /\ States
  BY DEF IInv
<1>2. Frame("set", built, "enter") \in FrameSet /\ Builder \in Threads
  BY <1>1, ChainAssumption DEF Frame, FrameSet, States, Futures, Threads
<1>3. Stacks' /\ Starts(Builder, Frame("set", built, "enter"))
  BY <1>1, <1>2, StartMove DEF Attach
<1>4. UnchangedData /\ built < Last
  BY DEF Attach, UnchangedData
<1> QED
  BY <1>1, <1>3, <1>4, SameData DEF AttachF, UnchangedData

LEMMA TakeFlat ==
  ASSUME IInv, PoolTakes
  PROVE  Stacks' /\ States' /\ \E f \in Futures : TakeF(f)
<1>1. Stacks /\ States /\ queue \subseteq 1..Last /\ Last \in Nat
  BY ChainAssumption DEF IInv, States
<1>2. PICK f \in queue : /\ queue' = queue \ {f}
                         /\ stack' = [stack EXCEPT ![Pool] = <<Frame("job", f, "call")>>]
  BY DEF PoolTakes
<1>3. f \in Futures /\ Frame("job", f, "call") \in FrameSet /\ Pool \in Threads
  BY <1>1 DEF Frame, FrameSet, Futures, Threads
<1>4. Stacks' /\ Starts(Pool, Frame("job", f, "call"))
  BY <1>1, <1>2, <1>3, StartMove DEF PoolTakes
<1>5. States'
  BY <1>1, <1>2 DEF PoolTakes, States, fixed, history
<1>6. TakeF(f)
  BY <1>2, <1>4 DEF TakeF, PoolTakes
<1> QED
  BY <1>3, <1>4, <1>5, <1>6

LEMMA GoUpMoves ==
  ASSUME IInv, NEW t \in Threads, depth[t] > 0, Top(t).f \in Futures,
         NEW from \in Futures, GoUp(t, from, "up")
  PROVE  /\ Stacks'
         /\ \/ \E o \in Futures : Replaces(t, WithOther(TopOf(t), "up", o))
            \/ Replaces(t, Frame("cancel", Top(t).f, "lock"))
<1>1. Stacks /\ (link[from].parent => from - 1 \in Futures)
  BY ChainAssumption DEF IInv, Once, Attached, Futures
<1>2. "up" \in AllPcs /\ "lock" \in AllPcs /\ "cancel" \in Ops
  OBVIOUS
<1>3. CASE link[from].parent
  BY <1>1, <1>2, <1>3, Moves DEF GoUp
<1>4. CASE ~link[from].parent
  BY <1>1, <1>2, <1>4, Moves DEF GoUp
<1> QED
  BY <1>3, <1>4

LEMMA ChainFlat ==
  ASSUME IInv, NEW t \in Threads, ChainLinks(t) \/ ChainUp(t)
  PROVE  Stacks' /\ States' /\ ChainF(t, Top(t).f)
<1>1. Stacks /\ States /\ Shape
  BY DEF IInv
<1>a. PICK pc \in {"lock", "next"} : /\ At(t, "cancelChain", pc)
                                     /\ \/ pc = "lock" /\ GoUp(t, Top(t).f, "up")
                                        \/ pc = "next" /\ GoUp(t, Top(t).other, "up")
  BY DEF ChainLinks, ChainUp
<1>2. PICK from : /\ At(t, "cancelChain", pc) /\ GoUp(t, from, "up")
                  /\ \/ pc = "lock" /\ from = Top(t).f
                     \/ pc = "next" /\ from = Top(t).other
  BY <1>a
<1>3. Now(t, "cancelChain", Top(t).f, pc) /\ Top(t).f \in Futures /\ Top(t) = TopOf(t)
  BY <1>1, <1>2, NowAt
<1>4. from \in Futures
  <2>1. depth[t] \in 1..depth[t]
    BY <1>1, <1>3, FramesType DEF Now
  <2>2. pc = "next" => TopOf(t).other \in Futures
    BY <1>1, <1>3, <2>1 DEF Shape, Places, Now, TopOf
  <2> QED
    BY <1>2, <1>3, <2>2
<1>5. depth[t] > 0
  BY <1>3 DEF Now
<1>6. UnchangedData
  BY DEF ChainLinks, ChainUp, UnchangedData
<1>7. Now(t, "cancelChain", Top(t).f, "lock") \/ Now(t, "cancelChain", Top(t).f, "next")
  BY <1>3
<1> QED
  BY <1>1, <1>2, <1>3, <1>4, <1>5, <1>6, <1>7, SameData, GoUpMoves DEF ChainF, UnchangedData

LEMMA ClientFlat ==
  ASSUME IInv, NEW t \in Threads, ClientCancels(t)
  PROVE  Stacks' /\ States' /\ ClientF(t, Top(t).f)
<1>1. Stacks /\ States /\ built \in 0..Last /\ Last \in Nat
  BY ChainAssumption DEF IInv, States
<1>2. Now(t, "client", Top(t).f, "out") /\ Top(t).f \in Futures
  BY <1>1, NowAt DEF ClientCancels
<1>3. PICK g \in 0..built, op \in {"cancel", "cancelChain"} : Become(t, Frame(op, g, "lock"))
  BY DEF ClientCancels
<1>4. g \in Futures /\ op \in Ops /\ "lock" \in AllPcs
  BY <1>1 DEF Futures
<1>5. Stacks' /\ Replaces(t, Frame(op, g, "lock"))
  BY <1>1, <1>2, <1>3, <1>4, Moves DEF Now
<1>6. UnchangedData
  BY DEF ClientCancels, UnchangedData
<1>7. \E h \in Futures, o \in {"cancel", "cancelChain"} : Replaces(t, Frame(o, h, "lock"))
  BY <1>4, <1>5
<1> QED
  BY <1>1, <1>2, <1>5, <1>6, <1>7, SameData DEF ClientF, UnchangedData

\* What a continuation makes of its parent's outcome.
LEMMA Verdicts ==
  ASSUME States, NEW f \in 1..Last, NEW taking \in BOOLEAN
  PROVE  /\ Verdict(f, taking) \in {"call", "pass", "raise", "cancel"}
         /\ Verdict(f, taking) = "pass" => ~future[f - 1].canceled /\ kind[f] # "then"
         /\ kind[f] = "then" /\ Verdict(f, taking) = "call" /\ ~taking => ~IsChainCanceled(f - 1)
         /\ kind[f] = "then" /\ IsChainCanceled(f - 1) /\ ~future[f - 1].exception
              => Verdict(f, taking) = "cancel"
<1>1. kind[f] \in {"then", "onFailed", "onCanceled"}
  BY DEF States, Kinds
<1>2. CASE kind[f] = "then"
  BY <1>2 DEF Verdict
<1>3. CASE kind[f] = "onFailed"
  BY <1>3 DEF Verdict, IsChainCanceled
<1>4. CASE kind[f] = "onCanceled"
  BY <1>4 DEF Verdict
<1> QED
  BY <1>1, <1>2, <1>3, <1>4

LEMMA Counted ==
  ASSUME NEW c \in [Futures -> Nat], NEW f \in Futures
  PROVE  [c EXCEPT ![f] = @ + 1] \in [Futures -> Nat]
OBVIOUS

LEMMA DecideFlat ==
  ASSUME IInv, NEW t \in Threads, Decide(t)
  PROVE  Stacks' /\ States' /\ Top(t).f \in Futures /\ DecideF(t, Top(t).f)
<1> DEFINE f == Top(t).f
<1>1. Stacks /\ States /\ Shape
  BY DEF IInv
<1>2. Now(t, "job", f, "check") /\ f \in Futures /\ depth[t] > 0 /\ Top(t) = TopOf(t)
  BY <1>1, NowAt DEF Decide, Now
<1>3. f > 0 /\ f \in 1..Last
  <2>1. depth[t] \in 1..depth[t]
    BY <1>1, <1>2, FramesType
  <2>2. f # 0
    BY <1>1, <1>2, <2>1 DEF Shape, Places, Now, TopOf
  <2> QED
    BY <1>2, <2>2, ChainAssumption DEF Futures
<1>4. PICK taking \in BOOLEAN :
        /\ taking => kind[f] = "then" /\ future[f - 1].exception
        /\ takers' = IF taking THEN takers \cup {f} ELSE takers
        /\ \/ async[f] /\ Verdict(f, taking) = "call" /\ queue' = queue \cup {f} /\ Return(t)
           \/ queue' = queue /\ Goto(t, Verdict(f, taking))
  BY DEF Decide
<1>5. /\ jobs' = [jobs EXCEPT ![f] = @ + 1]
      /\ UNCHANGED <<fixed, future, link, built, called, stopped>>
  BY DEF Decide
<1>6. async[f] => kind[f] = "then"
  BY <1>1, <1>3 DEF States
<1> HIDE DEF f
<1>7. States'
  <2>1. jobs' \in [Futures -> Nat]
    BY <1>1, <1>2, <1>5, Counted DEF States
  <2>2. queue' \subseteq 1..Last /\ takers' \subseteq 1..Last
    BY <1>1, <1>3, <1>4 DEF States
  <2> QED
    BY <1>1, <1>5, <2>1, <2>2 DEF States, fixed
<1>8. CASE async[f] /\ Verdict(f, taking) = "call" /\ queue' = queue \cup {f} /\ Return(t)
  <2>1. Stacks' /\ Pops(t)
    BY <1>1, <1>2, <1>8, Moves
  <2> QED
    BY <1>2, <1>3, <1>4, <1>5, <1>6, <1>7, <1>8, <2>1 DEF DecideF, f
<1>9. CASE queue' = queue /\ Goto(t, Verdict(f, taking))
  <2>1. Verdict(f, taking) \in AllPcs
    BY <1>1, <1>3, Verdicts
  <2>2. Stacks' /\ Replaces(t, With(TopOf(t), Verdict(f, taking)))
    BY <1>1, <1>2, <1>9, <2>1, Moves
  <2> QED
    BY <1>2, <1>3, <1>4, <1>5, <1>7, <1>9, <2>2 DEF DecideF, f
<1> QED
  BY <1>4, <1>8, <1>9

OutcomeSet == [finished : BOOLEAN, canceled : BOOLEAN, exception : BOOLEAN, result : BOOLEAN]
LinkSet == [stored : BOOLEAN, executed : BOOLEAN, state : {"Default", "Canceled", "Cleaned"},
            data : BOOLEAN, parent : BOOLEAN, type : Kinds \cup {"Unknown"}]

LEMMA Reports ==
  ASSUME States, NEW f \in Futures, NEW what \in {"result", "exception"}, Report(f, what)
  PROVE  /\ future' \in [Futures -> OutcomeSet] /\ Reported(f)
         /\ what = "exception" /\ ~future[f].finished => future'[f].canceled
<1>1. future \in [Futures -> OutcomeSet]
  BY DEF States, OutcomeSet
<1>2. CASE future[f].canceled \/ future[f].finished
  BY <1>1, <1>2 DEF Report, Reported, SameElse, FutureOf, OutcomeSet
<1>3. CASE ~(future[f].canceled \/ future[f].finished) /\ what = "exception"
  <2>1. future' = [future EXCEPT ![f] = [[@ EXCEPT !.exception = TRUE] EXCEPT !.canceled = TRUE]]
    BY <1>1, <1>3 DEF Report, OutcomeSet
  <2>2. /\ [[future[f] EXCEPT !.exception = TRUE] EXCEPT !.canceled = TRUE] \in OutcomeSet
    BY <1>1 DEF OutcomeSet
  <2> QED
    BY <1>1, <1>3, <2>1, <2>2 DEF Reported, SameElse, FutureOf, OutcomeSet
<1>4. CASE ~(future[f].canceled \/ future[f].finished) /\ what = "result"
  BY <1>1, <1>4 DEF Report, Reported, SameElse, FutureOf, OutcomeSet
<1> QED
  BY <1>2, <1>3, <1>4

LEMMA CallFlat ==
  ASSUME IInv, NEW t \in Threads, CallFunction(t)
  PROVE  Stacks' /\ States' /\ Top(t).f \in Futures /\ CallF(t, Top(t).f)
<1> DEFINE f == Top(t).f
<1>1. Stacks /\ States
  BY DEF IInv
<1>2. Now(t, "job", f, "call") /\ f \in Futures /\ depth[t] > 0
  BY <1>1, NowAt DEF CallFunction, Now
<1>3. /\ \E what \in {"result", "exception"} : Report(f, what)
      /\ called' = [called EXCEPT ![f] = @ + 1] /\ Goto(t, "finish")
      /\ UNCHANGED <<fixed, link, queue, built, jobs, takers, stopped>>
  BY DEF CallFunction
<1> HIDE DEF f
<1>4. future' \in [Futures -> OutcomeSet] /\ Reported(f)
  BY <1>1, <1>2, <1>3, Reports
<1>5. States'
  <2>1. called' \in [Futures -> Nat]
    BY <1>1, <1>2, <1>3, Counted DEF States
  <2> QED
    BY <1>1, <1>3, <1>4, <2>1 DEF States, OutcomeSet, fixed
<1>6. Stacks' /\ Replaces(t, With(TopOf(t), "finish"))
  BY <1>1, <1>2, <1>3, Moves
<1> QED
  BY <1>2, <1>3, <1>4, <1>5, <1>6 DEF CallF, f

LEMMA PassFlat ==
  ASSUME IInv, NEW t \in Threads, PassOn(t)
  PROVE  Stacks' /\ States' /\ Top(t).f \in Futures /\ PassF(t, Top(t).f)
<1> DEFINE f == Top(t).f
           what == IF Top(t).pc = "raise" THEN "exception" ELSE "result"
<1>1. Stacks /\ States
  BY DEF IInv
<1>2. /\ Now(t, "job", f, "pass") \/ Now(t, "job", f, "raise")
      /\ f \in Futures /\ depth[t] > 0 /\ Top(t) = TopOf(t)
  BY <1>1, NowAt DEF PassOn, Now
<1>3. Now(t, "job", f, "raise") => what = "exception"
  BY <1>2 DEF Now
<1>4. /\ Report(f, what) /\ Goto(t, "finish")
      /\ UNCHANGED <<fixed, link, queue, built, history>>
  BY DEF PassOn
<1>5. what \in {"result", "exception"}
  OBVIOUS
<1> HIDE DEF f, what
<1>6. /\ future' \in [Futures -> OutcomeSet] /\ Reported(f)
      /\ what = "exception" /\ ~future[f].finished => future'[f].canceled
  BY <1>1, <1>2, <1>4, <1>5, Reports
<1>7. States'
  BY <1>1, <1>2, <1>4, <1>6 DEF States, OutcomeSet, fixed, history
<1>8. Stacks' /\ Replaces(t, With(TopOf(t), "finish"))
  BY <1>1, <1>2, <1>4, Moves
<1> QED
  BY <1>2, <1>3, <1>4, <1>6, <1>7, <1>8 DEF PassF, f

LEMMA FinishFlat ==
  ASSUME IInv, NEW t \in Threads, Finish(t)
  PROVE  Stacks' /\ States' /\ Top(t).f \in Futures /\ FinishF(t, Top(t).f)
<1> DEFINE f == Top(t).f
<1>1. Stacks /\ States
  BY DEF IInv
<1>2. Now(t, "job", f, "finish") /\ f \in Futures /\ depth[t] > 0
  BY <1>1, NowAt DEF Finish, Now
<1>3. /\ future' = [future EXCEPT ![f].finished = TRUE] /\ Goto(t, "destroyed")
      /\ UNCHANGED <<fixed, link, queue, built, history>>
  BY DEF Finish
<1> HIDE DEF f
<1>4. /\ future' \in [Futures -> OutcomeSet] /\ SameElse(f) /\ future'[f].finished
      /\ future'[f].canceled = future[f].canceled /\ future'[f].result = future[f].result
      /\ future'[f].exception = future[f].exception
  <2>1. future \in [Futures -> OutcomeSet] /\ future' = [future EXCEPT ![f] = [@ EXCEPT !.finished = TRUE]]
    BY <1>1, <1>3 DEF States, OutcomeSet
  <2>2. [future[f] EXCEPT !.finished = TRUE] \in OutcomeSet
    BY <1>2, <2>1 DEF OutcomeSet
  <2> QED
    BY <1>2, <2>1, <2>2 DEF SameElse, FutureOf, OutcomeSet
<1>5. States'
  BY <1>1, <1>2, <1>3, <1>4 DEF States, OutcomeSet, fixed, history
<1>6. Stacks' /\ Replaces(t, With(TopOf(t), "destroyed"))
  BY <1>1, <1>2, <1>3, Moves
<1> QED
  BY <1>2, <1>3, <1>4, <1>5, <1>6 DEF FinishF, f

\* Two fields of two links, one after the other.
StoredIn(l, f, k) == [l EXCEPT ![f].stored = TRUE, ![f].data = TRUE,
                               ![f + 1].type = k, ![f + 1].parent = TRUE]

LEMMA StoreFields ==
  ASSUME NEW l \in [Futures -> LinkSet], NEW f \in Futures, f + 1 \in Futures,
         NEW k \in Kinds
  PROVE  LET m == StoredIn(l, f, k) IN
         /\ m \in [Futures -> LinkSet]
         /\ \A g \in Futures \ {f, f + 1} : m[g] = l[g]
         /\ m[f].stored /\ m[f].data /\ m[f].executed = l[f].executed
         /\ m[f].state = l[f].state /\ m[f].type = l[f].type /\ m[f].parent = l[f].parent
         /\ m[f + 1].executed = l[f + 1].executed /\ m[f + 1].state = l[f + 1].state
         /\ m[f + 1].stored = l[f + 1].stored /\ m[f + 1].data = l[f + 1].data
         /\ m[f + 1].type = k
<1>0. f # f + 1
  BY ChainAssumption DEF Futures
<1> DEFINE x == [[l[f] EXCEPT !.stored = TRUE] EXCEPT !.data = TRUE]
           y == [[l[f + 1] EXCEPT !.type = k] EXCEPT !.parent = TRUE]
           n == [l EXCEPT ![f] = x]
           m == StoredIn(l, f, k)
<1>1. /\ x \in LinkSet /\ x.stored /\ x.data /\ x.executed = l[f].executed
      /\ x.state = l[f].state /\ x.type = l[f].type /\ x.parent = l[f].parent
  BY DEF LinkSet
<1>2. /\ y \in LinkSet /\ y.executed = l[f + 1].executed /\ y.state = l[f + 1].state
      /\ y.stored = l[f + 1].stored /\ y.data = l[f + 1].data /\ y.type = k
  BY DEF LinkSet
<1>3. m = [n EXCEPT ![f + 1] = y]
  <2> DEFINE m1 == [l EXCEPT ![f].stored = TRUE]
             m2 == [m1 EXCEPT ![f].data = TRUE]
             m3 == [m2 EXCEPT ![f + 1].type = k]
             m4 == [m3 EXCEPT ![f + 1].parent = TRUE]
  <2>1. m = m4
    BY DEF StoredIn
  <2>2. m1 = [l EXCEPT ![f] = [l[f] EXCEPT !.stored = TRUE]]
    OBVIOUS
  <2>3. m2 = n
    BY <2>2
  <2>4. m3 = [n EXCEPT ![f + 1] = [l[f + 1] EXCEPT !.type = k]]
    BY <2>3, <1>0
  <2>5. m4 = [n EXCEPT ![f + 1] = y]
    BY <2>4, <1>0
  <2> HIDE DEF m, m4
  <2> QED
    BY <2>1, <2>5
<1> HIDE DEF x, y, m
<1>4. n \in [Futures -> LinkSet] /\ n[f] = x /\ \A g \in Futures \ {f} : n[g] = l[g]
  BY <1>1
<1> HIDE DEF n
<1>5. m \in [Futures -> LinkSet] /\ m[f + 1] = y /\ \A g \in Futures \ {f + 1} : m[g] = n[g]
  BY <1>2, <1>3, <1>4
<1>6. m[f] = x /\ \A g \in Futures \ {f, f + 1} : m[g] = l[g]
  BY <1>0, <1>4, <1>5
<1>7. /\ m \in [Futures -> LinkSet]
      /\ \A g \in Futures \ {f, f + 1} : m[g] = l[g]
      /\ m[f].stored /\ m[f].data /\ m[f].executed = l[f].executed
      /\ m[f].state = l[f].state /\ m[f].type = l[f].type /\ m[f].parent = l[f].parent
      /\ m[f + 1].executed = l[f + 1].executed /\ m[f + 1].state = l[f + 1].state
      /\ m[f + 1].stored = l[f + 1].stored /\ m[f + 1].data = l[f + 1].data
      /\ m[f + 1].type = k
  BY <1>1, <1>2, <1>5, <1>6
<1> QED
  BY <1>7 DEF m

LEMMA Storing ==
  ASSUME States, NEW f \in Futures, f + 1 \in Futures, StoreContinuation(f)
  PROVE  link' \in [Futures -> LinkSet] /\ Stores(f)
<1>1. link \in [Futures -> LinkSet] /\ kind[f + 1] \in Kinds
  BY ChainAssumption DEF States, LinkSet, Futures
<1>2. link' = StoredIn(link, f, kind[f + 1])
  BY DEF StoreContinuation, StoredIn
<1> QED
  BY <1>1, <1>2, StoreFields DEF Stores, LinkElse, Kept

LEMMA SetFlat ==
  ASSUME IInv, NEW t \in Threads, SetContinuation(t)
  PROVE  /\ Stacks' /\ States' /\ Top(t).f \in Futures
         /\ SetRunF(t, Top(t).f) \/ SetStoreF(t, Top(t).f)
<1> DEFINE f == Top(t).f
<1>1. Stacks /\ States /\ Shape /\ link \in [Futures -> LinkSet]
  BY DEF IInv, States, LinkSet
<1>2. Now(t, "set", f, "enter") /\ f \in Futures /\ depth[t] > 0
  BY <1>1, NowAt DEF SetContinuation, Now
<1>3. f + 1 \in Futures /\ built = f /\ built + 1 \in 0..Last
  <2>1. depth[t] \in 1..depth[t]
    BY <1>1, <1>2, FramesType
  <2>2. f = built /\ built < Last
    BY <1>1, <1>2, <2>1, Where DEF Now, TopOf
  <2> QED
    BY <1>1, <2>2, ChainAssumption DEF States, Futures
<1>4. /\ \/ /\ future[f].finished /\ link' = [link EXCEPT ![f].executed = TRUE]
            /\ Call(t, "store", Frame("job", f + 1, "check")) /\ built' = built
         \/ ~future[f].finished /\ StoreContinuation(f) /\ Return(t) /\ built' = built + 1
      /\ UNCHANGED <<fixed, future, queue, history>>
  BY DEF SetContinuation
<1> HIDE DEF f
<1>5. CASE /\ future[f].finished /\ link' = [link EXCEPT ![f].executed = TRUE]
           /\ Call(t, "store", Frame("job", f + 1, "check")) /\ built' = built
  <2>1. /\ link' \in [Futures -> LinkSet] /\ LinkElse({f})
        /\ link'[f].executed /\ link'[f].stored = link[f].stored
        /\ link'[f].data = link[f].data /\ link'[f].state = link[f].state
        /\ link'[f].type = link[f].type /\ link'[f].parent = link[f].parent
    <3>1. link' = [link EXCEPT ![f] = [@ EXCEPT !.executed = TRUE]]
      BY <1>5
    <3>2. [link[f] EXCEPT !.executed = TRUE] \in LinkSet
      BY <1>1, <1>2 DEF LinkSet
    <3> QED
      BY <1>1, <1>2, <3>1, <3>2 DEF LinkElse, LinkSet
  <2>2. "store" \in AllPcs /\ "check" \in AllPcs /\ "job" \in Ops
    OBVIOUS
  <2>3. Stacks' /\ Pushes(t, Frame("job", f + 1, "check"), With(TopOf(t), "store"))
    BY <1>1, <1>2, <1>3, <1>5, <2>2, Moves
  <2>4. States'
    BY <1>1, <1>4, <1>5, <2>1 DEF States, LinkSet, fixed, history
  <2> QED
    BY <1>2, <1>3, <1>4, <1>5, <2>1, <2>3, <2>4 DEF SetRunF, f
<1>6. CASE ~future[f].finished /\ StoreContinuation(f) /\ Return(t) /\ built' = built + 1
  <2>1. link' \in [Futures -> LinkSet] /\ Stores(f)
    BY <1>1, <1>2, <1>3, <1>6, Storing
  <2>2. Stacks' /\ Pops(t)
    BY <1>1, <1>2, <1>6, Moves
  <2>3. States'
    BY <1>1, <1>3, <1>4, <1>6, <2>1 DEF States, LinkSet, fixed, history
  <2> QED
    BY <1>2, <1>4, <1>6, <2>1, <2>2, <2>3 DEF SetStoreF, f
<1> QED
  BY <1>4, <1>5, <1>6

LEMMA SetBackFlat ==
  ASSUME IInv, NEW t \in Threads, SetContinuationReturns(t)
  PROVE  Stacks' /\ States' /\ Top(t).f \in Futures /\ SetBackF(t, Top(t).f)
<1> DEFINE f == Top(t).f
<1>1. Stacks /\ States /\ Shape /\ link \in [Futures -> LinkSet]
  BY DEF IInv, States, LinkSet
<1>2. Now(t, "set", f, "store") /\ f \in Futures /\ depth[t] > 0
  BY <1>1, NowAt DEF SetContinuationReturns, Now
<1>3. f + 1 \in Futures /\ built + 1 \in 0..Last
  <2>1. depth[t] \in 1..depth[t]
    BY <1>1, <1>2, FramesType
  <2>2. f = built /\ built < Last
    BY <1>1, <1>2, <2>1, Where DEF Now, TopOf
  <2> QED
    BY <1>1, <2>2, ChainAssumption DEF States, Futures
<1>4. /\ \/ link[f].state = "Cleaned" /\ link' = link
         \/ link[f].state # "Cleaned" /\ StoreContinuation(f)
      /\ built' = built + 1 /\ Return(t)
      /\ UNCHANGED <<fixed, future, queue, history>>
  BY DEF SetContinuationReturns
<1> HIDE DEF f
<1>5. /\ link' \in [Futures -> LinkSet]
      /\ link' = link \/ (link[f].state # "Cleaned" /\ Stores(f))
  BY <1>1, <1>2, <1>3, <1>4, Storing
<1>6. Stacks' /\ Pops(t)
  BY <1>1, <1>2, <1>4, Moves
<1>7. States'
  BY <1>1, <1>3, <1>4, <1>5 DEF States, LinkSet, fixed, history
<1> QED
  BY <1>2, <1>4, <1>5, <1>6, <1>7 DEF SetBackF, f

RanIn(l, f) == [l EXCEPT ![f].executed = TRUE, ![f].stored = FALSE, ![f + 1].parent = FALSE]
CleanIn(l, f) == [l EXCEPT ![f].stored = FALSE, ![f].state = "Cleaned", ![f].data = FALSE]

LEMMA RanFields ==
  ASSUME NEW l \in [Futures -> LinkSet], NEW f \in Futures, f + 1 \in Futures
  PROVE  LET m == RanIn(l, f) IN
         /\ m \in [Futures -> LinkSet]
         /\ \A g \in Futures \ {f, f + 1} : m[g] = l[g]
         /\ m[f].executed /\ ~m[f].stored /\ m[f].data = l[f].data
         /\ m[f].state = l[f].state /\ m[f].type = l[f].type /\ m[f].parent = l[f].parent
         /\ m[f + 1].executed = l[f + 1].executed /\ m[f + 1].state = l[f + 1].state
         /\ m[f + 1].stored = l[f + 1].stored /\ m[f + 1].data = l[f + 1].data
         /\ m[f + 1].type = l[f + 1].type
<1>0. f # f + 1
  BY ChainAssumption DEF Futures
<1> DEFINE x == [[l[f] EXCEPT !.executed = TRUE] EXCEPT !.stored = FALSE]
           y == [l[f + 1] EXCEPT !.parent = FALSE]
           n == [l EXCEPT ![f] = x]
           m == RanIn(l, f)
<1>1. /\ x \in LinkSet /\ x.executed /\ ~x.stored /\ x.data = l[f].data
      /\ x.state = l[f].state /\ x.type = l[f].type /\ x.parent = l[f].parent
  BY DEF LinkSet
<1>2. /\ y \in LinkSet /\ y.executed = l[f + 1].executed /\ y.state = l[f + 1].state
      /\ y.stored = l[f + 1].stored /\ y.data = l[f + 1].data /\ y.type = l[f + 1].type
  BY DEF LinkSet
<1>3. m = [n EXCEPT ![f + 1] = y]
  <2> DEFINE m1 == [l EXCEPT ![f].executed = TRUE]
             m2 == [m1 EXCEPT ![f].stored = FALSE]
             m3 == [m2 EXCEPT ![f + 1].parent = FALSE]
  <2>1. m = m3
    BY DEF RanIn
  <2>2. m1 = [l EXCEPT ![f] = [l[f] EXCEPT !.executed = TRUE]]
    OBVIOUS
  <2>3. m2 = n
    BY <2>2
  <2>4. m3 = [n EXCEPT ![f + 1] = y]
    BY <2>3, <1>0
  <2> HIDE DEF m, m3
  <2> QED
    BY <2>1, <2>4
<1> HIDE DEF x, y, m
<1>4. n \in [Futures -> LinkSet] /\ n[f] = x /\ \A g \in Futures \ {f} : n[g] = l[g]
  BY <1>1
<1> HIDE DEF n
<1>5. m \in [Futures -> LinkSet] /\ m[f + 1] = y /\ \A g \in Futures \ {f + 1} : m[g] = n[g]
  BY <1>2, <1>3, <1>4
<1>6. m[f] = x /\ \A g \in Futures \ {f, f + 1} : m[g] = l[g]
  BY <1>0, <1>4, <1>5
<1>7. /\ m \in [Futures -> LinkSet]
      /\ \A g \in Futures \ {f, f + 1} : m[g] = l[g]
      /\ m[f].executed /\ ~m[f].stored /\ m[f].data = l[f].data
      /\ m[f].state = l[f].state /\ m[f].type = l[f].type /\ m[f].parent = l[f].parent
      /\ m[f + 1].executed = l[f + 1].executed /\ m[f + 1].state = l[f + 1].state
      /\ m[f + 1].stored = l[f + 1].stored /\ m[f + 1].data = l[f + 1].data
      /\ m[f + 1].type = l[f + 1].type
  BY <1>1, <1>2, <1>5, <1>6
<1> QED
  BY <1>7 DEF m

LEMMA CleanFields ==
  ASSUME NEW l \in [Futures -> LinkSet], NEW f \in Futures
  PROVE  LET m == CleanIn(l, f) IN
         /\ m \in [Futures -> LinkSet]
         /\ \A g \in Futures \ {f} : m[g] = l[g]
         /\ m[f].executed = l[f].executed /\ ~m[f].stored /\ ~m[f].data
         /\ m[f].state = "Cleaned" /\ m[f].type = l[f].type /\ m[f].parent = l[f].parent
<1> DEFINE x == [[[l[f] EXCEPT !.stored = FALSE] EXCEPT !.state = "Cleaned"] EXCEPT !.data = FALSE]
           m == CleanIn(l, f)
<1>1. /\ x \in LinkSet /\ x.executed = l[f].executed /\ ~x.stored /\ ~x.data
      /\ x.state = "Cleaned" /\ x.type = l[f].type /\ x.parent = l[f].parent
  BY DEF LinkSet
<1>2. m = [l EXCEPT ![f] = x]
  <2> DEFINE m1 == [l EXCEPT ![f].stored = FALSE]
             m2 == [m1 EXCEPT ![f].state = "Cleaned"]
             m3 == [m2 EXCEPT ![f].data = FALSE]
  <2>1. m = m3
    BY DEF CleanIn
  <2>2. m1 = [l EXCEPT ![f] = [l[f] EXCEPT !.stored = FALSE]]
    OBVIOUS
  <2>3. m2 = [l EXCEPT ![f] = [[l[f] EXCEPT !.stored = FALSE] EXCEPT !.state = "Cleaned"]]
    BY <2>2
  <2>4. m3 = [l EXCEPT ![f] = x]
    BY <2>3
  <2> HIDE DEF m, m3
  <2> QED
    BY <2>1, <2>4
<1> HIDE DEF x, m
<1>3. m \in [Futures -> LinkSet] /\ m[f] = x /\ \A g \in Futures \ {f} : m[g] = l[g]
  BY <1>1, <1>2
<1>4. /\ m \in [Futures -> LinkSet]
      /\ \A g \in Futures \ {f} : m[g] = l[g]
      /\ m[f].executed = l[f].executed /\ ~m[f].stored /\ ~m[f].data
      /\ m[f].state = "Cleaned" /\ m[f].type = l[f].type /\ m[f].parent = l[f].parent
  BY <1>1, <1>3
<1> QED
  BY <1>4 DEF m

LEMMA RunFlat ==
  ASSUME IInv, NEW t \in Threads, RunContinuation(t)
  PROVE  /\ Stacks' /\ States' /\ Top(t).f \in Futures
         /\ RunF(t, Top(t).f) \/ RunNotF(t, Top(t).f)
<1> DEFINE f == Top(t).f
<1>1. Stacks /\ States /\ Attached /\ link \in [Futures -> LinkSet]
  BY DEF IInv, States, LinkSet, Once
<1>2. Now(t, "run", f, "enter") /\ f \in Futures /\ depth[t] > 0
  BY <1>1, NowAt DEF RunContinuation, Now
<1>3. /\ \/ /\ link[f].stored /\ ~link[f].executed /\ link' = RanIn(link, f)
            /\ Call(t, "leave", Frame("job", f + 1, "check"))
         \/ ~(link[f].stored /\ ~link[f].executed) /\ link' = link /\ Return(t)
      /\ UNCHANGED <<fixed, future, queue, built, history>>
  BY DEF RunContinuation, RanIn
<1> HIDE DEF f
<1>4. CASE /\ link[f].stored /\ ~link[f].executed /\ link' = RanIn(link, f)
           /\ Call(t, "leave", Frame("job", f + 1, "check"))
  <2>1. f + 1 \in Futures
    <3>1. f \notin built..Last
      BY <1>1, <1>4 DEF Attached
    <3> QED
      BY <1>1, <1>2, <3>1, ChainAssumption DEF States, Futures
  <2>2. "leave" \in AllPcs /\ "check" \in AllPcs /\ "job" \in Ops
    OBVIOUS
  <2>3. Stacks' /\ Pushes(t, Frame("job", f + 1, "check"), With(TopOf(t), "leave"))
    BY <1>1, <1>2, <1>4, <2>1, <2>2, Moves
  <2>4. /\ link' \in [Futures -> LinkSet]
        /\ LinkElse({f, f + 1}) /\ link'[f].executed /\ ~link'[f].stored
        /\ link'[f].data = link[f].data /\ link'[f].state = link[f].state
        /\ link'[f].type = link[f].type /\ link'[f].parent = link[f].parent
        /\ Kept(f + 1) /\ link'[f + 1].stored = link[f + 1].stored
        /\ link'[f + 1].data = link[f + 1].data /\ link'[f + 1].type = link[f + 1].type
    BY <1>1, <1>2, <1>4, <2>1, RanFields DEF LinkElse, Kept
  <2>5. States'
    BY <1>1, <1>3, <2>4 DEF States, LinkSet, fixed, history
  <2> QED
    BY <1>2, <1>3, <1>4, <2>1, <2>3, <2>4, <2>5 DEF RunF, f
<1>5. CASE ~(link[f].stored /\ ~link[f].executed) /\ link' = link /\ Return(t)
  <2>1. Stacks' /\ Pops(t)
    BY <1>1, <1>2, <1>5, Moves
  <2>2. UnchangedData
    BY <1>3, <1>5 DEF UnchangedData
  <2> QED
    BY <1>1, <1>2, <1>5, <2>1, <2>2, SameData DEF RunNotF, f, UnchangedData
<1> QED
  BY <1>3, <1>4, <1>5

LEMMA RunBackFlat ==
  ASSUME IInv, NEW t \in Threads, RunContinuationReturns(t)
  PROVE  Stacks' /\ States' /\ Top(t).f \in Futures /\ RunBackF(t, Top(t).f)
<1> DEFINE f == Top(t).f
<1>1. Stacks /\ States /\ link \in [Futures -> LinkSet]
  BY DEF IInv, States, LinkSet
<1>2. Now(t, "run", f, "leave") /\ f \in Futures /\ depth[t] > 0
  BY <1>1, NowAt DEF RunContinuationReturns, Now
<1>3. /\ link' = link \/ link' = [link EXCEPT ![f] = [@ EXCEPT !.stored = TRUE]]
      /\ Return(t) /\ UNCHANGED <<fixed, future, queue, built, history>>
  BY DEF RunContinuationReturns
<1> HIDE DEF f
<1>4. /\ link' \in [Futures -> LinkSet]
      /\ \/ link' = link
         \/ /\ LinkElse({f}) /\ Kept(f) /\ link'[f].stored /\ link'[f].data = link[f].data
            /\ link'[f].type = link[f].type /\ link'[f].parent = link[f].parent
  <2>1. CASE link' = link
    BY <1>1, <2>1
  <2>2. CASE link' = [link EXCEPT ![f] = [@ EXCEPT !.stored = TRUE]]
    <3> DEFINE x == [link[f] EXCEPT !.stored = TRUE]
    <3>1. /\ x \in LinkSet /\ x.executed = link[f].executed /\ x.stored /\ x.data = link[f].data
          /\ x.state = link[f].state /\ x.type = link[f].type /\ x.parent = link[f].parent
      BY <1>1, <1>2 DEF LinkSet
    <3>2. link' = [link EXCEPT ![f] = x]
      BY <2>2
    <3> HIDE DEF x
    <3>3. link' \in [Futures -> LinkSet] /\ link'[f] = x /\ \A g \in Futures \ {f} : link'[g] = link[g]
      BY <1>1, <1>2, <3>1, <3>2
    <3> QED
      BY <3>1, <3>3 DEF LinkElse, Kept
  <2> QED
    BY <1>3, <2>1, <2>2
<1>5. Stacks' /\ Pops(t)
  BY <1>1, <1>2, <1>3, Moves
<1>6. States'
  BY <1>1, <1>3, <1>4 DEF States, LinkSet, fixed, history
<1> QED
  BY <1>2, <1>3, <1>4, <1>5, <1>6 DEF RunBackF, f

LEMMA CleanFlat ==
  ASSUME IInv, NEW t \in Threads, CleanContinuation(t)
  PROVE  Stacks' /\ States' /\ Top(t).f \in Futures /\ CleanF(t, Top(t).f)
<1> DEFINE f == Top(t).f
<1>1. Stacks /\ States /\ link \in [Futures -> LinkSet]
  BY DEF IInv, States, LinkSet
<1>2. Now(t, "job", f, "clean") /\ f \in Futures /\ depth[t] > 0
  BY <1>1, NowAt DEF CleanContinuation, Now
<1>3. /\ link' = link \/ link' = CleanIn(link, f)
      /\ Return(t) /\ UNCHANGED <<fixed, future, queue, built, history>>
  BY DEF CleanContinuation, CleanIn
<1> HIDE DEF f
<1>4. /\ link' \in [Futures -> LinkSet]
      /\ \/ link' = link
         \/ /\ LinkElse({f}) /\ link'[f].executed = link[f].executed
            /\ ~link'[f].stored /\ ~link'[f].data /\ link'[f].state = "Cleaned"
            /\ link'[f].type = link[f].type /\ link'[f].parent = link[f].parent
  BY <1>1, <1>2, <1>3, CleanFields DEF LinkElse
<1>5. Stacks' /\ Pops(t)
  BY <1>1, <1>2, <1>3, Moves
<1>6. States'
  BY <1>1, <1>3, <1>4 DEF States, LinkSet, fixed, history
<1> QED
  BY <1>2, <1>3, <1>4, <1>5, <1>6 DEF CleanF, f

LEMMA CancelFields ==
  ASSUME States, NEW f \in Futures, NEW finish \in BOOLEAN, CancelFuture(f, finish)
  PROVE  future' \in [Futures -> OutcomeSet] /\ Canceled(f, finish)
<1> DEFINE x == [[future[f] EXCEPT !.canceled = TRUE] EXCEPT !.finished = @ \/ finish]
<1>1. future \in [Futures -> OutcomeSet]
  BY DEF States, OutcomeSet
<1>2. /\ x \in OutcomeSet /\ x.canceled /\ x.finished = (future[f].finished \/ finish)
      /\ x.result = future[f].result /\ x.exception = future[f].exception
  <2>1. future[f] \in OutcomeSet
    BY <1>1
  <2> QED
    BY <2>1 DEF OutcomeSet
<1>3. future' = [future EXCEPT ![f] = x]
  BY <1>1 DEF CancelFuture
<1> HIDE DEF x
<1>4. /\ future' \in [Futures -> OutcomeSet] /\ future'[f] = x
      /\ \A g \in Futures \ {f} : future'[g] = future[g]
  BY <1>1, <1>2, <1>3
<1> QED
  BY <1>2, <1>4 DEF Canceled, SameElse, FutureOf

LEMMA CancelStateFlat ==
  ASSUME IInv, NEW t \in Threads, CancelState(t)
  PROVE  /\ Stacks' /\ States' /\ Top(t).f \in Futures
         /\ CancelF(t, Top(t).f) \/ CancelNotF(t, Top(t).f)
<1> DEFINE f == Top(t).f
           finish == Top(t).op = "cancelAndFinish"
<1>1. Stacks /\ States
  BY DEF IInv
<1>2. PICK op \in Cancels : At(t, op, "lock")
  BY DEF CancelState, AtCancel
<1>3. Now(t, op, f, "lock") /\ f \in Futures /\ depth[t] > 0 /\ finish = (op = "cancelAndFinish")
  BY <1>1, <1>2, NowAt DEF Now
<1>4. /\ \/ /\ future[f].canceled /\ (finish => future[f].finished)
            /\ Return(t) /\ future' = future
            /\ stopped' = IF future[f].finished \/ future[f].exception THEN stopped
                          ELSE stopped \cup Below(f)
         \/ CancelFuture(f, finish) /\ Goto(t, "links") /\ stopped' = stopped
      /\ UNCHANGED <<fixed, link, queue, built, jobs, called, takers>>
  BY DEF CancelState, NothingToCancel
<1>5. Below(f) \subseteq 1..Last
  BY <1>3, ChainAssumption DEF Below, Futures
<1>6. finish \in BOOLEAN
  OBVIOUS
<1> HIDE DEF f, finish
<1>7. CASE /\ future[f].canceled /\ (finish => future[f].finished)
           /\ Return(t) /\ future' = future
           /\ stopped' = IF future[f].finished \/ future[f].exception THEN stopped
                         ELSE stopped \cup Below(f)
  <2>1. Stacks' /\ Pops(t)
    BY <1>1, <1>3, <1>7, Moves
  <2>2. States'
    <3>1. stopped' \subseteq 1..Last
      BY <1>1, <1>5, <1>7 DEF States
    <3> QED
      BY <1>1, <1>4, <1>7, <3>1 DEF States, fixed
  <2>3. CancelNotF(t, f)
    <3>1. \/ stopped' = stopped
          \/ ~future[f].finished /\ ~future[f].exception /\ stopped' = stopped \cup Below(f)
      BY <1>7
    <3>2. \E o \in Cancels : Now(t, o, f, "lock") /\ (o = "cancelAndFinish" => future[f].finished)
      BY <1>3, <1>7
    <3> QED
      BY <1>4, <1>7, <2>1, <3>1, <3>2 DEF CancelNotF
  <2> QED
    BY <1>3, <2>1, <2>2, <2>3 DEF f
<1>8. CASE CancelFuture(f, finish) /\ Goto(t, "links") /\ stopped' = stopped
  <2>1. future' \in [Futures -> OutcomeSet] /\ Canceled(f, op = "cancelAndFinish")
    BY <1>1, <1>3, <1>6, <1>8, CancelFields
  <2>2. Stacks' /\ Replaces(t, With(TopOf(t), "links"))
    BY <1>1, <1>3, <1>8, Moves
  <2>3. States'
    BY <1>1, <1>4, <1>8, <2>1 DEF States, OutcomeSet, fixed
  <2>4. \E o \in Cancels : Now(t, o, f, "lock") /\ Canceled(f, o = "cancelAndFinish")
    BY <1>3, <2>1
  <2>5. CancelF(t, f)
    BY <1>4, <1>8, <2>2, <2>4 DEF CancelF
  <2> QED
    BY <1>3, <2>2, <2>3, <2>5 DEF f
<1> QED
  BY <1>4, <1>7, <1>8

LEMMA CancelLinksFlat ==
  ASSUME IInv, NEW t \in Threads, CancelLinks(t)
  PROVE  Stacks' /\ States' /\ Top(t).f \in Futures /\ LinksF(t, Top(t).f)
<1> DEFINE f == Top(t).f
<1>1. Stacks /\ States /\ Attached
  BY DEF IInv, Once
<1>2. PICK op \in Cancels : At(t, op, "links")
  BY DEF CancelLinks, AtCancel
<1>3. Now(t, op, f, "links") /\ f \in Futures /\ depth[t] > 0
  BY <1>1, <1>2, NowAt DEF Now
<1>4. /\ \/ link[f].data /\ GoOnAt(t, "walk", f + 1) /\ stopped' = stopped
         \/ ~link[f].data /\ Return(t) /\ stopped' = stopped \cup Below(f)
      /\ UNCHANGED <<fixed, future, link, queue, built, jobs, called, takers>>
  BY DEF CancelLinks, CancelReturns
<1>5. Below(f) \subseteq 1..Last
  BY <1>3, ChainAssumption DEF Below, Futures
<1>6. \E o \in Cancels : Now(t, o, f, "links")
  BY <1>3
<1> HIDE DEF f
<1>7. CASE link[f].data /\ GoOnAt(t, "walk", f + 1) /\ stopped' = stopped
  <2>1. f + 1 \in Futures
    <3>1. f \notin built..Last
      BY <1>1, <1>7 DEF Attached
    <3> QED
      BY <1>1, <1>3, <3>1, ChainAssumption DEF States, Futures
  <2>2. "walk" \in AllPcs
    OBVIOUS
  <2>3. Stacks' /\ Replaces(t, WithOther(TopOf(t), "walk", f + 1))
    BY <1>1, <1>3, <1>7, <2>1, <2>2, Moves
  <2>4. States'
    BY <1>1, <1>4, <1>7 DEF States, fixed
  <2> QED
    BY <1>3, <1>4, <1>6, <1>7, <2>1, <2>3, <2>4 DEF LinksF, f
<1>8. CASE ~link[f].data /\ Return(t) /\ stopped' = stopped \cup Below(f)
  <2>1. Stacks' /\ Pops(t)
    BY <1>1, <1>3, <1>8, Moves
  <2>2. States'
    BY <1>1, <1>4, <1>5, <1>8 DEF States, fixed
  <2> QED
    BY <1>3, <1>4, <1>6, <1>8, <2>1, <2>2 DEF LinksF, f
<1> QED
  BY <1>4, <1>7, <1>8

LEMMA CancelWalkFlat ==
  ASSUME IInv, NEW t \in Threads, CancelWalk(t)
  PROVE  Stacks' /\ States' /\ Top(t).f \in Futures /\ WalkF(t, Top(t).f)
<1> DEFINE f == Top(t).f
           o == TopOf(t).other
<1>1. Stacks /\ States /\ Attached /\ Shape /\ link \in [Futures -> LinkSet]
  BY DEF IInv, Once, States, LinkSet
<1>2. PICK op \in Cancels : At(t, op, "walk")
  BY DEF CancelWalk, AtCancel
<1>3. Now(t, op, f, "walk") /\ f \in Futures /\ depth[t] > 0 /\ Top(t) = TopOf(t)
  BY <1>1, <1>2, NowAt DEF Now
<1>4. o \in Futures
  <2>1. depth[t] \in 1..depth[t]
    BY <1>1, <1>3, FramesType
  <2>2. o > f /\ o <= Last
    BY <1>1, <1>3, <2>1 DEF Shape, Places, Now, TopOf
  <2>3. o \in Futures \cup {Nobody} /\ f \in Nat
    BY <1>3, ChainAssumption DEF Now, FrameSet, Futures
  <2> QED
    BY <2>2, <2>3, ChainAssumption DEF Futures, Nobody
<1>5. Below(f) \subseteq 1..Last
  BY <1>3, ChainAssumption DEF Below, Futures
<1>6. \E p \in Cancels : Now(t, p, f, "walk")
  BY <1>3
<1>7. /\ link' = IF link[o].type = "then" THEN [link EXCEPT ![o].state = "Canceled"] ELSE link
      /\ \/ /\ link[o].type = "then" /\ link[o].data
            /\ GoOnAt(t, "walk", o + 1) /\ stopped' = stopped
         \/ /\ ~(link[o].type = "then" /\ link[o].data)
            /\ Return(t) /\ stopped' = stopped \cup Below(f)
      /\ UNCHANGED <<fixed, future, queue, built, jobs, called, takers>>
  BY <1>3 DEF CancelWalk, CancelReturns
<1> HIDE DEF f, o
<1>8. /\ link' \in [Futures -> LinkSet]
      /\ \/ link[o].type # "then" /\ link' = link
         \/ /\ link[o].type = "then" /\ LinkElse({o}) /\ link'[o].state = "Canceled"
            /\ link'[o].executed = link[o].executed /\ link'[o].stored = link[o].stored
            /\ link'[o].data = link[o].data
            /\ link'[o].type = link[o].type /\ link'[o].parent = link[o].parent
  <2>1. CASE link[o].type # "then"
    BY <1>1, <1>7, <2>1
  <2>2. CASE link[o].type = "then"
    <3> DEFINE x == [link[o] EXCEPT !.state = "Canceled"]
    <3>1. /\ x \in LinkSet /\ x.executed = link[o].executed /\ x.stored = link[o].stored
          /\ x.data = link[o].data /\ x.state = "Canceled"
          /\ x.type = link[o].type /\ x.parent = link[o].parent
      BY <1>1, <1>4 DEF LinkSet
    <3>2. link' = [link EXCEPT ![o] = x]
      BY <1>7, <2>2
    <3> HIDE DEF x
    <3>3. link' \in [Futures -> LinkSet] /\ link'[o] = x /\ \A g \in Futures \ {o} : link'[g] = link[g]
      BY <1>1, <1>4, <3>1, <3>2
    <3> QED
      BY <2>2, <3>1, <3>3 DEF LinkElse
  <2> QED
    BY <2>1, <2>2
<1>9. CASE /\ link[o].type = "then" /\ link[o].data
           /\ GoOnAt(t, "walk", o + 1) /\ stopped' = stopped
  <2>1. o + 1 \in Futures
    <3>1. o \notin built..Last
      BY <1>1, <1>9 DEF Attached
    <3> QED
      BY <1>1, <1>4, <3>1, ChainAssumption DEF States, Futures
  <2>2. "walk" \in AllPcs
    OBVIOUS
  <2>3. Stacks' /\ Replaces(t, WithOther(TopOf(t), "walk", o + 1))
    BY <1>1, <1>3, <1>9, <2>1, <2>2, Moves
  <2>4. States'
    BY <1>1, <1>7, <1>8, <1>9 DEF States, fixed, LinkSet
  <2> QED
    BY <1>3, <1>4, <1>6, <1>7, <1>8, <1>9, <2>1, <2>3, <2>4 DEF WalkF, f, o
<1>10. CASE /\ ~(link[o].type = "then" /\ link[o].data)
            /\ Return(t) /\ stopped' = stopped \cup Below(f)
  <2>1. Stacks' /\ Pops(t)
    BY <1>1, <1>3, <1>10, Moves
  <2>2. States'
    BY <1>1, <1>5, <1>7, <1>8, <1>10 DEF States, fixed, LinkSet
  <2> QED
    BY <1>3, <1>4, <1>6, <1>7, <1>8, <1>10, <2>1, <2>2 DEF WalkF, f, o
<1> QED
  BY <1>7, <1>9, <1>10

LEMMA ChainCancelFlat ==
  ASSUME IInv, NEW t \in Threads, ChainCancel(t)
  PROVE  Stacks' /\ States' /\ Top(t).f \in Futures /\ ChainCancelF(t, Top(t).f)
<1> DEFINE f == Top(t).f
           o == TopOf(t).other
<1>1. Stacks /\ States /\ Shape
  BY DEF IInv
<1>2. Now(t, "cancelChain", f, "up") /\ f \in Futures /\ depth[t] > 0 /\ Top(t) = TopOf(t)
  BY <1>1, NowAt DEF Now, ChainCancel
<1>3. o \in Futures
  <2>1. depth[t] \in 1..depth[t]
    BY <1>1, <1>2, FramesType
  <2> QED
    BY <1>1, <1>2, <2>1 DEF Shape, Places, Now, TopOf
<1>4. CancelFuture(o, FALSE) /\ Goto(t, "next") /\ UNCHANGED <<fixed, link, queue, built, history>>
  BY <1>2 DEF ChainCancel
<1> HIDE DEF f, o
<1>5. future' \in [Futures -> OutcomeSet] /\ Canceled(o, FALSE)
  BY <1>1, <1>3, <1>4, CancelFields
<1>6. Stacks' /\ Replaces(t, With(TopOf(t), "next"))
  BY <1>1, <1>2, <1>4, Moves
<1>7. States'
  BY <1>1, <1>4, <1>5 DEF States, OutcomeSet, fixed, history
<1> QED
  BY <1>2, <1>3, <1>4, <1>5, <1>6, <1>7 DEF ChainCancelF, f, o

FlatStep(t, f) ==
  \/ DecideF(t, f) \/ CallF(t, f) \/ PassF(t, f) \/ CancelOwnF(t, f) \/ (f = 0 /\ AbandonF(t))
  \/ FinishF(t, f) \/ RunsF(t, f) \/ CleanF(t, f)
  \/ SetRunF(t, f) \/ SetStoreF(t, f) \/ SetBackF(t, f)
  \/ RunF(t, f) \/ RunNotF(t, f) \/ RunBackF(t, f)
  \/ CancelNotF(t, f) \/ CancelF(t, f) \/ LinksF(t, f) \/ WalkF(t, f)
  \/ ChainF(t, f) \/ ChainCancelF(t, f) \/ ClientF(t, f)

FlatNext == \/ AttachF \/ \E f \in Futures : TakeF(f)
            \/ \E t \in Threads, f \in Futures : FlatStep(t, f)

LEMMA Flat ==
  ASSUME IInv, Next
  PROVE  States' /\ Stacks' /\ FlatNext
<1>1. CASE Attach
  BY <1>1, AttachFlat DEF FlatNext
<1>2. CASE PoolTakes
  BY <1>2, TakeFlat DEF FlatNext
<1>3. ASSUME NEW t \in Threads, Step(t) \/ Abandon(t) \/ ClientCancels(t)
      PROVE  States' /\ Stacks' /\ FlatNext
  <2>0. /\ 0 \in Futures
        /\ \A op, pc : At(t, op, pc) => Top(t).f \in Futures
        /\ AtCancel(t, "lock") => Top(t).f \in Futures
    <3>1. Stacks
      BY DEF IInv
    <3>2. \A op, pc : At(t, op, pc) => Top(t).f \in Futures
      BY <3>1, NowAt
    <3> QED
      BY <3>2, ChainAssumption DEF AtCancel, Futures
  <2> SUFFICES States' /\ Stacks' /\ \E f \in Futures : FlatStep(t, f)
    BY DEF FlatNext
  <2>1. CASE Decide(t)
    BY <2>1, DecideFlat DEF FlatStep
  <2>2. CASE CallFunction(t)
    BY <2>2, CallFlat DEF FlatStep
  <2>3. CASE PassOn(t)
    BY <2>3, PassFlat DEF FlatStep
  <2>4. CASE CancelOwn(t)
    <3>1. Top(t).f \in Futures
      BY <2>0, <2>4 DEF CancelOwn
    <3> QED
      BY <2>4, <3>1, CancelOwnFlat DEF FlatStep
  <2>5. CASE Finish(t)
    BY <2>5, FinishFlat DEF FlatStep
  <2>6. CASE RunsContinuation(t)
    <3>1. Top(t).f \in Futures
      BY <2>0, <2>6 DEF RunsContinuation
    <3> QED
      BY <2>6, <3>1, RunsFlat DEF FlatStep
  <2>7. CASE CleanContinuation(t)
    BY <2>7, CleanFlat DEF FlatStep
  <2>8. CASE SetContinuation(t)
    BY <2>8, SetFlat DEF FlatStep
  <2>9. CASE SetContinuationReturns(t)
    BY <2>9, SetBackFlat DEF FlatStep
  <2>10. CASE RunContinuation(t)
    BY <2>10, RunFlat DEF FlatStep
  <2>11. CASE RunContinuationReturns(t)
    BY <2>11, RunBackFlat DEF FlatStep
  <2>12. CASE CancelState(t)
    BY <2>12, CancelStateFlat DEF FlatStep
  <2>13. CASE CancelLinks(t)
    BY <2>13, CancelLinksFlat DEF FlatStep
  <2>14. CASE CancelWalk(t)
    BY <2>14, CancelWalkFlat DEF FlatStep
  <2>15. CASE ChainLinks(t) \/ ChainUp(t)
    <3>1. Top(t).f \in Futures
      BY <2>0, <2>15 DEF ChainLinks, ChainUp
    <3> QED
      BY <2>15, <3>1, ChainFlat DEF FlatStep
  <2>16. CASE ChainCancel(t)
    BY <2>16, ChainCancelFlat DEF FlatStep
  <2>17. CASE Abandon(t)
    BY <2>0, <2>17, AbandonFlat DEF FlatStep
  <2>18. CASE ClientCancels(t)
    <3>1. Top(t).f \in Futures
      BY <2>0, <2>18 DEF ClientCancels
    <3> QED
      BY <2>18, <3>1, ClientFlat DEF FlatStep
  <2> QED
    BY <1>3, <2>1, <2>2, <2>3, <2>4, <2>5, <2>6, <2>7, <2>8, <2>9, <2>10, <2>11, <2>12,
       <2>13, <2>14, <2>15, <2>16, <2>17, <2>18 DEF Step
<1> QED
  BY <1>1, <1>2, <1>3 DEF Next

-----------------------------------------------------------------------------
(* What becomes of a call that is not the innermost, and where the calls   *)
(* of the next state come from.                                            *)

IsTop(t, v, d) == v = t /\ d = depth[t]

LEMMA ReplaceFrames ==
  ASSUME Stacks, Stacks', NEW t \in Threads, depth[t] > 0, NEW x, Replaces(t, x)
  PROVE  /\ \A v \in Threads : depth'[v] = depth[v]
         /\ \A v \in Threads : \A d \in 1..depth[v] :
              frame'[v][d] = IF IsTop(t, v, d) THEN x ELSE frame[v][d]
<1>1. \A v \in Threads : depth[v] \in Nat
  BY FramesType
<1>2. /\ \A v \in Threads \ {t} : depth'[v] = depth[v] /\ frame'[v] = frame[v]
      /\ depth'[t] = depth[t] /\ frame'[t][depth[t]] = x
      /\ \A d \in 1..(depth[t] - 1) : frame'[t][d] = frame[t][d]
  BY DEF Replaces, Elsewhere, Below_
<1>3. ASSUME NEW v \in Threads, NEW d \in 1..depth[v]
      PROVE  frame'[v][d] = IF IsTop(t, v, d) THEN x ELSE frame[v][d]
  <2>1. CASE v # t
    BY <1>2, <2>1 DEF IsTop
  <2>2. CASE v = t /\ d = depth[t]
    BY <1>2, <2>2 DEF IsTop
  <2>3. CASE v = t /\ d # depth[t]
    <3>1. d \in 1..(depth[t] - 1)
      BY <1>1, <2>3
    <3> QED
      BY <1>2, <2>3, <3>1 DEF IsTop
  <2> QED
    BY <2>1, <2>2, <2>3
<1> QED
  BY <1>2, <1>3

LEMMA PushFrames ==
  ASSUME Stacks, Stacks', NEW t \in Threads, depth[t] > 0, NEW x, NEW y, Pushes(t, x, y)
  PROVE  /\ \A v \in Threads : depth'[v] = IF v = t THEN depth[v] + 1 ELSE depth[v]
         /\ \A v \in Threads : \A d \in 1..depth[v] :
              frame'[v][d] = IF IsTop(t, v, d) THEN y ELSE frame[v][d]
         /\ frame'[t][depth[t] + 1] = x
         /\ \A v \in Threads : \A d \in 1..depth'[v] :
              d \in 1..depth[v] \/ (v = t /\ d = depth[t] + 1)
<1>1. \A v \in Threads : depth[v] \in Nat
  BY FramesType
<1>2. /\ \A v \in Threads \ {t} : depth'[v] = depth[v] /\ frame'[v] = frame[v]
      /\ depth'[t] = depth[t] + 1 /\ frame'[t][depth[t]] = y /\ frame'[t][depth[t] + 1] = x
      /\ \A d \in 1..(depth[t] - 1) : frame'[t][d] = frame[t][d]
  BY DEF Pushes, Elsewhere, Below_
<1>3. ASSUME NEW v \in Threads, NEW d \in 1..depth[v]
      PROVE  frame'[v][d] = IF IsTop(t, v, d) THEN y ELSE frame[v][d]
  <2>1. CASE v # t
    BY <1>2, <2>1 DEF IsTop
  <2>2. CASE v = t /\ d = depth[t]
    BY <1>2, <2>2 DEF IsTop
  <2>3. CASE v = t /\ d # depth[t]
    <3>1. d \in 1..(depth[t] - 1)
      BY <1>1, <2>3
    <3> QED
      BY <1>2, <2>3, <3>1 DEF IsTop
  <2> QED
    BY <2>1, <2>2, <2>3
<1>4. ASSUME NEW v \in Threads, NEW d \in 1..depth'[v]
      PROVE  d \in 1..depth[v] \/ (v = t /\ d = depth[t] + 1)
  <2>1. CASE v # t
    BY <1>2, <2>1
  <2>2. CASE v = t
    <3>1. depth[t] \in Nat /\ d \in 1..(depth[t] + 1)
      BY <1>1, <1>2, <2>2
    <3>2. d \in 1..depth[t] \/ d = depth[t] + 1
      BY <3>1
    <3> QED
      BY <2>2, <3>2
  <2> QED
    BY <2>1, <2>2
<1> QED
  BY <1>2, <1>3, <1>4

LEMMA PopFrames ==
  ASSUME Stacks, Stacks', NEW t \in Threads, depth[t] > 0, Pops(t)
  PROVE  /\ \A v \in Threads : depth'[v] = IF v = t THEN depth[v] - 1 ELSE depth[v]
         /\ \A v \in Threads : \A d \in 1..depth[v] : ~IsTop(t, v, d) =>
              d \in 1..depth'[v] /\ frame'[v][d] = frame[v][d]
         /\ \A v \in Threads : \A d \in 1..depth'[v] :
              /\ d \in 1..depth[v] /\ ~IsTop(t, v, d) /\ frame'[v][d] = frame[v][d]
<1>1. \A v \in Threads : depth[v] \in Nat
  BY FramesType
<1>2. /\ \A v \in Threads \ {t} : depth'[v] = depth[v] /\ frame'[v] = frame[v]
      /\ depth'[t] = depth[t] - 1
      /\ \A d \in 1..(depth[t] - 1) : frame'[t][d] = frame[t][d]
  BY DEF Pops, Elsewhere, Below_
<1>3. ASSUME NEW v \in Threads, NEW d \in 1..depth[v], ~IsTop(t, v, d)
      PROVE  d \in 1..depth'[v] /\ frame'[v][d] = frame[v][d]
  <2>1. CASE v # t
    BY <1>2, <2>1
  <2>2. CASE v = t
    <3>1. d \in 1..(depth[t] - 1)
      BY <1>1, <1>3, <2>2 DEF IsTop
    <3> QED
      BY <1>2, <2>2, <3>1
  <2> QED
    BY <2>1, <2>2
<1>4. ASSUME NEW v \in Threads, NEW d \in 1..depth'[v]
      PROVE  d \in 1..depth[v] /\ ~IsTop(t, v, d)
  <2>1. CASE v # t
    BY <1>2, <2>1 DEF IsTop
  <2>2. CASE v = t
    <3>1. depth[t] \in Nat /\ d \in 1..(depth[t] - 1)
      BY <1>1, <1>2, <2>2
    <3>2. d \in 1..depth[t] /\ d # depth[t]
      BY <3>1
    <3> QED
      BY <2>2, <3>2 DEF IsTop
  <2> QED
    BY <2>1, <2>2
<1> QED
  BY <1>2, <1>3, <1>4

LEMMA StartFrames ==
  ASSUME Stacks, Stacks', NEW t \in Threads, NEW x, Starts(t, x)
  PROVE  /\ \A v \in Threads : depth'[v] = IF v = t THEN 1 ELSE depth[v]
         /\ \A v \in Threads : \A d \in 1..depth[v] :
              v # t /\ d \in 1..depth'[v] /\ frame'[v][d] = frame[v][d]
         /\ 1 \in 1..depth'[t] /\ frame'[t][1] = x
         /\ \A v \in Threads : \A d \in 1..depth'[v] :
              d \in 1..depth[v] \/ (v = t /\ d = 1)
<1>1. /\ \A v \in Threads \ {t} : depth'[v] = depth[v] /\ frame'[v] = frame[v]
      /\ depth[t] = 0 /\ depth'[t] = 1 /\ frame'[t][1] = x
  BY DEF Starts, Elsewhere
<1>2. 1..0 = {} /\ 1..1 = {1}
  OBVIOUS
<1>3. ASSUME NEW v \in Threads, NEW d \in 1..depth[v]
      PROVE  v # t /\ d \in 1..depth'[v] /\ frame'[v][d] = frame[v][d]
  <2>1. v # t
    BY <1>1, <1>2
  <2> QED
    BY <1>1, <2>1
<1>4. ASSUME NEW v \in Threads, NEW d \in 1..depth'[v]
      PROVE  d \in 1..depth[v] \/ (v = t /\ d = 1)
  <2>1. CASE v # t
    BY <1>1, <2>1
  <2>2. CASE v = t
    BY <1>1, <1>2, <2>2
  <2> QED
    BY <2>1, <2>2
<1> QED
  BY <1>1, <1>2, <1>3, <1>4

-----------------------------------------------------------------------------
(* Calls stay where they may be.                                           *)

Placed(x) ==
  /\ x.pc \in PcsOf(x.op)
  /\ x.op = "job" /\ x.f = 0 => x.pc \in {"call", "finish", "destroyed", "clean"}
  /\ x.op \in Cancels /\ x.pc = "walk" => x.other > x.f /\ x.other <= Last
  /\ x.op = "cancelChain" /\ x.pc \in {"up", "next"} => x.other \in Futures

LEMMA AllPlaced ==
  /\ Places <=> \A t \in Threads : \A d \in 1..depth[t] : Placed(frame[t][d])
BY DEF Places, Placed

LEMMA ShapeReplace ==
  ASSUME Stacks, Stacks', Shape, built' = built, NEW t \in Threads, depth[t] > 0,
         NEW x \in FrameSet, Replaces(t, x), Placed(x),
         \/ x.op = TopOf(t).op /\ x.f = TopOf(t).f /\ x.pc # "check"
         \/ depth[t] = 1 /\ t \in Cancellers /\ x.op \in {"cancel", "cancelChain"}
  PROVE  Shape'
<1>1. /\ \A v \in Threads : depth'[v] = depth[v] /\ depth[v] \in Nat
      /\ \A v \in Threads : \A d \in 1..depth[v] :
           frame'[v][d] = IF IsTop(t, v, d) THEN x ELSE frame[v][d]
  BY ReplaceFrames, FramesType
<1>2. Places'
  <2>1. \A v \in Threads : \A d \in 1..depth[v] : Placed(frame[v][d])
    BY AllPlaced DEF Shape
  <2>2. \A v \in Threads : \A d \in 1..depth'[v] : Placed(frame'[v][d])
    BY <1>1, <2>1
  <2> QED
    BY <2>2 DEF Places, Placed
<1>3. Outermost'
  <2> SUFFICES ASSUME NEW v \in Threads, depth'[v] > 0
               PROVE  /\ v = Owner   => frame'[v][1].op = "job" /\ frame'[v][1].f = 0
                      /\ v = Builder => frame'[v][1].op = "set" /\ frame'[v][1].f = built /\ built < Last
                      /\ v = Pool    => frame'[v][1].op = "job" /\ frame'[v][1].f > 0 /\ frame'[v][1].pc # "check"
                      /\ v \in Cancellers => frame'[v][1].op \in {"client", "cancel", "cancelChain"}
    BY DEF Outermost
  <2>1. depth[v] > 0 /\ 1 \in 1..depth[v]
    BY <1>1
  <2>2. /\ v = Owner   => frame[v][1].op = "job" /\ frame[v][1].f = 0
        /\ v = Builder => frame[v][1].op = "set" /\ frame[v][1].f = built /\ built < Last
        /\ v = Pool    => frame[v][1].op = "job" /\ frame[v][1].f > 0 /\ frame[v][1].pc # "check"
        /\ v \in Cancellers => frame[v][1].op \in {"client", "cancel", "cancelChain"}
    BY <2>1 DEF Shape, Outermost
  <2>3. CASE ~IsTop(t, v, 1)
    BY <1>1, <2>1, <2>2, <2>3
  <2>4. CASE IsTop(t, v, 1)
    <3>1. frame'[v][1] = x /\ v = t /\ depth[t] = 1 /\ TopOf(t) = frame[v][1]
      BY <1>1, <2>1, <2>4 DEF IsTop, TopOf
    <3> QED
      BY <2>2, <3>1, ChainAssumption
  <2> QED
    BY <2>3, <2>4
<1>4. Nested'
  <2> SUFFICES ASSUME NEW v \in Threads, NEW d \in 1..(depth'[v] - 1)
               PROVE  Calls(frame'[v][d], frame'[v][d + 1])
    BY DEF Nested, Calls
  <2>1. /\ d \in 1..depth[v] /\ d + 1 \in 1..depth[v] /\ d \in 1..(depth[v] - 1)
        /\ ~IsTop(t, v, d) /\ (v = t => depth[t] # 1)
    BY <1>1 DEF IsTop
  <2>2. Calls(frame[v][d], frame[v][d + 1])
    BY <2>1 DEF Shape, Nested
  <2>3. frame'[v][d] = frame[v][d]
    BY <1>1, <2>1
  <2>4. CASE ~IsTop(t, v, d + 1)
    BY <1>1, <2>1, <2>2, <2>3, <2>4
  <2>5. CASE IsTop(t, v, d + 1)
    <3>1. frame'[v][d + 1] = x /\ frame[v][d + 1] = TopOf(t) /\ x.op = TopOf(t).op /\ x.f = TopOf(t).f
      BY <1>1, <2>1, <2>5 DEF IsTop, TopOf
    <3> QED
      BY <2>2, <2>3, <3>1 DEF Calls
  <2> QED
    BY <2>4, <2>5
<1> QED
  BY <1>2, <1>3, <1>4 DEF Shape

LEMMA ShapePush ==
  ASSUME Stacks, Stacks', Shape, built' = built, NEW t \in Threads, depth[t] > 0,
         NEW x \in FrameSet, NEW y \in FrameSet, Pushes(t, x, y), Placed(x), Placed(y),
         y.op = TopOf(t).op, y.f = TopOf(t).f, y.pc # "check", Calls(y, x)
  PROVE  Shape'
<1>1. /\ \A v \in Threads : depth[v] \in Nat /\ depth'[v] = IF v = t THEN depth[v] + 1 ELSE depth[v]
      /\ \A v \in Threads : \A d \in 1..depth[v] :
           frame'[v][d] = IF IsTop(t, v, d) THEN y ELSE frame[v][d]
      /\ frame'[t][depth[t] + 1] = x
      /\ \A v \in Threads : \A d \in 1..depth'[v] :
           d \in 1..depth[v] \/ (v = t /\ d = depth[t] + 1)
  BY PushFrames, FramesType
<1>2. Places'
  <2>1. \A v \in Threads : \A d \in 1..depth[v] : Placed(frame[v][d])
    BY AllPlaced DEF Shape
  <2>2. \A v \in Threads : \A d \in 1..depth'[v] : Placed(frame'[v][d])
    BY <1>1, <2>1
  <2> QED
    BY <2>2 DEF Places, Placed
<1>3. Outermost'
  <2> SUFFICES ASSUME NEW v \in Threads, depth'[v] > 0
               PROVE  /\ v = Owner   => frame'[v][1].op = "job" /\ frame'[v][1].f = 0
                      /\ v = Builder => frame'[v][1].op = "set" /\ frame'[v][1].f = built /\ built < Last
                      /\ v = Pool    => frame'[v][1].op = "job" /\ frame'[v][1].f > 0 /\ frame'[v][1].pc # "check"
                      /\ v \in Cancellers => frame'[v][1].op \in {"client", "cancel", "cancelChain"}
    BY DEF Outermost
  <2>1. depth[v] > 0 /\ 1 \in 1..depth[v]
    BY <1>1
  <2>2. /\ v = Owner   => frame[v][1].op = "job" /\ frame[v][1].f = 0
        /\ v = Builder => frame[v][1].op = "set" /\ frame[v][1].f = built /\ built < Last
        /\ v = Pool    => frame[v][1].op = "job" /\ frame[v][1].f > 0 /\ frame[v][1].pc # "check"
        /\ v \in Cancellers => frame[v][1].op \in {"client", "cancel", "cancelChain"}
    BY <2>1 DEF Shape, Outermost
  <2>3. CASE ~IsTop(t, v, 1)
    BY <1>1, <2>1, <2>2, <2>3
  <2>4. CASE IsTop(t, v, 1)
    <3>1. frame'[v][1] = y /\ TopOf(t) = frame[v][1]
      BY <1>1, <2>1, <2>4 DEF IsTop, TopOf
    <3> QED
      BY <2>2, <3>1
  <2> QED
    BY <2>3, <2>4
<1>4. Nested'
  <2> SUFFICES ASSUME NEW v \in Threads, NEW d \in 1..(depth'[v] - 1)
               PROVE  Calls(frame'[v][d], frame'[v][d + 1])
    BY DEF Nested, Calls
  <2>1. d \in 1..depth[v] /\ depth[v] \in Nat /\ d \in Nat
    BY <1>1
  <2>2. CASE IsTop(t, v, d)
    BY <1>1, <2>1, <2>2 DEF IsTop
  <2>3. CASE ~IsTop(t, v, d)
    <3>1. d + 1 \in 1..depth[v] /\ d \in 1..(depth[v] - 1)
      <4>1. CASE v = t
        BY <2>1, <2>3, <4>1 DEF IsTop
      <4>2. CASE v # t
        BY <1>1, <2>1, <4>2
      <4> QED
        BY <4>1, <4>2
    <3>2. Calls(frame[v][d], frame[v][d + 1]) /\ frame'[v][d] = frame[v][d]
      BY <1>1, <2>1, <2>3, <3>1 DEF Shape, Nested
    <3>3. CASE ~IsTop(t, v, d + 1)
      BY <1>1, <3>1, <3>2, <3>3
    <3>4. CASE IsTop(t, v, d + 1)
      <4>1. frame'[v][d + 1] = y /\ frame[v][d + 1] = TopOf(t)
        BY <1>1, <3>1, <3>4 DEF IsTop, TopOf
      <4> QED
        BY <3>2, <4>1 DEF Calls
    <3> QED
      BY <3>3, <3>4
  <2> QED
    BY <2>2, <2>3
<1> QED
  BY <1>2, <1>3, <1>4 DEF Shape

LEMMA ShapePop ==
  ASSUME Stacks, Stacks', Shape, NEW t \in Threads, depth[t] > 0, Pops(t),
         built' = built \/ (t = Builder /\ depth[t] = 1)
  PROVE  Shape'
<1>1. /\ \A v \in Threads : depth[v] \in Nat /\ depth'[v] = IF v = t THEN depth[v] - 1 ELSE depth[v]
      /\ \A v \in Threads : \A d \in 1..depth'[v] :
           d \in 1..depth[v] /\ ~IsTop(t, v, d) /\ frame'[v][d] = frame[v][d]
  BY PopFrames, FramesType
<1>2. Places'
  <2>1. \A v \in Threads : \A d \in 1..depth[v] : Placed(frame[v][d])
    BY AllPlaced DEF Shape
  <2>2. \A v \in Threads : \A d \in 1..depth'[v] : Placed(frame'[v][d])
    BY <1>1, <2>1
  <2> QED
    BY <2>2 DEF Places, Placed
<1>3. Outermost'
  <2> SUFFICES ASSUME NEW v \in Threads, depth'[v] > 0
               PROVE  /\ v = Owner   => frame'[v][1].op = "job" /\ frame'[v][1].f = 0
                      /\ v = Builder => frame'[v][1].op = "set" /\ frame'[v][1].f = built' /\ built' < Last
                      /\ v = Pool    => frame'[v][1].op = "job" /\ frame'[v][1].f > 0 /\ frame'[v][1].pc # "check"
                      /\ v \in Cancellers => frame'[v][1].op \in {"client", "cancel", "cancelChain"}
    BY DEF Outermost
  <2>1. depth[v] > 0 /\ 1 \in 1..depth'[v] /\ frame'[v][1] = frame[v][1]
    BY <1>1
  <2>2. v = Builder => built' = built
    BY <1>1, <2>1
  <2> QED
    BY <2>1, <2>2 DEF Shape, Outermost
<1>4. Nested'
  <2> SUFFICES ASSUME NEW v \in Threads, NEW d \in 1..(depth'[v] - 1)
               PROVE  Calls(frame'[v][d], frame'[v][d + 1])
    BY DEF Nested, Calls
  <2>1. /\ d \in 1..depth'[v] /\ d + 1 \in 1..depth'[v] /\ d \in 1..(depth[v] - 1)
    BY <1>1
  <2>2. Calls(frame[v][d], frame[v][d + 1])
    BY <2>1 DEF Shape, Nested
  <2> QED
    BY <1>1, <2>1, <2>2
<1> QED
  BY <1>2, <1>3, <1>4 DEF Shape

LEMMA ShapeStart ==
  ASSUME Stacks, Stacks', Shape, built' = built, NEW t \in Threads, NEW x \in FrameSet,
         Starts(t, x), Placed(x),
         \/ t = Builder /\ x.op = "set" /\ x.f = built /\ built < Last
         \/ t = Pool /\ x.op = "job" /\ x.f > 0 /\ x.pc # "check"
  PROVE  Shape'
<1>1. /\ \A v \in Threads : depth[v] \in Nat /\ depth'[v] = IF v = t THEN 1 ELSE depth[v]
      /\ \A v \in Threads : \A d \in 1..depth[v] :
           v # t /\ d \in 1..depth'[v] /\ frame'[v][d] = frame[v][d]
      /\ frame'[t][1] = x
      /\ \A v \in Threads : \A d \in 1..depth'[v] :
           d \in 1..depth[v] \/ (v = t /\ d = 1)
  BY StartFrames, FramesType
<1>2. Places'
  <2>1. \A v \in Threads : \A d \in 1..depth[v] : Placed(frame[v][d])
    BY AllPlaced DEF Shape
  <2>2. \A v \in Threads : \A d \in 1..depth'[v] : Placed(frame'[v][d])
    BY <1>1, <2>1
  <2> QED
    BY <2>2 DEF Places, Placed
<1>3. Outermost'
  <2> SUFFICES ASSUME NEW v \in Threads, depth'[v] > 0
               PROVE  /\ v = Owner   => frame'[v][1].op = "job" /\ frame'[v][1].f = 0
                      /\ v = Builder => frame'[v][1].op = "set" /\ frame'[v][1].f = built /\ built < Last
                      /\ v = Pool    => frame'[v][1].op = "job" /\ frame'[v][1].f > 0 /\ frame'[v][1].pc # "check"
                      /\ v \in Cancellers => frame'[v][1].op \in {"client", "cancel", "cancelChain"}
    BY DEF Outermost
  <2>1. CASE v = t
    BY <1>1, <2>1, ChainAssumption
  <2>2. CASE v # t
    <3>1. depth[v] > 0 /\ frame'[v][1] = frame[v][1]
      BY <1>1, <2>2
    <3> QED
      BY <3>1 DEF Shape, Outermost
  <2> QED
    BY <2>1, <2>2
<1>4. Nested'
  <2> SUFFICES ASSUME NEW v \in Threads, NEW d \in 1..(depth'[v] - 1)
               PROVE  Calls(frame'[v][d], frame'[v][d + 1])
    BY DEF Nested, Calls
  <2>1. v # t /\ d \in 1..depth[v] /\ d + 1 \in 1..depth[v] /\ d \in 1..(depth[v] - 1)
    BY <1>1
  <2>2. Calls(frame[v][d], frame[v][d + 1])
    BY <2>1 DEF Shape, Nested
  <2> QED
    BY <1>1, <2>1, <2>2
<1> QED
  BY <1>2, <1>3, <1>4 DEF Shape

LEMMA WithFrames ==
  ASSUME NEW x \in FrameSet, NEW pc \in AllPcs
  PROVE  /\ With(x, pc) \in FrameSet /\ With(x, pc).op = x.op /\ With(x, pc).f = x.f
         /\ With(x, pc).pc = pc /\ With(x, pc).other = x.other
BY DEF FrameSet, With

LEMMA WithOtherFrames ==
  ASSUME NEW x \in FrameSet, NEW pc \in AllPcs, NEW o \in Futures
  PROVE  /\ WithOther(x, pc, o) \in FrameSet /\ WithOther(x, pc, o).op = x.op
         /\ WithOther(x, pc, o).f = x.f /\ WithOther(x, pc, o).pc = pc
         /\ WithOther(x, pc, o).other = o
BY DEF FrameSet, WithOther

LEMMA FirstFrames ==
  ASSUME NEW f \in Futures, NEW op \in Ops, NEW pc \in AllPcs
  PROVE  /\ Frame(op, f, pc) \in FrameSet /\ Frame(op, f, pc).op = op
         /\ Frame(op, f, pc).f = f /\ Frame(op, f, pc).pc = pc
BY DEF FrameSet, Frame

LEMMA TopPlace ==
  ASSUME Stacks, Shape, NEW t \in Threads, NEW op, NEW f, NEW pc, Now(t, op, f, pc)
  PROVE  /\ depth[t] \in 1..depth[t] /\ depth[t] \in Nat /\ frame[t][depth[t]] = TopOf(t)
         /\ Placed(TopOf(t)) /\ f \in Futures
         /\ op = "set" => t = Builder /\ depth[t] = 1 /\ f = built
         /\ op \in {"client", "cancelChain"} => depth[t] = 1 /\ t \in Cancellers
<1>1. depth[t] \in 1..depth[t] /\ depth[t] \in Nat /\ frame[t][depth[t]] = TopOf(t)
  BY FramesType DEF Now, TopOf
<1>2. Placed(TopOf(t)) /\ f \in Futures
  BY <1>1, AllPlaced DEF Shape, Now, FrameSet
<1>3. /\ op = "set" => t = Builder /\ depth[t] = 1 /\ f = built
      /\ op \in {"client", "cancelChain"} => depth[t] = 1 /\ t \in Cancellers
  <2>1. TopOf(t).op = op /\ TopOf(t).f = f
    BY DEF Now
  <2> QED
    BY <1>1, <2>1, Where
<1> QED
  BY <1>1, <1>2, <1>3

LEMMA FlatShape ==
  ASSUME IInv, States', Stacks', FlatNext
  PROVE  Shape'
<1>0. Stacks /\ States /\ Shape /\ Last \in Nat \ {0} /\ Futures = 0..Last /\ built \in 0..Last
  BY ChainAssumption DEF IInv, Futures, States
<1>1. CASE AttachF
  <2>1. "set" \in Ops /\ "enter" \in AllPcs /\ built \in Futures /\ Builder \in Threads
    BY <1>0 DEF Threads
  <2>2. /\ Frame("set", built, "enter") \in FrameSet /\ Frame("set", built, "enter").op = "set"
        /\ Frame("set", built, "enter").f = built /\ Frame("set", built, "enter").pc = "enter"
    BY <2>1, FirstFrames
  <2>3. Placed(Frame("set", built, "enter"))
    BY <2>2 DEF Placed, PcsOf
  <2>4. built' = built /\ built < Last /\ Starts(Builder, Frame("set", built, "enter"))
    BY <1>1 DEF AttachF
  <2> QED
    BY <1>0, <2>1, <2>2, <2>3, <2>4, ShapeStart
<1>2. ASSUME NEW f \in Futures, TakeF(f) PROVE Shape'
  <2>1. "job" \in Ops /\ "call" \in AllPcs /\ Pool \in Threads /\ f > 0
    BY <1>0, <1>2 DEF Threads, TakeF, States
  <2>2. /\ Frame("job", f, "call") \in FrameSet /\ Frame("job", f, "call").op = "job"
        /\ Frame("job", f, "call").f = f /\ Frame("job", f, "call").pc = "call"
    BY <2>1, FirstFrames
  <2>3. Placed(Frame("job", f, "call"))
    BY <2>2 DEF Placed, PcsOf
  <2>4. built' = built /\ Starts(Pool, Frame("job", f, "call"))
    BY <1>2 DEF TakeF
  <2> QED
    BY <1>0, <2>1, <2>2, <2>3, <2>4, ShapeStart
<1>3. ASSUME NEW t \in Threads, NEW f \in Futures, FlatStep(t, f) PROVE Shape'
  <2>1. CASE DecideF(t, f)
    <3>1. /\ Now(t, "job", f, "check") /\ f > 0 /\ built' = built /\ depth[t] > 0
          /\ TopOf(t) \in FrameSet /\ TopOf(t).op = "job" /\ TopOf(t).f = f
      BY <2>1 DEF DecideF, Now
    <3>2. PICK taking \in BOOLEAN : Pops(t) \/ Replaces(t, With(TopOf(t), Verdict(f, taking)))
      BY <2>1 DEF DecideF
    <3>5. Verdict(f, taking) \in {"call", "pass", "raise", "cancel"}
      BY <1>0, <3>1, Verdicts
    <3>3. CASE Pops(t)
      BY <1>0, <3>1, <3>3, ShapePop
    <3>4. CASE Replaces(t, With(TopOf(t), Verdict(f, taking)))
      <4>1. Verdict(f, taking) \in AllPcs /\ Verdict(f, taking) # "check"
        BY <3>5
      <4>2. /\ With(TopOf(t), Verdict(f, taking)) \in FrameSet
            /\ With(TopOf(t), Verdict(f, taking)).op = "job" /\ With(TopOf(t), Verdict(f, taking)).f = f
            /\ With(TopOf(t), Verdict(f, taking)).pc = Verdict(f, taking)
        BY <3>1, <4>1, WithFrames
      <4>3. Placed(With(TopOf(t), Verdict(f, taking)))
        BY <3>1, <3>5, <4>2 DEF Placed, PcsOf
      <4> QED
        BY <1>0, <3>1, <3>4, <4>1, <4>2, <4>3, ShapeReplace
    <3> QED
      BY <3>2, <3>3, <3>4
  <2>2. CASE CallF(t, f) \/ PassF(t, f)
    <3>1. /\ depth[t] > 0 /\ TopOf(t) \in FrameSet /\ TopOf(t).op = "job" /\ built' = built
          /\ Replaces(t, With(TopOf(t), "finish"))
      BY <2>2 DEF CallF, PassF, Now
    <3>2. "finish" \in AllPcs
      OBVIOUS
    <3>3. /\ With(TopOf(t), "finish") \in FrameSet /\ With(TopOf(t), "finish").op = TopOf(t).op
          /\ With(TopOf(t), "finish").f = TopOf(t).f /\ With(TopOf(t), "finish").pc = "finish"
          /\ With(TopOf(t), "finish").other = TopOf(t).other
      BY <3>1, <3>2, WithFrames
    <3>4. Placed(With(TopOf(t), "finish"))
      BY <3>1, <3>3, <1>0 DEF Placed, PcsOf
    <3> QED
      BY <1>0, <3>1, <3>3, <3>4, ShapeReplace
  <2>3. CASE FinishF(t, f)
    <3>1. /\ depth[t] > 0 /\ TopOf(t) \in FrameSet /\ TopOf(t).op = "job" /\ built' = built
          /\ Replaces(t, With(TopOf(t), "destroyed"))
      BY <2>3 DEF FinishF, Now
    <3>2. "destroyed" \in AllPcs
      OBVIOUS
    <3>3. /\ With(TopOf(t), "destroyed") \in FrameSet /\ With(TopOf(t), "destroyed").op = TopOf(t).op
          /\ With(TopOf(t), "destroyed").f = TopOf(t).f /\ With(TopOf(t), "destroyed").pc = "destroyed"
          /\ With(TopOf(t), "destroyed").other = TopOf(t).other
      BY <3>1, <3>2, WithFrames
    <3>4. Placed(With(TopOf(t), "destroyed"))
      BY <3>1, <3>3, <1>0 DEF Placed, PcsOf
    <3> QED
      BY <1>0, <3>1, <3>3, <3>4, ShapeReplace
  <2>4. CASE CancelOwnF(t, f)
    <3>1. /\ depth[t] > 0 /\ TopOf(t) \in FrameSet /\ TopOf(t).op = "job" /\ TopOf(t).f = f /\ built' = built
          /\ f \in Futures
          /\ Pushes(t, Frame("cancel", f, "lock"), With(TopOf(t), "finish"))
      BY <2>4, <1>0 DEF CancelOwnF, Now
    <3>2. "finish" \in AllPcs /\ "lock" \in AllPcs /\ "cancel" \in Ops
      OBVIOUS
    <3>3. /\ With(TopOf(t), "finish") \in FrameSet /\ With(TopOf(t), "finish").op = TopOf(t).op
          /\ With(TopOf(t), "finish").f = TopOf(t).f /\ With(TopOf(t), "finish").pc = "finish"
          /\ With(TopOf(t), "finish").other = TopOf(t).other
      BY <3>1, <3>2, WithFrames
    <3>4. /\ Frame("cancel", f, "lock") \in FrameSet /\ Frame("cancel", f, "lock").op = "cancel"
          /\ Frame("cancel", f, "lock").f = f /\ Frame("cancel", f, "lock").pc = "lock"
      BY <3>1, <3>2, FirstFrames
    <3>5. Placed(With(TopOf(t), "finish"))
      BY <3>1, <3>3, <1>0 DEF Placed, PcsOf
    <3>6. Placed(Frame("cancel", f, "lock"))
      BY <3>1, <3>4, <1>0 DEF Placed, PcsOf
    <3>7. Calls(With(TopOf(t), "finish"), Frame("cancel", f, "lock"))
      BY <2>4, <3>1, <3>3, <3>4 DEF Calls
    <3> QED
      BY <1>0, <3>1, <3>3, <3>4, <3>5, <3>6, <3>7, ShapePush
  <2>5. CASE f = 0 /\ AbandonF(t)
    <3>1. /\ depth[t] > 0 /\ TopOf(t) \in FrameSet /\ TopOf(t).op = "job" /\ TopOf(t).f = f /\ built' = built
          /\ 0 \in Futures
          /\ Pushes(t, Frame("cancelAndFinish", 0, "lock"), With(TopOf(t), "destroyed"))
      BY <2>5, <1>0 DEF AbandonF, Now
    <3>2. "destroyed" \in AllPcs /\ "lock" \in AllPcs /\ "cancelAndFinish" \in Ops
      OBVIOUS
    <3>3. /\ With(TopOf(t), "destroyed") \in FrameSet /\ With(TopOf(t), "destroyed").op = TopOf(t).op
          /\ With(TopOf(t), "destroyed").f = TopOf(t).f /\ With(TopOf(t), "destroyed").pc = "destroyed"
          /\ With(TopOf(t), "destroyed").other = TopOf(t).other
      BY <3>1, <3>2, WithFrames
    <3>4. /\ Frame("cancelAndFinish", 0, "lock") \in FrameSet /\ Frame("cancelAndFinish", 0, "lock").op = "cancelAndFinish"
          /\ Frame("cancelAndFinish", 0, "lock").f = 0 /\ Frame("cancelAndFinish", 0, "lock").pc = "lock"
      BY <3>1, <3>2, FirstFrames
    <3>5. Placed(With(TopOf(t), "destroyed"))
      BY <3>1, <3>3, <1>0 DEF Placed, PcsOf
    <3>6. Placed(Frame("cancelAndFinish", 0, "lock"))
      BY <3>1, <3>4, <1>0 DEF Placed, PcsOf
    <3>7. Calls(With(TopOf(t), "destroyed"), Frame("cancelAndFinish", 0, "lock"))
      BY <2>5, <3>1, <3>3, <3>4 DEF Calls
    <3> QED
      BY <1>0, <3>1, <3>3, <3>4, <3>5, <3>6, <3>7, ShapePush
  <2>6. CASE RunsF(t, f)
    <3>1. /\ depth[t] > 0 /\ TopOf(t) \in FrameSet /\ TopOf(t).op = "job" /\ TopOf(t).f = f /\ built' = built
          /\ f \in Futures
          /\ Pushes(t, Frame("run", f, "enter"), With(TopOf(t), "clean"))
      BY <2>6, <1>0 DEF RunsF, Now
    <3>2. "clean" \in AllPcs /\ "enter" \in AllPcs /\ "run" \in Ops
      OBVIOUS
    <3>3. /\ With(TopOf(t), "clean") \in FrameSet /\ With(TopOf(t), "clean").op = TopOf(t).op
          /\ With(TopOf(t), "clean").f = TopOf(t).f /\ With(TopOf(t), "clean").pc = "clean"
          /\ With(TopOf(t), "clean").other = TopOf(t).other
      BY <3>1, <3>2, WithFrames
    <3>4. /\ Frame("run", f, "enter") \in FrameSet /\ Frame("run", f, "enter").op = "run"
          /\ Frame("run", f, "enter").f = f /\ Frame("run", f, "enter").pc = "enter"
      BY <3>1, <3>2, FirstFrames
    <3>5. Placed(With(TopOf(t), "clean"))
      BY <3>1, <3>3, <1>0 DEF Placed, PcsOf
    <3>6. Placed(Frame("run", f, "enter"))
      BY <3>1, <3>4, <1>0 DEF Placed, PcsOf
    <3>7. Calls(With(TopOf(t), "clean"), Frame("run", f, "enter"))
      BY <2>6, <3>1, <3>3, <3>4 DEF Calls
    <3> QED
      BY <1>0, <3>1, <3>3, <3>4, <3>5, <3>6, <3>7, ShapePush
  <2>7. CASE CleanF(t, f) \/ RunNotF(t, f) \/ RunBackF(t, f) \/ CancelNotF(t, f)
    <3>1. depth[t] > 0 /\ Pops(t) /\ built' = built
      BY <2>7 DEF CleanF, RunNotF, RunBackF, CancelNotF, Now
    <3> QED
      BY <1>0, <3>1, ShapePop
  <2>8. CASE SetRunF(t, f)
    <3>1. /\ depth[t] > 0 /\ TopOf(t) \in FrameSet /\ TopOf(t).op = "set" /\ TopOf(t).f = f /\ built' = built
          /\ f + 1 \in Futures
          /\ Pushes(t, Frame("job", f + 1, "check"), With(TopOf(t), "store"))
      BY <2>8, <1>0 DEF SetRunF, Now
    <3>2. "store" \in AllPcs /\ "check" \in AllPcs /\ "job" \in Ops
      OBVIOUS
    <3>3. /\ With(TopOf(t), "store") \in FrameSet /\ With(TopOf(t), "store").op = TopOf(t).op
          /\ With(TopOf(t), "store").f = TopOf(t).f /\ With(TopOf(t), "store").pc = "store"
          /\ With(TopOf(t), "store").other = TopOf(t).other
      BY <3>1, <3>2, WithFrames
    <3>4. /\ Frame("job", f + 1, "check") \in FrameSet /\ Frame("job", f + 1, "check").op = "job"
          /\ Frame("job", f + 1, "check").f = f + 1 /\ Frame("job", f + 1, "check").pc = "check"
      BY <3>1, <3>2, FirstFrames
    <3>5. Placed(With(TopOf(t), "store"))
      BY <3>1, <3>3, <1>0 DEF Placed, PcsOf
    <3>6. Placed(Frame("job", f + 1, "check"))
      BY <3>1, <3>4, <1>0 DEF Placed, PcsOf
    <3>7. Calls(With(TopOf(t), "store"), Frame("job", f + 1, "check"))
      BY <2>8, <3>1, <3>3, <3>4 DEF Calls
    <3> QED
      BY <1>0, <3>1, <3>3, <3>4, <3>5, <3>6, <3>7, ShapePush
  <2>9. CASE RunF(t, f)
    <3>1. /\ depth[t] > 0 /\ TopOf(t) \in FrameSet /\ TopOf(t).op = "run" /\ TopOf(t).f = f /\ built' = built
          /\ f + 1 \in Futures
          /\ Pushes(t, Frame("job", f + 1, "check"), With(TopOf(t), "leave"))
      BY <2>9, <1>0 DEF RunF, Now
    <3>2. "leave" \in AllPcs /\ "check" \in AllPcs /\ "job" \in Ops
      OBVIOUS
    <3>3. /\ With(TopOf(t), "leave") \in FrameSet /\ With(TopOf(t), "leave").op = TopOf(t).op
          /\ With(TopOf(t), "leave").f = TopOf(t).f /\ With(TopOf(t), "leave").pc = "leave"
          /\ With(TopOf(t), "leave").other = TopOf(t).other
      BY <3>1, <3>2, WithFrames
    <3>4. /\ Frame("job", f + 1, "check") \in FrameSet /\ Frame("job", f + 1, "check").op = "job"
          /\ Frame("job", f + 1, "check").f = f + 1 /\ Frame("job", f + 1, "check").pc = "check"
      BY <3>1, <3>2, FirstFrames
    <3>5. Placed(With(TopOf(t), "leave"))
      BY <3>1, <3>3, <1>0 DEF Placed, PcsOf
    <3>6. Placed(Frame("job", f + 1, "check"))
      BY <3>1, <3>4, <1>0 DEF Placed, PcsOf
    <3>7. Calls(With(TopOf(t), "leave"), Frame("job", f + 1, "check"))
      BY <2>9, <3>1, <3>3, <3>4 DEF Calls
    <3> QED
      BY <1>0, <3>1, <3>3, <3>4, <3>5, <3>6, <3>7, ShapePush
  <2>10. CASE SetStoreF(t, f) \/ SetBackF(t, f)
    <3>1. depth[t] > 0 /\ Pops(t) /\ (Now(t, "set", f, "enter") \/ Now(t, "set", f, "store"))
      BY <2>10 DEF SetStoreF, SetBackF, Now
    <3>2. t = Builder /\ depth[t] = 1
      BY <1>0, <3>1, TopPlace
    <3> QED
      BY <1>0, <3>1, <3>2, ShapePop
  <2>11. CASE CancelF(t, f)
    <3>1. /\ depth[t] > 0 /\ TopOf(t) \in FrameSet /\ TopOf(t).op \in Cancels /\ built' = built
          /\ Replaces(t, With(TopOf(t), "links"))
      BY <2>11 DEF CancelF, Now
    <3>2. "links" \in AllPcs
      OBVIOUS
    <3>3. /\ With(TopOf(t), "links") \in FrameSet /\ With(TopOf(t), "links").op = TopOf(t).op
          /\ With(TopOf(t), "links").f = TopOf(t).f /\ With(TopOf(t), "links").pc = "links"
          /\ With(TopOf(t), "links").other = TopOf(t).other
      BY <3>1, <3>2, WithFrames
    <3>4. Placed(With(TopOf(t), "links"))
      BY <3>1, <3>3, <1>0 DEF Placed, PcsOf
    <3> QED
      BY <1>0, <3>1, <3>3, <3>4, ShapeReplace
  <2>12. CASE LinksF(t, f)
    <3>1. /\ depth[t] > 0 /\ TopOf(t) \in FrameSet /\ TopOf(t).op \in Cancels
          /\ TopOf(t).f = f /\ built' = built
      BY <2>12 DEF LinksF, Now
    <3>2. CASE Pops(t)
      BY <1>0, <3>1, <3>2, ShapePop
    <3>3. CASE f + 1 \in Futures /\ Replaces(t, WithOther(TopOf(t), "walk", f + 1))
      <4>1. "walk" \in AllPcs
        OBVIOUS
      <4> HIDE DEF AllPcs
      <4>2. /\ WithOther(TopOf(t), "walk", f + 1) \in FrameSet
          /\ WithOther(TopOf(t), "walk", f + 1).op = TopOf(t).op
          /\ WithOther(TopOf(t), "walk", f + 1).f = TopOf(t).f
          /\ WithOther(TopOf(t), "walk", f + 1).pc = "walk"
          /\ WithOther(TopOf(t), "walk", f + 1).other = f + 1
        BY <3>1, <3>3, <4>1, WithOtherFrames
      <4>3. Placed(WithOther(TopOf(t), "walk", f + 1))
        BY <3>1, <3>3, <4>2, <1>0 DEF Placed, PcsOf
      <4> QED
        BY <1>0, <3>1, <3>3, <4>2, <4>3, ShapeReplace
    <3> QED
      BY <2>12, <3>2, <3>3 DEF LinksF
  <2>13. CASE WalkF(t, f)
    <3> DEFINE o == TopOf(t).other
    <3>1. /\ depth[t] > 0 /\ TopOf(t) \in FrameSet /\ TopOf(t).op \in Cancels
          /\ TopOf(t).f = f /\ built' = built /\ TopOf(t).pc = "walk" /\ o \in Futures
      BY <2>13 DEF WalkF, Now
    <3>2. CASE Pops(t)
      BY <1>0, <3>1, <3>2, ShapePop
    <3>3. CASE o + 1 \in Futures /\ Replaces(t, WithOther(TopOf(t), "walk", o + 1))
      <4>1. o > f
        <5>1. Placed(TopOf(t))
          BY <1>0, <2>13, TopPlace DEF WalkF
        <5> QED
          BY <3>1, <5>1 DEF Placed
      <4>2. "walk" \in AllPcs
        OBVIOUS
      <4> HIDE DEF AllPcs
      <4>3. /\ WithOther(TopOf(t), "walk", o + 1) \in FrameSet
          /\ WithOther(TopOf(t), "walk", o + 1).op = TopOf(t).op
          /\ WithOther(TopOf(t), "walk", o + 1).f = TopOf(t).f
          /\ WithOther(TopOf(t), "walk", o + 1).pc = "walk"
          /\ WithOther(TopOf(t), "walk", o + 1).other = o + 1
        BY <3>1, <3>3, <4>2, WithOtherFrames
      <4>4. Placed(WithOther(TopOf(t), "walk", o + 1))
        BY <3>1, <3>3, <4>1, <4>3, <1>0 DEF Placed, PcsOf
      <4> QED
        BY <1>0, <3>1, <3>3, <4>3, <4>4, ShapeReplace
    <3> QED
      BY <2>13, <3>2, <3>3 DEF WalkF
  <2>14. CASE ChainF(t, f)
    <3>1. /\ depth[t] > 0 /\ TopOf(t) \in FrameSet /\ TopOf(t).op = "cancelChain"
          /\ TopOf(t).f = f /\ built' = built
      BY <2>14 DEF ChainF, Now
    <3>2. depth[t] = 1 /\ t \in Cancellers
      BY <1>0, <2>14, TopPlace DEF ChainF
    <3>3. "up" \in AllPcs /\ "lock" \in AllPcs /\ "cancel" \in Ops
      OBVIOUS
    <3>4. ASSUME NEW o \in Futures, Replaces(t, WithOther(TopOf(t), "up", o)) PROVE Shape'
      <4> HIDE DEF AllPcs
      <4>1. /\ WithOther(TopOf(t), "up", o) \in FrameSet
          /\ WithOther(TopOf(t), "up", o).op = TopOf(t).op
          /\ WithOther(TopOf(t), "up", o).f = TopOf(t).f
          /\ WithOther(TopOf(t), "up", o).pc = "up"
          /\ WithOther(TopOf(t), "up", o).other = o
        BY <3>1, <3>3, WithOtherFrames
      <4>2. Placed(WithOther(TopOf(t), "up", o))
        BY <3>1, <4>1, <1>0 DEF Placed, PcsOf
      <4> QED
        BY <1>0, <3>1, <3>4, <4>1, <4>2, ShapeReplace
    <3>5. CASE Replaces(t, Frame("cancel", f, "lock"))
      <4>1. /\ Frame("cancel", f, "lock") \in FrameSet /\ Frame("cancel", f, "lock").op = "cancel"
          /\ Frame("cancel", f, "lock").f = f /\ Frame("cancel", f, "lock").pc = "lock"
        BY <3>1, <3>3, FirstFrames
      <4>2. Placed(Frame("cancel", f, "lock"))
        BY <4>1 DEF Placed, PcsOf
      <4> QED
        BY <1>0, <3>1, <3>2, <3>5, <4>1, <4>2, ShapeReplace
    <3> QED
      BY <2>14, <3>4, <3>5 DEF ChainF
  <2>15. CASE ChainCancelF(t, f)
    <3>1. /\ depth[t] > 0 /\ TopOf(t) \in FrameSet /\ TopOf(t).op = "cancelChain" /\ built' = built /\ TopOf(t).other \in Futures
          /\ Replaces(t, With(TopOf(t), "next"))
      BY <2>15 DEF ChainCancelF, Now
    <3>2. "next" \in AllPcs
      OBVIOUS
    <3>3. /\ With(TopOf(t), "next") \in FrameSet /\ With(TopOf(t), "next").op = TopOf(t).op
          /\ With(TopOf(t), "next").f = TopOf(t).f /\ With(TopOf(t), "next").pc = "next"
          /\ With(TopOf(t), "next").other = TopOf(t).other
      BY <3>1, <3>2, WithFrames
    <3>4. Placed(With(TopOf(t), "next"))
      BY <3>1, <3>3, <1>0 DEF Placed, PcsOf
    <3> QED
      BY <1>0, <3>1, <3>3, <3>4, ShapeReplace
  <2>16. CASE ClientF(t, f)
    <3>1. depth[t] > 0 /\ built' = built /\ depth[t] = 1 /\ t \in Cancellers
      BY <1>0, <2>16, TopPlace DEF ClientF, Now
    <3>2. PICK g \in Futures, op \in {"cancel", "cancelChain"} : Replaces(t, Frame(op, g, "lock"))
      BY <2>16 DEF ClientF
    <3>3. op \in Ops /\ "lock" \in AllPcs
      OBVIOUS
    <3>4. /\ Frame(op, g, "lock") \in FrameSet /\ Frame(op, g, "lock").op = op
          /\ Frame(op, g, "lock").f = g /\ Frame(op, g, "lock").pc = "lock"
      BY <3>3, FirstFrames
    <3>5. Placed(Frame(op, g, "lock"))
      BY <3>4 DEF Placed, PcsOf
    <3> QED
      BY <1>0, <3>1, <3>2, <3>4, <3>5, ShapeReplace
  <2> QED
    BY <1>3, <2>1, <2>2, <2>3, <2>4, <2>5, <2>6, <2>7, <2>8, <2>9, <2>10, <2>11, <2>12, <2>13,
       <2>14, <2>15, <2>16 DEF FlatStep
<1> QED
  BY <1>1, <1>2, <1>3 DEF FlatNext

-----------------------------------------------------------------------------
(* What never goes back, and what a step leaves alone.                     *)

Grows ==
  /\ kind' = kind /\ built' >= built /\ takers \subseteq takers'
  /\ \A g \in Futures :
       /\ future[g].finished => future'[g].finished
       /\ future[g].canceled => future'[g].canceled
       /\ future[g].exception => future'[g].exception
       /\ future[g].result => future'[g].result
       /\ link[g].executed => link'[g].executed
       /\ link[g].state # "Default" => link'[g].state # "Default"
  /\ \A g \in 1..Last : link[g].type = kind[g] => link'[g].type = kind[g]

\* Only the job of f goes on.
Only(f) == \A g \in Futures \ {f} :
             /\ jobs'[g] = jobs[g] /\ called'[g] = called[g]
             /\ future'[g].finished = future[g].finished
             /\ future'[g].exception = future[g].exception

LEMMA StoresGrow ==
  ASSUME NEW f \in Futures, Stores(f)
  PROVE  /\ \A g \in Futures : /\ link[g].executed = link'[g].executed
                               /\ link[g].state = link'[g].state
         /\ \A g \in 1..Last : link[g].type = kind[g] => link'[g].type = kind[g]
<1>1. /\ f + 1 \in Futures /\ link'[f + 1].type = kind[f + 1] /\ link'[f].type = link[f].type
      /\ \A g \in Futures \ {f, f + 1} : link'[g] = link[g]
      /\ link'[f].executed = link[f].executed /\ link'[f].state = link[f].state
      /\ link'[f + 1].executed = link[f + 1].executed /\ link'[f + 1].state = link[f + 1].state
  BY DEF Stores, LinkElse, Kept
<1>2. 1..Last \subseteq Futures
  BY ChainAssumption DEF Futures
<1> QED
  BY <1>1, <1>2

LEMMA FlatGrows ==
  ASSUME IInv, NEW t \in Threads, NEW f \in Futures, FlatStep(t, f)
  PROVE  Grows /\ Only(f)
<1>0. /\ States /\ 1..Last \subseteq Futures /\ built \in Nat
      /\ jobs \in [Futures -> Nat] /\ called \in [Futures -> Nat]
  BY ChainAssumption DEF IInv, States, Futures
<1>1. CASE DecideF(t, f)
  BY <1>0, <1>1 DEF DecideF, Grows, Only, fixed
<1>2. CASE CallF(t, f)
  BY <1>0, <1>2 DEF CallF, Grows, Only, fixed, Reported, SameElse, FutureOf
<1>3. CASE PassF(t, f)
  BY <1>0, <1>3 DEF PassF, Grows, Only, fixed, history, Reported, SameElse, FutureOf
<1>4. CASE CancelOwnF(t, f) \/ (f = 0 /\ AbandonF(t)) \/ RunsF(t, f) \/ RunNotF(t, f)
           \/ ChainF(t, f) \/ ClientF(t, f) \/ CancelNotF(t, f) \/ LinksF(t, f)
  <2>1. UNCHANGED <<kind, future, link, built, jobs, called, takers>>
    BY <1>4 DEF CancelOwnF, AbandonF, RunsF, RunNotF, ChainF, ClientF, CancelNotF, LinksF,
                fixed, history
  <2> QED
    BY <1>0, <2>1 DEF Grows, Only
<1>5. CASE FinishF(t, f)
  BY <1>0, <1>5 DEF FinishF, Grows, Only, fixed, history, SameElse, FutureOf
<1>6. CASE CleanF(t, f)
  <2>1. \A g \in Futures : /\ link[g].executed = link'[g].executed /\ link[g].type = link'[g].type
                           /\ link[g].state # "Default" => link'[g].state # "Default"
    BY <1>6 DEF CleanF, LinkElse
  <2>2. UNCHANGED <<kind, future, built, jobs, called, takers>>
    BY <1>6 DEF CleanF, fixed, history
  <2> QED
    BY <1>0, <2>1, <2>2 DEF Grows, Only
<1>7. CASE SetRunF(t, f)
  <2>1. \A g \in Futures : /\ link[g].executed => link'[g].executed
                           /\ link[g].type = link'[g].type /\ link[g].state = link'[g].state
    BY <1>7 DEF SetRunF, LinkElse
  <2>2. UNCHANGED <<kind, future, built, jobs, called, takers>>
    BY <1>7 DEF SetRunF, fixed, history
  <2> QED
    BY <1>0, <2>1, <2>2 DEF Grows, Only
<1>8. CASE SetStoreF(t, f) \/ SetBackF(t, f)
  <2>1. /\ \A g \in Futures : /\ link[g].executed = link'[g].executed
                              /\ link[g].state = link'[g].state
        /\ \A g \in 1..Last : link[g].type = kind[g] => link'[g].type = kind[g]
    BY <1>8, StoresGrow DEF SetStoreF, SetBackF
  <2>2. UNCHANGED <<kind, future, jobs, called, takers>> /\ built' = built + 1
    BY <1>8 DEF SetStoreF, SetBackF, fixed, history
  <2> QED
    BY <1>0, <2>1, <2>2 DEF Grows, Only
<1>9. CASE RunF(t, f)
  <2>1. \A g \in Futures : /\ link[g].executed => link'[g].executed
                           /\ link[g].type = link'[g].type /\ link[g].state = link'[g].state
    BY <1>9 DEF RunF, LinkElse, Kept
  <2>2. UNCHANGED <<kind, future, built, jobs, called, takers>>
    BY <1>9 DEF RunF, fixed, history
  <2> QED
    BY <1>0, <2>1, <2>2 DEF Grows, Only
<1>10. CASE RunBackF(t, f)
  <2>1. \A g \in Futures : /\ link[g].executed = link'[g].executed
                           /\ link[g].type = link'[g].type /\ link[g].state = link'[g].state
    BY <1>10 DEF RunBackF, LinkElse, Kept
  <2>2. UNCHANGED <<kind, future, built, jobs, called, takers>>
    BY <1>10 DEF RunBackF, fixed, history
  <2> QED
    BY <1>0, <2>1, <2>2 DEF Grows, Only
<1>11. CASE CancelF(t, f)
  <2>1. PICK b \in BOOLEAN : Canceled(f, b)
    BY <1>11 DEF CancelF
  <2>2. UNCHANGED <<kind, link, built, jobs, called, takers>>
    BY <1>11 DEF CancelF, fixed
  <2> QED
    <3>1. /\ \A g \in Futures \ {f} : future'[g] = future[g]
          /\ future'[f].canceled /\ future'[f].result = future[f].result
          /\ future'[f].exception = future[f].exception
          /\ future[f].finished => future'[f].finished
      BY <2>1 DEF Canceled, SameElse, FutureOf
    <3> QED
      BY <1>0, <2>2, <3>1 DEF Grows, Only
<1>12. CASE WalkF(t, f)
  <2>1. \A g \in Futures : /\ link[g].executed = link'[g].executed /\ link[g].type = link'[g].type
                           /\ link[g].state # "Default" => link'[g].state # "Default"
    BY <1>12 DEF WalkF, LinkElse
  <2>2. UNCHANGED <<kind, future, built, jobs, called, takers>>
    BY <1>12 DEF WalkF, fixed
  <2> QED
    BY <1>0, <2>1, <2>2 DEF Grows, Only
<1>13. CASE ChainCancelF(t, f)
  <2> DEFINE o == TopOf(t).other
  <2>1. o \in Futures /\ Canceled(o, FALSE)
    BY <1>13 DEF ChainCancelF
  <2>2. UNCHANGED <<kind, link, built, jobs, called, takers>>
    BY <1>13 DEF ChainCancelF, fixed, history
  <2> HIDE DEF o
  <2>3. \A g \in Futures : /\ future'[g].finished = future[g].finished
                           /\ future[g].canceled => future'[g].canceled
                           /\ future'[g].result = future[g].result
                           /\ future'[g].exception = future[g].exception
    BY <1>0, <2>1 DEF Canceled, SameElse, FutureOf, States
  <2> QED
    BY <1>0, <2>2, <2>3 DEF Grows, Only
<1> QED
  BY <1>1, <1>2, <1>3, <1>4, <1>5, <1>6, <1>7, <1>8, <1>9, <1>10, <1>11, <1>12, <1>13 DEF FlatStep

\* A call that is not about the job of f is as well off as before.
LEMMA CallStays ==
  ASSUME States, States', Grows, NEW f \in Futures, Only(f), NEW x \in FrameSet, NEW b \in BOOLEAN,
         Placed(x), CallOk(x, b),
         x.op = "job" /\ x.f = f =>
           /\ jobs'[f] = jobs[f]
           /\ x.pc \in Early => called'[f] = called[f] /\ future'[f].exception = future[f].exception
           /\ x.pc \in Early \cup {"finish"} => (future'[f].finished = future[f].finished)
  PROVE  CallOk(x, b)'
<1>0. x.f \in Futures /\ Futures = 0..Last /\ Last \in Nat /\ built \in Nat
  BY ChainAssumption DEF FrameSet, States, Futures
<1>1. ASSUME x.op = "job" PROVE JobOk(x, b)'
  <2>1. /\ jobs'[x.f] = jobs[x.f]
        /\ x.pc \in Early => /\ called'[x.f] = called[x.f]
                           /\ future'[x.f].exception = future[x.f].exception
        /\ x.pc \in Early \cup {"finish"} => (future'[x.f].finished = future[x.f].finished)
    BY <1>0, <1>1 DEF Only
  <2>2. JobOk(x, b)
    BY <1>1 DEF CallOk
  <2>3. x.f > 0 => x.f - 1 \in Futures
    BY <1>0
  <2> QED
    BY <1>0, <2>1, <2>2, <2>3 DEF JobOk, Grows
<1>2. ASSUME x.op \in Cancels PROVE CancelOk(x)'
  <2>1. CancelOk(x)
    BY <1>2 DEF CallOk
  <2>2. ASSUME x.pc = "walk" PROVE x.other \in 1..Last /\ x.other > x.f
    <3>1. x.other > x.f /\ x.other <= Last
      BY <1>2, <2>2 DEF Placed
    <3>2. x.other \in Futures \cup {Nobody}
      BY DEF FrameSet
    <3> QED
      BY <1>0, <3>1, <3>2 DEF Nobody
  <2>3. ASSUME x.pc = "walk"
        PROVE  /\ link'[x.other].type = kind'[x.other]
               /\ \A h \in (x.f + 1)..(x.other - 1) : link'[h].state # "Default"
    <3>1. link[x.other].type = kind[x.other] /\ x.other \in 1..Last
      BY <2>1, <2>2, <2>3 DEF CancelOk
    <3>2. \A h \in (x.f + 1)..(x.other - 1) : link[h].state # "Default" /\ h \in Futures
      BY <1>0, <2>1, <2>2, <2>3 DEF CancelOk
    <3> QED
      BY <3>1, <3>2 DEF Grows
  <2> QED
    BY <1>0, <2>1, <2>3 DEF CancelOk, Grows
<1>3. ASSUME x.op = "run", x.pc = "leave" PROVE link'[x.f].executed /\ x.f < built'
  <2>1. link[x.f].executed /\ x.f < built
    BY <1>3 DEF CallOk
  <2>2. built' \in Nat
    BY ChainAssumption DEF States
  <2>3. link'[x.f].executed /\ built' >= built
    BY <1>0, <2>1 DEF Grows
  <2> QED
    BY <1>0, <2>1, <2>2, <2>3
<1> QED
  BY <1>1, <1>2, <1>3 DEF CallOk

Undisturbed(t, f) ==
  \A v \in Threads : \A d \in 1..depth[v] :
    LET x == frame[v][d] IN
    ~IsTop(t, v, d) /\ x.op = "job" /\ x.f = f =>
      /\ jobs'[f] = jobs[f]
      /\ x.pc \in Early => called'[f] = called[f] /\ future'[f].exception = future[f].exception
      /\ x.pc \in Early \cup {"finish"} => (future'[f].finished = future[f].finished)

LEMMA FlatQuiet ==
  ASSUME IInv, NEW t \in Threads, NEW f \in Futures, FlatStep(t, f)
  PROVE  Undisturbed(t, f)
<1> SUFFICES ASSUME NEW v \in Threads, NEW d \in 1..depth[v], ~IsTop(t, v, d),
                    frame[v][d].op = "job", frame[v][d].f = f
             PROVE  /\ jobs'[f] = jobs[f]
                    /\ frame[v][d].pc \in Early => /\ called'[f] = called[f]
                                                    /\ future'[f].exception = future[f].exception
                    /\ frame[v][d].pc \in Early \cup {"finish"} =>
                         (future'[f].finished = future[f].finished)
  BY DEF Undisturbed
<1>0. Stacks /\ States /\ Shape /\ OneJob
  BY DEF IInv, Once
<1>1. ASSUME NEW pc, Now(t, "job", f, pc) PROVE FALSE
  <2>1. depth[t] \in 1..depth[t] /\ frame[t][depth[t]].op = "job" /\ frame[t][depth[t]].f = f
    BY <1>0, <1>1, TopPlace DEF Now
  <2> QED
    BY <1>0, <2>1 DEF OneJob, IsTop
<1>2. CASE DecideF(t, f) \/ CallF(t, f) \/ PassF(t, f) \/ CancelOwnF(t, f)
           \/ (f = 0 /\ AbandonF(t)) \/ FinishF(t, f) \/ RunsF(t, f) \/ CleanF(t, f)
  BY <1>1, <1>2 DEF DecideF, CallF, PassF, CancelOwnF, AbandonF, FinishF, RunsF, CleanF
<1>3. CASE SetRunF(t, f) \/ SetStoreF(t, f) \/ SetBackF(t, f) \/ RunF(t, f) \/ RunNotF(t, f)
           \/ RunBackF(t, f) \/ CancelNotF(t, f) \/ LinksF(t, f) \/ WalkF(t, f)
           \/ ChainF(t, f) \/ ClientF(t, f)
  <2>1. jobs' = jobs /\ called' = called /\ future' = future
    BY <1>3 DEF SetRunF, SetStoreF, SetBackF, RunF, RunNotF, RunBackF, CancelNotF, LinksF, WalkF,
                ChainF, ClientF, history
  <2> QED
    BY <2>1
<1>4. CASE ChainCancelF(t, f)
  <2> DEFINE o == TopOf(t).other
  <2>1. o \in Futures /\ Canceled(o, FALSE) /\ jobs' = jobs /\ called' = called
    BY <1>4 DEF ChainCancelF, history
  <2> HIDE DEF o
  <2>2. future'[f].finished = future[f].finished /\ future'[f].exception = future[f].exception
    BY <1>0, <2>1 DEF Canceled, SameElse, FutureOf, States
  <2> QED
    BY <2>1, <2>2
<1>5. CASE CancelF(t, f)
  <2>1. PICK op \in Cancels : Now(t, op, f, "lock") /\ Canceled(f, op = "cancelAndFinish")
    BY <1>5 DEF CancelF
  <2>2. jobs' = jobs /\ called' = called /\ future'[f].exception = future[f].exception
    BY <1>5, <2>1 DEF CancelF, Canceled
  <2>3. CASE op = "cancel"
    <3>1. future'[f].finished = future[f].finished
      BY <1>0, <2>1, <2>3 DEF Canceled, States
    <3> QED
      BY <2>2, <3>1
  <2>4. CASE op = "cancelAndFinish"
    <3>1. /\ depth[t] \in 1..depth[t] /\ depth[t] \in Nat
          /\ frame[t][depth[t]].op = op /\ frame[t][depth[t]].f = f
      BY <1>0, <2>1, TopPlace DEF Now
    <3>2. /\ depth[t] > 1 /\ depth[t] - 1 \in 1..depth[t]
          /\ Calls(frame[t][depth[t] - 1], frame[t][depth[t]])
      BY <1>0, <2>4, <3>1, Where
    <3>3. /\ frame[t][depth[t] - 1].op = "job" /\ frame[t][depth[t] - 1].f = f
          /\ frame[t][depth[t] - 1].pc = "destroyed"
      BY <2>4, <3>1, <3>2 DEF Calls
    <3>4. v = t /\ d = depth[t] - 1
      BY <1>0, <3>2, <3>3 DEF OneJob
    <3> QED
      BY <2>2, <3>3, <3>4
  <2> QED
    BY <2>3, <2>4
<1> QED
  BY <1>2, <1>3, <1>4, <1>5 DEF FlatStep

Quiet(t, f) == Grows /\ Only(f) /\ Undisturbed(t, f)

LEMMA FirstQuiet ==
  ASSUME IInv, NEW t \in Threads, AttachF \/ \E f \in Futures : TakeF(f)
  PROVE  Quiet(t, 0) /\ UNCHANGED <<fixed, future, link, built, history>>
<1>0. built \in Nat
  BY ChainAssumption DEF IInv, States
<1>1. UNCHANGED <<fixed, future, link, built, history>>
  BY DEF AttachF, TakeF
<1> QED
  BY <1>0, <1>1 DEF Quiet, Grows, Only, Undisturbed, fixed, history

\* A call that is not the innermost of t is as well off as before.
LEMMA OldCalls ==
  ASSUME IInv, States', NEW t \in Threads, NEW f \in Futures, Quiet(t, f),
         NEW v \in Threads, NEW d \in 1..depth[v], ~IsTop(t, v, d),
         NEW x, x = frame[v][d], NEW b \in BOOLEAN, b = (d = depth[v])
  PROVE  CallOk(x, b)'
<1>1. States /\ Stacks /\ Shape /\ Progress
  BY DEF IInv
<1>2. x \in FrameSet
  BY <1>1, FramesType
<1>3. Placed(x) /\ CallOk(x, b)
  BY <1>1, AllPlaced DEF Shape, Progress
<1>4. x.op = "job" /\ x.f = f =>
        /\ jobs'[f] = jobs[f]
        /\ x.pc \in Early => called'[f] = called[f] /\ future'[f].exception = future[f].exception
        /\ x.pc \in Early \cup {"finish"} => (future'[f].finished = future[f].finished)
  BY DEF Quiet, Undisturbed
<1>5. Grows /\ Only(f)
  BY DEF Quiet
<1> QED
  BY <1>1, <1>2, <1>3, <1>4, <1>5, CallStays

LEMMA ProgressReplace ==
  ASSUME IInv, States', Stacks', NEW t \in Threads, NEW f \in Futures, Quiet(t, f),
         depth[t] > 0, NEW x \in FrameSet, Replaces(t, x), CallOk(x, TRUE)'
  PROVE  Progress'
<1>1. Stacks
  BY DEF IInv
<1>2. /\ \A v \in Threads : depth'[v] = depth[v]
      /\ \A v \in Threads : \A d \in 1..depth[v] :
           frame'[v][d] = IF IsTop(t, v, d) THEN x ELSE frame[v][d]
  BY <1>1, ReplaceFrames
<1> SUFFICES ASSUME NEW v \in Threads, NEW d \in 1..depth'[v]
             PROVE  CallOk(frame[v][d], d = depth[v])'
  BY DEF Progress
<1>z. PICK z : z = frame'[v][d]
  OBVIOUS
<1>b. PICK b \in BOOLEAN : b = (d = depth'[v])
  OBVIOUS
<1>3. z = frame'[v][d] /\ b = (d = depth'[v])
  BY <1>z, <1>b
<1>4. CASE ~IsTop(t, v, d)
  <2>1. d \in 1..depth[v] /\ z = frame[v][d] /\ b = (d = depth[v])
    BY <1>2, <1>3, <1>4
  <2>2. CallOk(z, b)'
    BY <1>4, <2>1, OldCalls
  <2> QED
    BY <1>3, <2>2
<1>5. CASE IsTop(t, v, d)
  <2>1. z = x /\ b = TRUE
    BY <1>2, <1>3, <1>5 DEF IsTop
  <2> QED
    BY <1>3, <2>1
<1> QED
  BY <1>4, <1>5

LEMMA ProgressPush ==
  ASSUME IInv, States', Stacks', NEW t \in Threads, NEW f \in Futures, Quiet(t, f),
         depth[t] > 0, NEW x \in FrameSet, NEW y \in FrameSet, Pushes(t, x, y),
         CallOk(x, TRUE)', CallOk(y, FALSE)'
  PROVE  Progress'
<1>1. Stacks
  BY DEF IInv
<1>2. /\ \A v \in Threads : depth'[v] = IF v = t THEN depth[v] + 1 ELSE depth[v]
      /\ \A v \in Threads : \A d \in 1..depth[v] :
           frame'[v][d] = IF IsTop(t, v, d) THEN y ELSE frame[v][d]
      /\ frame'[t][depth[t] + 1] = x
      /\ \A v \in Threads : \A d \in 1..depth'[v] :
           d \in 1..depth[v] \/ (v = t /\ d = depth[t] + 1)
      /\ \A v \in Threads : depth[v] \in Nat
  BY <1>1, PushFrames, FramesType
<1> SUFFICES ASSUME NEW v \in Threads, NEW d \in 1..depth'[v]
             PROVE  CallOk(frame[v][d], d = depth[v])'
  BY DEF Progress
<1>z. PICK z : z = frame'[v][d]
  OBVIOUS
<1>b. PICK b \in BOOLEAN : b = (d = depth'[v])
  OBVIOUS
<1>3. z = frame'[v][d] /\ b = (d = depth'[v])
  BY <1>z, <1>b
<1>4. CASE d \in 1..depth[v] /\ ~IsTop(t, v, d)
  <2>1. b = (d = depth[v])
    BY <1>2, <1>3, <1>4 DEF IsTop
  <2>2. CallOk(z, b)'
    BY <1>2, <1>3, <1>4, <2>1, OldCalls
  <2> QED
    BY <1>3, <2>2
<1>5. CASE d \in 1..depth[v] /\ IsTop(t, v, d)
  <2>0. z = y /\ d # depth'[v]
    BY <1>2, <1>3, <1>5 DEF IsTop
  <2>1. z = y /\ b = FALSE
    BY <1>3, <2>0
  <2> QED
    BY <1>3, <2>1
<1>6. CASE v = t /\ d = depth[t] + 1
  <2>1. z = x /\ b = TRUE
    BY <1>2, <1>3, <1>6
  <2> QED
    BY <1>3, <2>1
<1> QED
  BY <1>2, <1>4, <1>5, <1>6

LEMMA ProgressPop ==
  ASSUME IInv, States', Stacks', NEW t \in Threads, NEW f \in Futures, Quiet(t, f),
         depth[t] > 0, Pops(t),
         TopOf(t).op = "cancelAndFinish" => future'[0].finished,
         TopOf(t).op = "cancel" => future'[TopOf(t).f].canceled
  PROVE  Progress'
<1>1. Stacks /\ Shape
  BY DEF IInv
<1>2. /\ \A v \in Threads : depth'[v] = IF v = t THEN depth[v] - 1 ELSE depth[v]
      /\ \A v \in Threads : \A d \in 1..depth'[v] :
           d \in 1..depth[v] /\ ~IsTop(t, v, d) /\ frame'[v][d] = frame[v][d]
      /\ \A v \in Threads : depth[v] \in Nat
  BY <1>1, PopFrames, FramesType
<1> SUFFICES ASSUME NEW v \in Threads, NEW d \in 1..depth'[v]
             PROVE  CallOk(frame[v][d], d = depth[v])'
  BY DEF Progress
<1>z. PICK z : z = frame'[v][d]
  OBVIOUS
<1>b. PICK b \in BOOLEAN : b = (d = depth'[v])
  OBVIOUS
<1>3. z = frame'[v][d] /\ b = (d = depth'[v])
  BY <1>z, <1>b
<1>4. z = frame[v][d] /\ d \in 1..depth[v] /\ ~IsTop(t, v, d)
  BY <1>2, <1>3
<1>5. PICK c \in BOOLEAN : c = (d = depth[v])
  OBVIOUS
<1>6. CallOk(z, c)'
  BY <1>4, <1>5, OldCalls
<1>7. CASE b = c
  BY <1>3, <1>6, <1>7
<1>8. CASE b # c
  <2>0. d # depth[v]
    <3>1. CASE v = t
      BY <1>4, <3>1 DEF IsTop
    <3>2. CASE v # t
      <4>1. depth'[v] = depth[v]
        BY <1>2, <3>2
      <4>2. b = c
        BY <1>3, <1>5, <4>1
      <4> QED
        BY <1>8, <4>2
    <3> QED
      BY <3>1, <3>2
  <2>a. c = FALSE /\ b = TRUE
    BY <1>5, <1>8, <2>0
  <2>b. d = depth'[v]
    BY <1>3, <2>a
  <2>1. v = t /\ d = depth[t] - 1 /\ b = TRUE
    BY <1>2, <2>0, <2>a, <2>b
  <2>2. depth[t] \in 1..depth[t] /\ frame[t][depth[t]] = TopOf(t) /\ depth[t] > 1
    BY <1>2, <1>4, <2>1 DEF TopOf
  <2>3. Calls(z, TopOf(t))
    BY <1>1, <1>4, <2>1, <2>2, Where
  <2>4. CallOk(z, TRUE)'
    <3>1. z.op = "job" /\ z.pc = "finish" => future'[z.f].canceled
      BY <2>3 DEF Calls
    <3>2. z.op = "job" /\ z.pc = "destroyed" => future'[z.f].finished
      BY <2>3 DEF Calls
    <3> QED
      BY <1>6, <3>1, <3>2 DEF CallOk, JobOk, CancelOk
  <2> QED
    BY <1>3, <2>1, <2>4
<1> QED
  BY <1>7, <1>8

LEMMA ProgressStart ==
  ASSUME IInv, States', Stacks', NEW t \in Threads, NEW f \in Futures, Quiet(t, f),
         NEW x \in FrameSet, Starts(t, x), CallOk(x, TRUE)'
  PROVE  Progress'
<1>1. Stacks
  BY DEF IInv
<1>2. /\ \A v \in Threads : depth'[v] = IF v = t THEN 1 ELSE depth[v]
      /\ \A v \in Threads : \A d \in 1..depth[v] :
           v # t /\ d \in 1..depth'[v] /\ frame'[v][d] = frame[v][d]
      /\ frame'[t][1] = x
      /\ \A v \in Threads : \A d \in 1..depth'[v] :
           d \in 1..depth[v] \/ (v = t /\ d = 1)
  BY <1>1, StartFrames
<1> SUFFICES ASSUME NEW v \in Threads, NEW d \in 1..depth'[v]
             PROVE  CallOk(frame[v][d], d = depth[v])'
  BY DEF Progress
<1>z. PICK z : z = frame'[v][d]
  OBVIOUS
<1>b. PICK b \in BOOLEAN : b = (d = depth'[v])
  OBVIOUS
<1>3. z = frame'[v][d] /\ b = (d = depth'[v])
  BY <1>z, <1>b
<1>4. CASE d \in 1..depth[v]
  <2>1. b = (d = depth[v]) /\ z = frame[v][d] /\ ~IsTop(t, v, d)
    BY <1>2, <1>3, <1>4 DEF IsTop
  <2>2. CallOk(z, b)'
    BY <1>4, <2>1, OldCalls
  <2> QED
    BY <1>3, <2>2
<1>5. CASE v = t /\ d = 1
  <2>1. z = x /\ b = TRUE
    BY <1>2, <1>3, <1>5
  <2> QED
    BY <1>3, <2>1
<1> QED
  BY <1>2, <1>4, <1>5

LEMMA TopOk ==
  ASSUME IInv, NEW t \in Threads, NEW op, NEW f, NEW pc, Now(t, op, f, pc)
  PROVE  /\ CallOk(TopOf(t), TRUE) /\ depth[t] > 0 /\ f \in Futures
         /\ TopOf(t) \in FrameSet /\ TopOf(t).op = op /\ TopOf(t).f = f /\ TopOf(t).pc = pc
         /\ op = "cancelAndFinish" => f = 0
         /\ op = "set" => t = Builder /\ depth[t] = 1 /\ f = built
<1>0. Stacks /\ Shape /\ Progress
  BY DEF IInv
<1>1. /\ depth[t] > 0 /\ TopOf(t) \in FrameSet
      /\ TopOf(t).op = op /\ TopOf(t).f = f /\ TopOf(t).pc = pc
  BY DEF Now
<1>2. /\ depth[t] \in 1..depth[t] /\ frame[t][depth[t]] = TopOf(t) /\ f \in Futures
      /\ op = "set" => t = Builder /\ depth[t] = 1 /\ f = built
  BY <1>0, TopPlace
<1>3. CallOk(TopOf(t), TRUE)
  <2>1. PICK b \in BOOLEAN : b = (depth[t] = depth[t])
    OBVIOUS
  <2>2. CallOk(frame[t][depth[t]], depth[t] = depth[t])
    BY <1>0, <1>2 DEF Progress
  <2> QED
    BY <1>2, <2>2
<1>4. op = "cancelAndFinish" => f = 0
  <2>1. ASSUME op = "cancelAndFinish" PROVE f = 0
    <3>1. depth[t] > 1 /\ Calls(frame[t][depth[t] - 1], TopOf(t))
      BY <1>0, <1>1, <1>2, <2>1, Where
    <3> QED
      BY <1>1, <2>1, <3>1 DEF Calls
  <2> QED
    BY <2>1
<1> QED
  BY <1>1, <1>2, <1>3, <1>4

\* The job of a continuation that is not marked has not begun.
LEMMA NotBegun ==
  ASSUME IInv, NEW f \in Futures, f + 1 \in Futures, ~link[f].executed
  PROVE  /\ jobs[f + 1] = 0 /\ called[f + 1] = 0
         /\ ~future[f + 1].finished /\ ~future[f + 1].exception
         /\ ~Begun(f + 1) /\ f + 1 \notin queue
<1>1. f + 1 \in 1..Last /\ (f + 1) - 1 = f
  BY ChainAssumption DEF Futures
<1>2. ~Begun(f + 1)
  <2>1. Executed
    BY DEF IInv, Once
  <2>2. \A g \in 1..Last : Begun(g) => link[g - 1].executed
    BY <2>1 DEF Executed
  <2>3. PICK g \in 1..Last : g = f + 1 /\ g - 1 = f
    BY <1>1
  <2>4. ~Begun(g)
    BY <2>2, <2>3
  <2> QED
    BY <2>3, <2>4
<1>3. f + 1 \notin queue /\ ~(jobs[f + 1] > 0)
  BY <1>2 DEF Begun
<1>4. jobs[f + 1] \in Nat /\ called[f + 1] \in Nat
  BY DEF IInv, States
<1>5. jobs[f + 1] = 0
  BY <1>3, <1>4
<1>6. ~(called[f + 1] > 0) /\ ~future[f + 1].finished /\ ~future[f + 1].exception
  BY <1>1, <1>5 DEF IInv, Once, JobCounts, Results
<1> QED
  BY <1>2, <1>3, <1>4, <1>5, <1>6

LEMMA SetNotMarked ==
  ASSUME IInv, NEW t \in Threads, NEW f \in Futures, Now(t, "set", f, "enter")
  PROVE  ~link[f].executed /\ f \in built..Last
<1>1. TopOf(t).pc = "enter" /\ t = Builder /\ depth[t] = 1 /\ f = built
  <2>1. "set" = "set" => t = Builder /\ depth[t] = 1 /\ f = built
    BY TopOk
  <2> QED
    BY <2>1 DEF Now
<1>2. ~HasAt(Builder, 1, "set", f, "store")
  BY <1>1 DEF HasAt, TopOf
<1>3. f \in built..Last
  BY <1>1, ChainAssumption DEF IInv, States, Futures
<1> QED
  BY <1>2, <1>3 DEF IInv, Once, Attached

\* What a continuation finds when it begins.
LEMMA Parents ==
  ASSUME IInv, NEW t \in Threads, NEW f \in Futures, f > 0, Now(t, "job", f, "check")
  PROVE  /\ f \in 1..Last /\ f - 1 \in Futures /\ link[f - 1].executed
         /\ \A g \in 0..(f - 1) : future[g].finished
         /\ future[f - 1].canceled \/ future[f - 1].result
<1>1. f \in 1..Last /\ f - 1 \in Futures /\ f - 1 \in 0..(f - 1)
  BY ChainAssumption DEF Futures
<1>2. Begun(f)
  <2>1. depth[t] \in 1..depth[t] /\ frame[t][depth[t]] = TopOf(t)
    BY TopPlace DEF IInv
  <2>2. Has(t, depth[t], "job", f)
    BY <2>1 DEF Has, Now
  <2> QED
    BY <2>1, <2>2 DEF Begun
<1>3. link[f - 1].executed
  BY <1>1, <1>2 DEF IInv, Once, Executed
<1>4. \A g \in 0..(f - 1) : future[g].finished
  BY <1>1, <1>3 DEF IInv, Results
<1> QED
  BY <1>1, <1>3, <1>4 DEF IInv, Results

LEMMA FlatProgress ==
  ASSUME IInv, States', Stacks', FlatNext
  PROVE  Progress'
<1>0. /\ Stacks /\ States /\ Shape /\ Last \in Nat \ {0} /\ Futures = 0..Last /\ built \in 0..Last
      /\ jobs \in [Futures -> Nat] /\ called \in [Futures -> Nat]
  BY ChainAssumption DEF IInv, Futures, States
<1>1. CASE AttachF
  <2>1. "set" \in Ops /\ "enter" \in AllPcs /\ built \in Futures /\ Builder \in Threads /\ 0 \in Futures
    BY <1>0 DEF Threads
  <2>2. PICK x \in FrameSet : x = Frame("set", built, "enter") /\ x.op = "set"
    BY <2>1, FirstFrames
  <2>3. CallOk(x, TRUE)'
    BY <2>2 DEF CallOk
  <2>4. Starts(Builder, x) /\ Quiet(Builder, 0)
    BY <1>1, <2>1, <2>2, FirstQuiet DEF AttachF
  <2> QED
    BY <2>1, <2>3, <2>4, ProgressStart
<1>2. ASSUME NEW f \in Futures, TakeF(f) PROVE Progress'
  <2>1. /\ "job" \in Ops /\ "call" \in AllPcs /\ Pool \in Threads /\ 0 \in Futures
        /\ f \in queue /\ f \in 1..Last /\ f > 0
    BY <1>0, <1>2 DEF Threads, TakeF, States
  <2>2. PICK x \in FrameSet : x = Frame("job", f, "call") /\ x.op = "job" /\ x.f = f /\ x.pc = "call"
    BY <2>1, FirstFrames
  <2>3. /\ jobs[f] = 1 /\ called[f] = 0 /\ ~future[f].finished /\ ~future[f].exception
        /\ kind[f] = "then" /\ (f \notin takers => future[f - 1].result)
    <3>1. jobs[f] = 1 /\ called[f] = 0
      BY <2>1 DEF IInv, Once, JobCounts
    <3>2. Queued(f)
      BY <2>1 DEF IInv, Results
    <3> QED
      BY <3>1, <3>2 DEF Queued
  <2>4. UNCHANGED <<kind, future, jobs, called, takers>>
    BY <1>2 DEF TakeF, fixed, history
  <2>5. CallOk(x, TRUE)'
    BY <2>1, <2>2, <2>3, <2>4 DEF CallOk, JobOk
  <2>6. Starts(Pool, x) /\ Quiet(Pool, 0)
    BY <1>2, <2>1, <2>2, FirstQuiet DEF TakeF
  <2> QED
    BY <2>1, <2>5, <2>6, ProgressStart
<1>3. ASSUME NEW t \in Threads, NEW f \in Futures, FlatStep(t, f) PROVE Progress'
  <2>q. Quiet(t, f)
    BY <1>3, FlatGrows, FlatQuiet DEF Quiet
  <2>1. CASE DecideF(t, f)
    <3>1. /\ Now(t, "job", f, "check") /\ f > 0 /\ depth[t] > 0
          /\ TopOf(t) \in FrameSet /\ TopOf(t).op = "job" /\ TopOf(t).f = f
          /\ UNCHANGED <<kind, future, called>> /\ jobs' = [jobs EXCEPT ![f] = @ + 1]
      BY <2>1 DEF DecideF, Now, fixed
    <3>2. jobs[f] = 0 /\ called[f] = 0 /\ ~future[f].finished /\ ~future[f].exception
      BY <3>1, TopOk DEF CallOk, JobOk
    <3>3. f \in 1..Last /\ (future[f - 1].canceled \/ future[f - 1].result)
      BY <3>1, Parents
    <3>4. PICK taking \in BOOLEAN :
            /\ takers' = IF taking THEN takers \cup {f} ELSE takers
            /\ Pops(t) \/ Replaces(t, With(TopOf(t), Verdict(f, taking)))
      BY <2>1 DEF DecideF
    <3>5. CASE Pops(t)
      BY <3>1, <3>5, <2>q, ProgressPop
    <3>6. CASE Replaces(t, With(TopOf(t), Verdict(f, taking)))
      <4>1. PICK p : p = Verdict(f, taking)
        OBVIOUS
      <4>2. /\ p \in {"call", "pass", "raise", "cancel"}
            /\ p = "pass" => ~future[f - 1].canceled
            /\ kind[f] = "then" /\ p = "call" /\ ~taking => ~future[f - 1].canceled
        BY <1>0, <3>3, <4>1, Verdicts DEF IsChainCanceled
      <4>3. PICK x \in FrameSet : x = With(TopOf(t), p) /\ x.op = "job" /\ x.f = f /\ x.pc = p
        <5>1. p \in AllPcs
          BY <4>2
        <5> QED
          BY <3>1, <5>1, WithFrames
      <4>4. jobs'[f] = 1
        BY <1>0, <3>1, <3>2
      <4>5. JobOk(x, TRUE)'
        <5>1. p = "pass" \/ (p = "call" /\ kind[f] = "then" /\ f \notin takers')
                => future[f - 1].result
          BY <3>3, <3>4, <4>2
        <5> QED
          BY <3>1, <3>2, <4>2, <4>3, <4>4, <5>1 DEF JobOk
      <4>6. CallOk(x, TRUE)'
        BY <4>3, <4>5 DEF CallOk
      <4> QED
        BY <3>1, <3>6, <4>1, <4>3, <4>6, <2>q, ProgressReplace
    <3> QED
      BY <3>4, <3>5, <3>6
  <2>2. CASE CallF(t, f) \/ PassF(t, f)
    <3>1. PICK pc \in {"call", "pass", "raise"} :
            /\ Now(t, "job", f, pc) /\ depth[t] > 0 /\ TopOf(t) \in FrameSet
            /\ TopOf(t).op = "job" /\ TopOf(t).f = f /\ TopOf(t).pc = pc
            /\ Replaces(t, With(TopOf(t), "finish")) /\ Reported(f)
            /\ UNCHANGED <<kind, jobs>>
      BY <2>2 DEF CallF, PassF, Now, fixed, history
    <3>2. (f > 0 => jobs[f] = 1) /\ ~future[f].finished
      BY <3>1, TopOk DEF CallOk, JobOk
    <3>3. "finish" \in AllPcs
      OBVIOUS
    <3>4. PICK x \in FrameSet : x = With(TopOf(t), "finish") /\ x.op = "job" /\ x.f = f
                                /\ x.pc = "finish"
      BY <3>1, <3>3, WithFrames
    <3>5. ~future'[f].finished /\ (future'[f].canceled \/ future'[f].result)
      BY <3>1, <3>2 DEF Reported
    <3>6. CallOk(x, TRUE)'
      BY <3>1, <3>2, <3>4, <3>5 DEF CallOk, JobOk
    <3> QED
      BY <3>1, <3>4, <3>6, <2>q, ProgressReplace
  <2>3. CASE FinishF(t, f)
    <3>1. /\ Now(t, "job", f, "finish") /\ depth[t] > 0 /\ TopOf(t) \in FrameSet
          /\ TopOf(t).op = "job" /\ TopOf(t).f = f /\ TopOf(t).pc = "finish"
          /\ Replaces(t, With(TopOf(t), "destroyed")) /\ future'[f].finished
          /\ UNCHANGED <<kind, jobs>>
      BY <2>3 DEF FinishF, Now, fixed, history
    <3>2. f > 0 => jobs[f] = 1
      BY <3>1, TopOk DEF CallOk, JobOk
    <3>3. "destroyed" \in AllPcs
      OBVIOUS
    <3>4. PICK x \in FrameSet : x = With(TopOf(t), "destroyed") /\ x.op = "job" /\ x.f = f
                                /\ x.pc = "destroyed"
      BY <3>1, <3>3, WithFrames
    <3>5. CallOk(x, TRUE)'
      BY <3>1, <3>2, <3>4 DEF CallOk, JobOk
    <3> QED
      BY <3>1, <3>4, <3>5, <2>q, ProgressReplace
  <2>4. CASE CancelOwnF(t, f)
    <3>1. /\ Now(t, "job", f, "cancel") /\ depth[t] > 0 /\ TopOf(t) \in FrameSet
          /\ TopOf(t).op = "job" /\ TopOf(t).f = f /\ TopOf(t).pc = "cancel"
          /\ Pushes(t, Frame("cancel", f, "lock"), With(TopOf(t), "finish"))
          /\ UNCHANGED <<kind, jobs, future>>
      BY <2>4 DEF CancelOwnF, Now, fixed, history
    <3>2. (f > 0 => jobs[f] = 1) /\ ~future[f].finished
      BY <3>1, TopOk DEF CallOk, JobOk
    <3>3. "finish" \in AllPcs /\ "lock" \in AllPcs /\ "cancel" \in Ops
      OBVIOUS
    <3>4. PICK y \in FrameSet : y = With(TopOf(t), "finish") /\ y.op = "job" /\ y.f = f
                                /\ y.pc = "finish"
      BY <3>1, <3>3, WithFrames
    <3>5. PICK x \in FrameSet : x = Frame("cancel", f, "lock") /\ x.op = "cancel" /\ x.pc = "lock"
      BY <3>3, FirstFrames
    <3>6. CallOk(y, FALSE)' /\ CallOk(x, TRUE)'
      BY <3>1, <3>2, <3>4, <3>5 DEF CallOk, JobOk, CancelOk
    <3> QED
      BY <3>1, <3>4, <3>5, <3>6, <2>q, ProgressPush
  <2>5. CASE f = 0 /\ AbandonF(t)
    <3>1. /\ Now(t, "job", 0, "call") /\ depth[t] > 0 /\ TopOf(t) \in FrameSet
          /\ TopOf(t).op = "job" /\ TopOf(t).f = 0 /\ TopOf(t).pc = "call" /\ f = 0
          /\ Pushes(t, Frame("cancelAndFinish", 0, "lock"), With(TopOf(t), "destroyed"))
      BY <2>5 DEF AbandonF, Now
    <3>3. "destroyed" \in AllPcs /\ "lock" \in AllPcs /\ "cancelAndFinish" \in Ops /\ 0 \in Futures
      BY <3>1
    <3>4. PICK y \in FrameSet : y = With(TopOf(t), "destroyed") /\ y.op = "job" /\ y.f = 0
                                /\ y.pc = "destroyed"
      BY <3>1, <3>3, WithFrames
    <3>5. PICK x \in FrameSet : x = Frame("cancelAndFinish", 0, "lock")
                                /\ x.op = "cancelAndFinish" /\ x.pc = "lock"
      BY <3>3, FirstFrames
    <3>6. CallOk(y, FALSE)' /\ CallOk(x, TRUE)'
      BY <3>1, <3>4, <3>5 DEF CallOk, JobOk, CancelOk
    <3> QED
      BY <3>1, <3>4, <3>5, <3>6, <2>q, ProgressPush
  <2>6. CASE RunsF(t, f)
    <3>1. /\ Now(t, "job", f, "destroyed") /\ depth[t] > 0 /\ TopOf(t) \in FrameSet
          /\ TopOf(t).op = "job" /\ TopOf(t).f = f /\ TopOf(t).pc = "destroyed"
          /\ Pushes(t, Frame("run", f, "enter"), With(TopOf(t), "clean"))
          /\ UNCHANGED <<kind, jobs, future>>
      BY <2>6 DEF RunsF, Now, fixed, history
    <3>2. (f > 0 => jobs[f] = 1) /\ future[f].finished
      BY <3>1, TopOk DEF CallOk, JobOk
    <3>3. "clean" \in AllPcs /\ "enter" \in AllPcs /\ "run" \in Ops
      OBVIOUS
    <3>4. PICK y \in FrameSet : y = With(TopOf(t), "clean") /\ y.op = "job" /\ y.f = f
                                /\ y.pc = "clean"
      BY <3>1, <3>3, WithFrames
    <3>5. PICK x \in FrameSet : x = Frame("run", f, "enter") /\ x.op = "run" /\ x.pc = "enter"
      BY <3>3, FirstFrames
    <3>6. CallOk(y, FALSE)' /\ CallOk(x, TRUE)'
      BY <3>1, <3>2, <3>4, <3>5 DEF CallOk, JobOk, CancelOk
    <3> QED
      BY <3>1, <3>4, <3>5, <3>6, <2>q, ProgressPush
  <2>7. CASE CleanF(t, f) \/ RunNotF(t, f) \/ RunBackF(t, f) \/ SetStoreF(t, f) \/ SetBackF(t, f)
    <3>1. depth[t] > 0 /\ Pops(t) /\ TopOf(t).op \in {"job", "run", "set"}
      BY <2>7 DEF CleanF, RunNotF, RunBackF, SetStoreF, SetBackF, Now
    <3> QED
      BY <3>1, <2>q, ProgressPop
  <2>8. CASE CancelNotF(t, f)
    <3>1. PICK op \in Cancels : /\ Now(t, op, f, "lock")
                                /\ op = "cancelAndFinish" => future[f].finished
      BY <2>8 DEF CancelNotF
    <3>2. future' = future /\ future[f].canceled /\ Pops(t)
      BY <2>8 DEF CancelNotF
    <3>3. depth[t] > 0 /\ TopOf(t).op = op /\ TopOf(t).f = f /\ (op = "cancelAndFinish" => f = 0)
      BY <3>1, TopOk
    <3> QED
      BY <3>1, <3>2, <3>3, <2>q, ProgressPop
  <2>9. CASE SetRunF(t, f)
    <3>1. /\ Now(t, "set", f, "enter") /\ depth[t] > 0 /\ TopOf(t) \in FrameSet
          /\ TopOf(t).op = "set" /\ f + 1 \in Futures
          /\ Pushes(t, Frame("job", f + 1, "check"), With(TopOf(t), "store"))
          /\ UNCHANGED <<kind, jobs, called, future>>
      BY <2>9 DEF SetRunF, Now, fixed, history
    <3>2. /\ jobs[f + 1] = 0 /\ called[f + 1] = 0
          /\ ~future[f + 1].finished /\ ~future[f + 1].exception
      BY <3>1, SetNotMarked, NotBegun
    <3>3. "store" \in AllPcs /\ "check" \in AllPcs /\ "job" \in Ops
      OBVIOUS
    <3>4. PICK y \in FrameSet : y = With(TopOf(t), "store") /\ y.op = "set"
      BY <3>1, <3>3, WithFrames
    <3>5. PICK x \in FrameSet : x = Frame("job", f + 1, "check") /\ x.op = "job" /\ x.f = f + 1
                                /\ x.pc = "check"
      BY <3>1, <3>3, FirstFrames
    <3>6. CallOk(y, FALSE)' /\ CallOk(x, TRUE)'
      BY <3>1, <3>2, <3>4, <3>5 DEF CallOk, JobOk
    <3> QED
      BY <3>1, <3>4, <3>5, <3>6, <2>q, ProgressPush
  <2>10. CASE RunF(t, f)
    <3>1. /\ Now(t, "run", f, "enter") /\ depth[t] > 0 /\ TopOf(t) \in FrameSet
          /\ TopOf(t).op = "run" /\ TopOf(t).f = f /\ f + 1 \in Futures
          /\ Pushes(t, Frame("job", f + 1, "check"), With(TopOf(t), "leave"))
          /\ link[f].stored /\ ~link[f].executed /\ link'[f].executed
          /\ UNCHANGED <<kind, jobs, called, future, built>>
      BY <2>10 DEF RunF, Now, fixed, history
    <3>2. /\ jobs[f + 1] = 0 /\ called[f + 1] = 0
          /\ ~future[f + 1].finished /\ ~future[f + 1].exception
      BY <3>1, NotBegun
    <3>3. "leave" \in AllPcs /\ "check" \in AllPcs /\ "job" \in Ops
      OBVIOUS
    <3>4. PICK y \in FrameSet : y = With(TopOf(t), "leave") /\ y.op = "run" /\ y.f = f
      BY <3>1, <3>3, WithFrames
    <3>5. PICK x \in FrameSet : x = Frame("job", f + 1, "check") /\ x.op = "job" /\ x.f = f + 1
                                /\ x.pc = "check"
      BY <3>1, <3>3, FirstFrames
    <3>6. f < built
      <4>1. f \notin built..Last
        BY <3>1 DEF IInv, Once, Attached
      <4> QED
        BY <1>0, <4>1
    <3>7. CallOk(y, FALSE)' /\ CallOk(x, TRUE)'
      BY <3>1, <3>2, <3>4, <3>5, <3>6 DEF CallOk, JobOk
    <3> QED
      BY <3>1, <3>4, <3>5, <3>7, <2>q, ProgressPush
  <2>11. CASE CancelF(t, f)
    <3>1. PICK op \in Cancels : Now(t, op, f, "lock") /\ Canceled(f, op = "cancelAndFinish")
      BY <2>11 DEF CancelF
    <3>2. Replaces(t, With(TopOf(t), "links"))
      BY <2>11 DEF CancelF
    <3>3. depth[t] > 0 /\ TopOf(t) \in FrameSet /\ TopOf(t).op = op /\ TopOf(t).f = f
      BY <3>1, TopOk
    <3>4. "links" \in AllPcs
      OBVIOUS
    <3>5. PICK x \in FrameSet : x = With(TopOf(t), "links") /\ x.op = op /\ x.f = f /\ x.pc = "links"
      BY <3>3, <3>4, WithFrames
    <3>6. future'[f].canceled /\ (op = "cancelAndFinish" => future'[f].finished)
      BY <3>1 DEF Canceled
    <3>7. CallOk(x, TRUE)'
      BY <3>5, <3>6 DEF CallOk, CancelOk
    <3> QED
      BY <3>2, <3>3, <3>5, <3>7, <2>q, ProgressReplace
  <2>12. CASE LinksF(t, f)
    <3>1. PICK op \in Cancels : Now(t, op, f, "links")
      BY <2>12 DEF LinksF
    <3>2. /\ depth[t] > 0 /\ TopOf(t) \in FrameSet /\ TopOf(t).op = op /\ TopOf(t).f = f
          /\ op = "cancelAndFinish" => f = 0
          /\ UNCHANGED <<kind, future, link>>
      BY <2>12, <3>1, TopOk DEF LinksF, fixed
    <3>3. future[f].canceled /\ (op = "cancelAndFinish" => future[f].finished)
      <4>1. TopOf(t).pc = "links" /\ CallOk(TopOf(t), TRUE)
        BY <3>1, TopOk
      <4>2. CancelOk(TopOf(t))
        BY <3>2, <4>1 DEF CallOk
      <4> QED
        BY <3>2, <4>1, <4>2 DEF CancelOk
    <3>4. CASE Pops(t)
      BY <3>2, <3>3, <3>4, <2>q, ProgressPop
    <3>5. CASE link[f].data /\ f + 1 \in Futures /\ Replaces(t, WithOther(TopOf(t), "walk", f + 1))
      <4>1. "walk" \in AllPcs
        OBVIOUS
      <4>2. f + 1 \in 1..Last /\ (f + 1) - 1 = f
        BY <1>0, <3>5
      <4>3. link[f + 1].type = kind[f + 1]
        <5>1. link[(f + 1) - 1].data => link[f + 1].type = kind[f + 1]
          BY <4>2 DEF IInv, Links
        <5> QED
          BY <3>5, <4>2, <5>1
      <4> HIDE DEF AllPcs
      <4>4. PICK x \in FrameSet : /\ x = WithOther(TopOf(t), "walk", f + 1) /\ x.op = op
                                  /\ x.f = f /\ x.pc = "walk" /\ x.other = f + 1
        BY <3>2, <3>5, <4>1, WithOtherFrames
      <4>5. (f + 1)..((f + 1) - 1) = {}
        BY <1>0
      <4>6. CancelOk(x)'
        BY <3>2, <3>3, <4>3, <4>4, <4>5 DEF CancelOk
      <4>7. CallOk(x, TRUE)'
        BY <4>4, <4>6 DEF CallOk
      <4> QED
        BY <3>2, <3>5, <4>4, <4>7, <2>q, ProgressReplace
    <3> QED
      BY <2>12, <3>4, <3>5 DEF LinksF
  <2>13. CASE WalkF(t, f)
    <3> DEFINE o == TopOf(t).other
    <3>1. PICK op \in Cancels : Now(t, op, f, "walk")
      BY <2>13 DEF WalkF
    <3>2. /\ depth[t] > 0 /\ TopOf(t) \in FrameSet /\ TopOf(t).op = op /\ TopOf(t).f = f
          /\ op = "cancelAndFinish" => f = 0
          /\ UNCHANGED <<kind, future>> /\ o \in Futures
      <4>1. UNCHANGED <<kind, future>> /\ o \in Futures
        BY <2>13 DEF WalkF, fixed
      <4>2. depth[t] > 0 /\ TopOf(t) \in FrameSet /\ TopOf(t).op = op /\ TopOf(t).f = f
        BY <3>1 DEF Now
      <4>3. op = "cancelAndFinish" => f = 0
        BY <3>1, TopOk
      <4> QED
        BY <4>1, <4>2, <4>3
    <3>3. /\ future[f].canceled /\ (op = "cancelAndFinish" => future[f].finished)
          /\ \A h \in (f + 1)..(o - 1) : link[h].state # "Default"
      <4>1. TopOf(t).pc = "walk" /\ CallOk(TopOf(t), TRUE)
        BY <3>1, TopOk
      <4>2. CancelOk(TopOf(t))
        BY <3>2, <4>1 DEF CallOk
      <4> QED
        BY <3>2, <4>1, <4>2 DEF CancelOk
    <3>4. CASE Pops(t)
      BY <3>2, <3>3, <3>4, <2>q, ProgressPop
    <3>5. CASE /\ link[o].type = "then" /\ link[o].data /\ o + 1 \in Futures
               /\ Replaces(t, WithOther(TopOf(t), "walk", o + 1))
      <4>1. "walk" \in AllPcs
        OBVIOUS
      <4>2. o + 1 \in 1..Last /\ (o + 1) - 1 = o
        <5>1. \A w \in 0..Last : w + 1 \in 0..Last => w + 1 \in 1..Last /\ (w + 1) - 1 = w
          BY <1>0
        <5> QED
          BY <1>0, <3>2, <3>5, <5>1
      <4>3. link[o + 1].type = kind[o + 1]
        <5>1. link[(o + 1) - 1].data => link[o + 1].type = kind[o + 1]
          BY <4>2 DEF IInv, Links
        <5> QED
          BY <3>5, <4>2, <5>1
      <4> HIDE DEF AllPcs
      <4>4. PICK w : w = o
        OBVIOUS
      <4>5. PICK x \in FrameSet : /\ x = WithOther(TopOf(t), "walk", w + 1) /\ x.op = op
                                  /\ x.f = f /\ x.pc = "walk" /\ x.other = w + 1
        BY <3>2, <3>5, <4>1, <4>4, WithOtherFrames
      <4>6. link'[w + 1].type = kind[w + 1]
        BY <4>2, <4>3, <4>4, <2>q DEF Quiet, Grows
      <4>7. \A h \in (f + 1)..((w + 1) - 1) : link'[h].state # "Default"
        <5>1. link'[w].state # "Default"
          BY <2>13, <3>5, <4>4 DEF WalkF
        <5>2. \A h \in (f + 1)..(w - 1) : h \in Futures
          BY <1>0, <3>2, <4>4
        <5>3. \A h \in (f + 1)..(w - 1) : link'[h].state # "Default"
          BY <3>3, <4>4, <5>2, <2>q DEF Quiet, Grows
        <5>4. \A h \in (f + 1)..((w + 1) - 1) : h = w \/ h \in (f + 1)..(w - 1)
          BY <1>0, <3>2, <4>4
        <5> QED
          BY <5>1, <5>3, <5>4
      <4>8. CancelOk(x)'
        BY <3>2, <3>3, <4>5, <4>6, <4>7 DEF CancelOk
      <4>9. CallOk(x, TRUE)'
        BY <4>5, <4>8 DEF CallOk
      <4> QED
        BY <3>2, <3>5, <4>4, <4>5, <4>9, <2>q, ProgressReplace
    <3> QED
      BY <2>13, <3>4, <3>5 DEF WalkF
  <2>14. CASE ChainF(t, f)
    <3>1. depth[t] > 0 /\ TopOf(t) \in FrameSet /\ TopOf(t).op = "cancelChain"
      BY <2>14 DEF ChainF, Now
    <3>2. "up" \in AllPcs /\ "lock" \in AllPcs /\ "cancel" \in Ops
      OBVIOUS
    <3> HIDE DEF AllPcs
    <3>3. ASSUME NEW o \in Futures, Replaces(t, WithOther(TopOf(t), "up", o)) PROVE Progress'
      <4>1. PICK x \in FrameSet : x = WithOther(TopOf(t), "up", o) /\ x.op = "cancelChain"
        BY <3>1, <3>2, WithOtherFrames
      <4>2. CallOk(x, TRUE)'
        BY <4>1 DEF CallOk
      <4> QED
        BY <3>1, <3>3, <4>1, <4>2, <2>q, ProgressReplace
    <3>4. CASE Replaces(t, Frame("cancel", f, "lock"))
      <4>1. PICK x \in FrameSet : x = Frame("cancel", f, "lock") /\ x.op = "cancel" /\ x.pc = "lock"
        BY <3>2, FirstFrames
      <4>2. CallOk(x, TRUE)'
        BY <4>1 DEF CallOk, CancelOk
      <4> QED
        BY <3>1, <3>4, <4>1, <4>2, <2>q, ProgressReplace
    <3> QED
      BY <2>14, <3>3, <3>4 DEF ChainF
  <2>15. CASE ChainCancelF(t, f)
    <3>1. /\ depth[t] > 0 /\ TopOf(t) \in FrameSet /\ TopOf(t).op = "cancelChain"
          /\ Replaces(t, With(TopOf(t), "next"))
      BY <2>15 DEF ChainCancelF, Now
    <3>2. "next" \in AllPcs
      OBVIOUS
    <3>3. PICK x \in FrameSet : x = With(TopOf(t), "next") /\ x.op = "cancelChain"
      BY <3>1, <3>2, WithFrames
    <3>4. CallOk(x, TRUE)'
      BY <3>3 DEF CallOk
    <3> QED
      BY <3>1, <3>3, <3>4, <2>q, ProgressReplace
  <2>16. CASE ClientF(t, f)
    <3>1. PICK g \in Futures, op \in {"cancel", "cancelChain"} : Replaces(t, Frame(op, g, "lock"))
      BY <2>16 DEF ClientF
    <3>2. op \in Ops /\ "lock" \in AllPcs /\ depth[t] > 0
      BY <2>16 DEF ClientF, Now
    <3>3. PICK x \in FrameSet : x = Frame(op, g, "lock") /\ x.op = op /\ x.pc = "lock"
      BY <3>2, FirstFrames
    <3>4. CallOk(x, TRUE)'
      BY <3>3 DEF CallOk, CancelOk
    <3> QED
      BY <3>1, <3>2, <3>3, <3>4, <2>q, ProgressReplace
  <2> QED
    BY <1>3, <2>1, <2>2, <2>3, <2>4, <2>5, <2>6, <2>7, <2>8, <2>9, <2>10, <2>11, <2>12, <2>13,
       <2>14, <2>15, <2>16 DEF FlatStep
<1> QED
  BY <1>1, <1>2, <1>3 DEF FlatNext

-----------------------------------------------------------------------------
(* What a step changes of the stacks.                                      *)

\* A continuation starts: its job is f + 1.
Begins(t, f) == SetRunF(t, f) \/ RunF(t, f)

GoesOn(x, y) == y.op = x.op /\ y.f = x.f

StackMove(t, f) ==
  \/ \E x : Replaces(t, x) /\ (GoesOn(TopOf(t), x) \/ x.op \in {"cancel", "cancelChain"})
  \/ \E x, y : /\ Pushes(t, x, y) /\ GoesOn(TopOf(t), y)
               /\ x.op = "job" => x.f = f + 1 /\ x.pc = "check" /\ Begins(t, f)
  \/ Pops(t)

LEMMA FlatMoves ==
  ASSUME NEW t \in Threads, NEW f \in Futures, FlatStep(t, f)
  PROVE  depth[t] > 0 /\ StackMove(t, f)
<1>1. ASSUME NEW pc PROVE GoesOn(TopOf(t), With(TopOf(t), pc))
  BY DEF GoesOn, With
<1>2. ASSUME NEW pc, NEW o PROVE GoesOn(TopOf(t), WithOther(TopOf(t), pc, o))
  BY DEF GoesOn, WithOther
<1>3. depth[t] > 0
  BY DEF FlatStep, DecideF, CallF, PassF, CancelOwnF, AbandonF, FinishF, RunsF, CleanF, SetRunF,
         SetStoreF, SetBackF, RunF, RunNotF, RunBackF, CancelNotF, CancelF, LinksF, WalkF,
         ChainF, ChainCancelF, ClientF, Now
<1>4. CASE DecideF(t, f)
  BY <1>1, <1>3, <1>4 DEF DecideF, StackMove
<1>5. CASE CallF(t, f) \/ PassF(t, f) \/ FinishF(t, f) \/ CancelF(t, f) \/ ChainCancelF(t, f)
  <2>1. PICK pc : Replaces(t, With(TopOf(t), pc))
    BY <1>5 DEF CallF, PassF, FinishF, CancelF, ChainCancelF
  <2> QED
    BY <1>1, <1>3, <2>1 DEF StackMove
<1>6. CASE CancelOwnF(t, f) \/ (f = 0 /\ AbandonF(t)) \/ RunsF(t, f)
  <2>1. PICK op \in {"cancel", "cancelAndFinish", "run"}, there \in {"lock", "enter"},
             pc \in {"finish", "destroyed", "clean"} :
          Pushes(t, Frame(op, f, there), With(TopOf(t), pc))
    BY <1>6 DEF CancelOwnF, AbandonF, RunsF
  <2>2. Frame(op, f, there).op # "job"
    BY DEF Frame
  <2> QED
    BY <1>1, <1>3, <2>1, <2>2 DEF StackMove
<1>7. CASE SetRunF(t, f) \/ RunF(t, f)
  <2>1. PICK pc : Pushes(t, Frame("job", f + 1, "check"), With(TopOf(t), pc))
    BY <1>7 DEF SetRunF, RunF
  <2>2. Frame("job", f + 1, "check").f = f + 1 /\ Frame("job", f + 1, "check").pc = "check"
    BY DEF Frame
  <2> QED
    BY <1>1, <1>3, <1>7, <2>1, <2>2 DEF StackMove, Begins
<1>8. CASE CleanF(t, f) \/ SetStoreF(t, f) \/ SetBackF(t, f) \/ RunNotF(t, f) \/ RunBackF(t, f)
           \/ CancelNotF(t, f)
  BY <1>3, <1>8 DEF CleanF, SetStoreF, SetBackF, RunNotF, RunBackF, CancelNotF, StackMove
<1>9. CASE LinksF(t, f) \/ WalkF(t, f)
  <2>1. Pops(t) \/ \E o : Replaces(t, WithOther(TopOf(t), "walk", o))
    BY <1>9 DEF LinksF, WalkF
  <2> QED
    BY <1>2, <1>3, <2>1 DEF StackMove
<1>10. CASE ChainF(t, f) \/ ClientF(t, f)
  <2>1. \/ \E o : Replaces(t, WithOther(TopOf(t), "up", o))
        \/ \E op \in {"cancel", "cancelChain"} : \E g : Replaces(t, Frame(op, g, "lock"))
    BY <1>10 DEF ChainF, ClientF
  <2>2. ASSUME NEW op \in {"cancel", "cancelChain"}, NEW g
        PROVE  Frame(op, g, "lock").op \in {"cancel", "cancelChain"}
    BY DEF Frame
  <2> QED
    BY <1>2, <1>3, <2>1, <2>2 DEF StackMove
<1> QED
  BY <1>3, <1>4, <1>5, <1>6, <1>7, <1>8, <1>9, <1>10 DEF FlatStep

\* Only the innermost call of t changes, and the one it makes.
Local(t) ==
  /\ \A v \in Threads : \A d \in 1..depth[v] : ~IsTop(t, v, d) =>
       d \in 1..depth'[v] /\ frame'[v][d] = frame[v][d]
  /\ \A v \in Threads : \A d \in 1..depth'[v] :
       \/ d \in 1..depth[v] /\ ~IsTop(t, v, d)
       \/ v = t /\ d = depth[t] /\ ~Pops(t)
       \/ v = t /\ d = depth[t] + 1 /\ \E x, y : Pushes(t, x, y)
       \/ v = t /\ d = 1 /\ depth[t] = 0

LEMMA FlatLocal ==
  ASSUME Stacks, Stacks', NEW t \in Threads, NEW f \in Futures, FlatStep(t, f)
  PROVE  Local(t)
<1>1. depth[t] > 0 /\ StackMove(t, f)
  BY FlatMoves
<1>2. \A v \in Threads : depth[v] \in Nat
  BY FramesType
<1>3. ASSUME NEW x, Replaces(t, x) PROVE Local(t)
  <2>1. /\ \A v \in Threads : depth'[v] = depth[v]
        /\ \A v \in Threads : \A d \in 1..depth[v] :
             frame'[v][d] = IF IsTop(t, v, d) THEN x ELSE frame[v][d]
    BY <1>1, <1>3, ReplaceFrames
  <2>2. ~Pops(t)
    BY <1>2, <2>1 DEF Pops
  <2> QED
    BY <2>1, <2>2 DEF Local, IsTop
<1>4. ASSUME NEW x, NEW y, Pushes(t, x, y) PROVE Local(t)
  <2>1. /\ \A v \in Threads : depth'[v] = IF v = t THEN depth[v] + 1 ELSE depth[v]
        /\ \A v \in Threads : \A d \in 1..depth[v] :
             frame'[v][d] = IF IsTop(t, v, d) THEN y ELSE frame[v][d]
        /\ \A v \in Threads : \A d \in 1..depth'[v] :
             d \in 1..depth[v] \/ (v = t /\ d = depth[t] + 1)
    BY <1>1, <1>4, PushFrames
  <2>2. ~Pops(t)
    BY <1>2, <2>1 DEF Pops
  <2>3. \A v \in Threads : \A d \in 1..depth[v] : d \in 1..depth'[v]
    BY <1>2, <2>1
  <2> QED
    BY <1>4, <2>1, <2>2, <2>3 DEF Local, IsTop
<1>5. CASE Pops(t)
  BY <1>1, <1>5, PopFrames DEF Local
<1> QED
  BY <1>1, <1>3, <1>4, <1>5 DEF StackMove

LEMMA StartLocal ==
  ASSUME Stacks, Stacks', NEW t \in Threads, NEW x, Starts(t, x)
  PROVE  Local(t)
<1>1. /\ \A v \in Threads : \A d \in 1..depth[v] :
           v # t /\ d \in 1..depth'[v] /\ frame'[v][d] = frame[v][d]
      /\ \A v \in Threads : \A d \in 1..depth'[v] :
           d \in 1..depth[v] \/ (v = t /\ d = 1)
  BY StartFrames
<1>2. depth[t] = 0
  BY DEF Starts
<1> QED
  BY <1>1, <1>2 DEF Local, IsTop

\* Which steps count.
LEMMA FlatCounts ==
  ASSUME NEW t \in Threads, NEW f \in Futures, FlatStep(t, f)
  PROVE  /\ DecideF(t, f) \/ (jobs' = jobs /\ queue' = queue)
         /\ CallF(t, f) \/ called' = called
<1>1. CASE DecideF(t, f)
  BY <1>1 DEF DecideF
<1>2. CASE CallF(t, f)
  BY <1>2 DEF CallF
<1>3. CASE PassF(t, f) \/ CancelOwnF(t, f) \/ (f = 0 /\ AbandonF(t)) \/ FinishF(t, f)
           \/ RunsF(t, f) \/ CleanF(t, f) \/ SetRunF(t, f) \/ SetStoreF(t, f) \/ SetBackF(t, f)
           \/ RunF(t, f) \/ RunNotF(t, f) \/ RunBackF(t, f)
           \/ ChainF(t, f) \/ ChainCancelF(t, f) \/ ClientF(t, f)
  BY <1>3 DEF PassF, CancelOwnF, AbandonF, FinishF, RunsF, CleanF, SetRunF, SetStoreF, SetBackF,
              RunF, RunNotF, RunBackF, ChainF, ChainCancelF, ClientF, history
<1>4. CASE CancelNotF(t, f) \/ CancelF(t, f) \/ LinksF(t, f) \/ WalkF(t, f)
  BY <1>4 DEF CancelNotF, CancelF, LinksF, WalkF
<1> QED
  BY <1>1, <1>2, <1>3, <1>4 DEF FlatStep

\* Which steps mark a continuation as executed.
LEMMA FlatMarks ==
  ASSUME NEW t \in Threads, NEW f \in Futures, FlatStep(t, f)
  PROVE  /\ Begins(t, f) => /\ f + 1 \in Futures /\ link'[f].executed
                            /\ \A g \in Futures \ {f} : link'[g].executed = link[g].executed
         /\ ~Begins(t, f) => \A g \in Futures : link'[g].executed = link[g].executed
<1>1. CASE SetRunF(t, f)
  BY <1>1 DEF SetRunF, Begins, LinkElse
<1>2. CASE RunF(t, f)
  BY <1>2 DEF RunF, Begins, LinkElse, Kept
<1>3. CASE SetStoreF(t, f) \/ SetBackF(t, f)
  <2>1. \A g \in Futures : link'[g].executed = link[g].executed
    BY <1>3, StoresGrow DEF SetStoreF, SetBackF
  <2>2. ~Begins(t, f)
    BY <1>3 DEF Begins, SetStoreF, SetBackF, SetRunF, RunF, Now
  <2> QED
    BY <2>1, <2>2
<1>4. CASE CleanF(t, f) \/ RunBackF(t, f) \/ WalkF(t, f)
  <2>1. \A g \in Futures : link'[g].executed = link[g].executed
    BY <1>4 DEF CleanF, RunBackF, WalkF, LinkElse, Kept
  <2>2. ~Begins(t, f)
    BY <1>4 DEF Begins, CleanF, RunBackF, WalkF, SetRunF, RunF, Now
  <2> QED
    BY <2>1, <2>2
<1>5. CASE /\ ~(SetRunF(t, f) \/ RunF(t, f) \/ SetStoreF(t, f) \/ SetBackF(t, f) \/ CleanF(t, f))
           /\ ~(RunBackF(t, f) \/ WalkF(t, f))
  <2>1. link' = link
    BY <1>5 DEF FlatStep, DecideF, CallF, PassF, CancelOwnF, AbandonF, FinishF, RunsF, RunNotF,
                CancelNotF, CancelF, LinksF, ChainF, ChainCancelF, ClientF
  <2> QED
    BY <1>5, <2>1 DEF Begins
<1> QED
  BY <1>1, <1>2, <1>3, <1>4, <1>5

LEMMA BeginsFresh ==
  ASSUME IInv, NEW t \in Threads, NEW f \in Futures, Begins(t, f)
  PROVE  /\ ~link[f].executed /\ f + 1 \in Futures /\ link'[f].executed
         /\ jobs[f + 1] = 0 /\ called[f + 1] = 0 /\ ~future[f + 1].finished
         /\ ~Begun(f + 1) /\ f + 1 \notin queue
         /\ \E y : Pushes(t, Frame("job", f + 1, "check"), y) /\ GoesOn(TopOf(t), y)
         /\ UNCHANGED <<fixed, future, queue, built, history>>
<1>1. ~link[f].executed
  BY SetNotMarked DEF Begins, SetRunF, RunF
<1>2. /\ f + 1 \in Futures /\ link'[f].executed
      /\ UNCHANGED <<fixed, future, queue, built, history>>
  BY DEF Begins, SetRunF, RunF
<1>3. \E pc : Pushes(t, Frame("job", f + 1, "check"), With(TopOf(t), pc))
  BY DEF Begins, SetRunF, RunF
<1>4. ASSUME NEW pc PROVE GoesOn(TopOf(t), With(TopOf(t), pc))
  BY DEF GoesOn, With
<1>5. \E y : Pushes(t, Frame("job", f + 1, "check"), y) /\ GoesOn(TopOf(t), y)
  BY <1>3, <1>4
<1>6. /\ jobs[f + 1] = 0 /\ called[f + 1] = 0 /\ ~future[f + 1].finished
      /\ ~Begun(f + 1) /\ f + 1 \notin queue
  BY <1>1, <1>2, NotBegun
<1> QED
  BY <1>1, <1>2, <1>5, <1>6

\* The jobs of the next state are those there were, and the one that begins.
LEMMA FlatJobs ==
  ASSUME IInv, Stacks', NEW t \in Threads, NEW f \in Futures, FlatStep(t, f),
         NEW v \in Threads, NEW e \in 1..depth'[v], NEW g,
         frame'[v][e].op = "job", frame'[v][e].f = g
  PROVE  \/ Has(v, e, "job", g) /\ ~(IsTop(t, v, e) /\ Pops(t))
         \/ Begins(t, f) /\ v = t /\ e = depth[t] + 1 /\ g = f + 1
<1>0. Stacks /\ depth[t] \in Nat
  BY FramesType DEF IInv
<1>1. Local(t) /\ depth[t] > 0 /\ StackMove(t, f)
  BY <1>0, FlatLocal, FlatMoves
<1>2. CASE e \in 1..depth[v] /\ ~IsTop(t, v, e)
  BY <1>1, <1>2 DEF Local, Has
<1>3. CASE v = t /\ e = depth[t] /\ ~Pops(t)
  <2>1. PICK x : frame'[t][depth[t]] = x /\ (GoesOn(TopOf(t), x) \/ x.op \in {"cancel", "cancelChain"})
    BY <1>1, <1>3 DEF StackMove, Replaces, Pushes
  <2>2. GoesOn(TopOf(t), x)
    BY <1>3, <2>1
  <2>3. e \in 1..depth[v] /\ frame[v][e] = TopOf(t)
    BY <1>0, <1>1, <1>3 DEF TopOf
  <2> QED
    BY <1>3, <2>1, <2>2, <2>3 DEF Has, GoesOn
<1>4. CASE v = t /\ e = depth[t] + 1 /\ \E x, y : Pushes(t, x, y)
  <2>1. ~Pops(t) /\ \A x : ~Replaces(t, x)
    BY <1>0, <1>4 DEF Pushes, Pops, Replaces
  <2>2. PICK x, y : /\ Pushes(t, x, y)
                    /\ x.op = "job" => x.f = f + 1 /\ x.pc = "check" /\ Begins(t, f)
    BY <1>1, <2>1 DEF StackMove
  <2>3. frame'[v][e] = x
    BY <1>4, <2>2 DEF Pushes
  <2> QED
    BY <1>4, <2>2, <2>3
<1> QED
  BY <1>1, <1>2, <1>3, <1>4 DEF Local

LEMMA FlatBegun ==
  ASSUME IInv, Stacks', NEW t \in Threads, NEW f \in Futures, FlatStep(t, f),
         NEW g \in 1..Last, Begun(g)'
  PROVE  Begun(g) \/ (Begins(t, f) /\ g = f + 1)
<1>0. /\ jobs \in [Futures -> Nat] /\ g \in Futures /\ Stacks /\ Shape
  BY ChainAssumption DEF IInv, States, Futures
<1>1. CASE \E v \in Threads : \E d \in 1..depth'[v] : Has(v, d, "job", g)'
  <2>1. PICK v \in Threads : \E d \in 1..depth'[v] : Has(v, d, "job", g)'
    BY <1>1
  <2>2. PICK d \in 1..depth'[v] : Has(v, d, "job", g)'
    BY <2>1
  <2>3. frame'[v][d].op = "job" /\ frame'[v][d].f = g
    BY <2>2 DEF Has
  <2>4. \/ Has(v, d, "job", g)
        \/ Begins(t, f) /\ g = f + 1
    BY <2>3, FlatJobs
  <2> QED
    BY <2>4 DEF Begun, Has
<1>2. CASE DecideF(t, f) /\ g = f
  <2>1. depth[t] \in 1..depth[t] /\ Has(t, depth[t], "job", f)
    BY <1>0, <1>2, TopPlace DEF DecideF, Now, Has
  <2> QED
    BY <1>2, <2>1 DEF Begun
<1>3. CASE (jobs'[g] > 0 \/ g \in queue') /\ ~(DecideF(t, f) /\ g = f)
  <2>1. (DecideF(t, f) /\ g # f) \/ (jobs' = jobs /\ queue' = queue)
    BY <1>3, FlatCounts
  <2>2. jobs'[g] = jobs[g] /\ (g \in queue' => g \in queue)
    BY <1>0, <2>1 DEF DecideF
  <2> QED
    BY <1>3, <2>2 DEF Begun
<1> QED
  BY <1>1, <1>2, <1>3 DEF Begun

LEMMA FlatDue ==
  ASSUME IInv, Stacks', NEW t \in Threads, NEW f \in Futures, FlatStep(t, f), NEW g, Due(g)
  PROVE  Due(g)' \/ (DecideF(t, f) /\ g = f)
<1>0. Stacks /\ Shape
  BY DEF IInv
<1>1. Local(t) /\ depth[t] > 0
  BY <1>0, FlatLocal, FlatMoves
<1>2. PICK v \in Threads : \E d \in 1..depth[v] : HasAt(v, d, "job", g, "check")
  BY DEF Due
<1>3. PICK d \in 1..depth[v] : HasAt(v, d, "job", g, "check")
  BY <1>2
<1>4. CASE ~IsTop(t, v, d)
  <2>1. d \in 1..depth'[v] /\ frame'[v][d] = frame[v][d]
    BY <1>1, <1>4 DEF Local
  <2>2. HasAt(v, d, "job", g, "check")'
    BY <1>3, <2>1 DEF HasAt, Has
  <2> QED
    BY <2>1, <2>2 DEF Due
<1>5. CASE IsTop(t, v, d)
  <2>1. TopOf(t).op = "job" /\ TopOf(t).f = g /\ TopOf(t).pc = "check"
    BY <1>3, <1>5 DEF HasAt, Has, IsTop, TopOf
  <2>2. DecideF(t, f)
    BY <2>1 DEF FlatStep, DecideF, CallF, PassF, CancelOwnF, AbandonF, FinishF, RunsF, CleanF,
       SetRunF, SetStoreF, SetBackF, RunF, RunNotF, RunBackF, CancelNotF, CancelF, LinksF, WalkF,
       ChainF, ChainCancelF, ClientF, Now
  <2>3. g = f
    BY <2>1, <2>2 DEF DecideF, Now
  <2> QED
    BY <2>2, <2>3
<1> QED
  BY <1>4, <1>5

LEMMA OneJobNext ==
  ASSUME IInv, Stacks', NEW t \in Threads, NEW f \in Futures, FlatStep(t, f)
  PROVE  OneJob'
<1>0. Stacks /\ Shape /\ OneJob /\ \A v \in Threads : depth[v] \in Nat
  BY FramesType DEF IInv, Once
<1>1. ASSUME NEW v \in Threads, NEW d \in 1..depth'[v], NEW w \in Threads, NEW e \in 1..depth'[w],
             frame'[v][d].op = "job", frame'[w][e].op = "job", frame'[v][d].f = frame'[w][e].f
      PROVE  v = w /\ d = e
  <2>1. PICK g : g = frame'[v][d].f
    OBVIOUS
  <2>2. \/ Has(v, d, "job", g)
        \/ Begins(t, f) /\ v = t /\ d = depth[t] + 1 /\ g = f + 1
    BY <1>1, <2>1, FlatJobs
  <2>3. \/ Has(w, e, "job", g)
        \/ Begins(t, f) /\ w = t /\ e = depth[t] + 1 /\ g = f + 1
    BY <1>1, <2>1, FlatJobs
  <2>4. CASE Begins(t, f) /\ g = f + 1
    <3>1. ~Begun(g)
      BY <2>4, BeginsFresh
    <3>2. ~Has(v, d, "job", g) /\ ~Has(w, e, "job", g)
      BY <3>1 DEF Begun, Has
    <3> QED
      BY <2>2, <2>3, <3>2
  <2>5. CASE ~(Begins(t, f) /\ g = f + 1)
    <3>1. Has(v, d, "job", g) /\ Has(w, e, "job", g)
      BY <2>2, <2>3, <2>5
    <3> QED
      BY <1>0, <3>1 DEF OneJob, Has
  <2> QED
    BY <2>4, <2>5
<1>2. ASSUME NEW v \in Threads, NEW d \in 1..depth'[v], frame'[v][d].op = "job"
      PROVE  frame'[v][d].f \notin queue'
  <2>1. PICK g : g = frame'[v][d].f
    OBVIOUS
  <2>2. \/ Has(v, d, "job", g) /\ ~(IsTop(t, v, d) /\ Pops(t))
        \/ Begins(t, f) /\ v = t /\ d = depth[t] + 1 /\ g = f + 1
    BY <1>2, <2>1, FlatJobs
  <2>3. CASE Begins(t, f) /\ g = f + 1
    <3>1. g \notin queue /\ queue' = queue
      BY <2>3, BeginsFresh
    <3> QED
      BY <2>1, <3>1
  <2>4. CASE Has(v, d, "job", g) /\ ~(IsTop(t, v, d) /\ Pops(t))
    <3>1. g \notin queue
      BY <1>0, <2>4 DEF OneJob, Has
    <3>2. CASE queue' = queue
      BY <2>1, <3>1, <3>2
    <3>3. CASE DecideF(t, f) /\ queue' # queue
      <4>1. queue' = queue \cup {f} /\ Pops(t)
        BY <3>3 DEF DecideF
      <4>2. depth[t] \in 1..depth[t] /\ Has(t, depth[t], "job", f)
        BY <1>0, <3>3, TopPlace DEF DecideF, Now, Has
      <4>3. ASSUME g = f PROVE FALSE
        <5>1. v = t /\ d = depth[t]
          BY <1>0, <2>4, <4>2, <4>3 DEF OneJob, Has
        <5> QED
          BY <2>4, <4>1, <5>1 DEF IsTop
      <4> QED
        BY <2>1, <3>1, <4>1, <4>3
    <3> QED
      BY <3>2, <3>3, FlatCounts
  <2> QED
    BY <2>2, <2>3, <2>4
<1> QED
  BY <1>1, <1>2 DEF OneJob

LEMMA ExecutedNext ==
  ASSUME IInv, Stacks', NEW t \in Threads, NEW f \in Futures, FlatStep(t, f)
  PROVE  Executed'
<1>0. /\ Stacks /\ Shape /\ Executed /\ jobs \in [Futures -> Nat]
      /\ \A g \in 1..Last : g \in Futures /\ g - 1 \in Futures
      /\ \A g \in Futures : f + 1 \in 1..Last => (f + 1) - 1 = f
  BY ChainAssumption DEF IInv, Once, States, Futures
<1>1. ASSUME NEW g \in 1..Last, Begun(g)' PROVE link'[g - 1].executed
  <2>1. CASE Begun(g)
    <3>1. link[g - 1].executed
      BY <1>0, <2>1 DEF Executed
    <3>2. Grows
      BY FlatGrows
    <3> QED
      BY <1>0, <3>1, <3>2 DEF Grows
  <2>2. CASE Begins(t, f) /\ g = f + 1
    <3>1. g - 1 = f
      BY <1>0, <2>2
    <3> QED
      BY <2>2, <3>1, BeginsFresh
  <2> QED
    BY <1>1, <2>1, <2>2, FlatBegun
<1>2. ASSUME NEW g \in 1..Last, link'[g - 1].executed PROVE jobs'[g] = 1 \/ Due(g)'
  <2>1. CASE link[g - 1].executed
    <3>1. CASE Due(g)
      <4>1. CASE DecideF(t, f) /\ g = f
        <5>1. jobs[f] = 0
          <6>1. Now(t, "job", f, "check")
            BY <4>1 DEF DecideF
          <6>2. CallOk(TopOf(t), TRUE) /\ TopOf(t).op = "job" /\ TopOf(t).f = f /\ TopOf(t).pc = "check"
            BY <6>1, TopOk
          <6> QED
            BY <6>2 DEF CallOk, JobOk
        <5> QED
          BY <1>0, <4>1, <5>1 DEF DecideF
      <4> QED
        BY <3>1, <4>1, FlatDue
    <3>2. CASE jobs[g] = 1 /\ ~Due(g)
      <4>1. ~(DecideF(t, f) /\ g = f)
        <5>1. ASSUME DecideF(t, f) /\ g = f PROVE Due(g)
          <6>1. depth[t] \in 1..depth[t] /\ HasAt(t, depth[t], "job", f, "check")
            BY <1>0, <5>1, TopPlace DEF DecideF, Now, Has, HasAt
          <6> QED
            BY <5>1, <6>1 DEF Due
        <5> QED
          BY <3>2, <5>1
      <4>2. jobs'[g] = jobs[g]
        BY <1>0, <4>1, FlatCounts DEF DecideF
      <4> QED
        BY <3>2, <4>2
    <3> QED
      BY <1>0, <2>1, <3>1, <3>2 DEF Executed
  <2>2. CASE ~link[g - 1].executed
    <3>1. Begins(t, f) /\ g - 1 = f
      BY <1>0, <1>2, <2>2, FlatMarks
    <3>2. g = f + 1
      BY <3>1, ChainAssumption DEF Futures
    <3>3. PICK y : Pushes(t, Frame("job", f + 1, "check"), y)
      BY <3>1, BeginsFresh
    <3>4. PICK x : x = Frame("job", f + 1, "check")
      OBVIOUS
    <3>5. x.op = "job" /\ x.f = f + 1 /\ x.pc = "check"
      BY <3>4 DEF Frame
    <3>6. PICK n : n = depth[t] + 1
      OBVIOUS
    <3>7. n \in 1..depth'[t] /\ frame'[t][n] = x
      BY <1>0, <3>3, <3>4, <3>6, FramesType DEF Pushes
    <3>8. HasAt(t, n, "job", g, "check")'
      BY <3>2, <3>5, <3>7 DEF HasAt, Has
    <3> QED
      BY <3>7, <3>8 DEF Due
  <2> QED
    BY <2>1, <2>2
<1> QED
  BY <1>1, <1>2 DEF Executed

LEMMA JobCountsNext ==
  ASSUME IInv, Stacks', NEW t \in Threads, NEW f \in Futures, FlatStep(t, f)
  PROVE  JobCounts'
<1>0. /\ JobCounts /\ OneJob /\ Stacks /\ Shape /\ 0 \in Futures /\ 1..Last \subseteq Futures
      /\ jobs \in [Futures -> Nat] /\ called \in [Futures -> Nat] /\ f \in 1..Last \cup {0}
  BY ChainAssumption DEF IInv, Once, States, Futures
<1>1. ASSUME NEW pc, Now(t, "job", f, pc)
      PROVE  /\ pc = "check" => jobs[f] = 0
             /\ pc = "call" => called[f] = 0 /\ (f > 0 => jobs[f] = 1)
             /\ pc \in Early => called[f] = 0
             /\ f \notin queue
  <2>1. CallOk(TopOf(t), TRUE) /\ TopOf(t).op = "job" /\ TopOf(t).f = f /\ TopOf(t).pc = pc
    BY <1>1, TopOk
  <2>2. JobOk(TopOf(t), TRUE)
    BY <2>1 DEF CallOk
  <2>3. depth[t] \in 1..depth[t] /\ frame[t][depth[t]] = TopOf(t)
    BY <1>0, <1>1, TopPlace
  <2>4. f \notin queue
    BY <1>0, <2>1, <2>3 DEF OneJob
  <2> QED
    BY <2>1, <2>2, <2>4 DEF JobOk
<1>2. CASE DecideF(t, f)
  <2>1. /\ f > 0 /\ jobs' = [jobs EXCEPT ![f] = @ + 1] /\ called' = called
        /\ queue' \subseteq queue \cup {f} /\ jobs[f] = 0 /\ called[f] = 0
    BY <1>1, <1>2 DEF DecideF
  <2>2. jobs'[f] = 1 /\ \A g \in Futures \ {f} : jobs'[g] = jobs[g]
    BY <1>0, <2>1
  <2> QED
    BY <1>0, <2>1, <2>2 DEF JobCounts
<1>3. CASE CallF(t, f)
  <2>1. /\ called[f] = 0 /\ (f > 0 => jobs[f] = 1) /\ f \notin queue
        /\ called' = [called EXCEPT ![f] = @ + 1]
    BY <1>1, <1>3 DEF CallF
  <2>2. jobs' = jobs /\ queue' = queue
    BY <1>3 DEF CallF
  <2>3. called'[f] = 1 /\ \A g \in Futures \ {f} : called'[g] = called[g]
    BY <1>0, <2>1
  <2> QED
    BY <1>0, <2>1, <2>2, <2>3 DEF JobCounts
<1>4. CASE jobs' = jobs /\ queue' = queue /\ called' = called
  BY <1>0, <1>4 DEF JobCounts
<1> QED
  BY <1>2, <1>3, <1>4, FlatCounts

\* What the builder is doing.
LEMMA BuilderStays ==
  ASSUME IInv, Stacks', NEW t \in Threads, NEW f \in Futures, FlatStep(t, f),
         ~(SetRunF(t, f) \/ SetStoreF(t, f) \/ SetBackF(t, f)), NEW g
  PROVE  HasAt(Builder, 1, "set", g, "store")' <=> HasAt(Builder, 1, "set", g, "store")
<1>0. Stacks /\ Shape /\ Builder \in Threads /\ depth[t] \in Nat
  BY FramesType DEF IInv, Threads
<1>1. Local(t) /\ depth[t] > 0
  BY <1>0, FlatLocal, FlatMoves
<1>2. ~IsTop(t, Builder, 1)
  <2>1. ASSUME IsTop(t, Builder, 1) PROVE FALSE
    <3>1. t = Builder /\ depth[t] = 1 /\ TopOf(t) = frame[Builder][1]
      BY <2>1 DEF IsTop, TopOf
    <3>2. TopOf(t).op = "set"
      BY <1>0, <3>1 DEF Shape, Outermost
    <3> QED
      BY <3>2 DEF FlatStep, DecideF, CallF, PassF, CancelOwnF, AbandonF, FinishF, RunsF, CleanF,
        RunF, RunNotF, RunBackF, CancelNotF, CancelF, LinksF, WalkF,
        ChainF, ChainCancelF, ClientF, Now
  <2> QED
    BY <2>1
<1>3. ASSUME 1 \in 1..depth[Builder]
      PROVE  1 \in 1..depth'[Builder] /\ frame'[Builder][1] = frame[Builder][1]
  BY <1>0, <1>1, <1>2, <1>3 DEF Local
<1>4. ASSUME 1 \in 1..depth'[Builder] PROVE 1 \in 1..depth[Builder]
  BY <1>0, <1>1, <1>2, <1>4 DEF Local, IsTop
<1> QED
  BY <1>3, <1>4 DEF HasAt, Has

\* What the other steps do to the links leaves those behind the chain as they are.
LinksKeep(g) ==
  /\ link'[g].stored => link[g].stored
  /\ link'[g].data => link[g].data
  /\ link'[g].executed = link[g].executed

LEMMA AttachedKeeps ==
  ASSUME IInv, Stacks', NEW t \in Threads, NEW f \in Futures, FlatStep(t, f),
         ~(SetRunF(t, f) \/ SetStoreF(t, f) \/ SetBackF(t, f)), built' = built,
         \A g \in Futures : /\ g \in built..Last => LinksKeep(g)
                            /\ link'[g].data /\ ~link'[g].executed => link'[g].stored
                            /\ link'[g].parent => g > 0
  PROVE  Attached'
<1>0. Attached /\ \A g \in built..Last : g \in Futures
  BY ChainAssumption DEF IInv, Once, States, Futures
<1>1. ASSUME NEW g \in built..Last
      PROVE  /\ ~link'[g].stored /\ ~link'[g].data
             /\ link'[g].executed <=> HasAt(Builder, 1, "set", g, "store")'
  <2>1. HasAt(Builder, 1, "set", g, "store")' <=> HasAt(Builder, 1, "set", g, "store")
    BY BuilderStays
  <2>2. LinksKeep(g)
    BY <1>0
  <2> QED
    BY <1>0, <2>1, <2>2 DEF Attached, LinksKeep
<1>2. \A g \in Futures : /\ link'[g].data /\ ~link'[g].executed => link'[g].stored
                         /\ link'[g].parent => g > 0
  BY <1>0 DEF Attached
<1> QED
  BY <1>1, <1>2 DEF Attached

LEMMA AttachedNext ==
  ASSUME IInv, States', Stacks', NEW t \in Threads, NEW f \in Futures, FlatStep(t, f)
  PROVE  Attached'
<1>0. /\ Attached /\ States /\ Last \in Nat \ {0} /\ Futures = 0..Last /\ built \in 0..Last
      /\ Stacks /\ \A v \in Threads : depth[v] \in Nat
  BY ChainAssumption, FramesType DEF IInv, Once, States, Futures
<1>a. \A g \in Futures : /\ link[g].data /\ ~link[g].executed => link[g].stored
                         /\ link[g].parent => g > 0
  BY <1>0 DEF Attached
<1>b. link \in [Futures -> LinkSet] /\ link' \in [Futures -> LinkSet]
  BY <1>0 DEF States, LinkSet
<1>1. CASE link' = link /\ built' = built /\ ~SetRunF(t, f) /\ ~SetStoreF(t, f) /\ ~SetBackF(t, f)
  <2>1. \A g \in Futures : LinksKeep(g)
    BY <1>1 DEF LinksKeep
  <2> QED
    BY <1>1, <1>a, <2>1, AttachedKeeps
<1>2. CASE CleanF(t, f) /\ link' # link
  <2>1. /\ built' = built /\ ~SetRunF(t, f) /\ ~SetStoreF(t, f) /\ ~SetBackF(t, f)
    BY <1>2 DEF CleanF, SetRunF, SetStoreF, SetBackF, Now
  <2>2. \A g \in Futures : /\ LinksKeep(g)
                           /\ link'[g].data /\ ~link'[g].executed => link'[g].stored
                           /\ link'[g].parent => g > 0
    BY <1>2, <1>a DEF CleanF, LinkElse, LinksKeep
  <2> QED
    BY <2>1, <2>2, AttachedKeeps
<1>3. CASE WalkF(t, f) /\ link' # link
  <2>1. /\ built' = built /\ ~SetRunF(t, f) /\ ~SetStoreF(t, f) /\ ~SetBackF(t, f)
    BY <1>3 DEF WalkF, SetRunF, SetStoreF, SetBackF, Now
  <2>2. \A g \in Futures : /\ LinksKeep(g)
                           /\ link'[g].data /\ ~link'[g].executed => link'[g].stored
                           /\ link'[g].parent => g > 0
    BY <1>3, <1>a DEF WalkF, LinkElse, LinksKeep
  <2> QED
    BY <2>1, <2>2, AttachedKeeps
<1>4. CASE RunBackF(t, f) /\ link' # link
  <2>1. /\ built' = built /\ ~SetRunF(t, f) /\ ~SetStoreF(t, f) /\ ~SetBackF(t, f)
        /\ Now(t, "run", f, "leave")
    BY <1>4 DEF RunBackF, SetRunF, SetStoreF, SetBackF, Now
  <2>2. link[f].executed /\ f < built
    BY <2>1, TopOk DEF CallOk
  <2>3. \A g \in Futures : /\ g # f => LinksKeep(g)
                           /\ link'[g].data /\ ~link'[g].executed => link'[g].stored
                           /\ link'[g].parent => g > 0
    BY <1>4, <1>a DEF RunBackF, LinkElse, LinksKeep
  <2>4. \A g \in built..Last : g # f
    BY <1>0, <2>2
  <2> QED
    BY <2>1, <2>3, <2>4, AttachedKeeps
<1>5. CASE RunF(t, f)
  <2>1. /\ built' = built /\ ~SetRunF(t, f) /\ ~SetStoreF(t, f) /\ ~SetBackF(t, f)
        /\ link[f].stored /\ f + 1 \in Futures
    BY <1>5 DEF RunF, SetRunF, SetStoreF, SetBackF, Now
  <2>2. f \notin built..Last
    BY <1>0, <2>1 DEF Attached
  <2>3. f + 1 > 0 /\ f + 1 # f
    BY <1>0
  <2>4. \A g \in Futures : /\ g # f => LinksKeep(g)
                           /\ g \notin {f, f + 1} => link'[g] = link[g]
    BY <1>5, <2>3 DEF RunF, LinkElse, LinksKeep, Kept
  <2>5. /\ link'[f].executed /\ link'[f].parent = link[f].parent
        /\ link'[f + 1].executed = link[f + 1].executed
        /\ link'[f + 1].data = link[f + 1].data /\ link'[f + 1].stored = link[f + 1].stored
    BY <1>5 DEF RunF, Kept
  <2>6. \A g \in Futures : /\ link'[g].data /\ ~link'[g].executed => link'[g].stored
                           /\ link'[g].parent => g > 0
    BY <1>a, <2>1, <2>3, <2>4, <2>5
  <2>7. \A g \in built..Last : g # f
    BY <2>2
  <2> QED
    BY <2>1, <2>4, <2>6, <2>7, AttachedKeeps
<1>6. CASE SetRunF(t, f)
  <2>1. /\ t = Builder /\ depth[t] = 1 /\ f = built
    <3>1. Now(t, "set", f, "enter")
      BY <1>6 DEF SetRunF
    <3> QED
      BY <3>1, TopOk
  <2>2. /\ LinkElse({f}) /\ link'[f].executed /\ link'[f].stored = link[f].stored
        /\ link'[f].data = link[f].data /\ link'[f].parent = link[f].parent
        /\ built' = built /\ TopOf(t).op = "set" /\ TopOf(t).f = f
        /\ Pushes(t, Frame("job", f + 1, "check"), With(TopOf(t), "store"))
    BY <1>6 DEF SetRunF, Now
  <2>3. 1 \in 1..depth'[Builder] /\ frame'[Builder][1] = With(TopOf(t), "store")
    BY <2>1, <2>2 DEF Pushes
  <2>4. PICK x : x = With(TopOf(t), "store") /\ x.op = "set" /\ x.f = f /\ x.pc = "store"
    BY <2>2 DEF With
  <2>5. \A g : HasAt(Builder, 1, "set", g, "store")' <=> g = f
    BY <2>3, <2>4 DEF HasAt, Has
  <2>6. \A g : g # f => ~HasAt(Builder, 1, "set", g, "store")
    BY <2>1, <2>2 DEF HasAt, Has, TopOf
  <2>7. ASSUME NEW g \in built..Last
        PROVE  /\ ~link'[g].stored /\ ~link'[g].data
               /\ link'[g].executed <=> HasAt(Builder, 1, "set", g, "store")'
    <3>1. /\ ~link[g].stored /\ ~link[g].data /\ g \in Futures
          /\ link[g].executed <=> HasAt(Builder, 1, "set", g, "store")
      BY <1>0 DEF Attached
    <3>2. CASE g = f
      BY <2>2, <2>5, <3>1, <3>2
    <3>3. CASE g # f
      <4>1. link'[g] = link[g]
        BY <2>2, <3>1, <3>3 DEF LinkElse
      <4> QED
        BY <2>5, <2>6, <3>1, <3>3, <4>1
    <3> QED
      BY <3>2, <3>3
  <2>8. \A g \in Futures : /\ link'[g].data /\ ~link'[g].executed => link'[g].stored
                           /\ link'[g].parent => g > 0
    BY <1>a, <2>2 DEF LinkElse
  <2> QED
    BY <2>2, <2>7, <2>8 DEF Attached
<1>7. CASE SetStoreF(t, f) \/ SetBackF(t, f)
  <2>1. /\ t = Builder /\ depth[t] = 1 /\ f = built /\ TopOf(t).op = "set" /\ TopOf(t).f = f
    <3>1. PICK pc : Now(t, "set", f, pc)
      BY <1>7 DEF SetStoreF, SetBackF
    <3>2. "set" = "set" => t = Builder /\ depth[t] = 1 /\ f = built
      BY <3>1, TopOk
    <3> QED
      BY <3>1, <3>2 DEF Now
  <2>2. /\ link' = link \/ Stores(f)
        /\ built' = built + 1 /\ Pops(t)
    BY <1>7 DEF SetStoreF, SetBackF
  <2>3. \A g : ~HasAt(Builder, 1, "set", g, "store")'
    BY <2>1, <2>2 DEF HasAt, Has, Pops
  <2>4. \A g : g # f => ~HasAt(Builder, 1, "set", g, "store")
    BY <2>1, <2>2 DEF HasAt, Has, TopOf
  <2>5. \A g \in Futures : g # f => LinksKeep(g)
    <3>1. CASE link' = link
      BY <3>1 DEF LinksKeep
    <3>2. CASE Stores(f)
      BY <3>2 DEF Stores, LinkElse, Kept, LinksKeep
    <3> QED
      BY <2>2, <3>1, <3>2
  <2>6. \A g \in built'..Last : g \in built..Last /\ g # f
    BY <1>0, <2>1, <2>2
  <2>7. ASSUME NEW g \in built'..Last
        PROVE  /\ ~link'[g].stored /\ ~link'[g].data
               /\ link'[g].executed <=> HasAt(Builder, 1, "set", g, "store")'
    <3>1. /\ ~link[g].stored /\ ~link[g].data /\ g \in Futures
          /\ link[g].executed <=> HasAt(Builder, 1, "set", g, "store")
      BY <1>0, <2>6 DEF Attached
    <3>2. LinksKeep(g) /\ ~HasAt(Builder, 1, "set", g, "store") /\ ~HasAt(Builder, 1, "set", g, "store")'
      BY <2>3, <2>4, <2>5, <2>6, <3>1
    <3> QED
      BY <3>1, <3>2 DEF LinksKeep
  <2>8. \A g \in Futures : /\ link'[g].data /\ ~link'[g].executed => link'[g].stored
                           /\ link'[g].parent => g > 0
    <3>1. CASE link' = link
      BY <1>a, <3>1
    <3>2. CASE Stores(f)
      <4>1. f + 1 > 0 /\ f + 1 # f
        BY <1>0
      <4> QED
        BY <1>a, <3>2, <4>1 DEF Stores, LinkElse, Kept
    <3> QED
      BY <2>2, <3>1, <3>2
  <2> QED
    BY <2>7, <2>8 DEF Attached
<1> QED
  <2>1. CASE /\ ~(SetRunF(t, f) \/ RunF(t, f) \/ SetStoreF(t, f) \/ SetBackF(t, f))
             /\ ~(CleanF(t, f) \/ RunBackF(t, f) \/ WalkF(t, f))
    <3>1. link' = link /\ built' = built
      BY <2>1 DEF FlatStep, DecideF, CallF, PassF, CancelOwnF, AbandonF, FinishF, RunsF, RunNotF,
                  CancelNotF, CancelF, LinksF, ChainF, ChainCancelF, ClientF
    <3> QED
      BY <1>1, <2>1, <3>1
  <2>2. CASE (CleanF(t, f) \/ RunBackF(t, f) \/ WalkF(t, f)) /\ link' = link
    <3>1. built' = built /\ ~SetRunF(t, f) /\ ~SetStoreF(t, f) /\ ~SetBackF(t, f)
      BY <2>2 DEF CleanF, RunBackF, WalkF, SetRunF, SetStoreF, SetBackF, Now
    <3> QED
      BY <1>1, <2>2, <3>1
  <2> QED
    BY <1>2, <1>3, <1>4, <1>5, <1>6, <1>7, <2>1, <2>2

\* A continuation that is to come is, until it was looked for.
LEMMA FlatComes ==
  ASSUME IInv, Stacks', NEW t \in Threads, NEW f \in Futures, FlatStep(t, f), NEW g, Comes(g)
  PROVE  Comes(g)' \/ (g = f /\ (RunF(t, f) \/ RunNotF(t, f)))
<1>0. Stacks /\ Shape /\ depth[t] \in Nat
  BY FramesType DEF IInv
<1>1. Local(t) /\ depth[t] > 0
  BY <1>0, FlatLocal, FlatMoves
<1>2. PICK v \in Threads : \E d \in 1..depth[v] :
        HasAt(v, d, "job", g, "destroyed") \/ HasAt(v, d, "run", g, "enter")
  BY DEF Comes
<1>3. PICK d \in 1..depth[v] :
        HasAt(v, d, "job", g, "destroyed") \/ HasAt(v, d, "run", g, "enter")
  BY <1>2
<1>4. CASE ~IsTop(t, v, d)
  <2>1. d \in 1..depth'[v] /\ frame'[v][d] = frame[v][d]
    BY <1>1, <1>4 DEF Local
  <2>2. HasAt(v, d, "job", g, "destroyed")' \/ HasAt(v, d, "run", g, "enter")'
    BY <1>3, <2>1 DEF HasAt, Has
  <2> QED
    BY <2>1, <2>2 DEF Comes
<1>5. CASE IsTop(t, v, d) /\ HasAt(v, d, "job", g, "destroyed")
  <2>1. TopOf(t).op = "job" /\ TopOf(t).f = g /\ TopOf(t).pc = "destroyed"
    BY <1>5 DEF HasAt, Has, IsTop, TopOf
  <2>2. RunsF(t, f)
    BY <2>1 DEF FlatStep, DecideF, CallF, PassF, CancelOwnF, AbandonF, FinishF, RunsF, CleanF,
       SetRunF, SetStoreF, SetBackF, RunF, RunNotF, RunBackF, CancelNotF, CancelF, LinksF, WalkF,
       ChainF, ChainCancelF, ClientF, Now
  <2>3. g = f /\ Pushes(t, Frame("run", f, "enter"), With(TopOf(t), "clean"))
    BY <2>1, <2>2 DEF RunsF, Now
  <2>4. PICK x : x = Frame("run", f, "enter") /\ x.op = "run" /\ x.f = f /\ x.pc = "enter"
    <3>1. "run" \in Ops /\ "enter" \in AllPcs
      OBVIOUS
    <3> QED
      BY <3>1, FirstFrames
  <2>5. PICK n : n = depth[t] + 1
    OBVIOUS
  <2>6. n \in 1..depth'[t] /\ frame'[t][n] = x
    BY <1>0, <2>3, <2>4, <2>5 DEF Pushes
  <2>7. HasAt(t, n, "run", g, "enter")'
    BY <2>3, <2>4, <2>6 DEF HasAt, Has
  <2> QED
    BY <2>6, <2>7 DEF Comes
<1>6. CASE IsTop(t, v, d) /\ HasAt(v, d, "run", g, "enter")
  <2>1. TopOf(t).op = "run" /\ TopOf(t).f = g /\ TopOf(t).pc = "enter"
    BY <1>6 DEF HasAt, Has, IsTop, TopOf
  <2>2. RunF(t, f) \/ RunNotF(t, f)
    BY <2>1 DEF FlatStep, DecideF, CallF, PassF, CancelOwnF, AbandonF, FinishF, RunsF, CleanF,
       SetRunF, SetStoreF, SetBackF, RunF, RunNotF, RunBackF, CancelNotF, CancelF, LinksF, WalkF,
       ChainF, ChainCancelF, ClientF, Now
  <2>3. g = f
    BY <2>1, <2>2 DEF RunF, RunNotF, Now
  <2> QED
    BY <2>2, <2>3
<1> QED
  BY <1>3, <1>4, <1>5, <1>6

\* Who stores a continuation that is not executed, and who finishes a future.
LEMMA FlatStores ==
  ASSUME IInv, States', NEW t \in Threads, NEW f \in Futures, FlatStep(t, f),
         NEW g \in Futures, link'[g].stored, ~link[g].stored
  PROVE  link[g].executed \/ (~future[g].finished /\ UNCHANGED future)
<1>0. link \in [Futures -> LinkSet] /\ link' \in [Futures -> LinkSet]
  BY DEF IInv, States, LinkSet
<1>1. CASE RunBackF(t, f)
  <2>1. Now(t, "run", f, "leave")
    BY <1>1 DEF RunBackF
  <2>2. link[f].executed
    <3>1. CallOk(TopOf(t), TRUE) /\ TopOf(t).op = "run" /\ TopOf(t).f = f /\ TopOf(t).pc = "leave"
      BY <2>1, TopOk
    <3> QED
      BY <3>1 DEF CallOk
  <2>3. g = f
    BY <1>1 DEF RunBackF, LinkElse
  <2> QED
    BY <2>2, <2>3
<1>2. CASE SetStoreF(t, f) \/ SetBackF(t, f)
  <2>1. g = f
    BY <1>2 DEF SetStoreF, SetBackF, Stores, LinkElse
  <2>2. CASE SetStoreF(t, f)
    BY <2>1, <2>2 DEF SetStoreF
  <2>3. CASE SetBackF(t, f)
    <3>1. Now(t, "set", f, "store")
      BY <2>3 DEF SetBackF
    <3>2. /\ t = Builder /\ depth[t] = 1 /\ f = built /\ TopOf(t).op = "set"
          /\ TopOf(t).f = f /\ TopOf(t).pc = "store"
      <4>1. "set" = "set" => t = Builder /\ depth[t] = 1 /\ f = built
        BY <3>1, TopOk
      <4> QED
        BY <3>1, <4>1 DEF Now
    <3>3. HasAt(Builder, 1, "set", f, "store") /\ f \in built..Last
      BY <3>2, ChainAssumption DEF HasAt, Has, TopOf, IInv, States, Futures
    <3> QED
      BY <2>1, <3>3 DEF IInv, Once, Attached
  <2> QED
    BY <1>2, <2>2, <2>3
<1>3. CASE SetRunF(t, f) \/ RunF(t, f) \/ CleanF(t, f) \/ WalkF(t, f)
  BY <1>3 DEF SetRunF, RunF, CleanF, WalkF, LinkElse
<1>4. CASE /\ ~(SetRunF(t, f) \/ RunF(t, f) \/ SetStoreF(t, f) \/ SetBackF(t, f))
           /\ ~(CleanF(t, f) \/ RunBackF(t, f) \/ WalkF(t, f))
  <2>1. link' = link
    BY <1>4 DEF FlatStep, DecideF, CallF, PassF, CancelOwnF, AbandonF, FinishF, RunsF, RunNotF,
                CancelNotF, CancelF, LinksF, ChainF, ChainCancelF, ClientF
  <2> QED
    BY <2>1
<1> QED
  BY <1>1, <1>2, <1>3, <1>4

LEMMA OnlyFirst ==
  ASSUME IInv, NEW t \in Threads, NEW op, NEW f, NEW pc, Now(t, op, f, pc), op = "cancelAndFinish"
  PROVE  f = 0
<1>1. op = "cancelAndFinish" => f = 0
  BY TopOk
<1> QED
  BY <1>1

Finishes(t, f) == CancelF(t, f) /\ f = 0 /\ Now(t, "cancelAndFinish", 0, "lock")

LEMMA FlatFinishes ==
  ASSUME IInv, NEW t \in Threads, NEW f \in Futures, FlatStep(t, f),
         NEW g \in Futures, future'[g].finished, ~future[g].finished
  PROVE  g = f /\ (FinishF(t, f) \/ Finishes(t, f))
<1>0. future \in [Futures -> OutcomeSet]
  BY DEF IInv, States, OutcomeSet
<1>1. g = f
  <2>1. Only(f)
    BY FlatGrows
  <2> QED
    BY <2>1 DEF Only
<1>2. CASE CancelF(t, f)
  <2>1. PICK op \in Cancels : Now(t, op, f, "lock") /\ Canceled(f, op = "cancelAndFinish")
    BY <1>2 DEF CancelF
  <2>2. CASE op = "cancel"
    <3>1. future'[f].finished = future[f].finished
      BY <1>0, <2>1, <2>2 DEF Canceled, OutcomeSet
    <3> QED
      BY <1>1, <3>1
  <2>3. CASE op = "cancelAndFinish"
    <3>1. f = 0
      <4>1. Now(t, op, f, "lock")
        BY <2>1
      <4> QED
        BY <2>3, <4>1, OnlyFirst
    <3> QED
      BY <1>1, <1>2, <2>1, <2>3, <3>1 DEF Finishes
  <2> QED
    BY <2>2, <2>3
<1>3. CASE CallF(t, f) \/ PassF(t, f)
  BY <1>1, <1>3 DEF CallF, PassF, Reported
<1>4. CASE ChainCancelF(t, f)
  <2> DEFINE o == TopOf(t).other
  <2>1. o \in Futures /\ Canceled(o, FALSE)
    BY <1>4 DEF ChainCancelF
  <2> HIDE DEF o
  <2>2. future'[g].finished = future[g].finished
    BY <1>0, <2>1 DEF Canceled, SameElse, FutureOf, OutcomeSet
  <2> QED
    BY <2>2
<1>5. CASE ~(CancelF(t, f) \/ CallF(t, f) \/ PassF(t, f) \/ ChainCancelF(t, f) \/ FinishF(t, f))
  <2>1. future' = future
    BY <1>5 DEF FlatStep, DecideF, CancelOwnF, AbandonF, RunsF, CleanF, SetRunF, SetStoreF,
                SetBackF, RunF, RunNotF, RunBackF, CancelNotF, LinksF, WalkF, ChainF, ClientF
  <2> QED
    BY <2>1
<1> QED
  BY <1>1, <1>2, <1>3, <1>4, <1>5

LEMMA NoneForgottenNext ==
  ASSUME IInv, States', Stacks', NEW t \in Threads, NEW f \in Futures, FlatStep(t, f)
  PROVE  NoneForgotten'
<1>0. NoneForgotten /\ Stacks /\ Shape /\ depth[t] \in Nat /\ Grows
  BY FlatGrows, FramesType DEF IInv, Once
<1>1. SUFFICES ASSUME NEW g \in Futures, link'[g].stored, ~link'[g].executed, future'[g].finished
               PROVE  Comes(g)'
  BY DEF NoneForgotten
<1>2. ~link[g].executed
  BY <1>0, <1>1 DEF Grows
<1>3. CASE ~link[g].stored
  BY <1>1, <1>2, <1>3, FlatStores
<1>4. CASE link[g].stored /\ future[g].finished
  <2>1. Comes(g)
    BY <1>0, <1>2, <1>4 DEF NoneForgotten
  <2>2. ~(g = f /\ (RunF(t, f) \/ RunNotF(t, f)))
    BY <1>1, <1>2, <1>4 DEF RunF, RunNotF
  <2> QED
    BY <2>1, <2>2, FlatComes
<1>5. CASE ~future[g].finished /\ FinishF(t, f) /\ g = f
  <2>1. Replaces(t, With(TopOf(t), "destroyed")) /\ Now(t, "job", f, "finish")
    BY <1>5 DEF FinishF
  <2>2. PICK x : /\ x = With(TopOf(t), "destroyed") /\ x.op = "job" /\ x.f = f
                 /\ x.pc = "destroyed"
    BY <2>1 DEF With, Now
  <2>3. PICK n : n = depth[t]
    OBVIOUS
  <2>4. n \in 1..depth'[t] /\ frame'[t][n] = x
    BY <1>0, <2>1, <2>2, <2>3 DEF Replaces, Now
  <2>5. HasAt(t, n, "job", g, "destroyed")'
    BY <1>5, <2>2, <2>4 DEF HasAt, Has
  <2> QED
    BY <2>4, <2>5 DEF Comes
<1>6. CASE Finishes(t, f) /\ g = f
  <2>1. Now(t, "cancelAndFinish", 0, "lock") /\ g = 0 /\ CancelF(t, f)
    BY <1>6 DEF Finishes
  <2>2. depth[t] \in 1..depth[t] /\ frame[t][depth[t]] = TopOf(t) /\ TopOf(t).op = "cancelAndFinish"
    BY <1>0, <2>1, TopPlace DEF Now
  <2>3. PICK n : n = depth[t] - 1
    OBVIOUS
  <2>4. n \in 1..depth[t] /\ Calls(frame[t][n], TopOf(t)) /\ n # depth[t]
    BY <1>0, <2>2, <2>3, Where
  <2>5. frame[t][n].op = "job" /\ frame[t][n].f = 0 /\ frame[t][n].pc = "destroyed"
    BY <2>2, <2>4 DEF Calls
  <2>6. Local(t)
    BY <1>0, FlatLocal
  <2>7. n \in 1..depth'[t] /\ frame'[t][n] = frame[t][n]
    BY <2>4, <2>6 DEF Local, IsTop
  <2>8. HasAt(t, n, "job", g, "destroyed")'
    BY <2>1, <2>5, <2>7 DEF HasAt, Has
  <2> QED
    BY <2>7, <2>8 DEF Comes
<1> QED
  BY <1>1, <1>3, <1>4, <1>5, <1>6, FlatFinishes

\* The futures above a finished one are finished.
LEMMA FinishedAbove ==
  ASSUME IInv, NEW f \in Futures, future[f].finished
  PROVE  \A g \in 0..f : future[g].finished
<1>0. Results /\ Executed /\ Last \in Nat \ {0} /\ Futures = 0..Last
  BY ChainAssumption DEF IInv, Once, Futures
<1>1. CASE f = 0
  <2>1. \A g \in 0..f : g = f
    BY <1>1
  <2> QED
    BY <2>1
<1>2. CASE f # 0
  <2>1. f \in 1..Last /\ f - 1 \in Futures /\ f \in Nat /\ f - 1 \in Nat
    BY <1>0, <1>2
  <2>2. jobs[f] = 1
    BY <1>0, <2>1 DEF Results
  <2>3. Begun(f)
    BY <2>2 DEF Begun
  <2>4. link[f - 1].executed
    BY <1>0, <2>1, <2>3 DEF Executed
  <2>5. \A g \in 0..(f - 1) : future[g].finished
    BY <1>0, <2>1, <2>4 DEF Results
  <2>6. \A g \in 0..f : g = f \/ g \in 0..(f - 1)
    BY <2>1
  <2> QED
    BY <2>5, <2>6
<1> QED
  BY <1>1, <1>2

LEMMA BeginsFinished ==
  ASSUME IInv, NEW t \in Threads, NEW f \in Futures, Begins(t, f)
  PROVE  future[f].finished
<1>0. Stacks /\ Shape /\ Progress
  BY DEF IInv
<1>1. CASE SetRunF(t, f)
  BY <1>1 DEF SetRunF
<1>2. CASE RunF(t, f)
  <2>1. Now(t, "run", f, "enter")
    BY <1>2 DEF RunF
  <2>2. /\ depth[t] \in 1..depth[t] /\ frame[t][depth[t]] = TopOf(t)
        /\ TopOf(t).op = "run" /\ TopOf(t).f = f
    BY <1>0, <2>1, TopPlace DEF Now
  <2>3. PICK n : n = depth[t] - 1
    OBVIOUS
  <2>4. n \in 1..depth[t] /\ Calls(frame[t][n], TopOf(t)) /\ n # depth[t]
    BY <1>0, <2>2, <2>3, Where
  <2>5. frame[t][n].op = "job" /\ frame[t][n].f = f /\ frame[t][n].pc = "clean"
    BY <2>2, <2>4 DEF Calls
  <2>6. CallOk(frame[t][n], n = depth[t])
    BY <1>0, <2>4 DEF Progress
  <2>7. JobOk(frame[t][n], n = depth[t])
    BY <2>5, <2>6 DEF CallOk
  <2> QED
    BY <2>5, <2>7 DEF JobOk
<1> QED
  BY <1>1, <1>2 DEF Begins

\* Only its function, or a parent's exception, gives a future an exception.
LEMMA FlatThrows ==
  ASSUME IInv, NEW t \in Threads, NEW f \in Futures, FlatStep(t, f),
         NEW g \in Futures, future'[g].exception # future[g].exception
  PROVE  g = f /\ (CallF(t, f) \/ PassF(t, f))
<1>1. g = f
  BY FlatGrows DEF Only
<1>2. ASSUME future' = future PROVE FALSE
  BY <1>2
<1>3. CASE CancelF(t, f) \/ FinishF(t, f)
  BY <1>1, <1>3 DEF CancelF, Canceled, FinishF
<1>4. CASE ChainCancelF(t, f)
  BY <1>4 DEF ChainCancelF, Canceled, SameElse, FutureOf
<1> QED
  BY <1>1, <1>2, <1>3, <1>4 DEF FlatStep, DecideF, CancelOwnF, AbandonF, RunsF, CleanF, SetRunF,
     SetStoreF, SetBackF, RunF, RunNotF, RunBackF, CancelNotF, LinksF, WalkF, ChainF, ClientF

\* Only a verdict adds to the functions that take a QFuture.
LEMMA FlatTakers ==
  ASSUME NEW t \in Threads, NEW f \in Futures, FlatStep(t, f), takers' # takers
  PROVE  DecideF(t, f)
BY DEF FlatStep, CallF, PassF, CancelOwnF, AbandonF, FinishF, RunsF, CleanF, SetRunF, SetStoreF,
   SetBackF, RunF, RunNotF, RunBackF, CancelNotF, CancelF, LinksF, WalkF, ChainF, ChainCancelF,
   ClientF, history

LEMMA ResultsNext ==
  ASSUME IInv, States', Stacks', NEW t \in Threads, NEW f \in Futures, FlatStep(t, f)
  PROVE  Results'
<1>0. /\ Results /\ OneJob /\ JobCounts /\ Stacks /\ Shape /\ Grows /\ Last \in Nat \ {0}
      /\ Futures = 0..Last /\ jobs \in [Futures -> Nat] /\ queue \subseteq 1..Last
      /\ takers \subseteq 1..Last
  BY FlatGrows, ChainAssumption DEF IInv, Once, Futures, States
<1>1. ASSUME NEW pc, Now(t, "job", f, pc)
      PROVE  /\ pc = "check" => jobs[f] = 0 /\ ~future[f].finished /\ ~future[f].exception
             /\ pc # "check" /\ f > 0 => jobs[f] = 1
             /\ pc = "finish" => future[f].canceled \/ future[f].result
             /\ f \notin queue
  <2>1. CallOk(TopOf(t), TRUE) /\ TopOf(t).op = "job" /\ TopOf(t).f = f /\ TopOf(t).pc = pc
    BY <1>1, TopOk
  <2>2. JobOk(TopOf(t), TRUE)
    BY <2>1 DEF CallOk
  <2>3. depth[t] \in 1..depth[t] /\ frame[t][depth[t]] = TopOf(t)
    BY <1>0, <1>1, TopPlace
  <2>4. f \notin queue
    BY <1>0, <2>1, <2>3 DEF OneJob
  <2> QED
    BY <2>1, <2>2, <2>4 DEF JobOk
<1>2. ASSUME NEW g \in Futures, link'[g].executed PROVE \A h \in 0..g : future'[h].finished
  <2>1. \A h \in 0..g : h \in Futures
    BY <1>0
  <2>2. \A h \in 0..g : future[h].finished
    <3>1. CASE link[g].executed
      BY <1>0, <3>1 DEF Results
    <3>2. CASE ~link[g].executed
      <4>1. Begins(t, f) /\ g = f
        BY <1>2, <3>2, FlatMarks
      <4>2. future[g].finished
        BY <4>1, BeginsFinished
      <4> QED
        BY <4>2, FinishedAbove
    <3> QED
      BY <3>1, <3>2
  <2> QED
    BY <1>0, <2>1, <2>2 DEF Grows
<1>3. ASSUME NEW g \in 1..Last, future'[g].finished \/ future'[g].exception PROVE jobs'[g] = 1
  <2>1. g \in Futures /\ g > 0
    BY <1>0
  <2>2. CASE future[g].finished \/ future[g].exception
    <3>1. jobs[g] = 1
      BY <1>0, <2>2 DEF Results
    <3>2. ~(DecideF(t, f) /\ g = f)
      BY <1>1, <2>2 DEF DecideF
    <3>3. jobs'[g] = jobs[g]
      BY <1>0, <2>1, <3>2, FlatCounts DEF DecideF
    <3> QED
      BY <3>1, <3>3
  <2>3. CASE future'[g].finished /\ ~future[g].finished
    <3>1. g = f /\ FinishF(t, f)
      BY <2>1, <2>3, FlatFinishes DEF Finishes
    <3>2. jobs' = jobs /\ jobs[f] = 1
      BY <1>1, <2>1, <3>1 DEF FinishF, history
    <3> QED
      BY <3>1, <3>2
  <2>4. CASE future'[g].exception /\ ~future[g].exception
    <3>1. g = f /\ (CallF(t, f) \/ PassF(t, f))
      BY <2>1, <2>4, FlatThrows
    <3>2. jobs' = jobs /\ jobs[f] = 1
      BY <1>1, <2>1, <3>1 DEF CallF, PassF, history
    <3> QED
      BY <3>1, <3>2
  <2> QED
    BY <1>3, <2>2, <2>3, <2>4
<1>4. ASSUME NEW g \in Futures, future'[g].finished PROVE future'[g].canceled \/ future'[g].result
  <2>1. CASE future[g].finished
    BY <1>0, <2>1 DEF Results, Grows
  <2>2. CASE g = f /\ FinishF(t, f)
    <3>1. future[f].canceled \/ future[f].result
      BY <1>1, <2>2 DEF FinishF
    <3> QED
      BY <1>0, <2>2, <3>1 DEF Grows
  <2>3. CASE g = f /\ Finishes(t, f)
    BY <2>3 DEF Finishes, CancelF, Canceled
  <2> QED
    BY <1>4, <2>1, <2>2, <2>3, FlatFinishes
<1>5. ASSUME NEW g \in queue'
      PROVE  Queued(g)'
  <2>1. CASE g \in queue
    <3>0. g \in Futures /\ g - 1 \in Futures /\ g > 0 /\ Queued(g)
      BY <1>0, <2>1 DEF Results
    <3>1. /\ ~future[g].finished /\ ~future[g].exception /\ kind[g] = "then"
          /\ g \notin takers => future[g - 1].result
          /\ g \in Futures /\ g - 1 \in Futures /\ g > 0
      BY <3>0 DEF Queued
    <3>2. kind'[g] = "then" /\ (g \notin takers' => future'[g - 1].result)
      BY <1>0, <3>1 DEF Grows
    <3>3. ASSUME future'[g].finished PROVE FALSE
      <4>1. g = f /\ FinishF(t, f)
        BY <3>1, <3>3, FlatFinishes DEF Finishes
      <4> QED
        BY <1>1, <2>1, <4>1 DEF FinishF
    <3>4. ASSUME future'[g].exception PROVE FALSE
      <4>1. g = f /\ (CallF(t, f) \/ PassF(t, f))
        BY <3>1, <3>4, FlatThrows
      <4> QED
        BY <1>1, <2>1, <4>1 DEF CallF, PassF
    <3> QED
      BY <3>2, <3>3, <3>4 DEF Queued
  <2>2. CASE g \notin queue
    <3>1. DecideF(t, f)
      BY <2>2, FlatCounts
    <3>2. PICK taking \in BOOLEAN :
            /\ takers' = IF taking THEN takers \cup {f} ELSE takers
            /\ g = f /\ kind[f] = "then" /\ Verdict(f, taking) = "call"
      BY <2>2, <3>1 DEF DecideF
    <3>3. Now(t, "job", f, "check") /\ f > 0 /\ UNCHANGED <<kind, future>>
      BY <3>1 DEF DecideF, fixed
    <3>4. ~future[f].finished /\ ~future[f].exception
      BY <1>1, <3>3
    <3>5. f \in 1..Last /\ (future[f - 1].canceled \/ future[f - 1].result)
      BY <3>3, Parents
    <3>6. ~taking => ~future[f - 1].canceled
      <4>1. ~taking => ~IsChainCanceled(f - 1)
        BY <3>2, <3>5, Verdicts DEF IInv
      <4> QED
        BY <4>1 DEF IsChainCanceled
    <3> QED
      BY <3>2, <3>3, <3>4, <3>5, <3>6 DEF Queued
  <2> QED
    BY <2>1, <2>2
<1>6. ASSUME NEW g \in takers' PROVE kind'[g] = "then" /\ jobs'[g] = 1 /\ future'[g - 1].exception
  <2>1. CASE g \in takers
    <3>1. kind[g] = "then" /\ jobs[g] = 1 /\ future[g - 1].exception
      BY <1>0, <2>1 DEF Results
    <3>2. g \in Futures /\ g - 1 \in Futures
      BY <1>0, <2>1
    <3>3. ~(DecideF(t, f) /\ g = f)
      BY <1>1, <3>1 DEF DecideF
    <3>4. jobs'[g] = jobs[g]
      BY <1>0, <3>2, <3>3, FlatCounts DEF DecideF
    <3> QED
      BY <1>0, <3>1, <3>2, <3>4 DEF Grows
  <2>2. CASE g \notin takers
    <3>1. DecideF(t, f)
      BY <1>6, <2>2, FlatTakers
    <3>2. PICK taking \in BOOLEAN :
            /\ taking => kind[f] = "then" /\ future[f - 1].exception
            /\ takers' = IF taking THEN takers \cup {f} ELSE takers
      BY <3>1 DEF DecideF
    <3>3. g = f /\ kind[g] = "then" /\ future[g - 1].exception
      BY <1>6, <2>2, <3>2
    <3>4. UNCHANGED <<kind, future>> /\ jobs' = [jobs EXCEPT ![f] = @ + 1]
          /\ Now(t, "job", f, "check")
      BY <3>1 DEF DecideF, fixed
    <3>5. jobs[f] = 0
      BY <1>1, <3>4
    <3> QED
      BY <1>0, <3>3, <3>4, <3>5
  <2> QED
    BY <2>1, <2>2
<1> QED
  BY <1>2, <1>3, <1>4, <1>5, <1>6 DEF Results

LEMMA LinksNext ==
  ASSUME IInv, States', NEW t \in Threads, NEW f \in Futures, FlatStep(t, f)
  PROVE  Links'
<1>0. /\ Links /\ Grows /\ Last \in Nat \ {0} /\ Futures = 0..Last /\ kind' = kind
      /\ \A g \in 1..Last : g \in Futures /\ g - 1 \in Futures /\ g - 1 # g
  BY FlatGrows, ChainAssumption DEF IInv, Futures, Grows
<1>a. \A g \in Futures : link[g].state = "Cleaned" => ~link[g].data /\ future[g].finished
  BY <1>0 DEF Links
<1>b. \A g \in 1..Last : /\ link[g - 1].data => link[g].type = kind[g]
                         /\ link[g].type \in {"Unknown", kind[g]}
  BY <1>0 DEF Links
\* The types, unless something is stored.
<1>c. ASSUME \A g \in Futures : (link'[g].data => link[g].data) /\ link'[g].type = link[g].type
      PROVE  \A g \in 1..Last : /\ link'[g - 1].data => link'[g].type = kind'[g]
                                /\ link'[g].type \in {"Unknown", kind'[g]}
  BY <1>0, <1>b, <1>c
<1>1. CASE link' = link
  <2>1. \A g \in Futures : link'[g].state = "Cleaned" => ~link'[g].data /\ future'[g].finished
    BY <1>0, <1>a, <1>1 DEF Grows
  <2>2. \A g \in 1..Last : /\ link'[g - 1].data => link'[g].type = kind'[g]
                           /\ link'[g].type \in {"Unknown", kind'[g]}
    BY <1>1, <1>c
  <2> QED
    BY <2>1, <2>2 DEF Links
<1>2. CASE CleanF(t, f) /\ link' # link
  <2>1. future[f].finished
    <3>1. Now(t, "job", f, "clean")
      BY <1>2 DEF CleanF
    <3>2. CallOk(TopOf(t), TRUE) /\ TopOf(t).op = "job" /\ TopOf(t).f = f /\ TopOf(t).pc = "clean"
      BY <3>1, TopOk
    <3> QED
      BY <3>2 DEF CallOk, JobOk
  <2>2. /\ \A g \in Futures \ {f} : link'[g] = link[g]
        /\ ~link'[f].data /\ link'[f].type = link[f].type
    BY <1>2 DEF CleanF, LinkElse
  <2>3. \A g \in Futures : link'[g].state = "Cleaned" => ~link'[g].data /\ future'[g].finished
    BY <1>0, <1>a, <2>1, <2>2 DEF Grows
  <2>4. \A g \in Futures : (link'[g].data => link[g].data) /\ link'[g].type = link[g].type
    BY <2>2
  <2> QED
    BY <2>3, <2>4, <1>c DEF Links
<1>3. CASE WalkF(t, f) /\ link' # link
  <2>1. \A g \in Futures : /\ link'[g].data = link[g].data /\ link'[g].type = link[g].type
                           /\ link'[g].state = "Cleaned" => link[g].state = "Cleaned"
    BY <1>3 DEF WalkF, LinkElse
  <2>2. \A g \in Futures : link'[g].state = "Cleaned" => ~link'[g].data /\ future'[g].finished
    BY <1>0, <1>a, <2>1 DEF Grows
  <2> QED
    BY <2>1, <2>2, <1>c DEF Links
<1>4. CASE RunF(t, f) \/ RunBackF(t, f) \/ SetRunF(t, f)
  <2>1. \A g \in Futures : /\ link'[g].data = link[g].data /\ link'[g].type = link[g].type
                           /\ link'[g].state = link[g].state
    <3>1. CASE RunF(t, f)
      BY <3>1 DEF RunF, LinkElse, Kept
    <3>2. CASE RunBackF(t, f)
      BY <3>2 DEF RunBackF, LinkElse, Kept
    <3>3. CASE SetRunF(t, f)
      BY <3>3 DEF SetRunF, LinkElse
    <3> QED
      BY <1>4, <3>1, <3>2, <3>3
  <2>2. \A g \in Futures : link'[g].state = "Cleaned" => ~link'[g].data /\ future'[g].finished
    BY <1>0, <1>a, <2>1 DEF Grows
  <2> QED
    BY <2>1, <2>2, <1>c DEF Links
<1>5. CASE Stores(f) /\ (SetStoreF(t, f) \/ SetBackF(t, f)) /\ link' # link
  <2>1. link[f].state # "Cleaned"
    BY <1>a, <1>5 DEF SetStoreF, SetBackF
  <2>2. /\ \A g \in Futures : link'[g].state = link[g].state
        /\ \A g \in Futures : g # f => link'[g].data = link[g].data
        /\ \A g \in Futures : g # f + 1 => link'[g].type = link[g].type
        /\ f + 1 \in Futures /\ link'[f + 1].type = kind[f + 1]
    BY <1>5, StoresGrow DEF Stores, LinkElse
  <2>3. \A g \in Futures : link'[g].state = "Cleaned" => ~link'[g].data /\ future'[g].finished
    BY <1>0, <1>a, <2>1, <2>2 DEF Grows
  <2>4. ASSUME NEW g \in 1..Last
        PROVE  /\ link'[g - 1].data => link'[g].type = kind'[g]
               /\ link'[g].type \in {"Unknown", kind'[g]}
    <3>1. CASE g = f + 1
      <4>1. link'[g].type = kind[g]
        BY <2>2, <3>1
      <4> QED
        BY <1>0, <4>1
    <3>2. CASE g # f + 1
      <4>1. g - 1 # f
        BY <1>0, <3>2
      <4>2. link'[g].type = link[g].type /\ link'[g - 1].data = link[g - 1].data
        BY <1>0, <2>2, <3>2, <4>1
      <4> QED
        BY <1>0, <1>b, <4>2
    <3> QED
      BY <3>1, <3>2
  <2> QED
    BY <2>3, <2>4 DEF Links
<1> QED
  <2>1. CASE /\ ~(SetRunF(t, f) \/ RunF(t, f) \/ SetStoreF(t, f) \/ SetBackF(t, f))
             /\ ~(CleanF(t, f) \/ RunBackF(t, f) \/ WalkF(t, f))
    <3>1. link' = link
      BY <2>1 DEF FlatStep, DecideF, CallF, PassF, CancelOwnF, AbandonF, FinishF, RunsF, RunNotF,
                  CancelNotF, CancelF, LinksF, ChainF, ChainCancelF, ClientF
    <3> QED
      BY <1>1, <3>1
  <2>2. CASE SetStoreF(t, f) \/ SetBackF(t, f)
    <3>1. link' = link \/ Stores(f)
      BY <2>2 DEF SetStoreF, SetBackF
    <3> QED
      BY <1>1, <1>5, <2>2, <3>1
  <2> QED
    BY <1>1, <1>2, <1>3, <1>4, <2>1, <2>2

\* The first call of a thread.
First(t, x) ==
  /\ Starts(t, x) /\ UNCHANGED <<fixed, future, link, built, history>>
  /\ \/ t = Builder /\ x.op = "set" /\ x.pc = "enter" /\ queue' = queue
     \/ t = Pool /\ x.op = "job" /\ x.pc = "call" /\ x.f \in queue /\ queue' = queue \ {x.f}

LEMMA FirstCalls ==
  ASSUME States, AttachF \/ \E f \in Futures : TakeF(f)
  PROVE  \E t \in Threads, x \in FrameSet : First(t, x)
<1>1. CASE AttachF
  <2>1. "set" \in Ops /\ "enter" \in AllPcs /\ built \in Futures /\ Builder \in Threads
    BY ChainAssumption DEF Threads, States, Futures
  <2>2. PICK x \in FrameSet : x = Frame("set", built, "enter") /\ x.op = "set" /\ x.pc = "enter"
    BY <2>1, FirstFrames
  <2> QED
    BY <1>1, <2>1, <2>2 DEF First, AttachF
<1>2. ASSUME NEW f \in Futures, TakeF(f) PROVE \E t \in Threads, x \in FrameSet : First(t, x)
  <2>1. "job" \in Ops /\ "call" \in AllPcs /\ Pool \in Threads
    BY DEF Threads
  <2>2. PICK x \in FrameSet : x = Frame("job", f, "call") /\ x.op = "job" /\ x.pc = "call" /\ x.f = f
    BY <2>1, FirstFrames
  <2> QED
    BY <1>2, <2>1, <2>2 DEF First, TakeF
<1> QED
  BY <1>1, <1>2

LEMMA FirstOnce ==
  ASSUME IInv, Stacks', NEW t \in Threads, NEW x \in FrameSet, First(t, x)
  PROVE  Once' /\ Results' /\ Links'
<1>0. /\ OneJob /\ Executed /\ JobCounts /\ Attached /\ NoneForgotten /\ Results /\ Links
      /\ Stacks /\ Builder \in Threads /\ queue \subseteq 1..Last
  BY DEF IInv, Once, Threads, States
<1>1. /\ \A v \in Threads : \A d \in 1..depth[v] :
           v # t /\ d \in 1..depth'[v] /\ frame'[v][d] = frame[v][d]
      /\ \A v \in Threads : \A d \in 1..depth'[v] :
           d \in 1..depth[v] \/ (v = t /\ d = 1)
      /\ 1 \in 1..depth'[t] /\ frame'[t][1] = x
  BY <1>0, StartFrames DEF First
<1>2. /\ UNCHANGED <<kind, future, link, built, jobs, called, takers>> /\ queue' \subseteq queue
      /\ x.op = "job" => x.f \in queue /\ x.f \notin queue' /\ t = Pool
      /\ ~(x.op = "set" /\ x.pc = "store")
  BY DEF First, fixed, history
<1>3. ASSUME NEW g, Due(g) PROVE Due(g)'
  BY <1>1, <1>3 DEF Due, HasAt, Has
<1>4. ASSUME NEW g, Comes(g) PROVE Comes(g)'
  <2>1. PICK v \in Threads : \E d \in 1..depth[v] :
          HasAt(v, d, "job", g, "destroyed") \/ HasAt(v, d, "run", g, "enter")
    BY <1>4 DEF Comes
  <2>2. PICK d \in 1..depth[v] :
          HasAt(v, d, "job", g, "destroyed") \/ HasAt(v, d, "run", g, "enter")
    BY <2>1
  <2>3. d \in 1..depth'[v] /\ frame'[v][d] = frame[v][d]
    BY <1>1
  <2>4. HasAt(v, d, "job", g, "destroyed")' \/ HasAt(v, d, "run", g, "enter")'
    BY <2>2, <2>3 DEF HasAt, Has
  <2> QED
    BY <2>3, <2>4 DEF Comes
<1>5. ASSUME NEW g, Begun(g)' PROVE Begun(g)
  <2>1. CASE jobs'[g] > 0 \/ g \in queue'
    BY <1>2, <2>1 DEF Begun
  <2>2. CASE \E v \in Threads : \E d \in 1..depth'[v] : Has(v, d, "job", g)'
    <3>1. PICK v \in Threads : \E d \in 1..depth'[v] : Has(v, d, "job", g)'
      BY <2>2
    <3>2. PICK d \in 1..depth'[v] : Has(v, d, "job", g)'
      BY <3>1
    <3>3. CASE d \in 1..depth[v]
      <4>1. Has(v, d, "job", g)
        BY <1>1, <3>2, <3>3 DEF Has
      <4> QED
        BY <3>3, <4>1 DEF Begun
    <3>4. CASE v = t /\ d = 1
      <4>1. g \in queue
        BY <1>1, <1>2, <3>2, <3>4 DEF Has
      <4> QED
        BY <4>1 DEF Begun
    <3> QED
      BY <1>1, <3>3, <3>4
  <2> QED
    BY <1>5, <2>1, <2>2 DEF Begun
<1>6. ASSUME NEW g PROVE HasAt(Builder, 1, "set", g, "store")' <=> HasAt(Builder, 1, "set", g, "store")
  <2>1. CASE t = Builder
    BY <1>0, <1>1, <1>2, <2>1 DEF HasAt, Has
  <2>2. CASE t # Builder
    <3>1. 1 \in 1..depth'[Builder] <=> 1 \in 1..depth[Builder]
      BY <1>0, <1>1, <2>2
    <3> QED
      BY <1>0, <1>1, <2>2, <3>1 DEF HasAt, Has
  <2> QED
    BY <2>1, <2>2
<1>7. OneJob'
  <2>1. ASSUME NEW v \in Threads, NEW d \in 1..depth'[v], NEW w \in Threads, NEW e \in 1..depth'[w],
               frame'[v][d].op = "job", frame'[w][e].op = "job", frame'[v][d].f = frame'[w][e].f
        PROVE  v = w /\ d = e
    <3>1. CASE d \in 1..depth[v] /\ e \in 1..depth[w]
      <4>1. frame'[v][d] = frame[v][d] /\ frame'[w][e] = frame[w][e]
        BY <1>1, <3>1
      <4> QED
        BY <1>0, <2>1, <3>1, <4>1 DEF OneJob
    <3>2. CASE v = t /\ d = 1 /\ e \in 1..depth[w]
      <4>1. frame'[w][e] = frame[w][e] /\ frame'[v][d] = x
        BY <1>1, <3>2
      <4>2. frame[w][e].f \in queue
        BY <1>2, <2>1, <4>1
      <4> QED
        BY <1>0, <2>1, <3>2, <4>1, <4>2 DEF OneJob
    <3>3. CASE w = t /\ e = 1 /\ d \in 1..depth[v]
      <4>1. frame'[v][d] = frame[v][d] /\ frame'[w][e] = x
        BY <1>1, <3>3
      <4>2. frame[v][d].f \in queue
        BY <1>2, <2>1, <4>1
      <4> QED
        BY <1>0, <2>1, <3>3, <4>1, <4>2 DEF OneJob
    <3> QED
      BY <1>1, <3>1, <3>2, <3>3
  <2>2. ASSUME NEW v \in Threads, NEW d \in 1..depth'[v], frame'[v][d].op = "job"
        PROVE  frame'[v][d].f \notin queue'
    <3>1. CASE d \in 1..depth[v]
      <4>1. frame'[v][d] = frame[v][d]
        BY <1>1, <3>1
      <4> QED
        BY <1>0, <1>2, <2>2, <3>1, <4>1 DEF OneJob
    <3>2. CASE v = t /\ d = 1
      BY <1>1, <1>2, <2>2, <3>2
    <3> QED
      BY <1>1, <3>1, <3>2
  <2> QED
    BY <2>1, <2>2 DEF OneJob
<1>8. Executed'
  <2>1. ASSUME NEW g \in 1..Last, Begun(g)' PROVE link'[g - 1].executed
    BY <1>0, <1>2, <1>5, <2>1 DEF Executed
  <2>2. ASSUME NEW g \in 1..Last, link'[g - 1].executed PROVE jobs'[g] = 1 \/ Due(g)'
    BY <1>0, <1>2, <1>3, <2>2 DEF Executed
  <2> QED
    BY <2>1, <2>2 DEF Executed
<1>9. JobCounts'
  BY <1>0, <1>2 DEF JobCounts
<1>10. Attached'
  <2>1. ASSUME NEW g \in built'..Last
        PROVE  /\ ~link'[g].stored /\ ~link'[g].data
               /\ link'[g].executed <=> HasAt(Builder, 1, "set", g, "store")'
    BY <1>0, <1>2, <1>6 DEF Attached
  <2>2. \A g \in Futures : /\ link'[g].data /\ ~link'[g].executed => link'[g].stored
                           /\ link'[g].parent => g > 0
    BY <1>0, <1>2 DEF Attached
  <2> QED
    BY <2>1, <2>2 DEF Attached
<1>11. NoneForgotten'
  BY <1>0, <1>2, <1>4 DEF NoneForgotten
<1>12. Results'
  BY <1>0, <1>2 DEF Results, Queued
<1>13. Links'
  BY <1>0, <1>2 DEF Links
<1> QED
  BY <1>7, <1>8, <1>9, <1>10, <1>11, <1>12, <1>13 DEF Once

-----------------------------------------------------------------------------
(* What is canceled is not called.                                         *)

\* Whoever is about to cancel p has not finished it.
LEMMA MutedFinished ==
  ASSUME IInv, NEW p \in Futures, future[p].finished, Muted(p)
  PROVE  future[p].canceled /\ ~future[p].exception
<1>0. Stacks /\ Shape /\ Progress
  BY DEF IInv
<1>1. ASSUME NEW t \in Threads, depth[t] > 0, NEW x, x = frame[t][depth[t]], x.f = p,
             \/ x.op = "job" /\ x.pc = "cancel"
             \/ x.op = "cancel" /\ x.pc = "lock" /\ depth[t] > 1
      PROVE  FALSE
  <2>0. depth[t] \in 1..depth[t] /\ depth[t] \in Nat
    BY <1>0, <1>1, FramesType
  <2>1. CASE x.op = "job" /\ x.pc = "cancel"
    <3>1. CallOk(frame[t][depth[t]], depth[t] = depth[t])
      BY <1>0, <2>0 DEF Progress
    <3>2. JobOk(frame[t][depth[t]], depth[t] = depth[t])
      BY <1>1, <2>1, <3>1 DEF CallOk
    <3> QED
      BY <1>1, <2>1, <3>2 DEF JobOk
  <2>2. CASE x.op = "cancel" /\ x.pc = "lock" /\ depth[t] > 1
    <3>1. PICK n : n = depth[t] - 1
      OBVIOUS
    <3>2. n \in 1..depth[t] /\ Calls(frame[t][n], x) /\ n # depth[t]
      BY <1>0, <1>1, <2>0, <2>2, <3>1, Where
    <3>3. frame[t][n].op = "job" /\ frame[t][n].pc = "finish" /\ frame[t][n].f = p
      BY <1>1, <2>2, <3>2 DEF Calls
    <3>4. CallOk(frame[t][n], n = depth[t])
      BY <1>0, <3>2 DEF Progress
    <3>5. JobOk(frame[t][n], n = depth[t])
      BY <3>3, <3>4 DEF CallOk
    <3> QED
      BY <3>3, <3>5 DEF JobOk
  <2> QED
    BY <1>1, <2>1, <2>2
<1> QED
  BY <1>1 DEF Muted

\* The next one to begin below a swept future has its chain canceled, ...
LEMMA SweptCanceled ==
  ASSUME IInv, NEW t \in Threads, NEW f \in Futures, f > 0, Now(t, "job", f, "check"),
         NEW p \in Nat, NEW g \in Futures, f \in (p + 1)..g, Swept(p, g)
  PROVE  kind[f] = "then" /\ IsChainCanceled(f - 1)
<1>1. jobs[f] = 0
  <2>1. CallOk(TopOf(t), TRUE) /\ TopOf(t).op = "job" /\ TopOf(t).f = f /\ TopOf(t).pc = "check"
    BY TopOk
  <2> QED
    BY <2>1 DEF CallOk, JobOk
<1>2. kind[f] = "then" /\ future[p].canceled /\ (f - 1 = p \/ Marked(f - 1))
  BY <1>1 DEF Swept
<1> QED
  BY <1>2 DEF Marked, IsChainCanceled

\* ... and below a hushed one finds its parent canceled, without an exception.
LEMMA HushedCanceled ==
  ASSUME IInv, NEW t \in Threads, NEW f \in Futures, f > 0, Now(t, "job", f, "check"),
         NEW p \in Nat, NEW g \in Futures, f \in (p + 1)..g, Hushed(p, g)
  PROVE  kind[f] = "then" /\ future[f - 1].canceled /\ ~future[f - 1].exception
<1>1. /\ f \in 1..Last /\ f - 1 \in Futures /\ \A h \in 0..(f - 1) : future[h].finished
  BY Parents
<1>2. jobs[f] = 0
  <2>1. CallOk(TopOf(t), TRUE) /\ TopOf(t).op = "job" /\ TopOf(t).f = f /\ TopOf(t).pc = "check"
    BY TopOk
  <2> QED
    BY <2>1 DEF CallOk, JobOk
<1>3. f - 1 \in 0..(f - 1)
  BY <1>1, ChainAssumption DEF Futures
<1>4. f - 1 = p \/ jobs[f - 1] = 1
  <2>1. ASSUME f - 1 # p PROVE jobs[f - 1] = 1
    <3>1. f - 1 \in 1..Last
      BY <1>1, <2>1, ChainAssumption DEF Futures
    <3> QED
      BY <1>1, <1>3, <3>1 DEF IInv, Results
  <2> QED
    BY <2>1
<1>5. kind[f] = "then" /\ Muted(f - 1)
  BY <1>2, <1>4 DEF Hushed
<1>6. PICK q \in Futures : q = f - 1
  BY <1>1
<1>7. future[q].finished /\ Muted(q)
  BY <1>1, <1>3, <1>5, <1>6
<1> QED
  BY <1>5, <1>6, <1>7, MutedFinished

LEMMA MutedStays ==
  ASSUME IInv, Stacks', NEW t \in Threads, NEW f \in Futures, FlatStep(t, f),
         NEW p \in Futures, Muted(p)
  PROVE  Muted(p)'
<1>0. Stacks /\ Shape /\ Progress /\ Grows /\ \A v \in Threads : depth[v] \in Nat
  BY FlatGrows, FramesType DEF IInv
<1>1. Local(t) /\ depth[t] > 0 /\ StackMove(t, f)
  BY <1>0, FlatLocal, FlatMoves
<1>n. ~future'[p].exception
  <2>1. ~future[p].exception
    BY DEF Muted
  <2>2. ASSUME future'[p].exception PROVE FALSE
    <3>1. p = f /\ (CallF(t, f) \/ PassF(t, f))
      BY <2>1, <2>2, FlatThrows
    <3>2. PICK pc \in {"call", "pass", "raise"} : Now(t, "job", f, pc)
      BY <3>1 DEF CallF, PassF
    <3>3. /\ depth[t] \in 1..depth[t] /\ frame[t][depth[t]] = TopOf(t)
          /\ TopOf(t).op = "job" /\ TopOf(t).f = p /\ TopOf(t).pc = pc
      BY <1>0, <3>1, <3>2, TopPlace DEF Now
    <3>4. ~future[p].canceled
      BY <2>1, <2>2, <3>1 DEF CallF, PassF, Reported
    <3>5. PICK v \in Threads : depth[v] > 0 /\ LET x == frame[v][depth[v]] IN
            /\ x.f = p
            /\ \/ x.op = "job" /\ x.pc = "cancel"
               \/ x.op = "cancel" /\ x.pc = "lock" /\ depth[v] > 1
      BY <3>4 DEF Muted
    <3>6. PICK x : x = frame[v][depth[v]]
      OBVIOUS
    <3>7. depth[v] \in 1..depth[v] /\ depth[v] \in Nat
      BY <1>0, <3>5
    <3>8. OneJob
      BY DEF IInv, Once
    <3>9. CASE x.op = "job" /\ x.pc = "cancel" /\ x.f = p
      <4>1. v = t
        BY <3>3, <3>6, <3>7, <3>8, <3>9 DEF OneJob
      <4> QED
        BY <3>2, <3>3, <3>6, <3>9, <4>1
    <3>10. CASE x.op = "cancel" /\ x.f = p /\ depth[v] > 1
      <4>1. PICK n : n = depth[v] - 1
        OBVIOUS
      <4>2. n \in 1..depth[v] /\ Calls(frame[v][n], x) /\ n # depth[v]
        BY <1>0, <3>6, <3>7, <3>10, <4>1, Where
      <4>3. frame[v][n].op = "job" /\ frame[v][n].f = p
        BY <3>10, <4>2 DEF Calls
      <4>4. v = t /\ n = depth[t]
        BY <3>3, <3>8, <4>2, <4>3 DEF OneJob
      <4> QED
        BY <4>2, <4>4
    <3> QED
      BY <3>5, <3>6, <3>9, <3>10
  <2> QED
    BY <2>2
<1>2. CASE future[p].canceled
  BY <1>0, <1>2, <1>n DEF Grows, Muted
<1>3. ASSUME NEW v \in Threads, v # t, depth[v] > 0, NEW x, x = frame[v][depth[v]], x.f = p,
             \/ x.op = "job" /\ x.pc = "cancel"
             \/ x.op = "cancel" /\ x.pc = "lock" /\ depth[v] > 1
      PROVE  Muted(p)'
  <2>1. depth'[v] = depth[v] /\ frame'[v] = frame[v]
    BY <1>1, <1>3 DEF StackMove, Replaces, Pushes, Pops, Elsewhere
  <2> QED
    BY <1>3, <1>n, <2>1 DEF Muted
<1>4. CASE TopOf(t).f = p /\ TopOf(t).op = "job" /\ TopOf(t).pc = "cancel"
  <2>1. CancelOwnF(t, f) /\ f = p
    BY <1>4 DEF FlatStep, DecideF, CallF, PassF, CancelOwnF, AbandonF, FinishF, RunsF, CleanF,
       SetRunF, SetStoreF, SetBackF, RunF, RunNotF, RunBackF, CancelNotF, CancelF, LinksF, WalkF,
       ChainF, ChainCancelF, ClientF, Now
  <2>2. PICK x : x = Frame("cancel", f, "lock") /\ x.op = "cancel" /\ x.f = f /\ x.pc = "lock"
    <3>1. "cancel" \in Ops /\ "lock" \in AllPcs
      OBVIOUS
    <3> QED
      BY <3>1, FirstFrames
  <2>3. depth'[t] > 1 /\ depth'[t] > 0 /\ frame'[t][depth'[t]] = x
    BY <1>0, <1>1, <2>1, <2>2 DEF CancelOwnF, Pushes
  <2> QED
    BY <1>n, <2>1, <2>2, <2>3 DEF Muted
<1>5. CASE TopOf(t).f = p /\ TopOf(t).op = "cancel" /\ TopOf(t).pc = "lock"
  <2>1. (CancelF(t, f) \/ CancelNotF(t, f)) /\ f = p
    BY <1>5 DEF FlatStep, DecideF, CallF, PassF, CancelOwnF, AbandonF, FinishF, RunsF, CleanF,
       SetRunF, SetStoreF, SetBackF, RunF, RunNotF, RunBackF, CancelNotF, CancelF, LinksF, WalkF,
       ChainF, ChainCancelF, ClientF, Now
  <2>2. future'[p].canceled
    BY <2>1 DEF CancelF, Canceled, CancelNotF
  <2> QED
    BY <1>n, <2>2 DEF Muted
<1>6. TopOf(t) = frame[t][depth[t]]
  BY DEF TopOf
<1> QED
  BY <1>2, <1>3, <1>4, <1>5, <1>6 DEF Muted

\* A continuation is cleaned when it has begun.
LEMMA NoLateClean ==
  ASSUME IInv, NEW t \in Threads, NEW f \in Futures, f + 1 \in 1..Last,
         Now(t, "job", f, "clean"), link[f].data
  PROVE  jobs[f + 1] = 1
<1>0. /\ Stacks /\ Shape /\ OneJob /\ Executed /\ Attached /\ NoneForgotten /\ depth[t] \in Nat
      /\ Futures = 0..Last /\ Last \in Nat \ {0} /\ built \in 0..Last
  BY FramesType, ChainAssumption DEF IInv, Once, Futures, States
<1>1. /\ depth[t] \in 1..depth[t] /\ frame[t][depth[t]] = TopOf(t)
      /\ TopOf(t).op = "job" /\ TopOf(t).f = f /\ TopOf(t).pc = "clean"
  BY <1>0, TopPlace DEF Now
<1>2. future[f].finished
  <2>1. CallOk(TopOf(t), TRUE)
    BY TopOk
  <2> QED
    BY <1>1, <2>1 DEF CallOk, JobOk
\* Its job is the innermost call of t.
<1>3. ASSUME NEW v \in Threads, NEW d \in 1..depth[v], NEW e \in 1..depth[v], e > d,
             frame[v][d].op = "job", frame[v][d].f = f
      PROVE  FALSE
  <2>1. v = t /\ d = depth[t]
    BY <1>0, <1>1, <1>3 DEF OneJob
  <2> QED
    BY <1>0, <1>3, <2>1
<1>4. link[f].executed
  <2>1. ASSUME ~link[f].executed PROVE FALSE
    <3>1. Comes(f)
      BY <1>0, <1>2, <2>1 DEF Attached, NoneForgotten
    <3>2. PICK v \in Threads : \E d \in 1..depth[v] :
            HasAt(v, d, "job", f, "destroyed") \/ HasAt(v, d, "run", f, "enter")
      BY <3>1 DEF Comes
    <3>3. PICK d \in 1..depth[v] :
            HasAt(v, d, "job", f, "destroyed") \/ HasAt(v, d, "run", f, "enter")
      BY <3>2
    <3>4. CASE HasAt(v, d, "job", f, "destroyed")
      <4>1. frame[v][d].op = "job" /\ frame[v][d].f = f /\ frame[v][d].pc = "destroyed"
        BY <3>4 DEF HasAt, Has
      <4>2. v = t /\ d = depth[t]
        BY <1>0, <1>1, <4>1 DEF OneJob
      <4> QED
        BY <1>1, <4>1, <4>2
    <3>5. CASE HasAt(v, d, "run", f, "enter")
      <4>1. frame[v][d].op = "run" /\ frame[v][d].f = f
        BY <3>5 DEF HasAt, Has
      <4>2. PICK n : n = d - 1
        OBVIOUS
      <4>3. n \in 1..depth[v] /\ Calls(frame[v][n], frame[v][d]) /\ d > n
        BY <1>0, <4>1, <4>2, Where
      <4>4. frame[v][n].op = "job" /\ frame[v][n].f = f
        BY <4>1, <4>3 DEF Calls
      <4> QED
        BY <1>3, <4>3, <4>4
    <3> QED
      BY <3>3, <3>4, <3>5
  <2> QED
    BY <2>1
<1>5. ~Due(f + 1)
  <2>1. ASSUME NEW v \in Threads, NEW d \in 1..depth[v], HasAt(v, d, "job", f + 1, "check")
        PROVE  FALSE
    <3>1. frame[v][d].op = "job" /\ frame[v][d].f = f + 1 /\ frame[v][d].pc = "check"
      BY <2>1 DEF HasAt, Has
    <3>2. PICK n : n = d - 1
      OBVIOUS
    <3>3. n \in 1..depth[v] /\ Calls(frame[v][n], frame[v][d]) /\ d > n /\ frame[v][n] \in FrameSet
      BY <1>0, <3>1, <3>2, Where
    <3>4. frame[v][n].f + 1 = f + 1 /\ frame[v][n].op \in {"run", "set"}
      BY <3>1, <3>3 DEF Calls
    <3>5. frame[v][n].f \in Int /\ f \in Int
      BY <1>0, <3>3 DEF FrameSet
    <3>6. frame[v][n].f = f
      BY <3>4, <3>5
    <3>7. CASE frame[v][n].op = "run"
      <4>1. PICK k : k = n - 1
        OBVIOUS
      <4>2. k \in 1..depth[v] /\ Calls(frame[v][k], frame[v][n]) /\ n > k
        BY <1>0, <3>3, <3>7, <4>1, Where
      <4>3. frame[v][k].op = "job" /\ frame[v][k].f = f
        BY <3>6, <3>7, <4>2 DEF Calls
      <4> QED
        BY <1>3, <3>3, <4>2, <4>3
    <3>8. CASE frame[v][n].op = "set"
      <4>1. frame[v][n].f = built
        BY <1>0, <3>3, <3>8, Where
      <4>2. f \in built..Last
        BY <1>0, <3>6, <4>1
      <4> QED
        BY <1>0, <4>2 DEF Attached
    <3> QED
      BY <3>4, <3>7, <3>8
  <2> QED
    BY <2>1 DEF Due
<1>6. PICK g \in 1..Last : g = f + 1 /\ g - 1 = f
  BY <1>0
<1>7. link[g - 1].executed /\ ~Due(g)
  BY <1>4, <1>5, <1>6
<1>8. jobs[g] = 1
  BY <1>0, <1>7 DEF Executed
<1> QED
  BY <1>6, <1>8

LEMMA MarkedStays ==
  ASSUME IInv, NEW t \in Threads, NEW f \in Futures, FlatStep(t, f),
         NEW p \in Futures, p + 1 \in 1..Last, jobs[p + 1] = 0, Marked(p)
  PROVE  Marked(p)'
<1>0. link[p].state = "Canceled" /\ link[p].data
  BY DEF Marked
<1>1. ~(CleanF(t, f) /\ f = p)
  BY <1>0, NoLateClean DEF CleanF
<1>2. link'[p].state = "Canceled" /\ link'[p].data
  <2>1. CASE CleanF(t, f)
    BY <1>0, <1>1, <2>1 DEF CleanF, LinkElse
  <2>2. CASE WalkF(t, f)
    BY <1>0, <2>2 DEF WalkF, LinkElse
  <2>3. CASE RunF(t, f) \/ RunBackF(t, f) \/ SetRunF(t, f)
    BY <1>0, <2>3 DEF RunF, RunBackF, SetRunF, LinkElse, Kept
  <2>4. CASE SetStoreF(t, f) \/ SetBackF(t, f)
    <3>1. link' = link \/ Stores(f)
      BY <2>4 DEF SetStoreF, SetBackF
    <3>2. CASE Stores(f)
      BY <1>0, <3>2 DEF Stores, LinkElse, Kept
    <3> QED
      BY <1>0, <3>1, <3>2
  <2>5. CASE /\ ~(SetRunF(t, f) \/ RunF(t, f) \/ SetStoreF(t, f) \/ SetBackF(t, f))
             /\ ~(CleanF(t, f) \/ RunBackF(t, f) \/ WalkF(t, f))
    <3>1. link' = link
      BY <2>5 DEF FlatStep, DecideF, CallF, PassF, CancelOwnF, AbandonF, FinishF, RunsF, RunNotF,
                  CancelNotF, CancelF, LinksF, ChainF, ChainCancelF, ClientF
    <3> QED
      BY <1>0, <3>1
  <2> QED
    BY <2>1, <2>2, <2>3, <2>4, <2>5
<1> QED
  BY <1>2 DEF Marked

LEMMA SweptStays ==
  ASSUME IInv, NEW t \in Threads, NEW f \in Futures, FlatStep(t, f),
         NEW p \in Futures, NEW g \in 1..Last, Swept(p, g)
  PROVE  Swept(p, g)'
<1>g. Grows
  BY FlatGrows
<1>0. Grows /\ Last \in Nat \ {0} /\ Futures = 0..Last /\ jobs \in [Futures -> Nat]
  BY <1>g, ChainAssumption DEF IInv, Futures, States
<1>1. future'[p].canceled
  BY <1>0 DEF Swept, Grows
<1>2. ASSUME NEW h \in (p + 1)..g
      PROVE  kind'[h] = "then" /\ (jobs'[h] = 0 => h - 1 = p \/ Marked(h - 1)')
  <2>1. kind'[h] = "then" /\ h \in 1..Last /\ h \in Futures
    BY <1>0 DEF Swept, Grows
  <2>2. PICK q \in Futures : q = h - 1 /\ q + 1 = h
    BY <1>0, <2>1
  <2>3. ASSUME jobs'[h] = 0, h - 1 # p PROVE Marked(q)'
    <3>1. jobs[h] = 0
      BY <1>0, <2>1, <2>3, FlatCounts DEF DecideF
    <3>2. Marked(q) /\ q + 1 \in 1..Last /\ jobs[q + 1] = 0
      BY <2>1, <2>2, <2>3, <3>1 DEF Swept
    <3> QED
      BY <3>2, MarkedStays
  <2> QED
    BY <2>1, <2>2, <2>3
<1> QED
  BY <1>1, <1>2 DEF Swept

LEMMA HushedStays ==
  ASSUME IInv, Stacks', NEW t \in Threads, NEW f \in Futures, FlatStep(t, f),
         NEW p \in Nat, NEW g \in 1..Last, Hushed(p, g)
  PROVE  Hushed(p, g)'
<1>0. /\ Grows /\ Last \in Nat \ {0} /\ Futures = 0..Last /\ jobs \in [Futures -> Nat]
      /\ depth[t] \in Nat
  BY FlatGrows, ChainAssumption, FramesType DEF IInv, Futures, States
<1>1. SUFFICES ASSUME NEW h \in (p + 1)..g
               PROVE  /\ kind'[h] = "then"
                      /\ jobs'[h] = 0 /\ (h - 1 = p \/ jobs'[h - 1] = 1) => Muted(h - 1)'
  BY DEF Hushed
<1>2. kind'[h] = "then" /\ h \in 1..Last /\ h \in Futures
  BY <1>0 DEF Hushed, Grows
<1>3. PICK q \in Futures : q = h - 1 /\ q + 1 = h /\ q >= p
  BY <1>0, <1>2
<1>4. ASSUME jobs'[h] = 0, q = p \/ jobs'[q] = 1 PROVE Muted(q)'
  <2>1. jobs[h] = 0
    BY <1>0, <1>2, <1>4, FlatCounts DEF DecideF
  <2>2. CASE q = p \/ jobs[q] = 1
    <3>1. Muted(q)
      BY <1>3, <2>1, <2>2 DEF Hushed
    <3>2. q + 1 \in 1..Last /\ jobs[q + 1] = 0
      BY <1>2, <1>3, <2>1
    <3> QED
      BY <3>1, <3>2, MutedStays
  <2>3. CASE q # p /\ jobs[q] # 1
    <3>1. DecideF(t, f) /\ f = q
      <4>1. jobs' # jobs
        BY <1>4, <2>3
      <4>2. DecideF(t, f)
        BY <4>1, FlatCounts
      <4> QED
        BY <1>0, <1>3, <1>4, <2>3, <4>2 DEF DecideF
    <3>2. q \in (p + 1)..g /\ q > 0 /\ g \in Futures
      BY <1>0, <1>1, <1>2, <1>3, <2>3
    <3>3. Now(t, "job", f, "check") /\ future' = future
      BY <3>1 DEF DecideF
    <3>4. PICK taking \in BOOLEAN :
            \/ Verdict(f, taking) = "call"
            \/ Replaces(t, With(TopOf(t), Verdict(f, taking)))
      BY <3>1 DEF DecideF
    <3>5. Verdict(f, taking) = "cancel"
      <4>1. kind[f] = "then" /\ future[f - 1].canceled /\ ~future[f - 1].exception
        BY <3>1, <3>2, <3>3, HushedCanceled
      <4>2. f \in 1..Last
        BY <1>0, <1>2, <3>1, <3>2
      <4> QED
        BY <4>1, <4>2, Verdicts DEF IsChainCanceled, IInv
    <3>6. PICK x : x = With(TopOf(t), "cancel")
      OBVIOUS
    <3>7. x.op = "job" /\ x.f = q /\ x.pc = "cancel"
      BY <3>1, <3>3, <3>6 DEF With, Now
    <3>8. depth'[t] > 0 /\ frame'[t][depth'[t]] = x
      BY <3>3, <3>4, <3>5, <3>6 DEF Replaces, Now
    <3>9. ~future'[q].exception
      <4>1. CallOk(TopOf(t), TRUE) /\ TopOf(t).op = "job" /\ TopOf(t).f = f /\ TopOf(t).pc = "check"
        BY <3>3, TopOk
      <4> QED
        BY <3>1, <3>3, <4>1 DEF CallOk, JobOk
    <3> QED
      BY <3>7, <3>8, <3>9 DEF Muted
  <2> QED
    BY <1>4, <2>2, <2>3
<1> QED
  BY <1>2, <1>3, <1>4

\* Who gets to the function of a continuation.
LEMMA TopAfter ==
  ASSUME NEW t \in Threads, NEW f \in Futures, FlatStep(t, f), ~DecideF(t, f), ~Pops(t)
  PROVE  frame'[t][depth[t]].pc # "call"
<1>1. CASE CallF(t, f) \/ PassF(t, f) \/ FinishF(t, f) \/ CancelF(t, f) \/ ChainCancelF(t, f)
  <2>1. PICK pc \in {"finish", "destroyed", "links", "next"} : Replaces(t, With(TopOf(t), pc))
    BY <1>1 DEF CallF, PassF, FinishF, CancelF, ChainCancelF
  <2> QED
    BY <2>1 DEF Replaces, With
<1>2. CASE CancelOwnF(t, f) \/ (f = 0 /\ AbandonF(t)) \/ RunsF(t, f)
  <2>1. PICK op \in {"cancel", "cancelAndFinish", "run"}, there \in {"lock", "enter"},
             pc \in {"finish", "destroyed", "clean"} :
          Pushes(t, Frame(op, f, there), With(TopOf(t), pc))
    BY <1>2 DEF CancelOwnF, AbandonF, RunsF
  <2> QED
    BY <2>1 DEF Pushes, With
<1>3. CASE SetRunF(t, f) \/ RunF(t, f)
  <2>1. PICK pc \in {"store", "leave"} : Pushes(t, Frame("job", f + 1, "check"), With(TopOf(t), pc))
    BY <1>3 DEF SetRunF, RunF
  <2> QED
    BY <2>1 DEF Pushes, With
<1>4. CASE CleanF(t, f) \/ SetStoreF(t, f) \/ SetBackF(t, f) \/ RunNotF(t, f) \/ RunBackF(t, f)
           \/ CancelNotF(t, f)
  BY <1>4 DEF CleanF, SetStoreF, SetBackF, RunNotF, RunBackF, CancelNotF
<1>5. CASE LinksF(t, f) \/ WalkF(t, f)
  <2>1. Pops(t) \/ \E o : Replaces(t, WithOther(TopOf(t), "walk", o))
    BY <1>5 DEF LinksF, WalkF
  <2>2. PICK o : Replaces(t, WithOther(TopOf(t), "walk", o))
    BY <2>1
  <2>3. frame'[t][depth[t]] = WithOther(TopOf(t), "walk", o)
    BY <2>2 DEF Replaces
  <2> QED
    BY <2>3 DEF WithOther
<1>6. CASE ChainF(t, f) \/ ClientF(t, f)
  <2>1. \/ \E o : Replaces(t, WithOther(TopOf(t), "up", o))
        \/ \E op \in {"cancel", "cancelChain"} : \E g : Replaces(t, Frame(op, g, "lock"))
    BY <1>6 DEF ChainF, ClientF
  <2>2. ASSUME NEW o, Replaces(t, WithOther(TopOf(t), "up", o)) PROVE frame'[t][depth[t]].pc # "call"
    <3>1. frame'[t][depth[t]] = WithOther(TopOf(t), "up", o)
      BY <2>2 DEF Replaces
    <3> QED
      BY <3>1 DEF WithOther
  <2>3. ASSUME NEW op, NEW g, Replaces(t, Frame(op, g, "lock")) PROVE frame'[t][depth[t]].pc # "call"
    <3>1. frame'[t][depth[t]] = Frame(op, g, "lock")
      BY <2>3 DEF Replaces
    <3> QED
      BY <3>1 DEF Frame
  <2> QED
    BY <2>1, <2>2, <2>3
<1> QED
  BY <1>1, <1>2, <1>3, <1>4, <1>5, <1>6 DEF FlatStep

LEMMA FlatCalls ==
  ASSUME IInv, Stacks', NEW t \in Threads, NEW f \in Futures, FlatStep(t, f),
         NEW v \in Threads, NEW e \in 1..depth'[v], NEW g, HasAt(v, e, "job", g, "call")'
  PROVE  \/ HasAt(v, e, "job", g, "call")
         \/ DecideF(t, f) /\ g = f /\ \E taking \in BOOLEAN :
              /\ takers' = IF taking THEN takers \cup {f} ELSE takers
              /\ Verdict(f, taking) = "call"
<1>0. Stacks /\ depth[t] \in Nat
  BY FramesType DEF IInv
<1>1. Local(t) /\ depth[t] > 0 /\ StackMove(t, f)
  BY <1>0, FlatLocal, FlatMoves
<1>2. frame'[v][e].op = "job" /\ frame'[v][e].f = g /\ frame'[v][e].pc = "call"
  BY DEF HasAt, Has
<1>3. CASE e \in 1..depth[v] /\ ~IsTop(t, v, e)
  BY <1>1, <1>2, <1>3 DEF Local, HasAt, Has
<1>4. CASE v = t /\ e = depth[t] /\ ~Pops(t)
  <2>1. DecideF(t, f)
    BY <1>2, <1>4, TopAfter
  <2>2. TopOf(t).f = f
    BY <2>1 DEF DecideF, Now
  <2>3. PICK taking \in BOOLEAN :
          /\ takers' = IF taking THEN takers \cup {f} ELSE takers
          /\ Replaces(t, With(TopOf(t), Verdict(f, taking)))
    BY <1>4, <2>1 DEF DecideF
  <2>4. PICK pc : pc = Verdict(f, taking)
    OBVIOUS
  <2>5. frame'[t][depth[t]].f = f /\ frame'[t][depth[t]].pc = pc
    BY <2>2, <2>3, <2>4 DEF Replaces, With
  <2> QED
    BY <1>2, <1>4, <2>1, <2>3, <2>4, <2>5
<1>5. CASE v = t /\ e = depth[t] + 1 /\ \E x, y : Pushes(t, x, y)
  <2>1. ~Pops(t) /\ \A x : ~Replaces(t, x)
    BY <1>0, <1>5 DEF Pushes, Pops, Replaces
  <2>2. PICK x, y : /\ Pushes(t, x, y)
                    /\ x.op = "job" => x.f = f + 1 /\ x.pc = "check" /\ Begins(t, f)
    BY <1>1, <2>1 DEF StackMove
  <2>3. frame'[v][e] = x
    BY <1>5, <2>2 DEF Pushes
  <2> QED
    BY <1>2, <2>2, <2>3
<1> QED
  BY <1>1, <1>3, <1>4, <1>5 DEF Local

LEMMA StoppedStays ==
  ASSUME IInv, Stacks', NEW t \in Threads, NEW f \in Futures, FlatStep(t, f),
         NEW g \in 1..Last, StopOk(g)
  PROVE  StopOk(g)'
<1>g. Grows
  BY FlatGrows
<1>s. Stacks /\ Shape
  BY FramesType DEF IInv
<1>0. /\ Last \in Nat \ {0} /\ Futures = 0..Last /\ Stacks /\ Shape /\ Grows
      /\ jobs \in [Futures -> Nat] /\ called \in [Futures -> Nat] /\ g \in Futures
  BY <1>g, <1>s, ChainAssumption DEF IInv, Futures, States
\* A verdict calls its function only with the QFuture.
<1>1. ASSUME DecideF(t, f), f = g, NEW taking \in BOOLEAN,
             takers' = IF taking THEN takers \cup {f} ELSE takers,
             Verdict(f, taking) = "call"
      PROVE  g \in takers'
  <2>1. Now(t, "job", f, "check") /\ f > 0
    BY <1>1 DEF DecideF
  <2>2. jobs[f] = 0
    <3>1. CallOk(TopOf(t), TRUE) /\ TopOf(t).op = "job" /\ TopOf(t).f = f /\ TopOf(t).pc = "check"
      BY <2>1, TopOk
    <3> QED
      BY <3>1 DEF CallOk, JobOk
  <2>3. PICK p \in 0..(g - 1) : Swept(p, g) \/ Hushed(p, g)
    BY <1>1, <2>2 DEF StopOk
  <2>4. p \in Nat /\ f \in (p + 1)..g
    BY <1>0, <1>1
  <2>5. kind[f] = "then" /\ IsChainCanceled(f - 1)
    BY <1>0, <1>1, <2>1, <2>3, <2>4, SweptCanceled, HushedCanceled DEF IsChainCanceled
  <2>6. taking
    BY <1>1, <2>5, Verdicts DEF IInv
  <2> QED
    BY <1>1, <2>6
<1>2. ASSUME called'[g] > 0 PROVE g \in takers'
  <2>1. CASE CallF(t, f) /\ f = g
    <3>1. depth[t] \in 1..depth[t] /\ HasAt(t, depth[t], "job", g, "call")
      BY <1>0, <2>1, TopPlace DEF CallF, Now, HasAt, Has
    <3> QED
      BY <1>0, <3>1 DEF StopOk, Callable, Grows
  <2>2. CASE ~(CallF(t, f) /\ f = g)
    <3>1. called'[g] = called[g]
      BY <1>0, <2>2, FlatCounts DEF CallF
    <3> QED
      BY <1>0, <1>2, <3>1 DEF StopOk, Callable, Grows
  <2> QED
    BY <2>1, <2>2
<1>3. ASSUME g \in queue' PROVE g \in takers'
  <2>1. CASE g \in queue
    BY <1>0, <2>1 DEF StopOk, Callable, Grows
  <2>2. CASE g \notin queue
    <3>1. DecideF(t, f)
      BY <1>3, <2>2, FlatCounts
    <3>2. PICK taking \in BOOLEAN :
            /\ takers' = IF taking THEN takers \cup {f} ELSE takers
            /\ g = f /\ Verdict(f, taking) = "call"
      BY <1>3, <2>2, <3>1 DEF DecideF
    <3> QED
      BY <1>1, <3>1, <3>2
  <2> QED
    BY <2>1, <2>2
<1>4. ASSUME NEW v \in Threads, NEW d \in 1..depth'[v], HasAt(v, d, "job", g, "call")'
      PROVE  g \in takers'
  <2>1. CASE HasAt(v, d, "job", g, "call")
    <3>1. d \in 1..depth[v]
      BY <2>1 DEF HasAt, Has
    <3> QED
      BY <1>0, <2>1, <3>1 DEF StopOk, Callable, Grows
  <2>2. CASE ~HasAt(v, d, "job", g, "call")
    BY <1>1, <1>4, <2>2, FlatCalls
  <2> QED
    BY <2>1, <2>2
<1>5. ASSUME jobs'[g] = 0 PROVE \E p \in 0..(g - 1) : Swept(p, g)' \/ Hushed(p, g)'
  <2>1. jobs[g] = 0
    BY <1>0, <1>5, FlatCounts DEF DecideF
  <2>2. PICK p \in 0..(g - 1) : Swept(p, g) \/ Hushed(p, g)
    BY <2>1 DEF StopOk
  <2>3. p \in Nat /\ p \in Futures
    BY <1>0
  <2>4. Swept(p, g)' \/ Hushed(p, g)'
    BY <2>2, <2>3, SweptStays, HushedStays
  <2> QED
    BY <2>4
<1> QED
  BY <1>2, <1>3, <1>4, <1>5 DEF StopOk, Callable

\* Nothing has begun below a continuation that has not.
LEMMA BelowOk ==
  ASSUME IInv, NEW f \in Futures, NEW g \in Below(f)
  PROVE  /\ g \in 1..Last /\ g > f /\ jobs[g] = 0
         /\ \A h \in (f + 1)..g : kind[h] = "then" /\ link[h - 1].data
         /\ ~Callable(g)
<1>0. /\ Last \in Nat \ {0} /\ Futures = 0..Last /\ JobCounts /\ Progress
      /\ called \in [Futures -> Nat]
  BY ChainAssumption DEF IInv, Once, Futures, States
<1>1. /\ g \in 1..Last /\ g > f /\ jobs[g] = 0
      /\ \A h \in (f + 1)..g : kind[h] = "then" /\ link[h - 1].data
  BY <1>0 DEF Below
<1>2. called[g] = 0 /\ g \notin queue
  <2>1. called[g] \in Nat /\ g \in 1..Last /\ jobs[g] = 0
    BY <1>0, <1>1
  <2>2. (called[g] > 0 => jobs[g] = 1) /\ (g \in queue => jobs[g] = 1)
    BY <1>0, <2>1 DEF JobCounts
  <2> QED
    BY <2>1, <2>2
<1>3. ASSUME NEW t \in Threads, NEW d \in 1..depth[t], HasAt(t, d, "job", g, "call") PROVE FALSE
  <2>1. frame[t][d].op = "job" /\ frame[t][d].f = g /\ frame[t][d].pc = "call"
    BY <1>3 DEF HasAt, Has
  <2>2. CallOk(frame[t][d], d = depth[t])
    BY <1>0 DEF Progress
  <2>3. JobOk(frame[t][d], d = depth[t])
    BY <2>1, <2>2 DEF CallOk
  <2>4. g > 0
    BY <1>0, <1>1
  <2> QED
    BY <1>1, <2>1, <2>3, <2>4 DEF JobOk
<1> QED
  BY <1>1, <1>2, <1>3 DEF Callable

\* A cancel() that returns has left something canceled above each of them.
LEMMA NewlyStopped ==
  ASSUME IInv, NEW t \in Threads, NEW f \in Futures,
         CancelNotF(t, f) \/ LinksF(t, f) \/ WalkF(t, f),
         NEW g \in stopped', g \notin stopped
  PROVE  g \in Below(f) /\ (Swept(f, g)' \/ Hushed(f, g)')
<1>0. /\ Last \in Nat \ {0} /\ Futures = 0..Last /\ Stacks /\ Shape /\ f \in Nat
      /\ \A h \in (f + 1)..Last : h \in 1..Last /\ h - 1 \in Futures /\ h > f
  BY ChainAssumption DEF IInv, Futures
<1>1. /\ UNCHANGED <<kind, future, jobs>> /\ g \in Below(f) /\ stopped' # stopped
  BY DEF CancelNotF, LinksF, WalkF, fixed
<1>2. /\ g \in 1..Last /\ g > f /\ jobs[g] = 0 /\ g \in Nat
      /\ \A h \in (f + 1)..g : h \in (f + 1)..Last /\ kind[h] = "then" /\ link[h - 1].data
  <2>1. /\ g \in 1..Last /\ g > f /\ jobs[g] = 0
        /\ \A h \in (f + 1)..g : kind[h] = "then" /\ link[h - 1].data
    BY <1>1, BelowOk
  <2> QED
    BY <1>0, <2>1
<1>3. CASE CancelNotF(t, f)
  <2>1. future[f].canceled /\ ~future[f].finished /\ ~future[f].exception
    BY <1>1, <1>3 DEF CancelNotF
  <2>2. Muted(f)'
    BY <1>1, <2>1 DEF Muted
  <2>3. ASSUME NEW h \in (f + 1)..g, jobs[h] = 0, h - 1 = f \/ jobs[h - 1] = 1
        PROVE  h - 1 = f
    <3>1. PICK q \in Futures : q = h - 1 /\ q >= f /\ q < g
      BY <1>0, <1>2
    <3>2. ASSUME q # f PROVE FALSE
      <4>1. jobs[q] = 1 /\ q \in 1..Last /\ q - 1 \in Futures /\ f \in 0..(q - 1)
        BY <1>0, <2>3, <3>1, <3>2
      <4>2. Begun(q)
        BY <4>1 DEF Begun
      <4>3. link[q - 1].executed
        BY <4>1, <4>2 DEF IInv, Once, Executed
      <4>4. future[f].finished
        BY <4>1, <4>3 DEF IInv, Results
      <4> QED
        BY <2>1, <4>4
    <3> QED
      BY <3>1, <3>2
  <2>4. Hushed(f, g)'
    BY <1>1, <1>2, <2>2, <2>3 DEF Hushed
  <2> QED
    BY <1>1, <2>4
<1>4. CASE LinksF(t, f)
  <2>1. ~link[f].data
    BY <1>1, <1>4 DEF LinksF
  <2>2. f + 1 \in (f + 1)..g /\ (f + 1) - 1 = f
    BY <1>0, <1>2
  <2>3. link[(f + 1) - 1].data
    BY <1>2, <2>2
  <2> QED
    BY <2>1, <2>2, <2>3
<1>5. CASE WalkF(t, f)
  <2>1. PICK o : o = TopOf(t).other
    OBVIOUS
  <2>2. PICK op \in Cancels : Now(t, op, f, "walk")
    BY <1>5 DEF WalkF
  <2>3. /\ o \in Futures
        /\ ~(link[o].type = "then" /\ link[o].data)
        /\ \A d \in Futures \ {o} : link'[d] = link[d]
    BY <1>1, <1>5, <2>1 DEF WalkF, LinkElse
  <2>4. /\ future[f].canceled /\ link[o].type = kind[o]
        /\ \A d \in (f + 1)..(o - 1) : link[d].state # "Default"
    <3>1. CallOk(TopOf(t), TRUE)
      BY <2>2, TopOk
    <3>2. TopOf(t).op = op /\ TopOf(t).pc = "walk" /\ TopOf(t).f = f
      BY <2>2 DEF Now
    <3>3. CancelOk(TopOf(t))
      BY <3>1, <3>2 DEF CallOk
    <3> QED
      BY <2>1, <3>2, <3>3 DEF CancelOk
  <2>5. o > f
    <3>1. Placed(TopOf(t))
      BY <1>0, <2>2, TopPlace
    <3>2. TopOf(t).op \in Cancels /\ TopOf(t).pc = "walk" /\ TopOf(t).f = f
      BY <2>2 DEF Now
    <3> QED
      BY <2>1, <3>1, <3>2 DEF Placed
  <2>6. ~(o < g)
    <3>1. ASSUME o < g PROVE FALSE
      <4>1. o \in (f + 1)..g /\ o + 1 \in (f + 1)..g /\ (o + 1) - 1 = o
        BY <1>0, <1>2, <2>3, <2>5, <3>1
      <4>2. kind[o] = "then" /\ link[(o + 1) - 1].data
        BY <1>2, <4>1
      <4> QED
        BY <2>3, <2>4, <4>1, <4>2
    <3> QED
      BY <3>1
  <2>7. ASSUME NEW h \in (f + 1)..g, h - 1 # f PROVE Marked(h - 1)'
    <3>0. PICK q \in Futures : q = h - 1 /\ q >= f /\ q < g /\ q # f
      BY <1>0, <1>2, <2>7
    <3>1. q \in (f + 1)..(o - 1) /\ q # o
      BY <1>0, <1>2, <2>3, <2>6, <3>0
    <3>2. link[q].data /\ link[q].state # "Default"
      BY <1>2, <2>4, <3>0, <3>1
    <3>3. link[q].state = "Canceled"
      <4>1. link[q].state \in {"Default", "Canceled", "Cleaned"}
        BY DEF IInv, States
      <4>2. link[q].state # "Cleaned"
        BY <3>2 DEF IInv, Links
      <4> QED
        BY <3>2, <4>1, <4>2
    <3>4. link'[q] = link[q]
      BY <2>3, <3>1
    <3>5. Marked(q)'
      BY <3>2, <3>3, <3>4 DEF Marked
    <3> QED
      BY <3>0, <3>5
  <2>8. Swept(f, g)'
    BY <1>1, <1>2, <2>4, <2>7 DEF Swept
  <2> QED
    BY <1>1, <2>8
<1> QED
  BY <1>3, <1>4, <1>5

LEMMA StoppedNext ==
  ASSUME IInv, Stacks', NEW t \in Threads, NEW f \in Futures, FlatStep(t, f)
  PROVE  Stopped'
<1>0. stopped \subseteq 1..Last /\ Stopped /\ Last \in Nat \ {0} /\ Futures = 0..Last
  BY ChainAssumption DEF IInv, States, Futures
<1>1. ASSUME NEW g \in stopped PROVE StopOk(g)'
  <2>1. g \in 1..Last /\ StopOk(g)
    BY <1>0 DEF Stopped
  <2> QED
    BY <2>1, StoppedStays
<1>2. ASSUME NEW g \in stopped', g \notin stopped PROVE StopOk(g)'
  <2>1. CancelNotF(t, f) \/ LinksF(t, f) \/ WalkF(t, f)
    <3>1. stopped' # stopped
      BY <1>2
    <3>2. CASE DecideF(t, f) \/ CallF(t, f) \/ CancelF(t, f)
      BY <3>1, <3>2 DEF DecideF, CallF, CancelF
    <3> QED
      BY <3>1, <3>2 DEF FlatStep, PassF, CancelOwnF, AbandonF, FinishF, RunsF, CleanF, SetRunF,
         SetStoreF, SetBackF, RunF, RunNotF, RunBackF, ChainF, ChainCancelF, ClientF, history
  <2>2. g \in Below(f) /\ (Swept(f, g)' \/ Hushed(f, g)')
    BY <1>2, <2>1, NewlyStopped
  <2>3. g \in 1..Last /\ g > f /\ ~Callable(g)
    BY <2>2, BelowOk
  <2>4. UNCHANGED <<called, queue>>
    BY <2>1 DEF CancelNotF, LinksF, WalkF
  <2>5. ~DecideF(t, f)
    BY <2>1 DEF CancelNotF, LinksF, WalkF, DecideF, Now
  <2>6. ASSUME NEW v \in Threads, NEW d \in 1..depth'[v], HasAt(v, d, "job", g, "call")'
        PROVE  FALSE
    <3>1. HasAt(v, d, "job", g, "call")
      BY <2>5, <2>6, FlatCalls
    <3> QED
      BY <2>3, <3>1 DEF Callable, HasAt, Has
  <2>7. f \in 0..(g - 1)
    BY <1>0, <2>3
  <2> QED
    BY <2>2, <2>3, <2>4, <2>6, <2>7 DEF StopOk, Callable
<1>3. \A g \in stopped' : StopOk(g)'
  BY <1>1, <1>2
<1> QED
  BY <1>3 DEF Stopped

LEMMA FirstStopped ==
  ASSUME IInv, Stacks', NEW t \in Threads, NEW x \in FrameSet, First(t, x)
  PROVE  Stopped'
<1>0. Stacks /\ Stopped /\ stopped \subseteq 1..Last
  BY DEF IInv, States
<1>1. /\ \A v \in Threads : \A d \in 1..depth[v] :
           v # t /\ d \in 1..depth'[v] /\ frame'[v][d] = frame[v][d]
      /\ \A v \in Threads : \A d \in 1..depth'[v] :
           d \in 1..depth[v] \/ (v = t /\ d = 1)
      /\ 1 \in 1..depth'[t] /\ frame'[t][1] = x
      /\ depth[t] = 0 /\ \A v \in Threads \ {t} : depth'[v] = depth[v] /\ frame'[v] = frame[v]
  <2>1. Starts(t, x)
    BY DEF First
  <2> QED
    BY <1>0, <2>1, StartFrames DEF Starts, Elsewhere
<1>2. /\ UNCHANGED <<kind, future, link, built, jobs, called, takers, stopped>> /\ queue' \subseteq queue
      /\ x.op = "job" => x.f \in queue
  BY DEF First, fixed, history
<1>3. ASSUME NEW p, Muted(p) PROVE Muted(p)'
  <2>1. CASE future[p].canceled
    BY <1>2, <1>3, <2>1 DEF Muted
  <2>2. ASSUME NEW v \in Threads, depth[v] > 0, NEW y, y = frame[v][depth[v]], y.f = p,
               \/ y.op = "job" /\ y.pc = "cancel"
               \/ y.op = "cancel" /\ y.pc = "lock" /\ depth[v] > 1
        PROVE  Muted(p)'
    <3>1. depth'[v] = depth[v] /\ frame'[v] = frame[v]
      BY <1>1, <2>2
    <3> QED
      BY <1>2, <1>3, <2>2, <3>1 DEF Muted
  <2> QED
    BY <1>3, <2>1, <2>2 DEF Muted
<1>4. ASSUME NEW g \in stopped PROVE StopOk(g)'
  <2>1. StopOk(g)
    BY <1>0 DEF Stopped
  <2>2. ASSUME NEW v \in Threads, NEW d \in 1..depth'[v], HasAt(v, d, "job", g, "call")'
        PROVE  g \in takers
    <3>1. CASE d \in 1..depth[v]
      <4>1. HasAt(v, d, "job", g, "call")
        BY <1>1, <2>2, <3>1 DEF HasAt, Has
      <4> QED
        BY <2>1, <3>1, <4>1 DEF StopOk, Callable
    <3>2. CASE v = t /\ d = 1
      <4>1. x.op = "job" /\ x.f = g
        BY <1>1, <2>2, <3>2 DEF HasAt, Has
      <4> QED
        BY <1>2, <2>1, <4>1 DEF StopOk, Callable
    <3> QED
      BY <1>1, <3>1, <3>2
  <2>3. ASSUME NEW p, Hushed(p, g) PROVE Hushed(p, g)'
    BY <1>2, <1>3, <2>3 DEF Hushed
  <2>4. ASSUME NEW p, Swept(p, g) PROVE Swept(p, g)'
    BY <1>2, <2>4 DEF Swept, Marked
  <2>5. jobs'[g] = 0 => \E p \in 0..(g - 1) : Swept(p, g)' \/ Hushed(p, g)'
    BY <1>2, <2>1, <2>3, <2>4 DEF StopOk
  <2>6. Callable(g)' => g \in takers'
    BY <1>2, <2>1, <2>2 DEF StopOk, Callable
  <2> QED
    BY <2>5, <2>6 DEF StopOk
<1>5. \A g \in stopped' : StopOk(g)'
  BY <1>2, <1>4
<1> QED
  BY <1>5 DEF Stopped

-----------------------------------------------------------------------------
(* The invariant.                                                          *)

LEMMA Preserved ==
  ASSUME IInv, Next
  PROVE  IInv'
<1>1. States' /\ Stacks' /\ FlatNext
  BY Flat
<1>2. Shape' /\ Progress'
  BY <1>1, FlatShape, FlatProgress
<1>3. ASSUME NEW t \in Threads, NEW f \in Futures, FlatStep(t, f)
      PROVE  Once' /\ Results' /\ Links' /\ Stopped'
  <2>1. OneJob' /\ Executed' /\ JobCounts' /\ Attached' /\ NoneForgotten'
    BY <1>1, <1>3, OneJobNext, ExecutedNext, JobCountsNext, AttachedNext, NoneForgottenNext
  <2>2. Results' /\ Links' /\ Stopped'
    BY <1>1, <1>3, ResultsNext, LinksNext, StoppedNext
  <2> QED
    BY <2>1, <2>2 DEF Once
<1>4. ASSUME AttachF \/ \E f \in Futures : TakeF(f)
      PROVE  Once' /\ Results' /\ Links' /\ Stopped'
  <2>1. PICK t \in Threads, x \in FrameSet : First(t, x)
    BY <1>4, FirstCalls DEF IInv
  <2> QED
    BY <1>1, <2>1, FirstOnce, FirstStopped
<1>5. Once' /\ Results' /\ Links' /\ Stopped'
  BY <1>1, <1>3, <1>4 DEF FlatNext
<1> QED
  BY <1>1, <1>2, <1>5 DEF IInv

LEMMA Starting ==
  ASSUME Init
  PROVE  IInv
<1> USE DEF AllPcs, JobPcs, OtherPcs, Early, Ops, Cancels
<1> DEFINE own == Frame("job", 0, "call")
           out == Frame("client", 0, "out")
<1>0. 0 \in Futures /\ Last \in Nat /\ Last > 0 /\ Owner \notin Cancellers
      /\ Builder \notin Cancellers /\ Pool \notin Cancellers
      /\ Owner # Builder /\ Owner # Pool
  BY ChainAssumption DEF Futures
<1>1. own \in FrameSet /\ out \in FrameSet
  BY <1>0 DEF FrameSet, Frame
<1>2. /\ <<own>> \in Seq(FrameSet) /\ Len(<<own>>) = 1 /\ <<own>>[1] = own
      /\ <<out>> \in Seq(FrameSet) /\ Len(<<out>>) = 1 /\ <<out>>[1] = out
      /\ <<>> \in Seq(FrameSet)
  BY <1>1
<1> HIDE DEF own, out
<1>3. stack = [t \in Threads |-> CASE t = Owner        -> <<own>>
                                   [] t \in Cancellers -> <<out>>
                                   [] OTHER            -> <<>>]
  BY DEF Init, own, out
<1>4. /\ stack[Owner] = <<own>> /\ \A t \in Cancellers : stack[t] = <<out>>
      /\ \A t \in Threads : t # Owner /\ t \notin Cancellers => stack[t] = <<>>
  BY <1>0, <1>3 DEF Threads
<1>5. Stacks
  BY <1>0, <1>2, <1>3 DEF Stacks
<1>6. ASSUME NEW t \in Threads, NEW d \in 1..depth[t]
      PROVE  /\ d = 1 /\ depth[t] = 1
             /\ \/ t = Owner /\ frame[t][d] = own
                \/ t \in Cancellers /\ frame[t][d] = out
  <2>1. depth[t] = Len(stack[t]) /\ frame[t] = [e \in 1..Len(stack[t]) |-> stack[t][Len(stack[t]) + 1 - e]]
    BY DEF depth, frame
  <2>2. CASE t = Owner
    <3>1. stack[t] = <<own>> /\ Len(stack[t]) = 1 /\ stack[t][1] = own
      BY <1>2, <1>4, <2>2
    <3>2. depth[t] = 1 /\ d = 1
      BY <1>6, <2>1, <3>1
    <3>3. frame[t][1] = stack[t][1]
      BY <2>1, <3>1
    <3> QED
      BY <2>2, <3>1, <3>2, <3>3
  <2>3. CASE t \in Cancellers
    <3>1. stack[t] = <<out>> /\ Len(stack[t]) = 1 /\ stack[t][1] = out
      BY <1>2, <1>4, <2>3
    <3>2. depth[t] = 1 /\ d = 1
      BY <1>6, <2>1, <3>1
    <3>3. frame[t][1] = stack[t][1]
      BY <2>1, <3>1
    <3> QED
      BY <2>3, <3>1, <3>2, <3>3
  <2>4. CASE t # Owner /\ t \notin Cancellers
    BY <1>4, <1>6, <2>1, <2>4
  <2> QED
    BY <2>2, <2>3, <2>4
<1>7. /\ own.op = "job" /\ own.f = 0 /\ own.pc = "call"
      /\ out.op = "client" /\ out.f = 0 /\ out.pc = "out"
  BY DEF own, out, Frame
<1>8. \A t \in Threads : depth[t] \in Nat
  BY <1>5, FramesType
<1>9. /\ \A f \in Futures : /\ ~future[f].finished /\ ~future[f].canceled
                            /\ ~link[f].stored /\ ~link[f].executed /\ ~link[f].data
                            /\ ~link[f].parent /\ link[f].type = "Unknown"
                            /\ link[f].state = "Default" /\ jobs[f] = 0 /\ called[f] = 0
      /\ \A f \in Futures : ~future[f].exception
      /\ queue = {} /\ built = 0 /\ takers = {} /\ stopped = {}
  BY DEF Init, NoOutcome, NoLink
<1>10. States
  <2>1. NoOutcome \in OutcomeSet /\ NoLink \in LinkSet
    BY DEF NoOutcome, NoLink, OutcomeSet, LinkSet
  <2>2. future \in [Futures -> OutcomeSet] /\ link \in [Futures -> LinkSet]
    BY <2>1 DEF Init
  <2>3. /\ kind \in [1..Last -> Kinds] /\ async \in [1..Last -> BOOLEAN] /\ promised \in BOOLEAN
        /\ \A f \in 1..Last : async[f] => kind[f] = "then"
        /\ jobs \in [Futures -> Nat] /\ called \in [Futures -> Nat]
    BY DEF Init
  <2> QED
    BY <1>0, <1>9, <2>2, <2>3 DEF States, OutcomeSet, LinkSet
<1>11. Shape
  <2>1. Outermost
    BY <1>0, <1>6, <1>7, <1>8 DEF Outermost
  <2>2. Nested
    <3>1. \A t \in Threads : depth[t] = 0 \/ depth[t] = 1
      <4>1. ASSUME NEW t \in Threads, depth[t] # 0 PROVE depth[t] = 1
        <5>1. 1 \in 1..depth[t]
          BY <1>8, <4>1
        <5> QED
          BY <1>6, <5>1
      <4> QED
        BY <4>1
    <3> QED
      BY <3>1 DEF Nested
  <2>3. Places
    BY <1>6, <1>7 DEF Places, PcsOf
  <2> QED
    BY <2>1, <2>2, <2>3 DEF Shape
<1>12. Once
  <2>1. OneJob
    BY <1>0, <1>6, <1>7, <1>9 DEF OneJob
  <2>2. Executed
    <3>1. \A f \in 1..Last : f # 0 /\ f \in Futures /\ f - 1 \in Futures
      BY <1>0 DEF Futures
    <3>2. \A f \in 1..Last : ~Begun(f)
      BY <1>6, <1>7, <1>9, <3>1 DEF Begun, Has
    <3> QED
      BY <1>9, <3>1, <3>2 DEF Executed
  <2>3. JobCounts
    <3>1. \A f \in 1..Last : f \in Futures
      BY <1>0 DEF Futures
    <3> QED
      BY <1>0, <1>9, <3>1 DEF JobCounts
  <2>4. Attached
    <3>1. \A f \in 0..Last : f \in Futures
      BY DEF Futures
    <3>2. Builder \in Threads
      BY DEF Threads
    <3>3. \A f : ~HasAt(Builder, 1, "set", f, "store")
      BY <1>0, <1>6, <3>2 DEF HasAt, Has
    <3> QED
      BY <1>9, <3>1, <3>3 DEF Attached
  <2>5. NoneForgotten
    BY <1>9 DEF NoneForgotten
  <2> QED
    BY <2>1, <2>2, <2>3, <2>4, <2>5 DEF Once
<1>13. Results /\ Links
  <2>1. \A f \in 1..Last : f \in Futures /\ f - 1 \in Futures
    BY <1>0 DEF Futures
  <2> QED
    BY <1>9, <2>1 DEF Results, Links
<1>14. Progress
  BY <1>0, <1>6, <1>7, <1>9 DEF Progress, CallOk, JobOk
<1>15. Stopped
  BY <1>9 DEF Stopped
<1> QED
  BY <1>5, <1>10, <1>11, <1>12, <1>13, <1>14, <1>15 DEF IInv

LEMMA Stuttering ==
  ASSUME IInv, UNCHANGED vars
  PROVE  IInv'
<1>1. /\ kind' = kind /\ async' = async /\ promised' = promised /\ future' = future /\ link' = link
      /\ stack' = stack /\ queue' = queue /\ built' = built /\ jobs' = jobs
      /\ called' = called /\ takers' = takers /\ stopped' = stopped
  BY DEF vars, fixed, history
<1>2. depth' = depth /\ frame' = frame
  BY <1>1 DEF depth, frame
<1>3. States' /\ Stacks' /\ Shape'
  BY <1>1, <1>2 DEF IInv, States, Stacks, Shape, Outermost, Nested, Places, Calls
<1>4. Once'
  BY <1>1, <1>2 DEF IInv, Once, OneJob, Executed, Begun, Due, Has, HasAt, JobCounts, Attached,
     NoneForgotten, Comes
<1>5. Results' /\ Links' /\ Progress'
  BY <1>1, <1>2 DEF IInv, Results, Queued, Links, Progress, CallOk, JobOk, CancelOk
<1>6. Stopped'
  BY <1>1, <1>2 DEF IInv, Stopped, StopOk, Callable, Swept, Hushed, Marked, Muted, Has, HasAt
<1> QED
  BY <1>3, <1>4, <1>5, <1>6 DEF IInv

\* The inductive invariant holds, whoever cancels what and when.
THEOREM Invariance == Spec => []IInv
<1>1. Init => IInv
  BY Starting
<1>2. IInv /\ [Next]_vars => IInv'
  BY Preserved, Stuttering
<1> QED
  BY <1>1, <1>2, PTL DEF Spec

\* Running(), which looks at the stacks from the innermost call outwards, level by level.
LEMMA RunningIs ==
  ASSUME Stacks, NEW op, NEW f, NEW pcs
  PROVE  Running(op, f, pcs) <=>
           \E t \in Threads : \E d \in 1..depth[t] : Has(t, d, op, f) /\ frame[t][d].pc \in pcs
<1>1. ASSUME NEW t \in Threads
      PROVE  /\ depth[t] = Len(stack[t]) /\ depth[t] \in Nat
             /\ frame[t] = [d \in 1..Len(stack[t]) |-> stack[t][Len(stack[t]) + 1 - d]]
  BY FramesType DEF depth, frame
<1>2. ASSUME NEW n \in Nat, NEW i \in 1..n PROVE n + 1 - i \in 1..n /\ n + 1 - (n + 1 - i) = i
  OBVIOUS
<1>3. ASSUME NEW t \in Threads, NEW i \in 1..Len(stack[t]),
             stack[t][i].op = op /\ stack[t][i].f = f /\ stack[t][i].pc \in pcs
      PROVE  \E d \in 1..depth[t] : Has(t, d, op, f) /\ frame[t][d].pc \in pcs
  <2>1. PICK d : d = Len(stack[t]) + 1 - i
    OBVIOUS
  <2>2. d \in 1..Len(stack[t]) /\ Len(stack[t]) + 1 - d = i
    BY <1>1, <1>2, <1>3, <2>1
  <2>3. d \in 1..depth[t] /\ frame[t][d] = stack[t][i]
    BY <1>1, <1>3, <2>2
  <2> QED
    BY <1>3, <2>3 DEF Has
<1>4. ASSUME NEW t \in Threads, NEW d \in 1..depth[t], Has(t, d, op, f), frame[t][d].pc \in pcs
      PROVE  \E i \in 1..Len(stack[t]) :
               stack[t][i].op = op /\ stack[t][i].f = f /\ stack[t][i].pc \in pcs
  <2>1. PICK i : i = Len(stack[t]) + 1 - d
    OBVIOUS
  <2>0. d \in 1..Len(stack[t]) /\ Len(stack[t]) \in Nat
    BY <1>1
  <2>2. i \in 1..Len(stack[t]) /\ frame[t][d] = stack[t][i]
    <3>1. i \in 1..Len(stack[t])
      BY <1>2, <2>0, <2>1
    <3>2. frame[t][d] = stack[t][Len(stack[t]) + 1 - d]
      BY <1>1, <2>0
    <3> QED
      BY <2>1, <3>1, <3>2
  <2>3. stack[t][i].op = op /\ stack[t][i].f = f /\ stack[t][i].pc \in pcs
    BY <1>4, <2>2 DEF Has
  <2> QED
    BY <2>2, <2>3
<1> QED
  BY <1>3, <1>4 DEF Running

LEMMA SaneNow == ASSUME IInv PROVE ChainSane
<1>1. States /\ Stacks /\ Shape /\ Once
  BY DEF IInv
<1>2. TypeOK
  <2>1. ASSUME NEW t \in Threads, stack[t] # <<>>
        PROVE  /\ Top(t).f \in Futures
               /\ Top(t).pc \in {"walk", "up", "next"} => Top(t).other \in Futures
    <3>1. depth[t] \in Nat /\ depth[t] > 0 /\ Top(t) = TopOf(t) /\ TopOf(t) \in FrameSet
      BY <1>1, <2>1, FramesType
    <3>2. PICK x : x = TopOf(t)
      OBVIOUS
    <3>3. x \in FrameSet /\ Top(t) = x /\ depth[t] \in 1..depth[t] /\ frame[t][depth[t]] = x
      BY <3>1, <3>2 DEF TopOf
    <3>4. x.f \in Futures /\ x.op \in Ops
      BY <3>3 DEF FrameSet
    <3>5. /\ x.pc \in PcsOf(x.op)
          /\ x.op \in Cancels /\ x.pc = "walk" => x.other > x.f /\ x.other <= Last
          /\ x.op = "cancelChain" /\ x.pc \in {"up", "next"} => x.other \in Futures
      BY <1>1, <3>3 DEF Shape, Places
    <3>6. x.other \in Futures \cup {Nobody}
      BY <3>3 DEF FrameSet
    <3>7. x.pc = "walk" => x.op \in Cancels
      BY <3>4, <3>5 DEF PcsOf
    <3>8. x.pc \in {"up", "next"} => x.op = "cancelChain"
      BY <3>4, <3>5 DEF PcsOf
    <3>9. x.pc = "walk" => x.other \in Futures
      BY <3>4, <3>5, <3>6, <3>7, ChainAssumption DEF Futures, Nobody
    <3> QED
      BY <3>3, <3>4, <3>5, <3>8, <3>9
  <2> QED
    BY <1>1, <2>1 DEF TypeOK, States
<1>3. RunOnce
  <2>1. \A f \in Futures : jobs[f] <= 1 /\ called[f] <= 1
    BY <1>1 DEF Once, JobCounts
  <2>2. ASSUME NEW f \in Futures, link[f].stored, ~link[f].executed, future[f].finished
        PROVE  Running("job", f, {"destroyed"}) \/ Running("run", f, {"enter"})
    <3>1. Comes(f)
      BY <1>1, <2>2 DEF Once, NoneForgotten
    <3>2. /\ Running("job", f, {"destroyed"}) <=>
               \E t \in Threads : \E d \in 1..depth[t] :
                 Has(t, d, "job", f) /\ frame[t][d].pc \in {"destroyed"}
          /\ Running("run", f, {"enter"}) <=>
               \E t \in Threads : \E d \in 1..depth[t] :
                 Has(t, d, "run", f) /\ frame[t][d].pc \in {"enter"}
      BY <1>1, RunningIs
    <3> QED
      BY <3>1, <3>2 DEF Comes, HasAt
  <2> QED
    BY <2>1, <2>2 DEF RunOnce
<1> QED
  BY <1>2, <1>3 DEF ChainSane

LEMMA ReadyNow == ASSUME IInv PROVE InputReady
<1>1. Stacks /\ Once /\ Results /\ Progress /\ Last \in Nat
  BY ChainAssumption DEF IInv
<1>2. ASSUME NEW f \in 1..Last, Begun(f) PROVE future[f - 1].finished
  <2>1. link[f - 1].executed
    BY <1>1, <1>2 DEF Once, Executed
  <2>2. f - 1 \in Futures /\ f - 1 \in 0..(f - 1)
    BY <1>1 DEF Futures
  <2> QED
    BY <1>1, <2>1, <2>2 DEF Results
<1>3. ASSUME NEW f \in 1..Last, NEW t \in Threads, NEW d \in 1..depth[t], Has(t, d, "job", f),
             \/ frame[t][d].pc = "pass"
             \/ frame[t][d].pc = "call" /\ kind[f] = "then" /\ f \notin takers
      PROVE  future[f - 1].finished /\ future[f - 1].result
  <2>1. Begun(f)
    BY <1>3 DEF Begun
  <2>2. JobOk(frame[t][d], d = depth[t]) /\ frame[t][d].f = f
    BY <1>1, <1>3 DEF Progress, CallOk, Has
  <2> QED
    BY <1>2, <1>3, <2>1, <2>2 DEF JobOk
<1>4. ASSUME NEW f \in 1..Last, Running("job", f, {"call"}), kind[f] = "then", f \notin takers
      PROVE  future[f - 1].finished /\ future[f - 1].result
  <2>1. PICK t \in Threads : \E d \in 1..depth[t] :
               Has(t, d, "job", f) /\ frame[t][d].pc \in {"call"}
    BY <1>1, <1>4, RunningIs
  <2> QED
    BY <1>3, <1>4, <2>1
<1>5. ASSUME NEW f \in 1..Last, Running("job", f, {"pass"})
      PROVE  future[f - 1].finished /\ future[f - 1].result
  <2>1. PICK t \in Threads : \E d \in 1..depth[t] :
               Has(t, d, "job", f) /\ frame[t][d].pc \in {"pass"}
    BY <1>1, <1>5, RunningIs
  <2> QED
    BY <1>3, <2>1
<1>6. ASSUME NEW f \in 1..Last, f \in queue, f \notin takers
      PROVE  future[f - 1].finished /\ future[f - 1].result
  BY <1>1, <1>2, <1>6 DEF Results, Queued, Begun
<1>7. ASSUME NEW f \in 1..Last, f \in takers
      PROVE  future[f - 1].finished /\ future[f - 1].exception
  <2>1. future[f - 1].exception /\ jobs[f] = 1
    BY <1>1, <1>7 DEF Results
  <2>2. Begun(f)
    BY <2>1 DEF Begun
  <2> QED
    BY <1>2, <2>1, <2>2
<1> QED
  BY <1>4, <1>5, <1>6, <1>7 DEF InputReady, Launched

LEMMA StoppedNow == ASSUME IInv PROVE CancelStops
  BY DEF IInv, Stopped, StopOk, Callable, Results, CancelStops

\* However setContinuation(), runContinuation() and cleanContinuation() fall
\* together, a continuation is run once, a finished future forgets none, and a
\* call that goes along the chain never leaves it.
THEOREM ChainIsSane == Spec => []ChainSane
  BY Invariance, SaneNow, PTL

\* A then() function and a handler that passes its parent's result on find it, a
\* function that takes the QFuture of a failed parent finds the exception: nobody
\* takes either away between the verdict, or the launch, and the call.
THEOREM InputIsReady == Spec => []InputReady
  BY Invariance, ReadyNow, PTL

\* When cancelImpl() has returned, a then() function that was linked below its
\* future and not looked at yet is not called any more, unless it takes a QFuture
\* and its parent has ended with an exception.  A call of cancelImpl() that found
\* its future canceled already counts only if the future was neither finished nor
\* canceled by an exception (NothingToCancel).
THEOREM CancelHasStopped == Spec => []CancelStops
  BY Invariance, StoppedNow, PTL

=============================================================================
