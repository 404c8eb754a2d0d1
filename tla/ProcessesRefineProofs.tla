----------------------- MODULE ProcessesRefineProofs -----------------------
(***************************************************************************)
(* Processes implements TerminalJobs, the safety part: the initial state   *)
(* is one of the abstract specification and every step is a step of it or  *)
(* a stutter, for any number of slots and terminals, as long as the        *)
(* hazards that break the isolation of processes stay away.                *)
(***************************************************************************)
EXTENDS ProcessesIsolation, ProcessesRefine, SequenceTheorems, NaturalsInduction,
        WellFoundedInduction

-----------------------------------------------------------------------------
(* The recursive definition of Ancestors. *)

LEMMA Least ==
    ASSUME NEW T \in SUBSET Nat, T # {}
    PROVE  \E x \in T : \A y \in T : x <= y
<1> DEFINE R == {ss \in Nat \X Nat : ss[1] < ss[2]}
<1>1. IsWellFoundedOn(R, Nat)
  BY NatLessThanWellFounded DEF OpToRel
<1> HIDE DEF R
<1>2. PICK x \in T : \A y \in T : ~(<<y, x>> \in R)
  BY <1>1, WFMin
<1>3. \A y \in T : ~(y < x)
  BY <1>2 DEF R
<1> QED
  BY <1>3

\* One level of the recursion, from the level before it.
Level(parent, n, before) ==
    [p \in Slots \cup {NULL} |->
        IF n = 0 \/ p = NULL THEN <<>> ELSE Append(before[parent[p]], p)]

\* f follows the recursion up to level m.
Follows(f, parent, m) == f = [n \in 0 .. m |-> Level(parent, n, f[n - 1])]

LEMMA LevelExists ==
    ASSUME NEW parent, NEW m \in Nat
    PROVE  \E f : Follows(f, parent, m)
<1> DEFINE T == {k \in Nat : ~\E f : Follows(f, parent, k)}
<1> SUFFICES ASSUME T # {} PROVE FALSE
  OBVIOUS
<1>1. PICK k \in T : \A y \in T : k <= y
  <2>1. T \in SUBSET Nat
    OBVIOUS
  <2> HIDE DEF T
  <2> QED
    BY <2>1, Least
<1>2. k \in Nat /\ ~\E f : Follows(f, parent, k)
  OBVIOUS
<1>3. CASE k = 0
  <2> DEFINE f == [n \in 0 .. 0 |-> Level(parent, 0, 0)]
  <2>1. \A n \in 0 .. 0 : Level(parent, n, f[n - 1]) = Level(parent, 0, 0)
    BY DEF Level
  <2>2. f = [n \in 0 .. 0 |-> Level(parent, n, f[n - 1])]
    BY <2>1
  <2> HIDE DEF f
  <2> QED
    BY <1>2, <1>3, <2>2 DEF Follows
<1>4. CASE k # 0
  <2>1. k - 1 \in Nat /\ k - 1 \notin T
    BY <1>1, <1>2, <1>4
  <2>2. PICK g : Follows(g, parent, k - 1)
    BY <2>1
  <2> DEFINE f == [n \in 0 .. k |-> IF n = k THEN Level(parent, k, g[k - 1]) ELSE g[n]]
  <2>3. \A n \in 0 .. k - 1 : f[n] = g[n] /\ g[n] = Level(parent, n, g[n - 1])
    BY <1>2, <2>2 DEF Follows
  <2>4. \A n \in 0 .. k : f[n] = Level(parent, n, f[n - 1])
    <3> SUFFICES ASSUME NEW n \in 0 .. k PROVE f[n] = Level(parent, n, f[n - 1])
      OBVIOUS
    <3>1. CASE n = k
      <4>1. k - 1 \in 0 .. k - 1 /\ f[k] = Level(parent, k, g[k - 1])
        BY <1>2, <2>1
      <4> HIDE DEF f
      <4> QED
        BY <2>3, <3>1, <4>1
    <3>2. CASE n # k /\ n # 0
      <4>1. n \in 0 .. k - 1 /\ n - 1 \in 0 .. k - 1
        BY <1>2, <3>2
      <4> HIDE DEF f
      <4> QED
        BY <2>3, <4>1
    <3>3. CASE n # k /\ n = 0
      <4>1. 0 \in 0 .. k - 1 /\ Level(parent, 0, g[0 - 1]) = Level(parent, 0, f[0 - 1])
        BY <1>2, <1>4 DEF Level
      <4> HIDE DEF f
      <4> QED
        BY <2>3, <3>3, <4>1
    <3> QED
      BY <3>1, <3>2, <3>3
  <2>5. f = [n \in 0 .. k |-> Level(parent, n, f[n - 1])]
    BY <2>4
  <2> HIDE DEF f
  <2> QED
    BY <1>2, <2>5 DEF Follows
<1> QED
  BY <1>3, <1>4

\* The refinement mapping, for any parents and tasks.
Ancestors(parent) ==
    LET up[x \in (0 .. MAX_PROCESSES) \X (Slots \cup {NULL})] ==
            LET n == x[1]
                p == x[2]
            IN  IF n = 0 \/ p = NULL THEN <<>> ELSE Append(up[<<n - 1, parent[p]>>], p)
    IN  up

ChainOf(parent, task) == [t \in Terms |-> Ancestors(parent)[<<MAX_PROCESSES, task[t]>>]]

Parents == [Slots -> Slots \cup {NULL}]

\* Ancestors is what its recursion says.
LEMMA AncestorsAt ==
    ASSUME NEW parent \in Parents, NEW n \in 0 .. MAX_PROCESSES, NEW p \in Slots \cup {NULL}
    PROVE  Ancestors(parent)[<<n, p>>] =
              IF n = 0 \/ p = NULL THEN <<>> ELSE Append(Ancestors(parent)[<<n - 1, parent[p]>>], p)
<1> DEFINE S == Slots \cup {NULL}
           N == 0 .. MAX_PROCESSES
           Up(f, x) == IF x[1] = 0 \/ x[2] = NULL THEN <<>>
                       ELSE Append(f[<<x[1] - 1, parent[x[2]]>>], x[2])
<1>1. MAX_PROCESSES \in Nat
  BY ProcessesAssumption
<1>2. PICK g : Follows(g, parent, MAX_PROCESSES)
  BY <1>1, LevelExists
<1> DEFINE f == [x \in N \X S |-> g[x[1]][x[2]]]
<1>3. \A i \in N, q \in S : f[<<i, q>>] = g[i][q]
  OBVIOUS
<1>4. \A x \in N \X S : f[x] = Up(f, x)
  <2> SUFFICES ASSUME NEW x \in N \X S PROVE f[x] = Up(f, x)
    OBVIOUS
  <2>0. PICK i \in N, q \in S : x = <<i, q>> /\ x[1] = i /\ x[2] = q
    OBVIOUS
  <2> HIDE DEF f
  <2>1. g[i] = Level(parent, i, g[i - 1])
    BY <1>2 DEF Follows
  <2>2. g[i][q] = IF i = 0 \/ q = NULL THEN <<>> ELSE Append(g[i - 1][parent[q]], q)
    BY <2>1 DEF Level
  <2>3. i # 0 /\ q # NULL => i - 1 \in N /\ parent[q] \in S
    BY <1>1 DEF Parents
  <2> QED
    BY <1>3, <2>0, <2>2, <2>3
<1>5. f = [x \in N \X S |-> Up(f, x)]
  BY <1>4
<1> HIDE DEF f
<1> DEFINE A == Ancestors(parent)
<1>6. A = [x \in N \X S |-> Up(A, x)]
  BY <1>5 DEF Ancestors
<1> HIDE DEF A
<1>7. A[<<n, p>>] = Up(A, <<n, p>>)
  BY <1>6
<1> QED
  BY <1>7 DEF A

-----------------------------------------------------------------------------
(* Stacks of processes. *)

\* s is the stack of terminal t: live processes of t, each the parent of the next,
\* the first without a parent and the last the task of the terminal.
Stack(s, t, live, task, parent, term) ==
    /\ s \in Seq(Slots)
    /\ s = <<>> <=> task[t] = NULL
    /\ s # <<>> => task[t] = s[Len(s)]
    /\ \A i \in 1 .. Len(s) :
          /\ s[i] \in live /\ term[s[i]] = t
          /\ parent[s[i]] = IF i = 1 THEN NULL ELSE s[i - 1]
    /\ \A i, k \in 1 .. Len(s) : s[i] = s[k] => i = k

Stacks(J, live, task, parent, term) ==
    /\ parent \in Parents
    /\ \A t \in Terms : Stack(J[t], t, live, task, parent, term)

\* No process is twice on a stack, so that no stack is higher than the table is long.
LEMMA StackHeight ==
    ASSUME NEW s \in Seq(Slots), \A i, k \in 1 .. Len(s) : s[i] = s[k] => i = k
    PROVE  Len(s) <= MAX_PROCESSES
<1>1. Len(s) \in Nat /\ s \in [1 .. Len(s) -> Slots]
  BY LenProperties
<1>2. IsFiniteSet(Slots) /\ Cardinality(Slots) = MAX_PROCESSES
  BY FS_Interval, ProcessesAssumption DEF Slots
<1>3. IsFiniteSet(1 .. Len(s)) /\ Cardinality(1 .. Len(s)) = Len(s)
  BY <1>1, FS_Interval
<1>4. ~(Cardinality(Slots) < Cardinality(1 .. Len(s)))
  BY <1>1, <1>2, <1>3, FS_PigeonHole
<1> QED
  BY <1>1, <1>2, <1>3, <1>4, ProcessesAssumption

\* Walking up the parents of the i-th process of a stack gives the stack up to it.
LEMMA StackWalk ==
    ASSUME NEW parent \in Parents, NEW s \in Seq(Slots), Len(s) <= MAX_PROCESSES,
           \A i \in 1 .. Len(s) : parent[s[i]] = IF i = 1 THEN NULL ELSE s[i - 1]
    PROVE  \A i \in 1 .. Len(s) : \A n \in i .. MAX_PROCESSES :
              Ancestors(parent)[<<n, s[i]>>] = SubSeq(s, 1, i)
<1> DEFINE A == Ancestors(parent)
           T == {i \in 1 .. Len(s) : \E n \in i .. MAX_PROCESSES : A[<<n, s[i]>>] # SubSeq(s, 1, i)}
<1>1. /\ MAX_PROCESSES \in Nat /\ Len(s) \in Nat
      /\ \A i \in 1 .. Len(s) : s[i] \in Slots /\ s[i] # NULL
  BY LenProperties, SlotFacts, ProcessesAssumption
<1>2. \A n \in 0 .. MAX_PROCESSES, p \in Slots \cup {NULL} :
         A[<<n, p>>] = IF n = 0 \/ p = NULL THEN <<>> ELSE Append(A[<<n - 1, parent[p]>>], p)
  BY AncestorsAt
<1> HIDE DEF A
<1> SUFFICES ASSUME T # {} PROVE FALSE
  BY DEF A
<1>3. PICK i \in T : \A y \in T : i <= y
  <2>1. T \in SUBSET Nat
    BY <1>1
  <2> HIDE DEF T
  <2> QED
    BY <2>1, Least
<1>4. PICK n \in i .. MAX_PROCESSES : A[<<n, s[i]>>] # SubSeq(s, 1, i)
  OBVIOUS
<1>5. /\ i \in 1 .. Len(s) /\ n \in 0 .. MAX_PROCESSES /\ n # 0 /\ n - 1 \in 0 .. MAX_PROCESSES
      /\ s[i] \in Slots /\ s[i] # NULL
  BY <1>1
<1>6. A[<<n, s[i]>>] = Append(A[<<n - 1, parent[s[i]]>>], s[i])
  BY <1>2, <1>5
<1>7. CASE i = 1
  <2>1. A[<<n - 1, NULL>>] = <<>> /\ parent[s[1]] = NULL
    BY <1>2, <1>5, <1>7
  <2>2. SubSeq(s, 1, 0) = <<>>
    BY SubSeqEmpty
  <2>3. SubSeq(s, 1, 1) = Append(SubSeq(s, 1, 0), s[1])
    BY <1>1, <1>5, <1>7
  <2> QED
    BY <1>4, <1>6, <1>7, <2>1, <2>2, <2>3
<1>8. CASE i # 1
  <2>1. i - 1 \in 1 .. Len(s) /\ n - 1 \in (i - 1) .. MAX_PROCESSES
    BY <1>1, <1>5, <1>8
  <2>2. i - 1 \notin T
    <3>1. ~(i <= i - 1)
      BY <1>1, <1>5
    <3> HIDE DEF T
    <3> QED
      BY <1>3, <3>1
  <2>3. A[<<n - 1, s[i - 1]>>] = SubSeq(s, 1, i - 1)
    BY <2>1, <2>2
  <2>4. parent[s[i]] = s[i - 1]
    BY <1>5, <1>8
  <2>5. SubSeq(s, 1, i) = Append(SubSeq(s, 1, i - 1), s[i])
    BY <1>1, <1>5, <2>1
  <2> QED
    BY <1>4, <1>6, <2>3, <2>4, <2>5
<1> QED
  BY <1>7, <1>8

\* The refinement mapping finds the stacks.
LEMMA StacksAreChains ==
    ASSUME NEW J, DOMAIN J = Terms, J = [t \in Terms |-> J[t]], NEW live, NEW task, NEW parent,
           NEW term, Stacks(J, live, task, parent, term)
    PROVE  ChainOf(parent, task) = J
<1> SUFFICES ASSUME NEW t \in Terms
             PROVE  Ancestors(parent)[<<MAX_PROCESSES, task[t]>>] = J[t]
  BY DEF ChainOf
<1> DEFINE s == J[t]
<1>1. Stack(s, t, live, task, parent, term) /\ parent \in Parents
  BY DEF Stacks
<1> HIDE DEF s
<1>2. s \in Seq(Slots) /\ Len(s) \in Nat /\ Len(s) <= MAX_PROCESSES /\ MAX_PROCESSES \in Nat
  BY <1>1, StackHeight, LenProperties, ProcessesAssumption DEF Stack
<1>3. CASE s = <<>>
  <2>1. task[t] = NULL /\ MAX_PROCESSES \in 0 .. MAX_PROCESSES /\ NULL \in Slots \cup {NULL}
    BY <1>1, <1>2, <1>3 DEF Stack
  <2>2. Ancestors(parent)[<<MAX_PROCESSES, NULL>>] = <<>>
    BY <1>1, <2>1, AncestorsAt
  <2> QED
    BY <1>3, <2>1, <2>2 DEF s
<1>4. CASE s # <<>>
  <2>1. Len(s) \in 1 .. Len(s) /\ MAX_PROCESSES \in Len(s) .. MAX_PROCESSES
    BY <1>2, <1>4, EmptySeq
  <2>2. Ancestors(parent)[<<MAX_PROCESSES, s[Len(s)]>>] = SubSeq(s, 1, Len(s))
    <3>1. \A i \in 1 .. Len(s) : parent[s[i]] = IF i = 1 THEN NULL ELSE s[i - 1]
      BY <1>1 DEF Stack
    <3> QED
      BY <1>1, <1>2, <2>1, <3>1, StackWalk
  <2>3. SubSeq(s, 1, Len(s)) = s
    BY <1>2, SubSeqFull
  <2> QED
    BY <1>1, <1>4, <2>2, <2>3 DEF Stack, s
<1> QED
  BY <1>3, <1>4
-----------------------------------------------------------------------------
(* How a stack changes. *)

\* The task starts n, and waits.
LEMMA StackGrows ==
    ASSUME NEW s, NEW t, NEW live, NEW task, NEW parent, NEW term,
           Stack(s, t, live, task, parent, term), s # <<>>,
           NEW n \in Slots \ live,
           NEW live2, live2 = live \cup {n}, NEW task2, task2[t] = n,
           NEW parent2, parent2[n] = task[t], NEW term2, term2[n] = t,
           \A p \in live : parent2[p] = parent[p] /\ term2[p] = term[p]
    PROVE  Stack(Append(s, n), t, live2, task2, parent2, term2)
<1> DEFINE s2 == Append(s, n)
<1>1. s \in Seq(Slots) /\ Len(s) \in Nat \ {0}
  BY EmptySeq DEF Stack
<1>2. /\ s2 \in Seq(Slots) /\ s2 # <<>> /\ Len(s2) = Len(s) + 1
      /\ s2[Len(s) + 1] = n /\ \A i \in 1 .. Len(s) : s2[i] = s[i]
  BY <1>1, AppendProperties
<1> HIDE DEF s2
<1>3. n # NULL /\ task[t] = s[Len(s)]
  BY SlotFacts DEF Stack
<1>4. \A i \in 1 .. Len(s2) :
         /\ s2[i] \in live2 /\ term2[s2[i]] = t
         /\ parent2[s2[i]] = IF i = 1 THEN NULL ELSE s2[i - 1]
  <2> SUFFICES ASSUME NEW i \in 1 .. Len(s2)
               PROVE  /\ s2[i] \in live2 /\ term2[s2[i]] = t
                      /\ parent2[s2[i]] = IF i = 1 THEN NULL ELSE s2[i - 1]
    OBVIOUS
  <2>1. CASE i \in 1 .. Len(s)
    <3>1. i # 1 => i - 1 \in 1 .. Len(s)
      BY <1>1, <2>1
    <3> QED
      BY <1>2, <2>1, <3>1, SMTT(60) DEF Stack
  <2>2. CASE i = Len(s) + 1
    <3>1. i # 1 /\ i - 1 = Len(s) /\ Len(s) \in 1 .. Len(s)
      BY <1>1, <2>2
    <3> QED
      BY <1>2, <1>3, <2>2, <3>1
  <2> QED
    BY <1>1, <1>2, <2>1, <2>2
<1>5. \A i, k \in 1 .. Len(s2) : s2[i] = s2[k] => i = k
  <2>1. \A i \in 1 .. Len(s2) : i \in 1 .. Len(s) \/ i = Len(s) + 1
    BY <1>1, <1>2
  <2>2. \A i \in 1 .. Len(s) : s[i] # n
    BY DEF Stack
  <2> QED
    BY <1>2, <2>1, <2>2 DEF Stack
<1>6. Stack(s2, t, live2, task2, parent2, term2)
  BY <1>2, <1>3, <1>4, <1>5 DEF Stack
<1> QED
  BY <1>6 DEF s2

\* The task ends, and the one below goes on.
LEMMA StackShrinks ==
    ASSUME NEW s, NEW t, NEW live, NEW task, NEW parent, NEW term,
           Stack(s, t, live, task, parent, term), s # <<>>,
           NEW live2, live \ {task[t]} \subseteq live2,
           NEW task2, task2[t] = parent[task[t]]
    PROVE  Stack(SubSeq(s, 1, Len(s) - 1), t, live2, task2, parent, term)
<1> DEFINE s2 == SubSeq(s, 1, Len(s) - 1)
<1>1. s \in Seq(Slots) /\ Len(s) \in Nat \ {0}
  BY EmptySeq DEF Stack
<1>2. /\ s2 \in Seq(Slots) /\ Len(s2) = Len(s) - 1
      /\ \A i \in 1 .. Len(s) - 1 : s2[i] = s[i]
  <2>1. \A i \in 1 .. Len(s) - 1 : s[i] \in Slots
    BY <1>1, ElementOfSeq
  <2>2. 1 \in Int /\ Len(s) - 1 \in Int
    BY <1>1
  <2>3. /\ s2 \in Seq(Slots) /\ Len(s2) = IF 1 <= Len(s) - 1 THEN Len(s) - 1 - 1 + 1 ELSE 0
        /\ \A i \in 1 .. Len(s) - 1 - 1 + 1 : s2[i] = s[1 + i - 1]
    BY <2>1, <2>2, SubSeqProperties
  <2> HIDE DEF s2
  <2>4. Len(s2) = Len(s) - 1
    <3>1. \A k \in Nat \ {0} : (IF 1 <= k - 1 THEN k - 1 - 1 + 1 ELSE 0) = k - 1
      OBVIOUS
    <3> QED
      BY <1>1, <2>3, <3>1
  <2>5. \A i \in 1 .. Len(s) - 1 : i \in 1 .. Len(s) - 1 - 1 + 1 /\ 1 + i - 1 = i
    BY <1>1
  <2> QED
    BY <2>3, <2>4, <2>5
<1> HIDE DEF s2
<1>3. Len(s) \in 1 .. Len(s) /\ task[t] = s[Len(s)]
  BY <1>1 DEF Stack
<1>4. \A i \in 1 .. Len(s2) : i \in 1 .. Len(s) /\ i # Len(s) /\ s2[i] = s[i]
                              /\ (i # 1 => i - 1 \in 1 .. Len(s2))
  BY <1>1, <1>2
<1>5. CASE Len(s) = 1
  <2>1. s2 = <<>> /\ task2[t] = NULL
    BY <1>2, <1>3, <1>5, EmptySeq DEF Stack
  <2> QED
    BY <1>2, <1>4, <2>1, <1>5 DEF Stack, s2
<1>6. CASE Len(s) # 1
  <2>1. /\ s2 # <<>> /\ Len(s2) \in 1 .. Len(s2) /\ Len(s2) = Len(s) - 1
        /\ Len(s2) \in 1 .. Len(s)
    BY <1>1, <1>2, <1>6, EmptySeq
  <2>2. task2[t] = s[Len(s) - 1] /\ task2[t] = s2[Len(s2)]
    BY <1>2, <1>3, <1>4, <1>6, <2>1 DEF Stack
  <2>3. task2[t] # NULL
    BY <1>2, <2>1, <2>2, ElementOfSeq, SlotFacts
  <2>4. \A i \in 1 .. Len(s2) :
          /\ s2[i] \in live2 /\ term[s2[i]] = t
          /\ parent[s2[i]] = IF i = 1 THEN NULL ELSE s2[i - 1]
    BY <1>3, <1>4 DEF Stack
  <2>5. \A i, k \in 1 .. Len(s2) : s2[i] = s2[k] => i = k
    BY <1>4 DEF Stack
  <2>6. Stack(s2, t, live2, task2, parent, term)
    BY <1>2, <2>1, <2>2, <2>3, <2>4, <2>5 DEF Stack
  <2> QED
    BY <2>6 DEF s2
<1> QED
  BY <1>5, <1>6

\* A shell is alone on its stack.
LEMMA StackStarts ==
    ASSUME NEW n \in Slots, NEW t, NEW live, n \in live, NEW task, task[t] = n,
           NEW parent, parent[n] = NULL, NEW term, term[n] = t
    PROVE  Stack(<<n>>, t, live, task, parent, term)
<1>1. n # NULL
  BY SlotFacts
<1>2. <<n>> \in Seq(Slots) /\ Len(<<n>>) = 1 /\ <<n>>[1] = n /\ <<n>> # <<>>
  OBVIOUS
<1>3. \A i \in 1 .. 1 : i = 1
  OBVIOUS
<1> QED
  BY <1>1, <1>2, <1>3 DEF Stack
-----------------------------------------------------------------------------
(* How the stacks change: the steps of the abstract specification. *)

\* The chains of parents are stacks, of live processes.
Stacked ==
    /\ Chain \in [Terms -> Seq(Slots)]
    /\ Stacks(Chain, procs, cur_task, parent_task, term_num)

LEMMA TheChains ==
    ASSUME NEW K \in [Terms -> Seq(Slots)],
           Stacks(K, procs', cur_task', parent_task', term_num')
    PROVE  Chain' = K /\ Stacked'
<1>1. DOMAIN K = Terms /\ K = [t \in Terms |-> K[t]]
  OBVIOUS
<1>2. ChainOf(parent_task', cur_task') = K
  BY <1>1, StacksAreChains
<1>3. Chain' = K
  BY <1>2 DEF Chain, ChainOf, Ancestors
<1> QED
  BY <1>3 DEF Stacked, Stacks, Stack

LEMMA ChainsKept ==
    ASSUME Stacked, cur_task' = cur_task, parent_task' = parent_task, term_num' = term_num,
           \A t \in Terms : \A i \in 1 .. Len(Chain[t]) : Chain[t][i] \in procs'
    PROVE  Chain' = Chain /\ Stacked'
<1> DEFINE K == Chain
<1>1. K \in [Terms -> Seq(Slots)]
  BY DEF Stacked
<1>2. Stacks(K, procs', cur_task', parent_task', term_num')
  BY DEF Stacked, Stacks, Stack
<1> HIDE DEF K
<1>3. Chain' = K /\ Stacked'
  BY <1>1, <1>2, TheChains
<1> QED
  BY <1>3 DEF K

\* A terminal gets a shell, in place of what it had.
LEMMA ChainsStart ==
    ASSUME Stacked, NEW t \in Terms, NEW n \in Slots, n \in procs',
           cur_task \in [Terms -> Slots \cup {NULL}], term_num \in [Slots -> Terms],
           parent_task \in [Slots -> Slots \cup {NULL}],
           cur_task' = [cur_task EXCEPT ![t] = n],
           parent_task' = [parent_task EXCEPT ![n] = NULL],
           term_num' = [term_num EXCEPT ![n] = t],
           \A u \in Terms \ {t} : \A i \in 1 .. Len(Chain[u]) :
              Chain[u][i] # n /\ Chain[u][i] \in procs'
    PROVE  Chain' = [Chain EXCEPT ![t] = <<n>>] /\ Stacked'
<1> DEFINE K == [Chain EXCEPT ![t] = <<n>>]
<1>1. K \in [Terms -> Seq(Slots)] /\ K[t] = <<n>> /\ \A u \in Terms \ {t} : K[u] = Chain[u]
  BY DEF Stacked
<1> HIDE DEF K
<1>2. Stack(K[t], t, procs', cur_task', parent_task', term_num')
  BY <1>1, StackStarts
<1>3. \A u \in Terms \ {t} : Stack(K[u], u, procs', cur_task', parent_task', term_num')
  <2> SUFFICES ASSUME NEW u \in Terms \ {t}
               PROVE  Stack(Chain[u], u, procs', cur_task', parent_task', term_num')
    BY <1>1
  <2> DEFINE s == Chain[u]
  <2>1. Stack(s, u, procs, cur_task, parent_task, term_num) /\ cur_task'[u] = cur_task[u]
    BY DEF Stacked, Stacks
  <2>2. \A i \in 1 .. Len(s) : /\ s[i] \in procs' /\ term_num'[s[i]] = term_num[s[i]]
                               /\ parent_task'[s[i]] = parent_task[s[i]]
    <3>1. \A i \in 1 .. Len(s) : s[i] \in Slots /\ s[i] # n /\ s[i] \in procs'
      BY <2>1, ElementOfSeq DEF Stack
    <3> QED
      BY <3>1
  <2> HIDE DEF s
  <2>3. Stack(s, u, procs', cur_task', parent_task', term_num')
    BY <2>1, <2>2 DEF Stack
  <2> QED
    BY <2>3 DEF s
<1>4. Stacks(K, procs', cur_task', parent_task', term_num')
  <2>1. parent_task' \in Parents
    BY DEF Parents
  <2> QED
    BY <1>2, <1>3, <2>1 DEF Stacks
<1>5. Chain' = K /\ Stacked'
  BY <1>1, <1>4, TheChains
<1> QED
  BY <1>5 DEF K

LEMMA ChainsGrow ==
    ASSUME Stacked, NEW t \in Terms, cur_task[t] # NULL, NEW n \in Slots \ procs,
           cur_task \in [Terms -> Slots \cup {NULL}], term_num \in [Slots -> Terms],
           parent_task \in [Slots -> Slots \cup {NULL}], procs \in SUBSET Slots,
           procs' = procs \cup {n},
           cur_task' = [cur_task EXCEPT ![t] = n],
           parent_task' = [parent_task EXCEPT ![n] = cur_task[t]],
           term_num' = [term_num EXCEPT ![n] = t]
    PROVE  /\ Chain[t] # <<>> /\ Chain' = [Chain EXCEPT ![t] = Append(Chain[t], n)]
           /\ Stacked'
<1> DEFINE K == [Chain EXCEPT ![t] = Append(Chain[t], n)]
<1>1. Chain[t] \in Seq(Slots) /\ Append(Chain[t], n) \in Seq(Slots) /\ Chain[t] # <<>>
  BY AppendProperties DEF Stacked, Stacks, Stack
<1>2. /\ K \in [Terms -> Seq(Slots)] /\ K[t] = Append(Chain[t], n)
      /\ \A u \in Terms \ {t} : K[u] = Chain[u]
  BY <1>1 DEF Stacked
<1> HIDE DEF K
<1>3. \A p \in procs : parent_task'[p] = parent_task[p] /\ term_num'[p] = term_num[p]
  OBVIOUS
<1>4. cur_task'[t] = n /\ parent_task'[n] = cur_task[t] /\ term_num'[n] = t
  OBVIOUS
<1>5. Stack(K[t], t, procs', cur_task', parent_task', term_num')
  <2> DEFINE s == Chain[t]
             live2 == procs'
             task2 == cur_task'
             parent2 == parent_task'
             term2 == term_num'
  <2>1. Stack(s, t, procs, cur_task, parent_task, term_num) /\ s # <<>>
    BY <1>1 DEF Stacked, Stacks
  <2>2. /\ live2 = procs \cup {n} /\ task2[t] = n /\ parent2[n] = cur_task[t] /\ term2[n] = t
        /\ \A p \in procs : parent2[p] = parent_task[p] /\ term2[p] = term_num[p]
    BY <1>3, <1>4
  <2> HIDE DEF s, live2, task2, parent2, term2
  <2>3. Stack(Append(s, n), t, live2, task2, parent2, term2)
    BY <2>1, <2>2, StackGrows
  <2> QED
    BY <1>2, <2>3 DEF s, live2, task2, parent2, term2
<1>6. \A u \in Terms \ {t} : Stack(K[u], u, procs', cur_task', parent_task', term_num')
  <2> SUFFICES ASSUME NEW u \in Terms \ {t}
               PROVE  Stack(Chain[u], u, procs', cur_task', parent_task', term_num')
    BY <1>2
  <2> DEFINE s == Chain[u]
  <2>1. Stack(s, u, procs, cur_task, parent_task, term_num) /\ cur_task'[u] = cur_task[u]
    BY DEF Stacked, Stacks
  <2>2. \A i \in 1 .. Len(s) : /\ s[i] \in procs' /\ term_num'[s[i]] = term_num[s[i]]
                               /\ parent_task'[s[i]] = parent_task[s[i]]
    BY <1>3, <2>1 DEF Stack
  <2> HIDE DEF s
  <2>3. Stack(s, u, procs', cur_task', parent_task', term_num')
    BY <2>1, <2>2 DEF Stack
  <2> QED
    BY <2>3 DEF s
<1>7. Stacks(K, procs', cur_task', parent_task', term_num')
  <2>1. parent_task' \in Parents
    BY DEF Parents
  <2> QED
    BY <1>5, <1>6, <2>1 DEF Stacks
<1>8. Chain' = K /\ Stacked'
  BY <1>2, <1>7, TheChains
<1> QED
  BY <1>1, <1>8 DEF K

LEMMA ChainsShrink ==
    ASSUME Stacked, NEW t \in Terms, cur_task[t] # NULL,
           cur_task \in [Terms -> Slots \cup {NULL}],
           procs \ {cur_task[t]} \subseteq procs',
           \A u \in Terms \ {t} : \A i \in 1 .. Len(Chain[u]) : Chain[u][i] # cur_task[t],
           cur_task' = [cur_task EXCEPT ![t] = parent_task[cur_task[t]]],
           parent_task' = parent_task, term_num' = term_num
    PROVE  /\ Chain[t] # <<>>
           /\ Chain' = [Chain EXCEPT ![t] = SubSeq(Chain[t], 1, Len(Chain[t]) - 1)]
           /\ Stacked'
<1> DEFINE low == SubSeq(Chain[t], 1, Len(Chain[t]) - 1)
           K == [Chain EXCEPT ![t] = low]
<1>1. Chain[t] # <<>> /\ Stack(Chain[t], t, procs, cur_task, parent_task, term_num)
  BY DEF Stacked, Stacks, Stack
<1>2. cur_task'[t] = parent_task[cur_task[t]]
  OBVIOUS
<1>3. Stack(low, t, procs', cur_task', parent_task, term_num)
  BY <1>1, <1>2, StackShrinks
<1> HIDE DEF low
<1>4. low \in Seq(Slots)
  BY <1>3 DEF Stack
<1>5. K \in [Terms -> Seq(Slots)] /\ K[t] = low /\ \A u \in Terms \ {t} : K[u] = Chain[u]
  BY <1>4 DEF Stacked
<1> HIDE DEF K
<1>6. \A u \in Terms \ {t} : Stack(K[u], u, procs', cur_task', parent_task', term_num')
  <2> SUFFICES ASSUME NEW u \in Terms \ {t}
               PROVE  Stack(Chain[u], u, procs', cur_task', parent_task', term_num')
    BY <1>5
  <2> DEFINE s == Chain[u]
  <2>1. Stack(s, u, procs, cur_task, parent_task, term_num) /\ cur_task'[u] = cur_task[u]
    BY DEF Stacked, Stacks
  <2>2. \A i \in 1 .. Len(s) : /\ s[i] \in procs' /\ term_num'[s[i]] = term_num[s[i]]
                               /\ parent_task'[s[i]] = parent_task[s[i]]
    BY <2>1 DEF Stack
  <2> HIDE DEF s
  <2>3. Stack(s, u, procs', cur_task', parent_task', term_num')
    BY <2>1, <2>2 DEF Stack
  <2> QED
    BY <2>3 DEF s
<1>7. Stacks(K, procs', cur_task', parent_task', term_num')
  BY <1>3, <1>5, <1>6 DEF Stacks, Stacked
<1>8. Chain' = K /\ Stacked'
  BY <1>5, <1>7, TheChains
<1> QED
  BY <1>1, <1>8 DEF K, low
-----------------------------------------------------------------------------
(* The refinement, action by action. *)

\* What a step of Processes is to the users.
JobStep == [Abstract!Next]_<<Chain, sched_term_id>>

\* The types of what the stacks are made of.
LEMMA StackTypes ==
    ASSUME Settled
    PROVE  /\ sched_term_id \in Terms /\ procs \in SUBSET Slots /\ pcb_status \in SUBSET Slots
           /\ cur_task \in [Terms -> Slots \cup {NULL}] /\ term_num \in [Slots -> Terms]
           /\ parent_task \in [Slots -> Slots \cup {NULL}]
BY DEF Settled, IInv, TypeOK, PcbBound

\* What is on the stack of a terminal is live and on no other stack.
LEMMA OnStack ==
    ASSUME Stacked, NEW t \in Terms, NEW i \in 1 .. Len(Chain[t])
    PROVE  Chain[t][i] \in procs /\ Chain[t][i] \in Slots /\ term_num[Chain[t][i]] = t
BY ElementOfSeq DEF Stacked, Stacks, Stack

LEMMA AllLive == ASSUME Stacked PROVE Abstract!All \subseteq procs
<1>1. Abstract!Ring = Terms
  BY DEF Abstract!Ring, Terms
<1> QED
  BY <1>1, OnStack, SMTT(60) DEF Abstract!All

\* A process that is inside sys_halt and has handed its terminal to its parent is
\* on no stack.
LEMMA OffStack ==
    ASSUME Settled, Stacked, ctx.pc = "leave",
           NEW t \in Terms, NEW i \in 1 .. Len(Chain[t])
    PROVE  Chain[t][i] # ctx.off
<1> DEFINE s == Chain[t]
           off == ctx.off
<1> SUFFICES ASSUME s[i] = off PROVE FALSE
  OBVIOUS
<1>1. ctx.pc \in HaltPc
  BY DEF HaltPc
<1>2. /\ off \in procs /\ cur_task[sched_term_id] = parent_task[off]
      /\ off = Tops[sched_term_id] /\ sched_term_id \in Terms
  BY <1>1, StackTypes DEF Settled, Isolated, Registers, Tops
<1>3. Tree(procs, Tops, parent_task, term_num, frame)
  BY DEF Settled, Isolated, Chained
<1>4. off # NULL
  BY <1>2, StackTypes, SlotFacts
<1>5. t = sched_term_id
  BY <1>2, <1>3, <1>4, OnStack DEF Tree
<1>6. parent_task[off] # off /\ \A q \in procs : term_num[q] = t => parent_task[q] # off
  BY <1>2, <1>3, <1>4, <1>5 DEF Tree
<1>7. Stack(s, t, procs, cur_task, parent_task, term_num) /\ Len(s) \in Nat /\ i \in 1 .. Len(s)
  BY LenProperties DEF Stacked, Stacks, Stack
<1> HIDE DEF s
<1>8. CASE i = Len(s)
  BY <1>2, <1>5, <1>6, <1>7, <1>8, EmptySeq, SMTT(60) DEF Stack
<1>9. CASE i # Len(s)
  <2>1. i + 1 \in 1 .. Len(s) /\ i + 1 # 1 /\ (i + 1) - 1 = i
    BY <1>7, <1>9
  <2> QED
    BY <1>6, <1>7, <2>1 DEF Stack
<1> QED
  BY <1>8, <1>9

\* Steps that concern neither the tasks nor the parents.
LEMMA QuietImplements ==
    ASSUME Settled, Stacked,
           \/ UNCHANGED vars
           \/ ExecuteRefused \/ ExecuteNotElf \/ HaltMap \/ HaltLoad \/ HaltStore
           \/ HaltClose \/ HaltCur \/ HaltToParent \/ Die
           \/ (\E ty \in FileTypes : sys_open(ty)) \/ (\E fd \in Desc : sys_close(fd))
           \/ (\E t \in Terms : switch_terminal(t))
    PROVE  Stacked' /\ JobStep
<1>1. /\ cur_task' = cur_task /\ parent_task' = parent_task /\ term_num' = term_num
      /\ sched_term_id' = sched_term_id
  BY DEF vars, pcbVars, termVars, flagVars, cpuVars, histVars, ExecuteRefused, ExecuteNotElf,
     HaltMap, HaltLoad, HaltStore, HaltClose, HaltCur, HaltToParent, Die, sys_open, sys_close,
     switch_terminal
<1>2. procs' = procs \/ (ctx.pc = "leave" /\ procs' = procs \ {ctx.off})
  BY DEF vars, pcbVars, termVars, flagVars, cpuVars, histVars, ExecuteRefused, ExecuteNotElf,
     HaltMap, HaltLoad, HaltStore, HaltClose, HaltCur, HaltToParent, Die, sys_open, sys_close,
     switch_terminal
<1>3. \A t \in Terms : \A i \in 1 .. Len(Chain[t]) : Chain[t][i] \in procs'
  BY <1>2, OnStack, OffStack
<1>4. Chain' = Chain /\ Stacked'
  BY <1>1, <1>3, ChainsKept
<1> QED
  BY <1>1, <1>4 DEF JobStep

LEMMA ChildImplements ==
    ASSUME Calm, Settled, Stacked, ExecuteChild
    PROVE  Stacked' /\ JobStep
<1> DEFINE t == sched_term_id
<1>1. vis_term_id = t /\ ctx.pc = "user" /\ ctx.pc \notin HaltPc
  BY HaltPcs DEF ExecuteChild, MayExecute, Calm
<1>2. procs \subseteq pcb_status
  BY <1>1 DEF Settled, HaltAlone, Busy
<1>3. PICK n \in 0 .. 31 :
        /\ find_empty_pcb(pcb_status, n)
        /\ Launch(pcb_status, io_files, procs, n, cur_task[t], t)
  BY <1>1 DEF ExecuteChild
<1>4. /\ n \in Slots \ pcb_status /\ procs' = procs \cup {n} /\ Launched(n, cur_task[t], t)
  <2>1. pcb_status \in SUBSET Slots /\ our_popcount(pcb_status) # MAX_PROCESSES
    BY StackTypes DEF ExecuteChild
  <2> QED
    BY <1>3, <2>1, LaunchOutcome
<1>5. cur_task[t] # NULL /\ sched_term_id' = t
  BY <1>1 DEF ExecuteChild
<1>6. n \in Slots \ procs
  BY <1>2, <1>4
<1>7. /\ Chain[t] # <<>> /\ Chain' = [Chain EXCEPT ![t] = Append(Chain[t], n)]
      /\ Stacked'
  BY <1>4, <1>5, <1>6, StackTypes, ChainsGrow DEF Launched
<1>8. n \notin Abstract!All
  BY <1>6, AllLive
<1>9. Abstract!Run(n)
  BY <1>5, <1>7, <1>8 DEF Abstract!Run
<1> QED
  BY <1>6, <1>7, <1>9 DEF JobStep, Abstract!Next

\* A process with a parent ends: HaltTask, or an exception.
LEMMA EndImplements ==
    ASSUME Settled, Stacked, HaltTask \/ ExceptionToParent
    PROVE  Stacked' /\ JobStep
<1> DEFINE t == sched_term_id
           p == cur_task[t]
<1>1. ctx.pc \in {"user", "task"} /\ "task" \in HaltPc
  BY DEF HaltTask, ExceptionToParent, HaltPc
<1>2. cur_pcb = p /\ p \in procs
  BY <1>1, HaltPcs DEF Settled, Isolated, Registers, HaltAlone
<1>3. p \in Slots /\ p # NULL /\ t \in Terms
  BY <1>2, StackTypes, SlotFacts
<1>4. /\ cur_task' = [cur_task EXCEPT ![t] = parent_task[p]] /\ procs \ {p} \subseteq procs'
      /\ parent_task' = parent_task /\ term_num' = term_num /\ sched_term_id' = t
  BY <1>2 DEF HaltTask, ExceptionToParent, ParentTask, pcbVars, histVars
<1>5. term_num[p] = t
  <2>1. Stack(Chain[t], t, procs, cur_task, parent_task, term_num)
    BY <1>3 DEF Stacked, Stacks
  <2>2. Chain[t] # <<>> /\ Len(Chain[t]) \in 1 .. Len(Chain[t])
    BY <1>3, <2>1, EmptySeq DEF Stack
  <2> QED
    BY <2>1, <2>2 DEF Stack
<1>6. \A u \in Terms \ {t} : \A i \in 1 .. Len(Chain[u]) : Chain[u][i] # p
  BY <1>5, OnStack
<1>7. /\ Chain[t] # <<>> /\ Chain' = [Chain EXCEPT ![t] = SubSeq(Chain[t], 1, Len(Chain[t]) - 1)]
      /\ Stacked'
  BY <1>3, <1>4, <1>6, StackTypes, ChainsShrink
<1>8. Abstract!End
  BY <1>4, <1>7 DEF Abstract!End
<1> QED
  BY <1>7, <1>8 DEF JobStep, Abstract!Next
\* A shell ends, or has ended, and its terminal gets another one.
LEMMA RestartImplements ==
    ASSUME Settled, Stacked, NEW p \in procs, p = Tops[sched_term_id], parent_task[p] = NULL,
           cur_task[sched_term_id] \in {NULL, p},
           NEW status \in SUBSET (pcb_status \ {p}), procs \ {p} \subseteq status,
           NEW files, NEW back, StartShell(status, files, procs \ {p}, sched_term_id, back),
           sched_term_id' = sched_term_id
    PROVE  Stacked' /\ JobStep
<1> DEFINE t == sched_term_id
           rest == procs \ {p}
<1>1. t \in Terms /\ status \in SUBSET Slots /\ p \in Slots /\ p # NULL
  BY StackTypes, SlotFacts
<1>2. our_popcount(status) # MAX_PROCESSES
  BY <1>1, RoomLeft
<1>3. PICK n : NewShell(n, status, files, rest, t)
  BY <1>1, <1>2, ShellLaunched
<1>4. n \in Slots /\ n \notin rest /\ procs' = rest \cup {n} /\ Launched(n, NULL, t)
  BY <1>3 DEF NewShell
<1>5. term_num[p] = t
  BY <1>1 DEF Settled, Isolated, Chained, Tree
<1>6. \A u \in Terms \ {t} : \A i \in 1 .. Len(Chain[u]) :
         Chain[u][i] # n /\ Chain[u][i] \in procs'
  BY <1>4, <1>5, OnStack
<1>7. Chain' = [Chain EXCEPT ![t] = <<n>>] /\ Stacked'
  BY <1>1, <1>4, <1>6, StackTypes, ChainsStart DEF Launched
<1>8. Len(Chain[t]) <= 1
  <2> DEFINE s == Chain[t]
  <2>1. Stack(s, t, procs, cur_task, parent_task, term_num)
    BY <1>1 DEF Stacked, Stacks
  <2> HIDE DEF s
  <2>2. s \in Seq(Slots) /\ Len(s) \in Nat
    BY <2>1, LenProperties DEF Stack
  <2>3. CASE s = <<>>
    BY <2>3, EmptySeq DEF s
  <2>4. CASE s # <<>>
    <3>1. Len(s) \in 1 .. Len(s) /\ cur_task[t] = s[Len(s)] /\ cur_task[t] = p
      BY <2>1, <2>2, <2>4, EmptySeq DEF Stack
    <3>2. Len(s) # 1 => Len(s) - 1 \in 1 .. Len(s)
      <4>1. \A k \in Nat : k \in 1 .. k /\ k # 1 => k - 1 \in 1 .. k
        OBVIOUS
      <4> QED
        BY <2>2, <3>1, <4>1
    <3>3. Len(s) # 1 => parent_task[p] = s[Len(s) - 1]
      BY <2>1, <3>1 DEF Stack
    <3>4. Len(s) = 1
      BY <2>2, <3>2, <3>3, ElementOfSeq, SlotFacts
    <3> QED
      BY <3>4 DEF s
  <2> QED
    BY <2>3, <2>4
<1>9. Abstract!Start(n)
  <2>1. Abstract!Ring = Terms
    BY DEF Abstract!Ring, Terms
  <2> QED
    BY <1>6, <1>7, <1>8, <2>1 DEF Abstract!Start
<1> QED
  BY <1>4, <1>7, <1>9 DEF JobStep, Abstract!Next

LEMMA HaltRestartImplements ==
    ASSUME Settled, Stacked, HaltRestart
    PROVE  Stacked' /\ JobStep
<1> DEFINE p == ctx.off
<1>1. ctx.pc = "leave" /\ ctx.pc \in HaltPc /\ cur_pcb = NULL
  BY DEF HaltRestart, HaltPc
<1>2. /\ p \in procs /\ p \notin pcb_status /\ parent_task[p] = NULL
      /\ cur_task[sched_term_id] = NULL
  BY <1>1, HaltPcs DEF Settled, Isolated, Registers, HaltAlone
<1>3. p = Tops[sched_term_id] /\ Busy = procs \ {p}
  BY <1>1, TopsOutside
<1>4. pcb_status \in SUBSET (pcb_status \ {p}) /\ procs \ {p} \subseteq pcb_status
  BY <1>2, <1>3 DEF Settled, HaltAlone
<1>5. /\ StartShell(pcb_status, io_files, procs \ {p}, sched_term_id, User(ctx.stk))
      /\ sched_term_id' = sched_term_id
  BY DEF HaltRestart
<1> QED
  BY <1>2, <1>3, <1>4, <1>5, RestartImplements

LEMMA FaultRestartImplements ==
    ASSUME Settled, Stacked, ExceptionRestart
    PROVE  Stacked' /\ JobStep
<1> DEFINE p == cur_pcb
           files == [io_files EXCEPT ![p] = NoFiles]
<1>1. ctx.pc = "user" /\ ctx.pc \notin HaltPc
  BY HaltPcs DEF ExceptionRestart
<1>2. p \in procs /\ cur_task[sched_term_id] = p /\ parent_task[p] = NULL
  BY <1>1 DEF Settled, Isolated, Registers, ExceptionRestart
<1>3. p = Tops[sched_term_id] /\ Busy = procs
  BY <1>1, <1>2, TopsOutside
<1>4. pcb_status \ {p} \in SUBSET (pcb_status \ {p}) /\ procs \ {p} \subseteq pcb_status \ {p}
  BY <1>3 DEF Settled, HaltAlone
<1>5. /\ StartShell(pcb_status \ {p}, files, procs \ {p}, sched_term_id, User(esp0))
      /\ sched_term_id' = sched_term_id
  BY DEF ExceptionRestart
<1> HIDE DEF files
<1> QED
  BY <1>2, <1>3, <1>4, <1>5, RestartImplements

LEMMA TickImplements ==
    ASSUME Calm, Settled, Stacked, pit_interrupt
    PROVE  Stacked' /\ JobStep
<1> DEFINE u == NextTerm
<1>1. ctx.pc \notin HaltPc /\ u \in Terms /\ u = (sched_term_id + 1) % MAX_TERM_NUM
  BY HaltPcs, StackTypes, TheNextTerminal DEF pit_interrupt, Calm, NextTerm
<1>2. switch_tasks(u)
  BY DEF pit_interrupt
<1> HIDE DEF u
<1>3. sched_term_id' = u /\ (switch_to_new(u) \/ switch_to_old(u))
  BY <1>2 DEF switch_tasks
<1>4. procs \subseteq pcb_status /\ Tops = cur_task
  BY <1>1, TopsOutside DEF Settled, HaltAlone
<1>5. Stack(Chain[u], u, procs, cur_task, parent_task, term_num)
  BY <1>1 DEF Stacked, Stacks
<1>6. CASE switch_to_old(u)
  <2>1. /\ cur_task' = cur_task /\ parent_task' = parent_task /\ term_num' = term_num
        /\ procs' = procs /\ cur_task[u] # NULL
    BY <1>6 DEF switch_to_old, pcbVars
  <2>2. Chain' = Chain /\ Stacked'
    BY <2>1, OnStack, ChainsKept
  <2>3. Chain[u] # <<>>
    BY <1>5, <2>1 DEF Stack
  <2>4. Abstract!Turn
    BY <1>1, <1>3, <2>2, <2>3 DEF Abstract!Turn
  <2> QED
    BY <2>2, <2>4 DEF JobStep, Abstract!Next
<1>7. CASE switch_to_new(u)
  <2>1. cur_task[u] = NULL /\ StartShell(pcb_status, io_files, procs, u, Interrupted)
    BY <1>7 DEF switch_to_new
  <2>2. \A p \in pcb_status : \E t \in Terms \ {u} : p = cur_task[t]
    <3>1. \A p \in pcb_status : p # NULL
      BY StackTypes, SlotFacts
    <3> QED
      BY <1>1, <1>4, <2>1, <3>1 DEF Settled, Isolated, Filling
  <2>3. our_popcount(pcb_status) # MAX_PROCESSES
    BY <1>1, <2>2, StackTypes, RoomForShell
  <2>4. PICK n : NewShell(n, pcb_status, io_files, procs, u)
    BY <2>1, <2>3, StackTypes, ShellLaunched
  <2>5. n \in Slots /\ n \notin procs /\ procs' = procs \cup {n} /\ Launched(n, NULL, u)
    BY <1>4, <2>4 DEF NewShell
  <2>6. \A t \in Terms \ {u} : \A i \in 1 .. Len(Chain[t]) :
          Chain[t][i] # n /\ Chain[t][i] \in procs'
    BY <2>5, OnStack
  <2>7. Chain' = [Chain EXCEPT ![u] = <<n>>] /\ Stacked'
    BY <1>1, <2>5, <2>6, StackTypes, ChainsStart DEF Launched
  <2>8. Chain[u] = <<>> /\ n \in Slots \ Abstract!All
    BY <1>5, <2>1, <2>5, AllLive DEF Stack
  <2>9. Abstract!Turn
    BY <1>1, <1>3, <2>7, <2>8 DEF Abstract!Turn
  <2> QED
    BY <2>7, <2>9 DEF JobStep, Abstract!Next
<1> QED
  BY <1>3, <1>6, <1>7

LEMMA StepImplements ==
    ASSUME Calm, Settled, Stacked, [Next]_vars
    PROVE  Stacked' /\ JobStep
<1>1. ~ExecuteAsShell
  BY DEF ExecuteAsShell, MayExecute, Calm
<1> QED
  BY <1>1, QuietImplements, ChildImplements, EndImplements, HaltRestartImplements,
     FaultRestartImplements, TickImplements DEF Next, sys_execute, sys_halt, exception

LEMMA InitImplements == Init => Stacked /\ Abstract!Init
<1> SUFFICES ASSUME Init PROVE Stacked /\ Abstract!Init
  OBVIOUS
<1> DEFINE J == [t \in Terms |-> <<>>]
<1>1. /\ DOMAIN J = Terms /\ J = [t \in Terms |-> J[t]] /\ J \in [Terms -> Seq(Slots)]
      /\ \A t \in Terms : J[t] = <<>>
  BY EmptySeq
<1> HIDE DEF J
<1>2. Stacks(J, procs, cur_task, parent_task, term_num)
  <2>1. \A t \in Terms : Stack(<<>>, t, procs, cur_task, parent_task, term_num)
    <3>1. <<>> \in Seq(Slots) /\ \A i \in 1 .. Len(<<>>) : FALSE
      BY EmptySeq
    <3> QED
      BY <3>1 DEF Stack, Init
  <2>2. parent_task \in Parents
    BY DEF Parents, Init
  <2> QED
    BY <1>1, <2>1, <2>2 DEF Stacks
<1>3. Chain = J
  <2>1. ChainOf(parent_task, cur_task) = J
    BY <1>1, <1>2, StacksAreChains
  <2> QED
    BY <2>1 DEF Chain, ChainOf, Ancestors
<1>4. Stacked
  BY <1>1, <1>2, <1>3 DEF Stacked
<1>5. Abstract!Init
  <2>1. Abstract!Ring = Terms
    BY DEF Abstract!Ring, Terms
  <2> QED
    BY <1>3, <2>1 DEF Abstract!Init, Init, J
<1> QED
  BY <1>4, <1>5

\* As long as no program is executed from a hidden terminal or before the first
\* resumption, and no tick lands inside sys_halt, the process table, the parent
\* pointers and the round robin are stacks of jobs that take turns: sys_execute
\* pushes a job that is on no stack, sys_halt and an exception pop the one that
\* runs, only a terminal without another job gets a new shell, and a tick passes
\* the CPU to the next terminal and does nothing else to the jobs.
THEOREM JobsImplemented == ASSUME Calm PROVE Spec => Abstract!Safety
<1>1. Init => Stacked /\ Abstract!Init
  BY InitImplements
<1>2. Settled /\ Stacked /\ [Next]_vars => Stacked' /\ JobStep
  BY StepImplements
<1>3. Spec => []Settled
  BY AlwaysSettled
<1> QED
  BY <1>1, <1>2, <1>3, PTL DEF Spec, Abstract!Safety, JobStep
=============================================================================
