-------------------------- MODULE DelayList_proofs --------------------------
(***************************************************************************)
(* The kernel's linked delay list, for any number of tasks: its links are  *)
(* those of one sequence of distinct tasks, whatever stale pointers the    *)
(* other tasks keep, and every step is one of the set it implements.       *)
(***************************************************************************)
EXTENDS DelayList, FiniteSetTheorems, WellFoundedInduction, TLAPS

\* n distinct tasks, in order.
Distinct(n, s) ==
    /\ n \in Nat /\ s \in [1 .. n -> Task]
    /\ \A i, j \in 1 .. n : s[i] = s[j] => i = j

\* Going along link from first, one meets the tasks of s from one end to the
\* other: up, or down.
Up(n, s, first, link) ==
    /\ first = IF n = 0 THEN NULL ELSE s[1]
    /\ \A i \in 1 .. n : link[s[i]] = IF i < n THEN s[i + 1] ELSE NULL
Down(n, s, first, link) ==
    /\ first = IF n = 0 THEN NULL ELSE s[n]
    /\ \A i \in 1 .. n : link[s[i]] = IF i > 1 THEN s[i - 1] ELSE NULL

-----------------------------------------------------------------------------
\* What a walk meets.

\* There are no more distinct tasks than tasks.
LEMMA AtMostAll ==
    ASSUME NEW n, NEW s, Distinct(n, s)
    PROVE  n <= NUMBER_OF_TASKS
<1>1. s \in Injection(1 .. n, Task)
  BY DEF Distinct, Injection, IsInjective
<1>2. IsFiniteSet(Task) /\ Cardinality(Task) = NUMBER_OF_TASKS
  BY FS_Interval, TaskAssumption DEF Task
<1>3. Cardinality(1 .. n) = n
  BY FS_Interval DEF Distinct
<1>4. Cardinality(1 .. n) <= Cardinality(Task)
  BY <1>1, <1>2, FS_Injection
<1> QED  BY <1>2, <1>3, <1>4

\* The function f follows a link from node to node.
IsChain(f, first, link) ==
    f = [i \in 0 .. NUMBER_OF_TASKS |->
           IF i = 0 THEN first
           ELSE IF f[i - 1] = NULL THEN NULL ELSE link[f[i - 1]]]

\* There is only one such function.
LEMMA OneChain ==
    ASSUME NEW first, NEW link, NEW f, NEW g,
           IsChain(f, first, link), IsChain(g, first, link)
    PROVE  f = g
<1> DEFINE N    == NUMBER_OF_TASKS
           Less == OpToRel(<, Nat)
           T    == {i \in 0 .. N : f[i] # g[i]}
<1>0. /\ N \in Nat
      /\ f = [i \in 0 .. N |-> IF i = 0 THEN first
              ELSE IF f[i - 1] = NULL THEN NULL ELSE link[f[i - 1]]]
      /\ g = [i \in 0 .. N |-> IF i = 0 THEN first
              ELSE IF g[i - 1] = NULL THEN NULL ELSE link[g[i - 1]]]
  BY TaskAssumption DEF IsChain
<1> HIDE DEF N
<1>1. SUFFICES ASSUME T # {} PROVE FALSE
  <2>1. SUFFICES \A i \in 0 .. N : f[i] = g[i]
    BY <1>0
  <2> QED  BY <1>1
<1>2. \E x \in T : \A y \in T : ~ (<<y, x>> \in Less)
  <2>1. T \subseteq Nat
    BY <1>0
  <2> HIDE DEF T, Less
  <2> QED  BY <1>1, <2>1, NatLessThanWellFounded, WFMin DEF Less
<1>3. PICK x \in T : \A y \in T : ~ (<<y, x>> \in Less)
  BY <1>2
<1>4. x \in 0 .. N /\ f[x] # g[x]
  OBVIOUS
<1>5. x # 0
  BY <1>0, <1>4
<1>6. x - 1 \in 0 .. N /\ x - 1 \in Nat /\ x \in Nat /\ x - 1 < x
  BY <1>0, <1>4, <1>5
<1>7. f[x - 1] = g[x - 1]
  <2>1. <<x - 1, x>> \in Less
    BY <1>6 DEF OpToRel
  <2> QED  BY <1>3, <1>6, <2>1
<1>8. /\ f[x] = IF f[x - 1] = NULL THEN NULL ELSE link[f[x - 1]]
      /\ g[x] = IF g[x - 1] = NULL THEN NULL ELSE link[g[x - 1]]
  BY <1>0, <1>4, <1>5
<1> QED  BY <1>4, <1>7, <1>8

\* A chain along the links of s meets the tasks of s in their order, then NULL.
LEMMA ChainUp ==
    ASSUME NEW n, NEW s, Distinct(n, s), NEW first, NEW link, Up(n, s, first, link)
    PROVE  /\ Chain(first, link) =
                [i \in 0 .. NUMBER_OF_TASKS |-> IF i < n THEN s[i + 1] ELSE NULL]
<1> DEFINE f == [i \in 0 .. NUMBER_OF_TASKS |-> IF i < n THEN s[i + 1] ELSE NULL]
<1>1. IsChain(f, first, link)
  <2>1. SUFFICES ASSUME NEW i \in 0 .. NUMBER_OF_TASKS
                 PROVE  f[i] = IF i = 0 THEN first
                               ELSE IF f[i - 1] = NULL THEN NULL ELSE link[f[i - 1]]
    BY DEF IsChain
  <2>2. CASE i = 0
    BY <2>2 DEF Up, Distinct
  <2>3. CASE i # 0
    <3>1. i - 1 \in 0 .. NUMBER_OF_TASKS /\ i - 1 + 1 = i /\ n \in Nat /\ i \in Nat
      BY <2>3, TaskAssumption DEF Distinct
    <3>2. CASE i - 1 < n
      <4>1. i \in 1 .. n /\ s[i] \in Task /\ s[i] # NULL
        BY <2>3, <3>1, <3>2 DEF Distinct, Task, NULL
      <4>2. f[i - 1] = s[i]
        BY <3>1, <3>2
      <4>3. link[s[i]] = IF i < n THEN s[i + 1] ELSE NULL
        BY <4>1 DEF Up
      <4> QED  BY <2>3, <4>1, <4>2, <4>3
    <3>3. CASE ~ (i - 1 < n)
      BY <2>3, <3>1, <3>3
    <3> QED  BY <3>2, <3>3
  <2> QED  BY <2>2, <2>3
<1>2. Chain(first, link) = CHOOSE g : IsChain(g, first, link)
  BY DEF Chain, IsChain
<1>3. IsChain(Chain(first, link), first, link)
  <2> HIDE DEF f
  <2> QED  BY <1>1, <1>2
<1>4. Chain(first, link) = f
  <2> HIDE DEF f
  <2> QED  BY <1>1, <1>3, OneChain
<1> QED  BY <1>4

\* The same downwards.
LEMMA ChainDown ==
    ASSUME NEW n, NEW s, Distinct(n, s), NEW first, NEW link, Down(n, s, first, link)
    PROVE  Chain(first, link) =
             [i \in 0 .. NUMBER_OF_TASKS |-> IF i < n THEN s[n - i] ELSE NULL]
<1> DEFINE r == [i \in 1 .. n |-> s[n + 1 - i]]
<1>1. /\ n \in Nat /\ s \in [1 .. n -> Task]
      /\ \A i \in 1 .. n : n + 1 - i \in 1 .. n /\ r[i] = s[n + 1 - i]
  BY DEF Distinct
<1>2. Distinct(n, r)
  BY <1>1 DEF Distinct
<1>3. Up(n, r, first, link)
  <2>1. first = IF n = 0 THEN NULL ELSE r[1]
    BY <1>1 DEF Down
  <2>2. ASSUME NEW i \in 1 .. n
        PROVE  link[r[i]] = IF i < n THEN r[i + 1] ELSE NULL
    <3>1. PICK j \in 1 .. n : j = n + 1 - i
      BY <1>1
    <3>2. link[s[j]] = IF j > 1 THEN s[j - 1] ELSE NULL
      BY DEF Down
    <3>3. j - 1 = n - i /\ n + 1 - (i + 1) = n - i /\ (j > 1 <=> i < n)
      BY <1>1, <3>1
    <3>4. i < n => i + 1 \in 1 .. n /\ r[i + 1] = s[n - i]
      BY <1>1, <3>3
    <3> QED  BY <1>1, <3>1, <3>2, <3>3, <3>4
  <2> QED  BY <2>1, <2>2 DEF Up
<1>4. Chain(first, link) =
        [i \in 0 .. NUMBER_OF_TASKS |-> IF i < n THEN r[i + 1] ELSE NULL]
  <2> HIDE DEF r
  <2> QED  BY <1>2, <1>3, ChainUp
<1>5. ASSUME NEW i \in 0 .. NUMBER_OF_TASKS, i < n PROVE r[i + 1] = s[n - i]
  <2>1. i + 1 \in 1 .. n /\ n + 1 - (i + 1) = n - i
    BY <1>1, <1>5, TaskAssumption
  <2> QED  BY <1>1, <2>1
<1> QED  BY <1>4, <1>5

\* The tasks of s.
Elements(n, s) == {s[i] : i \in 1 .. n}

\* What is met on the way is the tasks of s, and then nothing.
LEMMA Met ==
    ASSUME NEW n, NEW s, Distinct(n, s), NEW first, NEW link, Up(n, s, first, link)
    PROVE  {Chain(first, link)[i] : i \in 0 .. NUMBER_OF_TASKS} \ {NULL} = Elements(n, s)
<1> DEFINE f == [i \in 0 .. NUMBER_OF_TASKS |-> IF i < n THEN s[i + 1] ELSE NULL]
<1>1. n \in Nat /\ n <= NUMBER_OF_TASKS /\ NUMBER_OF_TASKS \in Nat
  BY AtMostAll, TaskAssumption DEF Distinct
<1>2. \A i \in 1 .. n : s[i] \in Task /\ s[i] # NULL
  BY DEF Distinct, Task, NULL
<1>3. ASSUME NEW i \in 0 .. NUMBER_OF_TASKS, f[i] # NULL PROVE f[i] \in Elements(n, s)
  <2>1. i < n /\ i + 1 \in 1 .. n /\ f[i] = s[i + 1]
    BY <1>1, <1>3
  <2> QED  BY <2>1 DEF Elements
<1>4. ASSUME NEW i \in 1 .. n
      PROVE  \E j \in 0 .. NUMBER_OF_TASKS : f[j] = s[i]
  <2>1. i - 1 \in 0 .. NUMBER_OF_TASKS /\ i - 1 < n /\ i - 1 + 1 = i
    BY <1>1
  <2>2. f[i - 1] = s[i]
    BY <2>1
  <2> QED  BY <2>1, <2>2
<1>5. Chain(first, link) = f
  BY ChainUp
<1> HIDE DEF f
<1> QED  BY <1>2, <1>3, <1>4, <1>5 DEF Elements

\* There are n of them.
LEMMA HowMany ==
    ASSUME NEW n, NEW s, Distinct(n, s)
    PROVE  Cardinality(Elements(n, s)) = n
<1>1. n \in Nat /\ DOMAIN s = 1 .. n /\ s \in [1 .. n -> Elements(n, s)]
  BY DEF Distinct, Elements
<1>2. s \in Injection(1 .. n, Elements(n, s))
  BY <1>1 DEF Distinct, Injection, IsInjective
<1>3. s \in Surjection(1 .. n, Elements(n, s))
  BY <1>1 DEF Elements, Surjection
<1>4. ExistsBijection(1 .. n, Elements(n, s))
  BY <1>2, <1>3 DEF ExistsBijection, Bijection
<1>5. IsFiniteSet(1 .. n) /\ Cardinality(1 .. n) = n
  BY <1>1, FS_Interval
<1> QED  BY <1>4, <1>5, FS_Bijection

-----------------------------------------------------------------------------
\* The inductive invariant.

\* The list is the tasks of s, linked both ways.
Linked(n, s) ==
    /\ Distinct(n, s)
    /\ Up(n, s, HeadTask, Next)
    /\ Down(n, s, TailTask, Previous)

\* What is to be removed is ahead of the walk, which is on the list.
Ahead(n, s) ==
    \/ expired = {} /\ walk = NULL
    \/ expired = {} /\ ~ ticking
    \/ ticking /\ \E k \in 1 .. n : /\ walk = s[k]
                                    /\ expired \subseteq {s[i] : i \in k .. n}

ListInv ==
    /\ Next \in [Task -> Task \cup {NULL}]
    /\ Previous \in [Task -> Task \cup {NULL}]
    /\ \E n, s : Linked(n, s) /\ Ahead(n, s)

LEMMA NodesElements ==
    ASSUME NEW n, NEW s, Linked(n, s)
    PROVE  Nodes = Elements(n, s)
BY Met DEF Linked, Nodes, Forward

LEMMA InitList == Init => ListInv
<1> SUFFICES ASSUME Init PROVE ListInv
  OBVIOUS
<1> DEFINE s == [i \in 1 .. 0 |-> 0]
<1>1. Linked(0, s)
  BY DEF Linked, Distinct, Up, Down, Init
<1>2. Ahead(0, s)
  BY DEF Ahead, Init
<1> QED  BY <1>1, <1>2 DEF ListInv, Init, Task

\* A task that starts a wait becomes the last.
LEMMA Appended ==
    ASSUME NEW n, NEW s, Linked(n, s), ListInv,
           NEW t \in Task, t \notin Elements(n, s), IncludeTaskIntoDelayList(t)
    PROVE  \E r : /\ Linked(n + 1, r)'
                  /\ Elements(n + 1, r) = Elements(n, s) \cup {t}
                  /\ Next' \in [Task -> Task \cup {NULL}]
                  /\ Previous' \in [Task -> Task \cup {NULL}]
<1> DEFINE r == [i \in 1 .. n + 1 |-> IF i <= n THEN s[i] ELSE t]
<1>1. /\ n \in Nat /\ s \in [1 .. n -> Task]
      /\ \A i, j \in 1 .. n : s[i] = s[j] => i = j
      /\ \A i \in 1 .. n : s[i] # t /\ s[i] # NULL
      /\ t # NULL
      /\ Next \in [Task -> Task \cup {NULL}] /\ Previous \in [Task -> Task \cup {NULL}]
  BY DEF Linked, Distinct, Elements, ListInv, Task, NULL
<1>2. /\ \A i \in 1 .. n : i \in 1 .. n + 1 /\ r[i] = s[i]
      /\ n + 1 \in 1 .. n + 1 /\ r[n + 1] = t /\ n + 1 \in Nat
      /\ \A i \in 1 .. n + 1 : i \in 1 .. n \/ i = n + 1
  BY <1>1
<1>3. Distinct(n + 1, r)
  BY <1>1, <1>2 DEF Distinct
<1>4. Elements(n + 1, r) = Elements(n, s) \cup {t}
  <2> HIDE DEF r
  <2> QED  BY <1>2 DEF Elements
<1>5. TailTask # NULL <=> n # 0
  BY <1>1 DEF Linked, Down
<1>6. /\ n # 0 => HeadTask = s[1] /\ TailTask = s[n] /\ TailTask \in Task
                  /\ 1 \in 1 .. n /\ n \in 1 .. n
      /\ n = 0 => HeadTask = NULL /\ TailTask = NULL
      /\ \A i \in 1 .. n : Next[s[i]] = IF i < n THEN s[i + 1] ELSE NULL
      /\ \A i \in 1 .. n : Previous[s[i]] = IF i > 1 THEN s[i - 1] ELSE NULL
  BY <1>1 DEF Linked, Up, Down
<1>7. /\ HeadTask' = r[1] /\ TailTask' = t
      /\ Next' \in [Task -> Task \cup {NULL}] /\ Next'[t] = NULL
      /\ \A q \in Task \ {t} : Next'[q] = IF n # 0 /\ q = s[n] THEN t ELSE Next[q]
      /\ Previous' \in [Task -> Task \cup {NULL}]
      /\ Previous'[t] = IF n # 0 THEN s[n] ELSE NULL
      /\ \A q \in Task \ {t} : Previous'[q] = Previous[q]
  <2>1. CASE n = 0
    BY <1>1, <1>2, <1>5, <1>6, <2>1 DEF IncludeTaskIntoDelayList
  <2>2. CASE n # 0
    <3>1. /\ Next' = [Next EXCEPT ![s[n]] = t, ![t] = NULL]
          /\ Previous' = [Previous EXCEPT ![t] = s[n]]
          /\ TailTask' = t /\ HeadTask' = HeadTask
      BY <1>5, <1>6, <2>2 DEF IncludeTaskIntoDelayList
    <3>2. s[n] \in Task /\ s[n] # t /\ r[1] = s[1]
      BY <1>1, <1>2, <1>6, <2>2
    <3>3. Next' \in [Task -> Task \cup {NULL}] /\ Next'[t] = NULL
      BY <1>1, <3>1, <3>2
    <3>4. \A q \in Task \ {t} : Next'[q] = IF q = s[n] THEN t ELSE Next[q]
      BY <1>1, <3>1, <3>2
    <3>5. /\ Previous' \in [Task -> Task \cup {NULL}] /\ Previous'[t] = s[n]
          /\ \A q \in Task \ {t} : Previous'[q] = Previous[q]
      BY <1>1, <3>1, <3>2
    <3> QED  BY <1>6, <2>2, <3>1, <3>2, <3>3, <3>4, <3>5
  <2> QED  BY <2>1, <2>2
<1> HIDE DEF r
<1>8. Up(n + 1, r, HeadTask', Next')
  <2>1. ASSUME NEW i \in 1 .. n + 1
        PROVE  Next'[r[i]] = IF i < n + 1 THEN r[i + 1] ELSE NULL
    <3>1. CASE i = n + 1
      BY <1>1, <1>2, <1>7, <3>1
    <3>2. CASE i \in 1 .. n
      <4>1. /\ s[i] \in Task \ {t} /\ r[i] = s[i] /\ i < n + 1 /\ n # 0
            /\ s[i] = s[n] <=> i = n
        BY <1>1, <1>2, <1>6, <3>2
      <4>2. CASE i = n
        BY <1>2, <1>7, <4>1, <4>2
      <4>3. CASE i # n
        <5>1. i < n /\ i + 1 \in 1 .. n
          BY <1>1, <3>2, <4>3
        <5> QED  BY <1>2, <1>6, <1>7, <3>2, <4>1, <4>3, <5>1
      <4> QED  BY <4>2, <4>3
    <3> QED  BY <1>2, <3>1, <3>2
  <2>2. n + 1 # 0
    BY <1>1
  <2> QED  BY <1>7, <2>1, <2>2 DEF Up
<1>9. Down(n + 1, r, TailTask', Previous')
  <2>1. ASSUME NEW i \in 1 .. n + 1
        PROVE  Previous'[r[i]] = IF i > 1 THEN r[i - 1] ELSE NULL
    <3>1. CASE i = n + 1
      <4>1. n + 1 > 1 <=> n # 0
        BY <1>1
      <4>2. n + 1 - 1 = n
        BY <1>1
      <4> QED  BY <1>2, <1>6, <1>7, <3>1, <4>1, <4>2
    <3>2. CASE i \in 1 .. n
      <4>1. s[i] \in Task \ {t} /\ r[i] = s[i]
        BY <1>1, <1>2, <3>2
      <4>2. i > 1 => i - 1 \in 1 .. n
        BY <1>1, <3>2
      <4> QED  BY <1>2, <1>6, <1>7, <3>2, <4>1, <4>2
    <3> QED  BY <1>2, <3>1, <3>2
  <2>2. n + 1 # 0
    BY <1>1
  <2> QED  BY <1>2, <1>7, <2>1, <2>2 DEF Down
<1> QED  BY <1>3, <1>4, <1>7, <1>8, <1>9 DEF Linked

\* s without its element k.
Without(n, s, k) == [i \in 1 .. n - 1 |-> IF i < k THEN s[i] ELSE s[i + 1]]

\* What is left are distinct tasks.
LEMMA WithoutDistinct ==
    ASSUME NEW n, NEW s, Distinct(n, s), NEW k \in 1 .. n
    PROVE  /\ Distinct(n - 1, Without(n, s, k))
           /\ Elements(n - 1, Without(n, s, k)) = Elements(n, s) \ {s[k]}
<1> DEFINE r == Without(n, s, k)
<1>1. /\ n \in Nat /\ n - 1 \in Nat /\ s \in [1 .. n -> Task]
      /\ \A i, j \in 1 .. n : s[i] = s[j] => i = j
      /\ r = [i \in 1 .. n - 1 |-> IF i < k THEN s[i] ELSE s[i + 1]]
  BY DEF Distinct, Without
<1> HIDE DEF r
<1>2. \A i \in 1 .. n - 1 : /\ i \in 1 .. n /\ i + 1 \in 1 .. n
                            /\ i < k => r[i] = s[i]
                            /\ ~ (i < k) => r[i] = s[i + 1]
  BY <1>1
<1>3. r \in [1 .. n - 1 -> Task]
  BY <1>1, <1>2
<1>4. ASSUME NEW i \in 1 .. n - 1, NEW j \in 1 .. n - 1, r[i] = r[j] PROVE i = j
  <2>1. i \in Nat /\ j \in Nat /\ k \in Nat
    BY <1>1
  <2>2. CASE i < k /\ j < k
    BY <1>1, <1>2, <1>4, <2>2
  <2>3. CASE i < k /\ ~ (j < k)
    BY <1>1, <1>2, <1>4, <2>1, <2>3
  <2>4. CASE ~ (i < k) /\ j < k
    BY <1>1, <1>2, <1>4, <2>1, <2>4
  <2>5. CASE ~ (i < k) /\ ~ (j < k)
    <3>1. i + 1 = j + 1
      BY <1>1, <1>2, <1>4, <2>5
    <3> QED  BY <2>1, <3>1
  <2> QED  BY <2>2, <2>3, <2>4, <2>5
<1>5. ASSUME NEW i \in 1 .. n - 1 PROVE r[i] \in Elements(n, s) \ {s[k]}
  <2>1. \E j \in 1 .. n : j # k /\ r[i] = s[j]
    BY <1>1, <1>2
  <2> QED  BY <1>1, <2>1 DEF Elements
<1>6. ASSUME NEW j \in 1 .. n, j # k PROVE \E i \in 1 .. n - 1 : r[i] = s[j]
  <2>1. CASE j < k
    <3>1. j \in 1 .. n - 1
      BY <1>1, <2>1
    <3>2. r[j] = s[j]
      BY <1>1, <1>2, <2>1, <3>1
    <3> QED  BY <3>1, <3>2
  <2>2. CASE ~ (j < k)
    <3>1. j - 1 \in 1 .. n - 1 /\ ~ (j - 1 < k) /\ j - 1 + 1 = j
      BY <1>1, <1>6, <2>2
    <3>2. r[j - 1] = s[j]
      <4>1. r[j - 1] = s[j - 1 + 1]
        BY <1>1, <1>2, <3>1
      <4> QED  BY <3>1, <4>1
    <3> QED  BY <3>1, <3>2
  <2> QED  BY <2>1, <2>2
<1>7. Elements(n - 1, r) = Elements(n, s) \ {s[k]}
  <2>1. Elements(n - 1, r) \subseteq Elements(n, s) \ {s[k]}
    BY <1>5 DEF Elements
  <2>2. Elements(n, s) \ {s[k]} \subseteq Elements(n - 1, r)
    BY <1>6 DEF Elements
  <2> QED  BY <2>1, <2>2
<1>8. Distinct(n - 1, r)
  BY <1>1, <1>3, <1>4 DEF Distinct
<1> QED  BY <1>7, <1>8 DEF r

\* What a removal does to each pointer, whichever of its cases applies.
LEMMA Unlinked ==
    ASSUME NEW n, NEW s, Linked(n, s), ListInv, NEW k \in 1 .. n,
           RemoveFromDelayList(s[k])
    PROVE  /\ HeadTask' = IF k > 1 THEN s[1] ELSE IF n > 1 THEN s[2] ELSE NULL
           /\ TailTask' = IF k < n THEN s[n] ELSE IF n > 1 THEN s[n - 1] ELSE NULL
           /\ Next' \in [Task -> Task \cup {NULL}]
           /\ Previous' \in [Task -> Task \cup {NULL}]
           /\ \A q \in Task : Next'[q] = IF k > 1 /\ q = s[k - 1]
                                         THEN IF k < n THEN s[k + 1] ELSE NULL
                                         ELSE Next[q]
           /\ \A q \in Task : Previous'[q] = IF k < n /\ q = s[k + 1]
                                             THEN IF k > 1 THEN s[k - 1] ELSE NULL
                                             ELSE Previous[q]
<1>1. /\ n \in Nat /\ k \in Nat /\ s \in [1 .. n -> Task]
      /\ \A i, j \in 1 .. n : s[i] = s[j] => i = j
      /\ Next \in [Task -> Task \cup {NULL}] /\ Previous \in [Task -> Task \cup {NULL}]
      /\ n # 0 /\ 1 \in 1 .. n /\ n \in 1 .. n
  BY DEF Linked, Distinct, ListInv
<1>2. /\ HeadTask = s[1] /\ TailTask = s[n]
      /\ Next[s[k]] = IF k < n THEN s[k + 1] ELSE NULL
      /\ Previous[s[k]] = IF k > 1 THEN s[k - 1] ELSE NULL
  BY <1>1 DEF Linked, Up, Down
<1>3. (s[k] = HeadTask <=> k = 1) /\ (s[k] = TailTask <=> k = n)
  BY <1>1, <1>2
<1>4. /\ k > 1 => k - 1 \in 1 .. n /\ s[k - 1] \in Task
      /\ k < n => k + 1 \in 1 .. n /\ s[k + 1] \in Task
      /\ k > 1 <=> k # 1
      /\ k < n <=> k # n
  <2>1. (k > 1 => k - 1 \in 1 .. n) /\ (k < n => k + 1 \in 1 .. n)
    BY <1>1
  <2> QED  BY <1>1, <2>1
<1>5. CASE k = 1 /\ k = n
  BY <1>1, <1>3, <1>5 DEF RemoveFromDelayList
<1>6. CASE k = 1 /\ k # n
  <2>1. /\ HeadTask' = s[2] /\ TailTask' = s[n] /\ Next' = Next
        /\ Previous' = [Previous EXCEPT ![s[k + 1]] = NULL]
        /\ k < n /\ ~ (k > 1) /\ n > 1
    <3>1. k < n /\ ~ (k > 1) /\ n > 1 /\ k + 1 = 2
      BY <1>1, <1>4, <1>6
    <3> QED  BY <1>2, <1>3, <1>6, <3>1 DEF RemoveFromDelayList
  <2> QED  BY <1>1, <1>4, <2>1
<1>7. CASE k # 1 /\ k = n
  <2>1. /\ HeadTask' = s[1] /\ TailTask' = s[n - 1] /\ Previous' = Previous
        /\ Next' = [Next EXCEPT ![s[k - 1]] = NULL]
        /\ k > 1 /\ ~ (k < n) /\ n > 1
    <3>1. k > 1 /\ ~ (k < n) /\ n > 1
      BY <1>1, <1>4, <1>7
    <3> QED  BY <1>2, <1>3, <1>7, <3>1 DEF RemoveFromDelayList
  <2> QED  BY <1>1, <1>4, <2>1
<1>8. CASE k # 1 /\ k # n
  <2>1. /\ HeadTask' = s[1] /\ TailTask' = s[n]
        /\ Next' = [Next EXCEPT ![s[k - 1]] = s[k + 1]]
        /\ Previous' = [Previous EXCEPT ![s[k + 1]] = s[k - 1]]
        /\ k > 1 /\ k < n
    BY <1>2, <1>3, <1>4, <1>8 DEF RemoveFromDelayList
  <2>2. s[k - 1] \in Task /\ s[k + 1] \in Task
    BY <1>4, <2>1
  <2>3. /\ Next' \in [Task -> Task \cup {NULL}]
        /\ \A q \in Task : Next'[q] = IF q = s[k - 1] THEN s[k + 1] ELSE Next[q]
    BY <1>1, <2>1, <2>2
  <2>4. /\ Previous' \in [Task -> Task \cup {NULL}]
        /\ \A q \in Task : Previous'[q] = IF q = s[k + 1] THEN s[k - 1] ELSE Previous[q]
    BY <1>1, <2>1, <2>2
  <2> QED  BY <2>1, <2>3, <2>4
<1> QED  BY <1>5, <1>6, <1>7, <1>8

\* A removal leaves the others linked, in their order.
LEMMA Removed ==
    ASSUME NEW n, NEW s, Linked(n, s), ListInv, NEW k \in 1 .. n,
           RemoveFromDelayList(s[k])
    PROVE  Linked(n - 1, Without(n, s, k))'
<1> DEFINE r == Without(n, s, k)
<1>0. n \in Nat /\ k \in Nat /\ n - 1 \in Nat /\ s \in [1 .. n -> Task]
  BY DEF Linked, Distinct
<1>1. /\ \A i, j \in 1 .. n : s[i] = s[j] => i = j
      /\ \A i \in 1 .. n : Next[s[i]] = IF i < n THEN s[i + 1] ELSE NULL
      /\ \A i \in 1 .. n : Previous[s[i]] = IF i > 1 THEN s[i - 1] ELSE NULL
  BY DEF Linked, Distinct, Up, Down
<1>2. /\ HeadTask' = IF k > 1 THEN s[1] ELSE IF n > 1 THEN s[2] ELSE NULL
      /\ TailTask' = IF k < n THEN s[n] ELSE IF n > 1 THEN s[n - 1] ELSE NULL
      /\ \A q \in Task : Next'[q] = IF k > 1 /\ q = s[k - 1]
                                    THEN IF k < n THEN s[k + 1] ELSE NULL
                                    ELSE Next[q]
      /\ \A q \in Task : Previous'[q] = IF k < n /\ q = s[k + 1]
                                        THEN IF k > 1 THEN s[k - 1] ELSE NULL
                                        ELSE Previous[q]
  BY Unlinked
<1>3. Distinct(n - 1, r)
  BY WithoutDistinct DEF Linked
<1>4. \A i \in 1 .. n - 1 : /\ i \in 1 .. n /\ i + 1 \in 1 .. n /\ i \in Nat
                            /\ i < k => r[i] = s[i]
                            /\ ~ (i < k) => r[i] = s[i + 1]
  BY <1>0, <1>1 DEF Without
<1> HIDE DEF r
<1>5. HeadTask' = IF n - 1 = 0 THEN NULL ELSE r[1]
  <2>1. CASE n = 1
    BY <1>0, <1>1, <1>2, <2>1
  <2>2. CASE n # 1
    <3>1. 1 \in 1 .. n - 1 /\ n > 1 /\ n - 1 # 0 /\ (k > 1 <=> 1 < k) /\ 1 + 1 = 2
      BY <1>0, <1>1, <2>2
    <3> QED  BY <1>0, <1>2, <1>4, <3>1
  <2> QED  BY <1>0, <2>1, <2>2
<1>6. TailTask' = IF n - 1 = 0 THEN NULL ELSE r[n - 1]
  <2>1. CASE n = 1
    BY <1>0, <1>1, <1>2, <2>1
  <2>2. CASE n # 1
    <3>1. /\ n - 1 \in 1 .. n - 1 /\ n > 1 /\ n - 1 # 0 /\ n - 1 + 1 = n
          /\ k < n <=> ~ (n - 1 < k)
      BY <1>0, <1>1, <2>2
    <3>2. (n - 1 < k => r[n - 1] = s[n - 1]) /\ (~ (n - 1 < k) => r[n - 1] = s[n - 1 + 1])
      BY <1>0, <1>4, <3>1
    <3> QED  BY <1>0, <1>2, <3>1, <3>2
  <2> QED  BY <1>0, <2>1, <2>2
<1>7. ASSUME NEW i \in 1 .. n - 1
      PROVE  Next'[r[i]] = IF i < n - 1 THEN r[i + 1] ELSE NULL
  <2>1. i < n - 1 => i + 1 \in 1 .. n - 1
    BY <1>0, <1>1
  <2>2. CASE i < k
    <3>1. r[i] = s[i] /\ s[i] \in Task /\ i < n /\ i \in 1 .. n /\ i \in Nat
      BY <1>0, <1>4, <2>2
    <3>2. Next[s[i]] = s[i + 1]
      BY <1>0, <1>1, <3>1
    <3>3. CASE i + 1 = k
      <4>1. k > 1 /\ k - 1 = i /\ (k < n <=> i < n - 1) /\ ~ (i + 1 < k) /\ i + 1 + 1 = k + 1
        BY <1>0, <1>1, <3>1, <3>3
      <4>2. Next'[r[i]] = IF k < n THEN s[k + 1] ELSE NULL
        BY <1>0, <1>2, <3>1, <4>1
      <4>3. i < n - 1 => r[i + 1] = s[k + 1]
        BY <1>0, <1>4, <2>1, <4>1
      <4> QED  BY <4>1, <4>2, <4>3
    <3>4. CASE i + 1 # k
      <4>1. i + 1 < k /\ i < n - 1 /\ (k > 1 => k - 1 \in 1 .. n /\ k - 1 # i)
        BY <1>0, <1>1, <2>2, <3>1, <3>4
      <4>2. ~ (k > 1 /\ s[i] = s[k - 1])
        BY <1>0, <1>1, <3>1, <4>1
      <4>3. Next'[r[i]] = s[i + 1]
        BY <1>0, <1>2, <3>1, <3>2, <4>2
      <4> QED  BY <1>0, <1>4, <2>1, <4>1, <4>3
    <3> QED  BY <1>0, <3>3, <3>4
  <2>3. CASE ~ (i < k)
    <3>1. r[i] = s[i + 1] /\ s[i + 1] \in Task /\ i + 1 \in 1 .. n /\ i \in Nat
      BY <1>0, <1>4, <2>3
    <3>2. ~ (k > 1 /\ s[i + 1] = s[k - 1])
      <4>1. k > 1 => k - 1 \in 1 .. n /\ k - 1 # i + 1
        BY <1>0, <1>1, <2>3, <3>1
      <4> QED  BY <1>0, <1>1, <3>1, <4>1
    <3>3. Next'[r[i]] = IF i + 1 < n THEN s[i + 1 + 1] ELSE NULL
      BY <1>0, <1>1, <1>2, <3>1, <3>2
    <3>4. (i + 1 < n <=> i < n - 1) /\ ~ (i + 1 < k)
      BY <1>0, <1>1, <2>3, <3>1
    <3>5. i < n - 1 => r[i + 1] = s[i + 1 + 1]
      BY <1>0, <1>4, <2>1, <3>4
    <3> QED  BY <1>0, <3>3, <3>4, <3>5
  <2> QED  BY <1>0, <2>2, <2>3
<1>8. ASSUME NEW i \in 1 .. n - 1
      PROVE  Previous'[r[i]] = IF i > 1 THEN r[i - 1] ELSE NULL
  <2>1. i > 1 => i - 1 \in 1 .. n - 1 /\ i - 1 + 1 = i
    BY <1>0, <1>1
  <2>2. CASE i < k
    <3>1. r[i] = s[i] /\ s[i] \in Task /\ i \in 1 .. n /\ i \in Nat
      BY <1>0, <1>4, <2>2
    <3>2. ~ (k < n /\ s[i] = s[k + 1])
      <4>1. k < n => k + 1 \in 1 .. n /\ k + 1 # i
        BY <1>0, <1>1, <2>2, <3>1
      <4> QED  BY <1>0, <1>1, <3>1, <4>1
    <3>3. Previous'[r[i]] = IF i > 1 THEN s[i - 1] ELSE NULL
      BY <1>0, <1>1, <1>2, <3>1, <3>2
    <3>4. i > 1 => i - 1 < k
      BY <1>0, <1>1, <2>2, <3>1
    <3>5. i > 1 => r[i - 1] = s[i - 1]
      BY <1>0, <1>4, <2>1, <3>4
    <3> QED  BY <1>0, <3>3, <3>5
  <2>3. CASE i = k
    <3>1. r[i] = s[k + 1] /\ s[k + 1] \in Task /\ k < n /\ (k > 1 => k - 1 < k)
      BY <1>0, <1>4, <2>3
    <3>2. Previous'[r[i]] = IF k > 1 THEN s[k - 1] ELSE NULL
      BY <1>0, <1>2, <3>1
    <3>3. i > 1 => r[i - 1] = s[i - 1]
      BY <1>0, <1>4, <2>1, <2>3, <3>1
    <3> QED  BY <1>0, <2>3, <3>2, <3>3
  <2>4. CASE i > k
    <3>1. r[i] = s[i + 1] /\ s[i + 1] \in Task /\ i + 1 \in 1 .. n /\ i \in Nat
      BY <1>0, <1>4, <2>4
    <3>2. ~ (k < n /\ s[i + 1] = s[k + 1])
      <4>1. k < n => k + 1 \in 1 .. n /\ k + 1 # i + 1
        BY <1>0, <1>1, <2>4, <3>1
      <4> QED  BY <1>0, <1>1, <3>1, <4>1
    <3>3. i + 1 > 1 /\ i + 1 - 1 = i /\ i > 1 /\ ~ (i - 1 < k)
      BY <1>0, <1>1, <2>4, <3>1
    <3>4. Previous'[r[i]] = s[i]
      BY <1>0, <1>1, <1>2, <3>1, <3>2, <3>3
    <3>5. r[i - 1] = s[i]
      <4>1. r[i - 1] = s[i - 1 + 1]
        BY <1>0, <1>4, <2>1, <3>3
      <4> QED  BY <1>0, <2>1, <3>3, <4>1
    <3> QED  BY <1>0, <3>3, <3>4, <3>5
  <2> QED  BY <1>0, <1>1, <2>2, <2>3, <2>4
<1>9. Up(n - 1, r, HeadTask', Next') /\ Down(n - 1, r, TailTask', Previous')
  BY <1>0, <1>5, <1>6, <1>7, <1>8 DEF Up, Down
<1> QED  BY <1>0, <1>3, <1>9 DEF Linked, r

LEMMA NodesElementsNext ==
    ASSUME NEW n, NEW s, Linked(n, s)'
    PROVE  Nodes' = Elements(n, s)
BY Met DEF Linked, Nodes, Forward

-----------------------------------------------------------------------------
\* Each step keeps the list linked, and is one of the set or changes nothing of it.

LEMMA StartWaitStep ==
    ASSUME ListInv, NEW t \in Task, StartWait(t)
    PROVE  ListInv' /\ Set!Include(t)
<1>1. PICK n, s : Linked(n, s) /\ Ahead(n, s)
  BY DEF ListInv
<1>2. /\ ~ ticking /\ t \notin Elements(n, s) /\ IncludeTaskIntoDelayList(t)
      /\ last' = <<"include", t>> /\ UNCHANGED <<walk, ticking, expired>>
  BY <1>1, NodesElements DEF StartWait
<1>3. PICK r : /\ Linked(n + 1, r)' /\ Elements(n + 1, r) = Elements(n, s) \cup {t}
               /\ Next' \in [Task -> Task \cup {NULL}]
               /\ Previous' \in [Task -> Task \cup {NULL}]
  BY <1>1, <1>2, Appended
<1>4. expired = {}
  BY <1>1, <1>2 DEF Ahead
<1>5. Ahead(n + 1, r)'
  BY <1>2, <1>4 DEF Ahead
<1>6. Nodes = Elements(n, s) /\ Nodes' = Elements(n, s) \cup {t}
  BY <1>1, <1>3, NodesElements, NodesElementsNext
<1>7. Set!Include(t)
  BY <1>2, <1>4, <1>6 DEF Set!Include
<1> QED  BY <1>3, <1>5, <1>7 DEF ListInv

\* Of a removal, wherever it comes from.
LEMMA RemovalStep ==
    ASSUME ListInv, NEW n, NEW s, Linked(n, s), NEW k \in 1 .. n,
           RemoveFromDelayList(s[k])
    PROVE  /\ Linked(n - 1, Without(n, s, k))'
           /\ Nodes' = Nodes \ {s[k]}
           /\ Next' \in [Task -> Task \cup {NULL}]
           /\ Previous' \in [Task -> Task \cup {NULL}]
           /\ Next'[s[k]] = IF k < n THEN s[k + 1] ELSE NULL
<1>1. Linked(n - 1, Without(n, s, k))'
  BY Removed
<1>2. Nodes = Elements(n, s) /\ Nodes' = Elements(n - 1, Without(n, s, k))
  BY <1>1, NodesElements, NodesElementsNext
<1>3. Elements(n - 1, Without(n, s, k)) = Elements(n, s) \ {s[k]}
  BY WithoutDistinct DEF Linked
<1>4. /\ Next' \in [Task -> Task \cup {NULL}]
      /\ Previous' \in [Task -> Task \cup {NULL}]
      /\ \A q \in Task : Next'[q] = IF k > 1 /\ q = s[k - 1]
                                    THEN IF k < n THEN s[k + 1] ELSE NULL
                                    ELSE Next[q]
  BY Unlinked
<1>5. /\ n \in Nat /\ k \in Nat /\ s \in [1 .. n -> Task]
      /\ \A i, j \in 1 .. n : s[i] = s[j] => i = j
  BY DEF Linked, Distinct
<1>6. ~ (k > 1 /\ s[k] = s[k - 1])
  <2>1. k > 1 => k - 1 \in 1 .. n /\ k - 1 # k
    BY <1>5
  <2> QED  BY <1>5, <2>1
<1>7. Next[s[k]] = IF k < n THEN s[k + 1] ELSE NULL
  BY DEF Linked, Up
<1> QED  BY <1>1, <1>2, <1>3, <1>4, <1>5, <1>6, <1>7

LEMMA CancelWaitStep ==
    ASSUME ListInv, NEW t \in Task, CancelWait(t)
    PROVE  ListInv' /\ Set!Remove(t)
<1>1. PICK n, s : Linked(n, s) /\ Ahead(n, s)
  BY DEF ListInv
<1>2. /\ ~ ticking /\ t \in Nodes /\ RemoveFromDelayList(t)
      /\ last' = <<"remove", t>> /\ UNCHANGED <<walk, ticking, expired>>
  BY DEF CancelWait
<1>3. PICK k \in 1 .. n : t = s[k]
  BY <1>1, <1>2, NodesElements DEF Elements
<1>4. /\ Linked(n - 1, Without(n, s, k))' /\ Nodes' = Nodes \ {t}
      /\ Next' \in [Task -> Task \cup {NULL}]
      /\ Previous' \in [Task -> Task \cup {NULL}]
  BY <1>1, <1>2, <1>3, RemovalStep
<1>5. expired = {}
  BY <1>1, <1>2 DEF Ahead
<1>6. Ahead(n - 1, Without(n, s, k))'
  BY <1>2, <1>5 DEF Ahead
<1>7. Set!Remove(t)
  BY <1>2, <1>4, <1>5 DEF Set!Remove
<1> QED  BY <1>4, <1>6, <1>7 DEF ListInv

LEMMA TickBeginStep ==
    ASSUME ListInv, NEW S \in SUBSET Task, TickBegin(S)
    PROVE  ListInv' /\ Set!TickBegin(S)
<1>1. PICK n, s : Linked(n, s) /\ Ahead(n, s)
  BY DEF ListInv
<1>2. /\ ~ ticking /\ S \subseteq Nodes /\ ticking' = TRUE /\ walk' = HeadTask
      /\ expired' = S /\ UNCHANGED <<links, last>>
  BY DEF TickBegin
<1>3. Linked(n, s)' /\ Nodes' = Nodes /\ Nodes = Elements(n, s)
  BY <1>1, <1>2, NodesElements DEF links, Linked, Nodes, Forward
<1>4. n \in Nat /\ HeadTask = IF n = 0 THEN NULL ELSE s[1]
  BY <1>1 DEF Linked, Distinct, Up
<1>5. Ahead(n, s)'
  <2>1. CASE n = 0
    BY <1>2, <1>3, <1>4, <2>1 DEF Ahead, Elements
  <2>2. CASE n # 0
    <3>1. 1 \in 1 .. n
      BY <1>4, <2>2
    <3> QED  BY <1>2, <1>3, <1>4, <2>2, <3>1 DEF Ahead, Elements
  <2> QED  BY <2>1, <2>2
<1>6. Set!TickBegin(S)
  BY <1>1, <1>2, <1>3 DEF Set!TickBegin, Ahead
<1>7. ListInv'
  BY <1>2, <1>3, <1>5 DEF ListInv, links
<1> QED  BY <1>6, <1>7

LEMMA TickVisitStep ==
    ASSUME ListInv, TickVisit
    PROVE  /\ ListInv'
           /\ \/ Set!Expire(walk) /\ walk \in Task
              \/ UNCHANGED Set!dvars
<1>1. PICK n, s : Linked(n, s) /\ Ahead(n, s)
  BY DEF ListInv
<1>2. /\ ticking /\ walk # NULL
      /\ expired' = expired \ {walk} /\ walk' = Next'[walk] /\ ticking' = ticking
  BY DEF TickVisit
<1>3. PICK k \in 1 .. n : walk = s[k] /\ expired \subseteq {s[i] : i \in k .. n}
  BY <1>1, <1>2 DEF Ahead
<1>4. /\ n \in Nat /\ k \in Nat /\ s \in [1 .. n -> Task]
      /\ walk \in Task
      /\ \A i, j \in 1 .. n : s[i] = s[j] => i = j
  BY <1>1, <1>3 DEF Linked, Distinct
\* What is left to remove is after the node visited.
<1>5. /\ k < n => expired' \subseteq {s[i] : i \in k + 1 .. n} /\ k + 1 \in 1 .. n
      /\ ~ (k < n) => expired' = {}
  <2>1. \A x \in expired' : \E i \in 1 .. n : i \in Nat /\ i > k /\ i <= n /\ x = s[i]
    <3>1. TAKE x \in expired'
    <3>2. PICK i \in k .. n : x = s[i] /\ x # s[k]
      BY <1>2, <1>3
    <3>3. i \in 1 .. n /\ i \in Nat /\ i # k /\ i > k /\ i <= n
      BY <1>4, <3>2
    <3> QED  BY <3>2, <3>3
  <2>2. CASE k < n
    <3>1. k + 1 \in 1 .. n /\ \A i \in Nat : i > k /\ i <= n => i \in k + 1 .. n
      BY <1>4, <2>2
    <3> QED  BY <2>1, <2>2, <3>1
  <2>3. CASE ~ (k < n)
    <3>1. \A i \in Nat : ~ (i > k /\ i <= n)
      BY <1>4, <2>3
    <3> QED  BY <2>1, <2>3, <3>1
  <2> QED  BY <2>2, <2>3
<1>6. CASE walk \in expired
  <2>1. RemoveFromDelayList(s[k]) /\ last' = <<"remove", walk>>
    BY <1>3, <1>6 DEF TickVisit
  <2> DEFINE r == Without(n, s, k)
  <2>2. /\ Linked(n - 1, r)' /\ Nodes' = Nodes \ {walk}
        /\ Next' \in [Task -> Task \cup {NULL}]
        /\ Previous' \in [Task -> Task \cup {NULL}]
        /\ Next'[walk] = IF k < n THEN s[k + 1] ELSE NULL
    BY <1>1, <1>3, <2>1, RemovalStep
  <2>4. ASSUME k < n PROVE Ahead(n - 1, r)'
    <3>1. \A i \in k .. n - 1 : r[i] = s[i + 1]
      BY <1>4, <2>4 DEF Without
    <3>2. k \in 1 .. n - 1 /\ k \in k .. n - 1 /\ walk' = r[k]
      BY <1>2, <1>4, <2>2, <2>4, <3>1
    <3>3. ASSUME NEW x \in expired' PROVE x \in {r[i] : i \in k .. n - 1}
      <4>1. PICK i \in k + 1 .. n : x = s[i]
        BY <1>5, <2>4
      <4>2. i - 1 \in k .. n - 1 /\ i - 1 + 1 = i
        BY <1>4
      <4>3. x = r[i - 1]
        BY <3>1, <4>1, <4>2
      <4> HIDE DEF r
      <4> QED  BY <4>2, <4>3
    <3>4. expired' \subseteq {r[i] : i \in k .. n - 1} /\ ticking'
      BY <1>2, <3>3
    <3> HIDE DEF r
    <3> QED  BY <3>2, <3>4 DEF Ahead
  <2>5. ListInv'
    <3>1. \E m, q : Linked(m, q)' /\ Ahead(m, q)'
      <4>1. CASE k < n
        BY <2>2, <2>4, <4>1
      <4>2. CASE ~ (k < n)
        <5>1. Ahead(n - 1, r)'
          BY <1>2, <1>5, <2>2, <4>2 DEF Ahead
        <5> QED  BY <2>2, <5>1
      <4> QED  BY <4>1, <4>2
    <3> QED  BY <2>2, <3>1 DEF ListInv
  <2>6. Set!Expire(walk)
    BY <1>2, <1>6, <2>1, <2>2 DEF Set!Expire
  <2> QED  BY <1>4, <2>5, <2>6
<1>7. CASE walk \notin expired
  <2>1. UNCHANGED <<links, last>> /\ expired' = expired
    BY <1>2, <1>7 DEF TickVisit
  <2>2. Linked(n, s)' /\ Nodes' = Nodes
    BY <1>1, <2>1 DEF links, Linked, Nodes, Forward
  <2>3. walk' = IF k < n THEN s[k + 1] ELSE NULL
    BY <1>1, <1>2, <1>3, <2>1 DEF links, Linked, Up
  <2>4. Ahead(n, s)'
    <3>1. CASE k < n
      BY <1>2, <1>5, <2>3, <3>1 DEF Ahead
    <3>2. CASE ~ (k < n)
      BY <1>5, <2>3, <3>2 DEF Ahead
    <3> QED  BY <3>1, <3>2
  <2>5. ListInv'
    BY <2>1, <2>2, <2>4 DEF ListInv, links
  <2> QED  BY <2>1, <2>2, <2>5 DEF Set!dvars
<1> QED  BY <1>6, <1>7

LEMMA TickEndStep ==
    ASSUME ListInv, TickEnd
    PROVE  ListInv' /\ UNCHANGED Set!dvars
<1>1. PICK n, s : Linked(n, s) /\ Ahead(n, s)
  BY DEF ListInv
<1>2. /\ ticking /\ walk = NULL /\ ticking' = FALSE /\ expired' = {}
      /\ UNCHANGED <<links, walk, last>>
  BY DEF TickEnd
<1>3. \A k \in 1 .. n : s[k] # NULL
  BY <1>1 DEF Linked, Distinct, Task, NULL
<1>4. expired = {}
  BY <1>1, <1>2, <1>3 DEF Ahead
<1>5. Linked(n, s)' /\ Nodes' = Nodes /\ Ahead(n, s)'
  BY <1>1, <1>2 DEF links, Linked, Nodes, Forward, Ahead
<1>6. ListInv'
  BY <1>2, <1>5 DEF ListInv, links
<1> QED  BY <1>2, <1>4, <1>5, <1>6 DEF Set!dvars

LEMMA StepList ==
    ASSUME ListInv, [Step]_lvars
    PROVE  ListInv' /\ [Set!Next]_(Set!dvars)
<1>1. CASE Step
  <2>1. ASSUME NEW t \in Task, StartWait(t) PROVE ListInv' /\ Set!Next
    BY <2>1, StartWaitStep DEF Set!Next
  <2>2. ASSUME NEW t \in Task, CancelWait(t) PROVE ListInv' /\ Set!Next
    BY <2>2, CancelWaitStep DEF Set!Next
  <2>3. ASSUME NEW S \in SUBSET Task, TickBegin(S) PROVE ListInv' /\ Set!Next
    BY <2>3, TickBeginStep DEF Set!Next
  <2>4. CASE TickVisit
    BY <2>4, TickVisitStep DEF Set!Next
  <2>5. CASE TickEnd
    BY <2>5, TickEndStep
  <2> QED  BY <1>1, <2>1, <2>2, <2>3, <2>4, <2>5 DEF Step
<1>2. CASE UNCHANGED lvars
  <2>1. PICK n, s : Linked(n, s) /\ Ahead(n, s)
    BY DEF ListInv
  <2>2. Linked(n, s)' /\ Ahead(n, s)'
    BY <1>2, <2>1 DEF lvars, links, Linked, Ahead
  <2> QED  BY <1>2, <2>2 DEF ListInv, lvars, links, Set!dvars, Nodes, Forward
<1> QED  BY <1>1, <1>2

-----------------------------------------------------------------------------
\* The theorems.

\* The list is always linked as one sequence of distinct tasks, and what a tick
\* has to remove is ahead of its walk.
THEOREM ListInvariant == Spec => []ListInv
<1>1. ListInv /\ [Step]_lvars => ListInv'
  BY StepList
<1> QED  BY InitList, <1>1, PTL DEF Spec

\* Walked from either end, the list shows the same tasks in opposite orders,
\* and ends.
LEMMA LinkedBothWays == ListInv => BothWays
<1> SUFFICES ASSUME ListInv PROVE BothWays
  OBVIOUS
<1>1. PICK n, s : Linked(n, s)
  BY DEF ListInv
<1>2. n \in Nat /\ n <= NUMBER_OF_TASKS /\ NUMBER_OF_TASKS \in Nat
  BY <1>1, AtMostAll, TaskAssumption DEF Linked, Distinct
<1>3. Length = n
  BY <1>1, HowMany, NodesElements DEF Linked, Length
<1>4. /\ Forward = [i \in 0 .. NUMBER_OF_TASKS |-> IF i < n THEN s[i + 1] ELSE NULL]
      /\ Backward = [i \in 0 .. NUMBER_OF_TASKS |-> IF i < n THEN s[n - i] ELSE NULL]
  BY <1>1, ChainUp, ChainDown DEF Linked, Forward, Backward
<1>5. Forward[NUMBER_OF_TASKS] = NULL /\ Backward[NUMBER_OF_TASKS] = NULL
  BY <1>2, <1>4
<1>6. ASSUME NEW i \in 0 .. Length - 1 PROVE Forward[i] = Backward[Length - 1 - i]
  <2>1. /\ i \in 0 .. NUMBER_OF_TASKS /\ i < n
        /\ n - 1 - i \in 0 .. NUMBER_OF_TASKS /\ n - 1 - i < n
        /\ n - (n - 1 - i) = i + 1
    BY <1>2, <1>3
  <2>2. Forward[i] = s[i + 1]
    BY <1>4, <2>1
  <2>3. Backward[n - 1 - i] = s[n - (n - 1 - i)]
    BY <1>4, <2>1
  <2> QED  BY <1>3, <2>1, <2>2, <2>3
<1> QED  BY <1>5, <1>6 DEF BothWays

\* Both directions of the kernel's delay list see the same nodes in opposite
\* orders and end, whatever was removed from the middle or under the tick.
THEOREM ListBothWays == Spec => []BothWays
BY ListInvariant, LinkedBothWays, PTL

\* The list implements the set, but for its fairness: an include adds one task,
\* a removal takes out one, a tick the expired ones and no others.
THEOREM ListIsSet == Spec => Set!Init /\ [][Set!Next]_(Set!dvars)
<1>1. Init => Set!Init
  <2>1. ASSUME Init PROVE Linked(0, [i \in 1 .. 0 |-> 0])
    BY <2>1 DEF Linked, Distinct, Up, Down, Init
  <2>2. ASSUME Init PROVE Nodes = Elements(0, [i \in 1 .. 0 |-> 0])
    BY <2>1, <2>2, NodesElements
  <2>3. Elements(0, [i \in 1 .. 0 |-> 0]) = {}
    BY DEF Elements
  <2> QED  BY <2>2, <2>3 DEF Init, Set!Init
<1>2. ListInv /\ [Step]_lvars => [Set!Next]_(Set!dvars)
  BY StepList
<1> QED  BY ListInvariant, <1>1, <1>2, PTL DEF Spec
=============================================================================
