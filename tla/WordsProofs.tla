---------------------------- MODULE WordsProofs -----------------------------
(***************************************************************************)
(* What the shell makes of a line of any length, with names, limits and     *)
(* formats that may be any: the words it finds are the line's words, the    *)
(* numbers the kernel gets are those they denote, and printf and scanf      *)
(* agree.                                                                   *)
(*                                                                          *)
(* The code's loops are recursive functions of the number of turns.  That   *)
(* there are such functions is shown once (Loop); what they compute is      *)
(* shown by taking the least number of turns after which it would be wrong. *)
(***************************************************************************)
EXTENDS Commands, FiniteSetTheorems, NaturalsInduction, WellFoundedInduction,
        SequenceTheorems, TLAPS

(***************************************************************************)
(* Numbers and loops.                                                       *)
(***************************************************************************)
\* A set of natural numbers has a least one.
LEMMA LeastExists ==
  ASSUME NEW S, S \subseteq Nat, S # {}
  PROVE  \E m \in S : \A k \in S : m <= k
<1>1. PICK m \in S : \A k \in S : ~(<<k, m>> \in OpToRel(<, Nat))
  BY NatLessThanWellFounded, WFMin
<1>2. ASSUME NEW k \in S
      PROVE  m <= k
  <2>1. m \in Nat /\ k \in Nat
    OBVIOUS
  <2>2. ~(k < m)
    <3>1. k < m => <<k, m>> \in OpToRel(<, Nat)
      BY <2>1, Zenon DEF OpToRel
    <3> QED
      BY <1>1, <3>1
  <2> QED
    BY <2>1, <2>2
<1> QED
  BY <1>2

\* Min of a set of natural numbers is its least one.
LEMMA MinIs ==
  ASSUME NEW S, S \subseteq Nat, S # {}
  PROVE  Min(S) \in S /\ \A k \in S : Min(S) <= k
<1>1. \E m \in S : \A k \in S : m <= k
  BY LeastExists
<1> QED
  BY <1>1, Zenon DEF Min

\* What holds before the first turn and is kept by every turn holds after each.
LEMMA AllTurns ==
  ASSUME NEW n \in Nat, NEW Good, 0 \in Good,
         \A k \in 1..n : k - 1 \in Good => k \in Good
  PROVE  \A k \in 0..n : k \in Good
<1> DEFINE Bad == {k \in 0..n : k \notin Good}
<1>1. SUFFICES ASSUME Bad # {}
               PROVE  FALSE
  OBVIOUS
<1>2. Bad \subseteq Nat
  OBVIOUS
<1>3. PICK k \in Bad : \A j \in Bad : k <= j
  BY <1>1, <1>2, LeastExists
<1>4. k \in 0..n /\ k \notin Good
  OBVIOUS
<1>5. k # 0
  BY <1>4
<1>6. k \in 1..n /\ k - 1 \in 0..n /\ ~(k <= k - 1)
  BY <1>4, <1>5
<1>7. k - 1 \in Good
  BY <1>3, <1>6
<1> QED
  BY <1>4, <1>6, <1>7

\* f[k] is the state after k turns of a loop that begins with a.
ByTurns(f, n, a, G) == f[0] = a /\ \A k \in 1..n : f[k] = G[k][f[k - 1]]

\* There is a function that holds what a loop's variable is after every turn.
LEMMA Loop ==
  ASSUME NEW n \in Nat, NEW S, NEW a \in S, NEW G \in [1..n -> [S -> S]]
  PROVE  \E f \in [0..n -> S] : ByTurns(f, n, a, G)
<1> DEFINE Upto(f, m) == f[0] = a /\ \A k \in 1..m : f[k] = G[k][f[k - 1]]
           Good == {m \in 0..n : \E f \in [0..n -> S] : Upto(f, m)}
<1>1. 0 \in Good
  <2>1. [k \in 0..n |-> a] \in [0..n -> S] /\ Upto([k \in 0..n |-> a], 0)
    OBVIOUS
  <2> HIDE DEF Upto
  <2>2. 0 \in 0..n
    OBVIOUS
  <2> QED
    BY <2>1, <2>2
<1>2. ASSUME NEW m \in 1..n, m - 1 \in Good
      PROVE  m \in Good
  <2>1. PICK f \in [0..n -> S] : Upto(f, m - 1)
    BY <1>2, Zenon
  <2> DEFINE v == G[m][f[m - 1]]
             g == [f EXCEPT ![m] = v]
  <2>2. m \in 0..n /\ m - 1 \in 0..n /\ 0 \in 0..n /\ m # 0
    OBVIOUS
  <2>3. v \in S
    BY <2>2
  <2>4. g \in [0..n -> S] /\ g[m] = v /\ \A k \in 0..n : k # m => g[k] = f[k]
    BY <2>2, <2>3
  <2>5. v = G[m][f[m - 1]]
    OBVIOUS
  <2> HIDE DEF v, g
  <2>6. g[0] = a
    BY <2>1, <2>2, <2>4
  <2>7. ASSUME NEW k \in 1..m
        PROVE  g[k] = G[k][g[k - 1]]
    <3>1. k \in 0..n /\ k - 1 \in 0..n /\ k - 1 # m
      OBVIOUS
    <3>2. g[k - 1] = f[k - 1]
      BY <2>4, <3>1
    <3>3. CASE k = m
      BY <2>4, <2>5, <3>2, <3>3
    <3>4. CASE k # m
      <4>1. k \in 1..(m - 1)
        BY <3>4
      <4>2. f[k] = G[k][f[k - 1]]
        BY <2>1, <4>1
      <4> QED
        BY <2>4, <3>1, <3>2, <3>4, <4>2
    <3> QED
      BY <3>3, <3>4
  <2>8. Upto(g, m)
    BY <2>6, <2>7
  <2> HIDE DEF Upto
  <2> QED
    BY <2>2, <2>4, <2>8
<1> HIDE DEF Good
<1>3. \A m \in 0..n : m \in Good
  BY <1>1, <1>2, AllTurns
<1>4. n \in Good
  BY <1>3
<1> QED
  BY <1>4, Zenon DEF Good, ByTurns

(***************************************************************************)
(* Strings.                                                                 *)
(***************************************************************************)
Str == Seq(Nat)

\* A string is read up to its end, where the zero stands, which is no space.
LEMMA AtIs ==
  ASSUME NEW str \in Str, NEW i \in Nat
  PROVE  /\ i < Len(str) => i + 1 \in 1..Len(str) /\ At(str, i) = str[i + 1]
         /\ i >= Len(str) => At(str, i) = 0
         /\ At(str, i) \in Nat
         /\ isspace(At(str, i)) => i < Len(str)
<1>1. Len(str) \in Nat
  BY DEF Str
<1>2. i < Len(str) => i + 1 \in 1..Len(str) /\ str[i + 1] \in Nat
  BY <1>1 DEF Str
<1>3. i >= Len(str) => ~(i < Len(str))
  BY <1>1
<1>4. ~isspace(0)
  BY DEF isspace, Spaces, Space
<1> QED
  BY <1>1, <1>2, <1>3, <1>4, Zenon DEF At

\* The next word begins at the first character that is not a space.
LEMMA NextWordIs ==
  ASSUME NEW str \in Str, NEW at \in 0..(Len(str) + 1)
  PROVE  LET from == NextWord(str, at)
         IN  /\ from \in at..(Len(str) + 1)
             /\ from < Len(str) => ~isspace(str[from + 1])
             /\ \A i \in (at + 1)..from : i \in 1..Len(str) /\ isspace(str[i])
<1> DEFINE n == Len(str)
           S == {i \in at..(n + 1) : ~isspace(At(str, i))}
           from == NextWord(str, at)
<1>1. n \in Nat /\ at \in Nat
  BY DEF Str
<1>2. S \subseteq Nat
  BY <1>1
<1>3. n + 1 \in S
  <2>1. n + 1 \in at..(n + 1) /\ n + 1 \in Nat /\ ~(n + 1 < n)
    BY <1>1
  <2>2. ~isspace(At(str, n + 1))
    BY <2>1, AtIs
  <2> QED
    BY <2>1, <2>2
<1>4. from \in S /\ \A i \in S : from <= i
  BY <1>2, <1>3, MinIs, Zenon DEF NextWord
<1>5. from \in at..(n + 1) /\ ~isspace(At(str, from))
  BY <1>4
<1>6. from \in Nat
  BY <1>5, <1>1
<1>7. ASSUME NEW i \in (at + 1)..from
      PROVE  i \in 1..n /\ isspace(str[i])
  <2>1. i - 1 \in at..(n + 1) /\ i - 1 \in Nat /\ ~(from <= i - 1) /\ (i - 1) + 1 = i /\ i \in Nat
    BY <1>1, <1>5, <1>6
  <2>2. isspace(At(str, i - 1))
    BY <1>4, <2>1
  <2> HIDE DEF S, from
  <2>3. i - 1 < n /\ At(str, i - 1) = str[(i - 1) + 1]
    BY <2>1, <2>2, AtIs
  <2>4. i \in 1..n
    BY <2>1, <2>3, <1>1
  <2> QED
    BY <2>1, <2>2, <2>3, <2>4
<1>8. from < n => ~isspace(str[from + 1])
  BY <1>5, <1>6, AtIs
<1> QED
  BY <1>5, <1>7, <1>8

\* A word ends before the first space or with the string.
LEMMA NextSpaceIs ==
  ASSUME NEW str \in Str, NEW at \in 0..Len(str)
  PROVE  LET to == NextSpace(str, at)
         IN  /\ to \in at..Len(str)
             /\ to < Len(str) => isspace(str[to + 1])
             /\ \A i \in (at + 1)..to : ~isspace(str[i])
<1> DEFINE n == Len(str)
           S == {i \in at..n : i = n \/ isspace(At(str, i))}
           to == NextSpace(str, at)
<1>1. n \in Nat /\ at \in Nat
  BY DEF Str
<1>2. S \subseteq Nat
  BY <1>1
<1>3. n \in S
  BY <1>1
<1>4. to \in S /\ \A i \in S : to <= i
  BY <1>2, <1>3, MinIs, Zenon DEF NextSpace
<1>5. to \in at..n /\ (to = n \/ isspace(At(str, to)))
  BY <1>4
<1>6. to \in Nat
  BY <1>5, <1>1
<1>7. ASSUME NEW i \in (at + 1)..to
      PROVE  ~isspace(str[i])
  <2>1. i - 1 \in at..n /\ i - 1 \in Nat /\ ~(to <= i - 1) /\ (i - 1) + 1 = i /\ i - 1 < n
    BY <1>1, <1>5, <1>6
  <2>2. ~isspace(At(str, i - 1))
    BY <1>4, <2>1
  <2> HIDE DEF S, to
  <2>3. At(str, i - 1) = str[(i - 1) + 1]
    BY <2>1, AtIs
  <2> QED
    BY <2>1, <2>2, <2>3
<1>8. to < n => isspace(str[to + 1])
  <2>1. to < n => to # n /\ At(str, to) = str[to + 1]
    <3> HIDE DEF S, to
    <3> QED
      BY <1>6, <1>1, AtIs
  <2> QED
    BY <1>5, <2>1
<1> QED
  BY <1>5, <1>7, <1>8

(***************************************************************************)
(* The words of a line, by their places.                                    *)
(***************************************************************************)
LEMMA RunIs ==
  ASSUME line \in Str, NEW run \in Runs
  PROVE  /\ run[1] \in 1..Len(line) /\ run[2] \in run[1]..Len(line)
         /\ run = <<run[1], run[2]>>
         /\ \A k \in run[1]..run[2] : ~isspace(line[k])
         /\ run[1] # 1 => isspace(line[run[1] - 1])
         /\ run[2] # Len(line) => isspace(line[run[2] + 1])
<1>1. Len(line) \in Nat
  BY DEF Str
<1>2. /\ run \in (1..Len(line)) \X (1..Len(line))
      /\ run[1] <= run[2] /\ IsWord(run[1], run[2])
  BY Zenon DEF Runs
<1>3. run[1] \in 1..Len(line) /\ run[2] \in 1..Len(line) /\ run = <<run[1], run[2]>>
  BY <1>2
<1>4. run[2] \in run[1]..Len(line)
  BY <1>1, <1>2, <1>3
<1> QED
  BY <1>2, <1>3, <1>4, Zenon DEF IsWord

\* Runs that begin or end at the same place are the same.
LEMMA RunsDiffer ==
  ASSUME line \in Str, NEW r \in Runs, NEW q \in Runs, r[1] = q[1]
  PROVE  r = q
<1> DEFINE n == Len(line)
           a == r[1]
           b == r[2]
           c == q[2]
<1>1. n \in Nat
  BY DEF Str
<1>2. /\ a \in 1..n /\ b \in a..n /\ r = <<a, b>>
      /\ \A k \in a..b : ~isspace(line[k])
      /\ b # n => isspace(line[b + 1])
  BY RunIs
<1>3. /\ c \in a..n /\ q = <<a, c>>
      /\ \A k \in a..c : ~isspace(line[k])
      /\ c # n => isspace(line[c + 1])
  BY RunIs
<1> HIDE DEF n, a, b, c
<1>4. ~(b < c)
  <2>1. b < c => b # n /\ b + 1 \in a..c
    BY <1>1, <1>2, <1>3
  <2> QED
    BY <1>2, <1>3, <2>1
<1>5. ~(c < b)
  <2>1. c < b => c # n /\ c + 1 \in a..b
    BY <1>1, <1>2, <1>3
  <2> QED
    BY <1>2, <1>3, <2>1
<1>6. b = c
  BY <1>1, <1>2, <1>3, <1>4, <1>5
<1> QED
  BY <1>2, <1>3, <1>6

\* A line has finitely many words.
LEMMA RunsAreFinite ==
  ASSUME line \in Str
  PROVE  /\ IsFiniteSet(Runs) /\ Cardinality(Runs) \in Nat
         /\ \A i : /\ IsFiniteSet(RunsUpTo(i)) /\ RunsUpTo(i) \subseteq Runs
                   /\ Cardinality(RunsUpTo(i)) \in 0..Cardinality(Runs)
<1>1. Len(line) \in Nat
  BY DEF Str
<1>2. IsFiniteSet(1..Len(line))
  BY <1>1, FS_Interval
<1>3. IsFiniteSet((1..Len(line)) \X (1..Len(line)))
  BY <1>2, FS_Product
<1>4. Runs \subseteq (1..Len(line)) \X (1..Len(line))
  BY Zenon DEF Runs
<1>5. IsFiniteSet(Runs)
  BY <1>3, <1>4, FS_Subset
<1>6. Cardinality(Runs) \in Nat
  BY <1>5, FS_CardinalityType
<1>7. ASSUME NEW i
      PROVE  /\ IsFiniteSet(RunsUpTo(i)) /\ RunsUpTo(i) \subseteq Runs
             /\ Cardinality(RunsUpTo(i)) \in 0..Cardinality(Runs)
  <2>1. RunsUpTo(i) \subseteq Runs
    BY Zenon DEF RunsUpTo
  <2>2. IsFiniteSet(RunsUpTo(i)) /\ Cardinality(RunsUpTo(i)) <= Cardinality(Runs)
    BY <1>5, <2>1, FS_Subset
  <2>3. Cardinality(RunsUpTo(i)) \in Nat
    BY <2>2, FS_CardinalityType
  <2> QED
    BY <1>6, <2>1, <2>2, <2>3
<1> QED
  BY <1>5, <1>6, <1>7

\* Where parse_args finds no word, there is none further on.
LEMMA NoMoreRuns ==
  ASSUME line \in Str, NEW at \in 0..(Len(line) + 1), NextWord(line, at) >= Len(line)
  PROVE  RunsUpTo(at) = Runs
<1> DEFINE n == Len(line)
           from == NextWord(line, at)
<1>1. n \in Nat /\ at \in Nat
  BY DEF Str
<1>2. from \in at..(n + 1) /\ \A i \in (at + 1)..from : isspace(line[i])
  BY NextWordIs, Zenon
<1>3. from >= n
  OBVIOUS
<1>4. ASSUME NEW run \in Runs
      PROVE  run[1] <= at
  <2> DEFINE a == run[1]
             b == run[2]
  <2>1. a \in 1..n /\ b \in a..n /\ \A k \in a..b : ~isspace(line[k])
    BY RunIs, Zenon
  <2> HIDE DEF a, b, n, from
  <2>2. a \in a..b
    BY <1>1, <2>1
  <2>3. ~(a <= at) => a \in (at + 1)..from
    BY <1>1, <1>2, <1>3, <2>1
  <2>4. a <= at
    BY <1>2, <2>1, <2>2, <2>3, Zenon
  <2> QED
    BY <2>4 DEF a
<1> QED
  BY <1>4, Zenon DEF RunsUpTo

\* Where it finds one, it is the next, if it did not begin within a word.
Between(at) == at \in 1..(Len(line) - 1) => isspace(line[at]) \/ isspace(line[at + 1])

\* From between two words, parse_args comes to the next word, the next run of the line.
LEMMA NextRun ==
  ASSUME line \in Str, NEW at \in 0..(Len(line) + 1), Between(at),
         NextWord(line, at) < Len(line)
  PROVE  LET from == NextWord(line, at)
             to == NextSpace(line, from)
             run == <<from + 1, to>>
         IN  /\ from \in at..(Len(line) - 1) /\ to \in (from + 1)..Len(line)
             /\ run \in Runs /\ run \notin RunsUpTo(at)
             /\ \A i \in (from + 1)..(to + 1) : RunsUpTo(i) = RunsUpTo(at) \cup {run}
             /\ Between(to + 1)
<1> DEFINE n == Len(line)
           from == NextWord(line, at)
           to == NextSpace(line, from)
           run == <<from + 1, to>>
<1>1. n \in Nat /\ at \in Nat
  BY DEF Str
<1>2. /\ from \in at..(n + 1) /\ ~isspace(line[from + 1])
      /\ \A i \in (at + 1)..from : isspace(line[i])
  BY NextWordIs, Zenon
<1>3. from < n
  OBVIOUS
<1>4. from \in 0..n /\ from \in Nat /\ from \in at..(n - 1)
  BY <1>1, <1>2, <1>3
<1>5. /\ to \in from..n
      /\ to < n => isspace(line[to + 1])
      /\ \A i \in (from + 1)..to : ~isspace(line[i])
  BY <1>4, NextSpaceIs, Zenon
<1>6. at \in 1..(n - 1) => isspace(line[at]) \/ isspace(line[at + 1])
  BY DEF Between
<1> HIDE DEF n, from, to
<1>7. to # from
  BY <1>2, <1>3, <1>5
<1>8. to \in (from + 1)..n /\ to \in Nat
  BY <1>1, <1>4, <1>5, <1>7
<1>9. to # n => isspace(line[to + 1])
  <2>1. to # n => to < n
    BY <1>1, <1>8
  <2> QED
    BY <1>5, <2>1
<1>10. run \in Runs
  <2>1. from + 1 \in 1..n /\ to \in 1..n /\ from + 1 <= to
    BY <1>1, <1>4, <1>8
  <2>2. from + 1 = 1 \/ isspace(line[(from + 1) - 1])
    <3>1. (from + 1) - 1 = from
      BY <1>4
    <3>2. CASE from = at
      <4>1. from + 1 # 1 => at \in 1..(n - 1)
        BY <1>1, <1>4, <3>2
      <4> QED
        BY <1>2, <1>6, <3>1, <3>2, <4>1
    <3>3. CASE from # at
      <4>1. from \in (at + 1)..from
        BY <1>1, <1>4, <3>3
      <4> QED
        BY <1>2, <3>1, <4>1
    <3> QED
      BY <3>2, <3>3
  <2>3. IsWord(from + 1, to)
    BY <1>5, <1>9, <2>2, Zenon DEF IsWord, n
  <2>4. run \in (1..n) \X (1..n) /\ run[1] = from + 1 /\ run[2] = to
    BY <2>1
  <2> HIDE DEF run
  <2> QED
    BY <2>1, <2>3, <2>4, Zenon DEF Runs, n
<1>11. run \notin RunsUpTo(at)
  <2>1. run[1] = from + 1 /\ ~(from + 1 <= at)
    BY <1>1, <1>4
  <2> HIDE DEF run
  <2> QED
    BY <2>1, Zenon DEF RunsUpTo
<1>12. ASSUME NEW i \in (from + 1)..(to + 1)
       PROVE  RunsUpTo(i) = RunsUpTo(at) \cup {run}
  <2>1. at <= i /\ from + 1 <= i /\ i \in Nat
    BY <1>1, <1>4, <1>8
  <2>2. ASSUME NEW r \in Runs, r[1] <= at
        PROVE  r[1] <= i
    <3>1. r[1] \in Nat
      BY <1>1, RunIs DEF n
    <3> QED
      BY <1>1, <2>1, <2>2, <3>1
  <2>3. run[1] <= i
    BY <2>1
  <2>4. ASSUME NEW r \in Runs, r[1] <= i, ~(r[1] <= at)
        PROVE  r = run
    <3> DEFINE a == r[1]
               b == r[2]
    <3>1. /\ a \in 1..n /\ b \in a..n /\ \A k \in a..b : ~isspace(line[k])
          /\ a # 1 => isspace(line[a - 1])
      BY RunIs, Zenon DEF n
    <3>2. a <= i /\ ~(a <= at)
      BY <2>4
    <3>3. SUFFICES a = from + 1
      BY <1>10, RunsDiffer
    <3> HIDE DEF a, b, run
    <3>4. a \in a..b /\ a \in Nat
      BY <1>1, <3>1
    <3>5. ~(a \in (at + 1)..from)
      BY <1>2, <3>1, <3>4
    <3>6. a # to + 1
      <4>1. a = to + 1 => to # n
        BY <1>1, <1>8, <3>1
      <4> QED
        BY <1>9, <3>1, <3>4, <4>1
    <3>7. a \in (from + 1)..to
      BY <1>1, <1>4, <1>8, <2>1, <3>2, <3>4, <3>5, <3>6
    <3>8. a # from + 1 => a # 1 /\ a - 1 \in (from + 1)..to
      BY <1>4, <1>8, <3>7
    <3> QED
      BY <1>5, <3>1, <3>8
  <2> HIDE DEF run
  <2> QED
    BY <1>10, <2>2, <2>3, <2>4, Zenon DEF RunsUpTo
<1>13. Between(to + 1)
  <2>1. to + 1 \in 1..(n - 1) => to # n
    BY <1>1
  <2> QED
    BY <1>9, <2>1, Zenon DEF Between, n
<1> QED
  BY <1>4, <1>8, <1>10, <1>11, <1>12, <1>13 DEF n, from, to

\* The k-th word is the run that k runs begin up to.
LEMMA CountsDiffer ==
  ASSUME line \in Str, NEW r \in Runs, NEW q \in Runs,
         Cardinality(RunsUpTo(r[1])) = Cardinality(RunsUpTo(q[1]))
  PROVE  ~(r[1] < q[1])
<1>1. SUFFICES ASSUME r[1] < q[1]
               PROVE  FALSE
  OBVIOUS
<1> DEFINE A == RunsUpTo(r[1])
           B == RunsUpTo(q[1])
<1>2. r[1] \in Nat /\ q[1] \in Nat
  <2>1. Len(line) \in Nat
    BY DEF Str
  <2> QED
    BY <2>1, RunIs
<1>3. \A x \in Runs : x[1] \in Nat
  <2>1. Len(line) \in Nat
    BY DEF Str
  <2> QED
    BY <2>1, RunIs
<1>4. q \notin A /\ A \cup {q} \subseteq B
  <2>1. ~(q[1] <= r[1]) /\ q[1] <= q[1]
    BY <1>1, <1>2
  <2>2. \A x \in Runs : x[1] <= r[1] => x[1] <= q[1]
    BY <1>1, <1>2, <1>3
  <2> QED
    BY <2>1, <2>2, Zenon DEF RunsUpTo
<1>5. IsFiniteSet(A) /\ IsFiniteSet(B)
  BY RunsAreFinite, Zenon
<1>6. Cardinality(A) = Cardinality(B)
  OBVIOUS
<1> HIDE DEF A, B
<1>7. Cardinality(A) \in Nat
  BY <1>5, FS_CardinalityType
<1>8. Cardinality(A \cup {q}) = Cardinality(A) + 1
  BY <1>4, <1>5, FS_AddElement
<1>9. Cardinality(A \cup {q}) <= Cardinality(B)
  BY <1>4, <1>5, FS_Subset
<1> QED
  BY <1>6, <1>7, <1>8, <1>9

\* The k-th word of a line is the one that k runs begin with or before.
LEMMA WordAt ==
  ASSUME line \in Str, NEW run \in Runs
  PROVE  LET k == Cardinality(RunsUpTo(run[1]))
         IN  k \in 1..Cardinality(Runs) /\ WordsOfLine[k] = SubSeq(line, run[1], run[2])
<1> DEFINE c(r) == Cardinality(RunsUpTo(r[1]))
           W == Cardinality(Runs)
           k == c(run)
<1>1. k \in 0..W /\ W \in Nat
  BY RunsAreFinite, Zenon
<1>2. k # 0
  <2>1. run[1] <= run[1]
    <3>1. Len(line) \in Nat
      BY DEF Str
    <3>2. run[1] \in Nat
      BY <3>1, RunIs
    <3> QED
      BY <3>2
  <2>2. run \in RunsUpTo(run[1])
    BY <2>1, Zenon DEF RunsUpTo
  <2>3. IsFiniteSet(RunsUpTo(run[1]))
    BY RunsAreFinite, Zenon
  <2> QED
    BY <2>2, <2>3, FS_EmptySet
<1>3. k \in 1..W
  <2> HIDE DEF k, W
  <2> QED
    BY <1>1, <1>2
<1>4. ASSUME NEW r \in Runs, c(r) = k
      PROVE  r = run
  <2>1. ~(r[1] < run[1]) /\ ~(run[1] < r[1])
    BY <1>4, CountsDiffer, Zenon
  <2>2. r[1] \in Nat /\ run[1] \in Nat
    <3>1. Len(line) \in Nat
      BY DEF Str
    <3> QED
      BY <3>1, RunIs
  <2>3. r[1] = run[1]
    BY <2>1, <2>2
  <2> QED
    BY <2>3, RunsDiffer, Zenon
<1>5. (CHOOSE r \in Runs : c(r) = k) = run
  BY <1>4, Zenon
<1>6. WordsOfLine[k] = LET r == CHOOSE r \in Runs : c(r) = k IN SubSeq(line, r[1], r[2])
  <2> HIDE DEF k
  <2> QED
    BY <1>3, Zenon DEF WordsOfLine
<1> QED
  BY <1>3, <1>5, <1>6, Zenon

\* There is a run for each number, since there are as many numbers as runs.
LEMMA EveryWord ==
  ASSUME line \in Str, NEW k \in 1..Cardinality(Runs)
  PROVE  \E run \in Runs : /\ Cardinality(RunsUpTo(run[1])) = k
                           /\ WordsOfLine[k] = SubSeq(line, run[1], run[2])
<1> DEFINE W == Cardinality(Runs)
           c(r) == Cardinality(RunsUpTo(r[1]))
           f == [r \in Runs |-> c(r)]
<1>1. IsFiniteSet(Runs) /\ W \in Nat
  BY RunsAreFinite, Zenon
<1>2. \A r \in Runs : c(r) \in 1..W
  BY WordAt, Zenon
<1>3. ASSUME NEW r \in Runs, NEW q \in Runs, c(r) = c(q)
      PROVE  r = q
  <2>1. ~(r[1] < q[1]) /\ ~(q[1] < r[1])
    BY <1>3, CountsDiffer, Zenon
  <2>2. r[1] \in Nat /\ q[1] \in Nat
    <3>1. Len(line) \in Nat
      BY DEF Str
    <3> QED
      BY <3>1, RunIs
  <2>3. r[1] = q[1]
    BY <2>1, <2>2
  <2> QED
    BY <2>3, RunsDiffer, Zenon
<1>4. \A r \in Runs : f[r] = c(r)
  OBVIOUS
<1>5. f \in [Runs -> 1..W]
  <2> HIDE DEF W
  <2> QED
    BY <1>2
<1> HIDE DEF f
<1>6. f \in Injection(Runs, 1..W)
  <2>1. ASSUME NEW r \in Runs, NEW q \in Runs, f[r] = f[q]
        PROVE  r = q
    <3>1. c(r) = c(q)
      BY <1>4, <2>1, Zenon
    <3> QED
      BY <1>3, <3>1, Zenon
  <2>2. DOMAIN f = Runs
    BY <1>5, Zenon
  <2> QED
    BY <1>5, <2>1, <2>2, Zenon DEF Injection, IsInjective
<1>7. IsFiniteSet(1..W) /\ Cardinality(1..W) = W
  <2> HIDE DEF W
  <2>1. 1 \in Int /\ W \in Int
    BY <1>1
  <2>2. IsFiniteSet(1..W) /\ Cardinality(1..W) = IF 1 > W THEN 0 ELSE W - 1 + 1
    BY <2>1, FS_Interval
  <2> QED
    BY <1>1, <2>2
<1>8. f \in Surjection(Runs, 1..W)
  BY <1>6, <1>7, FS_Injection, Zenon
<1>9. \E run \in Runs : f[run] = k
  BY <1>8, Zenon DEF Surjection
<1>10. PICK run \in Runs : c(run) = k
  BY <1>4, <1>9, Zenon
<1>11. WordsOfLine[k] = SubSeq(line, run[1], run[2])
  BY <1>10, WordAt, Zenon
<1> QED
  BY <1>10, <1>11, Zenon

\* A word is a string without a space, and not empty.
Word == {w \in Str : w # <<>> /\ \A i \in 1..Len(w) : ~isspace(w[i])}

\* The words of a line are words: nothing in them is a space.
LEMMA WordsAreWords ==
  ASSUME line \in Str
  PROVE  /\ WordsOfLine \in Seq(Word) /\ Len(WordsOfLine) = Cardinality(Runs)
         /\ Len(WordsOfLine) \in Nat
<1> DEFINE W == Cardinality(Runs)
<1>1. W \in Nat
  BY RunsAreFinite, Zenon
<1>2. ASSUME NEW k \in 1..W
      PROVE  WordsOfLine[k] \in Word
  <2>1. PICK run \in Runs : WordsOfLine[k] = SubSeq(line, run[1], run[2])
    BY EveryWord, Zenon
  <2> DEFINE a == run[1]
             b == run[2]
             w == SubSeq(line, a, b)
  <2>2. /\ a \in 1..Len(line) /\ b \in a..Len(line)
        /\ \A i \in a..b : ~isspace(line[i])
    BY RunIs, Zenon
  <2>3. Len(line) \in Nat
    BY DEF Str
  <2> HIDE DEF a, b
  <2>4. a \in Int /\ b \in Int /\ a <= b
    BY <2>2, <2>3
  <2>5. \A i \in a..b : line[i] \in Nat
    BY <2>2, <2>3 DEF Str
  <2>6. /\ w \in Seq(Nat) /\ Len(w) = b - a + 1
        /\ \A i \in 1..(b - a + 1) : w[i] = line[a + i - 1]
    BY <2>4, <2>5, SubSeqProperties
  <2> HIDE DEF w
  <2>7. \A i \in 1..(b - a + 1) : a + i - 1 \in a..b
    BY <2>4
  <2>8. \A i \in 1..Len(w) : ~isspace(w[i])
    BY <2>2, <2>6, <2>7
  <2>9. w # <<>>
    BY <2>4, <2>6
  <2>10. w \in Word
    BY <2>6, <2>8, <2>9, Zenon DEF Word, Str
  <2> QED
    BY <2>1, <2>10, Zenon DEF w, a, b
<1> DEFINE word(k) == LET run == CHOOSE run \in Runs : Cardinality(RunsUpTo(run[1])) = k
                      IN  SubSeq(line, run[1], run[2])
<1>3. WordsOfLine = [k \in 1..W |-> word(k)]
  BY Zenon DEF WordsOfLine
<1> HIDE DEF W, word
<1>4. \A k \in 1..W : word(k) \in Word
  BY <1>2, <1>3, Zenon
<1>5. WordsOfLine \in [1..W -> Word]
  BY <1>3, <1>4
<1>6. WordsOfLine \in Seq(Word) /\ Len(WordsOfLine) = W
  BY <1>1, <1>5
<1> QED
  BY <1>1, <1>6 DEF W

(***************************************************************************)
(* parse_args and execute_command.                                          *)
(***************************************************************************)
Parsing(str) == [at : 0..(Len(str) + 1), argv : Seq(Str)]

\* A turn of parse_args keeps its variables' types.
LEMMA NextArgIs ==
  ASSUME NEW str \in Str, NEW old \in Parsing(str)
  PROVE  NextArg(str, old) \in Parsing(str)
<1> DEFINE n == Len(str)
           from == NextWord(str, old.at)
           to == NextSpace(str, from)
           word == SubSeq(str, from + 1, to)
<1>1. n \in Nat /\ old.at \in 0..(n + 1) /\ old.argv \in Seq(Str)
  BY DEF Str, Parsing
<1>2. from \in (old.at)..(n + 1)
  BY <1>1, NextWordIs, Zenon
<1>3. CASE from >= n
  BY <1>3, Zenon DEF NextArg
<1>4. CASE ~(from >= n)
  <2>1. from \in 0..n
    <3> HIDE DEF from, n
    <3> QED
      BY <1>1, <1>2, <1>4
  <2>2. to \in from..n
    BY <2>1, NextSpaceIs, Zenon
  <2>3. word \in Str
    <3>1. from + 1 \in Int /\ to \in Int /\ \A i \in (from + 1)..to : i \in 1..n
      <4> HIDE DEF from, n, to
      <4> QED
        BY <1>1, <2>1, <2>2
    <3>2. \A i \in (from + 1)..to : str[i] \in Nat
      BY <3>1 DEF Str
    <3> HIDE DEF from, to, n
    <3> QED
      BY <3>1, <3>2, SubSeqProperties DEF Str
  <2>4. Append(old.argv, word) \in Seq(Str)
    <3> HIDE DEF word
    <3> QED
      BY <1>1, <2>3
  <2>5. to + 1 \in 0..(n + 1)
    <3> HIDE DEF from, n, to
    <3> QED
      BY <1>1, <2>1, <2>2
  <2>6. NextArg(str, old) = [at |-> to + 1, argv |-> Append(old.argv, word)]
    BY <1>4, Zenon DEF NextArg
  <2> HIDE DEF n, from, to, word
  <2>7. [at |-> to + 1, argv |-> Append(old.argv, word)] \in [at : 0..(n + 1), argv : Seq(Str)]
    BY <2>4, <2>5
  <2> QED
    BY <2>6, <2>7, Zenon DEF Parsing, n
<1> QED
  BY <1>3, <1>4

\* The states of parse_args's loop, turn by turn.
ParseTurns(parse, str, start) ==
  /\ parse \in [0..MAX_ARGS -> Parsing(str)]
  /\ parse[0] = [at |-> start, argv |-> <<>>]
  /\ \A k \in 1..MAX_ARGS : parse[k] = NextArg(str, parse[k - 1])

\* Parsed is what MAX_ARGS turns of parse_args leave in argv.
LEMMA ParsedIs ==
  ASSUME NEW str \in Str, NEW start \in 0..Len(str)
  PROVE  \E parse : ParseTurns(parse, str, start) /\ Parsed(str, start) = parse[MAX_ARGS].argv
<1> DEFINE S == Parsing(str)
           a == [at |-> start, argv |-> <<>>]
           N(old) == NextArg(str, old)
           G == [k \in 1..MAX_ARGS |-> [old \in S |-> N(old)]]
           F(g) == [k \in 0..MAX_ARGS |-> IF k = 0 THEN a ELSE N(g[k - 1])]
           parse == CHOOSE g : g = F(g)
<1>1. MAX_ARGS \in Nat
  BY WordsAssumption
<1>2. a \in S
  <2>1. Len(str) \in Nat
    BY DEF Str
  <2> QED
    BY <2>1 DEF Parsing
<1>3. \A old \in S : N(old) \in S
  BY NextArgIs, Zenon
<1> HIDE DEF S, a, N
<1>4. G \in [1..MAX_ARGS -> [S -> S]] /\ \A k \in 1..MAX_ARGS, old \in S : G[k][old] = N(old)
  BY <1>3
<1> HIDE DEF G
<1>5. PICK h \in [0..MAX_ARGS -> S] : ByTurns(h, MAX_ARGS, a, G)
  BY <1>1, <1>2, <1>4, Loop
<1>6. h[0] = a /\ \A k \in 1..MAX_ARGS : h[k] = N(h[k - 1])
  <2>1. \A k \in 1..MAX_ARGS : h[k] = G[k][h[k - 1]] /\ h[k - 1] \in S
    BY <1>1, <1>5 DEF ByTurns
  <2> QED
    BY <1>4, <1>5, <2>1 DEF ByTurns
<1>7. h = F(h)
  <2>1. \A k \in 0..MAX_ARGS : h[k] = IF k = 0 THEN a ELSE N(h[k - 1])
    <3>1. \A k \in 0..MAX_ARGS : k # 0 => k \in 1..MAX_ARGS
      BY <1>1
    <3> QED
      BY <1>6, <3>1, Zenon
  <2>2. h = [k \in 0..MAX_ARGS |-> h[k]]
    BY <1>5
  <2>3. h = [k \in 0..MAX_ARGS |-> IF k = 0 THEN a ELSE N(h[k - 1])]
    BY <2>1, <2>2, Zenon
  <2> QED
    BY <2>3, Zenon
<1>8. parse = F(parse)
  BY <1>7, Zenon
<1>9. Parsed(str, start) = parse[MAX_ARGS].argv
  BY Zenon DEF Parsed, a, N
<1> HIDE DEF parse
<1>10. parse = [k \in 0..MAX_ARGS |-> IF k = 0 THEN a ELSE N(parse[k - 1])]
  BY <1>8, Zenon
<1>11. parse[0] = a /\ \A k \in 1..MAX_ARGS : parse[k] = N(parse[k - 1])
  <2>1. \A k \in 0..MAX_ARGS : parse[k] = IF k = 0 THEN a ELSE N(parse[k - 1])
    BY <1>10, Zenon
  <2>2. 0 \in 0..MAX_ARGS /\ \A k \in 1..MAX_ARGS : k \in 0..MAX_ARGS /\ k # 0
    BY <1>1
  <2> QED
    BY <2>1, <2>2, Zenon
<1>12. \A k \in 0..MAX_ARGS : parse[k] \in S
  <2> DEFINE Good == {k \in 0..MAX_ARGS : parse[k] \in S}
  <2>1. 0 \in Good
    BY <1>1, <1>2, <1>11
  <2>2. \A k \in 1..MAX_ARGS : k - 1 \in Good => k \in Good
    <3>1. \A k \in 1..MAX_ARGS : k \in 0..MAX_ARGS
      OBVIOUS
    <3> QED
      BY <1>3, <1>11, <3>1, Zenon
  <2> HIDE DEF Good
  <2>3. \A k \in 0..MAX_ARGS : k \in Good
    BY <1>1, <2>1, <2>2, AllTurns
  <2> QED
    BY <2>3, Zenon DEF Good
<1>13. parse \in [0..MAX_ARGS -> S]
  BY <1>10, <1>12, Zenon
<1>14. ParseTurns(parse, str, start)
  BY <1>11, <1>13, Zenon DEF ParseTurns, S, a, N
<1> QED
  BY <1>9, <1>14, Zenon

\* After k turns from the end of the first word: the words after it, k of them or all.
ParsedWell(old, k) ==
  LET begun == Cardinality(RunsUpTo(old.at))
      m == Len(old.argv)
  IN  /\ Between(old.at)
      /\ begun = m + 1 /\ m <= k
      /\ m = k \/ begun = Cardinality(Runs)
      /\ \A j \in 1..m : old.argv[j] = WordsOfLine[j + 1]

\* A turn of parse_args adds the line's next word, or the line had no more.
LEMMA ParsedWellStep ==
  ASSUME line \in Str, NEW old \in Parsing(line), NEW k \in Nat, ParsedWell(old, k)
  PROVE  ParsedWell(NextArg(line, old), k + 1)
<1> DEFINE n == Len(line)
           at == old.at
           argv == old.argv
           m == Len(argv)
           W == Cardinality(Runs)
           begun == Cardinality(RunsUpTo(at))
           from == NextWord(line, at)
           to == NextSpace(line, from)
           word == SubSeq(line, from + 1, to)
           run == <<from + 1, to>>
<1>1. at \in 0..(n + 1) /\ argv \in Seq(Str)
  BY Zenon DEF Parsing
<1>2. n \in Nat /\ m \in Nat
  BY <1>1 DEF Str
<1>3. begun \in 0..W /\ W \in Nat
  BY RunsAreFinite, Zenon
<1>4. /\ Between(at) /\ begun = m + 1 /\ m <= k
      /\ m = k \/ begun = W
      /\ \A j \in 1..m : argv[j] = WordsOfLine[j + 1]
  BY Zenon DEF ParsedWell
<1>5. CASE from >= n
  <2>1. NextArg(line, old) = old
    BY <1>5, Zenon DEF NextArg
  <2>2. begun = W
    BY <1>1, <1>5, NoMoreRuns, Zenon
  <2>3. m <= k + 1
    <3> HIDE DEF m
    <3> QED
      BY <1>2, <1>4
  <2> QED
    BY <1>4, <2>1, <2>2, <2>3, Zenon DEF ParsedWell
<1>6. CASE ~(from >= n)
  <2>1. from < n
    <3>1. from \in Nat
      <4>1. from \in at..(n + 1)
        BY <1>1, NextWordIs, Zenon
      <4> HIDE DEF from, at, n
      <4> QED
        BY <1>1, <1>2, <4>1
    <3> HIDE DEF from, n
    <3> QED
      BY <1>2, <1>6, <3>1
  <2>2. /\ from \in at..(n - 1) /\ to \in (from + 1)..n
        /\ run \in Runs /\ run \notin RunsUpTo(at)
        /\ \A i \in (from + 1)..(to + 1) : RunsUpTo(i) = RunsUpTo(at) \cup {run}
        /\ Between(to + 1)
    BY <1>1, <1>4, <2>1, NextRun, Zenon
  <2>3. NextArg(line, old) = [at |-> to + 1, argv |-> Append(argv, word)]
    BY <1>6, Zenon DEF NextArg
  <2>4. from + 1 \in (from + 1)..(to + 1) /\ to + 1 \in (from + 1)..(to + 1)
    <3> HIDE DEF from, to, n, at
    <3> QED
      BY <1>1, <1>2, <2>2
  <2>5. Cardinality(RunsUpTo(at) \cup {run}) = begun + 1
    <3>1. IsFiniteSet(RunsUpTo(at))
      BY RunsAreFinite, Zenon
    <3> HIDE DEF run, at
    <3> QED
      BY <2>2, <3>1, FS_AddElement DEF at
  <2>6. Cardinality(RunsUpTo(to + 1)) = begun + 1 /\ Cardinality(RunsUpTo(from + 1)) = begun + 1
    BY <2>2, <2>4, <2>5, Zenon
  <2>7. WordsOfLine[begun + 1] = word
    <3>1. run[1] = from + 1 /\ run[2] = to
      BY Zenon
    <3> HIDE DEF run
    <3> QED
      BY <2>2, <2>6, <3>1, WordAt, Zenon
  <2>8. begun + 1 \in 0..W
    BY <2>6, RunsAreFinite, Zenon
  <2>9. begun # W
    <3> HIDE DEF begun, W
    <3> QED
      BY <1>3, <2>8
  <2>10. m = k /\ k + 1 <= k + 1 /\ begun + 1 = (m + 1) + 1 /\ m + 1 = k + 1
    <3> HIDE DEF begun, W, m
    <3> QED
      BY <1>4, <2>9
  <2>11. word \in Str
    <3>1. WordsOfLine \in Seq(Word) /\ Len(WordsOfLine) = W
      BY WordsAreWords, Zenon
    <3>2. begun + 1 \in 1..Len(WordsOfLine)
      <4>1. begun + 1 \in 1..W
        <5> HIDE DEF begun, W
        <5> QED
          BY <1>3, <2>8
      <4> QED
        BY <3>1, <4>1, Zenon
    <3>3. WordsOfLine[begun + 1] \in Word
      <4> HIDE DEF begun
      <4> QED
        BY <3>1, <3>2, ElementOfSeq
    <3>4. Word \subseteq Str
      BY Zenon DEF Word
    <3> QED
      BY <2>7, <3>3, <3>4, Zenon
  <2> DEFINE more == Append(argv, word)
  <2>12. /\ Len(more) = m + 1 /\ more[m + 1] = word
         /\ \A j \in 1..m : more[j] = argv[j]
    <3> HIDE DEF word, argv
    <3> QED
      BY <1>1, <2>11, AppendProperties
  <2> HIDE DEF more
  <2>13. ASSUME NEW j \in 1..(m + 1)
         PROVE  more[j] = WordsOfLine[j + 1]
    <3>1. j \in 1..m \/ j = m + 1
      <4> HIDE DEF m
      <4> QED
        BY <1>2
    <3>2. WordsOfLine[(m + 1) + 1] = word
      BY <2>7, <2>10, Zenon
    <3> QED
      BY <1>4, <2>12, <3>1, <3>2, Zenon
  <2> DEFINE new == [at |-> to + 1, argv |-> more]
  <2>14. new.at = to + 1 /\ new.argv = more
    BY Zenon
  <2>15. NextArg(line, old) = new
    BY <2>3, Zenon DEF more
  <2> HIDE DEF new
  <2>16. ParsedWell(new, k + 1)
    <3>1. /\ Between(new.at)
          /\ Cardinality(RunsUpTo(new.at)) = Len(new.argv) + 1
          /\ Len(new.argv) <= k + 1
          /\ Len(new.argv) = k + 1
      BY <2>2, <2>6, <2>10, <2>12, <2>14, Zenon
    <3>2. \A j \in 1..Len(new.argv) : new.argv[j] = WordsOfLine[j + 1]
      BY <2>12, <2>13, <2>14, Zenon
    <3> QED
      BY <3>1, <3>2, Zenon DEF ParsedWell
  <2> QED
    BY <2>15, <2>16, Zenon
<1> QED
  BY <1>5, <1>6

\* parse_args returns the words behind the first, no more than MAX_ARGS.
LEMMA ArgumentsParsed ==
  ASSUME line \in Str, NEW start \in 0..Len(line), Between(start),
         Cardinality(RunsUpTo(start)) = 1
  PROVE  LET args == Tail(WordsOfLine)
         IN  Parsed(line, start) = SubSeq(args, 1, Min({Len(args), MAX_ARGS}))
<1> DEFINE W == Cardinality(Runs)
           args == Tail(WordsOfLine)
<1>1. MAX_ARGS \in Nat
  BY WordsAssumption
<1>2. PICK parse : ParseTurns(parse, line, start) /\ Parsed(line, start) = parse[MAX_ARGS].argv
  BY ParsedIs, Zenon
<1>3. \A k \in 0..MAX_ARGS : parse[k] \in Parsing(line)
  BY <1>2 DEF ParseTurns
<1>4. ParsedWell(parse[0], 0)
  <2> DEFINE new == [at |-> start, argv |-> <<>>]
  <2>1. parse[0] = new /\ new.at = start /\ new.argv = <<>>
    BY <1>2, Zenon DEF ParseTurns
  <2>2. Len(<<>>) = 0 /\ 1 = 0 + 1 /\ 0 <= 0 /\ 1..0 = {}
    OBVIOUS
  <2> HIDE DEF new
  <2>3. ParsedWell(new, 0)
    BY <2>1, <2>2, Zenon DEF ParsedWell
  <2> QED
    BY <2>1, <2>3, Zenon
<1>5. \A k \in 1..MAX_ARGS : ParsedWell(parse[k - 1], k - 1) => ParsedWell(parse[k], k)
  <2>1. ASSUME NEW k \in 1..MAX_ARGS, ParsedWell(parse[k - 1], k - 1)
        PROVE  ParsedWell(parse[k], k)
    <3>1. k - 1 \in Nat /\ k - 1 \in 0..MAX_ARGS /\ (k - 1) + 1 = k
      BY <1>1
    <3>2. ParsedWell(NextArg(line, parse[k - 1]), (k - 1) + 1)
      BY <1>3, <2>1, <3>1, ParsedWellStep, Zenon
    <3>3. parse[k] = NextArg(line, parse[k - 1])
      BY <1>2, Zenon DEF ParseTurns
    <3> QED
      BY <3>1, <3>2, <3>3, Zenon
  <2> QED
    BY <2>1
<1>6. ParsedWell(parse[MAX_ARGS], MAX_ARGS)
  <2> DEFINE Good == {k \in 0..MAX_ARGS : ParsedWell(parse[k], k)}
  <2>1. 0 \in Good
    <3>1. 0 \in 0..MAX_ARGS
      BY <1>1
    <3> QED
      BY <1>4, <3>1, Zenon
  <2>2. \A k \in 1..MAX_ARGS : k - 1 \in Good => k \in Good
    <3>1. \A k \in 1..MAX_ARGS : k \in 0..MAX_ARGS
      OBVIOUS
    <3> QED
      BY <1>5, <3>1, Zenon
  <2> HIDE DEF Good
  <2>3. \A k \in 0..MAX_ARGS : k \in Good
    BY <1>1, <2>1, <2>2, AllTurns
  <2>4. MAX_ARGS \in 0..MAX_ARGS
    BY <1>1
  <2> QED
    BY <2>3, <2>4, Zenon DEF Good
<1> DEFINE argv == parse[MAX_ARGS].argv
           m == Len(argv)
           begun == Cardinality(RunsUpTo(parse[MAX_ARGS].at))
<1>7. /\ begun = m + 1 /\ m <= MAX_ARGS
      /\ m = MAX_ARGS \/ begun = W
      /\ \A j \in 1..m : argv[j] = WordsOfLine[j + 1]
  BY <1>6, Zenon DEF ParsedWell
<1>8. begun \in 0..W /\ W \in Nat
  BY RunsAreFinite, Zenon
<1>9. argv \in Seq(Str) /\ m \in Nat
  <2>1. MAX_ARGS \in 0..MAX_ARGS
    BY <1>1
  <2>2. argv \in Seq(Str)
    BY <1>3, <2>1 DEF Parsing
  <2> QED
    BY <2>2
<1>10. WordsOfLine \in Seq(Str) /\ Len(WordsOfLine) = W
  <2>1. Word \subseteq Str
    BY Zenon DEF Word
  <2>2. WordsOfLine \in Seq(Word) /\ Len(WordsOfLine) = W
    BY WordsAreWords, Zenon
  <2> QED
    BY <2>1, <2>2, SeqMonotonic
<1> HIDE DEF W, begun, argv, m
<1>11. m + 1 <= W
  BY <1>7, <1>8
<1>12. WordsOfLine # <<>>
  BY <1>8, <1>9, <1>10, <1>11
<1>13. /\ args \in Seq(Str) /\ Len(args) = W - 1
       /\ \A i \in 1..(W - 1) : args[i] = WordsOfLine[i + 1]
  BY <1>10, <1>12, HeadTailProperties
<1> DEFINE least == Min({Len(args), MAX_ARGS})
<1>14. least = m
  <2>1. {W - 1, MAX_ARGS} \subseteq Nat /\ {W - 1, MAX_ARGS} # {}
    BY <1>1, <1>8, <1>9, <1>11
  <2>2. /\ Min({W - 1, MAX_ARGS}) \in {W - 1, MAX_ARGS}
        /\ \A j \in {W - 1, MAX_ARGS} : Min({W - 1, MAX_ARGS}) <= j
    BY <2>1, MinIs
  <2> DEFINE x == Min({W - 1, MAX_ARGS})
  <2>3. (x = W - 1 \/ x = MAX_ARGS) /\ x <= W - 1 /\ x <= MAX_ARGS
    BY <2>2
  <2> HIDE DEF x
  <2>4. x = m
    BY <1>1, <1>7, <1>8, <1>9, <1>11, <2>3
  <2> QED
    BY <1>13, <2>4, Zenon DEF x
<1> HIDE DEF args, least
<1> DEFINE some == SubSeq(args, 1, m)
<1>15. \A i \in 1..m : args[i] \in Str
  <2>1. \A i \in 1..m : i \in 1..Len(args)
    BY <1>8, <1>9, <1>11, <1>13
  <2> QED
    BY <1>13, <2>1, ElementOfSeq
<1>16. /\ some \in Seq(Str) /\ Len(some) = m
       /\ \A i \in 1..m : some[i] = args[i]
  <2>1. 1 \in Int /\ m \in Int
    BY <1>9
  <2>2. /\ some \in Seq(Str) /\ Len(some) = IF 1 <= m THEN m - 1 + 1 ELSE 0
        /\ \A i \in 1..(m - 1 + 1) : some[i] = args[1 + i - 1]
    BY <1>15, <2>1, SubSeqProperties
  <2> HIDE DEF some
  <2>3. m - 1 + 1 = m /\ (IF 1 <= m THEN m - 1 + 1 ELSE 0) = m /\ \A i \in 1..m : 1 + i - 1 = i
    BY <1>9
  <2> QED
    BY <2>2, <2>3, Zenon
<1> HIDE DEF some
<1>17. \A i \in 1..m : some[i] = argv[i]
  <2>1. \A i \in 1..m : i \in 1..(W - 1)
    BY <1>8, <1>9, <1>11
  <2> QED
    BY <1>7, <1>13, <1>16, <2>1, Zenon
<1>18. some = argv
  <2>1. Len(argv) = m
    BY Zenon DEF m
  <2> QED
    BY <1>9, <1>16, <1>17, <2>1, SeqEqual
<1> QED
  BY <1>2, <1>14, <1>18, Zenon DEF some, argv, least, args

\* A line that begins with no space begins with its first word.
LEMMA FirstWord ==
  ASSUME line \in Str, line # <<>>, ~isspace(line[1])
  PROVE  \E to \in 1..Len(line) :
           /\ to < Len(line) => isspace(line[to + 1])
           /\ <<1, to>> \in Runs /\ Between(to) /\ Cardinality(RunsUpTo(to)) = 1
           /\ WordsOfLine[1] = SubSeq(line, 1, to)
<1> DEFINE n == Len(line)
           from == NextWord(line, 0)
           to == NextSpace(line, from)
           run == <<from + 1, to>>
<1>1. n \in Nat /\ n # 0 /\ 0 \in 0..(n + 1)
  BY DEF Str
<1>2. from = 0
  <2>1. from \in 0..(n + 1) /\ \A i \in (0 + 1)..from : isspace(line[i])
    BY <1>1, NextWordIs, Zenon
  <2> HIDE DEF from, n
  <2>2. from # 0 => 1 \in (0 + 1)..from
    BY <1>1, <2>1
  <2> QED
    BY <2>1, <2>2
<1>3. from < n /\ Between(0)
  <2> HIDE DEF from
  <2> QED
    BY <1>1, <1>2 DEF Between
<1>4. /\ to \in (from + 1)..n
      /\ run \in Runs /\ run \notin RunsUpTo(0)
      /\ \A i \in (from + 1)..(to + 1) : RunsUpTo(i) = RunsUpTo(0) \cup {run}
  BY <1>1, <1>3, NextRun, Zenon
<1>5. from \in 0..n
  <2> HIDE DEF from
  <2> QED
    BY <1>1, <1>2
<1>6. to < n => isspace(line[to + 1])
  BY <1>5, NextSpaceIs, Zenon
<1> HIDE DEF n, from, to
<1>7. run = <<1, to>> /\ to \in 1..n /\ to \in (from + 1)..(to + 1) /\ run[1] = 1 /\ run[2] = to
  BY <1>1, <1>2, <1>4
<1> HIDE DEF run
<1>8. RunsUpTo(0) = {}
  <2>1. \A r \in Runs : ~(r[1] <= 0)
    BY <1>1, RunIs DEF n
  <2> QED
    BY <2>1, Zenon DEF RunsUpTo
<1>9. RunsUpTo(to) = {run} /\ RunsUpTo(1) = {run}
  <2>1. 1 \in (from + 1)..(to + 1)
    BY <1>2, <1>7, <1>1
  <2> QED
    BY <1>4, <1>7, <1>8, <2>1, Zenon
<1>10. Cardinality(RunsUpTo(to)) = 1 /\ Cardinality(RunsUpTo(1)) = 1
  BY <1>9, FS_Singleton
<1>11. WordsOfLine[1] = SubSeq(line, 1, to)
  BY <1>4, <1>7, <1>10, WordAt, Zenon
<1>12. Between(to)
  <2>1. to \in 1..(n - 1) => to < n
    BY <1>1
  <2> QED
    BY <1>6, <2>1, Zenon DEF Between, n
<1> QED
  BY <1>4, <1>6, <1>7, <1>10, <1>11, <1>12, Zenon DEF n

\* One string begins with another when its first characters are the other's.
LEMMA PrefixIs ==
  ASSUME NEW s \in Str, NEW t \in Str
  PROVE  IsPrefix(s, t) <=> Len(s) <= Len(t) /\ \A i \in 1..Len(s) : s[i] = t[i]
<1> DEFINE m == Len(s)
           n == Len(t)
           b == SubSeq(t, 1, m)
<1>1. m \in Nat /\ n \in Nat
  BY DEF Str
<1>2. SubSeq(s, 1, m) = s
  BY SubSeqFull DEF Str
<1>3. ASSUME m <= n
      PROVE  s = b <=> \A i \in 1..m : s[i] = t[i]
  <2>1. \A i \in 1..m : t[i] \in Nat
    BY <1>1, <1>3 DEF Str
  <2>2. 1 \in Int /\ m \in Int
    BY <1>1
  <2> HIDE DEF m
  <2>3. /\ b \in Seq(Nat) /\ Len(b) = IF 1 <= m THEN m - 1 + 1 ELSE 0
        /\ \A i \in 1..(m - 1 + 1) : b[i] = t[1 + i - 1]
    BY <2>1, <2>2, SubSeqProperties
  <2> HIDE DEF b
  <2>4. m - 1 + 1 = m /\ (IF 1 <= m THEN m - 1 + 1 ELSE 0) = m /\ \A i \in 1..m : 1 + i - 1 = i
    BY <1>1
  <2>5. Len(b) = m /\ \A i \in 1..m : b[i] = t[i]
    BY <2>3, <2>4, Zenon
  <2>6. (\A i \in 1..m : s[i] = t[i]) => s = b
    <3>1. s \in Seq(Nat) /\ Len(s) = m
      BY Zenon DEF Str, m
    <3>2. (\A i \in 1..m : s[i] = t[i]) => \A i \in 1..Len(s) : s[i] = b[i]
      BY <2>5, <3>1, Zenon
    <3> QED
      BY <2>3, <2>5, <3>1, <3>2, SeqEqual
  <2> QED
    BY <2>5, <2>6, Zenon
<1> QED
  BY <1>2, <1>3, Zenon DEF IsPrefix

\* The names of commands are words.
LEMMA NameIs ==
  ASSUME NEW i \in 1..Len(Names)
  PROVE  /\ Names[i] \in Str /\ Len(Names[i]) \in Nat \ {0}
         /\ \A k \in 1..Len(Names[i]) : ~isspace(Names[i][k])
<1>1. Names[i] \in Seq(1..127)
  BY WordsAssumption, ElementOfSeq
<1>2. 1..127 \subseteq Nat
  OBVIOUS
<1>3. Names[i] \in Str
  BY <1>1, <1>2, SeqMonotonic DEF Str
<1>4. Len(Names[i]) \in Nat \ {0}
  BY <1>1, WordsAssumption, EmptySeq
<1>5. DOMAIN Names[i] = 1..Len(Names[i])
  BY <1>1, LenProperties
<1>6. \A k \in 1..Len(Names[i]) : Names[i][k] \in ToSet(Names[i])
  BY <1>5, Zenon DEF ToSet
<1>7. \A c \in ToSet(Names[i]) : ~isspace(c)
  BY Zenon, WordsAssumption
<1> QED
  BY <1>3, <1>4, <1>6, <1>7, Zenon

\* No two names begin the same line.
LEMMA OneName ==
  ASSUME line \in Str, NEW i \in 1..Len(Names), NEW j \in 1..Len(Names),
         IsPrefix(Names[i], line), IsPrefix(Names[j], line)
  PROVE  i = j
<1> DEFINE s == Names[i]
           t == Names[j]
<1>1. s \in Str /\ t \in Str /\ Len(s) \in Nat /\ Len(t) \in Nat
  BY NameIs
<1>2. (\A k \in 1..Len(s) : s[k] = line[k]) /\ (\A k \in 1..Len(t) : t[k] = line[k])
  BY <1>1, PrefixIs, Zenon
<1>3. (IsPrefix(s, t) => i = j) /\ (IsPrefix(t, s) => i = j)
  BY WordsAssumption, Zenon
<1> HIDE DEF s, t
<1>4. CASE Len(s) <= Len(t)
  <2>1. \A k \in 1..Len(s) : k \in 1..Len(t)
    BY <1>1, <1>4
  <2>2. \A k \in 1..Len(s) : s[k] = t[k]
    BY <1>2, <2>1, Zenon
  <2> QED
    BY <1>1, <1>3, <1>4, <2>2, PrefixIs, Zenon
<1>5. CASE Len(t) <= Len(s)
  <2>1. \A k \in 1..Len(t) : k \in 1..Len(s)
    BY <1>1, <1>5
  <2>2. \A k \in 1..Len(t) : t[k] = s[k]
    BY <1>2, <2>1, Zenon
  <2> QED
    BY <1>1, <1>3, <1>5, <2>2, PrefixIs, Zenon
<1> QED
  BY <1>1, <1>4, <1>5

\* A name that ends with a word of the line is that word.
LEMMA NameAtEnd ==
  ASSUME line \in Str, NEW i \in 1..Len(Names), IsPrefix(Names[i], line),
         Len(Names[i]) < Len(line) => isspace(line[Len(Names[i]) + 1]),
         NEW to, <<1, to>> \in Runs
  PROVE  Names[i] = SubSeq(line, 1, to)
<1> DEFINE s == Names[i]
           m == Len(s)
           n == Len(line)
<1>1. s \in Str /\ m \in Nat \ {0} /\ (\A k \in 1..m : ~isspace(s[k])) /\ n \in Nat
  BY NameIs DEF Str
<1>2. m <= n /\ \A k \in 1..m : s[k] = line[k]
  BY <1>1, PrefixIs, Zenon
<1>3. SubSeq(s, 1, m) = SubSeq(line, 1, m) /\ SubSeq(s, 1, m) = s
  <2>1. SubSeq(s, 1, m) = s
    BY <1>1, SubSeqFull DEF Str
  <2> QED
    BY <2>1, Zenon DEF IsPrefix
<1>4. m < n => isspace(line[m + 1])
  OBVIOUS
<1> HIDE DEF s, m, n
<1>5. <<1, m>> \in Runs
  <2>1. \A k \in 1..m : ~isspace(line[k])
    BY <1>1, <1>2, Zenon
  <2>2. m = n \/ isspace(line[m + 1])
    <3>1. m # n => m < n
      BY <1>1, <1>2
    <3> QED
      BY <1>4, <3>1
  <2>3. 1 = 1 \/ isspace(line[1 - 1])
    OBVIOUS
  <2>4. IsWord(1, m)
    BY <2>1, <2>2, <2>3, Zenon DEF IsWord, n
  <2>5. <<1, m>> \in (1..n) \X (1..n) /\ <<1, m>>[1] = 1 /\ <<1, m>>[2] = m /\ 1 <= m
    BY <1>1, <1>2
  <2> DEFINE run == <<1, m>>
  <2>6. run \in (1..n) \X (1..n) /\ run[1] = 1 /\ run[2] = m
    BY <2>5, Zenon
  <2> HIDE DEF run
  <2>7. run \in Runs
    BY <2>4, <2>5, <2>6, Zenon DEF Runs, n
  <2> QED
    BY <2>7, Zenon DEF run
<1>6. <<1, m>>[1] = <<1, to>>[1] /\ (<<1, m>> = <<1, to>> => m = to)
  OBVIOUS
<1>7. m = to
  BY <1>5, <1>6, RunsDiffer, Zenon
<1> QED
  BY <1>3, <1>7, Zenon DEF s

(***************************************************************************)
(* Every line is a string.                                                  *)
(***************************************************************************)
LEMMA LineTyped == Spec => [](line \in Seq(Alphabet))
<1>1. Init => line \in Seq(Alphabet)
  BY DEF Init
<1>2. line \in Seq(Alphabet) /\ [Next]_line => (line \in Seq(Alphabet))'
  <2> SUFFICES ASSUME line \in Seq(Alphabet), [Next]_line
               PROVE  line' \in Seq(Alphabet)
    OBVIOUS
  <2>1. ASSUME NEW ch \in Alphabet, Type(ch)
        PROVE  line' \in Seq(Alphabet)
    BY <2>1 DEF Type
  <2>2. CASE Run
    BY <2>2 DEF Run
  <2> QED
    BY <2>1, <2>2, Zenon DEF Next
<1> QED
  BY <1>1, <1>2, PTL DEF Spec

\* A line is a string of characters.
LEMMA AlphabetIs ==
  ASSUME line \in Seq(Alphabet)
  PROVE  line \in Str /\ line \in Seq(1..127)
<1>1. Alphabet \subseteq 1..127
  BY WordsAssumption, Zenon
<1>2. Alphabet \subseteq Nat
  BY <1>1
<1> QED
  BY <1>1, <1>2, SeqMonotonic DEF Str

\* What is typed is understood.
LEMMA UnderstoodIfTyped == line \in Seq(Alphabet) => LineIsUnderstood
<1>1. SUFFICES ASSUME line \in Str, line # <<>>, ~isspace(line[1])
               PROVE  LET words == WordsOfLine
                          args == Tail(words)
                          run == Executed(line)
                      IN  IF words[1] \notin ToSet(Names) THEN run = Invalid
                          ELSE /\ Names[run.command] = words[1]
                               /\ run.argv = SubSeq(args, 1, Min({Len(args), MAX_ARGS}))
  BY AlphabetIs, Zenon DEF LineIsUnderstood
<1> DEFINE n == Len(line)
           found == {i \in 1..Len(Names) : IsPrefix(Names[i], line)}
           word == WordsOfLine[1]
           first == Min(found)
           len == Len(Names[first])
<1>2. n \in Nat
  BY DEF Str
<1>3. PICK to \in 1..n :
        /\ to < n => isspace(line[to + 1])
        /\ <<1, to>> \in Runs /\ Between(to) /\ Cardinality(RunsUpTo(to)) = 1
        /\ word = SubSeq(line, 1, to)
  BY <1>1, FirstWord, Zenon
<1>4. DOMAIN Names = 1..Len(Names) /\ Len(Names) \in Nat
  BY WordsAssumption
<1>5. CASE word \in ToSet(Names)
  <2>1. PICK j \in 1..Len(Names) : word = Names[j]
    BY <1>4, <1>5, Zenon DEF ToSet
  <2>2. Len(word) = to /\ SubSeq(word, 1, to) = word
    <3>1. 1 \in Int /\ to \in Int /\ to - 1 + 1 = to /\ 1 <= to /\ \A i \in 1..to : i \in 1..n
      BY <1>2
    <3>2. \A i \in 1..to : line[i] \in Nat
      BY <1>1, <3>1 DEF Str
    <3> HIDE DEF word
    <3>3. word \in Seq(Nat) /\ Len(word) = to
      BY <1>3, <3>1, <3>2, SubSeqProperties
    <3> QED
      BY <3>3, SubSeqFull
  <2>3. IsPrefix(Names[j], line)
    <3>1. to <= n
      BY <1>2
    <3> HIDE DEF word
    <3> QED
      BY <1>3, <2>1, <2>2, <3>1, Zenon DEF IsPrefix
  <2>4. first = j
    <3>1. \A i \in found : i = j
      BY <1>1, <2>3, OneName, Zenon
    <3>2. j \in found
      BY <2>3
    <3>3. found \subseteq Nat /\ found # {}
      BY <1>4, <3>2
    <3>4. first \in found
      BY <3>3, MinIs, Zenon
    <3> QED
      BY <3>1, <3>4, Zenon
  <2>5. found # {}
    BY <2>3
  <2>6. len = to
    BY <2>1, <2>2, <2>4, Zenon
  <2>7. ~(len < n /\ ~isspace(At(line, len)))
    <3>1. to \in Nat /\ (to < n => At(line, to) = line[to + 1])
      <4>1. to \in Nat
        BY <1>2
      <4> QED
        BY <1>1, <4>1, AtIs, Zenon
    <3> QED
      BY <1>3, <2>6, <3>1, Zenon
  <2>8. Executed(line) = [command |-> first, argv |-> Parsed(line, len)]
    BY <2>5, <2>7, Zenon DEF Executed
  <2> DEFINE args == Tail(WordsOfLine)
             most == SubSeq(args, 1, Min({Len(args), MAX_ARGS}))
  <2>9. Parsed(line, to) = most
    <3>1. to \in 0..n
      BY <1>2
    <3> QED
      BY <1>1, <1>3, <3>1, ArgumentsParsed, Zenon
  <2>10. Executed(line).command = j /\ Executed(line).argv = most
    <3> DEFINE run == [command |-> j, argv |-> most]
    <3>1. Executed(line) = run
      BY <2>4, <2>6, <2>8, <2>9, Zenon
    <3> HIDE DEF most
    <3>2. run.command = j /\ run.argv = most
      BY Zenon
    <3> HIDE DEF run
    <3> QED
      BY <3>1, <3>2, Zenon
  <2> QED
    BY <1>5, <2>1, <2>10, Zenon
<1>6. CASE word \notin ToSet(Names)
  <2>1. CASE found = {}
    <3>1. Executed(line) = Invalid
      BY <2>1, Zenon DEF Executed
    <3> QED
      BY <1>6, <3>1, Zenon
  <2>2. CASE found # {}
    <3>1. found \subseteq Nat
      BY <1>4
    <3>2. first \in 1..Len(Names) /\ IsPrefix(Names[first], line)
      <4>1. first \in found
        BY <2>2, <3>1, MinIs, Zenon
      <4> QED
        BY <4>1, Zenon
    <3>3. len < n /\ ~isspace(At(line, len))
      <4>1. SUFFICES ASSUME len < n => isspace(At(line, len))
                     PROVE  FALSE
        BY Zenon
      <4>2. len \in Nat
        <5> HIDE DEF first
        <5> QED
          BY <3>2, NameIs
      <4>3. len < n => At(line, len) = line[len + 1]
        <5> HIDE DEF len
        <5> QED
          BY <1>1, <4>2, AtIs, Zenon
      <4>4. len < n => isspace(line[len + 1])
        BY <4>1, <4>3, Zenon
      <4>5. Names[first] = word
        <5> HIDE DEF first, word
        <5> QED
          BY <1>1, <1>3, <3>2, <4>4, NameAtEnd, Zenon
      <4>6. Names[first] \in ToSet(Names)
        BY <1>4, <3>2, Zenon DEF ToSet
      <4> QED
        BY <1>6, <4>5, <4>6, Zenon
    <3>4. Executed(line) = Invalid
      BY <2>2, <3>3, Zenon DEF Executed
    <3> QED
      BY <1>6, <3>4, Zenon
  <2> QED
    BY <2>1, <2>2
<1> QED
  BY <1>5, <1>6

\* The shell runs the command that a line's first word names with the words behind it,
\* whatever the line and the names: execute_command and parse_args of shell.c.
THEOREM LinesAreUnderstood == Spec => []LineIsUnderstood
<1>1. line \in Seq(Alphabet) => LineIsUnderstood
  BY UnderstoodIfTyped
<1> QED
  BY <1>1, LineTyped, PTL

(***************************************************************************)
(* Ints.                                                                    *)
(***************************************************************************)
LEMMA Remainders ==
  ASSUME NEW M \in Nat \ {0}, NEW r \in 0..(M - 1)
  PROVE  r % M = r /\ (r - M) % M = r
OBVIOUS

\* A conversion to unsigned changes no number that unsigned holds.
LEMMA AsUnsignedIs ==
  /\ INT_MAX \in Nat \ {0} /\ UINTS \in Nat \ {0} /\ UINTS = INT_MAX + INT_MAX + 2
  /\ \A n \in 0..(UINTS - 1) : AsUnsigned(n) = n
  /\ \A n \in 0..(UINTS - 1) : AsUnsigned(n - UINTS) = n
  /\ \A n \in Int : AsUnsigned(n) \in 0..(UINTS - 1)
<1>1. /\ INT_MAX \in Nat \ {0} /\ UINTS \in Nat \ {0} /\ UINTS = INT_MAX + INT_MAX + 2
  BY TextAssumption DEF UINTS
<1>2. ASSUME NEW n \in 0..(UINTS - 1)
      PROVE  AsUnsigned(n) = n /\ AsUnsigned(n - UINTS) = n
  BY <1>1, Remainders, Zenon DEF AsUnsigned
<1>3. ASSUME NEW n \in Int
      PROVE  AsUnsigned(n) \in 0..(UINTS - 1)
  BY <1>1 DEF AsUnsigned
<1> QED
  BY <1>1, <1>2, <1>3

\* A conversion to int changes no number that an int holds.
LEMMA AsIntIs ==
  /\ \A n \in Ints : AsInt(n) = n
  /\ \A n \in Int : AsInt(n) \in Ints
  /\ AsInt(INT_MAX + 1) = -(INT_MAX + 1)
<1> DEFINE U == UINTS
           X == INT_MAX
<1>1. X \in Nat \ {0} /\ U = X + X + 2 /\ U \in Nat
  BY AsUnsignedIs
<1>2. \A n \in 0..(U - 1) : AsUnsigned(n) = n /\ AsUnsigned(n - U) = n
  BY AsUnsignedIs
<1>3. \A n \in Int : AsUnsigned(n) \in 0..(U - 1)
  BY AsUnsignedIs
<1>4. \A n : AsInt(n) = IF AsUnsigned(n) > X THEN AsUnsigned(n) - U ELSE AsUnsigned(n)
  BY Zenon DEF AsInt
<1>5. Ints = -(X + 1)..X
  BY DEF Ints
<1> HIDE DEF U, X
<1>6. ASSUME NEW n \in Ints
      PROVE  AsInt(n) = n
  <2>1. n \in -(X + 1)..X
    BY <1>5
  <2>2. CASE n >= 0
    <3>1. n \in 0..(U - 1) /\ ~(n > X)
      BY <1>1, <2>1, <2>2
    <3> QED
      BY <1>2, <1>4, <3>1
  <2>3. CASE n < 0
    <3>1. n + U \in 0..(U - 1) /\ (n + U) - U = n /\ n + U > X
      BY <1>1, <2>1, <2>3
    <3>2. AsUnsigned((n + U) - U) = n + U
      BY <1>2, <3>1
    <3> QED
      BY <1>4, <3>1, <3>2
  <2> QED
    BY <1>1, <2>1, <2>2, <2>3
<1>7. ASSUME NEW n \in Int
      PROVE  AsInt(n) \in Ints
  <2>1. AsUnsigned(n) \in 0..(U - 1)
    BY <1>3
  <2>2. AsInt(n) \in -(X + 1)..X
    BY <1>1, <1>4, <2>1
  <2> QED
    BY <1>5, <2>2
<1>8. AsInt(X + 1) = -(X + 1)
  <2>1. X + 1 \in 0..(U - 1) /\ X + 1 > X /\ (X + 1) - U = -(X + 1)
    BY <1>1
  <2>2. AsUnsigned(X + 1) = X + 1
    BY <1>2, <2>1
  <2> QED
    BY <1>4, <2>1, <2>2
<1> QED
  BY <1>6, <1>7, <1>8 DEF X

(***************************************************************************)
(* What digits denote, and read_dec.                                        *)
(***************************************************************************)
ValueTurns(value, d) ==
  /\ value \in [0..Len(d) -> Int] /\ value[0] = 0
  /\ \A k \in 1..Len(d) : value[k] = value[k - 1] * 10 + (d[k] - Zero)

\* Value is what the digits add up to, one after another.
LEMMA ValueIs ==
  ASSUME NEW d \in Str
  PROVE  \E value : ValueTurns(value, d) /\ Value(d) = value[Len(d)]
<1> DEFINE n == Len(d)
           N(k, v) == v * 10 + (d[k] - Zero)
           G == [k \in 1..n |-> [v \in Int |-> N(k, v)]]
           F(g) == [k \in 0..n |-> IF k = 0 THEN 0 ELSE N(k, g[k - 1])]
           value == CHOOSE g : g = F(g)
<1>1. n \in Nat
  BY DEF Str
<1>2. \A k \in 1..n, v \in Int : N(k, v) \in Int
  BY DEF Str, Zero
<1>3. Value(d) = value[n]
  BY Zenon DEF Value
<1>4. \A k \in 1..n : \A v : N(k, v) = v * 10 + (d[k] - Zero)
  OBVIOUS
<1> HIDE DEF n, N
<1>5. G \in [1..n -> [Int -> Int]] /\ \A k \in 1..n, v \in Int : G[k][v] = N(k, v)
  BY <1>2
<1> HIDE DEF G
<1>6. 0 \in Int
  OBVIOUS
<1>7. PICK h \in [0..n -> Int] : ByTurns(h, n, 0, G)
  BY <1>1, <1>5, <1>6, Loop
<1>8. h[0] = 0 /\ \A k \in 1..n : h[k] = N(k, h[k - 1])
  <2>1. \A k \in 1..n : h[k] = G[k][h[k - 1]] /\ h[k - 1] \in Int
    BY <1>1, <1>7 DEF ByTurns
  <2> QED
    BY <1>5, <1>7, <2>1 DEF ByTurns
<1>9. h = F(h)
  <2>1. \A k \in 0..n : k # 0 => k \in 1..n
    BY <1>1
  <2>2. \A k \in 0..n : h[k] = IF k = 0 THEN 0 ELSE N(k, h[k - 1])
    BY <1>8, <2>1, Zenon
  <2>3. h = [k \in 0..n |-> h[k]]
    BY <1>7
  <2>4. h = [k \in 0..n |-> IF k = 0 THEN 0 ELSE N(k, h[k - 1])]
    BY <2>2, <2>3, Zenon
  <2> QED
    BY <2>4, Zenon
<1>10. value = F(value)
  BY <1>9, Zenon
<1> HIDE DEF value
<1>11. \A k \in 0..n : value[k] = IF k = 0 THEN 0 ELSE N(k, value[k - 1])
  BY <1>10, Zenon
<1>12. value[0] = 0 /\ \A k \in 1..n : value[k] = N(k, value[k - 1])
  <2>1. 0 \in 0..n /\ \A k \in 1..n : k \in 0..n /\ k # 0
    BY <1>1
  <2> QED
    BY <1>11, <2>1, Zenon
<1>13. \A k \in 0..n : value[k] \in Int
  <2> DEFINE Good == {k \in 0..n : value[k] \in Int}
  <2>1. 0 \in Good
    BY <1>1, <1>12
  <2>2. \A k \in 1..n : k - 1 \in Good => k \in Good
    <3>1. \A k \in 1..n : k \in 0..n
      OBVIOUS
    <3> QED
      BY <1>2, <1>12, <3>1, Zenon
  <2> HIDE DEF Good
  <2>3. \A k \in 0..n : k \in Good
    BY <1>1, <2>1, <2>2, AllTurns
  <2> QED
    BY <2>3, Zenon DEF Good
<1>14. value \in [0..n -> Int]
  BY <1>10, <1>13, Zenon
<1>15. ValueTurns(value, d)
  BY <1>4, <1>12, <1>14, Zenon DEF ValueTurns, n
<1> QED
  BY <1>3, <1>15, Zenon DEF n

\* The turns of read_dec: a number that wraps as an int does.
NumberTurns(number, b) ==
  /\ number \in [0..Len(b) -> Int] /\ number[0] = 0
  /\ \A k \in 1..Len(b) : number[k] = AsInt(number[k - 1] * 10 + b[k] - Zero)

\* read_dec stops at the end, at a character that is no digit, or at a number so large.
StopsAt(number, b, k) ==
  k = Len(b) \/ ~isdigit(b[k + 1]) \/ number[k] \notin 0..(INT_MAX - 1)

\* A word's digits are what follows its sign.
LEMMA DigitsAre ==
  ASSUME NEW word \in Str, word # <<>>
  PROVE  /\ At(word, 0) = word[1] /\ Head(word) = word[1]
         /\ Digits(word) = IF word[1] = Minus THEN Tail(word) ELSE word
         /\ Digits(word) \in Str
         /\ Len(Digits(word)) = IF word[1] = Minus THEN Len(word) - 1 ELSE Len(word)
         /\ Len(word) \in Nat \ {0} /\ Len(Digits(word)) \in Nat
<1>1. Len(word) \in Nat \ {0}
  BY EmptySeq DEF Str
<1>2. At(word, 0) = word[1]
  BY <1>1, AtIs
<1>3. Head(word) = word[1]
  BY <1>1 DEF Str
<1>4. Tail(word) \in Str /\ Len(Tail(word)) = Len(word) - 1
  BY HeadTailProperties DEF Str
<1>5. Digits(word) = IF word[1] = Minus THEN Tail(word) ELSE word
  BY <1>3, Zenon DEF Digits
<1>6. Len(word) - 1 \in Nat /\ Len(word) \in Nat
  BY <1>1
<1> QED
  BY <1>1, <1>2, <1>3, <1>4, <1>5, <1>6, Zenon

\* ReadDec stops at the first character that is no digit, or at an overflow.
LEMMA ReadDecIs ==
  ASSUME NEW word \in Str, word # <<>>
  PROVE  LET b == Digits(word)
         IN  \E number, digits :
               /\ NumberTurns(number, b) /\ digits \in 0..Len(b)
               /\ StopsAt(number, b, digits)
               /\ \A k \in 0..(digits - 1) : ~StopsAt(number, b, k)
               /\ ReadDec(word) = IF word[1] = Minus
                                  THEN [val |-> AsInt(-number[digits]), read |-> digits + 1]
                                  ELSE [val |-> number[digits], read |-> digits]
<1> DEFINE b == Digits(word)
           n == Len(b)
           N(k, v) == AsInt(v * 10 + b[k] - Zero)
           G == [k \in 1..n |-> [v \in Int |-> N(k, v)]]
           F(g) == [k \in 0..n |-> IF k = 0 THEN 0 ELSE N(k, g[k - 1])]
           number == CHOOSE g : g = F(g)
           Stops == {k \in 0..n : k = n \/ ~isdigit(b[k + 1]) \/ number[k] \notin 0..(INT_MAX - 1)}
           digits == Min(Stops)
<1>1. n \in Nat /\ b \in Str
  BY DigitsAre
<1>2. At(word, 0) = word[1] /\ b = IF word[1] = Minus THEN Tail(word) ELSE word
  BY DigitsAre
<1>3. ReadDec(word) = IF word[1] = Minus
                      THEN [val |-> AsInt(-number[digits]), read |-> digits + 1]
                      ELSE [val |-> number[digits], read |-> digits]
  BY <1>2, Zenon DEF ReadDec
<1> HIDE DEF b
<1>4. \A k \in 1..n, v \in Int : N(k, v) \in Int
  <2>1. \A k \in 1..n, v \in Int : v * 10 + b[k] - Zero \in Int
    BY <1>1 DEF Str, Zero
  <2>2. Ints \subseteq Int
    BY AsUnsignedIs DEF Ints
  <2> QED
    BY <2>1, <2>2, AsIntIs, Zenon
<1>5. \A k \in 1..n : \A v : N(k, v) = AsInt(v * 10 + b[k] - Zero)
  OBVIOUS
<1>6. digits \in Stops /\ \A k \in Stops : digits <= k
  <2>1. Stops \subseteq Nat /\ n \in Stops
    <3> HIDE DEF n, number
    <3> QED
      BY <1>1
  <2> HIDE DEF Stops
  <2> QED
    BY <2>1, MinIs
<1> HIDE DEF n, N, digits
<1>7. G \in [1..n -> [Int -> Int]] /\ \A k \in 1..n, v \in Int : G[k][v] = N(k, v)
  BY <1>4
<1> HIDE DEF G
<1>8. 0 \in Int
  OBVIOUS
<1>9. PICK h \in [0..n -> Int] : ByTurns(h, n, 0, G)
  BY <1>1, <1>7, <1>8, Loop
<1>10. h[0] = 0 /\ \A k \in 1..n : h[k] = N(k, h[k - 1])
  <2>1. \A k \in 1..n : h[k] = G[k][h[k - 1]] /\ h[k - 1] \in Int
    BY <1>1, <1>9 DEF ByTurns
  <2> QED
    BY <1>7, <1>9, <2>1 DEF ByTurns
<1>11. h = F(h)
  <2>1. \A k \in 0..n : k # 0 => k \in 1..n
    BY <1>1
  <2>2. \A k \in 0..n : h[k] = IF k = 0 THEN 0 ELSE N(k, h[k - 1])
    BY <1>10, <2>1, Zenon
  <2>3. h = [k \in 0..n |-> h[k]]
    BY <1>9
  <2>4. h = [k \in 0..n |-> IF k = 0 THEN 0 ELSE N(k, h[k - 1])]
    BY <2>2, <2>3, Zenon
  <2> QED
    BY <2>4, Zenon
<1>12. number = F(number)
  BY <1>11, Zenon
<1> HIDE DEF number
<1>13. \A k \in 0..n : number[k] = IF k = 0 THEN 0 ELSE N(k, number[k - 1])
  BY <1>12, Zenon
<1>14. number[0] = 0 /\ \A k \in 1..n : number[k] = N(k, number[k - 1])
  <2>1. 0 \in 0..n /\ \A k \in 1..n : k \in 0..n /\ k # 0
    BY <1>1
  <2> QED
    BY <1>13, <2>1, Zenon
<1>15. \A k \in 0..n : number[k] \in Int
  <2> DEFINE Good == {k \in 0..n : number[k] \in Int}
  <2>1. 0 \in Good
    BY <1>1, <1>14
  <2>2. \A k \in 1..n : k - 1 \in Good => k \in Good
    <3>1. \A k \in 1..n : k \in 0..n
      OBVIOUS
    <3> QED
      BY <1>4, <1>14, <3>1, Zenon
  <2> HIDE DEF Good
  <2>3. \A k \in 0..n : k \in Good
    BY <1>1, <2>1, <2>2, AllTurns
  <2> QED
    BY <2>3, Zenon DEF Good
<1>16. number \in [0..n -> Int]
  BY <1>12, <1>15, Zenon
<1>17. NumberTurns(number, b)
  BY <1>5, <1>14, <1>16, Zenon DEF NumberTurns, n
<1>18. digits \in 0..n /\ StopsAt(number, b, digits)
  BY <1>6, Zenon DEF StopsAt, n
<1>19. \A k \in 0..(digits - 1) : ~StopsAt(number, b, k)
  <2>1. \A k \in 0..(digits - 1) : k \in 0..n /\ ~(digits <= k)
    BY <1>1, <1>18
  <2> QED
    BY <1>6, <2>1, Zenon DEF StopsAt, n
<1> QED
  BY <1>3, <1>17, <1>18, <1>19, Zenon DEF b, n

\* A digit denotes a number below 10.
LEMMA DigitIs == ASSUME NEW c, isdigit(c) PROVE c \in Nat /\ c - Zero \in 0..9
BY DEF isdigit, Zero

\* Each digit makes the number ten times as large, or more.
LEMMA ValuesGrow ==
  ASSUME NEW d \in Str, NEW value, ValueTurns(value, d), NEW m \in 0..Len(d),
         \A k \in 1..m : isdigit(d[k])
  PROVE  /\ \A k \in 0..m : value[k] \in Nat
         /\ \A k \in 0..m : k < m => value[k] * 10 <= value[m]
<1>1. Len(d) \in Nat /\ m \in Nat
  BY DEF Str
<1>2. /\ value \in [0..Len(d) -> Int] /\ value[0] = 0
      /\ \A k \in 1..m : value[k] = value[k - 1] * 10 + (d[k] - Zero)
  BY <1>1 DEF ValueTurns
<1>3. \A k \in 1..m : d[k] - Zero \in 0..9
  BY DigitIs
<1> DEFINE digit == [k \in 1..m |-> d[k] - Zero]
<1>4. \A k \in 1..m : digit[k] \in 0..9 /\ value[k] = value[k - 1] * 10 + digit[k]
  BY <1>2, <1>3
<1> HIDE DEF digit
<1>5. \A k \in 0..m : value[k] \in Int
  <2>1. \A k \in 0..m : k \in 0..Len(d)
    BY <1>1
  <2> QED
    BY <1>2, <2>1, Zenon
<1> DEFINE Good == {k \in 0..m : /\ value[k] \in Nat
                               /\ \A j \in 0..k : j < k => value[j] * 10 <= value[k]}
<1>6. 0 \in Good
  BY <1>1, <1>2
<1>7. ASSUME NEW k \in 1..m, k - 1 \in Good
      PROVE  k \in Good
  <2> DEFINE v == value[k - 1]
             u == value[k]
             e == digit[k]
  <2>1. v \in Nat /\ \A j \in 0..(k - 1) : j < k - 1 => value[j] * 10 <= v
    BY <1>7
  <2>2. u = v * 10 + e /\ e \in 0..9
    BY <1>4
  <2> HIDE DEF v, u, e
  <2>3. u \in Nat /\ v * 10 <= u /\ v <= u
    BY <2>1, <2>2
  <2>4. ASSUME NEW j \in 0..k, j < k
        PROVE  value[j] * 10 <= u
    <3>1. value[j] \in Int /\ j \in Nat
      BY <1>1, <1>5
    <3>2. CASE j = k - 1
      BY <2>3, <3>2 DEF v
    <3>3. CASE j # k - 1
      <4>1. j \in 0..(k - 1) /\ j < k - 1
        BY <2>4, <3>3
      <4>2. value[j] * 10 <= v
        BY <2>1, <4>1
      <4> QED
        BY <2>1, <2>3, <3>1, <4>2
    <3> QED
      BY <3>2, <3>3
  <2>5. k \in 0..m
    BY <1>1
  <2> QED
    BY <2>3, <2>4, <2>5 DEF u
<1> HIDE DEF Good
<1>8. \A k \in 0..m : k \in Good
  BY <1>1, <1>6, <1>7, AllTurns
<1>9. m \in 0..m
  BY <1>1
<1> QED
  BY <1>8, <1>9, Zenon DEF Good

\* Of a number that an int holds, or one more, read_dec reads all digits.
LEMMA AllDigitsRead ==
  ASSUME NEW b \in Str, NEW value, ValueTurns(value, b), NEW number, NumberTurns(number, b),
         NEW m \in 0..Len(b), \A k \in 1..m : isdigit(b[k]),
         m < Len(b) => ~isdigit(b[m + 1]), value[m] <= INT_MAX + 1,
         NEW digits \in 0..Len(b), StopsAt(number, b, digits),
         \A k \in 0..(digits - 1) : ~StopsAt(number, b, k)
  PROVE  digits = m /\ number[m] = AsInt(value[m])
<1> DEFINE n == Len(b)
           X == INT_MAX
<1>1. n \in Nat /\ m \in Nat /\ m \in 0..n /\ digits \in 0..n /\ X \in Nat \ {0}
  BY AsUnsignedIs DEF Str
<1>2. /\ \A k \in 0..m : value[k] \in Nat
      /\ \A k \in 0..m : k < m => value[k] * 10 <= value[m]
  BY ValuesGrow, Zenon
<1>3. \A k \in 0..m : k < m => value[k] \in 0..(X - 1)
  <2>1. ASSUME NEW k \in 0..m, k < m
        PROVE  value[k] \in 0..(X - 1)
    <3> DEFINE v == value[k]
               w == value[m]
    <3>1. v \in Nat /\ w \in Nat /\ v * 10 <= w /\ w <= X + 1
      BY <1>1, <1>2, <2>1
    <3> HIDE DEF v, w, X
    <3>2. v \in 0..(X - 1)
      BY <1>1, <3>1
    <3> QED
      BY <3>2 DEF v
  <2> QED
    BY <2>1
<1>4. /\ value[0] = 0 /\ number[0] = 0
      /\ \A k \in 1..n : value[k] = value[k - 1] * 10 + (b[k] - Zero)
      /\ \A k \in 1..n : number[k] = AsInt(number[k - 1] * 10 + b[k] - Zero)
  BY Zenon DEF ValueTurns, NumberTurns
<1>5. \A k \in 0..(X - 1) : AsInt(k) = k
  <2>1. 0..(X - 1) \subseteq Ints
    BY <1>1 DEF Ints
  <2> QED
    BY <2>1, AsIntIs
<1>6. ASSUME NEW k \in 1..m, number[k - 1] = value[k - 1]
      PROVE  number[k] = AsInt(value[k])
  <2>1. k \in 1..n /\ k - 1 \in 0..m
    BY <1>1
  <2>2. value[k - 1] \in Nat /\ b[k] \in Nat
    BY <1>2, <2>1 DEF Str
  <2> DEFINE v == value[k - 1]
             c == b[k]
  <2>3. v * 10 + c - Zero = v * 10 + (c - Zero)
    <3> HIDE DEF v, c
    <3> QED
      BY <2>2 DEF Zero, v, c
  <2> QED
    BY <1>4, <1>6, <2>1, <2>3, Zenon
<1> DEFINE Good == {k \in 0..m : number[k] = AsInt(value[k])}
<1>7. 0 \in Good
  <2>1. 0 \in 0..m /\ 0 \in 0..(X - 1)
    BY <1>1
  <2> QED
    BY <1>4, <1>5, <2>1
<1>8. ASSUME NEW k \in 1..m, k - 1 \in Good
      PROVE  k \in Good
  <2>1. k - 1 \in 0..m /\ k - 1 < m /\ k \in 0..m
    BY <1>1
  <2>2. number[k - 1] = AsInt(value[k - 1])
    BY <1>8, Zenon
  <2>3. number[k - 1] = value[k - 1]
    BY <1>3, <1>5, <2>1, <2>2
  <2> QED
    BY <1>6, <2>1, <2>3
<1> HIDE DEF Good
<1>9. \A k \in 0..m : k \in Good
  BY <1>1, <1>7, <1>8, AllTurns
<1>10. \A k \in 0..m : number[k] = AsInt(value[k])
  BY <1>9, Zenon DEF Good
<1>11. StopsAt(number, b, m)
  <2>1. m # n => m < n
    BY <1>1
  <2> QED
    BY <2>1, Zenon DEF StopsAt
<1>12. ~(m < digits)
  <2>1. m < digits => m \in 0..(digits - 1)
    BY <1>1
  <2> QED
    BY <1>11, <2>1
<1>13. ~(digits < m)
  <2>1. SUFFICES ASSUME digits < m
                 PROVE  FALSE
    OBVIOUS
  <2>2. digits \in 0..m /\ digits + 1 \in 1..m /\ digits # n
    BY <1>1, <2>1
  <2>3. isdigit(b[digits + 1])
    BY <2>2
  <2>4. number[digits] \in 0..(X - 1)
    BY <1>3, <1>5, <1>10, <2>1, <2>2
  <2> QED
    BY <2>2, <2>3, <2>4, Zenon DEF StopsAt
<1>14. digits = m
  <2> HIDE DEF n
  <2> QED
    BY <1>1, <1>12, <1>13
<1>15. m \in 0..m
  BY <1>1
<1> QED
  BY <1>10, <1>14, <1>15, Zenon

\* ReadDec gives an int and how much of the word it has read.
LEMMA ReadDecTyped ==
  ASSUME NEW word \in Str, word # <<>>
  PROVE  /\ ReadDec(word).read \in 0..Len(word) /\ ReadDec(word).val \in Ints
         /\ ReadDec(word).val \in Int
         /\ ReadDec(word) = [val |-> ReadDec(word).val, read |-> ReadDec(word).read]
<1> DEFINE b == Digits(word)
<1>1. PICK number, digits :
        /\ NumberTurns(number, b) /\ digits \in 0..Len(b)
        /\ ReadDec(word) = IF word[1] = Minus
                           THEN [val |-> AsInt(-number[digits]), read |-> digits + 1]
                           ELSE [val |-> number[digits], read |-> digits]
  BY ReadDecIs, Zenon
<1>2. number[digits] \in Int /\ -number[digits] \in Int
  <2>1. number[digits] \in Int
    BY <1>1 DEF NumberTurns
  <2> QED
    BY <2>1
<1>7. number[digits] \in Ints
  <2>1. 0 \in Ints
    BY AsUnsignedIs DEF Ints
  <2>2. digits = 0 \/ digits \in 1..Len(b)
    BY <1>1
  <2>3. CASE digits = 0
    BY <1>1, <2>1, <2>3, Zenon DEF NumberTurns
  <2>4. CASE digits \in 1..Len(b)
    <3> DEFINE x == number[digits - 1]
               y == x * 10 + b[digits] - Zero
    <3>1. x \in Int
      BY <1>1, <2>4 DEF NumberTurns
    <3>2. b[digits] \in Int
      <4>1. b \in Str
        BY DigitsAre, Zenon
      <4> HIDE DEF b
      <4> QED
        BY <2>4, <4>1 DEF Str
    <3>3. number[digits] = AsInt(y)
      BY <1>1, <2>4, Zenon DEF NumberTurns
    <3> HIDE DEF x
    <3>4. y \in Int
      BY <3>1, <3>2 DEF Zero
    <3> HIDE DEF y
    <3> QED
      BY <3>3, <3>4, AsIntIs, Zenon
  <2> QED
    BY <2>2, <2>3, <2>4, Zenon
<1>3. AsInt(-number[digits]) \in Ints /\ Ints \subseteq Int
  <2>1. Ints \subseteq Int
    BY AsUnsignedIs DEF Ints
  <2> QED
    BY <1>2, <2>1, AsIntIs, Zenon
<1>4. /\ Len(b) = IF word[1] = Minus THEN Len(word) - 1 ELSE Len(word)
      /\ Len(word) \in Nat
  BY DigitsAre, Zenon
<1> HIDE DEF b
<1>5. CASE word[1] = Minus
  <2> DEFINE v == AsInt(-number[digits])
             r == digits + 1
  <2>1. ReadDec(word) = [val |-> v, read |-> r]
    BY <1>1, <1>5, Zenon
  <2>2. v \in Ints /\ r \in 0..Len(word)
    BY <1>1, <1>3, <1>4, <1>5
  <2> HIDE DEF v, r
  <2> QED
    BY <1>3, <2>1, <2>2
<1>6. CASE word[1] # Minus
  <2> DEFINE v == number[digits]
             r == digits
  <2>1. ReadDec(word) = [val |-> v, read |-> r]
    BY <1>1, <1>6, Zenon
  <2>2. v \in Ints /\ r \in 0..Len(word)
    BY <1>1, <1>7, <1>4, <1>6
  <2> HIDE DEF v, r
  <2> QED
    BY <1>3, <2>1, <2>2
<1> QED
  BY <1>5, <1>6

\* A numeral is a word of digits, but for its sign.
LEMMA NumeralIs ==
  ASSUME NEW word \in Word
  PROVE  Numeral(word) <=> \A k \in 1..Len(Digits(word)) : isdigit(Digits(word)[k])
<1> DEFINE b == Digits(word)
<1>1. b \in Str
  <2>1. word \in Str /\ word # <<>>
    BY DEF Word
  <2> QED
    BY <2>1, DigitsAre
<1> HIDE DEF b
<1>2. DOMAIN b = 1..Len(b)
  BY <1>1 DEF Str
<1>3. (\A c \in ToSet(b) : isdigit(c)) <=> \A k \in 1..Len(b) : isdigit(b[k])
  BY <1>2, Zenon DEF ToSet
<1> QED
  BY <1>3, Zenon DEF Numeral, b

\* sscanf with "%d" takes a word that is a numeral, and only that.
LEMMA WordRead ==
  ASSUME NEW word \in Word
  PROVE  /\ ~Numeral(word) => ReadDec(word).read # Len(word)
         /\ Numeral(word) => Magnitude(word) \in Nat
         /\ Numeral(word) /\ Magnitude(word) <= INT_MAX =>
              ReadDec(word).read = Len(word) /\ ReadDec(word).val = Denoted(word)
<1> DEFINE b == Digits(word)
           n == Len(b)
<1>1. word \in Str /\ word # <<>>
  BY DEF Word
<1>2. /\ Head(word) = word[1] /\ b \in Str /\ n \in Nat
      /\ n = IF word[1] = Minus THEN Len(word) - 1 ELSE Len(word)
      /\ Len(word) \in Nat \ {0}
  BY <1>1, DigitsAre, Zenon
<1>3. Numeral(word) <=> \A k \in 1..n : isdigit(b[k])
  BY NumeralIs
<1>4. PICK number, digits :
        /\ NumberTurns(number, b) /\ digits \in 0..n
        /\ StopsAt(number, b, digits)
        /\ \A k \in 0..(digits - 1) : ~StopsAt(number, b, k)
        /\ ReadDec(word) = IF word[1] = Minus
                           THEN [val |-> AsInt(-number[digits]), read |-> digits + 1]
                           ELSE [val |-> number[digits], read |-> digits]
  BY <1>1, ReadDecIs, Zenon
<1>5. PICK value : ValueTurns(value, b) /\ Value(b) = value[n]
  BY <1>2, ValueIs, Zenon
<1>6. Magnitude(word) = value[n]
  BY <1>5, Zenon DEF Magnitude
<1>7. Denoted(word) = IF word[1] = Minus THEN -value[n] ELSE value[n]
  BY <1>2, <1>6, Zenon DEF Denoted
<1> DEFINE val == IF word[1] = Minus THEN AsInt(-number[digits]) ELSE number[digits]
           read == IF word[1] = Minus THEN digits + 1 ELSE digits
<1>8. ReadDec(word).read = read /\ ReadDec(word).val = val
  <2>1. CASE word[1] = Minus
    <3> DEFINE v == AsInt(-number[digits])
               r == digits + 1
               rec == [val |-> v, read |-> r]
    <3>1. ReadDec(word) = rec /\ val = v /\ read = r
      BY <1>4, <2>1, Zenon
    <3> HIDE DEF v, r
    <3>2. rec.read = r /\ rec.val = v
      BY Zenon
    <3> HIDE DEF rec
    <3> QED
      BY <3>1, <3>2, Zenon
  <2>2. CASE word[1] # Minus
    <3> DEFINE v == number[digits]
               rec == [val |-> v, read |-> digits]
    <3>1. ReadDec(word) = rec /\ val = v /\ read = digits
      BY <1>4, <2>2, Zenon
    <3> HIDE DEF v
    <3>2. rec.read = digits /\ rec.val = v
      BY Zenon
    <3> HIDE DEF rec
    <3> QED
      BY <3>1, <3>2, Zenon
  <2> QED
    BY <2>1, <2>2
<1> HIDE DEF b, n
<1>9. digits = n <=> read = Len(word)
  BY <1>2, <1>4
<1>10. ASSUME ~Numeral(word)
       PROVE  digits # n
  <2>1. PICK k \in 1..n : ~isdigit(b[k])
    BY <1>3, <1>10
  <2>2. (k - 1) + 1 = k
    BY <1>2
  <2>3. StopsAt(number, b, k - 1)
    BY <2>1, <2>2, Zenon DEF StopsAt
  <2>4. digits = n => k - 1 \in 0..(digits - 1)
    BY <1>2
  <2> QED
    BY <1>4, <2>3, <2>4
<1>11. ASSUME Numeral(word)
       PROVE  value[n] \in Nat
  <2>1. n \in 0..n /\ n \in 0..Len(b)
    BY <1>2 DEF n
  <2>2. \A k \in 0..n : value[k] \in Nat
    BY <1>2, <1>3, <1>5, <1>11, <2>1, ValuesGrow, Zenon
  <2> QED
    BY <2>1, <2>2, Zenon
<1>12. ASSUME Numeral(word), value[n] <= INT_MAX
       PROVE  digits = n /\ val = Denoted(word)
  <2>1. n \in 0..Len(b) /\ (n < Len(b) => ~isdigit(b[n + 1]))
    BY <1>2 DEF n
  <2>2. value[n] \in Nat /\ value[n] <= INT_MAX + 1
    BY <1>11, <1>12, AsUnsignedIs
  <2>3. digits = n /\ number[n] = AsInt(value[n])
    <3>1. digits \in 0..Len(b) /\ NumberTurns(number, b) /\ ValueTurns(value, b)
      BY <1>4, <1>5, Zenon DEF n
    <3>2. \A k \in 1..n : isdigit(b[k])
      BY <1>3, <1>12, Zenon
    <3>3. StopsAt(number, b, digits) /\ \A k \in 0..(digits - 1) : ~StopsAt(number, b, k)
      BY <1>4, Zenon
    <3>4. b \in Str
      BY <1>2, Zenon
    <3>5. n < Len(b) => ~isdigit(b[n + 1])
      BY <2>1, Zenon
    <3>6. value[n] <= INT_MAX + 1
      BY <2>2, Zenon
    <3>7. n \in 0..Len(b)
      BY <2>1, Zenon
    <3> HIDE DEF val, read
    <3> QED
      BY <3>1, <3>2, <3>3, <3>4, <3>5, <3>6, <3>7, AllDigitsRead
  <2>4. value[n] \in Ints /\ -value[n] \in Ints
    BY <1>12, <2>2, AsUnsignedIs DEF Ints
  <2>5. number[n] = value[n] /\ AsInt(-value[n]) = -value[n]
    BY <2>3, <2>4, AsIntIs
  <2> QED
    BY <1>7, <2>3, <2>5, Zenon
<1>13. ~Numeral(word) => ReadDec(word).read # Len(word)
  BY <1>8, <1>9, <1>10, Zenon
<1>14. Numeral(word) => Magnitude(word) \in Nat
  BY <1>6, <1>11, Zenon
<1>15. ASSUME Numeral(word), Magnitude(word) <= INT_MAX
       PROVE  ReadDec(word).read = Len(word) /\ ReadDec(word).val = Denoted(word)
  <2>1. value[n] <= INT_MAX
    BY <1>6, <1>15, Zenon
  <2>2. digits = n /\ val = Denoted(word)
    BY <1>12, <1>15, <2>1, Zenon
  <2> HIDE DEF val, read
  <2> QED
    BY <1>8, <1>9, <2>2, Zenon
<1> QED
  BY <1>13, <1>14, <1>15, Zenon

(***************************************************************************)
(* vsscanf.                                                                 *)
(***************************************************************************)
LEMMA FromIs ==
  ASSUME NEW str \in Str, NEW i \in Nat
  PROVE  /\ From(str, i) \in Str
         /\ Len(From(str, i)) = IF i <= Len(str) THEN Len(str) - i ELSE 0
         /\ \A k \in 1..(Len(str) - i) : From(str, i)[k] = str[i + k]
         /\ i >= Len(str) => From(str, i) = <<>>
         /\ i = 0 => From(str, i) = str
<1> DEFINE n == Len(str)
           rest == SubSeq(str, i + 1, n)
<1>1. n \in Nat /\ n \in Int /\ i + 1 \in Int
  BY DEF Str
<1>2. \A k \in (i + 1)..n : str[k] \in Nat
  BY <1>1 DEF Str
<1> HIDE DEF n
<1>3. /\ rest \in Seq(Nat) /\ Len(rest) = IF i + 1 <= n THEN n - (i + 1) + 1 ELSE 0
      /\ \A k \in 1..(n - (i + 1) + 1) : rest[k] = str[i + 1 + k - 1]
  BY <1>1, <1>2, SubSeqProperties
<1> HIDE DEF rest
<1>4. /\ (IF i + 1 <= n THEN n - (i + 1) + 1 ELSE 0) = IF i <= n THEN n - i ELSE 0
      /\ n - (i + 1) + 1 = n - i /\ \A k \in 1..(n - i) : i + 1 + k - 1 = i + k
  BY <1>1
<1>5. Len(rest) = IF i <= n THEN n - i ELSE 0
  BY <1>3, <1>4, Zenon
<1>6. \A k \in 1..(n - i) : rest[k] = str[i + k]
  BY <1>3, <1>4, Zenon
<1>7. ASSUME i >= n
      PROVE  rest = <<>>
  <2>1. Len(rest) = 0
    BY <1>1, <1>5, <1>7
  <2> QED
    BY <1>3, <2>1, EmptySeq
<1>8. ASSUME i = 0
      PROVE  rest = str
  <2>1. rest = SubSeq(str, 1, Len(str))
    <3>1. i + 1 = 1
      BY <1>8
    <3> QED
      BY <3>1, Zenon DEF rest, n
  <2> QED
    BY <2>1, SubSeqFull DEF Str
<1>9. From(str, i) = rest
  BY Zenon DEF From, rest, n
<1> QED
  BY <1>3, <1>5, <1>6, <1>7, <1>8, <1>9, Zenon DEF Str, n

\* Spaces are skipped: none before a string that begins with no space.
LEMMA SkipIs ==
  ASSUME NEW str \in Str
  PROVE  /\ SkipSpaces(str) \in Str
         /\ str = <<>> => SkipSpaces(str) = <<>>
         /\ str # <<>> /\ ~isspace(str[1]) => SkipSpaces(str) = str
<1> DEFINE n == Len(str)
           w == NextWord(str, 0)
<1>1. n \in Nat /\ 0 \in 0..(n + 1)
  BY DEF Str
<1>2. w \in 0..(n + 1) /\ \A i \in (0 + 1)..w : i \in 1..n /\ isspace(str[i])
  BY <1>1, NextWordIs, Zenon
<1>3. SkipSpaces(str) = From(str, w)
  BY Zenon DEF SkipSpaces
<1> HIDE DEF w
<1>4. w \in Nat
  BY <1>1, <1>2
<1>5. str = <<>> => From(str, w) = <<>>
  BY <1>1, <1>4, FromIs
<1>6. ASSUME str # <<>>, ~isspace(str[1])
      PROVE  From(str, w) = str
  <2>1. w # 0 => 1 \in (0 + 1)..w
    BY <1>4
  <2>2. w = 0
    BY <1>2, <1>6, <2>1, Zenon
  <2> QED
    BY <1>4, <2>2, FromIs, Zenon
<1>7. From(str, w) \in Str
  BY <1>4, FromIs, Zenon
<1> QED
  BY <1>3, <1>5, <1>6, <1>7, Zenon

\* ReadStr reads up to a space, the character given or the end.
LEMMA ReadStrIs ==
  ASSUME NEW str \in Str, NEW c
  PROVE  \E r \in 0..Len(str) :
           /\ ReadStr(str, c) = [val |-> SubSeq(str, 1, r), read |-> r]
           /\ SubSeq(str, 1, r) \in Str
           /\ r = Len(str) \/ isspace(str[r + 1]) \/ str[r + 1] = c
           /\ \A k \in 0..(r - 1) : ~isspace(str[k + 1]) /\ str[k + 1] # c
<1> DEFINE n == Len(str)
           Stops == {i \in 0..n : i = n \/ isspace(str[i + 1]) \/ str[i + 1] = c}
           r == Min(Stops)
<1>1. n \in Nat
  BY DEF Str
<1>2. Stops \subseteq Nat /\ n \in Stops
  <2> HIDE DEF n
  <2> QED
    BY <1>1
<1>3. r \in Stops /\ \A k \in Stops : r <= k
  <2> HIDE DEF Stops
  <2> QED
    BY <1>2, MinIs
<1>4. ReadStr(str, c) = [val |-> SubSeq(str, 1, r), read |-> r]
  BY Zenon DEF ReadStr
<1>5. r \in 0..n /\ (r = n \/ isspace(str[r + 1]) \/ str[r + 1] = c)
  <2> HIDE DEF r
  <2> QED
    BY <1>3, Zenon
<1> HIDE DEF r
<1>6. \A k \in 0..(r - 1) : ~isspace(str[k + 1]) /\ str[k + 1] # c
  <2>1. \A k \in 0..(r - 1) : k \in 0..n /\ ~(r <= k)
    BY <1>1, <1>5
  <2> QED
    BY <1>3, <2>1, Zenon
<1>7. SubSeq(str, 1, r) \in Str
  <2>1. 1 \in Int /\ r \in Int /\ \A k \in 1..r : str[k] \in Nat
    <3>1. \A k \in 1..r : k \in 1..Len(str)
      BY <1>1, <1>5
    <3> QED
      BY <1>1, <1>5, <3>1 DEF Str
  <2> QED
    BY <2>1, SubSeqProperties DEF Str
<1> QED
  BY <1>4, <1>5, <1>6, <1>7, Zenon

\* The states of vsscanf's loop, turn by turn.
State(buffer, fmt, got, read) == [buffer |-> buffer, fmt |-> fmt, got |-> got, read |-> read]

\* The turns of scanf's loop.
ScanTurns(scan, buffer, fmt) ==
  /\ scan[0] = State(buffer, fmt, <<>>, Going)
  /\ \A k \in 1..(Len(fmt) + 1) : scan[k] = Scanned(scan[k - 1])

\* Sscanf is what scanf's turns come to.
LEMMA SscanfIs ==
  ASSUME NEW buffer, NEW fmt \in Str
  PROVE  \E scan : /\ ScanTurns(scan, buffer, fmt)
                   /\ Sscanf(buffer, fmt) = [read |-> scan[Len(fmt) + 1].read,
                                             got |-> scan[Len(fmt) + 1].got]
<1> DEFINE n == Len(fmt) + 1
           a == State(buffer, fmt, <<>>, Going)
           N(s) == Scanned(s)
           Upto(g, m) == g = [k \in 0..m |-> IF k = 0 THEN a ELSE N(g[k - 1])]
           Good == {m \in 0..n : \E g : Upto(g, m)}
           scan == CHOOSE g : Upto(g, n)
<1>1. n \in Nat
  BY DEF Str
<1>2. Sscanf(buffer, fmt) = [read |-> scan[n].read, got |-> scan[n].got]
  BY Zenon DEF Sscanf, State
<1> HIDE DEF n, a, N
<1>3. 0 \in Good
  <2> DEFINE g == [k \in 0..0 |-> a]
  <2>1. \A k \in 0..0 : k = 0
    OBVIOUS
  <2>2. Upto(g, 0)
    BY <2>1, Zenon
  <2> HIDE DEF Upto, g
  <2>3. 0 \in 0..n
    BY <1>1
  <2> QED
    BY <2>2, <2>3, Zenon
<1>4. ASSUME NEW m \in 1..n, m - 1 \in Good
      PROVE  m \in Good
  <2>1. PICK g : Upto(g, m - 1)
    BY <1>4, Zenon
  <2> DEFINE h == [k \in 0..m |-> IF k = m THEN N(g[m - 1]) ELSE g[k]]
  <2>2. m - 1 \in 0..(m - 1) /\ m # 0 /\ m \in 0..n /\ \A k \in 0..m : k # m => k \in 0..(m - 1)
    OBVIOUS
  <2>3. \A k \in 0..m : k # 0 => k - 1 \in 0..m /\ k - 1 # m
    OBVIOUS
  <2>4. \A k \in 0..(m - 1) : g[k] = IF k = 0 THEN a ELSE N(g[k - 1])
    BY <2>1, Zenon
  <2>5. \A k \in 0..m : h[k] = IF k = m THEN N(g[m - 1]) ELSE g[k]
    BY Zenon
  <2>6. h = [k \in 0..m |-> h[k]]
    BY <2>5, Zenon
  <2> HIDE DEF h
  <2>7. \A k \in 0..m : k # 0 => h[k - 1] = g[k - 1]
    BY <2>3, <2>5, Zenon
  <2>8. \A k \in 0..m : h[k] = IF k = 0 THEN a ELSE N(h[k - 1])
    <3>1. ASSUME NEW k \in 0..m
          PROVE  h[k] = IF k = 0 THEN a ELSE N(h[k - 1])
      <4>1. CASE k = m
        BY <2>2, <2>5, <2>7, <4>1, Zenon
      <4>2. CASE k # m
        <5>1. h[k] = g[k] /\ k \in 0..(m - 1)
          BY <2>2, <2>5, <4>2, Zenon
        <5> QED
          BY <2>4, <2>7, <5>1, Zenon
      <4> QED
        BY <4>1, <4>2, Zenon
    <3> QED
      BY <3>1, Zenon
  <2>9. Upto(h, m)
    BY <2>6, <2>8, Zenon
  <2> HIDE DEF Upto
  <2> QED
    BY <2>2, <2>9, Zenon
<1>5. \E g : Upto(g, n)
  <2> HIDE DEF Good
  <2>1. \A m \in 0..n : m \in Good
    BY <1>1, <1>3, <1>4, AllTurns
  <2>2. n \in 0..n
    BY <1>1
  <2> QED
    BY <2>1, <2>2, Zenon DEF Good
<1>6. Upto(scan, n)
  BY <1>5, Zenon
<1> HIDE DEF scan
<1>7. \A k \in 0..n : scan[k] = IF k = 0 THEN a ELSE N(scan[k - 1])
  BY <1>6, Zenon
<1>8. 0 \in 0..n /\ \A k \in 1..n : k \in 0..n /\ k # 0
  BY <1>1
<1>9. ScanTurns(scan, buffer, fmt)
  BY <1>7, <1>8, Zenon DEF ScanTurns, n, a, N
<1> QED
  BY <1>2, <1>9, Zenon DEF n

\* The variables of scanf's loop.
LEMMA StateIs ==
  ASSUME NEW buffer, NEW fmt, NEW got, NEW read
  PROVE  /\ State(buffer, fmt, got, read).buffer = buffer
         /\ State(buffer, fmt, got, read).fmt = fmt
         /\ State(buffer, fmt, got, read).got = got
         /\ State(buffer, fmt, got, read).read = read
BY DEF State

\* A turn of vsscanf, by the state it begins in.
LEMMA ScannedIs ==
  ASSUME NEW buffer, NEW fmt, NEW got, NEW read, NEW s, s = State(buffer, fmt, got, read),
         NEW b, b = SkipSpaces(buffer), NEW f, f = SkipSpaces(fmt),
         NEW arg, arg = ReadArg(b, At(f, 1), At(f, 2))
  PROVE  Scanned(s) =
           CASE read # Going -> s
             [] read = Going /\ (buffer = <<>> \/ fmt = <<>>) ->
                  State(buffer, fmt, got, IF f # <<>> \/ b # <<>> THEN -1 ELSE Len(got))
             [] read = Going /\ buffer # <<>> /\ fmt # <<>> /\ At(f, 0) = Percent ->
                  CASE At(f, 1) \notin ScanfFormats \/ arg.read <= 0 ->
                         State(buffer, fmt, got, Len(got))
                    [] arg.read > Len(b) -> State(buffer, fmt, got, Past)
                    [] OTHER -> State(From(b, arg.read), From(f, 2), Append(got, arg.val), read)
             [] OTHER ->
                  CASE At(b, 0) # At(f, 0) -> State(buffer, fmt, got, Len(got))
                    [] b = <<>> /\ f = <<>> -> State(buffer, fmt, got, Past)
                    [] OTHER -> State(Tail(b), Tail(f), got, read)
<1> DEFINE x == From(b, arg.read)
           y == From(f, 2)
           z == Append(s.got, arg.val)
           xx == Tail(b)
           yy == Tail(f)
           Result(r) == [s EXCEPT !.read = r]
           Arg == [s EXCEPT !.buffer = x, !.fmt = y, !.got = z]
           Char == [s EXCEPT !.buffer = xx, !.fmt = yy]
<1>1. s.buffer = buffer /\ s.fmt = fmt /\ s.got = got /\ s.read = read
  BY StateIs
<1> HIDE DEF x, y, z, xx, yy
<1>2. \A r : Result(r) = State(buffer, fmt, got, r)
  BY DEF State
<1>3. Arg = State(x, y, z, read)
  <2>1. [s EXCEPT !.buffer = x] = State(x, fmt, got, read)
    BY DEF State
  <2>2. [State(x, fmt, got, read) EXCEPT !.fmt = y] = State(x, y, got, read)
    BY DEF State
  <2>3. [State(x, y, got, read) EXCEPT !.got = z] = State(x, y, z, read)
    BY DEF State
  <2>4. Arg = [[[s EXCEPT !.buffer = x] EXCEPT !.fmt = y] EXCEPT !.got = z]
    OBVIOUS
  <2> QED
    BY <2>1, <2>2, <2>3, <2>4
<1>4. Char = State(xx, yy, got, read)
  <2>1. [s EXCEPT !.buffer = xx] = State(xx, fmt, got, read)
    BY DEF State
  <2>2. [State(xx, fmt, got, read) EXCEPT !.fmt = yy] = State(xx, yy, got, read)
    BY DEF State
  <2>3. Char = [[s EXCEPT !.buffer = xx] EXCEPT !.fmt = yy]
    OBVIOUS
  <2> QED
    BY <2>1, <2>2, <2>3
<1>5. Scanned(s) =
        CASE s.read # Going -> s
          [] s.read = Going /\ (s.buffer = <<>> \/ s.fmt = <<>>) ->
               Result(IF f # <<>> \/ b # <<>> THEN -1 ELSE Len(s.got))
          [] s.read = Going /\ s.buffer # <<>> /\ s.fmt # <<>> /\ At(f, 0) = Percent ->
               CASE At(f, 1) \notin ScanfFormats \/ arg.read <= 0 -> Result(Len(s.got))
                 [] arg.read > Len(b) -> Result(Past)
                 [] OTHER -> Arg
          [] OTHER ->
               CASE At(b, 0) # At(f, 0) -> Result(Len(s.got))
                 [] b = <<>> /\ f = <<>> -> Result(Past)
                 [] OTHER -> Char
  BY <1>1, Zenon DEF Scanned, x, y, z, xx, yy
<1> HIDE DEF Result, Arg, Char
<1> QED
  BY <1>1, <1>2, <1>3, <1>4, <1>5, Zenon DEF x, y, z, xx, yy

\* When scanf is done, nothing more happens.
LEMMA ScannedOver ==
  ASSUME NEW buffer, NEW fmt, NEW got, NEW r, r # Going
  PROVE  Scanned(State(buffer, fmt, got, r)) = State(buffer, fmt, got, r)
<1>1. State(buffer, fmt, got, r).read # Going
  BY StateIs
<1> DEFINE s == State(buffer, fmt, got, r)
<1> HIDE DEF s
<1> QED
  BY <1>1, Zenon DEF Scanned, s

\* scanf is done when the buffer or the format ends.
LEMMA ScannedEnd ==
  ASSUME NEW buffer, NEW fmt, NEW got, buffer = <<>> \/ fmt = <<>>
  PROVE  Scanned(State(buffer, fmt, got, Going)) =
           State(buffer, fmt, got,
                 IF SkipSpaces(fmt) # <<>> \/ SkipSpaces(buffer) # <<>> THEN -1 ELSE Len(got))
<1> DEFINE b == SkipSpaces(buffer)
           f == SkipSpaces(fmt)
           s == State(buffer, fmt, got, Going)
           arg == ReadArg(b, At(f, 1), At(f, 2))
<1>1. b = SkipSpaces(buffer) /\ f = SkipSpaces(fmt) /\ s = State(buffer, fmt, got, Going)
      /\ arg = ReadArg(b, At(f, 1), At(f, 2))
  OBVIOUS
<1> HIDE DEF b, f, s, arg
<1> QED
  BY <1>1, ScannedIs

\* A turn of scanf that reads an argument.
LEMMA ScannedArg ==
  ASSUME NEW buffer, NEW fmt, NEW got, buffer # <<>>, fmt # <<>>,
         NEW b, b = SkipSpaces(buffer), NEW f, f = SkipSpaces(fmt),
         At(f, 0) = Percent, At(f, 1) \in ScanfFormats,
         NEW arg, arg = ReadArg(b, At(f, 1), At(f, 2)), ~(arg.read > Len(b))
  PROVE  Scanned(State(buffer, fmt, got, Going)) =
           IF arg.read <= 0 THEN State(buffer, fmt, got, Len(got))
           ELSE State(From(b, arg.read), From(f, 2), Append(got, arg.val), Going)
<1> DEFINE s == State(buffer, fmt, got, Going)
<1>1. s = State(buffer, fmt, got, Going)
  OBVIOUS
<1> HIDE DEF s
<1> QED
  BY <1>1, ScannedIs

\* A turn of scanf that reads a character of the format's.
LEMMA ScannedChar ==
  ASSUME NEW buffer, NEW fmt, NEW got, buffer # <<>>, fmt # <<>>,
         NEW b, b = SkipSpaces(buffer), NEW f, f = SkipSpaces(fmt),
         At(f, 0) # Percent, At(b, 0) = At(f, 0), b # <<>>
  PROVE  Scanned(State(buffer, fmt, got, Going)) = State(Tail(b), Tail(f), got, Going)
<1> DEFINE s == State(buffer, fmt, got, Going)
           arg == ReadArg(b, At(f, 1), At(f, 2))
<1>1. s = State(buffer, fmt, got, Going) /\ arg = ReadArg(b, At(f, 1), At(f, 2))
  OBVIOUS
<1> HIDE DEF s, arg
<1> QED
  BY <1>1, ScannedIs

\* sscanf with "%d" of a word without spaces.
LEMMA NumberIs ==
  ASSUME NEW word \in Word
  PROVE  /\ IsNumber(word) <=> ReadDec(word).read = Len(word)
         /\ IsNumber(word) => Number(word) = ReadDec(word).val
<1> DEFINE fmt == <<Percent, CharD>>
           r == ReadDec(word).read
           v == ReadDec(word).val
<1>1. word \in Str /\ word # <<>> /\ Len(word) \in Nat \ {0} /\ ~isspace(word[1])
      /\ \A k \in 1..Len(word) : ~isspace(word[k])
  BY EmptySeq DEF Word, Str
<1>2. r \in 0..Len(word) /\ v \in Int
  BY <1>1, ReadDecTyped, Zenon
<1>3. /\ fmt \in Str /\ fmt # <<>> /\ Len(fmt) = 2 /\ fmt[1] = Percent /\ ~isspace(fmt[1])
      /\ At(fmt, 0) = Percent /\ At(fmt, 1) = CharD
  BY DEF Percent, CharD, At, Str, isspace, Spaces, Space
<1>4. From(fmt, 2) = <<>>
  <2>1. 2 \in Nat /\ 2 >= Len(fmt)
    BY <1>3
  <2> HIDE DEF fmt
  <2> QED
    BY <1>3, <2>1, FromIs, Zenon
<1> HIDE DEF fmt, r, v
<1>5. PICK scan : /\ ScanTurns(scan, word, fmt)
                  /\ Sscanf(word, fmt) = [read |-> scan[Len(fmt) + 1].read,
                                          got |-> scan[Len(fmt) + 1].got]
  BY <1>3, SscanfIs, Zenon
<1>6. /\ scan[0] = State(word, fmt, <<>>, Going)
      /\ scan[1] = Scanned(scan[0]) /\ scan[2] = Scanned(scan[1]) /\ scan[3] = Scanned(scan[2])
  <2>1. Len(fmt) + 1 = 3 /\ 1 \in 1..3 /\ 2 \in 1..3 /\ 3 \in 1..3 /\ 1 - 1 = 0 /\ 2 - 1 = 1 /\ 3 - 1 = 2
    BY <1>3
  <2> QED
    BY <1>5, <2>1, Zenon DEF ScanTurns
<1>7. Sscanf(word, fmt) = [read |-> scan[3].read, got |-> scan[3].got]
  <2>1. Len(fmt) + 1 = 3
    BY <1>3
  <2> QED
    BY <1>5, <2>1, Zenon
<1>8. Sscanf(word, fmt).read = scan[3].read /\ Sscanf(word, fmt).got = scan[3].got
  <2> DEFINE x == scan[3].read
             y == scan[3].got
  <2> DEFINE rec == [read |-> x, got |-> y]
  <2>1. Sscanf(word, fmt) = rec
    BY <1>7, Zenon
  <2> HIDE DEF x, y
  <2>2. rec.read = x /\ rec.got = y
    BY Zenon
  <2> HIDE DEF rec
  <2> QED
    BY <2>1, <2>2, Zenon DEF x, y
<1>9. SkipSpaces(word) = word /\ SkipSpaces(fmt) = fmt
  BY <1>1, <1>3, SkipIs, Zenon
<1>10. ReadArg(word, At(fmt, 1), At(fmt, 2)) = ReadDec(word)
  <2>1. CharD # CharS /\ CharD # CharC
    BY DEF CharD, CharS, CharC
  <2> QED
    BY <1>3, <2>1, Zenon DEF ReadArg
<1>11. Going # 0 /\ Going # -1 /\ Going # 1 /\ CharD \in ScanfFormats
  BY DEF Going, ScanfFormats
<1>12. IsNumber(word) <=> scan[3].read = 1
  BY <1>8, Zenon DEF IsNumber, fmt
<1>13. Number(word) = scan[3].got[1]
  BY <1>8, Zenon DEF Number, fmt
<1>14. ASSUME r = 0
       PROVE  scan[3].read = 0
  <2>1. ReadDec(word).read <= 0 /\ ~(ReadDec(word).read > Len(word))
    BY <1>1, <1>2, <1>14 DEF r
  <2>2. scan[1] = State(word, fmt, <<>>, Len(<<>>))
    BY <1>1, <1>3, <1>6, <1>9, <1>10, <1>11, <2>1, ScannedArg
  <2>3. scan[1] = State(word, fmt, <<>>, 0)
    BY <2>2
  <2>4. scan[3] = State(word, fmt, <<>>, 0)
    BY <1>1, <1>3, <1>6, <1>11, <2>3, ScannedOver, Zenon
  <2> QED
    BY <2>4 DEF State
<1>15. ASSUME r # 0
       PROVE  scan[2] = State(From(word, r), <<>>, Append(<<>>, v),
                              IF From(word, r) = <<>> THEN 1 ELSE -1)
  <2>1. ~(ReadDec(word).read <= 0) /\ ~(ReadDec(word).read > Len(word)) /\ r \in Nat
    BY <1>1, <1>2, <1>15 DEF r
  <2>2. scan[1] = State(From(word, r), From(fmt, 2), Append(<<>>, v), Going)
    <3> DEFINE arg == ReadDec(word)
               got == <<>>
    <3>1. arg = ReadArg(word, At(fmt, 1), At(fmt, 2)) /\ arg.read = r /\ arg.val = v
      BY <1>10, Zenon DEF r, v
    <3>2. ~(arg.read <= 0) /\ ~(arg.read > Len(word))
      BY <2>1
    <3>3. scan[1] = Scanned(State(word, fmt, got, Going))
      BY <1>6, Zenon
    <3> HIDE DEF arg, got
    <3>4. scan[1] = State(From(word, arg.read), From(fmt, 2), Append(got, arg.val), Going)
      BY <1>1, <1>3, <1>9, <1>11, <3>1, <3>2, <3>3, ScannedArg
    <3> QED
      BY <3>1, <3>4, Zenon DEF got
  <2>3. scan[1] = State(From(word, r), <<>>, Append(<<>>, v), Going)
    BY <1>4, <2>2, Zenon
  <2> DEFINE b == From(word, r)
             got == Append(<<>>, v)
  <2>4. b \in Str /\ <<>> \in Str
    BY <1>1, <2>1, FromIs DEF Str
  <2>5. SkipSpaces(<<>>) = <<>>
    BY <2>4, SkipIs, Zenon
  <2>6. b # <<>> => SkipSpaces(b) # <<>>
    <3>1. SUFFICES ASSUME b # <<>>
                   PROVE  SkipSpaces(b) # <<>>
      OBVIOUS
    <3>2. ~(r >= Len(word))
      BY <1>1, <2>1, <3>1, FromIs, Zenon
    <3>3. 1 \in 1..(Len(word) - r) /\ r + 1 \in 1..Len(word)
      BY <1>1, <2>1, <3>2
    <3>4. b[1] = word[r + 1]
      BY <1>1, <2>1, <3>3, FromIs, Zenon
    <3>5. ~isspace(b[1])
      BY <1>1, <3>3, <3>4, Zenon
    <3> HIDE DEF b
    <3> QED
      BY <2>4, <3>1, <3>5, SkipIs, Zenon
  <2>7. Len(got) = 1
    OBVIOUS
  <2>8. b = <<>> => SkipSpaces(b) = <<>>
    BY <2>4, SkipIs, Zenon
  <2> HIDE DEF b, got
  <2>9. scan[2] = State(b, <<>>, got,
                        IF SkipSpaces(<<>>) # <<>> \/ SkipSpaces(b) # <<>> THEN -1 ELSE Len(got))
    BY <1>6, <2>3, <2>4, ScannedEnd, Zenon DEF b, got
  <2> QED
    BY <2>5, <2>6, <2>7, <2>8, <2>9, Zenon DEF b, got
<1>16. ASSUME r # 0
       PROVE  scan[3] = scan[2]
  <2>1. From(word, r) \in Str /\ <<>> \in Str
    BY <1>1, <1>2, FromIs DEF Str
  <2> DEFINE e == IF From(word, r) = <<>> THEN 1 ELSE -1
  <2>2. e # Going
    BY <1>11
  <2>3. scan[2] = State(From(word, r), <<>>, Append(<<>>, v), e)
    BY <1>15, <1>16, Zenon
  <2> HIDE DEF e
  <2> QED
    BY <1>6, <2>1, <2>2, <2>3, ScannedOver, Zenon
<1>17. From(word, r) = <<>> <=> r = Len(word)
  <2>1. r \in Nat /\ (r = Len(word) <=> r >= Len(word))
        /\ (Len(word) - r = 0 <=> r = Len(word)) /\ r <= Len(word)
    BY <1>1, <1>2
  <2>2. Len(From(word, r)) = Len(word) - r
    BY <1>1, <2>1, FromIs, Zenon
  <2>3. Len(<<>>) = 0
    OBVIOUS
  <2> QED
    BY <1>1, <2>1, <2>2, <2>3, FromIs, Zenon
<1>18. CASE r = 0
  <2>1. r # Len(word) /\ 0 # 1
    BY <1>1, <1>18
  <2> QED
    BY <1>12, <1>14, <1>18, <2>1, Zenon DEF r
<1>19. CASE r # 0
  <2> DEFINE e == IF From(word, r) = <<>> THEN 1 ELSE -1
  <2>1. scan[3] = State(From(word, r), <<>>, Append(<<>>, v), e)
    BY <1>15, <1>16, <1>19, Zenon
  <2>2. e = 1 <=> r = Len(word)
    BY <1>17
  <2>3. Append(<<>>, v)[1] = v
    BY <1>2
  <2> HIDE DEF e
  <2>4. scan[3].read = e /\ scan[3].got = Append(<<>>, v)
    BY <2>1 DEF State
  <2>5. scan[3].got[1] = v
    BY <2>3, <2>4, Zenon
  <2> QED
    BY <1>12, <1>13, <2>2, <2>4, <2>5, Zenon DEF r, v
<1> QED
  BY <1>18, <1>19, Zenon


(***************************************************************************)
(* The commands and their numbers.                                          *)
(***************************************************************************)
\* What a command takes for a number is one, and one that an int holds is taken as it is.
LEMMA WordIsNumber ==
  ASSUME NEW word \in Word
  PROVE  /\ IsNumber(word) => Numeral(word)
         /\ Numeral(word) /\ Magnitude(word) <= INT_MAX =>
              IsNumber(word) /\ Number(word) = Denoted(word)
         /\ Numeral(word) => Denoted(word) \in Int
<1>1. Numeral(word) => Magnitude(word) \in Nat
  BY WordRead, Zenon
<1>2. Numeral(word) => Denoted(word) \in Int
  <2> DEFINE m == Magnitude(word)
  <2>1. Denoted(word) = IF Head(word) = Minus THEN -m ELSE m
    BY Zenon DEF Denoted
  <2> HIDE DEF m
  <2>2. Numeral(word) => m \in Nat
    BY <1>1, Zenon DEF m
  <2> QED
    BY <2>1, <2>2
<1> QED
  BY <1>2, NumberIs, WordRead, Zenon

\* A triple is made of its three parts.
LEMMA TripleIs ==
  ASSUME NEW A, NEW B, NEW C, NEW f, f \in A \X B \X C
  PROVE  f = <<f[1], f[2], f[3]>> /\ f[1] \in A /\ f[2] \in B /\ f[3] \in C
<1>1. f = <<f[1], f[2], f[3]>>
  OBVIOUS
<1>2. f[1] \in A /\ f[2] \in B /\ f[3] \in C
  OBVIOUS
<1> QED
  BY <1>1, <1>2

\* A triple has three parts.
LEMMA TripleLength ==
  ASSUME NEW n \in Nat, NEW f, DOMAIN f = 1..n, NEW x, NEW y, NEW z, f = <<x, y, z>>
  PROVE  n = 3
OBVIOUS

\* Three parts make a triple.
LEMMA TripleFrom ==
  ASSUME NEW f, f = [k \in 1..3 |-> f[k]], NEW A, NEW B, NEW C,
         f[1] \in A, f[2] \in B, f[3] \in C
  PROVE  f \in A \X B \X C
<1>1. f = <<f[1], f[2], f[3]>>
  OBVIOUS
<1> QED
  BY <1>1

\* A list is a triple when it has three parts of the right kinds.
LEMMA Triple ==
  ASSUME NEW n \in Nat, NEW f, DOMAIN f = 1..n, f = [k \in 1..n |-> f[k]],
         NEW A, NEW B, NEW C
  PROVE  f \in A \X B \X C <=> n = 3 /\ f[1] \in A /\ f[2] \in B /\ f[3] \in C
<1>1. ASSUME f \in A \X B \X C
      PROVE  n = 3 /\ f[1] \in A /\ f[2] \in B /\ f[3] \in C
  <2>1. f = <<f[1], f[2], f[3]>> /\ f[1] \in A /\ f[2] \in B /\ f[3] \in C
    BY <1>1, TripleIs
  <2>2. n = 3
    BY <2>1, TripleLength, Zenon
  <2> QED
    BY <2>1, <2>2
<1>2. ASSUME n = 3, f[1] \in A, f[2] \in B, f[3] \in C
      PROVE  f \in A \X B \X C
  <2>1. f = [k \in 1..3 |-> f[k]]
    BY <1>2, Zenon
  <2> QED
    BY <1>2, <2>1, TripleFrom, Zenon
<1> QED
  BY <1>1, <1>2

\* Limits for three arguments, as validate_args_numbers takes them.
Least3(limits) == /\ Len(limits) = 3 /\ \A k \in 1..3 : limits[k][1] \in Int /\ limits[k][2] \in Int

\* Three words are taken if they are numerals within the limits.
LEMMA ThreeNumbers ==
  ASSUME NEW argv \in Seq(Word), NEW limits, Least3(limits),
         \A k \in 1..Len(argv) : Numeral(argv[k]) => Magnitude(argv[k]) <= INT_MAX,
         NEW numbers, numbers = [k \in 1..Len(argv) |-> Denoted(argv[k])]
  PROVE  /\ NumbersWithin(argv, limits) <=>
              /\ \A k \in 1..Len(argv) : Numeral(argv[k])
              /\ Len(argv) = 3
              /\ \A k \in 1..3 : numbers[k] >= limits[k][1] /\ numbers[k] < limits[k][2]
         /\ NumbersWithin(argv, limits) => Numbers(argv) = numbers
<1> DEFINE n == Len(argv)
<1>1. n \in Nat /\ \A k \in 1..n : argv[k] \in Word
  OBVIOUS
<1>2. \A k \in 1..n : /\ IsNumber(argv[k]) <=> Numeral(argv[k])
                      /\ IsNumber(argv[k]) => Number(argv[k]) = Denoted(argv[k])
  <2>1. ASSUME NEW k \in 1..n
        PROVE  /\ IsNumber(argv[k]) <=> Numeral(argv[k])
               /\ IsNumber(argv[k]) => Number(argv[k]) = Denoted(argv[k])
    <3>1. argv[k] \in Word /\ (Numeral(argv[k]) => Magnitude(argv[k]) <= INT_MAX)
      BY <1>1
    <3> QED
      BY <3>1, WordIsNumber, Zenon
  <2> QED
    BY <2>1, Zenon
<1>3. \A k \in 1..n : numbers[k] = Denoted(argv[k])
  BY Zenon
<1>4. Len(limits) = 3
  BY DEF Least3
<1>5. NumbersWithin(argv, limits) =>
        /\ n = 3 /\ \A k \in 1..n : Numeral(argv[k])
        /\ \A k \in 1..n : numbers[k] >= limits[k][1] /\ numbers[k] < limits[k][2]
  BY <1>2, <1>3, <1>4, Zenon DEF NumbersWithin
<1>6. n = 3 /\ (\A k \in 1..n : Numeral(argv[k]))
      /\ (\A k \in 1..n : numbers[k] >= limits[k][1] /\ numbers[k] < limits[k][2])
      => NumbersWithin(argv, limits)
  BY <1>2, <1>3, <1>4, Zenon DEF NumbersWithin
<1>7. NumbersWithin(argv, limits) => Numbers(argv) = numbers
  <2>1. SUFFICES ASSUME NumbersWithin(argv, limits)
                 PROVE  Numbers(argv) = numbers
    OBVIOUS
  <2>2. \A k \in 1..n : Number(argv[k]) = Denoted(argv[k])
    BY <1>2, <1>5, <2>1, Zenon
  <2> QED
    BY <2>2, Zenon DEF Numbers
<1> HIDE DEF n
<1>8. NumbersWithin(argv, limits) <=>
        /\ \A k \in 1..n : Numeral(argv[k])
        /\ n = 3
        /\ \A k \in 1..3 : numbers[k] >= limits[k][1] /\ numbers[k] < limits[k][2]
  BY <1>5, <1>6, Zenon
<1> QED
  BY <1>7, <1>8, Zenon DEF n

\* settime and setdate: the kernel gets three numbers if they are numerals and valid.
LEMMA SettingIsAsked ==
  ASSUME NEW argv \in Seq(Word), NEW limits, Least3(limits),
         \A k \in 1..Len(argv) : Numeral(argv[k]) => Magnitude(argv[k]) <= INT_MAX,
         NEW numbers, numbers = [k \in 1..Len(argv) |-> Denoted(argv[k])],
         NEW Valid,
         Valid = (limits[1][1]..(limits[1][2] - 1)) \X (limits[2][1]..(limits[2][2] - 1))
                   \X (limits[3][1]..(limits[3][2] - 1))
  PROVE  /\ NumbersWithin(argv, limits) <=>
              (\A k \in 1..Len(argv) : Numeral(argv[k])) /\ numbers \in Valid
         /\ NumbersWithin(argv, limits) => Numbers(argv) = numbers
<1> DEFINE n == Len(argv)
           l(k) == limits[k][1]
           u(k) == limits[k][2]
           A == l(1)..(u(1) - 1)
           B == l(2)..(u(2) - 1)
           C == l(3)..(u(3) - 1)
<1>1. n \in Nat /\ \A k \in 1..n : argv[k] \in Word
  OBVIOUS
<1>2. Valid = A \X B \X C
  BY Zenon
<1>3. \A k \in 1..3 : l(k) \in Int /\ u(k) \in Int
  BY DEF Least3
<1>4. \A k \in 1..n : Numeral(argv[k]) => numbers[k] \in Int
  <2>1. \A k \in 1..n : Numeral(argv[k]) => Denoted(argv[k]) \in Int
    BY <1>1, WordIsNumber, Zenon
  <2> QED
    BY <2>1, Zenon
<1>5. DOMAIN numbers = 1..n /\ numbers = [k \in 1..n |-> numbers[k]]
  BY Zenon
<1>6. numbers \in A \X B \X C <=> n = 3 /\ numbers[1] \in A /\ numbers[2] \in B /\ numbers[3] \in C
  <2> HIDE DEF A, B, C, n
  <2> QED
    BY <1>1, <1>5, Triple
<1>7. NumbersWithin(argv, limits) <=>
        /\ \A k \in 1..n : Numeral(argv[k])
        /\ n = 3
        /\ \A k \in 1..3 : numbers[k] >= l(k) /\ numbers[k] < u(k)
  BY ThreeNumbers, Zenon
<1>8. ASSUME n = 3, \A k \in 1..n : Numeral(argv[k])
      PROVE  (\A k \in 1..3 : numbers[k] >= l(k) /\ numbers[k] < u(k)) <=>
               numbers[1] \in A /\ numbers[2] \in B /\ numbers[3] \in C
  <2>1. \A k \in 1..3 : numbers[k] \in Int /\ l(k) \in Int /\ u(k) \in Int
    BY <1>3, <1>4, <1>8
  <2>2. \A k \in 1..3 : (numbers[k] >= l(k) /\ numbers[k] < u(k)) <=>
                         numbers[k] \in l(k)..(u(k) - 1)
    <3>1. ASSUME NEW k \in 1..3
          PROVE  (numbers[k] >= l(k) /\ numbers[k] < u(k)) <=> numbers[k] \in l(k)..(u(k) - 1)
      <4> DEFINE x == numbers[k]
                 a == l(k)
                 b == u(k)
      <4>1. x \in Int /\ a \in Int /\ b \in Int
        BY <2>1, Zenon
      <4> HIDE DEF x, a, b
      <4>2. (x >= a /\ x < b) <=> x \in a..(b - 1)
        BY <4>1
      <4> QED
        BY <4>2, Zenon DEF x, a, b
    <3> QED
      BY <3>1, Zenon
  <2>3. \A k \in 1..3 : k = 1 \/ k = 2 \/ k = 3
    OBVIOUS
  <2>4. 1 \in 1..3 /\ 2 \in 1..3 /\ 3 \in 1..3
    OBVIOUS
  <2> QED
    BY <2>2, <2>3, <2>4, Zenon
<1>9. NumbersWithin(argv, limits) => Numbers(argv) = numbers
  BY ThreeNumbers, Zenon
<1> HIDE DEF A, B, C, n, l, u
<1>10. NumbersWithin(argv, limits) <=> (\A k \in 1..n : Numeral(argv[k])) /\ numbers \in Valid
  BY <1>2, <1>6, <1>7, <1>8, Zenon
<1> QED
  BY <1>9, <1>10, Zenon DEF n


\* The command that an id runs.
LEMMA OutcomesAre ==
  ASSUME NEW argv
  PROVE  /\ Outcome("help", argv) = help(argv) /\ Outcome("echo", argv) = echo(argv)
         /\ Outcome("fractal", argv) = fractal(argv) /\ Outcome("clear", argv) = clear(argv)
         /\ Outcome("exit", argv) = exit(argv) /\ Outcome("time", argv) = time(argv)
         /\ Outcome("date", argv) = date(argv) /\ Outcome("settime", argv) = set_time(argv)
         /\ Outcome("setdate", argv) = set_date(argv) /\ Outcome("sleep", argv) = sleep(argv)
         /\ Outcome("tests", argv) = tests(argv)
BY DEF Outcome

\* How many arguments each command's description names.
LEMMA DescribedIs ==
  /\ DOMAIN Described = {"echo", "help", "fractal", "clear", "exit", "time", "date",
                         "settime", "setdate", "sleep", "tests"}
  /\ Described["echo"] = Nat /\ Described["help"] = 0..1 /\ Described["fractal"] = 0..1
  /\ Described["clear"] = {0} /\ Described["exit"] = {0} /\ Described["time"] = {0}
  /\ Described["date"] = {0} /\ Described["settime"] = {3} /\ Described["setdate"] = {3}
  /\ Described["sleep"] = {1} /\ Described["tests"] = {0}
BY DEF Described

\* The results of a command.
LEMMA DoesIs ==
  /\ Refused.ok = FALSE /\ Refused.calls = <<>>
  /\ \A calls : Does(calls).ok = TRUE /\ Does(calls).calls = calls
BY DEF Refused, Does

\* A call with one of the handlers, and sequences of such calls.
Handled(calls) == \A call \in ToSet(calls) : call.call \in Registered

\* A call that is registered is handled.
LEMMA OneCall ==
  ASSUME NEW id \in Registered, NEW numbers
  PROVE  Handled(<<Call(id, numbers)>>) /\ Handled(<<>>)
<1> DEFINE c == Call(id, numbers)
<1>1. c.call = id
  BY DEF Call
<1> HIDE DEF c
<1>2. ToSet(<<c>>) = {c} /\ ToSet(<<>>) = {}
  BY DEF ToSet
<1> QED
  BY <1>1, <1>2, Zenon DEF Handled, c

\* The calls that draw a fractal are handled.
LEMMA DrawnHandled ==
  ASSUME NEW times \in Nat
  PROVE  Handled(Drawn(times))
<1>1. Call("video", <<>>).call \in Registered /\ Call("draw", <<>>).call \in Registered
  BY DEF Call, Registered
<1>2. \A call \in ToSet(Drawn(times)) : call = Call("video", <<>>) \/ call = Call("draw", <<>>)
  BY Zenon DEF ToSet, Drawn
<1> QED
  BY <1>1, <1>2, Zenon DEF Handled

\* A command makes calls, and succeeds, only with as many words as it describes, and its
\* calls have handlers, those of tests aside.
Fits(id, argv) ==
  /\ Outcome(id, argv).ok \/ Outcome(id, argv).calls # <<>> => Len(argv) \in Described[id]
  /\ id # "tests" => Handled(Outcome(id, argv).calls)

\* A command that takes no arguments does what its description says.
LEMMA AloneFits ==
  ASSUME NEW argv \in Seq(Word), NEW id, NEW calls, Described[id] = {0},
         Outcome(id, argv) = Alone(argv, calls), id # "tests" => Handled(calls)
  PROVE  Fits(id, argv)
<1>1. Handled(<<>>) /\ Len(<<>>) = 0
  BY DEF Handled, ToSet
<1>2. Outcome(id, argv) = IF argv = <<>> THEN Does(calls) ELSE Refused
  BY Zenon DEF Alone
<1>3. CASE argv = <<>>
  <2>1. Outcome(id, argv) = Does(calls)
    BY <1>2, <1>3, Zenon
  <2>2. Len(argv) \in Described[id]
    BY <1>1, <1>3
  <2> QED
    BY <2>1, <2>2, DoesIs, Zenon DEF Fits
<1>4. CASE argv # <<>>
  BY <1>1, <1>2, <1>4, DoesIs, Zenon DEF Fits
<1> QED
  BY <1>3, <1>4

\* So does one that takes numbers.
LEMMA NumbersFit ==
  ASSUME NEW argv \in Seq(Word), NEW id, NEW limits, NEW call, Described[id] = {Len(limits)},
         Outcome(id, argv) = IF NumbersWithin(argv, limits) THEN Does(<<call>>) ELSE Refused,
         Handled(<<call>>)
  PROVE  Fits(id, argv)
<1>1. Handled(<<>>)
  BY DEF Handled, ToSet
<1>2. CASE NumbersWithin(argv, limits)
  <2>1. Outcome(id, argv) = Does(<<call>>)
    BY <1>2, Zenon
  <2>2. Len(argv) \in Described[id]
    <3>1. Len(argv) = Len(limits)
      BY <1>2, Zenon DEF NumbersWithin
    <3> QED
      BY <3>1
  <2> QED
    BY <2>1, <2>2, DoesIs, Zenon DEF Fits
<1>3. CASE ~NumbersWithin(argv, limits)
  BY <1>1, <1>3, DoesIs, Zenon DEF Fits
<1> QED
  BY <1>2, <1>3

\* Every command does what its description says.
LEMMA AllFit ==
  ASSUME NEW argv \in Seq(Word), NEW id \in DOMAIN Described
  PROVE  Fits(id, argv)
<1>1. Len(argv) \in Nat /\ (argv = <<>> => Len(argv) = 0)
  OBVIOUS
<1>2. /\ "clear" \in Registered /\ "exit" \in Registered /\ "time" \in Registered
      /\ "date" \in Registered /\ "settime" \in Registered /\ "setdate" \in Registered
      /\ "wait" \in Registered
  BY DEF Registered
<1>3. Handled(<<>>)
  BY DEF Handled, ToSet
<1>4. Fits("echo", argv)
  <2>1. Outcome("echo", argv) = Does(<<>>)
    BY OutcomesAre, Zenon DEF echo
  <2>2. Len(argv) \in Described["echo"]
    BY <1>1, DescribedIs, Zenon
  <2> QED
    BY <1>3, <2>1, <2>2, DoesIs, Zenon DEF Fits
<1>5. Fits("help", argv)
  <2>1. Outcome("help", argv) = IF argv = <<>> \/ (Len(argv) = 1 /\ argv[1] \in ToSet(Names))
                                THEN Does(<<>>) ELSE Refused
    BY OutcomesAre, Zenon DEF help
  <2>2. argv = <<>> \/ Len(argv) = 1 => Len(argv) \in Described["help"]
    BY <1>1, DescribedIs
  <2> QED
    BY <1>3, <2>1, <2>2, DoesIs, Zenon DEF Fits
<1>6. Fits("fractal", argv)
  <2> DEFINE one == <<<<Zero + 1>>>>
             two == <<<<Zero + 2>>>>
             bad == [ok |-> FALSE, calls |-> Drawn(Fractals)]
  <2>1. Outcome("fractal", argv) = CASE argv = <<>> -> Does(<<>>)
                                     [] argv = one -> bad
                                     [] argv = two -> Does(Drawn(1))
                                     [] OTHER -> Refused
    BY OutcomesAre, Zenon DEF fractal
  <2>2. Len(one) = 1 /\ Len(two) = 1
    OBVIOUS
  <2>3. Handled(Drawn(Fractals)) /\ Handled(Drawn(1))
    <3>1. Fractals \in Nat /\ 1 \in Nat
      BY CommandsAssumption
    <3> QED
      BY <3>1, DrawnHandled, Zenon
  <2>4. bad.ok = FALSE /\ bad.calls = Drawn(Fractals)
    OBVIOUS
  <2>5. one # <<>> /\ two # <<>> /\ one # two
    BY DEF Zero
  <2> HIDE DEF one, two, bad
  <2>6. argv = <<>> \/ argv = one \/ argv = two => Len(argv) \in Described["fractal"]
    BY <1>1, <2>2, DescribedIs
  <2>7. CASE argv = <<>>
    <3>1. Outcome("fractal", argv) = Does(<<>>)
      BY <2>1, <2>5, <2>7, Zenon
    <3> QED
      BY <1>3, <2>6, <2>7, <3>1, DoesIs, Zenon DEF Fits
  <2>8. CASE argv = one
    <3>1. Outcome("fractal", argv) = bad
      BY <2>1, <2>5, <2>8, Zenon
    <3> QED
      BY <2>3, <2>4, <2>6, <2>8, <3>1, Zenon DEF Fits
  <2>9. CASE argv = two
    <3>1. Outcome("fractal", argv) = Does(Drawn(1))
      BY <2>1, <2>5, <2>9, Zenon
    <3> QED
      BY <2>3, <2>6, <2>9, <3>1, DoesIs, Zenon DEF Fits
  <2>10. CASE argv # <<>> /\ argv # one /\ argv # two
    <3>1. Outcome("fractal", argv) = Refused
      BY <2>1, <2>10, Zenon
    <3> QED
      BY <1>3, <3>1, DoesIs, Zenon DEF Fits
  <2> QED
    BY <2>7, <2>8, <2>9, <2>10, Zenon
<1>7. Fits("clear", argv) /\ Fits("exit", argv) /\ Fits("time", argv) /\ Fits("date", argv)
  <2>1. Fits("clear", argv)
    BY <1>2, OneCall, OutcomesAre, DescribedIs, AloneFits, Zenon DEF clear
  <2>2. Fits("exit", argv)
    BY <1>2, OneCall, OutcomesAre, DescribedIs, AloneFits, Zenon DEF exit
  <2>3. Fits("time", argv)
    BY <1>2, OneCall, OutcomesAre, DescribedIs, AloneFits, Zenon DEF time
  <2>4. Fits("date", argv)
    BY <1>2, OneCall, OutcomesAre, DescribedIs, AloneFits, Zenon DEF date
  <2> QED
    BY <2>1, <2>2, <2>3, <2>4
<1>8. Fits("settime", argv)
  <2> DEFINE limits == <<<<0, HoursIn>>, <<0, MinutesIn>>, <<0, SecondsIn>>>>
             call == Call("settime", Numbers(argv))
  <2>1. Outcome("settime", argv) = IF NumbersWithin(argv, limits) THEN Does(<<call>>) ELSE Refused
    BY OutcomesAre, Zenon DEF set_time
  <2>2. Len(limits) = 3
    OBVIOUS
  <2>3. Handled(<<call>>)
    BY <1>2, OneCall, Zenon
  <2> HIDE DEF limits, call
  <2>4. Described["settime"] = {Len(limits)}
    BY <2>2, DescribedIs, Zenon
  <2> QED
    BY <2>1, <2>3, <2>4, NumbersFit, Zenon
<1>9. Fits("setdate", argv)
  <2> DEFINE limits == <<<<1, DaysIn + 1>>, <<1, MonthsIn + 1>>, <<0, YearsSet>>>>
             call == Call("setdate", Numbers(argv))
  <2>1. Outcome("setdate", argv) = IF NumbersWithin(argv, limits) THEN Does(<<call>>) ELSE Refused
    BY OutcomesAre, Zenon DEF set_date
  <2>2. Len(limits) = 3
    OBVIOUS
  <2>3. Handled(<<call>>)
    BY <1>2, OneCall, Zenon
  <2> HIDE DEF limits, call
  <2>4. Described["setdate"] = {Len(limits)}
    BY <2>2, DescribedIs, Zenon
  <2> QED
    BY <2>1, <2>3, <2>4, NumbersFit, Zenon
<1>10. Fits("sleep", argv)
  <2> DEFINE limits == <<<<0, INT_MAX + 1>>>>
             call == Call("wait", <<AsInt(Number(argv[1]) * Millis)>>)
  <2>1. Outcome("sleep", argv) = IF NumbersWithin(argv, limits) THEN Does(<<call>>) ELSE Refused
    BY OutcomesAre, Zenon DEF sleep
  <2>2. Len(limits) = 1
    OBVIOUS
  <2>3. Handled(<<call>>)
    BY <1>2, OneCall, Zenon
  <2> HIDE DEF limits, call
  <2>4. Described["sleep"] = {Len(limits)}
    BY <2>2, DescribedIs, Zenon
  <2> QED
    BY <2>1, <2>3, <2>4, NumbersFit, Zenon
<1>11. Fits("tests", argv)
  <2> DEFINE calls == [k \in 1..4 |-> IF k < 4 THEN Call("malloc", <<>>) ELSE Call("clear", <<>>)]
  <2>1. Outcome("tests", argv) = Alone(argv, calls)
    BY OutcomesAre, Zenon DEF tests
  <2> HIDE DEF calls
  <2> QED
    BY <2>1, DescribedIs, AloneFits, Zenon
<1>12. /\ id = "echo" \/ id = "help" \/ id = "fractal" \/ id = "clear" \/ id = "exit"
          \/ id = "time" \/ id = "date" \/ id = "settime" \/ id = "setdate" \/ id = "sleep"
          \/ id = "tests"
  BY DescribedIs
<1> QED
  BY <1>4, <1>5, <1>6, <1>7, <1>8, <1>9, <1>10, <1>11, <1>12, Zenon


\* As many thousands as an int holds do not wrap.
LEMMA Milliseconds ==
  ASSUME NEW M \in Nat \ {0}, NEW X \in Nat, NEW s \in 0..(X \div M)
  PROVE  s * M \in 0..X
<1> DEFINE q == X \div M
<1>1. q \in Nat /\ M * q <= X /\ M * q \in Nat
  OBVIOUS
<1> HIDE DEF q
<1>2. s \in Nat /\ q - s \in Nat /\ q = s + (q - s)
  BY <1>1 DEF q
<1>3. M * q = M * s + M * (q - s) /\ M * s \in Nat /\ M * (q - s) \in Nat
  BY <1>2
<1>4. M * s <= M * q
  BY <1>1, <1>3
<1>5. s * M = M * s
  BY <1>2
<1> QED
  BY <1>1, <1>3, <1>4, <1>5

\* The commands' calls are as asked for any line that is typed.
LEMMA AskedIfTyped == line \in Seq(Alphabet) => CallsAsAsked
<1> SUFFICES ASSUME line \in Seq(Alphabet)
             PROVE  CallsAsAsked
  OBVIOUS
<1> DEFINE argv == WordsOfLine
           n == Len(argv)
           numerals == \A k \in 1..n : Numeral(argv[k])
           numbers == [k \in 1..n |-> Denoted(argv[k])]
           Made(id) == Outcome(id, argv).calls
           Asked(id, valid) == IF numerals /\ valid THEN <<Call(id, numbers)>> ELSE <<>>
           small == \A k \in 1..n : Numeral(argv[k]) => Magnitude(argv[k]) <= INT_MAX
           Settime == Made("settime") = Asked("settime", numbers \in TimesOfDay)
           Setdate == Made("setdate") = Asked("setdate", numbers \in Dates)
           Slept == numerals /\ n = 1 /\ numbers[1] \in 0..(INT_MAX \div Millis) =>
                      Made("sleep") = <<Call("wait", <<numbers[1] * Millis>>)>>
           Awake == ~numerals \/ (n = 1 /\ numbers[1] < 0) => Made("sleep") = <<>>
<1>1. argv \in Seq(Word)
  BY AlphabetIs, WordsAreWords, Zenon
<1>2. \A id \in DOMAIN Described :
        /\ Outcome(id, argv).ok \/ Made(id) # <<>> => n \in Described[id]
        /\ id # "tests" => \A call \in ToSet(Made(id)) : call.call \in Registered
  BY <1>1, AllFit, Zenon DEF Fits, Handled
<1> HIDE DEF argv
<1>3. n \in Nat /\ \A k \in 1..n : argv[k] \in Word
  BY <1>1
<1>4. numbers = [k \in 1..Len(argv) |-> Denoted(argv[k])]
  OBVIOUS
<1>5. ASSUME small
      PROVE  Settime
  <2> DEFINE limits == <<<<0, HoursIn>>, <<0, MinutesIn>>, <<0, SecondsIn>>>>
  <2>1. Made("settime") =
          IF NumbersWithin(argv, limits) THEN <<Call("settime", Numbers(argv))>> ELSE <<>>
    BY OutcomesAre, DoesIs, Zenon DEF set_time
  <2>2. /\ HoursIn \in Int /\ MinutesIn \in Int /\ SecondsIn \in Int
        /\ HoursIn \in Nat \ {0} /\ MinutesIn \in Nat \ {0} /\ SecondsIn \in Nat \ {0}
    BY CommandsAssumption
  <2>3. /\ limits[1][1] = 0 /\ limits[2][1] = 0 /\ limits[3][1] = 0
        /\ limits[1][2] = HoursIn /\ limits[2][2] = MinutesIn /\ limits[3][2] = SecondsIn
        /\ Len(limits) = 3
    OBVIOUS
  <2> HIDE DEF limits
  <2>4. Least3(limits)
    BY <2>2, <2>3 DEF Least3
  <2>5. TimesOfDay = (limits[1][1]..(limits[1][2] - 1)) \X (limits[2][1]..(limits[2][2] - 1))
                       \X (limits[3][1]..(limits[3][2] - 1))
    BY <2>3, Zenon DEF TimesOfDay
  <2> HIDE DEF numbers
  <2>6. /\ NumbersWithin(argv, limits) <=> numerals /\ numbers \in TimesOfDay
        /\ NumbersWithin(argv, limits) => Numbers(argv) = numbers
    BY <1>1, <1>4, <1>5, <2>4, <2>5, SettingIsAsked, Zenon
  <2> HIDE DEF Made, numerals
  <2> QED
    BY <2>1, <2>6, Zenon
<1>6. ASSUME small
      PROVE  Setdate
  <2> DEFINE limits == <<<<1, DaysIn + 1>>, <<1, MonthsIn + 1>>, <<0, YearsSet>>>>
  <2>1. Made("setdate") =
          IF NumbersWithin(argv, limits) THEN <<Call("setdate", Numbers(argv))>> ELSE <<>>
    BY OutcomesAre, DoesIs, Zenon DEF set_date
  <2>2. DaysIn \in Nat \ {0} /\ MonthsIn \in Nat \ {0} /\ YearsSet \in Nat \ {0}
    BY CommandsAssumption
  <2>3. /\ limits[1][1] = 1 /\ limits[2][1] = 1 /\ limits[3][1] = 0
        /\ limits[1][2] = DaysIn + 1 /\ limits[2][2] = MonthsIn + 1 /\ limits[3][2] = YearsSet
        /\ Len(limits) = 3
    OBVIOUS
  <2> HIDE DEF limits
  <2>4. Least3(limits)
    BY <2>2, <2>3 DEF Least3
  <2>5. Dates = (limits[1][1]..(limits[1][2] - 1)) \X (limits[2][1]..(limits[2][2] - 1))
                  \X (limits[3][1]..(limits[3][2] - 1))
    <3>1. limits[1][2] - 1 = DaysIn /\ limits[2][2] - 1 = MonthsIn
      BY <2>2, <2>3
    <3> QED
      BY <2>3, <3>1, Zenon DEF Dates
  <2> HIDE DEF numbers
  <2>6. /\ NumbersWithin(argv, limits) <=> numerals /\ numbers \in Dates
        /\ NumbersWithin(argv, limits) => Numbers(argv) = numbers
    BY <1>1, <1>4, <1>6, <2>4, <2>5, SettingIsAsked, Zenon
  <2> HIDE DEF Made, numerals
  <2> QED
    BY <2>1, <2>6, Zenon
<1> DEFINE limits == <<<<0, INT_MAX + 1>>>>
<1>7. Made("sleep") = IF NumbersWithin(argv, limits)
                      THEN <<Call("wait", <<AsInt(Number(argv[1]) * Millis)>>)>> ELSE <<>>
  BY OutcomesAre, DoesIs, Zenon DEF sleep
<1>8. Len(limits) = 1 /\ limits[1][1] = 0 /\ limits[1][2] = INT_MAX + 1
  OBVIOUS
<1> HIDE DEF limits
<1>9. ASSUME small, NEW k \in 1..n
      PROVE  /\ IsNumber(argv[k]) <=> Numeral(argv[k])
             /\ Numeral(argv[k]) => Number(argv[k]) = numbers[k] /\ numbers[k] \in Int
  <2>1. argv[k] \in Word /\ (Numeral(argv[k]) => Magnitude(argv[k]) <= INT_MAX)
    BY <1>3, <1>9
  <2>2. numbers[k] = Denoted(argv[k])
    BY Zenon
  <2> QED
    BY <2>1, <2>2, WordIsNumber, Zenon
<1>10. ASSUME small
       PROVE  Slept
  <2>1. SUFFICES ASSUME numerals, n = 1, numbers[1] \in 0..(INT_MAX \div Millis)
                 PROVE  Made("sleep") = <<Call("wait", <<numbers[1] * Millis>>)>>
    BY Zenon
  <2>2. 1 \in 1..n /\ \A k \in 1..n : k = 1
    BY <2>1
  <2>3. IsNumber(argv[1]) /\ Number(argv[1]) = numbers[1]
    BY <1>9, <1>10, <2>1, <2>2, Zenon
  <2> DEFINE s == numbers[1]
  <2> HIDE DEF n, numbers
  <2>4. INT_MAX \in Nat /\ Millis \in Nat \ {0}
    BY TextAssumption, CommandsAssumption
  <2>5. s * Millis \in 0..INT_MAX
    BY <2>1, <2>4, Milliseconds, Zenon
  <2>6. s \in Nat /\ s < INT_MAX + 1
    <3> DEFINE q == INT_MAX \div Millis
    <3>1. q \in Nat /\ q <= INT_MAX
      BY <2>4
    <3> HIDE DEF q
    <3> QED
      BY <2>1, <2>4, <3>1 DEF q
  <2>7. AsInt(s * Millis) = s * Millis
    <3>1. s * Millis \in Ints
      BY <2>4, <2>5 DEF Ints
    <3> QED
      BY <3>1, AsIntIs, Zenon
  <2>8. NumbersWithin(argv, limits)
    <3>1. Len(argv) = Len(limits)
      BY <1>8, <2>1 DEF n
    <3>2. s >= 0 /\ s < INT_MAX + 1
      BY <2>6
    <3> HIDE DEF s
    <3>3. /\ IsNumber(argv[1]) /\ Number(argv[1]) >= limits[1][1]
          /\ Number(argv[1]) < limits[1][2]
      BY <1>8, <2>3, <3>2, Zenon DEF s
    <3> QED
      BY <2>2, <3>1, <3>3, Zenon DEF NumbersWithin, n
  <2> QED
    BY <1>7, <2>3, <2>7, <2>8, Zenon
<1>11. ASSUME small
       PROVE  Awake
  <2>1. SUFFICES ASSUME NumbersWithin(argv, limits)
                 PROVE  numerals /\ ~(n = 1 /\ numbers[1] < 0)
    BY <1>7, Zenon
  <2>2. \A k \in 1..n : IsNumber(argv[k])
    BY <2>1, Zenon DEF NumbersWithin
  <2>3. numerals
    BY <1>9, <1>11, <2>2, Zenon
  <2>4. ASSUME n = 1
        PROVE  ~(numbers[1] < 0)
    <3>1. 1 \in 1..n
      BY <2>4
    <3>2. Number(argv[1]) = numbers[1] /\ numbers[1] \in Int
      BY <1>9, <1>11, <2>3, <3>1, Zenon
    <3>3. numbers[1] >= 0
      BY <1>8, <2>1, <3>1, <3>2, Zenon DEF NumbersWithin
    <3> HIDE DEF numbers
    <3> QED
      BY <3>2, <3>3
  <2> QED
    BY <2>3, <2>4, Zenon
<1>12. /\ \A id \in DOMAIN Described :
            /\ Outcome(id, argv).ok \/ Made(id) # <<>> => n \in Described[id]
            /\ id # "tests" => \A call \in ToSet(Made(id)) : call.call \in Registered
       /\ small => Settime /\ Setdate /\ Slept /\ Awake
  <2> HIDE DEF Settime, Setdate, Slept, Awake
  <2> QED
    BY <1>2, <1>5, <1>6, <1>10, <1>11, Zenon DEF argv
<1> QED
  BY <1>12, Zenon DEF CallsAsAsked, argv

\* settime, setdate and sleep reach the kernel with the numbers their words denote, and
\* every command makes its calls with the words it describes only, whatever is typed.
THEOREM CallsAreAsAsked == Spec => []CallsAsAsked
<1> QED
  BY AskedIfTyped, LineTyped, PTL


(***************************************************************************)
(* printf.                                                                  *)
(***************************************************************************)
LEMMA FromConcat ==
  ASSUME NEW s \in Str, NEW t \in Str
  PROVE  From(s \o t, Len(s)) = t /\ s \o t \in Str /\ Len(s \o t) = Len(s) + Len(t)
<1> DEFINE w == s \o t
           u == From(w, Len(s))
<1>1. Len(s) \in Nat /\ Len(t) \in Nat
  BY DEF Str
<1>2. w \in Str /\ Len(w) = Len(s) + Len(t)
      /\ \A i \in 1..(Len(s) + Len(t)) : w[i] = IF i <= Len(s) THEN s[i] ELSE t[i - Len(s)]
  BY ConcatProperties DEF Str
<1> HIDE DEF w
<1>3. /\ u \in Str /\ Len(u) = IF Len(s) <= Len(w) THEN Len(w) - Len(s) ELSE 0
      /\ \A k \in 1..(Len(w) - Len(s)) : u[k] = w[Len(s) + k]
  BY <1>1, <1>2, FromIs, Zenon
<1> HIDE DEF u
<1>4. Len(u) = Len(t) /\ Len(w) - Len(s) = Len(t)
  BY <1>1, <1>2, <1>3
<1>5. ASSUME NEW k \in 1..Len(u)
      PROVE  u[k] = t[k]
  <2>1. k \in 1..(Len(w) - Len(s)) /\ Len(s) + k \in 1..(Len(s) + Len(t))
        /\ ~(Len(s) + k <= Len(s)) /\ (Len(s) + k) - Len(s) = k
    BY <1>1, <1>4
  <2> QED
    BY <1>2, <1>3, <2>1, Zenon
<1>6. u = t
  BY <1>3, <1>4, <1>5, SeqEqual DEF Str
<1> QED
  BY <1>2, <1>6, Zenon DEF u, w

\* Strings are joined in any order.
LEMMA ConcatIsAssociative ==
  ASSUME NEW s \in Str, NEW t \in Str, NEW u \in Str
  PROVE  (s \o t) \o u = s \o (t \o u)
BY ConcatAssociative DEF Str

\* What has been printed after each of the format's places.
TextTurns(text, fmt, args) ==
  /\ text[0] = <<>>
  /\ \A i \in 1..Len(fmt) : text[i] = text[i - 1] \o Written(fmt, args, i)

\* Formatted is what printf has printed after the format's last place.
LEMMA FormattedIs ==
  ASSUME NEW fmt \in Str, NEW args
  PROVE  \E text : TextTurns(text, fmt, args) /\ Formatted(fmt, args) = text[Len(fmt)]
<1> DEFINE n == Len(fmt)
           a == <<>>
           N(k, s) == s \o Written(fmt, args, k)
           Upto(g, m) == g = [k \in 0..m |-> IF k = 0 THEN a ELSE N(k, g[k - 1])]
           Good == {m \in 0..n : \E g : Upto(g, m)}
           text == CHOOSE g : Upto(g, n)
<1>1. n \in Nat
  BY DEF Str
<1>2. Formatted(fmt, args) = text[n]
  BY Zenon DEF Formatted
<1> HIDE DEF n, a, N
<1>3. 0 \in Good
  <2> DEFINE g == [k \in 0..0 |-> a]
  <2>1. \A k \in 0..0 : k = 0
    OBVIOUS
  <2>2. Upto(g, 0)
    BY <2>1, Zenon
  <2> HIDE DEF Upto, g
  <2>3. 0 \in 0..n
    BY <1>1
  <2> QED
    BY <2>2, <2>3, Zenon
<1>4. ASSUME NEW m \in 1..n, m - 1 \in Good
      PROVE  m \in Good
  <2>1. PICK g : Upto(g, m - 1)
    BY <1>4, Zenon
  <2> DEFINE h == [k \in 0..m |-> IF k = m THEN N(m, g[m - 1]) ELSE g[k]]
  <2>2. m - 1 \in 0..(m - 1) /\ m # 0 /\ m \in 0..n /\ \A k \in 0..m : k # m => k \in 0..(m - 1)
    OBVIOUS
  <2>3. \A k \in 0..m : k # 0 => k - 1 \in 0..m /\ k - 1 # m
    OBVIOUS
  <2>4. \A k \in 0..(m - 1) : g[k] = IF k = 0 THEN a ELSE N(k, g[k - 1])
    BY <2>1, Zenon
  <2>5. \A k \in 0..m : h[k] = IF k = m THEN N(m, g[m - 1]) ELSE g[k]
    BY Zenon
  <2>6. h = [k \in 0..m |-> h[k]]
    BY <2>5, Zenon
  <2> HIDE DEF h
  <2>7. \A k \in 0..m : k # 0 => h[k - 1] = g[k - 1]
    BY <2>3, <2>5, Zenon
  <2>8. \A k \in 0..m : h[k] = IF k = 0 THEN a ELSE N(k, h[k - 1])
    <3>1. ASSUME NEW k \in 0..m
          PROVE  h[k] = IF k = 0 THEN a ELSE N(k, h[k - 1])
      <4>1. CASE k = m
        BY <2>2, <2>5, <2>7, <4>1, Zenon
      <4>2. CASE k # m
        <5>1. h[k] = g[k] /\ k \in 0..(m - 1)
          BY <2>2, <2>5, <4>2, Zenon
        <5> QED
          BY <2>4, <2>7, <5>1, Zenon
      <4> QED
        BY <4>1, <4>2, Zenon
    <3> QED
      BY <3>1, Zenon
  <2>9. Upto(h, m)
    BY <2>6, <2>8, Zenon
  <2> HIDE DEF Upto
  <2> QED
    BY <2>2, <2>9, Zenon
<1>5. \E g : Upto(g, n)
  <2> HIDE DEF Good
  <2>1. \A m \in 0..n : m \in Good
    BY <1>1, <1>3, <1>4, AllTurns
  <2>2. n \in 0..n
    BY <1>1
  <2> QED
    BY <2>1, <2>2, Zenon DEF Good
<1>6. Upto(text, n)
  BY <1>5, Zenon
<1> HIDE DEF text
<1>7. \A k \in 0..n : text[k] = IF k = 0 THEN a ELSE N(k, text[k - 1])
  BY <1>6, Zenon
<1>8. 0 \in 0..n /\ \A k \in 1..n : k \in 0..n /\ k # 0
  BY <1>1
<1>9. TextTurns(text, fmt, args)
  BY <1>7, <1>8, Zenon DEF TextTurns, n, a, N
<1> QED
  BY <1>2, <1>9, Zenon DEF n

\* What is written from each place of the format on.
RestTurns(rest, fmt, args) ==
  /\ \A i \in 0..Len(fmt) : rest[i] \in Str
  /\ rest[0] = Formatted(fmt, args) /\ rest[Len(fmt)] = <<>>
  /\ \A i \in 1..Len(fmt) : rest[i - 1] = Written(fmt, args, i) \o rest[i]

\* Every place of a format has what is printed from it on.
LEMMA RestIs ==
  ASSUME NEW fmt \in Str, NEW args, \A i \in 1..Len(fmt) : Written(fmt, args, i) \in Str
  PROVE  \E rest : RestTurns(rest, fmt, args)
<1> DEFINE n == Len(fmt)
           W(i) == Written(fmt, args, i)
           full == Formatted(fmt, args)
<1>1. n \in Nat
  BY DEF Str
<1>2. PICK text : TextTurns(text, fmt, args) /\ full = text[n]
  BY FormattedIs, Zenon
<1> DEFINE rest == [i \in 0..n |-> From(full, Len(text[i]))]
<1>3. text[0] = <<>> /\ \A i \in 1..n : text[i] = text[i - 1] \o W(i) /\ W(i) \in Str
  BY <1>2, Zenon DEF TextTurns
<1> HIDE DEF n, W, full
<1>4. \A i \in 0..n : text[i] \in Str
  <2> DEFINE Good == {i \in 0..n : text[i] \in Str}
  <2>1. 0 \in Good
    <3>1. <<>> \in Str /\ 0 \in 0..n
      BY <1>1 DEF Str
    <3> QED
      BY <1>3, <3>1
  <2>2. ASSUME NEW i \in 1..n, i - 1 \in Good
        PROVE  i \in Good
    <3>1. text[i - 1] \in Str /\ W(i) \in Str /\ text[i] = text[i - 1] \o W(i) /\ i \in 0..n
      BY <1>3, <2>2
    <3>2. text[i] \in Str
      BY <3>1, FromConcat, Zenon
    <3> QED
      BY <3>1, <3>2
  <2> HIDE DEF Good
  <2>3. \A i \in 0..n : i \in Good
    BY <1>1, <2>1, <2>2, AllTurns
  <2> QED
    BY <2>3, Zenon DEF Good
<1>5. \A i \in 0..n : rest[i] = From(full, Len(text[i]))
  BY Zenon
<1> HIDE DEF rest
<1>6. full \in Str
  <2>1. n \in 0..n
    BY <1>1
  <2> QED
    BY <1>2, <1>4, <2>1, Zenon DEF n
<1>7. \A i \in 0..n : rest[i] \in Str
  <2>1. \A i \in 0..n : Len(text[i]) \in Nat
    BY <1>4 DEF Str
  <2> QED
    BY <1>5, <1>6, <2>1, FromIs, Zenon
<1>8. rest[n] = <<>> /\ n \in 0..n
  <2>1. n \in 0..n /\ Len(full) \in Nat /\ Len(full) >= Len(full)
    BY <1>1, <1>6 DEF Str
  <2>2. rest[n] = From(full, Len(full))
    BY <1>2, <1>5, <2>1, Zenon DEF n
  <2> QED
    BY <1>6, <2>1, <2>2, FromIs, Zenon
<1>9. rest[0] = full
  <2>1. 0 \in 0..n /\ 0 \in Nat /\ Len(<<>>) = 0
    BY <1>1
  <2>2. rest[0] = From(full, 0)
    BY <1>3, <1>5, <2>1, Zenon
  <2> QED
    BY <1>6, <2>1, <2>2, FromIs, Zenon
<1> DEFINE Good == {k \in 0..n : full = text[n - k] \o rest[n - k]}
<1>10. ASSUME NEW i \in 1..n, full = text[i] \o rest[i]
       PROVE  rest[i - 1] = W(i) \o rest[i] /\ full = text[i - 1] \o rest[i - 1]
  <2>1. i \in 0..n /\ i - 1 \in 0..n
    BY <1>1
  <2>2. text[i - 1] \in Str /\ W(i) \in Str /\ rest[i] \in Str /\ text[i] = text[i - 1] \o W(i)
    BY <1>3, <1>4, <1>7, <2>1
  <2>3. full = text[i - 1] \o (W(i) \o rest[i])
    <3>1. (text[i - 1] \o W(i)) \o rest[i] = text[i - 1] \o (W(i) \o rest[i])
      BY <2>2, ConcatIsAssociative, Zenon
    <3> QED
      BY <1>10, <2>2, <3>1, Zenon
  <2>4. W(i) \o rest[i] \in Str
    BY <2>2, FromConcat, Zenon
  <2>5. From(full, Len(text[i - 1])) = W(i) \o rest[i]
    BY <2>2, <2>3, <2>4, FromConcat, Zenon
  <2> QED
    BY <1>5, <2>1, <2>3, <2>5, Zenon
<1>11. 0 \in Good
  <2>1. n - 0 = n /\ 0 \in 0..n
    BY <1>1
  <2>2. full \o <<>> = full
    BY <1>6, ConcatEmptySeq DEF Str
  <2>3. full = text[n] \o rest[n]
    BY <1>2, <1>8, <2>2, Zenon DEF n
  <2> QED
    BY <2>1, <2>3, Zenon
<1>12. ASSUME NEW k \in 1..n, k - 1 \in Good
       PROVE  k \in Good
  <2>1. k \in 0..n /\ n - (k - 1) \in 1..n /\ n - k = (n - (k - 1)) - 1
    BY <1>1
  <2>2. full = text[n - (k - 1)] \o rest[n - (k - 1)]
    BY <1>12, Zenon
  <2>3. full = text[n - k] \o rest[n - k]
    BY <1>10, <2>1, <2>2, Zenon
  <2> QED
    BY <2>1, <2>3, Zenon
<1> HIDE DEF Good
<1>13. \A k \in 0..n : k \in Good
  BY <1>1, <1>11, <1>12, AllTurns
<1>14. ASSUME NEW i \in 1..n
       PROVE  rest[i - 1] = W(i) \o rest[i]
  <2>1. n - i \in 0..n /\ n - (n - i) = i
    BY <1>1
  <2>2. n - i \in Good
    BY <1>13, <2>1, Zenon
  <2>3. full = text[n - (n - i)] \o rest[n - (n - i)]
    BY <2>2, Zenon DEF Good
  <2>4. full = text[i] \o rest[i]
    BY <2>1, <2>3, Zenon
  <2> QED
    BY <1>10, <2>4
<1>15. RestTurns(rest, fmt, args)
  BY <1>7, <1>8, <1>9, <1>14, Zenon DEF RestTurns, n, W, full
<1> QED
  BY <1>15, Zenon


(***************************************************************************)
(* The conversions of a format.                                             *)
(***************************************************************************)
LEMMA OptionIs ==
  ASSUME NEW fmt \in Str, NEW i \in 1..Len(fmt), Option(fmt, i)
  PROVE  /\ fmt[i] = Percent /\ At(fmt, i) = fmt[i + 1] /\ fmt[i + 1] \in PrintfFormats
         /\ i + 1 \in 1..Len(fmt) /\ ~Option(fmt, i + 1)
<1>1. Len(fmt) \in Nat /\ i \in Nat
  BY DEF Str
<1>2. fmt[i] = Percent /\ At(fmt, i) \in PrintfFormats
  BY Zenon DEF Option
<1>3. At(fmt, i) # 0
  BY <1>2 DEF PrintfFormats, CharS, CharD, CharC
<1>4. i < Len(fmt) /\ i + 1 \in 1..Len(fmt) /\ At(fmt, i) = fmt[i + 1]
  BY <1>1, <1>3, AtIs
<1>5. fmt[i + 1] # Percent
  BY <1>2, <1>4 DEF PrintfFormats, CharS, CharD, CharC, Percent
<1> QED
  BY <1>2, <1>4, <1>5, Zenon DEF Option

\* The conversions up to a place are counted one by one.
LEMMA OptionsAre ==
  ASSUME NEW fmt \in Str
  PROVE  /\ Options(fmt, 0) = 0
         /\ \A i \in 0..Len(fmt) : Options(fmt, i) \in Nat
         /\ \A i \in 1..Len(fmt) :
              Options(fmt, i) = IF Option(fmt, i) THEN Options(fmt, i - 1) + 1
                                ELSE Options(fmt, i - 1)
         /\ \A i, j \in 0..Len(fmt) : i <= j => Options(fmt, i) <= Options(fmt, j)
<1> DEFINE n == Len(fmt)
           S(i) == {j \in 1..i : Option(fmt, j)}
<1>1. n \in Nat
  BY DEF Str
<1>2. \A i \in 0..n : IsFiniteSet(S(i))
  <2>1. ASSUME NEW i \in 0..n
        PROVE  IsFiniteSet(S(i))
    <3>1. IsFiniteSet(1..i)
      BY <1>1, FS_Interval
    <3>2. S(i) \subseteq 1..i
      OBVIOUS
    <3> HIDE DEF S
    <3> QED
      BY <3>1, <3>2, FS_Subset, Zenon
  <2> QED
    BY <2>1, Zenon
<1>3. \A i \in 0..n : Options(fmt, i) = Cardinality(S(i))
  BY Zenon DEF Options
<1>4. S(0) = {}
  OBVIOUS
<1>5. ASSUME NEW i \in 1..n
      PROVE  /\ Option(fmt, i) => S(i) = S(i - 1) \cup {i} /\ i \notin S(i - 1)
             /\ ~Option(fmt, i) => S(i) = S(i - 1)
  <2>1. \A j \in Int : j \in 1..i <=> j \in 1..(i - 1) \/ j = i
    BY <1>1
  <2>2. i \notin 1..(i - 1) /\ 1..i \subseteq Int
    BY <1>1
  <2>3. \A j : j \in S(i) <=> j \in 1..i /\ Option(fmt, j)
    BY Zenon
  <2>4. \A j : j \in S(i - 1) <=> j \in 1..(i - 1) /\ Option(fmt, j)
    BY Zenon
  <2>5. 1..(i - 1) \subseteq Int
    BY <1>1
  <2> HIDE DEF S
  <2> QED
    BY <2>1, <2>2, <2>3, <2>4, <2>5
<1>6. \A i, j \in 0..n : i <= j => S(i) \subseteq S(j)
  BY <1>1
<1> HIDE DEF S, n
<1>7. \A i \in 0..n : Options(fmt, i) \in Nat
  BY <1>2, <1>3, FS_CardinalityType, Zenon
<1>8. Options(fmt, 0) = 0
  <2>1. 0 \in 0..n
    BY <1>1
  <2> QED
    BY <1>3, <1>4, <2>1, FS_EmptySet, Zenon
<1>9. ASSUME NEW i \in 1..n
      PROVE  Options(fmt, i) = IF Option(fmt, i) THEN Options(fmt, i - 1) + 1
                               ELSE Options(fmt, i - 1)
  <2>1. i \in 0..n /\ i - 1 \in 0..n
    BY <1>1
  <2>2. Options(fmt, i) = Cardinality(S(i)) /\ Options(fmt, i - 1) = Cardinality(S(i - 1))
        /\ IsFiniteSet(S(i - 1))
    BY <1>2, <1>3, <2>1, Zenon
  <2>3. CASE Option(fmt, i)
    <3>1. S(i) = S(i - 1) \cup {i} /\ i \notin S(i - 1)
      BY <1>5, <2>3
    <3>2. Cardinality(S(i - 1) \cup {i}) = Cardinality(S(i - 1)) + 1
      BY <2>2, <3>1, FS_AddElement
    <3> QED
      BY <2>2, <2>3, <3>1, <3>2, Zenon
  <2>4. CASE ~Option(fmt, i)
    <3>1. S(i) = S(i - 1)
      BY <1>5, <2>4
    <3> QED
      BY <2>2, <2>4, <3>1, Zenon
  <2> QED
    BY <2>3, <2>4
<1>10. \A i, j \in 0..n : i <= j => Options(fmt, i) <= Options(fmt, j)
  <2>1. ASSUME NEW i \in 0..n, NEW j \in 0..n, i <= j
        PROVE  Options(fmt, i) <= Options(fmt, j)
    <3>1. IsFiniteSet(S(j)) /\ S(i) \subseteq S(j)
      BY <1>2, <1>6, <2>1
    <3>2. Cardinality(S(i)) <= Cardinality(S(j))
      BY <3>1, FS_Subset
    <3> QED
      BY <1>3, <3>2, Zenon
  <2> QED
    BY <2>1, Zenon
<1> QED
  BY <1>7, <1>8, <1>9, <1>10, Zenon DEF n

\* The letter of a conversion is the one behind its percent sign.
LEMMA LetterIs ==
  ASSUME NEW fmt \in Str, NEW i \in 1..Len(fmt), Option(fmt, i)
  PROVE  /\ Letter(fmt, Options(fmt, i)) = fmt[i + 1]
         /\ Options(fmt, i) \in 1..Options(fmt, Len(fmt))
         /\ Options(fmt, i) = Options(fmt, i - 1) + 1
<1> DEFINE n == Len(fmt)
           c(j) == Options(fmt, j)
           place == CHOOSE j \in 1..n : Option(fmt, j) /\ Options(fmt, j) = Options(fmt, i)
<1>1. n \in Nat
  BY DEF Str
<1>2. /\ \A j \in 0..n : c(j) \in Nat
      /\ \A j \in 1..n : Option(fmt, j) => c(j) = c(j - 1) + 1
      /\ \A j, k \in 0..n : j <= k => c(j) <= c(k)
  BY OptionsAre, Zenon
<1>3. place \in 1..n /\ Option(fmt, place) /\ c(place) = c(i)
  BY Zenon
<1>4. Letter(fmt, Options(fmt, i)) = fmt[place + 1]
  BY Zenon DEF Letter
<1> HIDE DEF place, c
<1>5. ASSUME NEW j \in 1..n, NEW k \in 1..n, j < k, Option(fmt, k)
      PROVE  c(j) # c(k)
  <2>1. j \in 0..n /\ k \in 0..n /\ k - 1 \in 0..n /\ j <= k - 1
    BY <1>1, <1>5
  <2>2. c(j) <= c(k - 1) /\ c(k) = c(k - 1) + 1 /\ c(k - 1) \in Nat /\ c(j) \in Nat
    BY <1>2, <1>5, <2>1, Zenon
  <2> QED
    BY <2>2
<1>6. place = i
  <2>1. ~(place < i) /\ ~(i < place)
    BY <1>3, <1>5
  <2> QED
    BY <1>1, <1>3, <2>1
<1>7. i \in 0..n /\ i - 1 \in 0..n /\ n \in 0..n /\ i <= n
  BY <1>1
<1>8. c(i) <= c(n) /\ c(i) = c(i - 1) + 1 /\ c(i - 1) \in Nat /\ c(n) \in Nat
  BY <1>2, <1>7, Zenon
<1>9. c(i) \in 1..c(n)
  BY <1>8
<1> QED
  BY <1>4, <1>6, <1>8, <1>9, Zenon DEF c, n


(***************************************************************************)
(* print_dec and what read_dec makes of it.                                 *)
(***************************************************************************)
\* What digits denote, by ValueTurns, does not depend on what follows.
LEMMA ValuesAgree ==
  ASSUME NEW d \in Str, NEW e \in Str, NEW n \in Nat, n <= Len(d), n <= Len(e),
         \A k \in 1..n : d[k] = e[k],
         NEW v, ValueTurns(v, d), NEW w, ValueTurns(w, e)
  PROVE  v[n] = w[n]
<1> DEFINE Good == {k \in 0..n : v[k] = w[k]}
<1>1. /\ v[0] = 0 /\ \A k \in 1..Len(d) : v[k] = v[k - 1] * 10 + (d[k] - Zero)
      /\ w[0] = 0 /\ \A k \in 1..Len(e) : w[k] = w[k - 1] * 10 + (e[k] - Zero)
  BY Zenon DEF ValueTurns
<1>2. 0 \in Good
  BY <1>1
<1>3. ASSUME NEW k \in 1..n, k - 1 \in Good
      PROVE  k \in Good
  <2>1. k \in 1..Len(d) /\ k \in 1..Len(e) /\ k \in 0..n
    BY DEF Str
  <2>2. v[k - 1] = w[k - 1] /\ d[k] = e[k]
    BY <1>3
  <2>3. v[k] = w[k]
    BY <1>1, <2>1, <2>2, Zenon
  <2> QED
    BY <2>1, <2>3
<1> HIDE DEF Good
<1>4. \A k \in 0..n : k \in Good
  BY <1>2, <1>3, AllTurns
<1>5. n \in 0..n
  OBVIOUS
<1> QED
  BY <1>4, <1>5, Zenon DEF Good

\* A digit more is ten times the value and the digit.
LEMMA ValueOfAppended ==
  ASSUME NEW d \in Str, NEW c \in Nat
  PROVE  Value(Append(d, c)) = Value(d) * 10 + (c - Zero)
<1> DEFINE e == Append(d, c)
           n == Len(d)
<1>1. n \in Nat
  BY DEF Str
<1>2. e \in Str /\ Len(e) = n + 1 /\ e[n + 1] = c /\ \A k \in 1..n : e[k] = d[k]
  BY AppendProperties DEF Str
<1> HIDE DEF e
<1>3. PICK v : ValueTurns(v, d) /\ Value(d) = v[n]
  BY ValueIs, Zenon
<1>4. PICK w : ValueTurns(w, e) /\ Value(e) = w[Len(e)]
  BY <1>2, ValueIs, Zenon
<1>5. n <= Len(e) /\ n <= n /\ (n + 1) - 1 = n /\ n + 1 \in 1..Len(e)
  BY <1>1, <1>2
<1>6. v[n] = w[n]
  <2>1. \A k \in 1..n : d[k] = e[k]
    BY <1>2
  <2> QED
    <3>1. ValueTurns(v, d) /\ ValueTurns(w, e) /\ e \in Str /\ n \in Nat /\ n <= Len(d) /\ n <= Len(e)
      BY <1>1, <1>2, <1>3, <1>4, <1>5, Zenon
    <3> QED
      BY <2>1, <3>1, ValuesAgree
<1>7. w[n + 1] = w[n] * 10 + (e[n + 1] - Zero)
  BY <1>4, <1>5, Zenon DEF ValueTurns
<1> QED
  BY <1>2, <1>3, <1>4, <1>6, <1>7, Zenon DEF e

\* A number's digits: at least one, digits only, and they denote it.
Numerals(v) == {d \in Str : /\ d # <<>> /\ \A k \in 1..Len(d) : isdigit(d[k])
                            /\ Value(d) = v}

\* The digits that num_to_base gives for every number up to a value.
DecimalTurns(digits, value) ==
  \A v \in 0..value :
    digits[v] = IF v < 10 THEN <<DigitChar(v)>>
                ELSE Append(digits[v \div 10], DigitChar(v % 10))

\* NumToBase gives these digits.
LEMMA NumToBaseIs ==
  ASSUME NEW value \in Nat
  PROVE  \E digits : DecimalTurns(digits, value) /\ NumToBase(value, 10) = digits[value]
<1> DEFINE First(v) == <<DigitChar(v)>>
           More(v, s) == Append(s, DigitChar(v % 10))
           Upto(g, m) == g = [v \in 0..m |-> IF v < 10 THEN First(v) ELSE More(v, g[v \div 10])]
           Good == {m \in 0..value : \E g : Upto(g, m)}
           digits == CHOOSE g : Upto(g, value)
<1>1. NumToBase(value, 10) = digits[value]
  BY Zenon DEF NumToBase
<1> HIDE DEF First, More
<1>2. 0 \in Good
  <2> DEFINE g == [v \in 0..0 |-> First(0)]
  <2>1. \A v \in 0..0 : v = 0 /\ v < 10
    OBVIOUS
  <2>2. Upto(g, 0)
    BY <2>1, Zenon
  <2> HIDE DEF Upto, g
  <2> QED
    BY <2>2
<1>3. ASSUME NEW m \in 1..value, m - 1 \in Good
      PROVE  m \in Good
  <2>1. PICK g : Upto(g, m - 1)
    BY <1>3, Zenon
  <2> DEFINE h == [v \in 0..m |-> IF v = m
                                  THEN IF m < 10 THEN First(m) ELSE More(m, g[m \div 10])
                                  ELSE g[v]]
  <2>2. m \in 0..value /\ \A v \in 0..m : v # m => v \in 0..(m - 1)
    OBVIOUS
  <2>3. \A v \in 0..m : ~(v < 10) => v \div 10 \in 0..m /\ v \div 10 # m
    OBVIOUS
  <2>4. \A v \in 0..(m - 1) : g[v] = IF v < 10 THEN First(v) ELSE More(v, g[v \div 10])
    BY <2>1, Zenon
  <2>5. \A v \in 0..m : h[v] = IF v = m
                               THEN IF m < 10 THEN First(m) ELSE More(m, g[m \div 10])
                               ELSE g[v]
    BY Zenon
  <2>6. h = [v \in 0..m |-> h[v]]
    BY <2>5, Zenon
  <2> HIDE DEF h
  <2>7. \A v \in 0..m : ~(v < 10) => h[v \div 10] = g[v \div 10]
    BY <2>3, <2>5, Zenon
  <2>8. \A v \in 0..m : h[v] = IF v < 10 THEN First(v) ELSE More(v, h[v \div 10])
    <3>1. ASSUME NEW v \in 0..m
          PROVE  h[v] = IF v < 10 THEN First(v) ELSE More(v, h[v \div 10])
      <4>1. CASE v = m
        BY <2>5, <2>7, <4>1, Zenon
      <4>2. CASE v # m
        <5>1. h[v] = g[v] /\ v \in 0..(m - 1)
          BY <2>2, <2>5, <4>2, Zenon
        <5> QED
          BY <2>4, <2>7, <5>1, Zenon
      <4> QED
        BY <4>1, <4>2, Zenon
    <3> QED
      BY <3>1, Zenon
  <2>9. Upto(h, m)
    BY <2>6, <2>8, Zenon
  <2> HIDE DEF Upto
  <2> QED
    BY <2>2, <2>9, Zenon
<1>4. \E g : Upto(g, value)
  <2> HIDE DEF Good
  <2>1. \A m \in 0..value : m \in Good
    BY <1>2, <1>3, AllTurns
  <2>2. value \in 0..value
    OBVIOUS
  <2> QED
    BY <2>1, <2>2, Zenon DEF Good
<1>5. Upto(digits, value)
  BY <1>4, Zenon
<1> HIDE DEF digits
<1>6. \A v \in 0..value : digits[v] = IF v < 10 THEN First(v) ELSE More(v, digits[v \div 10])
  BY <1>5, Zenon
<1>7. DecimalTurns(digits, value)
  BY <1>6, Zenon DEF DecimalTurns, First, More
<1> QED
  BY <1>1, <1>7, Zenon

\* The digits of a number denote it.
LEMMA DecimalIs ==
  ASSUME NEW value \in Nat
  PROVE  NumToBase(value, 10) \in Numerals(value)
<1>1. PICK digits : DecimalTurns(digits, value) /\ NumToBase(value, 10) = digits[value]
  BY NumToBaseIs, Zenon
<1> DEFINE Bad == {v \in 0..value : digits[v] \notin Numerals(v)}
<1>2. SUFFICES ASSUME Bad # {}
               PROVE  FALSE
  <2>1. value \in 0..value
    OBVIOUS
  <2> QED
    BY <1>1, <2>1, Zenon
<1>3. PICK v \in Bad : \A u \in Bad : v <= u
  <2>1. Bad \subseteq Nat
    OBVIOUS
  <2> HIDE DEF Bad
  <2> QED
    BY <1>2, <2>1, LeastExists
<1>4. v \in 0..value /\ digits[v] \notin Numerals(v) /\ v \in Nat
  OBVIOUS
<1>5. digits[v] = IF v < 10 THEN <<DigitChar(v)>>
                  ELSE Append(digits[v \div 10], DigitChar(v % 10))
  BY <1>1, <1>4, Zenon DEF DecimalTurns
<1>6. \A r \in 0..9 : /\ DigitChar(r) \in Nat /\ DigitChar(r) - Zero = r
                      /\ isdigit(DigitChar(r))
  BY DEF DigitChar, Zero, isdigit
<1>7. CASE v < 10
  <2> DEFINE c == DigitChar(v)
             d == <<c>>
  <2>1. v \in 0..9
    BY <1>4, <1>7
  <2>2. c \in Nat /\ c - Zero = v /\ isdigit(c)
    BY <1>6, <2>1, Zenon
  <2>3. digits[v] = d
    BY <1>5, <1>7, Zenon
  <2> HIDE DEF c
  <2>4. d = Append(<<>>, c) /\ <<>> \in Str /\ d \in Str /\ d # <<>> /\ Len(d) = 1 /\ d[1] = c
    BY <2>2 DEF Str
  <2>5. Value(<<>>) = 0
    <3>1. PICK w : ValueTurns(w, <<>>) /\ Value(<<>>) = w[Len(<<>>)]
      BY <2>4, ValueIs, Zenon
    <3>2. Len(<<>>) = 0
      OBVIOUS
    <3> QED
      BY <3>1, <3>2, Zenon DEF ValueTurns
  <2>6. Value(d) = v
    <3>1. Value(d) = Value(<<>>) * 10 + (c - Zero)
      BY <2>2, <2>4, ValueOfAppended, Zenon
    <3>2. Value(d) = 0 * 10 + v
      BY <2>2, <2>5, <3>1, Zenon
    <3> QED
      BY <2>1, <3>2
  <2>7. \A k \in 1..Len(d) : isdigit(d[k])
    <3>1. \A k \in 1..Len(d) : k = 1
      BY <2>4
    <3> QED
      BY <2>2, <2>4, <3>1, Zenon
  <2> HIDE DEF d
  <2>8. d \in Numerals(v)
    BY <2>4, <2>6, <2>7, Zenon DEF Numerals
  <2> QED
    BY <1>4, <2>3, <2>8, Zenon
<1>8. CASE ~(v < 10)
  <2> DEFINE q == v \div 10
             r == v % 10
             c == DigitChar(r)
             p == digits[q]
             d == Append(p, c)
  <2>1. q \in 0..value /\ q < v /\ r \in 0..9 /\ v = q * 10 + r
    BY <1>4, <1>8
  <2>2. digits[v] = d
    BY <1>5, <1>8, Zenon
  <2>3. c \in Nat /\ c - Zero = r /\ isdigit(c)
    BY <1>6, <2>1, Zenon
  <2> HIDE DEF q, r, c
  <2>4. p \in Numerals(q)
    <3>1. ~(v <= q)
      BY <1>4, <2>1
    <3> QED
      BY <1>3, <2>1, <3>1, Zenon
  <2>5. p \in Str /\ p # <<>> /\ (\A k \in 1..Len(p) : isdigit(p[k])) /\ Value(p) = q
    BY <2>4, Zenon DEF Numerals
  <2> HIDE DEF p
  <2>6. /\ d \in Str /\ Len(d) = Len(p) + 1 /\ d[Len(p) + 1] = c /\ Len(p) \in Nat
        /\ \A k \in 1..Len(p) : d[k] = p[k]
    BY <2>3, <2>5, AppendProperties DEF Str
  <2>7. Value(d) = v
    <3>1. Value(d) = q * 10 + r
      BY <2>3, <2>5, ValueOfAppended, Zenon
    <3> QED
      BY <2>1, <3>1, Zenon
  <2> HIDE DEF d
  <2>8. d # <<>>
    <3>1. Len(d) # 0 /\ Len(<<>>) = 0
      BY <2>6
    <3> QED
      BY <3>1, Zenon
  <2>9. \A k \in 1..Len(d) : isdigit(d[k])
    <3>1. \A k \in 1..Len(d) : k \in 1..Len(p) \/ k = Len(p) + 1
      BY <2>6
    <3> QED
      BY <2>3, <2>5, <2>6, <3>1, Zenon
  <2>10. d \in Numerals(v)
    BY <2>6, <2>7, <2>8, <2>9, Zenon DEF Numerals
  <2> QED
    BY <1>4, <2>2, <2>10, Zenon
<1> QED
  BY <1>7, <1>8


\* A string and its first character.
LEMMA TailOf ==
  ASSUME NEW c \in Nat, NEW s \in Str
  PROVE  /\ <<c>> \in Str /\ <<c>> \o s \in Str /\ <<c>> \o s # <<>> /\ (<<c>> \o s)[1] = c
         /\ Tail(<<c>> \o s) = s /\ Len(<<c>> \o s) = Len(s) + 1
<1> DEFINE one == <<c>>
           w == one \o s
<1>1. one \in Str /\ Len(one) = 1 /\ one[1] = c
  BY DEF Str
<1> HIDE DEF one
<1>2. w \in Str /\ Len(w) = Len(one) + Len(s) /\ From(w, Len(one)) = s
  BY <1>1, FromConcat, Zenon
<1>3. Len(s) \in Nat
  BY DEF Str
<1>4. w[1] = c
  <2>1. \A i \in 1..(Len(one) + Len(s)) :
          w[i] = IF i <= Len(one) THEN one[i] ELSE s[i - Len(one)]
    BY <1>1, ConcatProperties DEF Str
  <2>2. 1 \in 1..(Len(one) + Len(s)) /\ 1 <= Len(one)
    BY <1>1, <1>3
  <2> QED
    BY <1>1, <2>1, <2>2, Zenon
<1> HIDE DEF w
<1>5. Len(w) = Len(s) + 1 /\ Len(w) # 0 /\ 1 + 1 = 2
  BY <1>1, <1>2, <1>3
<1>6. w # <<>>
  <2>1. Len(<<>>) = 0
    OBVIOUS
  <2> QED
    BY <1>5, <2>1, Zenon
<1>7. Tail(w) = SubSeq(w, 2, Len(w))
  BY <1>2, <1>6, TailIsSubSeq DEF Str
<1>8. Tail(w) = s
  BY <1>1, <1>2, <1>5, <1>7, Zenon DEF From
<1> QED
  BY <1>1, <1>2, <1>4, <1>5, <1>6, <1>8, Zenon DEF w, one

\* The number that print_dec's digits denote.
LEMMA PrintDecIs ==
  ASSUME NEW n \in Ints
  PROVE  \E d : /\ d \in Numerals(IF n < 0 THEN -n ELSE n)
                /\ PrintDec(n) = IF n < 0 THEN <<Minus>> \o d ELSE d
<1> DEFINE X == INT_MAX
           U == UINTS
<1>1. X \in Nat \ {0} /\ U = X + X + 2 /\ n \in -(X + 1)..X
  BY AsUnsignedIs DEF Ints
<1>2. /\ \A k \in 0..(U - 1) : AsUnsigned(k) = k
      /\ \A k \in 0..(U - 1) : AsUnsigned(k - U) = k
  BY AsUnsignedIs, Zenon
<1>3. (\A k \in Ints : AsInt(k) = k) /\ AsInt(X + 1) = -(X + 1) /\ Ints = -(X + 1)..X
  BY AsIntIs DEF Ints
<1> HIDE DEF X, U
<1>4. CASE n < 0
  <2>1. AsUnsigned(AsInt(-n)) = -n
    <3>1. CASE -n <= X
      <4>1. -n \in -(X + 1)..X /\ -n \in 0..(U - 1)
        BY <1>1, <1>4, <3>1
      <4> QED
        BY <1>2, <1>3, <4>1, Zenon
    <3>2. CASE ~(-n <= X)
      <4>1. -n = X + 1 /\ X + 1 \in 0..(U - 1) /\ (X + 1) - U = -(X + 1)
        BY <1>1, <1>4, <3>2
      <4>2. AsUnsigned((X + 1) - U) = X + 1
        BY <1>2, <4>1, Zenon
      <4> QED
        BY <1>3, <4>1, <4>2, Zenon
    <3> QED
      BY <3>1, <3>2
  <2>2. -n \in Nat
    BY <1>1, <1>4
  <2>3. NumToBase(-n, 10) \in Numerals(-n)
    BY <2>2, DecimalIs, Zenon
  <2>4. PrintDec(n) = <<Minus>> \o NumToBase(-n, 10)
    BY <1>4, <2>1, Zenon DEF PrintDec
  <2> QED
    BY <1>4, <2>3, <2>4, Zenon
<1>5. CASE ~(n < 0)
  <2>1. n \in 0..(U - 1) /\ n \in Nat
    BY <1>1, <1>5
  <2>2. AsUnsigned(n) = n /\ NumToBase(n, 10) \in Numerals(n)
    BY <1>2, <2>1, DecimalIs, Zenon
  <2>3. PrintDec(n) = NumToBase(n, 10)
    BY <1>5, <2>2, Zenon DEF PrintDec
  <2> QED
    BY <1>5, <2>2, <2>3, Zenon
<1> QED
  BY <1>4, <1>5

\* What the first digits denote does not depend on the digits behind them.
LEMMA ValueOfPrefix ==
  ASSUME NEW d \in Str, NEW b \in Str, Len(d) <= Len(b), \A k \in 1..Len(d) : b[k] = d[k],
         NEW own, ValueTurns(own, d), NEW value, ValueTurns(value, b)
  PROVE  value[Len(d)] = own[Len(d)]
<1>1. Len(d) \in Nat /\ Len(d) <= Len(d)
  BY DEF Str
<1> QED
  BY <1>1, ValuesAgree

\* read_dec reads a numeral and stops behind it.
LEMMA NumeralRead ==
  ASSUME NEW v \in Nat, v <= INT_MAX + 1, NEW d \in Numerals(v), NEW rest \in Str,
         rest = <<>> \/ ~isdigit(rest[1]),
         NEW buffer \in Str, buffer # <<>>, Digits(buffer) = d \o rest
  PROVE  /\ ReadDec(buffer).read = IF buffer[1] = Minus THEN Len(d) + 1 ELSE Len(d)
         /\ ReadDec(buffer).val = IF buffer[1] = Minus THEN AsInt(-AsInt(v)) ELSE AsInt(v)
<1> DEFINE b == Digits(buffer)
           m == Len(d)
<1>1. d \in Str /\ (\A k \in 1..m : isdigit(d[k])) /\ Value(d) = v
  BY Zenon DEF Numerals
<1>2. b = d \o rest /\ b \in Str /\ Len(b) = m + Len(rest) /\ From(b, m) = rest
  BY <1>1, FromConcat, Zenon
<1>3. m \in Nat /\ Len(rest) \in Nat
  BY <1>1 DEF Str
<1>4. \A i \in 1..(m + Len(rest)) : b[i] = IF i <= m THEN d[i] ELSE rest[i - m]
  BY <1>1, <1>2, ConcatProperties DEF Str
<1>5. PICK number, digits :
        /\ NumberTurns(number, b) /\ digits \in 0..Len(b)
        /\ StopsAt(number, b, digits)
        /\ \A k \in 0..(digits - 1) : ~StopsAt(number, b, k)
        /\ ReadDec(buffer) = IF buffer[1] = Minus
                             THEN [val |-> AsInt(-number[digits]), read |-> digits + 1]
                             ELSE [val |-> number[digits], read |-> digits]
  BY ReadDecIs, Zenon
<1> HIDE DEF b
<1>6. PICK value : ValueTurns(value, b)
  BY <1>2, ValueIs, Zenon
<1>7. PICK own : ValueTurns(own, d) /\ Value(d) = own[m]
  BY <1>1, ValueIs, Zenon
<1> HIDE DEF m
<1>8. \A k \in 1..m : b[k] = d[k] /\ isdigit(b[k])
  <2>1. \A k \in 1..m : k \in 1..(m + Len(rest)) /\ k <= m
    BY <1>3
  <2> QED
    BY <1>1, <1>4, <2>1, Zenon
<1>9. value[m] = v
  <2>1. value[m] = own[m]
    <3>1. Len(d) <= Len(b) /\ \A k \in 1..Len(d) : b[k] = d[k]
      BY <1>2, <1>3, <1>8 DEF m
    <3>2. b \in Str /\ d \in Str /\ ValueTurns(value, b) /\ ValueTurns(own, d)
      BY <1>1, <1>2, <1>6, <1>7, Zenon
    <3>3. value[Len(d)] = own[Len(d)]
      BY <3>1, <3>2, ValueOfPrefix
    <3> QED
      BY <3>3, Zenon DEF m
  <2> QED
    BY <1>1, <1>7, <2>1, Zenon
<1>10. m < Len(b) => ~isdigit(b[m + 1])
  <2>1. SUFFICES ASSUME m < Len(b)
                 PROVE  ~isdigit(b[m + 1])
    OBVIOUS
  <2>2. m + 1 \in 1..(m + Len(rest)) /\ ~(m + 1 <= m) /\ (m + 1) - m = 1 /\ Len(rest) # 0
    BY <1>2, <1>3, <2>1
  <2>3. b[m + 1] = rest[1]
    BY <1>4, <2>2, Zenon
  <2>4. rest # <<>>
    <3>1. Len(<<>>) = 0
      OBVIOUS
    <3> QED
      BY <2>2, <3>1, Zenon
  <2> QED
    BY <2>3, <2>4, Zenon
<1>11. digits = m /\ number[m] = AsInt(v)
  <2>1. m \in 0..Len(b)
    BY <1>2, <1>3
  <2>2. \A k \in 1..m : isdigit(b[k])
    BY <1>8, Zenon
  <2>3. value[m] <= INT_MAX + 1
    BY <1>9, Zenon
  <2>4. digits = m /\ number[m] = AsInt(value[m])
    <3>1. /\ b \in Str /\ ValueTurns(value, b) /\ NumberTurns(number, b)
          /\ digits \in 0..Len(b) /\ StopsAt(number, b, digits)
          /\ \A k \in 0..(digits - 1) : ~StopsAt(number, b, k)
      BY <1>2, <1>5, <1>6, Zenon
    <3> QED
      BY <1>10, <2>1, <2>2, <2>3, <3>1, AllDigitsRead
  <2> QED
    BY <1>9, <2>4, Zenon
<1>12. CASE buffer[1] = Minus
  <2> DEFINE x == AsInt(-AsInt(v))
             y == m + 1
             rec == [val |-> x, read |-> y]
  <2>1. ReadDec(buffer) = rec
    BY <1>5, <1>11, <1>12, Zenon
  <2> HIDE DEF x, y
  <2>2. rec.val = x /\ rec.read = y
    BY Zenon
  <2> HIDE DEF rec
  <2> QED
    BY <1>12, <2>1, <2>2, Zenon DEF x, y, m
<1>13. CASE buffer[1] # Minus
  <2> DEFINE x == AsInt(v)
             rec == [val |-> x, read |-> m]
  <2>1. ReadDec(buffer) = rec
    BY <1>5, <1>11, <1>13, Zenon
  <2> HIDE DEF x
  <2>2. rec.val = x /\ rec.read = m
    BY Zenon
  <2> HIDE DEF rec
  <2> QED
    BY <1>13, <2>1, <2>2, Zenon DEF x, m
<1> QED
  BY <1>12, <1>13

\* read_dec reads back what print_dec printed, the least number too.
LEMMA DecReadBack ==
  ASSUME NEW n \in Ints, NEW rest \in Str, rest = <<>> \/ ~isdigit(rest[1])
  PROVE  /\ PrintDec(n) \in Str /\ PrintDec(n) # <<>> /\ ~isspace(PrintDec(n)[1])
         /\ ReadDec(PrintDec(n) \o rest).read = Len(PrintDec(n))
         /\ ReadDec(PrintDec(n) \o rest).val = n
<1> DEFINE X == INT_MAX
           v == IF n < 0 THEN -n ELSE n
           p == PrintDec(n)
<1>1. X \in Nat \ {0} /\ n \in -(X + 1)..X
  BY AsUnsignedIs DEF Ints
<1>2. (\A k \in Ints : AsInt(k) = k) /\ AsInt(X + 1) = -(X + 1) /\ Ints = -(X + 1)..X
  BY AsIntIs DEF Ints
<1> HIDE DEF X
<1>3. v \in Nat /\ v <= X + 1 /\ n \in Int
  BY <1>1
<1>4. PICK d : d \in Numerals(v) /\ p = IF n < 0 THEN <<Minus>> \o d ELSE d
  BY PrintDecIs, Zenon
<1> HIDE DEF v, p
<1>5. /\ d \in Str /\ d # <<>> /\ (\A k \in 1..Len(d) : isdigit(d[k])) /\ Value(d) = v
      /\ Len(d) \in Nat \ {0} /\ 1 \in 1..Len(d)
  <2>1. d \in Str /\ d # <<>> /\ (\A k \in 1..Len(d) : isdigit(d[k])) /\ Value(d) = v
    BY <1>4, Zenon DEF Numerals
  <2>2. Len(d) \in Nat \ {0}
    BY <2>1, EmptySeq DEF Str
  <2> QED
    BY <2>1, <2>2
<1>6. Minus \in Nat /\ ~isspace(Minus) /\ \A c : isdigit(c) => c # Minus /\ ~isspace(c)
  BY DEF Minus, isspace, isdigit, Spaces, Space, Zero
<1>7. isdigit(d[1])
  BY <1>5, Zenon
<1>8. d \o rest \in Str /\ Len(d \o rest) = Len(d) + Len(rest)
  BY <1>5, FromConcat, Zenon
<1>9. v <= INT_MAX + 1
  BY <1>3, Zenon DEF X
<1>10. CASE n < 0
  <2> DEFINE s == d \o rest
             w == <<Minus>> \o s
  <2>1. p = <<Minus>> \o d /\ v = -n
    BY <1>4, <1>10, Zenon DEF v
  <2>2. p \in Str /\ p # <<>> /\ p[1] = Minus /\ Len(p) = Len(d) + 1 /\ <<Minus>> \in Str
    BY <1>5, <1>6, <2>1, TailOf, Zenon
  <2>3. p \o rest = w
    BY <1>5, <2>1, <2>2, ConcatIsAssociative, Zenon
  <2> HIDE DEF s
  <2>4. w \in Str /\ w # <<>> /\ w[1] = Minus /\ Tail(w) = s
    BY <1>6, <1>8, TailOf, Zenon DEF s
  <2> HIDE DEF w
  <2>5. Digits(w) = s
    BY <2>4, DigitsAre, Zenon
  <2>6. ReadDec(w).read = Len(d) + 1 /\ ReadDec(w).val = AsInt(-AsInt(v))
    BY <1>3, <1>4, <1>9, <2>4, <2>5, NumeralRead, Zenon DEF s
  <2>7. AsInt(-AsInt(v)) = n
    <3>1. CASE v <= X
      <4>1. v \in -(X + 1)..X /\ -v = n
        BY <1>1, <1>3, <1>10, <2>1, <3>1
      <4> QED
        BY <1>1, <1>2, <4>1, Zenon
    <3>2. CASE ~(v <= X)
      <4>1. v = X + 1 /\ -(-(X + 1)) = X + 1 /\ -(X + 1) = n
        BY <1>1, <1>3, <1>10, <2>1, <3>2
      <4> QED
        BY <1>2, <4>1, Zenon
    <3> QED
      BY <3>1, <3>2
  <2> QED
    BY <1>6, <2>2, <2>3, <2>6, <2>7, Zenon DEF p
<1>11. CASE ~(n < 0)
  <2>1. p = d /\ v = n
    BY <1>4, <1>11, Zenon DEF v
  <2> DEFINE w == d \o rest
  <2>2. w \in Str /\ w[1] = d[1] /\ w # <<>>
    <3>1. \A i \in 1..(Len(d) + Len(rest)) : w[i] = IF i <= Len(d) THEN d[i] ELSE rest[i - Len(d)]
      BY <1>5, ConcatProperties DEF Str
    <3>2. 1 \in 1..(Len(d) + Len(rest)) /\ 1 <= Len(d) /\ Len(d) + Len(rest) # 0
      BY <1>5 DEF Str
    <3> HIDE DEF w
    <3>3. Len(<<>>) = 0
      OBVIOUS
    <3> QED
      BY <1>8, <3>1, <3>2, <3>3, Zenon DEF w
  <2> HIDE DEF w
  <2>3. w[1] # Minus
    BY <1>6, <1>7, <2>2, Zenon
  <2>4. Digits(w) = d \o rest
    BY <2>2, <2>3, DigitsAre, Zenon DEF w
  <2>5. ReadDec(w).read = Len(d) /\ ReadDec(w).val = AsInt(v)
    BY <1>3, <1>4, <1>9, <2>2, <2>3, <2>4, NumeralRead, Zenon
  <2>6. AsInt(v) = n
    BY <1>1, <1>2, <2>1, Zenon
  <2> QED
    BY <1>5, <1>6, <1>7, <2>1, <2>5, <2>6, Zenon DEF p, w
<1> QED
  BY <1>10, <1>11


(***************************************************************************)
(* What scanf takes from its buffer.                                        *)
(***************************************************************************)
LEMMA FromFrom ==
  ASSUME NEW s \in Str, NEW i \in Nat, NEW j \in Nat
  PROVE  From(From(s, i), j) = From(s, i + j)
<1> DEFINE n == Len(s)
           t == From(s, i)
           u == From(t, j)
           w == From(s, i + j)
<1>1. n \in Nat /\ i + j \in Nat
  BY DEF Str
<1>2. /\ t \in Str /\ Len(t) = IF i <= n THEN n - i ELSE 0
      /\ \A k \in 1..(n - i) : t[k] = s[i + k]
  BY FromIs, Zenon
<1> HIDE DEF t
<1>3. /\ u \in Str /\ Len(u) = IF j <= Len(t) THEN Len(t) - j ELSE 0
      /\ \A k \in 1..(Len(t) - j) : u[k] = t[j + k]
  BY <1>2, FromIs, Zenon
<1>4. /\ w \in Str /\ Len(w) = IF i + j <= n THEN n - (i + j) ELSE 0
      /\ \A k \in 1..(n - (i + j)) : w[k] = s[(i + j) + k]
  BY <1>1, FromIs, Zenon
<1> HIDE DEF n, u, w
<1>5. Len(u) = Len(w)
  BY <1>1, <1>2, <1>3, <1>4
<1>6. ASSUME NEW k \in 1..Len(u)
      PROVE  u[k] = w[k]
  <2>1. /\ k \in 1..(Len(t) - j) /\ j + k \in 1..(n - i) /\ k \in 1..(n - (i + j))
        /\ i + (j + k) = (i + j) + k
    BY <1>1, <1>2, <1>3, <1>5
  <2>2. u[k] = t[j + k] /\ t[j + k] = s[i + (j + k)] /\ w[k] = s[(i + j) + k]
    BY <1>2, <1>3, <1>4, <2>1, Zenon
  <2> QED
    BY <2>1, <2>2, Zenon
<1>7. u = w
  BY <1>3, <1>4, <1>5, <1>6, SeqEqual DEF Str
<1> QED
  BY <1>7, Zenon DEF u, w, t

\* A place of the rest of a string is a place of the string.
LEMMA AtFrom ==
  ASSUME NEW s \in Str, NEW i \in Nat, NEW j \in Nat
  PROVE  At(From(s, i), j) = At(s, i + j)
<1> DEFINE n == Len(s)
           t == From(s, i)
<1>1. n \in Nat /\ i + j \in Nat
  BY DEF Str
<1>2. /\ t \in Str /\ Len(t) = IF i <= n THEN n - i ELSE 0
      /\ \A k \in 1..(n - i) : t[k] = s[i + k]
  BY FromIs, Zenon
<1> HIDE DEF t
<1>3. CASE i + j < n
  <2>1. j < Len(t) /\ j + 1 \in 1..(n - i) /\ i + (j + 1) = (i + j) + 1
    BY <1>1, <1>2, <1>3
  <2>2. At(t, j) = t[j + 1] /\ At(s, i + j) = s[(i + j) + 1]
    BY <1>1, <1>2, <1>3, <2>1, AtIs, Zenon
  <2> QED
    BY <1>2, <2>1, <2>2, Zenon DEF t
<1>4. CASE ~(i + j < n)
  <2>1. j >= Len(t) /\ i + j >= n
    BY <1>1, <1>2, <1>4
  <2>2. At(t, j) = 0 /\ At(s, i + j) = 0
    BY <1>1, <1>2, <2>1, AtIs, Zenon
  <2> QED
    BY <2>2, Zenon DEF t
<1> QED
  BY <1>3, <1>4

\* The rest of a string is a character and the rest behind it.
LEMMA FromIsNext ==
  ASSUME NEW s \in Str, NEW i \in 1..Len(s)
  PROVE  From(s, i - 1) = <<s[i]>> \o From(s, i) /\ s[i] \in Nat
<1> DEFINE n == Len(s)
           t == From(s, i - 1)
           u == From(s, i)
           w == <<s[i]>> \o u
<1>1. n \in Nat /\ i \in Nat /\ i - 1 \in Nat /\ s[i] \in Nat
  BY DEF Str
<1>2. /\ t \in Str /\ Len(t) = IF i - 1 <= n THEN n - (i - 1) ELSE 0
      /\ \A k \in 1..(n - (i - 1)) : t[k] = s[(i - 1) + k]
  BY <1>1, FromIs, Zenon
<1>3. /\ u \in Str /\ Len(u) = IF i <= n THEN n - i ELSE 0
      /\ \A k \in 1..(n - i) : u[k] = s[i + k]
  BY <1>1, FromIs, Zenon
<1> DEFINE c == s[i]
           one == <<c>>
<1>4. one \in Str /\ Len(one) = 1 /\ one[1] = c
  <2> HIDE DEF c
  <2>1. c \in Nat
    BY <1>1 DEF c
  <2> QED
    BY <2>1 DEF Str
<1> HIDE DEF t, u, one
<1>5. w = one \o u
  BY Zenon DEF one
<1> HIDE DEF w
<1>6. /\ w \in Str /\ Len(w) = Len(one) + Len(u)
      /\ \A k \in 1..(Len(one) + Len(u)) : w[k] = IF k <= Len(one) THEN one[k] ELSE u[k - Len(one)]
  BY <1>3, <1>4, <1>5, ConcatProperties DEF Str
<1>7. Len(t) = Len(w) /\ Len(t) = n - (i - 1) /\ Len(u) = n - i
  BY <1>1, <1>2, <1>3, <1>4, <1>6
<1>8. ASSUME NEW k \in 1..Len(t)
      PROVE  t[k] = w[k]
  <2>1. t[k] = s[(i - 1) + k]
    BY <1>2, <1>7
  <2>2. CASE k = 1
    <3>1. (i - 1) + k = i /\ k \in 1..(Len(one) + Len(u)) /\ k <= Len(one)
      BY <1>1, <1>4, <1>6, <1>7, <2>2
    <3> QED
      BY <1>4, <1>6, <2>1, <2>2, <3>1, Zenon
  <2>3. CASE k # 1
    <3>1. /\ k \in 1..(Len(one) + Len(u)) /\ ~(k <= Len(one)) /\ k - Len(one) \in 1..(n - i)
          /\ i + (k - Len(one)) = (i - 1) + k
      BY <1>1, <1>4, <1>6, <1>7, <2>3
    <3>2. w[k] = u[k - Len(one)] /\ u[k - Len(one)] = s[i + (k - Len(one))]
      BY <1>3, <1>6, <3>1, Zenon
    <3> QED
      BY <2>1, <3>1, <3>2, Zenon
  <2> QED
    BY <2>2, <2>3
<1>9. t = w
  BY <1>2, <1>6, <1>7, <1>8, SeqEqual DEF Str
<1> QED
  BY <1>1, <1>9, Zenon DEF t, w, u

\* A space in front makes no difference to scanf.
LEMMA SkipOne ==
  ASSUME NEW c \in Nat, isspace(c), NEW s \in Str
  PROVE  SkipSpaces(<<c>> \o s) = SkipSpaces(s)
<1> DEFINE t == <<c>> \o s
           n == Len(s)
           v == NextWord(s, 0)
           w == NextWord(t, 0)
<1>1. n \in Nat /\ 0 \in 0..(n + 1)
  BY DEF Str
<1>2. t \in Str /\ Len(t) = n + 1 /\ Tail(t) = s /\ t[1] = c /\ t # <<>>
  BY TailOf, Zenon
<1> HIDE DEF t
<1>3. From(t, 1) = s
  <2>1. Tail(t) = SubSeq(t, 2, Len(t))
    BY <1>2, TailIsSubSeq DEF Str
  <2>2. 1 + 1 = 2
    OBVIOUS
  <2> QED
    BY <1>2, <2>1, <2>2, Zenon DEF From
<1>4. \A k \in 1..n : t[k + 1] = s[k]
  <2>1. \A k \in 1..Len(Tail(t)) : Tail(t)[k] = t[k + 1]
    BY <1>2, HeadTailProperties DEF Str
  <2> QED
    BY <1>2, <2>1, Zenon
<1>5. /\ v \in 0..(n + 1) /\ (v < n => ~isspace(s[v + 1]))
      /\ \A i \in (0 + 1)..v : i \in 1..n /\ isspace(s[i])
  BY <1>1, NextWordIs, Zenon
<1>6. /\ w \in 0..((n + 1) + 1) /\ (w < n + 1 => ~isspace(t[w + 1]))
      /\ \A i \in (0 + 1)..w : i \in 1..(n + 1) /\ isspace(t[i])
  <2>1. 0 \in 0..(Len(t) + 1)
    BY <1>1, <1>2
  <2>2. /\ w \in 0..(Len(t) + 1) /\ (w < Len(t) => ~isspace(t[w + 1]))
        /\ \A i \in (0 + 1)..w : i \in 1..Len(t) /\ isspace(t[i])
    BY <1>2, <2>1, NextWordIs, Zenon
  <2> QED
    BY <1>2, <2>2, Zenon
<1> HIDE DEF n, v, w
<1>7. v \in 0..n /\ w \in 1..(n + 1)
  <2>1. v # n + 1
    <3>1. v = n + 1 => n + 1 \in (0 + 1)..v /\ n + 1 \notin 1..n
      BY <1>1
    <3> QED
      BY <1>5, <3>1, Zenon
  <2>2. w # n + 2
    <3>1. w = n + 2 => n + 2 \in (0 + 1)..w /\ n + 2 \notin 1..(n + 1)
      BY <1>1
    <3> QED
      BY <1>6, <3>1, Zenon
  <2>3. w # 0
    <3>1. w = 0 => w < n + 1 /\ w + 1 = 1
      BY <1>1
    <3> QED
      BY <1>2, <1>6, <3>1, Zenon
  <2> QED
    BY <1>1, <1>5, <1>6, <2>1, <2>2, <2>3
<1>8. w = v + 1
  <2>1. ~(w < v + 1)
    <3>1. SUFFICES ASSUME w < v + 1
                   PROVE  FALSE
      OBVIOUS
    <3>2. w < n + 1 /\ w \in (0 + 1)..v /\ w \in 1..n
      BY <1>1, <1>7, <3>1
    <3>3. ~isspace(t[w + 1]) /\ t[w + 1] = s[w] /\ isspace(s[w])
      BY <1>4, <1>5, <1>6, <3>2, Zenon
    <3> QED
      BY <3>3, Zenon
  <2>2. ~(v + 1 < w)
    <3>1. SUFFICES ASSUME v + 1 < w
                   PROVE  FALSE
      OBVIOUS
    <3>2. (v + 1) + 1 \in (0 + 1)..w /\ v < n /\ v + 1 \in 1..n
      BY <1>1, <1>7, <3>1
    <3>3. ~isspace(s[v + 1]) /\ t[(v + 1) + 1] = s[v + 1] /\ isspace(t[(v + 1) + 1])
      BY <1>4, <1>5, <1>6, <3>2, Zenon
    <3> QED
      BY <3>3, Zenon
  <2> QED
    BY <1>1, <1>7, <2>1, <2>2
<1>9. From(t, w) = From(s, v)
  <2>1. v \in Nat /\ 1 \in Nat /\ w = 1 + v
    BY <1>1, <1>7, <1>8
  <2>2. From(From(t, 1), v) = From(t, 1 + v)
    BY <1>2, <2>1, FromFrom, Zenon
  <2> QED
    BY <1>3, <2>1, <2>2, Zenon
<1> QED
  BY <1>9, Zenon DEF SkipSpaces, t, v, w

\* The first arguments and the next one are the first arguments, one more.
LEMMA OneMore ==
  ASSUME NEW S, NEW args \in Seq(S), NEW m \in Nat, m + 1 <= Len(args)
  PROVE  Append(SubSeq(args, 1, m), args[m + 1]) = SubSeq(args, 1, m + 1)
<1> DEFINE s == SubSeq(args, 1, m)
           t == SubSeq(args, 1, m + 1)
           e == args[m + 1]
           w == Append(s, e)
<1>1. Len(args) \in Nat /\ \A k \in 1..Len(args) : args[k] \in S
  OBVIOUS
<1>2. /\ s \in Seq(S) /\ Len(s) = IF 1 <= m THEN m - 1 + 1 ELSE 0
      /\ \A k \in 1..(m - 1 + 1) : s[k] = args[1 + k - 1]
  <2>1. 1 \in Int /\ m \in Int /\ \A k \in 1..m : args[k] \in S
    BY <1>1
  <2> QED
    BY <2>1, SubSeqProperties
<1>3. /\ t \in Seq(S) /\ Len(t) = IF 1 <= m + 1 THEN (m + 1) - 1 + 1 ELSE 0
      /\ \A k \in 1..((m + 1) - 1 + 1) : t[k] = args[1 + k - 1]
  <2>1. 1 \in Int /\ m + 1 \in Int /\ \A k \in 1..(m + 1) : args[k] \in S
    BY <1>1
  <2> QED
    BY <2>1, SubSeqProperties
<1>4. e \in S
  BY <1>1
<1> HIDE DEF s, t, e
<1>5. /\ w \in Seq(S) /\ Len(w) = Len(s) + 1 /\ w[Len(s) + 1] = e
      /\ \A k \in 1..Len(s) : w[k] = s[k]
  BY <1>2, <1>4, AppendProperties
<1> HIDE DEF w
<1>6. Len(s) = m /\ Len(t) = m + 1 /\ Len(w) = m + 1
  BY <1>2, <1>3, <1>5
<1>7. ASSUME NEW k \in 1..(m + 1)
      PROVE  w[k] = t[k]
  <2>1. t[k] = args[k]
    <3>1. k \in 1..((m + 1) - 1 + 1) /\ 1 + k - 1 = k
      OBVIOUS
    <3> QED
      BY <1>3, <3>1, Zenon
  <2>2. CASE k = m + 1
    BY <1>5, <1>6, <2>1, <2>2, Zenon DEF e
  <2>3. CASE k # m + 1
    <3>1. k \in 1..Len(s) /\ k \in 1..(m - 1 + 1) /\ 1 + k - 1 = k
      BY <1>6, <2>3
    <3> QED
      BY <1>2, <1>5, <2>1, <3>1, Zenon
  <2> QED
    BY <2>2, <2>3
<1>8. w = t
  BY <1>3, <1>5, <1>6, <1>7, SeqEqual
<1> QED
  BY <1>8, Zenon DEF w, s, t, e


\* What is printed for a conversion, scanf reads back: a word that ends the string or
\* stands before the format's next character, which is not in it; a number, before no
\* digit; a character.
LEMMA ReadStrBack ==
  ASSUME NEW w \in Str, NEW rest \in Str, NEW nc,
         \A k \in 1..Len(w) : ~isspace(w[k]) /\ w[k] # nc,
         rest = <<>> \/ rest[1] = nc
  PROVE  ReadStr(w \o rest, nc).val = w /\ ReadStr(w \o rest, nc).read = Len(w)
<1> DEFINE b == w \o rest
           m == Len(w)
           n == Len(rest)
<1>1. m \in Nat /\ n \in Nat
  BY DEF Str
<1>2. /\ b \in Str /\ Len(b) = m + n
      /\ \A k \in 1..(m + n) : b[k] = IF k <= m THEN w[k] ELSE rest[k - m]
  BY ConcatProperties DEF Str
<1> HIDE DEF b
<1>3. PICK r \in 0..Len(b) :
        /\ ReadStr(b, nc) = [val |-> SubSeq(b, 1, r), read |-> r]
        /\ SubSeq(b, 1, r) \in Str
        /\ r = Len(b) \/ isspace(b[r + 1]) \/ b[r + 1] = nc
        /\ \A k \in 0..(r - 1) : ~isspace(b[k + 1]) /\ b[k + 1] # nc
  BY <1>2, ReadStrIs, Zenon
<1> HIDE DEF m, n
<1>4. r \in Nat /\ r <= m + n
  BY <1>1, <1>2, <1>3
<1>5. ~(r < m)
  <2>1. SUFFICES ASSUME r < m
                 PROVE  FALSE
    OBVIOUS
  <2>2. r # Len(b) /\ r + 1 \in 1..(m + n) /\ r + 1 <= m /\ r + 1 \in 1..m
    BY <1>1, <1>2, <1>4, <2>1
  <2>3. b[r + 1] = w[r + 1] /\ ~isspace(w[r + 1]) /\ w[r + 1] # nc
    BY <1>2, <2>2, Zenon DEF m
  <2> QED
    BY <1>3, <2>2, <2>3, Zenon
<1>6. ~(m < r)
  <2>1. SUFFICES ASSUME m < r
                 PROVE  FALSE
    OBVIOUS
  <2>2. /\ m \in 0..(r - 1) /\ m + 1 \in 1..(m + n) /\ ~(m + 1 <= m) /\ (m + 1) - m = 1
        /\ n # 0
    BY <1>1, <1>4, <2>1
  <2>3. b[m + 1] = rest[1] /\ b[m + 1] # nc
    BY <1>2, <1>3, <2>2, Zenon
  <2>4. rest # <<>>
    <3>1. Len(<<>>) = 0
      OBVIOUS
    <3> QED
      BY <2>2, <3>1, Zenon DEF n
  <2> QED
    BY <2>3, <2>4, Zenon
<1>7. r = m
  BY <1>1, <1>4, <1>5, <1>6
<1>8. SubSeq(b, 1, m) = w
  <2> DEFINE s == SubSeq(b, 1, m)
  <2>1. s \in Str
    BY <1>3, <1>7, Zenon
  <2>2. Len(s) = m /\ \A k \in 1..m : s[k] = b[k]
    <3>1. 1 \in Int /\ m \in Int /\ \A k \in 1..m : b[k] \in Nat
      BY <1>1, <1>2 DEF Str
    <3>2. /\ Len(s) = IF 1 <= m THEN m - 1 + 1 ELSE 0
          /\ \A k \in 1..(m - 1 + 1) : s[k] = b[1 + k - 1]
      BY <3>1, SubSeqProperties
    <3> HIDE DEF s
    <3>3. m - 1 + 1 = m /\ (IF 1 <= m THEN m - 1 + 1 ELSE 0) = m /\ \A k \in 1..m : 1 + k - 1 = k
      BY <1>1
    <3> QED
      BY <3>2, <3>3, Zenon
  <2>3. \A k \in 1..m : s[k] = w[k]
    <3>1. \A k \in 1..m : k \in 1..(m + n) /\ k <= m
      BY <1>1
    <3> QED
      BY <1>2, <2>2, <3>1, Zenon
  <2> HIDE DEF s
  <2>4. s = w
    BY <2>1, <2>2, <2>3, SeqEqual DEF Str, m
  <2> QED
    BY <2>4, Zenon DEF s
<1>9. ReadStr(b, nc) = [val |-> w, read |-> m]
  BY <1>3, <1>7, <1>8, Zenon
<1>10. ReadStr(b, nc).val = w /\ ReadStr(b, nc).read = m
  BY <1>9
<1> QED
  BY <1>10, Zenon DEF b, m

\* A string that begins with a word begins with the word's first character.
LEMMA ConcatFirst ==
  ASSUME NEW w \in Str, w # <<>>, NEW rest \in Str
  PROVE  (w \o rest)[1] = w[1] /\ w \o rest # <<>> /\ Len(w \o rest) >= Len(w)
         /\ Len(w) \in Nat \ {0} /\ Len(w \o rest) \in Nat
<1> DEFINE b == w \o rest
<1>1. Len(w) \in Nat \ {0} /\ Len(rest) \in Nat
  BY EmptySeq DEF Str
<1>2. /\ b \in Str /\ Len(b) = Len(w) + Len(rest)
      /\ \A k \in 1..(Len(w) + Len(rest)) : b[k] = IF k <= Len(w) THEN w[k] ELSE rest[k - Len(w)]
  BY ConcatProperties DEF Str
<1> HIDE DEF b
<1>3. 1 \in 1..(Len(w) + Len(rest)) /\ 1 <= Len(w) /\ Len(b) # 0 /\ Len(b) >= Len(w) /\ Len(b) \in Nat
  BY <1>1, <1>2
<1>4. b[1] = w[1]
  BY <1>2, <1>3, Zenon
<1>5. b # <<>>
  <2>1. Len(<<>>) = 0
    OBVIOUS
  <2> QED
    BY <1>3, <2>1, Zenon
<1> QED
  BY <1>1, <1>3, <1>4, <1>5, Zenon DEF b

\* The letters are three, and not equal.
LEMMA Letters ==
  /\ PrintfFormats = {CharS, CharD, CharC} /\ ScanfFormats = PrintfFormats
  /\ CharS # CharD /\ CharS # CharC /\ CharD # CharC
BY DEF PrintfFormats, ScanfFormats, CharS, CharD, CharC

\* A conversion with its argument, a number or the word, and what follows on it: the
\* format's next character and what else was printed.
Piece(word, n, letter, arg, nc, rest) ==
  /\ word \in Seq(1..127) /\ word # <<>> /\ \A k \in 1..Len(word) : ~isspace(word[k])
  /\ n \in Ints /\ letter \in PrintfFormats /\ rest \in Str
  /\ arg = IF letter = CharD THEN n ELSE AsArg(letter, word)
  /\ letter = CharS => \A k \in 1..Len(word) : word[k] # nc
  /\ letter # CharC => rest = <<>> \/ rest[1] = nc
  /\ letter = CharD => ~isdigit(nc)

\* What is printed for a conversion is read back whatever is printed behind it.
LEMMA PieceRead ==
  ASSUME NEW word, NEW n, NEW letter, NEW arg, NEW nc, NEW rest,
         Piece(word, n, letter, arg, nc, rest), NEW w, w = PrintArg(letter, arg)
  PROVE  /\ w \in Str /\ w # <<>> /\ ~isspace(w[1])
         /\ ReadArg(w \o rest, letter, nc).read = Len(w)
         /\ ReadArg(w \o rest, letter, nc).val = arg
<1>0. /\ word \in Seq(1..127) /\ word # <<>> /\ \A k \in 1..Len(word) : ~isspace(word[k])
      /\ n \in Ints /\ letter \in PrintfFormats /\ rest \in Str
      /\ arg = IF letter = CharD THEN n ELSE AsArg(letter, word)
      /\ letter = CharS => \A k \in 1..Len(word) : word[k] # nc
      /\ letter # CharC => rest = <<>> \/ rest[1] = nc
      /\ letter = CharD => ~isdigit(nc)
  BY Zenon DEF Piece
<1> USE <1>0
<1>1. word \in Str /\ Len(word) \in Nat \ {0} /\ word[1] \in 1..127 /\ 1 \in 1..Len(word)
  <2>1. 1..127 \subseteq Nat
    OBVIOUS
  <2>2. word \in Str
    BY <2>1, SeqMonotonic DEF Str
  <2>3. Len(word) \in Nat \ {0}
    BY EmptySeq
  <2>4. 1 \in 1..Len(word)
    BY <2>3
  <2> QED
    BY <2>2, <2>3, <2>4, ElementOfSeq
<1>2. ~isspace(word[1])
  BY <1>1, Zenon
<1>3. CASE letter = CharS
  <2>1. arg = word /\ w = word
    BY <1>3, Letters, Zenon DEF AsArg, PrintArg
  <2>2. ReadArg(w \o rest, letter, nc) = ReadStr(w \o rest, nc)
    BY <1>3, Letters, Zenon DEF ReadArg
  <2>3. letter # CharC /\ (rest = <<>> \/ rest[1] = nc)
    BY <1>3, Letters, Zenon
  <2>4. \A k \in 1..Len(w) : ~isspace(w[k]) /\ w[k] # nc
    BY <1>3, <2>1, Zenon
  <2>5. ReadStr(w \o rest, nc).val = w /\ ReadStr(w \o rest, nc).read = Len(w)
    BY <1>1, <2>1, <2>3, <2>4, ReadStrBack
  <2> QED
    BY <1>1, <1>2, <2>1, <2>2, <2>5, Zenon
<1>4. CASE letter = CharD
  <2>1. arg = n /\ w = PrintDec(n)
    BY <1>4, Letters, Zenon DEF PrintArg
  <2>2. ReadArg(w \o rest, letter, nc) = ReadDec(w \o rest)
    BY <1>4, Letters, Zenon DEF ReadArg
  <2>3. rest = <<>> \/ ~isdigit(rest[1])
    BY <1>4, Letters, Zenon
  <2>4. /\ PrintDec(n) \in Str /\ PrintDec(n) # <<>> /\ ~isspace(PrintDec(n)[1])
        /\ ReadDec(PrintDec(n) \o rest).read = Len(PrintDec(n))
        /\ ReadDec(PrintDec(n) \o rest).val = n
    BY <2>3, DecReadBack
  <2> QED
    BY <2>1, <2>2, <2>4, Zenon
<1>5. CASE letter = CharC
  <2> DEFINE c == word[1]
  <2>1. arg = c /\ w = <<c % 256>>
    BY <1>5, Letters, Zenon DEF AsArg, PrintArg
  <2>2. c \in 1..127 /\ ~isspace(c)
    BY <1>1, <1>2
  <2> HIDE DEF c
  <2>3. c % 256 = c /\ c \in Nat
    <3>1. c \in 0..(256 - 1) /\ 256 \in Nat \ {0} /\ c \in Nat
      BY <2>2
    <3> QED
      BY <3>1, Remainders, Zenon
  <2>4. w = <<c>>
    BY <2>1, <2>3, Zenon
  <2>5. w \in Str /\ w # <<>> /\ Len(w) = 1 /\ w[1] = c
    <3>1. <<c>> \in Str /\ <<c>> # <<>> /\ Len(<<c>>) = 1 /\ <<c>>[1] = c
      BY <2>3 DEF Str
    <3> QED
      BY <2>4, <3>1, Zenon
  <2>6. At(w \o rest, 0) = c
    <3>1. (w \o rest)[1] = c /\ Len(w \o rest) >= 1 /\ Len(w \o rest) \in Nat
      BY <2>5, ConcatFirst, Zenon
    <3> DEFINE b == w \o rest
    <3> HIDE DEF b
    <3>2. 0 < Len(b) /\ 0 + 1 = 1
      BY <3>1 DEF b
    <3> QED
      BY <3>1, <3>2, Zenon DEF At, b
  <2>7. ReadArg(w \o rest, letter, nc) = [val |-> At(w \o rest, 0), read |-> 1]
    BY <1>5, Letters, Zenon DEF ReadArg
  <2>8. ReadArg(w \o rest, letter, nc) = [val |-> c, read |-> 1]
    BY <2>6, <2>7, Zenon
  <2>9. ReadArg(w \o rest, letter, nc).val = c /\ ReadArg(w \o rest, letter, nc).read = 1
    <3> DEFINE a == ReadArg(w \o rest, letter, nc)
    <3>1. a = [val |-> c, read |-> 1]
      BY <2>8, Zenon
    <3> HIDE DEF a
    <3>2. a.val = c /\ a.read = 1
      BY <3>1
    <3> QED
      BY <3>2, Zenon DEF a
  <2> QED
    BY <2>1, <2>2, <2>5, <2>9, Zenon
<1> QED
  BY <1>3, <1>4, <1>5, Letters


(***************************************************************************)
(* scanf follows printf through the format.                                 *)
(***************************************************************************)
ArgsOf(fmt, n) ==
  [k \in 1..Options(fmt, Len(fmt)) |->
     IF Letter(fmt, k) = CharD THEN n ELSE AsArg(Letter(fmt, k), line)]

\* The formats and words that ScanfReadsPrintf speaks of.
Sayable(fmt) ==
  Readable(fmt) /\ line # <<>> /\ \A c \in ToSet(line) : ~isspace(c) /\ c \notin ToSet(fmt)

\* Characters are numbers, and those of a string are in it.
LEMMA TextIs ==
  ASSUME NEW s \in Seq(1..127)
  PROVE  s \in Str /\ Len(s) \in Nat /\ \A i \in 1..Len(s) : s[i] \in 1..127 /\ s[i] \in ToSet(s)
<1>1. 1..127 \subseteq Nat
  OBVIOUS
<1>2. s \in Str /\ Len(s) \in Nat
  <2>1. s \in Str
    BY <1>1, SeqMonotonic DEF Str
  <2> QED
    BY <2>1 DEF Str
<1>3. \A i \in 1..Len(s) : s[i] \in 1..127
  BY ElementOfSeq
<1>4. DOMAIN s = 1..Len(s)
  OBVIOUS
<1>5. \A i \in 1..Len(s) : s[i] \in ToSet(s)
  BY <1>4, Zenon DEF ToSet
<1> QED
  BY <1>2, <1>3, <1>5, Zenon

\* A conversion's letter, and what stands behind it: not in the line, and no digit
\* behind a number.
LEMMA BehindIs ==
  ASSUME line \in Seq(1..127), NEW fmt \in Seq(1..127), Sayable(fmt),
         NEW i \in 1..Len(fmt), Option(fmt, i), NEW nc, nc = At(fmt, i + 1)
  PROVE  /\ \A k \in 1..Len(line) : ~isspace(line[k]) /\ line[k] # nc
         /\ fmt[i + 1] = CharD => ~isdigit(nc)
         /\ fmt[i + 1] # CharC => nc # Percent
         /\ fmt[i + 1] \in PrintfFormats /\ i + 1 \in 1..Len(fmt)
<1>1. fmt \in Str /\ Len(fmt) \in Nat /\ \A k \in 1..Len(fmt) : fmt[k] \in ToSet(fmt)
  BY TextIs, Zenon
<1>2. \A k \in 1..Len(line) : line[k] \in 1..127 /\ line[k] \in ToSet(line)
  BY TextIs, Zenon
<1>3. /\ fmt[i + 1] \in PrintfFormats /\ i + 1 \in 1..Len(fmt)
  BY <1>1, OptionIs, Zenon
<1>4. /\ fmt[i + 1] = CharD => ~isdigit(nc)
      /\ fmt[i + 1] # CharC => nc # Percent
  BY Zenon DEF Sayable, Readable
<1>5. nc = 0 \/ nc \in ToSet(fmt)
  <2>1. i + 1 \in Nat /\ (i + 1 < Len(fmt) \/ i + 1 >= Len(fmt))
        /\ (i + 1 < Len(fmt) => (i + 1) + 1 \in 1..Len(fmt))
    BY <1>1
  <2> QED
    BY <1>1, <2>1, AtIs, Zenon
<1>6. ASSUME NEW k \in 1..Len(line)
      PROVE  ~isspace(line[k]) /\ line[k] # nc
  <2>1. line[k] # 0
    <3>1. line[k] \in 1..127
      BY <1>2, Zenon
    <3>2. 0 \notin 1..127
      OBVIOUS
    <3> QED
      BY <3>1, <3>2, Zenon
  <2>2. ~isspace(line[k]) /\ line[k] \notin ToSet(fmt)
    BY <1>2, Zenon DEF Sayable
  <2> QED
    BY <1>5, <2>1, <2>2, Zenon
<1> QED
  BY <1>3, <1>4, <1>6, Zenon

\* The argument of each conversion of a format.
LEMMA ArgumentIs ==
  ASSUME NEW fmt \in Str, NEW n, NEW i \in 1..Len(fmt), Option(fmt, i)
  PROVE  ArgsOf(fmt, n)[Options(fmt, i)] =
           IF fmt[i + 1] = CharD THEN n ELSE AsArg(fmt[i + 1], line)
<1>1. Letter(fmt, Options(fmt, i)) = fmt[i + 1] /\ Options(fmt, i) \in 1..Options(fmt, Len(fmt))
  BY LetterIs, Zenon
<1> QED
  BY <1>1, Zenon DEF ArgsOf

\* What printf writes for each character of the format.
LEMMA WrittenIs ==
  ASSUME line \in Seq(1..127), NEW fmt \in Seq(1..127), NEW n \in Ints, Sayable(fmt),
         NEW args, args = ArgsOf(fmt, n), NEW i \in 1..Len(fmt), NEW w,
         w = Written(fmt, args, i)
  PROVE  /\ w \in Str
         /\ Option(fmt, i) => w = PrintArg(fmt[i + 1], args[Options(fmt, i)])
         /\ i > 1 /\ Option(fmt, i - 1) => w = <<>>
         /\ ~Option(fmt, i) /\ ~(i > 1 /\ Option(fmt, i - 1)) => w = <<fmt[i]>>
         /\ i = 1 \/ ~Option(fmt, i - 1) =>
              w # <<>> /\ (~isspace(fmt[i]) => ~isspace(w[1]))
<1>1. /\ fmt \in Str /\ Len(fmt) \in Nat
      /\ \A k \in 1..Len(fmt) : fmt[k] \in 1..127
  BY TextIs, Zenon
<1>2. i > 1 /\ Option(fmt, i - 1) => ~Option(fmt, i)
  <2>1. i > 1 => i - 1 \in 1..Len(fmt) /\ (i - 1) + 1 = i
    BY <1>1
  <2> QED
    BY <1>1, <2>1, OptionIs, Zenon
<1>3. CASE Option(fmt, i)
  <2> DEFINE letter == fmt[i + 1]
             arg == args[Options(fmt, i)]
             nc == At(fmt, i + 1)
  <2>1. w = PrintArg(letter, arg)
    BY <1>2, <1>3, Zenon DEF Written
  <2>2. arg = IF letter = CharD THEN n ELSE AsArg(letter, line)
    BY <1>1, <1>3, ArgumentIs, Zenon
  <2>3. /\ \A k \in 1..Len(line) : ~isspace(line[k]) /\ line[k] # nc
        /\ letter = CharD => ~isdigit(nc)
        /\ letter \in PrintfFormats
    BY <1>3, BehindIs, Zenon
  <2> HIDE DEF letter, arg, nc
  <2>4. line # <<>> /\ <<>> \in Str
    BY Zenon, EmptySeq DEF Sayable, Str
  <2>5. /\ \A k \in 1..Len(line) : ~isspace(line[k])
        /\ letter = CharS => \A k \in 1..Len(line) : line[k] # nc
    BY <2>3, Zenon
  <2>6. w \in Str /\ w # <<>> /\ ~isspace(w[1])
    <3> DEFINE rest == <<>>
    <3>1. rest \in Str
      BY <2>4, Zenon
    <3>2. letter # CharC => rest = <<>> \/ rest[1] = nc
      BY Zenon
    <3> HIDE DEF rest
    <3>3. Piece(line, n, letter, arg, nc, rest)
      BY <2>2, <2>3, <2>4, <2>5, <3>1, <3>2, Zenon DEF Piece
    <3> QED
      BY <2>1, <3>3, PieceRead
  <2> QED
    BY <1>2, <1>3, <2>1, <2>6, Zenon DEF letter, arg
<1>4. CASE ~Option(fmt, i) /\ i > 1 /\ Option(fmt, i - 1)
  <2>1. w = <<>>
    BY <1>4, Zenon DEF Written
  <2>2. <<>> \in Str /\ i # 1
    BY <1>4 DEF Str
  <2> QED
    BY <1>4, <2>1, <2>2, Zenon
<1>5. CASE ~Option(fmt, i) /\ ~(i > 1 /\ Option(fmt, i - 1))
  <2> DEFINE c == fmt[i]
  <2>1. w = <<c>>
    BY <1>5, Zenon DEF Written
  <2>2. c \in Nat
    <3>1. c \in 1..127 /\ 1..127 \subseteq Nat
      BY <1>1
    <3> QED
      BY <3>1, Zenon
  <2> HIDE DEF c
  <2>3. <<c>> \in Str /\ <<c>> # <<>> /\ <<c>>[1] = c
    BY <2>2 DEF Str
  <2> QED
    BY <1>5, <2>1, <2>3, Zenon DEF c
<1> QED
  BY <1>3, <1>4, <1>5, Zenon


\* A format is printed, and rest is what is printed from each place on.
Printing(fmt, n, args, rest) ==
  /\ line \in Seq(1..127) /\ fmt \in Seq(1..127) /\ n \in Ints /\ Sayable(fmt)
  /\ args = ArgsOf(fmt, n) /\ RestTurns(rest, fmt, args)

\* The places of the format at which scanf begins a turn.
Starts(fmt, p) == p \in 0..Len(fmt) /\ (p = 0 \/ ~Option(fmt, p))

\* What is printed from each place on is a string.
LEMMA RestTyped ==
  ASSUME NEW fmt, NEW n, NEW args, NEW rest, Printing(fmt, n, args, rest)
  PROVE  /\ fmt \in Str /\ Len(fmt) \in Nat /\ \A k \in 1..Len(fmt) : fmt[k] \in ToSet(fmt)
         /\ \A p \in 0..Len(fmt) : rest[p] \in Str
         /\ rest[Len(fmt)] = <<>> /\ rest[0] = Formatted(fmt, args)
<1>1. fmt \in Seq(1..127) /\ RestTurns(rest, fmt, args)
  BY Zenon DEF Printing
<1>2. fmt \in Str /\ Len(fmt) \in Nat /\ \A k \in 1..Len(fmt) : fmt[k] \in ToSet(fmt)
  BY <1>1, TextIs, Zenon
<1> QED
  BY <1>1, <1>2, Zenon DEF RestTurns

\* What is left at such a place begins with what its character has written.
Begun(fmt, args, rest, p) ==
  /\ rest[p] # <<>>
  /\ ~isspace(fmt[p + 1]) => ~isspace(rest[p][1])
  /\ ~Option(fmt, p + 1) => /\ rest[p] = <<fmt[p + 1]>> \o rest[p + 1]
                            /\ Options(fmt, p + 1) = Options(fmt, p)
  /\ Option(fmt, p + 1) =>
       /\ rest[p] = PrintArg(fmt[p + 2], args[Options(fmt, p + 1)]) \o rest[p + 2]
       /\ Options(fmt, p + 1) = Options(fmt, p) + 1
       /\ Options(fmt, p + 2) = Options(fmt, p) + 1
       /\ Options(fmt, p + 1) \in 1..Options(fmt, Len(fmt))

\* What is printed for a place at which scanf begins a turn.
LEMMA Begins ==
  ASSUME NEW fmt, NEW n, NEW args, NEW rest, Printing(fmt, n, args, rest),
         NEW p \in 0..(Len(fmt) - 1), Starts(fmt, p)
  PROVE  Begun(fmt, args, rest, p)
<1> DEFINE L == Len(fmt)
           w == Written(fmt, args, p + 1)
           v == Written(fmt, args, p + 2)
<1>1. /\ fmt \in Str /\ L \in Nat /\ \A k \in 0..L : rest[k] \in Str
  BY RestTyped, Zenon
<1>2. /\ line \in Seq(1..127) /\ fmt \in Seq(1..127) /\ n \in Ints /\ Sayable(fmt)
      /\ args = ArgsOf(fmt, n)
      /\ \A i \in 1..L : rest[i - 1] = Written(fmt, args, i) \o rest[i]
  BY Zenon DEF Printing, RestTurns
<1>3. p \in Nat /\ p + 1 \in 1..L /\ (p + 1) - 1 = p /\ p + 1 \in 0..L /\ p \in 0..L
      /\ (p + 1 = 1 <=> p = 0) /\ (p + 1) + 1 = p + 2 /\ (p + 2) - 1 = p + 1
      /\ (p + 1 > 1 <=> p # 0)
  BY <1>1
<1>4. p + 1 = 1 \/ ~Option(fmt, (p + 1) - 1)
  BY <1>3, Zenon DEF Starts
<1>5. /\ w \in Str
      /\ Option(fmt, p + 1) => w = PrintArg(fmt[(p + 1) + 1], args[Options(fmt, p + 1)])
      /\ ~Option(fmt, p + 1) /\ ~(p + 1 > 1 /\ Option(fmt, (p + 1) - 1)) => w = <<fmt[p + 1]>>
      /\ w # <<>> /\ (~isspace(fmt[p + 1]) => ~isspace(w[1]))
  BY <1>2, <1>3, <1>4, WrittenIs
<1>6. rest[p] = w \o rest[p + 1] /\ rest[p + 1] \in Str
  BY <1>1, <1>2, <1>3, Zenon
<1> HIDE DEF w
<1>7. (w \o rest[p + 1])[1] = w[1] /\ w \o rest[p + 1] # <<>>
  BY <1>5, <1>6, ConcatFirst, Zenon
<1>8. rest[p] # <<>> /\ (~isspace(fmt[p + 1]) => ~isspace(rest[p][1]))
  BY <1>5, <1>6, <1>7, Zenon
<1>9. Options(fmt, p + 1) = IF Option(fmt, p + 1) THEN Options(fmt, (p + 1) - 1) + 1
                            ELSE Options(fmt, (p + 1) - 1)
  BY <1>1, <1>3, OptionsAre, Zenon
<1>10. ASSUME ~Option(fmt, p + 1)
       PROVE  rest[p] = <<fmt[p + 1]>> \o rest[p + 1] /\ Options(fmt, p + 1) = Options(fmt, p)
  <2>1. w = <<fmt[p + 1]>>
    BY <1>3, <1>4, <1>5, <1>10, Zenon
  <2> QED
    BY <1>3, <1>6, <1>9, <1>10, <2>1, Zenon
<1>11. ASSUME Option(fmt, p + 1)
       PROVE  /\ rest[p] = PrintArg(fmt[p + 2], args[Options(fmt, p + 1)]) \o rest[p + 2]
              /\ Options(fmt, p + 1) = Options(fmt, p) + 1
              /\ Options(fmt, p + 2) = Options(fmt, p) + 1
              /\ Options(fmt, p + 1) \in 1..Options(fmt, L)
  <2>1. (p + 1) + 1 \in 1..L /\ ~Option(fmt, (p + 1) + 1)
    BY <1>1, <1>3, <1>11, OptionIs, Zenon
  <2>2. p + 2 \in 1..L /\ ~Option(fmt, p + 2) /\ p + 2 > 1
    BY <1>3, <2>1
  <2>3. v = <<>>
    BY <1>2, <1>3, <1>11, <2>2, WrittenIs
  <2>4. rest[p + 1] = v \o rest[p + 2] /\ rest[p + 2] \in Str
    <3>1. p + 2 \in 0..L
      BY <2>2
    <3> QED
      BY <1>1, <1>2, <1>3, <2>2, <3>1, Zenon
  <2>5. <<>> \o rest[p + 2] = rest[p + 2]
    BY <2>4, ConcatEmptySeq DEF Str
  <2>6. rest[p + 1] = rest[p + 2]
    BY <2>3, <2>4, <2>5, Zenon
  <2>7. Options(fmt, p + 2) = Options(fmt, p + 1)
    <3>1. Options(fmt, p + 2) = Options(fmt, (p + 2) - 1)
      BY <1>1, <2>2, OptionsAre, Zenon
    <3> QED
      BY <1>3, <3>1, Zenon
  <2>8. Options(fmt, p + 1) \in 1..Options(fmt, L)
    BY <1>1, <1>3, <1>11, LetterIs, Zenon
  <2> QED
    BY <1>3, <1>5, <1>6, <1>9, <1>11, <2>6, <2>7, <2>8, Zenon
<1> QED
  BY <1>8, <1>10, <1>11, Zenon DEF L, Begun

\* Spaces of the format are skipped in what was printed too.
LEMMA SpacesSkipped ==
  ASSUME NEW fmt, NEW n, NEW args, NEW rest, Printing(fmt, n, args, rest),
         NEW p \in 0..(Len(fmt) - 1), Starts(fmt, p)
  PROVE  \E q \in p..(Len(fmt) - 1) :
           /\ Starts(fmt, q) /\ ~isspace(fmt[q + 1]) /\ Options(fmt, q) = Options(fmt, p)
           /\ SkipSpaces(rest[p]) = rest[q] /\ SkipSpaces(From(fmt, p)) = From(fmt, q)
<1> DEFINE L == Len(fmt)
           Reached(i, q) ==
             /\ Starts(fmt, q) /\ ~isspace(fmt[q + 1]) /\ Options(fmt, q) = Options(fmt, i)
             /\ SkipSpaces(rest[i]) = rest[q] /\ SkipSpaces(From(fmt, i)) = From(fmt, q)
           Good == {k \in 0..(L - 1) : Starts(fmt, (L - 1) - k) =>
                      \E q \in ((L - 1) - k)..(L - 1) : Reached((L - 1) - k, q)}
<1>1. /\ fmt \in Str /\ L \in Nat /\ \A k \in 0..L : rest[k] \in Str
  BY RestTyped, Zenon
<1>2. L # 0 /\ L - 1 \in Nat
  BY <1>1
<1>0. ASSUME NEW i \in 0..(L - 1), Starts(fmt, i), ~Option(fmt, i + 1)
      PROVE  rest[i] = <<fmt[i + 1]>> \o rest[i + 1] /\ Options(fmt, i + 1) = Options(fmt, i)
  <2>1. Begun(fmt, args, rest, i)
    BY <1>0, Begins, Zenon
  <2> QED
    BY <1>0, <2>1, Zenon DEF Begun
<1>3. ASSUME NEW i \in 0..(L - 1), Starts(fmt, i), ~isspace(fmt[i + 1])
      PROVE  Reached(i, i)
  <2>1. i \in 0..L /\ i \in Nat /\ i < L /\ i + 1 \in 1..L /\ (i + 1) - 1 = i
    BY <1>1
  <2>2. rest[i] # <<>> /\ ~isspace(rest[i][1])
    BY <1>3, Begins, Zenon DEF Begun
  <2>3. SkipSpaces(rest[i]) = rest[i]
    BY <1>1, <2>1, <2>2, SkipIs, Zenon
  <2>4. From(fmt, i) \in Str /\ From(fmt, i) # <<>> /\ From(fmt, i)[1] = fmt[i + 1]
    <3>1. /\ From(fmt, i) \in Str /\ Len(From(fmt, i)) = IF i <= L THEN L - i ELSE 0
          /\ \A k \in 1..(L - i) : From(fmt, i)[k] = fmt[i + k]
      BY <1>1, <2>1, FromIs, Zenon
    <3>2. 1 \in 1..(L - i) /\ L - i # 0 /\ i <= L /\ Len(<<>>) = 0
      BY <1>1, <2>1
    <3> QED
      BY <3>1, <3>2, Zenon
  <2>5. SkipSpaces(From(fmt, i)) = From(fmt, i)
    BY <1>3, <2>4, SkipIs, Zenon
  <2> QED
    BY <1>3, <2>3, <2>5, Zenon
<1>4. ~isspace(fmt[L])
  <2>1. Readable(fmt) /\ Len(<<>>) = 0
    BY Zenon, EmptySeq DEF Printing, Sayable
  <2> QED
    BY <1>2, <2>1, Zenon DEF Readable
<1>5. 0 \in Good
  <2>1. /\ 0 \in 0..(L - 1) /\ (L - 1) - 0 = L - 1 /\ L - 1 \in (L - 1)..(L - 1)
        /\ L - 1 \in 0..(L - 1) /\ (L - 1) + 1 = L
    BY <1>1, <1>2
  <2>2. Starts(fmt, L - 1) => Reached(L - 1, L - 1)
    BY <1>3, <1>4, <2>1, Zenon
  <2> HIDE DEF Reached
  <2> QED
    BY <2>1, <2>2, Zenon
<1>6. ASSUME NEW k \in 1..(L - 1), k - 1 \in Good
      PROVE  k \in Good
  <2> DEFINE i == (L - 1) - k
  <2>1. /\ k \in 0..(L - 1) /\ i \in 0..(L - 1) /\ (L - 1) - (k - 1) = i + 1
        /\ i + 1 \in 0..(L - 1) /\ i + 1 \in 0..L /\ i \in i..(L - 1) /\ i \in 0..L
        /\ i + 1 \in 1..L /\ (i + 1) - 1 = i /\ i + 1 # 0 /\ i + 1 \in Nat
    BY <1>1, <1>2
  <2>2. \A q \in (i + 1)..(L - 1) : q \in i..(L - 1)
    BY <1>1, <1>2
  <2> HIDE DEF i
  <2>3. Starts(fmt, i + 1) => \E q \in (i + 1)..(L - 1) : Reached(i + 1, q)
    BY <1>6, <2>1, Zenon
  <2>4. SUFFICES ASSUME Starts(fmt, i)
                 PROVE  \E q \in i..(L - 1) : Reached(i, q)
    BY <2>1, Zenon DEF i
  <2>5. CASE ~isspace(fmt[i + 1])
    BY <1>3, <2>1, <2>4, <2>5
  <2>6. CASE isspace(fmt[i + 1])
    <3>1. fmt[i + 1] # Percent /\ ~Option(fmt, i + 1)
      <4>1. ~isspace(Percent)
        BY DEF isspace, Spaces, Space, Percent
      <4> QED
        BY <2>6, <4>1, Zenon DEF Option
    <3>2. PICK q \in (i + 1)..(L - 1) : Reached(i + 1, q)
      <4>1. Starts(fmt, i + 1)
        BY <2>1, <3>1, Zenon DEF Starts
      <4> QED
        BY <2>3, <4>1, Zenon
    <3>3. rest[i] = <<fmt[i + 1]>> \o rest[i + 1] /\ Options(fmt, i + 1) = Options(fmt, i)
      BY <1>0, <2>1, <2>4, <3>1, Zenon
    <3>4. From(fmt, i) = <<fmt[i + 1]>> \o From(fmt, i + 1) /\ fmt[i + 1] \in Nat
      <4>1. From(fmt, (i + 1) - 1) = <<fmt[i + 1]>> \o From(fmt, i + 1) /\ fmt[i + 1] \in Nat
        BY <1>1, <2>1, FromIsNext, Zenon
      <4> QED
        BY <2>1, <4>1, Zenon
    <3>5. rest[i + 1] \in Str /\ From(fmt, i + 1) \in Str
      BY <1>1, <2>1, FromIs, Zenon
    <3>6. /\ SkipSpaces(rest[i]) = SkipSpaces(rest[i + 1])
          /\ SkipSpaces(From(fmt, i)) = SkipSpaces(From(fmt, i + 1))
      BY <2>6, <3>3, <3>4, <3>5, SkipOne, Zenon
    <3>7. Reached(i, q) /\ q \in i..(L - 1)
      BY <2>2, <3>2, <3>3, <3>6, Zenon
    <3> HIDE DEF Reached
    <3> QED
      BY <3>7, Zenon
  <2> QED
    BY <2>5, <2>6, Zenon
<1> HIDE DEF Good
<1>7. \A k \in 0..(L - 1) : k \in Good
  BY <1>2, <1>5, <1>6, AllTurns
<1>8. (L - 1) - p \in 0..(L - 1) /\ (L - 1) - ((L - 1) - p) = p
  BY <1>1
<1>9. (L - 1) - p \in Good
  BY <1>7, <1>8, Zenon
<1>10. \E q \in p..(L - 1) : Reached(p, q)
  BY <1>8, <1>9, Zenon DEF Good
<1> QED
  BY <1>10, Zenon DEF L


\* A format has an argument for each conversion.
LEMMA ArgsTyped ==
  ASSUME NEW fmt \in Str, NEW n
  PROVE  /\ \E S : ArgsOf(fmt, n) \in Seq(S)
         /\ Len(ArgsOf(fmt, n)) = Options(fmt, Len(fmt)) /\ Options(fmt, Len(fmt)) \in Nat
<1> DEFINE N == Options(fmt, Len(fmt))
           e(k) == IF Letter(fmt, k) = CharD THEN n ELSE AsArg(Letter(fmt, k), line)
           args == [k \in 1..N |-> e(k)]
           S == {e(k) : k \in 1..N}
<1>1. N \in Nat
  <2>1. Len(fmt) \in 0..Len(fmt)
    BY DEF Str
  <2> QED
    BY <2>1, OptionsAre, Zenon
<1>2. ArgsOf(fmt, n) = args
  BY Zenon DEF ArgsOf
<1> HIDE DEF N, e
<1>3. args \in Seq(S) /\ Len(args) = N
  BY <1>1
<1> HIDE DEF args, S
<1>4. \E T : args \in Seq(T)
  BY <1>3, Zenon
<1> QED
  BY <1>1, <1>2, <1>3, <1>4, Zenon DEF N

\* What scanf has before it when it is at a place of the format.
Reading(p, fmt, args, rest) ==
  State(rest[p], From(fmt, p), SubSeq(args, 1, Options(fmt, p)), Going)

\* scanf takes a character of the format's that printf printed.
LEMMA CharTaken ==
  ASSUME NEW fmt, NEW n, NEW args, NEW rest, Printing(fmt, n, args, rest),
         NEW p \in 0..(Len(fmt) - 1), Starts(fmt, p),
         NEW q \in 0..(Len(fmt) - 1), Starts(fmt, q), ~isspace(fmt[q + 1]),
         Options(fmt, q) = Options(fmt, p),
         SkipSpaces(rest[p]) = rest[q], SkipSpaces(From(fmt, p)) = From(fmt, q),
         ~Option(fmt, q + 1)
  PROVE  /\ Starts(fmt, q + 1)
         /\ Scanned(Reading(p, fmt, args, rest)) = Reading(q + 1, fmt, args, rest)
<1> DEFINE L == Len(fmt)
           b == rest[q]
           f == From(fmt, q)
           c == fmt[q + 1]
           buffer == rest[p]
           format == From(fmt, p)
           got == SubSeq(args, 1, Options(fmt, p))
<1>1. /\ fmt \in Str /\ L \in Nat /\ \A k \in 0..L : rest[k] \in Str
  BY RestTyped, Zenon
<1>2. /\ q \in Nat /\ p \in Nat /\ q + 1 \in Nat /\ p + 1 \in Nat /\ q + 1 \in 0..L /\ q + 1 \in 1..L /\ (q + 1) - 1 = q
      /\ q \in 0..L /\ p \in 0..L /\ p + 1 \in 1..L /\ (p + 1) - 1 = p
  BY <1>1
<1>3. Starts(fmt, q + 1)
  BY <1>2, Zenon DEF Starts
<1>4. /\ b # <<>> /\ b = <<c>> \o rest[q + 1] /\ Options(fmt, q + 1) = Options(fmt, q)
      /\ buffer # <<>>
  <2>1. Begun(fmt, args, rest, q) /\ Begun(fmt, args, rest, p)
    BY Begins, Zenon
  <2> QED
    BY <2>1, Zenon DEF Begun
<1>5. f = <<c>> \o From(fmt, q + 1) /\ c \in Nat
  <2>1. From(fmt, (q + 1) - 1) = <<c>> \o From(fmt, q + 1) /\ c \in Nat
    BY <1>1, <1>2, FromIsNext, Zenon
  <2> QED
    BY <1>2, <2>1, Zenon
<1>6. format # <<>>
  <2>1. From(fmt, (p + 1) - 1) = <<fmt[p + 1]>> \o From(fmt, p + 1) /\ fmt[p + 1] \in Nat
    BY <1>1, <1>2, FromIsNext, Zenon
  <2> DEFINE d == fmt[p + 1]
             t == From(fmt, p + 1)
  <2>2. t \in Str
    BY <1>2, <1>1, FromIs, Zenon
  <2>3. d \in Nat /\ format = <<d>> \o t
    BY <1>2, <2>1, Zenon
  <2> HIDE DEF d, t, format
  <2>4. <<d>> \o t # <<>>
    BY <2>2, <2>3, TailOf, Zenon
  <2> QED
    BY <2>3, <2>4, Zenon
<1>7. rest[q + 1] \in Str /\ From(fmt, q + 1) \in Str
  BY <1>1, <1>2, FromIs, Zenon
<1>8. c # Percent
  <2>1. fmt[q + 1] = Percent => Option(fmt, q + 1)
    BY <1>2, Zenon DEF Printing, Sayable, Readable
  <2> QED
    BY <2>1, Zenon
<1>9. b = SkipSpaces(buffer) /\ f = SkipSpaces(format)
  BY Zenon
<1> HIDE DEF b, f, c, buffer, format, got
<1>10. Tail(b) = rest[q + 1] /\ b[1] = c /\ Tail(f) = From(fmt, q + 1) /\ f[1] = c
       /\ b \in Str /\ f \in Str /\ f # <<>>
  BY <1>4, <1>5, <1>7, TailOf, Zenon
<1>11. At(b, 0) = c /\ At(f, 0) = c
  <2>1. Len(b) # 0 /\ Len(f) # 0 /\ Len(b) \in Nat /\ Len(f) \in Nat
    BY <1>4, <1>10, EmptySeq DEF Str
  <2>2. 0 < Len(b) /\ 0 < Len(f) /\ 0 + 1 = 1
    BY <2>1
  <2> QED
    BY <1>10, <2>2, Zenon DEF At
<1>12. Scanned(State(buffer, format, got, Going)) = State(Tail(b), Tail(f), got, Going)
  <2>1. At(f, 0) # Percent /\ At(b, 0) = At(f, 0)
    BY <1>8, <1>11, Zenon
  <2> QED
    <3>1. buffer # <<>> /\ format # <<>> /\ b # <<>>
      BY <1>4, <1>6, Zenon
    <3> QED
      BY <1>9, <2>1, <3>1, ScannedChar
<1>13. got = SubSeq(args, 1, Options(fmt, q + 1))
  BY <1>4, Zenon DEF got
<1>14. Scanned(Reading(p, fmt, args, rest)) = Reading(q + 1, fmt, args, rest)
  <2>1. Reading(p, fmt, args, rest) = State(buffer, format, got, Going)
    BY Zenon DEF Reading, buffer, format, got
  <2>2. Reading(q + 1, fmt, args, rest) = State(Tail(b), Tail(f), got, Going)
    BY <1>10, <1>13, Zenon DEF Reading
  <2> QED
    BY <1>12, <2>1, <2>2, Zenon
<1> QED
  BY <1>3, <1>14, Zenon

\* scanf takes the argument that printf printed for a conversion.
LEMMA ArgTaken ==
  ASSUME NEW fmt, NEW n, NEW args, NEW rest, Printing(fmt, n, args, rest),
         NEW p \in 0..(Len(fmt) - 1), Starts(fmt, p),
         NEW q \in 0..(Len(fmt) - 1), Starts(fmt, q), ~isspace(fmt[q + 1]),
         Options(fmt, q) = Options(fmt, p),
         SkipSpaces(rest[p]) = rest[q], SkipSpaces(From(fmt, p)) = From(fmt, q),
         Option(fmt, q + 1)
  PROVE  /\ Starts(fmt, q + 2)
         /\ Scanned(Reading(p, fmt, args, rest)) = Reading(q + 2, fmt, args, rest)
<1> DEFINE L == Len(fmt)
           b == rest[q]
           f == From(fmt, q)
           buffer == rest[p]
           format == From(fmt, p)
           m == Options(fmt, p)
           got == SubSeq(args, 1, m)
           letter == fmt[q + 2]
           nc == At(fmt, q + 2)
           val == args[m + 1]
           w == PrintArg(letter, val)
           left == rest[q + 2]
           arg == ReadArg(b, At(f, 1), At(f, 2))
<1>1. /\ fmt \in Str /\ L \in Nat /\ \A k \in 0..L : rest[k] \in Str
      /\ rest[L] = <<>>
  BY RestTyped, Zenon
<1>2. /\ q \in Nat /\ p \in Nat /\ q + 1 \in Nat /\ q + 2 \in Nat /\ q + 1 \in 1..L
      /\ q \in 0..L /\ p \in 0..L /\ (q + 1) + 1 = q + 2
  BY <1>1
<1>3. /\ fmt[q + 1] = Percent /\ At(fmt, q + 1) = letter /\ letter \in PrintfFormats
      /\ q + 2 \in 1..L /\ ~Option(fmt, q + 2)
  <2>1. /\ fmt[q + 1] = Percent /\ At(fmt, q + 1) = fmt[(q + 1) + 1]
        /\ fmt[(q + 1) + 1] \in PrintfFormats
        /\ (q + 1) + 1 \in 1..L /\ ~Option(fmt, (q + 1) + 1)
    BY <1>1, <1>2, OptionIs, Zenon
  <2> QED
    BY <1>2, <2>1, Zenon
<1>4. q + 2 \in 0..L /\ (q + 2 = L \/ q + 2 \in 0..(L - 1)) /\ q < L /\ p < L
  BY <1>1, <1>3
<1>5. Starts(fmt, q + 2)
  BY <1>3, <1>4, Zenon DEF Starts
<1>6. /\ b = w \o left /\ Options(fmt, q + 2) = m + 1 /\ Options(fmt, q + 1) = m + 1
      /\ m + 1 \in 1..Options(fmt, L) /\ b # <<>> /\ buffer # <<>>
  <2>1. Begun(fmt, args, rest, q) /\ Begun(fmt, args, rest, p)
    BY Begins, Zenon
  <2>2. /\ b = PrintArg(fmt[q + 2], args[Options(fmt, q + 1)]) \o left
        /\ Options(fmt, q + 2) = m + 1 /\ Options(fmt, q + 1) = m + 1
        /\ Options(fmt, q + 1) \in 1..Options(fmt, Len(fmt))
        /\ b # <<>> /\ buffer # <<>>
    BY <2>1, Zenon DEF Begun
  <2> QED
    BY <2>2, Zenon
<1>7. /\ line \in Seq(1..127) /\ fmt \in Seq(1..127) /\ n \in Ints /\ Sayable(fmt)
      /\ args = ArgsOf(fmt, n)
  BY Zenon DEF Printing
<1>8. val = IF letter = CharD THEN n ELSE AsArg(letter, line)
  <2>1. ArgsOf(fmt, n)[Options(fmt, q + 1)] =
          IF fmt[(q + 1) + 1] = CharD THEN n ELSE AsArg(fmt[(q + 1) + 1], line)
    BY <1>1, <1>2, ArgumentIs, Zenon
  <2> QED
    BY <1>2, <1>6, <1>7, <2>1, Zenon
<1>9. /\ \A k \in 1..Len(line) : ~isspace(line[k]) /\ line[k] # nc
      /\ letter = CharD => ~isdigit(nc)
      /\ letter # CharC => nc # Percent
  <2> DEFINE i == q + 1
             c == At(fmt, i + 1)
  <2>1. i \in 1..L /\ i + 1 = q + 2 /\ Option(fmt, i) /\ c = At(fmt, i + 1)
    BY <1>2, Zenon
  <2> HIDE DEF i, c
  <2>2. /\ \A k \in 1..Len(line) : ~isspace(line[k]) /\ line[k] # c
        /\ fmt[i + 1] = CharD => ~isdigit(c)
        /\ fmt[i + 1] # CharC => c # Percent
    BY <1>7, <2>1, BehindIs
  <2>3. c = nc
    BY <2>1, Zenon
  <2> QED
    BY <2>1, <2>2, <2>3, Zenon
<1>10. letter # CharC => left = <<>> \/ left[1] = nc
  <2>1. CASE q + 2 = L
    BY <1>1, <2>1, Zenon
  <2>2. CASE q + 2 \in 0..(L - 1) /\ letter # CharC
    <3> DEFINE r == q + 2
               d == fmt[r + 1]
    <3>1. nc = d /\ r + 1 \in 1..L /\ r + 1 \in 0..L /\ d \in Nat
      <4>1. r < L /\ r + 1 \in 1..L /\ r + 1 \in 0..L
        BY <1>1, <2>2
      <4>2. d \in Nat
        BY <1>1, <4>1 DEF Str
      <4> QED
        BY <1>1, <1>2, <4>1, <4>2, AtIs, Zenon
    <3>2. ~Option(fmt, r + 1)
      BY <1>9, <2>2, <3>1, Zenon DEF Option
    <3>3. Begun(fmt, args, rest, r)
      BY <1>5, <2>2, Begins, Zenon
    <3>4. left = <<d>> \o rest[r + 1] /\ rest[r + 1] \in Str
      BY <1>1, <3>1, <3>2, <3>3, Zenon DEF Begun
    <3> HIDE DEF left, d
    <3>5. (<<d>> \o rest[r + 1])[1] = d
      BY <3>1, <3>4, TailOf, Zenon
    <3> QED
      BY <3>1, <3>4, <3>5, Zenon
  <2> QED
    BY <1>4, <2>1, <2>2, Zenon
<1>11. left \in Str
  BY <1>1, <1>4, Zenon
<1>12. Piece(line, n, letter, val, nc, left)
  <2> HIDE DEF letter, val, nc, left, w, m
  <2>1. line # <<>>
    BY <1>7, Zenon DEF Sayable
  <2> QED
    BY <1>3, <1>7, <1>8, <1>9, <1>10, <1>11, <2>1, Zenon DEF Piece
<1>13. arg = ReadArg(w \o left, letter, nc)
  <2>1. At(f, 1) = At(fmt, q + 1) /\ At(f, 2) = At(fmt, q + 2)
    BY <1>1, <1>2, AtFrom
  <2> QED
    BY <1>3, <1>6, <2>1, Zenon
<1>14. At(f, 0) = Percent /\ At(f, 1) \in ScanfFormats
  <2>1. At(f, 0) = At(fmt, q) /\ At(f, 1) = At(fmt, q + 1)
    <3>1. q + 0 = q
      BY <1>2
    <3> QED
      BY <1>1, <1>2, <3>1, AtFrom
  <2>2. At(fmt, q) = fmt[q + 1]
    BY <1>1, <1>2, <1>4, AtIs, Zenon
  <2> QED
    BY <1>3, <2>1, <2>2, Letters, Zenon
<1>15. format # <<>>
  <2>1. Len(format) = IF p <= L THEN L - p ELSE 0
    BY <1>1, <1>2, FromIs, Zenon
  <2> HIDE DEF format
  <2>2. Len(format) # 0 /\ Len(<<>>) = 0
    BY <1>1, <1>2, <1>4, <2>1
  <2> QED
    BY <2>2, Zenon
<1>16. b = SkipSpaces(buffer) /\ f = SkipSpaces(format)
  BY Zenon
<1>17. \E S : args \in Seq(S) /\ Len(args) = Options(fmt, L)
  BY <1>1, <1>7, ArgsTyped, Zenon
<1>18. Append(got, val) = SubSeq(args, 1, m + 1)
  <2>1. PICK S : args \in Seq(S) /\ Len(args) = Options(fmt, L)
    BY <1>17, Zenon
  <2>2. m \in Nat
    BY <1>1, <1>2, OptionsAre, Zenon
  <2> HIDE DEF m
  <2>3. m + 1 <= Len(args)
    BY <1>6, <2>1
  <2> QED
    BY <2>1, <2>2, <2>3, OneMore, Zenon
<1>19. From(f, 2) = From(fmt, q + 2)
  BY <1>1, <1>2, FromFrom
<1> HIDE DEF b, f, buffer, format, got, letter, nc, val, w, left, arg, m
<1>20. /\ w \in Str /\ w # <<>> /\ arg.read = Len(w) /\ arg.val = val
  <2>1. w = PrintArg(letter, val)
    BY Zenon DEF w
  <2> QED
    BY <1>12, <1>13, <2>1, PieceRead
<1>21. ~(arg.read > Len(b)) /\ ~(arg.read <= 0) /\ From(b, arg.read) = left
  <2> DEFINE k == arg.read
  <2>1. k = Len(w)
    BY <1>20
  <2> HIDE DEF k
  <2>2. Len(b) >= Len(w) /\ Len(w) \in Nat \ {0} /\ Len(b) \in Nat
    BY <1>6, <1>11, <1>20, ConcatFirst, Zenon
  <2>3. From(b, Len(w)) = left
    BY <1>6, <1>11, <1>20, FromConcat, Zenon
  <2>4. ~(k > Len(b)) /\ ~(k <= 0)
    BY <2>1, <2>2
  <2> QED
    BY <2>1, <2>3, <2>4 DEF k
<1>22. Scanned(State(buffer, format, got, Going)) =
         State(From(b, arg.read), From(f, 2), Append(got, arg.val), Going)
  <2>1. buffer # <<>> /\ arg = ReadArg(b, At(f, 1), At(f, 2)) /\ ~(arg.read > Len(b))
    BY <1>6, <1>21 DEF arg
  <2> HIDE DEF arg
  <2>2. Scanned(State(buffer, format, got, Going)) =
          IF arg.read <= 0 THEN State(buffer, format, got, Len(got))
          ELSE State(From(b, arg.read), From(f, 2), Append(got, arg.val), Going)
    BY <1>14, <1>15, <1>16, <2>1, ScannedArg
  <2> QED
    BY <1>21, <2>2
<1>23. Scanned(State(buffer, format, got, Going)) =
         State(left, From(fmt, q + 2), SubSeq(args, 1, m + 1), Going)
  BY <1>18, <1>19, <1>20, <1>21, <1>22
<1>24. Scanned(Reading(p, fmt, args, rest)) = Reading(q + 2, fmt, args, rest)
  <2>1. Reading(p, fmt, args, rest) = State(buffer, format, got, Going)
    BY Zenon DEF Reading, buffer, format, got, m
  <2>2. Reading(q + 2, fmt, args, rest) =
          State(left, From(fmt, q + 2), SubSeq(args, 1, m + 1), Going)
    BY <1>6, Zenon DEF Reading, left
  <2> QED
    BY <1>23, <2>1, <2>2, Zenon
<1> QED
  BY <1>5, <1>24, Zenon


\* A turn of scanf brings it to a later place, in the buffer as in the format.
LEMMA TurnTaken ==
  ASSUME NEW fmt, NEW n, NEW args, NEW rest, Printing(fmt, n, args, rest),
         NEW p \in 0..(Len(fmt) - 1), Starts(fmt, p)
  PROVE  \E q \in (p + 1)..Len(fmt) :
           /\ Starts(fmt, q)
           /\ Scanned(Reading(p, fmt, args, rest)) = Reading(q, fmt, args, rest)
<1> DEFINE L == Len(fmt)
<1>1. PICK q \in p..(L - 1) :
        /\ Starts(fmt, q) /\ ~isspace(fmt[q + 1]) /\ Options(fmt, q) = Options(fmt, p)
        /\ SkipSpaces(rest[p]) = rest[q] /\ SkipSpaces(From(fmt, p)) = From(fmt, q)
  BY SpacesSkipped
<1>2. L \in Nat
  BY RestTyped, Zenon
<1>3. q \in 0..(L - 1) /\ q + 1 \in (p + 1)..L /\ q + 2 \in Int /\ q + 2 >= p + 1
  BY <1>2
<1>4. CASE ~Option(fmt, q + 1)
  <2>1. /\ Starts(fmt, q + 1)
        /\ Scanned(Reading(p, fmt, args, rest)) = Reading(q + 1, fmt, args, rest)
    BY <1>1, <1>3, <1>4, CharTaken
  <2> QED
    BY <1>3, <2>1, Zenon
<1>5. CASE Option(fmt, q + 1)
  <2>1. /\ Starts(fmt, q + 2)
        /\ Scanned(Reading(p, fmt, args, rest)) = Reading(q + 2, fmt, args, rest)
    BY <1>1, <1>3, <1>5, ArgTaken
  <2>2. q + 2 \in 0..L
    BY <2>1, Zenon DEF Starts
  <2>3. q + 2 \in (p + 1)..L
    BY <1>2, <1>3, <2>2
  <2> QED
    BY <2>1, <2>3, Zenon
<1> QED
  BY <1>4, <1>5, Zenon

\* The whole string, at the end.
LEMMA EndReached ==
  ASSUME NEW fmt, NEW n, NEW args, NEW rest, Printing(fmt, n, args, rest)
  PROVE  /\ Scanned(Reading(Len(fmt), fmt, args, rest)) = State(<<>>, <<>>, args, Len(args))
         /\ Len(args) \in Nat
         /\ Reading(0, fmt, args, rest) = State(Formatted(fmt, args), fmt, <<>>, Going)
<1> DEFINE L == Len(fmt)
           none == <<>>
<1>1. fmt \in Str /\ L \in Nat /\ rest[L] = none /\ rest[0] = Formatted(fmt, args)
  BY RestTyped, Zenon
<1>2. PICK S : args \in Seq(S) /\ Len(args) = Options(fmt, L) /\ Options(fmt, L) \in Nat
  <2>1. args = ArgsOf(fmt, n)
    BY Zenon DEF Printing
  <2> QED
    BY <1>1, <2>1, ArgsTyped, Zenon
<1>3. SubSeq(args, 1, Len(args)) = args /\ SubSeq(args, 1, 0) = none
  BY <1>2
<1>4. From(fmt, L) = none /\ From(fmt, 0) = fmt
  <2>1. 0 \in Nat /\ L >= L
    BY <1>1
  <2> QED
    BY <1>1, <2>1, FromIs, Zenon
<1>5. Reading(L, fmt, args, rest) = State(none, none, args, Going)
  BY <1>1, <1>2, <1>3, <1>4, Zenon DEF Reading
<1>6. Reading(0, fmt, args, rest) = State(Formatted(fmt, args), fmt, none, Going)
  <2>1. Options(fmt, 0) = 0
    BY <1>1, OptionsAre, Zenon
  <2> QED
    BY <1>1, <1>3, <1>4, <2>1, Zenon DEF Reading
<1>7. SkipSpaces(none) = none
  <2>1. none \in Str
    BY DEF Str
  <2> QED
    BY <2>1, SkipIs, Zenon
<1>8. Scanned(State(none, none, args, Going)) = State(none, none, args, Len(args))
  <2> HIDE DEF none
  <2>1. Scanned(State(none, none, args, Going)) =
          State(none, none, args,
                IF SkipSpaces(none) # <<>> \/ SkipSpaces(none) # <<>> THEN -1 ELSE Len(args))
    BY ScannedEnd DEF none
  <2> QED
    BY <1>7, <2>1, Zenon DEF none
<1> QED
  BY <1>2, <1>5, <1>6, <1>8, Zenon

\* scanf reads to the end and answers with printf's arguments.
LEMMA FormatRead ==
  ASSUME NEW fmt, NEW n, NEW args, NEW rest, Printing(fmt, n, args, rest)
  PROVE  Sscanf(Formatted(fmt, args), fmt) = [read |-> Len(args), got |-> args]
<1> DEFINE L == Len(fmt)
           m == L + 1
           full == Formatted(fmt, args)
           At2(p) == Reading(p, fmt, args, rest)
           over == State(<<>>, <<>>, args, Len(args))
<1>1. fmt \in Str /\ L \in Nat
  BY RestTyped, Zenon
<1>2. PICK scan : /\ ScanTurns(scan, full, fmt)
                  /\ Sscanf(full, fmt) = [read |-> scan[m].read, got |-> scan[m].got]
  BY <1>1, SscanfIs, Zenon
<1>3. /\ At2(0) = State(full, fmt, <<>>, Going) /\ Scanned(At2(L)) = over /\ Len(args) \in Nat
  BY EndReached, Zenon
<1>4. Scanned(over) = over
  <2>1. Len(args) # Going
    <3>1. Going \notin Nat
      BY DEF Going
    <3> QED
      BY <1>3, <3>1, Zenon
  <2> QED
    BY <2>1, ScannedOver, Zenon
<1> DEFINE Reached(k) == (\E p \in k..L : Starts(fmt, p) /\ scan[k] = At2(p)) \/ scan[k] = over
           Good == {k \in 0..m : Reached(k)}
<1>5. scan[0] = State(full, fmt, <<>>, Going) /\ \A k \in 1..m : scan[k] = Scanned(scan[k - 1])
  BY <1>2, Zenon DEF ScanTurns
<1>6. 0 \in Good
  <2>1. 0 \in 0..L /\ 0 \in 0..m
    BY <1>1
  <2>2. Starts(fmt, 0)
    BY <2>1, Zenon DEF Starts
  <2>3. scan[0] = At2(0)
    BY <1>3, <1>5, Zenon
  <2> HIDE DEF m, At2, over
  <2> QED
    BY <2>1, <2>2, <2>3, Zenon
<1>7. ASSUME NEW p \in 0..(L - 1), Starts(fmt, p)
      PROVE  \E q \in (p + 1)..L : Starts(fmt, q) /\ Scanned(At2(p)) = At2(q)
  BY <1>7, TurnTaken
<1>8. m \in Nat /\ m \in 0..m /\ ~(m <= L) /\ m..L = {}
  BY <1>1
<1> HIDE DEF At2, over
<1>9. ASSUME NEW k \in 1..m, k - 1 \in Good
      PROVE  k \in Good
  <2>1. k \in 0..m /\ scan[k] = Scanned(scan[k - 1])
    BY <1>5, <1>8
  <2>2. Reached(k - 1)
    BY <1>9, Zenon
  <2>3. CASE scan[k - 1] = over
    BY <1>4, <2>1, <2>3, Zenon
  <2>4. CASE scan[k - 1] # over
    <3>1. PICK p \in (k - 1)..L : Starts(fmt, p) /\ scan[k - 1] = At2(p)
      BY <2>2, <2>4, Zenon
    <3>2. CASE p = L
      BY <1>3, <2>1, <3>1, <3>2, Zenon
    <3>3. CASE p # L
      <4>1. p \in 0..(L - 1)
        BY <1>1, <3>3
      <4>2. PICK q \in (p + 1)..L : Starts(fmt, q) /\ Scanned(At2(p)) = At2(q)
        BY <1>7, <3>1, <4>1
      <4>3. q \in k..L
        BY <1>1
      <4>4. scan[k] = At2(q)
        BY <2>1, <3>1, <4>2, Zenon
      <4> QED
        BY <2>1, <4>2, <4>3, <4>4, Zenon
    <3> QED
      BY <3>2, <3>3, Zenon
  <2> QED
    BY <2>3, <2>4, Zenon
<1> HIDE DEF Good
<1>10. \A k \in 0..m : k \in Good
  <2> HIDE DEF m
  <2> QED
    BY <1>6, <1>8, <1>9, AllTurns
<1>11. scan[m] = over
  <2>1. m \in Good
    BY <1>8, <1>10, Zenon
  <2> HIDE DEF m
  <2> QED
    BY <1>8, <2>1, Zenon DEF Good
<1>12. over.read = Len(args) /\ over.got = args
  BY StateIs DEF over
<1> HIDE DEF m, full
<1>13. Sscanf(full, fmt) = [read |-> over.read, got |-> over.got]
  BY <1>2, <1>11
<1> QED
  BY <1>12, <1>13 DEF full

\* What is typed is read back.
LEMMA ReadIfTyped == line \in Seq(Alphabet) => ScanfReadsPrintf
<1> SUFFICES ASSUME line \in Seq(1..127), NEW fmt \in Formats, NEW n \in Ints, Readable(fmt),
                    line # <<>>, \A c \in ToSet(line) : ~isspace(c) /\ c \notin ToSet(fmt)
             PROVE  Sscanf(Formatted(fmt, ArgsOf(fmt, n)), fmt) =
                      [read |-> Len(ArgsOf(fmt, n)), got |-> ArgsOf(fmt, n)]
  BY AlphabetIs, Zenon DEF ScanfReadsPrintf, ArgsOf
<1> DEFINE args == ArgsOf(fmt, n)
<1>1. fmt \in Seq(1..127)
  BY WordsAssumption, Zenon
<1>2. fmt \in Str
  BY <1>1, TextIs, Zenon
<1>3. Sayable(fmt)
  BY Zenon DEF Sayable
<1> HIDE DEF args
<1>4. \A i \in 1..Len(fmt) : Written(fmt, args, i) \in Str
  <2>1. ASSUME NEW i \in 1..Len(fmt)
        PROVE  Written(fmt, args, i) \in Str
    <3> DEFINE w == Written(fmt, args, i)
    <3>1. w = Written(fmt, args, i) /\ args = ArgsOf(fmt, n)
      BY Zenon DEF args
    <3> HIDE DEF w
    <3>2. w \in Str
      BY <1>1, <1>3, <3>1, WrittenIs
    <3> QED
      BY <3>1, <3>2, Zenon
  <2> QED
    BY <2>1, Zenon
<1>5. PICK rest : RestTurns(rest, fmt, args)
  BY <1>2, <1>4, RestIs
<1>6. Printing(fmt, n, args, rest)
  BY <1>1, <1>3, <1>5, Zenon DEF Printing, args
<1>7. Sscanf(Formatted(fmt, args), fmt) = [read |-> Len(args), got |-> args]
  BY <1>6, FormatRead, Zenon
<1> QED
  BY <1>7, Zenon DEF args

\* scanf reads back what printf wrote, with every format that it can follow and every
\* int, the least too, whatever is typed.
THEOREM ScanfReadsWhatPrintfWrote == Spec => []ScanfReadsPrintf
<1> QED
  BY ReadIfTyped, LineTyped, PTL


(***************************************************************************)
(* check_special_characters.                                                *)
(***************************************************************************)
LEMMA DownTurns ==
  ASSUME NEW n \in Nat, NEW Good, n + 1 \in Good, n + 2 \in Good,
         \A i \in 1..n : i + 1 \in Good /\ i + 2 \in Good => i \in Good
  PROVE  \A i \in 1..(n + 2) : i \in Good
<1> DEFINE Both == {k \in 0..n : (n - k) + 1 \in Good /\ (n - k) + 2 \in Good}
<1>1. 0 \in Both
  OBVIOUS
<1>2. ASSUME NEW k \in 1..n, k - 1 \in Both
      PROVE  k \in Both
  <2>1. /\ k \in 0..n /\ (n - (k - 1)) + 1 = (n - k) + 2 /\ (n - k) + 1 \in 1..n
        /\ ((n - k) + 1) + 1 = (n - (k - 1)) + 1 /\ ((n - k) + 1) + 2 = (n - (k - 1)) + 2
    OBVIOUS
  <2>2. (n - (k - 1)) + 1 \in Good /\ (n - (k - 1)) + 2 \in Good
    BY <1>2, Zenon
  <2> QED
    BY <2>1, <2>2, Zenon
<1> HIDE DEF Both
<1>3. \A k \in 0..n : k \in Both
  BY <1>1, <1>2, AllTurns
<1>4. ASSUME NEW i \in 1..(n + 2)
      PROVE  i \in Good
  <2>1. CASE i = n + 2
    BY <2>1
  <2>2. CASE i # n + 2
    <3>1. (n + 1) - i \in 0..n /\ (n - ((n + 1) - i)) + 1 = i
      BY <2>2
    <3>2. (n + 1) - i \in Both
      BY <1>3, <3>1, Zenon
    <3> QED
      BY <3>1, <3>2, Zenon DEF Both
  <2> QED
    BY <2>1, <2>2
<1> QED
  BY <1>4, Zenon

\* The string without its escapes, from each place on.
Unescape(s, rest, i) ==
  IF i > Len(s) THEN <<>>
  ELSE IF s[i] = Backslash THEN <<Merged(At(s, i))>> \o rest[i + 2]
  ELSE <<s[i]>> \o rest[i + 1]

\* The rest of a string without its escapes, from each place on.
UnescapeTurns(rest, s) == \A i \in 1..(Len(s) + 2) : rest[i] = Unescape(s, rest, i)

\* Unescaped is the rest from the first place on.
LEMMA UnescapedIs ==
  ASSUME NEW s \in Str
  PROVE  \E rest : UnescapeTurns(rest, s) /\ Unescaped(s) = rest[1]
<1> DEFINE n == Len(s)
           N(g, i) == Unescape(s, g, i)
           From2(g, m) == g = [i \in m..(n + 2) |-> N(g, i)]
           Good == {m \in 1..(n + 2) : \E g : From2(g, m)}
           rest == CHOOSE g : From2(g, 1)
<1>1. n \in Nat
  BY DEF Str
<1>2. Unescaped(s) = rest[1]
  BY Zenon DEF Unescaped, Unescape
<1>3. ASSUME NEW g, NEW h, NEW i \in 1..(n + 2), i <= n => g[i + 1] = h[i + 1] /\ g[i + 2] = h[i + 2]
      PROVE  N(g, i) = N(h, i)
  <2>1. i > n \/ i <= n
    BY <1>1
  <2> QED
    BY <1>3, <2>1, Zenon DEF Unescape
<1>4. n + 2 \in Good
  <2> DEFINE z == <<>>
             g == [i \in (n + 2)..(n + 2) |-> z]
  <2>1. \A i \in (n + 2)..(n + 2) : i > n
    BY <1>1
  <2>2. \A i \in (n + 2)..(n + 2) : N(g, i) = z
    BY <2>1, Zenon DEF Unescape
  <2> HIDE DEF N, z
  <2>3. From2(g, n + 2)
    BY <2>2, Zenon
  <2> HIDE DEF From2, g
  <2>4. n + 2 \in 1..(n + 2)
    BY <1>1
  <2> QED
    BY <2>3, <2>4, Zenon
<1> HIDE DEF N, n
<1>5. ASSUME NEW k \in 1..(n + 1), k + 1 \in Good
      PROVE  k \in Good
  <2>1. PICK g : From2(g, k + 1)
    BY <1>5, Zenon
  <2> DEFINE h == [i \in k..(n + 2) |-> IF i = k THEN N(g, k) ELSE g[i]]
  <2>2. /\ k \in 1..(n + 2) /\ k \in k..(n + 2)
        /\ \A i \in k..(n + 2) : i # k => i \in (k + 1)..(n + 2)
        /\ \A i \in k..(n + 2) : i \in 1..(n + 2)
        /\ \A i \in k..(n + 2) : i <= n => /\ i + 1 \in k..(n + 2) /\ i + 1 # k
                                           /\ i + 2 \in k..(n + 2) /\ i + 2 # k
    BY <1>1
  <2>3. \A i \in (k + 1)..(n + 2) : g[i] = N(g, i)
    BY <2>1, Zenon
  <2>4. \A i \in k..(n + 2) : h[i] = IF i = k THEN N(g, k) ELSE g[i]
    BY Zenon
  <2>5. h = [i \in k..(n + 2) |-> h[i]]
    BY <2>4, Zenon
  <2> HIDE DEF h
  <2>6. ASSUME NEW i \in k..(n + 2)
        PROVE  h[i] = N(h, i)
    <3>1. i <= n => g[i + 1] = h[i + 1] /\ g[i + 2] = h[i + 2]
      BY <2>2, <2>4, Zenon
    <3>2. N(g, i) = N(h, i)
      BY <1>3, <2>2, <3>1, Zenon
    <3>3. h[i] = N(g, i)
      <4>1. CASE i = k
        BY <2>4, <4>1, Zenon
      <4>2. CASE i # k
        BY <2>2, <2>3, <2>4, <4>2, Zenon
      <4> QED
        BY <4>1, <4>2, Zenon
    <3> QED
      BY <3>2, <3>3, Zenon
  <2>7. From2(h, k)
    BY <2>5, <2>6, Zenon
  <2> HIDE DEF From2
  <2> QED
    BY <2>2, <2>7, Zenon
<1>6. \E g : From2(g, 1)
  <2> DEFINE Ok == {k \in 0..(n + 1) : (n + 2) - k \in Good}
  <2>1. 0 \in Ok
    <3>1. (n + 2) - 0 = n + 2 /\ 0 \in 0..(n + 1)
      BY <1>1
    <3> QED
      BY <1>4, <3>1, Zenon
  <2>2. ASSUME NEW k \in 1..(n + 1), k - 1 \in Ok
        PROVE  k \in Ok
    <3>1. (n + 2) - k \in 1..(n + 1) /\ ((n + 2) - k) + 1 = (n + 2) - (k - 1) /\ k \in 0..(n + 1)
      BY <1>1
    <3>2. (n + 2) - (k - 1) \in Good
      BY <2>2, Zenon
    <3> HIDE DEF Good
    <3>3. (n + 2) - k \in Good
      BY <1>5, <3>1, <3>2, Zenon
    <3> QED
      BY <3>1, <3>3, Zenon
  <2> HIDE DEF Ok
  <2>3. n + 1 \in Nat /\ n + 1 \in 0..(n + 1) /\ (n + 2) - (n + 1) = 1
    BY <1>1
  <2>4. \A k \in 0..(n + 1) : k \in Ok
    BY <2>1, <2>2, <2>3, AllTurns
  <2>5. (n + 2) - (n + 1) \in Good
    BY <2>3, <2>4, Zenon DEF Ok
  <2> HIDE DEF From2
  <2> QED
    BY <2>3, <2>5, Zenon
<1>7. From2(rest, 1)
  BY <1>6, Zenon
<1> HIDE DEF rest
<1>8. UnescapeTurns(rest, s)
  <2>1. \A i \in 1..(n + 2) : rest[i] = N(rest, i)
    BY <1>7, Zenon
  <2> QED
    BY <2>1, Zenon DEF UnescapeTurns, N, n
<1> QED
  BY <1>2, <1>8, Zenon


\* Every backslash of a string begins an escape.
Escapes(s) == \A i \in 1..Len(s) : s[i] = Backslash => At(s, i) \in {CharN, CharT}

\* A string without backslashes.
Plain(s) == \A i \in 1..Len(s) : s[i] # Backslash

\* An escape becomes one character, any other character stays.
LEMMA UnescapeIs ==
  ASSUME NEW s \in Str, NEW rest, UnescapeTurns(rest, s)
  PROVE  /\ rest[Len(s) + 1] = <<>> /\ rest[Len(s) + 2] = <<>>
         /\ \A i \in 1..Len(s) :
              /\ s[i] = Backslash => rest[i] = <<Merged(At(s, i))>> \o rest[i + 2]
              /\ s[i] # Backslash => rest[i] = <<s[i]>> \o rest[i + 1]
<1> DEFINE n == Len(s)
<1>1. n \in Nat
  BY DEF Str
<1>2. \A i \in 1..(n + 2) : rest[i] = Unescape(s, rest, i)
  BY Zenon DEF UnescapeTurns
<1>3. /\ n + 1 \in 1..(n + 2) /\ n + 2 \in 1..(n + 2) /\ n + 1 > n /\ n + 2 > n
      /\ \A i \in 1..n : i \in 1..(n + 2) /\ ~(i > n)
  BY <1>1
<1> QED
  BY <1>2, <1>3, Zenon DEF Unescape

\* No escape is left.
LEMMA RestIsPlain ==
  ASSUME NEW s \in Str, NEW rest, UnescapeTurns(rest, s)
  PROVE  /\ \A i \in 1..(Len(s) + 2) : rest[i] \in Str
         /\ Escapes(s) => \A i \in 1..(Len(s) + 2) : Plain(rest[i])
<1> DEFINE n == Len(s)
           Good == {i \in 1..(n + 2) : rest[i] \in Str /\ (Escapes(s) => Plain(rest[i]))}
<1>1. n \in Nat
  BY DEF Str
<1>2. <<>> \in Str /\ Plain(<<>>)
  <2>1. 1..Len(<<>>) = {}
    OBVIOUS
  <2>2. Plain(<<>>)
    BY <2>1 DEF Plain
  <2> QED
    BY <2>2 DEF Str
<1>3. n + 1 \in Good /\ n + 2 \in Good
  <2>1. n + 1 \in 1..(n + 2) /\ n + 2 \in 1..(n + 2)
    BY <1>1
  <2>2. rest[n + 1] = <<>> /\ rest[n + 2] = <<>>
    BY UnescapeIs, Zenon
  <2> QED
    BY <1>2, <2>1, <2>2, Zenon
<1>4. ASSUME NEW c \in Nat, NEW t \in Str, NEW u, u = <<c>> \o t
      PROVE  u \in Str /\ (c # Backslash /\ Plain(t) => Plain(u))
  <2>1. /\ u \in Str /\ u # <<>> /\ u[1] = c /\ Tail(u) = t /\ Len(u) = Len(t) + 1
    BY <1>4, TailOf, Zenon
  <2>2. \A k \in 1..Len(Tail(u)) : Tail(u)[k] = u[k + 1]
    BY <2>1, HeadTailProperties DEF Str
  <2>3. ASSUME c # Backslash, Plain(t), NEW k \in 1..Len(u)
        PROVE  u[k] # Backslash
    <3>1. Len(t) \in Nat
      BY DEF Str
    <3>2. k = 1 \/ (k - 1 \in 1..Len(t) /\ (k - 1) + 1 = k)
      BY <2>1, <3>1
    <3> QED
      BY <2>1, <2>2, <2>3, <3>2, Zenon DEF Plain
  <2> QED
    BY <2>1, <2>3, Zenon DEF Plain
<1>5. ASSUME NEW i \in 1..n, i + 1 \in Good, i + 2 \in Good
      PROVE  i \in Good
  <2>1. i \in 1..(n + 2) /\ i \in Nat
    BY <1>1
  <2>2. /\ s[i] = Backslash => rest[i] = <<Merged(At(s, i))>> \o rest[i + 2]
        /\ s[i] # Backslash => rest[i] = <<s[i]>> \o rest[i + 1]
    BY UnescapeIs, Zenon
  <2>3. CASE s[i] = Backslash
    <3> DEFINE c == Merged(At(s, i))
    <3>1. c \in Nat
      BY DEF Merged, Newline, TabChar, Backslash
    <3>2. At(s, i) \in {CharN, CharT} => c # Backslash
      BY DEF Merged, Newline, TabChar, Backslash, CharN, CharT
    <3>3. rest[i] = <<c>> \o rest[i + 2] /\ rest[i + 2] \in Str
      BY <1>5, <2>2, <2>3, Zenon
    <3>4. Escapes(s) => At(s, i) \in {CharN, CharT}
      BY <2>3, Zenon DEF Escapes
    <3> HIDE DEF c
    <3>5. rest[i] \in Str /\ (c # Backslash /\ Plain(rest[i + 2]) => Plain(rest[i]))
      BY <1>4, <3>1, <3>3, Zenon
    <3> QED
      BY <1>5, <2>1, <3>2, <3>4, <3>5, Zenon
  <2>4. CASE s[i] # Backslash
    <3> DEFINE c == s[i]
    <3>1. c \in Nat
      BY DEF Str
    <3>2. rest[i] = <<c>> \o rest[i + 1] /\ rest[i + 1] \in Str /\ c # Backslash
      BY <1>5, <2>2, <2>4, Zenon
    <3> HIDE DEF c
    <3>3. rest[i] \in Str /\ (c # Backslash /\ Plain(rest[i + 1]) => Plain(rest[i]))
      BY <1>4, <3>1, <3>2, Zenon
    <3> QED
      BY <1>5, <2>1, <3>2, <3>3, Zenon
  <2> QED
    BY <2>3, <2>4, Zenon
<1> HIDE DEF Good
<1>6. \A i \in 1..(n + 2) : i \in Good
  BY <1>1, <1>3, <1>5, DownTurns
<1> QED
  BY <1>6, Zenon DEF Good, n

\* A string without escapes stays as it is.
LEMMA NothingToUnescape ==
  ASSUME NEW s \in Str, Plain(s)
  PROVE  Unescaped(s) = s
<1> DEFINE n == Len(s)
<1>1. n \in Nat
  BY DEF Str
<1>2. PICK rest : UnescapeTurns(rest, s) /\ Unescaped(s) = rest[1]
  BY UnescapedIs, Zenon
<1> DEFINE Good == {i \in 1..(n + 2) : rest[i] = From(s, i - 1)}
<1>3. n + 1 \in Good /\ n + 2 \in Good
  <2>1. /\ n + 1 \in 1..(n + 2) /\ n + 2 \in 1..(n + 2) /\ (n + 1) - 1 \in Nat /\ (n + 2) - 1 \in Nat
        /\ (n + 1) - 1 >= n /\ (n + 2) - 1 >= n
    BY <1>1
  <2>2. From(s, (n + 1) - 1) = <<>> /\ From(s, (n + 2) - 1) = <<>>
    BY <2>1, FromIs, Zenon
  <2>3. rest[n + 1] = <<>> /\ rest[n + 2] = <<>>
    BY <1>2, UnescapeIs, Zenon
  <2> QED
    BY <2>1, <2>2, <2>3, Zenon
<1>4. ASSUME NEW i \in 1..n, i + 1 \in Good, i + 2 \in Good
      PROVE  i \in Good
  <2>1. i \in 1..(n + 2) /\ (i + 1) - 1 = i
    BY <1>1
  <2>2. rest[i] = <<s[i]>> \o rest[i + 1]
    BY <1>2, UnescapeIs, Zenon DEF Plain
  <2>3. From(s, i - 1) = <<s[i]>> \o From(s, i)
    BY FromIsNext, Zenon
  <2>4. rest[i + 1] = From(s, i)
    BY <1>4, <2>1, Zenon
  <2> QED
    BY <2>1, <2>2, <2>3, <2>4, Zenon
<1> HIDE DEF Good
<1>5. \A i \in 1..(n + 2) : i \in Good
  BY <1>1, <1>3, <1>4, DownTurns
<1>6. 1 \in 1..(n + 2) /\ 0 \in Nat /\ 1 - 1 = 0
  BY <1>1
<1>7. rest[1] = From(s, 1 - 1)
  BY <1>5, <1>6, Zenon DEF Good
<1>8. From(s, 0) = s
  BY <1>6, FromIs, Zenon
<1> QED
  BY <1>2, <1>6, <1>7, <1>8, Zenon

\* The rest of a string loses the escapes that are in it.
LEMMA SuffixUnescaped ==
  ASSUME NEW s \in Str, NEW rest, UnescapeTurns(rest, s), NEW p \in 0..Len(s)
  PROVE  Unescaped(From(s, p)) = rest[p + 1]
<1> DEFINE n == Len(s)
           t == From(s, p)
           m == Len(t)
<1>1. n \in Nat /\ p \in Nat
  BY DEF Str
<1>2. t \in Str /\ m = (IF p <= n THEN n - p ELSE 0) /\ \A k \in 1..(n - p) : t[k] = s[p + k]
  BY <1>1, FromIs, Zenon
<1>3. m = n - p /\ m \in Nat
  BY <1>1, <1>2
<1>4. PICK left : UnescapeTurns(left, t) /\ Unescaped(t) = left[1]
  BY <1>2, UnescapedIs, Zenon
<1> DEFINE Good == {i \in 1..(m + 2) : left[i] = rest[p + i]}
<1>5. m + 1 \in Good /\ m + 2 \in Good
  <2>1. m + 1 \in 1..(m + 2) /\ m + 2 \in 1..(m + 2) /\ p + (m + 1) = n + 1 /\ p + (m + 2) = n + 2
    BY <1>1, <1>3
  <2>2. left[m + 1] = <<>> /\ left[m + 2] = <<>>
    BY <1>2, <1>4, UnescapeIs, Zenon
  <2>3. rest[n + 1] = <<>> /\ rest[n + 2] = <<>>
    BY UnescapeIs, Zenon
  <2> QED
    BY <2>1, <2>2, <2>3, Zenon
<1>6. ASSUME NEW i \in 1..m, i + 1 \in Good, i + 2 \in Good
      PROVE  i \in Good
  <2>1. /\ i \in 1..(m + 2) /\ p + i \in 1..n /\ i \in 1..(n - p) /\ i \in Nat
        /\ (p + i) + 1 = p + (i + 1) /\ (p + i) + 2 = p + (i + 2)
    BY <1>1, <1>3
  <2>2. t[i] = s[p + i] /\ At(t, i) = At(s, p + i)
    BY <1>1, <1>2, <2>1, AtFrom, Zenon
  <2>3. left[i + 1] = rest[(p + i) + 1] /\ left[i + 2] = rest[(p + i) + 2]
    BY <1>6, <2>1, Zenon
  <2> DEFINE j == p + i
  <2>4. /\ s[j] = Backslash => rest[j] = <<Merged(At(s, j))>> \o rest[j + 2]
        /\ s[j] # Backslash => rest[j] = <<s[j]>> \o rest[j + 1]
    BY <2>1, UnescapeIs, Zenon
  <2>5. /\ t[i] = Backslash => left[i] = <<Merged(At(t, i))>> \o left[i + 2]
        /\ t[i] # Backslash => left[i] = <<t[i]>> \o left[i + 1]
    BY <1>2, <1>4, UnescapeIs, Zenon
  <2>6. left[i] = rest[j]
    <3> HIDE DEF t, j
    <3>1. t[i] = s[j] /\ At(t, i) = At(s, j) /\ left[i + 1] = rest[j + 1] /\ left[i + 2] = rest[j + 2]
      BY <2>2, <2>3, Zenon DEF j
    <3> QED
      BY <2>4, <2>5, <3>1, Zenon
  <2> QED
    BY <2>1, <2>6, Zenon
<1> HIDE DEF Good, m, t
<1>7. \A i \in 1..(m + 2) : i \in Good
  BY <1>3, <1>5, <1>6, DownTurns
<1>8. 1 \in 1..(m + 2)
  BY <1>3
<1>9. left[1] = rest[p + 1]
  BY <1>7, <1>8, Zenon DEF Good
<1> QED
  BY <1>4, <1>9, Zenon DEF t


(***************************************************************************)
(* The places of a line and of what it is without its escapes.              *)
(***************************************************************************)
Ahead(u, j, c, t) ==
  /\ u \in Str /\ j \in 0..Len(u) /\ c \in Nat /\ t \in Str
  /\ From(u, j) = <<c>> \o t

\* One character further in the unescaped line.
LEMMA OneFurther ==
  ASSUME NEW u, NEW j, NEW c, NEW t, Ahead(u, j, c, t)
  PROVE  /\ j + 1 \in 1..Len(u) /\ j + 1 \in 0..Len(u) /\ u[j + 1] = c /\ From(u, j + 1) = t
<1>0. /\ u \in Str /\ j \in 0..Len(u) /\ c \in Nat /\ t \in Str
      /\ From(u, j) = <<c>> \o t
  BY Zenon DEF Ahead
<1> USE <1>0
<1>1. Len(u) \in Nat /\ j \in Nat
  BY DEF Str
<1>2. <<c>> \o t # <<>> /\ (<<c>> \o t)[1] = c /\ Tail(<<c>> \o t) = t
  BY TailOf, Zenon
<1>3. ~(j >= Len(u))
  BY <1>1, <1>2, FromIs, Zenon
<1>4. j + 1 \in 1..Len(u) /\ j + 1 \in 0..Len(u) /\ (j + 1) - 1 = j /\ j + 1 \in Nat
  BY <1>1, <1>3
<1> DEFINE d == u[j + 1]
           v == From(u, j + 1)
<1>5. d \in Nat /\ v \in Str
  <2>1. d \in Nat
    BY <1>4 DEF Str
  <2>2. v \in Str
    BY <1>4, FromIs, Zenon
  <2> QED
    BY <2>1, <2>2, Zenon
<1>6. From(u, (j + 1) - 1) = <<d>> \o v
  BY <1>4, FromIsNext, Zenon
<1> HIDE DEF d, v
<1>7. <<d>> \o v = <<c>> \o t
  BY <1>4, <1>6, Zenon
<1>8. (<<d>> \o v)[1] = d /\ Tail(<<d>> \o v) = v
  BY <1>5, TailOf, Zenon
<1>9. d = c /\ v = t
  BY <1>2, <1>7, <1>8, Zenon
<1> QED
  BY <1>4, <1>9, Zenon DEF d, v

\* Every percent sign of a string begins a conversion.
Percents(s) == \A i \in 1..Len(s) : s[i] = Percent => Option(s, i)

\* The place j of the unescaped line u at which what is left is that of the line's i-th
\* character on, without escapes.
Same(u, s, rest, i, j) ==
  /\ i \in 1..(Len(s) + 1) /\ j \in 0..Len(u) /\ rest[i] = From(u, j)
  /\ Options(u, j) = Options(s, i - 1) /\ Starts(u, j)

\* Across a character that is printed.
LEMMA SameAcrossChar ==
  ASSUME NEW s \in Str, NEW rest, UnescapeTurns(rest, s), Escapes(s), Percents(s),
         NEW u \in Str, NEW i \in 1..Len(s), NEW j, Same(u, s, rest, i, j), s[i] # Percent
  PROVE  /\ j + 1 \in 1..Len(u) /\ ~Option(u, j + 1) /\ rest[i] # <<>> /\ u[j + 1] # Percent
         /\ \E next \in {i + 1, i + 2} :
              Same(u, s, rest, next, j + 1) /\ rest[i] = <<u[j + 1]>> \o rest[next]
<1> DEFINE n == Len(s)
<1>1. n \in Nat /\ i \in Nat
  BY DEF Str
<1>2. j \in 0..Len(u) /\ j \in Nat /\ rest[i] = From(u, j) /\ Options(u, j) = Options(s, i - 1)
  BY DEF Same
<1>3. \A k \in 1..(n + 2) : rest[k] \in Str
  BY RestIsPlain, Zenon
<1>4. ASSUME NEW c \in Nat, c # Percent, NEW next \in {i + 1, i + 2}, next \in 1..(n + 1),
             rest[i] = <<c>> \o rest[next], Options(s, next - 1) = Options(s, i - 1)
      PROVE  /\ j + 1 \in 1..Len(u) /\ ~Option(u, j + 1) /\ rest[i] # <<>> /\ u[j + 1] # Percent
             /\ \E m \in {i + 1, i + 2} :
                  Same(u, s, rest, m, j + 1) /\ rest[i] = <<u[j + 1]>> \o rest[m]
  <2>1. rest[next] \in Str
    <3>1. next \in 1..(n + 2)
      BY <1>1, <1>4
    <3> QED
      BY <1>3, <3>1, Zenon
  <2>2. From(u, j) = <<c>> \o rest[next]
    BY <1>2, <1>4, Zenon
  <2>3. /\ j + 1 \in 1..Len(u) /\ j + 1 \in 0..Len(u) /\ u[j + 1] = c
        /\ From(u, j + 1) = rest[next]
    <3>1. Ahead(u, j, c, rest[next])
      BY <1>2, <1>4, <2>1, <2>2, Zenon DEF Ahead
    <3> QED
      BY <3>1, OneFurther, Zenon
  <2>4. ~Option(u, j + 1)
    BY <1>4, <2>3, Zenon DEF Option
  <2>5. Options(u, j + 1) = Options(u, j)
    <3>1. (j + 1) - 1 = j
      BY <1>2
    <3>2. Options(u, j + 1) = Options(u, (j + 1) - 1)
      BY <2>3, <2>4, OptionsAre, Zenon
    <3> QED
      BY <3>1, <3>2, Zenon
  <2>6. Same(u, s, rest, next, j + 1)
    BY <1>2, <1>4, <2>3, <2>4, <2>5, Zenon DEF Same, Starts
  <2>7. rest[i] # <<>>
    <3>1. <<c>> \o rest[next] # <<>>
      BY <1>4, <2>1, TailOf, Zenon
    <3> QED
      BY <1>4, <3>1, Zenon
  <2>8. rest[i] = <<u[j + 1]>> \o rest[next]
    BY <1>4, <2>3, Zenon
  <2> QED
    BY <1>4, <2>3, <2>4, <2>6, <2>7, <2>8, Zenon
<1>5. ~Option(s, i) /\ Options(s, i) = Options(s, i - 1)
  <2>1. ~Option(s, i)
    BY Zenon DEF Option
  <2> QED
    BY <2>1, OptionsAre, Zenon
<1>6. /\ s[i] = Backslash => rest[i] = <<Merged(At(s, i))>> \o rest[i + 2]
      /\ s[i] # Backslash => rest[i] = <<s[i]>> \o rest[i + 1]
  BY UnescapeIs, Zenon
<1>7. CASE s[i] # Backslash
  <2> DEFINE c == s[i]
  <2>1. c \in Nat /\ c # Percent /\ i + 1 \in 1..(n + 1) /\ (i + 1) - 1 = i /\ i + 1 \in {i + 1, i + 2}
    BY <1>1 DEF Str
  <2>2. rest[i] = <<c>> \o rest[i + 1] /\ Options(s, (i + 1) - 1) = Options(s, i - 1)
    BY <1>5, <1>6, <1>7, <2>1, Zenon
  <2> HIDE DEF c
  <2> QED
    BY <1>4, <2>1, <2>2, Zenon
<1>8. CASE s[i] = Backslash
  <2> DEFINE c == Merged(At(s, i))
  <2>1. At(s, i) \in {CharN, CharT}
    BY <1>8, Zenon DEF Escapes
  <2>2. c \in Nat /\ c # Percent
    BY <2>1 DEF Merged, Newline, TabChar, Percent, CharN, CharT
  <2>3. At(s, i) # 0 /\ At(s, i) # Percent
    BY <2>1 DEF CharN, CharT, Percent
  <2>4. i + 1 \in 1..n /\ At(s, i) = s[i + 1]
    <3>1. ~(i >= n)
      BY <1>1, <2>3, AtIs, Zenon
    <3>2. i < n
      BY <1>1, <3>1
    <3> QED
      BY <1>1, <3>2, AtIs, Zenon
  <2>5. ~Option(s, i + 1)
    BY <2>3, <2>4, Zenon DEF Option
  <2>6. (i + 1) - 1 = i /\ (i + 2) - 1 = i + 1 /\ i + 2 \in 1..(n + 1) /\ i + 2 \in {i + 1, i + 2}
    BY <1>1, <2>4
  <2>7. Options(s, i + 1) = Options(s, (i + 1) - 1)
    BY <2>4, <2>5, OptionsAre, Zenon
  <2>8. Options(s, (i + 2) - 1) = Options(s, i - 1)
    BY <1>5, <2>6, <2>7, Zenon
  <2>9. rest[i] = <<c>> \o rest[i + 2]
    BY <1>6, <1>8, Zenon
  <2> HIDE DEF c
  <2> QED
    BY <1>4, <2>2, <2>6, <2>8, <2>9, Zenon
<1> QED
  BY <1>7, <1>8, Zenon

\* Across a conversion.
LEMMA SameAcrossOption ==
  ASSUME NEW s \in Str, NEW rest, UnescapeTurns(rest, s), Escapes(s), Percents(s),
         NEW u \in Str, NEW i \in 1..Len(s), NEW j, Same(u, s, rest, i, j), s[i] = Percent
  PROVE  /\ j + 1 \in 1..Len(u) /\ j + 2 \in 1..Len(u) /\ Option(u, j + 1) /\ Option(s, i)
         /\ ~Option(u, j + 2) /\ i + 1 \in 1..Len(s)
         /\ u[j + 2] = s[i + 1] /\ At(u, j + 1) = s[i + 1]
         /\ Options(u, j + 1) = Options(s, i)
         /\ Same(u, s, rest, i + 2, j + 2)
         /\ rest[i] # <<>> /\ rest[i][1] = Percent
<1> DEFINE n == Len(s)
           letter == s[i + 1]
<1>1. n \in Nat /\ i \in Nat
  BY DEF Str
<1>2. j \in 0..Len(u) /\ j \in Nat /\ rest[i] = From(u, j) /\ Options(u, j) = Options(s, i - 1)
      /\ Len(u) \in Nat
  BY DEF Same, Str
<1>3. \A k \in 1..(n + 2) : rest[k] \in Str
  BY RestIsPlain, Zenon
<1>4. Option(s, i)
  BY Zenon DEF Percents
<1>5. letter \in PrintfFormats /\ i + 1 \in 1..n /\ ~Option(s, i + 1)
  BY <1>4, OptionIs, Zenon
<1>6. letter # Backslash /\ letter # Percent /\ Percent # Backslash /\ letter \in Nat /\ Percent \in Nat
  BY <1>5 DEF PrintfFormats, CharS, CharD, CharC, Backslash, Percent
<1>7. rest[i] = <<Percent>> \o rest[i + 1]
  BY <1>6, UnescapeIs, Zenon
<1>8. rest[i + 1] = <<letter>> \o rest[i + 2]
  <2>1. (i + 1) + 1 = i + 2
    BY <1>1
  <2>2. rest[i + 1] = <<letter>> \o rest[(i + 1) + 1]
    BY <1>5, <1>6, UnescapeIs, Zenon
  <2> QED
    BY <2>1, <2>2, Zenon
<1>9. rest[i + 1] \in Str /\ rest[i + 2] \in Str /\ i + 2 \in 1..(n + 1)
  <2>1. i + 1 \in 1..(n + 2) /\ i + 2 \in 1..(n + 2) /\ i + 2 \in 1..(n + 1)
    BY <1>1, <1>5
  <2> QED
    BY <1>3, <2>1, Zenon
<1> HIDE DEF letter
<1> DEFINE p == Percent
<1>10. /\ j + 1 \in 1..Len(u) /\ j + 1 \in 0..Len(u) /\ u[j + 1] = Percent
       /\ From(u, j + 1) = rest[i + 1]
  <2>1. p \in Nat /\ From(u, j) = <<p>> \o rest[i + 1]
    BY <1>2, <1>6, <1>7, Zenon
  <2> HIDE DEF p
  <2>2. /\ j + 1 \in 1..Len(u) /\ j + 1 \in 0..Len(u) /\ u[j + 1] = p
        /\ From(u, j + 1) = rest[i + 1]
    <3>1. Ahead(u, j, p, rest[i + 1])
      BY <1>2, <1>9, <2>1, Zenon DEF Ahead
    <3> QED
      BY <3>1, OneFurther
  <2> QED
    BY <2>2, Zenon DEF p
<1>11. /\ j + 2 \in 1..Len(u) /\ j + 2 \in 0..Len(u) /\ u[j + 2] = letter
       /\ From(u, j + 2) = rest[i + 2]
  <2> DEFINE k == j + 1
  <2>1. k \in 0..Len(u) /\ From(u, k) = <<letter>> \o rest[i + 2]
    BY <1>8, <1>10, Zenon
  <2>2. k + 1 = j + 2
    BY <1>2
  <2> HIDE DEF k
  <2>3. /\ k + 1 \in 1..Len(u) /\ k + 1 \in 0..Len(u) /\ u[k + 1] = letter
        /\ From(u, k + 1) = rest[i + 2]
    <3>1. Ahead(u, k, letter, rest[i + 2])
      BY <1>6, <1>9, <2>1, Zenon DEF Ahead
    <3> QED
      BY <3>1, OneFurther, Zenon
  <2> QED
    BY <2>2, <2>3, Zenon
<1>12. At(u, j + 1) = letter
  <2>1. j + 1 < Len(u) /\ (j + 1) + 1 = j + 2 /\ j + 1 \in Nat
    BY <1>2, <1>11
  <2> QED
    BY <1>11, <2>1, AtIs, Zenon
<1>13. Option(u, j + 1) /\ ~Option(u, j + 2)
  BY <1>5, <1>6, <1>10, <1>11, <1>12, Zenon DEF Option
<1>14. /\ (j + 1) - 1 = j /\ (j + 2) - 1 = j + 1 /\ (i + 1) - 1 = i /\ (i + 2) - 1 = i + 1
  BY <1>1, <1>2
<1>15. /\ Options(u, j + 1) = Options(u, (j + 1) - 1) + 1
       /\ Options(u, j + 2) = Options(u, (j + 2) - 1)
  BY <1>10, <1>11, <1>13, OptionsAre, Zenon
<1>16. /\ Options(s, i) = Options(s, i - 1) + 1 /\ Options(s, i + 1) = Options(s, (i + 1) - 1)
  BY <1>4, <1>5, OptionsAre, Zenon
<1>17. Options(u, j + 1) = Options(s, i) /\ Options(u, j + 2) = Options(s, (i + 2) - 1)
  BY <1>2, <1>14, <1>15, <1>16, Zenon
<1>18. Same(u, s, rest, i + 2, j + 2)
  BY <1>9, <1>11, <1>13, <1>17, Zenon DEF Same, Starts
<1>19. rest[i] # <<>> /\ rest[i][1] = Percent
  <2>1. p \in Nat /\ rest[i] = <<p>> \o rest[i + 1]
    BY <1>6, <1>7, Zenon
  <2> HIDE DEF p
  <2>2. rest[i] # <<>> /\ rest[i][1] = p
    <3>1. <<p>> \o rest[i + 1] # <<>> /\ (<<p>> \o rest[i + 1])[1] = p
      BY <1>9, <2>1, TailOf, Zenon
    <3> QED
      BY <2>1, <3>1, Zenon
  <2> QED
    BY <2>2, Zenon DEF p
<1> QED
  BY <1>4, <1>5, <1>10, <1>11, <1>12, <1>13, <1>17, <1>18, <1>19, Zenon DEF letter


(***************************************************************************)
(* The printf command.                                                      *)
(***************************************************************************)
Left(fmt, args, out) == [fmt |-> fmt, args |-> args, out |-> out]

\* The turns of the printf command's loop.
PrintTurns(print, fmt, args) ==
  /\ print[0] = Left(fmt, args, <<>>)
  /\ \A k \in 1..Len(fmt) : print[k] = PrintedNext(print[k - 1])

\* Walked is what these turns print.
LEMMA WalkedIs ==
  ASSUME NEW fmt \in Str, NEW args
  PROVE  \E print : PrintTurns(print, fmt, args) /\ Walked(fmt, args) = print[Len(fmt)].out
<1> DEFINE n == Len(fmt)
           a == Left(fmt, args, <<>>)
           N(s) == PrintedNext(s)
           Upto(g, m) == g = [k \in 0..m |-> IF k = 0 THEN a ELSE N(g[k - 1])]
           Good == {m \in 0..n : \E g : Upto(g, m)}
           print == CHOOSE g : Upto(g, n)
<1>1. n \in Nat
  BY DEF Str
<1>2. Walked(fmt, args) = print[n].out
  BY Zenon DEF Walked, Left
<1> HIDE DEF n, a, N
<1>3. 0 \in Good
  <2> DEFINE g == [k \in 0..0 |-> a]
  <2>1. \A k \in 0..0 : k = 0
    OBVIOUS
  <2>2. Upto(g, 0)
    BY <2>1, Zenon
  <2> HIDE DEF Upto, g
  <2>3. 0 \in 0..n
    BY <1>1
  <2> QED
    BY <2>2, <2>3, Zenon
<1>4. ASSUME NEW m \in 1..n, m - 1 \in Good
      PROVE  m \in Good
  <2>1. PICK g : Upto(g, m - 1)
    BY <1>4, Zenon
  <2> DEFINE h == [k \in 0..m |-> IF k = m THEN N(g[m - 1]) ELSE g[k]]
  <2>2. m - 1 \in 0..(m - 1) /\ m # 0 /\ m \in 0..n /\ \A k \in 0..m : k # m => k \in 0..(m - 1)
    OBVIOUS
  <2>3. \A k \in 0..m : k # 0 => k - 1 \in 0..m /\ k - 1 # m
    OBVIOUS
  <2>4. \A k \in 0..(m - 1) : g[k] = IF k = 0 THEN a ELSE N(g[k - 1])
    BY <2>1, Zenon
  <2>5. \A k \in 0..m : h[k] = IF k = m THEN N(g[m - 1]) ELSE g[k]
    BY Zenon
  <2>6. h = [k \in 0..m |-> h[k]]
    BY <2>5, Zenon
  <2> HIDE DEF h
  <2>7. \A k \in 0..m : k # 0 => h[k - 1] = g[k - 1]
    BY <2>3, <2>5, Zenon
  <2>8. \A k \in 0..m : h[k] = IF k = 0 THEN a ELSE N(h[k - 1])
    <3>1. ASSUME NEW k \in 0..m
          PROVE  h[k] = IF k = 0 THEN a ELSE N(h[k - 1])
      <4>1. CASE k = m
        BY <2>2, <2>5, <2>7, <4>1, Zenon
      <4>2. CASE k # m
        <5>1. h[k] = g[k] /\ k \in 0..(m - 1)
          BY <2>2, <2>5, <4>2, Zenon
        <5> QED
          BY <2>4, <2>7, <5>1, Zenon
      <4> QED
        BY <4>1, <4>2, Zenon
    <3> QED
      BY <3>1, Zenon
  <2>9. Upto(h, m)
    BY <2>6, <2>8, Zenon
  <2> HIDE DEF Upto
  <2> QED
    BY <2>2, <2>9, Zenon
<1>5. \E g : Upto(g, n)
  <2> HIDE DEF Good
  <2>1. \A m \in 0..n : m \in Good
    BY <1>1, <1>3, <1>4, AllTurns
  <2>2. n \in 0..n
    BY <1>1
  <2> QED
    BY <2>1, <2>2, Zenon DEF Good
<1>6. Upto(print, n)
  BY <1>5, Zenon
<1> HIDE DEF print
<1>7. \A k \in 0..n : print[k] = IF k = 0 THEN a ELSE N(print[k - 1])
  BY <1>6, Zenon
<1>8. 0 \in 0..n /\ \A k \in 1..n : k \in 0..n /\ k # 0
  BY <1>1
<1>9. PrintTurns(print, fmt, args)
  BY <1>7, <1>8, Zenon DEF PrintTurns, n, a, N
<1> QED
  BY <1>2, <1>9, Zenon DEF n

\* A turn of _printf's loop, by the state it begins in.
LEMMA PrintedOver ==
  ASSUME NEW args, NEW out
  PROVE  PrintedNext(Left(<<>>, args, out)) = Left(<<>>, args, out)
<1> DEFINE s == Left(<<>>, args, out)
<1>1. s.fmt = <<>>
  BY DEF Left
<1> HIDE DEF s
<1> DEFINE x == s.fmt
<1>2. x = <<>>
  BY <1>1
<1> HIDE DEF x
<1> QED
  BY <1>2, Zenon DEF PrintedNext, s, x

\* A turn that prints a character, of the format without the escapes it had.
LEMMA PrintedChar ==
  ASSUME NEW fmt, NEW args, NEW out, fmt # <<>>, Head(fmt) # Percent,
         NEW f, f = Unescaped(fmt)
  PROVE  PrintedNext(Left(fmt, args, out)) = Left(Tail(f), args, Append(out, Head(f)))
<1> DEFINE s == Left(fmt, args, out)
           x == s.fmt
           h == Head(f)
           t == Tail(f)
           r == [s EXCEPT !.fmt = t, !.out = Append(@, h)]
<1>1. x = fmt
  BY DEF Left
<1>2. r = Left(t, args, Append(out, h))
  <2> HIDE DEF h, t
  <2>1. r = [[s EXCEPT !.fmt = t] EXCEPT !.out = Append(@, h)]
    OBVIOUS
  <2> DEFINE s1 == Left(t, args, out)
  <2>2. [s EXCEPT !.fmt = t] = s1
    BY DEF Left
  <2>3. [s1 EXCEPT !.out = Append(@, h)] = Left(t, args, Append(out, h))
    <3> DEFINE a == Append(out, h)
    <3>1. [s1 EXCEPT !.out = Append(@, h)] = [s1 EXCEPT !.out = a]
      BY DEF Left
    <3> HIDE DEF a
    <3>2. [s1 EXCEPT !.out = a] = Left(t, args, a)
      BY DEF Left
    <3> QED
      BY <3>1, <3>2, Zenon DEF a
  <2> HIDE DEF s, s1
  <2> QED
    BY <2>1, <2>2, <2>3, Zenon DEF s1
<1>3. PrintedNext(s) = r
  <2> HIDE DEF s
  <2>1. x # <<>> /\ Head(x) # Percent /\ f = Unescaped(x)
    BY <1>1, Zenon
  <2> HIDE DEF x
  <2> QED
    BY <2>1, Zenon DEF PrintedNext, x
<1> QED
  BY <1>2, <1>3, Zenon DEF s, h, t

\* A turn that prints a word for a conversion.
LEMMA PrintedWord ==
  ASSUME NEW fmt, NEW args, NEW out, fmt # <<>>, Head(fmt) = Percent, args # <<>>,
         NEW option \in PrintfFormats, option = At(fmt, 1),
         option = CharD => IsNumber(Head(args))
  PROVE  PrintedNext(Left(fmt, args, out)) =
           Left(From(fmt, 2), Tail(args), out \o PrintArg(option, AsArg(option, Head(args))))
<1> DEFINE s == Left(fmt, args, out)
           x == s.fmt
           y == s.args
           z == s.out
<1>1. x = fmt /\ y = args /\ z = out
  BY DEF Left
<1> HIDE DEF s
<1>2. x # <<>> /\ Head(x) = Percent /\ option = At(x, 1) /\ y # <<>>
      /\ (option = CharD => IsNumber(Head(y)))
  BY <1>1, Zenon
<1> HIDE DEF x, y, z
<1>3. PrintedNext(s) = [fmt |-> From(x, 2), args |-> Tail(y),
                        out |-> z \o PrintArg(option, AsArg(option, Head(y)))]
  BY <1>2, Zenon DEF PrintedNext, x, y, z
<1> QED
  BY <1>1, <1>3, Zenon DEF Left, s

\* The words that are left.
WordsFrom(m) == SubSeq(Words, m + 1, Len(Words))

\* The command's words are words.
LEMMA WordIs ==
  ASSUME NEW i \in 1..Len(Words)
  PROVE  Words[i] \in Word /\ Words[i] \in Seq(1..127)
<1>1. Words \in Seq(Seq(1..127) \ {<<>>}) /\ \A c \in ToSet(Words[i]) : ~isspace(c)
  BY WordsAssumption, Zenon
<1> DEFINE w == Words[i]
<1>2. w \in Seq(1..127) /\ w # <<>>
  BY <1>1
<1> HIDE DEF w
<1>3. w \in Str /\ \A k \in 1..Len(w) : w[k] \in ToSet(w)
  BY <1>2, TextIs, Zenon
<1>4. \A k \in 1..Len(w) : ~isspace(w[k])
  BY <1>1, <1>3, Zenon DEF w
<1>5. w \in Word
  BY <1>2, <1>3, <1>4, Zenon DEF Word
<1> QED
  BY <1>2, <1>5, Zenon DEF w

\* The words that are left, and the next one.
LEMMA NextWordLeft ==
  ASSUME NEW m \in Nat, m + 1 <= Len(Words)
  PROVE  /\ WordsFrom(m) # <<>> /\ Head(WordsFrom(m)) = Words[m + 1]
         /\ Tail(WordsFrom(m)) = WordsFrom(m + 1)
<1> DEFINE n == Len(Words)
           S == Seq(1..127) \ {<<>>}
           t == WordsFrom(m)
           u == WordsFrom(m + 1)
           v == Tail(t)
<1>1. Words \in Seq(S)
  BY WordsAssumption, Zenon
<1> HIDE DEF S
<1>2. n \in Nat /\ \A k \in 1..n : Words[k] \in S
  BY <1>1
<1>3. /\ t \in Seq(S) /\ Len(t) = IF m + 1 <= n THEN n - (m + 1) + 1 ELSE 0
      /\ \A k \in 1..(n - (m + 1) + 1) : t[k] = Words[(m + 1) + k - 1]
  <2>1. m + 1 \in Int /\ n \in Int /\ \A k \in (m + 1)..n : Words[k] \in S
    BY <1>2
  <2> QED
    BY <2>1, SubSeqProperties DEF WordsFrom
<1>4. /\ u \in Seq(S) /\ Len(u) = IF (m + 1) + 1 <= n THEN n - ((m + 1) + 1) + 1 ELSE 0
      /\ \A k \in 1..(n - ((m + 1) + 1) + 1) : u[k] = Words[((m + 1) + 1) + k - 1]
  <2>1. (m + 1) + 1 \in Int /\ n \in Int /\ \A k \in ((m + 1) + 1)..n : Words[k] \in S
    BY <1>2
  <2> QED
    BY <2>1, SubSeqProperties DEF WordsFrom
<1> HIDE DEF t, u, n
<1>5. Len(t) = n - m /\ Len(t) # 0 /\ Len(u) = (n - m) - 1
  BY <1>2, <1>3, <1>4 DEF n
<1>6. t # <<>> /\ Head(t) = t[1]
  <2>1. t # <<>>
    BY <1>5
  <2> QED
    BY <1>3, <2>1
<1>7. t[1] = Words[m + 1]
  <2>1. 1 \in 1..(n - (m + 1) + 1) /\ (m + 1) + 1 - 1 = m + 1
    BY <1>2 DEF n
  <2> QED
    BY <1>3, <2>1, Zenon
<1>8. v \in Seq(S) /\ Len(v) = Len(t) - 1 /\ \A k \in 1..Len(v) : v[k] = t[k + 1]
  BY <1>3, <1>6, HeadTailProperties
<1> HIDE DEF v
<1>9. ASSUME NEW k \in 1..Len(u)
      PROVE  v[k] = u[k]
  <2>1. /\ k \in 1..Len(v) /\ k + 1 \in 1..(n - (m + 1) + 1)
        /\ k \in 1..(n - ((m + 1) + 1) + 1)
        /\ (m + 1) + (k + 1) - 1 = ((m + 1) + 1) + k - 1
    BY <1>2, <1>5, <1>8
  <2>2. v[k] = t[k + 1] /\ t[k + 1] = Words[(m + 1) + (k + 1) - 1]
        /\ u[k] = Words[((m + 1) + 1) + k - 1]
    BY <1>3, <1>4, <1>8, <2>1, Zenon
  <2> QED
    BY <2>1, <2>2, Zenon
<1>10. v = u
  <2>1. Len(v) = Len(u)
    BY <1>5, <1>8
  <2> QED
    BY <1>4, <1>8, <1>9, <2>1, SeqEqual
<1> QED
  BY <1>6, <1>7, <1>10, Zenon DEF t, u, v


\* What is printed for a word is a string.
LEMMA ArgWritten ==
  ASSUME NEW word \in Word, NEW letter \in PrintfFormats, letter = CharD => IsNumber(word)
  PROVE  PrintArg(letter, AsArg(letter, word)) \in Str
<1>1. word \in Str /\ word # <<>> /\ word[1] \in Nat
  BY EmptySeq DEF Word, Str
<1>2. CASE letter = CharS
  BY <1>1, <1>2, Letters, Zenon DEF PrintArg, AsArg
<1>3. CASE letter = CharD
  <2> DEFINE n == Number(word)
  <2>1. n \in Ints
    BY <1>1, <1>3, NumberIs, ReadDecTyped, Zenon
  <2>2. AsArg(letter, word) = n
    BY <1>3, Zenon DEF AsArg
  <2> HIDE DEF n
  <2>3. PrintDec(n) \in Str
    <3> DEFINE none == <<>>
    <3>1. none \in Str /\ (none = <<>> \/ ~isdigit(none[1]))
      BY DEF Str
    <3> HIDE DEF none
    <3>2. PrintDec(n) \in Str
      BY <2>1, <3>1, DecReadBack
    <3> QED
      BY <3>2, Zenon
  <2> QED
    BY <1>3, <2>2, <2>3, Letters, Zenon DEF PrintArg
<1>4. CASE letter = CharC
  <2> DEFINE c == word[1] % 256
  <2>1. AsArg(letter, word) = word[1]
    BY <1>4, Letters, Zenon DEF AsArg
  <2>2. PrintArg(letter, AsArg(letter, word)) = <<c>>
    BY <1>4, <2>1, Letters, Zenon DEF PrintArg
  <2>3. c \in Nat
    BY <1>1
  <2> HIDE DEF c
  <2>4. <<c>> \in Str
    BY <2>3 DEF Str
  <2> QED
    BY <2>2, <2>4, Zenon
<1> QED
  BY <1>2, <1>3, <1>4, Letters

\* A line, what it is without escapes, and what printf writes for that.
Library(u, rest, args, text) ==
  /\ line \in Seq(1..127) /\ WellFormed(line) /\ UnescapeTurns(rest, line)
  /\ u \in Str /\ rest[1] = u /\ TextTurns(text, u, args)
  /\ args = [k \in 1..Options(line, Len(line)) |-> AsArg(Letter(line, k), Words[k])]

\* What _printf has before it at the line's i-th character, the unescaped line's j-th.
AtPlace(s, i, j, u, rest, text) ==
  /\ Same(u, line, rest, i, j) /\ text[j] \in Str
  /\ \E f \in {From(line, i - 1), rest[i]} : s = Left(f, WordsFrom(Options(line, i - 1)), text[j])

\* What Library says.
LEMMA LibraryIs ==
  ASSUME NEW u, NEW rest, NEW args, NEW text, Library(u, rest, args, text)
  PROVE  /\ line \in Str /\ Len(line) \in Nat /\ u \in Str /\ Len(u) \in Nat
         /\ UnescapeTurns(rest, line) /\ Escapes(line) /\ Percents(line)
         /\ Options(line, Len(line)) <= Len(Words)
         /\ \A k \in 1..Options(line, Len(line)) : Letter(line, k) = CharD => IsNumber(Words[k])
         /\ \A k \in 1..(Len(line) + 2) : rest[k] \in Str /\ Plain(rest[k])
         /\ text[0] = <<>>
         /\ \A i \in 1..Len(u) : text[i] = text[i - 1] \o Written(u, args, i)
<1>1. line \in Str /\ Len(line) \in Nat
  <2>1. line \in Seq(1..127)
    BY Zenon DEF Library
  <2> QED
    BY <2>1, TextIs, Zenon
<1>2. UnescapeTurns(rest, line) /\ u \in Str /\ TextTurns(text, u, args)
  BY Zenon DEF Library
<1>3. Len(u) \in Nat
  BY <1>2 DEF Str
<1>4. Escapes(line) /\ Percents(line)
  BY Zenon DEF Library, WellFormed, Escapes, Percents
<1>5. /\ Options(line, Len(line)) <= Len(Words)
      /\ \A k \in 1..Options(line, Len(line)) : Letter(line, k) = CharD => IsNumber(Words[k])
  BY Zenon DEF Library, WellFormed
<1>6. \A k \in 1..(Len(line) + 2) : rest[k] \in Str /\ Plain(rest[k])
  BY <1>1, <1>2, <1>4, RestIsPlain, Zenon
<1>7. /\ text[0] = <<>>
      /\ \A i \in 1..Len(u) : text[i] = text[i - 1] \o Written(u, args, i)
  BY <1>2, Zenon DEF TextTurns
<1> QED
  BY <1>1, <1>2, <1>3, <1>4, <1>5, <1>6, <1>7, Zenon

\* Whether _printf has replaced the escapes already makes no difference.
LEMMA FormatIs ==
  ASSUME NEW u, NEW rest, NEW args, NEW text, Library(u, rest, args, text),
         NEW i \in 1..(Len(line) + 1), NEW j, Same(u, line, rest, i, j),
         NEW f \in {From(line, i - 1), rest[i]}
  PROVE  /\ Unescaped(f) = rest[i] /\ f \in Str
         /\ i = Len(line) + 1 => f = <<>> /\ j = Len(u)
         /\ i \in 1..Len(line) =>
              /\ f # <<>>
              /\ line[i] # Percent => Head(f) # Percent
              /\ line[i] = Percent => /\ Head(f) = Percent /\ At(f, 1) = line[i + 1]
                                      /\ From(f, 2) \in {From(line, i + 1), rest[i + 2]}
<1> DEFINE n == Len(line)
<1>1. /\ line \in Str /\ n \in Nat /\ u \in Str /\ Len(u) \in Nat
      /\ UnescapeTurns(rest, line) /\ Escapes(line) /\ Percents(line)
      /\ \A k \in 1..(n + 2) : rest[k] \in Str /\ Plain(rest[k])
  BY LibraryIs, Zenon
<1>2. i \in 1..(n + 2) /\ i - 1 \in 0..n /\ (i - 1) + 1 = i /\ i - 1 \in Nat /\ i \in Nat
  BY <1>1
<1>3. rest[i] \in Str /\ Plain(rest[i]) /\ From(line, i - 1) \in Str
  BY <1>1, <1>2, FromIs, Zenon
<1>4. Unescaped(rest[i]) = rest[i]
  BY <1>3, NothingToUnescape, Zenon
<1>5. Unescaped(From(line, i - 1)) = rest[i]
  <2>1. Unescaped(From(line, i - 1)) = rest[(i - 1) + 1]
    BY <1>1, <1>2, SuffixUnescaped, Zenon
  <2> QED
    BY <1>2, <2>1, Zenon
<1>6. j \in 0..Len(u) /\ j \in Nat /\ rest[i] = From(u, j)
  BY DEF Same
<1>7. ASSUME i = n + 1
      PROVE  f = <<>> /\ j = Len(u)
  <2>1. i - 1 >= n
    BY <1>1, <1>7
  <2>2. From(line, i - 1) = <<>>
    BY <1>1, <1>2, <2>1, FromIs, Zenon
  <2>3. rest[i] = <<>>
    BY <1>1, <1>7, UnescapeIs, Zenon
  <2>4. j = Len(u)
    <3>1. Len(From(u, j)) = IF j <= Len(u) THEN Len(u) - j ELSE 0
      BY <1>1, <1>6, FromIs, Zenon
    <3>2. Len(From(u, j)) = 0
      <4>1. Len(<<>>) = 0
        OBVIOUS
      <4> QED
        BY <1>6, <2>3, <4>1, Zenon
    <3> QED
      BY <1>1, <1>6, <3>1, <3>2
  <2> QED
    BY <2>2, <2>3, <2>4, Zenon
<1>8. ASSUME i \in 1..n
      PROVE  /\ f # <<>>
             /\ line[i] # Percent => Head(f) # Percent
             /\ line[i] = Percent => /\ Head(f) = Percent /\ At(f, 1) = line[i + 1]
                                     /\ From(f, 2) \in {From(line, i + 1), rest[i + 2]}
  <2>0. i \in 1..n
    BY <1>8
  <2>1. CASE f = From(line, i - 1)
    <3> DEFINE c == line[i]
               t == From(line, i)
    <3>1. f = <<c>> \o t /\ c \in Nat
      BY <1>1, <2>0, <2>1, FromIsNext, Zenon
    <3>2. t \in Str
      BY <1>1, <1>2, FromIs, Zenon
    <3> HIDE DEF c, t
    <3>3. <<c>> \o t # <<>> /\ (<<c>> \o t)[1] = c
      BY <3>1, <3>2, TailOf, Zenon
    <3>4. f # <<>> /\ f[1] = c
      BY <3>1, <3>3, Zenon
    <3>5. Head(f) = c
      BY <1>3, <2>1, <3>4, HeadTailProperties DEF Str
    <3>6. ASSUME line[i] = Percent
          PROVE  At(f, 1) = line[i + 1] /\ From(f, 2) = From(line, i + 1)
      <4>1. Option(line, i)
        BY <2>0, <1>1, <3>6, Zenon DEF Percents
      <4>2. At(line, i) = line[i + 1]
        BY <1>1, <2>0, <4>1, OptionIs, Zenon
      <4>3. (i - 1) + 1 = i /\ (i - 1) + 2 = i + 1 /\ 1 \in Nat /\ 2 \in Nat
        BY <1>2
      <4>4. At(From(line, i - 1), 1) = At(line, (i - 1) + 1)
            /\ From(From(line, i - 1), 2) = From(line, (i - 1) + 2)
        BY <1>1, <1>2, <4>3, AtFrom, FromFrom, Zenon
      <4> QED
        BY <2>1, <4>2, <4>3, <4>4, Zenon
    <3> QED
      BY <3>4, <3>5, <3>6, Zenon DEF c
  <2>2. CASE f = rest[i]
    <3>1. f = From(u, j)
      BY <1>6, <2>2, Zenon
    <3>2. CASE line[i] # Percent
      <4>1. /\ rest[i] # <<>> /\ u[j + 1] # Percent
            /\ \E next \in {i + 1, i + 2} :
                  Same(u, line, rest, next, j + 1) /\ rest[i] = <<u[j + 1]>> \o rest[next]
        BY <1>1, <2>0, <3>2, SameAcrossChar
      <4>2. PICK next \in {i + 1, i + 2} : rest[i] = <<u[j + 1]>> \o rest[next]
        BY <4>1, Zenon
      <4>3. rest[next] \in Str
        <5>1. next \in 1..(n + 2)
          BY <1>1, <2>0
        <5> QED
          BY <1>1, <5>1, Zenon
      <4>4. u[j + 1] \in Nat
        <5>1. j + 1 \in 1..Len(u)
          BY <1>1, <2>0, <3>2, SameAcrossChar
        <5> QED
          BY <1>1, <5>1 DEF Str
      <4> DEFINE c == u[j + 1]
      <4>5. c \in Nat /\ f = <<c>> \o rest[next] /\ c # Percent
        BY <2>2, <4>1, <4>2, <4>4, Zenon
      <4> HIDE DEF c
      <4>6. <<c>> \o rest[next] # <<>> /\ (<<c>> \o rest[next])[1] = c
        BY <4>3, <4>5, TailOf, Zenon
      <4>7. f # <<>> /\ f[1] = c
        BY <4>5, <4>6, Zenon
      <4>8. Head(f) = c
        BY <1>3, <2>2, <4>7, HeadTailProperties DEF Str
      <4> QED
        BY <3>2, <4>5, <4>7, <4>8, Zenon
    <3>3. CASE line[i] = Percent
      <4>1. /\ At(u, j + 1) = line[i + 1] /\ rest[i] # <<>> /\ rest[i][1] = Percent
            /\ Same(u, line, rest, i + 2, j + 2)
        BY <1>1, <2>0, <3>3, SameAcrossOption
      <4>2. Head(f) = Percent /\ f # <<>>
        <5>1. f # <<>> /\ f[1] = Percent
          BY <2>2, <4>1, Zenon
        <5>2. Head(f) = f[1]
          BY <1>3, <2>2, <5>1, HeadTailProperties DEF Str
        <5> QED
          BY <5>1, <5>2, Zenon
      <4>3. At(f, 1) = At(u, j + 1) /\ From(f, 2) = From(u, j + 2)
        BY <1>1, <1>6, <3>1, AtFrom, FromFrom, Zenon
      <4>4. rest[i + 2] = From(u, j + 2)
        BY <4>1, Zenon DEF Same
      <4> QED
        BY <3>3, <4>1, <4>2, <4>3, <4>4, Zenon
    <3> QED
      BY <3>2, <3>3, Zenon
  <2> QED
    BY <2>1, <2>2, Zenon
<1> QED
  BY <1>3, <1>4, <1>5, <1>7, <1>8, Zenon


\* A turn that prints a character.
LEMMA CharPrinted ==
  ASSUME NEW u, NEW rest, NEW args, NEW text, Library(u, rest, args, text),
         NEW i \in 1..Len(line), NEW j, NEW s, AtPlace(s, i, j, u, rest, text),
         line[i] # Percent
  PROVE  \E next \in {i + 1, i + 2} : AtPlace(PrintedNext(s), next, j + 1, u, rest, text)
<1> DEFINE n == Len(line)
           m == Options(line, i - 1)
           c == u[j + 1]
           a == WordsFrom(m)
           o == text[j]
<1>1. /\ line \in Str /\ n \in Nat /\ u \in Str /\ Len(u) \in Nat
      /\ UnescapeTurns(rest, line) /\ Escapes(line) /\ Percents(line)
      /\ \A k \in 1..(n + 2) : rest[k] \in Str /\ Plain(rest[k])
      /\ \A k \in 1..Len(u) : text[k] = text[k - 1] \o Written(u, args, k)
  BY LibraryIs, Zenon
<1>2. PICK f \in {From(line, i - 1), rest[i]} : s = Left(f, a, o)
  BY Zenon DEF AtPlace
<1>3. Same(u, line, rest, i, j) /\ o \in Str
  BY Zenon DEF AtPlace
<1>4. i \in 1..(n + 1)
  BY <1>1
<1>5. Unescaped(f) = rest[i] /\ f # <<>> /\ Head(f) # Percent
  BY <1>3, <1>4, FormatIs
<1>6. /\ j + 1 \in 1..Len(u) /\ ~Option(u, j + 1)
      /\ \E next \in {i + 1, i + 2} :
           Same(u, line, rest, next, j + 1) /\ rest[i] = <<c>> \o rest[next]
  BY <1>1, <1>3, SameAcrossChar
<1>7. PICK next \in {i + 1, i + 2} :
        Same(u, line, rest, next, j + 1) /\ rest[i] = <<c>> \o rest[next]
  BY <1>6, Zenon
<1>8. c \in Nat /\ rest[next] \in Str /\ rest[i] \in Str
  <2>1. next \in 1..(n + 2) /\ i \in 1..(n + 2)
    BY <1>1
  <2>2. c \in Nat
    BY <1>1, <1>6 DEF Str
  <2> QED
    BY <1>1, <2>1, <2>2, Zenon
<1>9. j \in Nat /\ (j + 1) - 1 = j /\ Options(u, j) = m /\ Starts(u, j) /\ (j + 1 > 1 => j # 0)
  <2>1. j \in 0..Len(u) /\ Options(u, j) = m /\ Starts(u, j)
    BY <1>3, Zenon DEF Same
  <2> QED
    BY <1>1, <2>1
<1>10. Options(line, next - 1) = m
  <2>1. Options(u, j + 1) = Options(u, (j + 1) - 1)
    BY <1>1, <1>6, OptionsAre, Zenon
  <2>2. Options(u, j + 1) = Options(line, next - 1)
    BY <1>7, Zenon DEF Same
  <2> QED
    BY <1>9, <2>1, <2>2, Zenon
<1>11. text[j + 1] = o \o <<c>>
  <2>1. ~(j + 1 > 1 /\ Option(u, (j + 1) - 1))
    BY <1>9, Zenon DEF Starts
  <2>2. Written(u, args, j + 1) = <<c>>
    BY <1>6, <2>1, Zenon DEF Written
  <2>3. text[j + 1] = text[(j + 1) - 1] \o Written(u, args, j + 1)
    BY <1>1, <1>6, Zenon
  <2> QED
    BY <1>9, <2>2, <2>3, Zenon
<1> HIDE DEF c, o, a, m
<1>12. Append(o, c) = o \o <<c>> /\ Append(o, c) \in Str
  BY <1>3, <1>8, AppendIsConcat, AppendProperties DEF Str
<1>13. Head(rest[i]) = c /\ Tail(rest[i]) = rest[next]
  <2>1. (<<c>> \o rest[next])[1] = c /\ Tail(<<c>> \o rest[next]) = rest[next]
        /\ <<c>> \o rest[next] # <<>>
    BY <1>8, TailOf, Zenon
  <2>2. rest[i][1] = c /\ Tail(rest[i]) = rest[next] /\ rest[i] # <<>>
    BY <1>7, <2>1, Zenon
  <2>3. Head(rest[i]) = rest[i][1]
    BY <1>8, <2>2, HeadTailProperties DEF Str
  <2> QED
    BY <2>2, <2>3, Zenon
<1>14. PrintedNext(s) = Left(rest[next], a, text[j + 1])
  <2> DEFINE g == rest[i]
  <2>1. g = Unescaped(f) /\ Tail(g) = rest[next] /\ Head(g) = c
    BY <1>5, <1>13, Zenon
  <2> HIDE DEF g
  <2>2. PrintedNext(Left(f, a, o)) = Left(Tail(g), a, Append(o, Head(g)))
    BY <1>5, <2>1, PrintedChar
  <2> QED
    BY <1>2, <1>11, <1>12, <2>1, <2>2, Zenon
<1>15. AtPlace(PrintedNext(s), next, j + 1, u, rest, text)
  <2>1. a = WordsFrom(Options(line, next - 1))
    BY <1>10, Zenon DEF a
  <2>2. text[j + 1] \in Str
    BY <1>11, <1>12, Zenon
  <2> QED
    BY <1>7, <1>14, <2>1, <2>2, Zenon DEF AtPlace
<1> QED
  BY <1>15, Zenon

\* A turn that prints a word.
LEMMA WordPrinted ==
  ASSUME NEW u, NEW rest, NEW args, NEW text, Library(u, rest, args, text),
         NEW i \in 1..Len(line), NEW j, NEW s, AtPlace(s, i, j, u, rest, text),
         line[i] = Percent
  PROVE  AtPlace(PrintedNext(s), i + 2, j + 2, u, rest, text)
<1> DEFINE n == Len(line)
           m == Options(line, i - 1)
           letter == line[i + 1]
           a == WordsFrom(m)
           o == text[j]
           word == Words[m + 1]
           printed == PrintArg(letter, AsArg(letter, word))
<1>1. /\ line \in Str /\ n \in Nat /\ u \in Str /\ Len(u) \in Nat
      /\ UnescapeTurns(rest, line) /\ Escapes(line) /\ Percents(line)
      /\ Options(line, n) <= Len(Words)
      /\ \A k \in 1..Options(line, n) : Letter(line, k) = CharD => IsNumber(Words[k])
      /\ \A k \in 1..Len(u) : text[k] = text[k - 1] \o Written(u, args, k)
  BY LibraryIs, Zenon
<1>2. PICK f \in {From(line, i - 1), rest[i]} : s = Left(f, a, o)
  BY Zenon DEF AtPlace
<1>3. Same(u, line, rest, i, j) /\ o \in Str
  BY Zenon DEF AtPlace
<1>4. i \in 1..(n + 1) /\ (i + 2) - 1 = i + 1
  BY <1>1
<1>5. /\ f # <<>> /\ Head(f) = Percent /\ At(f, 1) = letter
      /\ From(f, 2) \in {From(line, i + 1), rest[i + 2]}
  BY <1>3, <1>4, FormatIs
<1>6. /\ j + 1 \in 1..Len(u) /\ j + 2 \in 1..Len(u) /\ Option(u, j + 1) /\ Option(line, i)
      /\ ~Option(u, j + 2) /\ u[j + 2] = letter
      /\ Options(u, j + 1) = Options(line, i)
      /\ Same(u, line, rest, i + 2, j + 2)
  BY <1>1, <1>3, SameAcrossOption
<1>7. /\ Letter(line, Options(line, i)) = letter
      /\ Options(line, i) \in 1..Options(line, n) /\ Options(line, i) = m + 1
  BY <1>1, <1>6, LetterIs, Zenon
<1>8. letter \in PrintfFormats
  BY <1>1, <1>6, OptionIs, Zenon
<1>9. m \in Nat /\ m + 1 <= Len(Words) /\ m + 1 \in 1..Len(Words)
  <2>1. i - 1 \in 0..n /\ n \in 0..n
    BY <1>1
  <2>2. m \in Nat /\ Options(line, n) \in Nat
    BY <1>1, <2>1, OptionsAre, Zenon
  <2>3. Len(Words) \in Nat
    <3>1. Words \in Seq(Seq(1..127) \ {<<>>})
      BY WordsAssumption, Zenon
    <3> QED
      BY <3>1
  <2> HIDE DEF m, n
  <2> QED
    BY <1>1, <1>7, <2>2, <2>3
<1>10. letter = CharD => IsNumber(word)
  BY <1>1, <1>7, Zenon
<1>11. args[Options(u, j + 1)] = AsArg(letter, word)
  <2>1. args = [k \in 1..Options(line, Len(line)) |-> AsArg(Letter(line, k), Words[k])]
    BY Zenon DEF Library
  <2> QED
    BY <1>6, <1>7, <2>1, Zenon
<1>12. /\ j \in Nat /\ (j + 1) - 1 = j /\ (j + 1) + 1 = j + 2 /\ (j + 2) - 1 = j + 1
       /\ j + 2 > 1
  <2>1. j \in 0..Len(u)
    BY <1>3, Zenon DEF Same
  <2> QED
    BY <1>1, <2>1
<1>13. text[j + 1] = o \o printed
  <2>1. Written(u, args, j + 1) = PrintArg(u[(j + 1) + 1], args[Options(u, j + 1)])
    <3>1. ~(j + 1 > 1 /\ Option(u, (j + 1) - 1))
      <4>1. Starts(u, j) /\ (j + 1 > 1 => j # 0)
        BY <1>3, <1>12 DEF Same
      <4> QED
        BY <1>12, <4>1, Zenon DEF Starts
    <3> QED
      BY <1>6, <3>1, Zenon DEF Written
  <2>2. Written(u, args, j + 1) = printed
    BY <1>6, <1>11, <1>12, <2>1, Zenon
  <2>3. text[j + 1] = text[(j + 1) - 1] \o Written(u, args, j + 1)
    BY <1>1, <1>6, Zenon
  <2> QED
    BY <1>12, <2>2, <2>3, Zenon
<1>14. text[j + 2] = text[j + 1] \o <<>>
  <2>1. Written(u, args, j + 2) = <<>>
    BY <1>6, <1>12, Zenon DEF Written
  <2>2. text[j + 2] = text[(j + 2) - 1] \o Written(u, args, j + 2)
    BY <1>1, <1>6, Zenon
  <2> QED
    BY <1>12, <2>1, <2>2, Zenon
<1>15. a # <<>> /\ Head(a) = word /\ Tail(a) = WordsFrom(m + 1) /\ word \in Word
  BY <1>9, NextWordLeft, WordIs, Zenon
<1>16. Options(line, (i + 2) - 1) = m + 1
  <2>1. Options(u, j + 2) = Options(line, (i + 2) - 1)
    BY <1>6, Zenon DEF Same
  <2>2. Options(u, j + 2) = Options(u, (j + 2) - 1)
    BY <1>1, <1>6, OptionsAre, Zenon
  <2> QED
    BY <1>6, <1>7, <1>12, <2>1, <2>2, Zenon
<1> HIDE DEF letter, a, o, word, m
<1>17. printed \in Str
  BY <1>8, <1>10, <1>15, ArgWritten, Zenon
<1>18. text[j + 2] = o \o printed /\ text[j + 2] \in Str
  <2> HIDE DEF printed
  <2>1. text[j + 1] \in Str
    BY <1>3, <1>13, <1>17, FromConcat, Zenon
  <2>2. text[j + 1] \o <<>> = text[j + 1]
    BY <2>1, ConcatEmptySeq DEF Str
  <2> QED
    BY <1>13, <1>14, <2>1, <2>2, Zenon
<1>19. PrintedNext(s) = Left(From(f, 2), WordsFrom(m + 1), text[j + 2])
  <2>1. letter = At(f, 1) /\ (letter = CharD => IsNumber(Head(a))) /\ Head(a) = word
    BY <1>5, <1>10, <1>15, Zenon
  <2>2. PrintedNext(Left(f, a, o)) =
          Left(From(f, 2), Tail(a), o \o PrintArg(letter, AsArg(letter, Head(a))))
    BY <1>5, <1>8, <1>15, <2>1, PrintedWord
  <2> QED
    BY <1>2, <1>15, <1>18, <2>1, <2>2, Zenon
<1> QED
  BY <1>4, <1>5, <1>6, <1>16, <1>18, <1>19, Zenon DEF AtPlace

\* At the end nothing more is printed.
LEMMA PrintedAll ==
  ASSUME NEW u, NEW rest, NEW args, NEW text, Library(u, rest, args, text),
         NEW j, NEW s, AtPlace(s, Len(line) + 1, j, u, rest, text)
  PROVE  PrintedNext(s) = s /\ s.out = text[Len(u)]
<1> DEFINE i == Len(line) + 1
           a == WordsFrom(Options(line, i - 1))
           o == text[j]
<1>1. Same(u, line, rest, i, j)
  BY Zenon DEF AtPlace
<1>2. PICK f \in {From(line, i - 1), rest[i]} : s = Left(f, a, o)
  BY Zenon DEF AtPlace
<1>3. i \in 1..(Len(line) + 1)
  <2>1. Len(line) \in Nat
    BY LibraryIs, Zenon
  <2> QED
    BY <2>1
<1>4. f = <<>> /\ j = Len(u)
  BY <1>1, <1>3, FormatIs
<1> HIDE DEF a, o
<1>5. s = Left(<<>>, a, o)
  BY <1>2, <1>4, Zenon
<1>6. PrintedNext(s) = s
  BY <1>5, PrintedOver, Zenon
<1>7. s.out = o
  BY <1>5 DEF Left
<1> QED
  BY <1>4, <1>6, <1>7, Zenon DEF o

\* The loop prints what the library prints, and comes to as many conversions.
LEMMA PrintedAsLibrary ==
  ASSUME NEW u, NEW rest, NEW args, NEW text, Library(u, rest, args, text)
  PROVE  /\ Walked(line, Words) = text[Len(u)]
         /\ Options(u, Len(u)) = Options(line, Len(line))
<1> DEFINE n == Len(line)
<1>1. line \in Str /\ n \in Nat /\ u \in Str /\ text[0] = <<>> /\ Len(u) \in Nat
  BY LibraryIs, Zenon
<1>2. PICK print : PrintTurns(print, line, Words) /\ Walked(line, Words) = print[n].out
  BY <1>1, WalkedIs, Zenon
<1>3. print[0] = Left(line, Words, <<>>) /\ \A k \in 1..n : print[k] = PrintedNext(print[k - 1])
  BY <1>2, Zenon DEF PrintTurns
<1> DEFINE Placed(k) == \E i \in 1..(n + 1) : \E j : /\ i > k \/ i = n + 1
                                                     /\ AtPlace(print[k], i, j, u, rest, text)
           Good == {k \in 0..n : Placed(k)}
<1>4. 0 \in Good
  <2>1. 1 \in 1..(n + 1) /\ 1 > 0 /\ 0 \in 0..n /\ 1 - 1 = 0 /\ 0 \in Nat /\ 0 \in 0..Len(u)
    BY <1>1
  <2>2. From(line, 0) = line /\ From(u, 0) = u
    BY <1>1, <2>1, FromIs, Zenon
  <2>3. Options(line, 0) = 0 /\ Options(u, 0) = 0
    BY <1>1, OptionsAre, Zenon
  <2>4. WordsFrom(0) = Words
    <3>1. Words \in Seq(Seq(1..127) \ {<<>>})
      BY WordsAssumption, Zenon
    <3>2. SubSeq(Words, 1, Len(Words)) = Words /\ 0 + 1 = 1
      BY <3>1
    <3> QED
      BY <3>2, Zenon DEF WordsFrom
  <2>5. rest[1] = u
    BY Zenon DEF Library
  <2>6. Same(u, line, rest, 1, 0)
    BY <2>1, <2>2, <2>3, <2>5, Zenon DEF Same, Starts
  <2>7. text[0] \in Str
    BY <1>1 DEF Str
  <2>8. AtPlace(print[0], 1, 0, u, rest, text)
    BY <1>1, <1>3, <2>1, <2>2, <2>3, <2>4, <2>6, <2>7, Zenon DEF AtPlace
  <2> QED
    BY <2>1, <2>8, Zenon
<1>5. ASSUME NEW k \in 1..n, k - 1 \in Good
      PROVE  k \in Good
  <2>1. PICK i \in 1..(n + 1) : \E j : /\ i > k - 1 \/ i = n + 1
                                       /\ AtPlace(print[k - 1], i, j, u, rest, text)
    BY <1>5, Zenon
  <2>2. PICK j : /\ i > k - 1 \/ i = n + 1
                 /\ AtPlace(print[k - 1], i, j, u, rest, text)
    BY <2>1, Zenon
  <2>3. k \in 0..n /\ print[k] = PrintedNext(print[k - 1])
    BY <1>3
  <2>4. CASE i = n + 1
    <3>1. AtPlace(print[k - 1], n + 1, j, u, rest, text)
      BY <2>2, <2>4, Zenon
    <3>2. print[k] = print[k - 1]
      <4>1. PrintedNext(print[k - 1]) = print[k - 1]
        BY <3>1, PrintedAll
      <4> QED
        BY <2>3, <4>1, Zenon
    <3>3. AtPlace(print[k], n + 1, j, u, rest, text) /\ n + 1 \in 1..(n + 1)
      BY <2>4, <3>1, <3>2, Zenon
    <3> QED
      BY <2>3, <3>3, Zenon
  <2>5. CASE i # n + 1
    <3>1. i \in 1..n /\ i + 1 > k /\ i + 2 > k
      BY <1>1, <2>2, <2>5
    <3>2. ASSUME NEW next \in {i + 1, i + 2}, NEW at,
                 AtPlace(print[k], next, at, u, rest, text)
          PROVE  k \in Good
      <4>1. next \in 1..(n + 1)
        BY <3>2, Zenon DEF AtPlace, Same
      <4>2. next > k
        BY <3>1
      <4> QED
        BY <2>3, <3>2, <4>1, <4>2, Zenon
    <3> HIDE DEF Good
    <3>3. CASE line[i] = Percent
      <4>1. AtPlace(print[k], i + 2, j + 2, u, rest, text)
        BY <2>2, <2>3, <3>1, <3>3, WordPrinted, Zenon
      <4> QED
        BY <3>2, <4>1, Zenon
    <3>4. CASE line[i] # Percent
      <4>1. PICK next \in {i + 1, i + 2} :
              AtPlace(PrintedNext(print[k - 1]), next, j + 1, u, rest, text)
        BY <2>2, <3>1, <3>4, CharPrinted
      <4>2. AtPlace(print[k], next, j + 1, u, rest, text)
        BY <2>3, <4>1, Zenon
      <4> QED
        BY <3>2, <4>2, Zenon
    <3> QED
      BY <3>3, <3>4, Zenon
  <2> QED
    BY <2>4, <2>5, Zenon
<1> HIDE DEF Good
<1>6. \A k \in 0..n : k \in Good
  BY <1>1, <1>4, <1>5, AllTurns
<1>7. n \in 0..n /\ \A i \in 1..(n + 1) : i > n => i = n + 1
  BY <1>1
<1>8. PICK j : AtPlace(print[n], n + 1, j, u, rest, text)
  BY <1>6, <1>7, Zenon DEF Good
<1>9. print[n].out = text[Len(u)]
  BY <1>8, PrintedAll
<1>10. Options(u, Len(u)) = Options(line, n)
  <2>1. Same(u, line, rest, n + 1, j) /\ n + 1 \in 1..(n + 1) /\ (n + 1) - 1 = n
    BY <1>1, <1>8 DEF AtPlace
  <2>2. j = Len(u)
    <3>1. rest[n + 1] \in {From(line, (n + 1) - 1), rest[n + 1]}
      BY Zenon
    <3> QED
      BY <2>1, <3>1, FormatIs
  <2> QED
    BY <2>1, <2>2, Zenon DEF Same
<1> QED
  BY <1>2, <1>9, <1>10

\* A format without conversions is printed as it is.
LEMMA PrintedAsItIs ==
  ASSUME NEW u \in Str, NEW args, NEW text, TextTurns(text, u, args),
         Options(u, Len(u)) = 0
  PROVE  text[Len(u)] = u
<1> DEFINE n == Len(u)
           Good == {k \in 0..n : text[k] = SubSeq(u, 1, k)}
<1>1. n \in Nat /\ text[0] = <<>> /\ \A i \in 1..n : text[i] = text[i - 1] \o Written(u, args, i)
  <2>1. n \in Nat
    BY DEF Str
  <2> QED
    BY <2>1, Zenon DEF TextTurns
<1>2. \A i \in 1..n : ~Option(u, i)
  <2>1. ASSUME NEW i \in 1..n, Option(u, i)
        PROVE  FALSE
    <3>1. i \in 0..n /\ i - 1 \in 0..n /\ n \in 0..n /\ i <= n
      BY <1>1
    <3>2. Options(u, i) = Options(u, i - 1) + 1 /\ Options(u, i - 1) \in Nat
      BY <2>1, <3>1, OptionsAre, Zenon
    <3>3. Options(u, i) <= 0
      BY <3>1, OptionsAre
    <3> QED
      BY <3>2, <3>3
  <2> QED
    BY <2>1, Zenon
<1>3. 0 \in Good
  <2>1. SubSeq(u, 1, 0) = <<>> /\ 0 \in 0..n
    BY <1>1 DEF Str
  <2> QED
    BY <1>1, <2>1, Zenon
<1>4. ASSUME NEW k \in 1..n, k - 1 \in Good
      PROVE  k \in Good
  <2>1. k \in 0..n /\ (k > 1 => k - 1 \in 1..n)
    BY <1>1
  <2>2. Written(u, args, k) = <<u[k]>>
    BY <1>2, <2>1, Zenon DEF Written
  <2>3. text[k] = SubSeq(u, 1, k - 1) \o <<u[k]>>
    BY <1>1, <1>4, <2>2, Zenon
  <2>4. SubSeq(u, 1, k - 1) \o <<u[k]>> = SubSeq(u, 1, k)
    BY <1>1 DEF Str
  <2> QED
    BY <2>1, <2>3, <2>4, Zenon
<1> HIDE DEF Good
<1>5. \A k \in 0..n : k \in Good
  BY <1>1, <1>3, <1>4, AllTurns
<1>6. n \in 0..n /\ SubSeq(u, 1, n) = u
  BY <1>1 DEF Str
<1> QED
  BY <1>5, <1>6, Zenon DEF Good

\* printf prints what is typed as the library does.
LEMMA PrintedIfTyped == line \in Seq(Alphabet) => PrintfLikeLibrary
<1> DEFINE args == [k \in 1..Options(line, Len(line)) |-> AsArg(Letter(line, k), Words[k])]
           u == Unescaped(line)
<1> SUFFICES ASSUME line \in Seq(1..127), line \in Str, WellFormed(line)
             PROVE  Printed(line, Words) = Formatted(u, args)
  BY AlphabetIs, Zenon DEF PrintfLikeLibrary
<1>1. PICK rest : UnescapeTurns(rest, line) /\ u = rest[1]
  BY UnescapedIs, Zenon
<1>2. u \in Str
  <2>1. 1 \in 1..(Len(line) + 2)
    BY DEF Str
  <2> QED
    BY <1>1, <2>1, RestIsPlain, Zenon
<1>3. args = [k \in 1..Options(line, Len(line)) |-> AsArg(Letter(line, k), Words[k])]
  OBVIOUS
<1> HIDE DEF u, args
<1>4. PICK text : TextTurns(text, u, args) /\ Formatted(u, args) = text[Len(u)]
  BY <1>2, FormattedIs, Zenon
<1>5. Library(u, rest, args, text)
  BY <1>1, <1>2, <1>3, <1>4, Zenon DEF Library
<1>6. /\ Walked(line, Words) = text[Len(u)]
      /\ Options(u, Len(u)) = Options(line, Len(line))
  BY <1>5, PrintedAsLibrary, Zenon
<1>7. CASE Words = <<>>
  <2>1. Options(line, Len(line)) <= Len(Words) /\ Options(line, Len(line)) \in Nat
    <3>1. Len(line) \in 0..Len(line)
      BY DEF Str
    <3> QED
      BY <1>5, <3>1, LibraryIs, OptionsAre, Zenon
  <2>2. Len(Words) = 0
    BY <1>7
  <2>3. Options(u, Len(u)) = 0
    <3> DEFINE o == Options(line, Len(line))
    <3>1. o <= 0 /\ o \in Nat
      BY <2>1, <2>2, Zenon
    <3> HIDE DEF o
    <3>2. o = 0
      BY <3>1
    <3> QED
      BY <1>6, <3>2, Zenon DEF o
  <2>4. text[Len(u)] = u
    BY <1>2, <1>4, <2>3, PrintedAsItIs, Zenon
  <2>5. Printed(line, Words) = u
    BY <1>7, Zenon DEF Printed, u
  <2> QED
    BY <1>4, <2>4, <2>5, Zenon
<1>8. CASE Words # <<>>
  <2>1. Printed(line, Words) = Walked(line, Words)
    BY <1>8, Zenon DEF Printed
  <2> QED
    BY <1>4, <1>6, <2>1, Zenon
<1> QED
  BY <1>7, <1>8, Zenon

\* The printf command prints what the library's printf prints for the format without
\* its escapes, whatever order they and the conversions stand in.
THEOREM PrintsLikeLibrary == Spec => []PrintfLikeLibrary
<1> QED
  BY PrintedIfTyped, LineTyped, PTL
=============================================================================
