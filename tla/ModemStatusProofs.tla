------------------------- MODULE ModemStatusProofs --------------------------
(* The invariants of ModemStatus, proved for every set of modems, facets   *)
(* and values and every bound on the signals.  The first part reasons      *)
(* about the queue of the signals: what a filter leaves of it, and which   *)
(* signal of a kind is the last.                                           *)
EXTENDS ModemStatus, TLAPS, WellFoundedInduction

USE StatusAssumption, NoneAssumption DEF StatusAssumption, NoneAssumption
-----------------------------------------------------------------------------
(* Induction over the natural numbers, from the well-foundedness of <. *)
LEMMA NatMinimum ==
  ASSUME NEW T, T \subseteq Nat, T # {}
  PROVE  \E x \in T : \A y \in T : ~(y < x)
<1> DEFINE R == {p \in Nat \X Nat : p[1] < p[2]}
<1>1. IsWellFoundedOn(R, Nat)
  BY NatLessThanWellFounded DEF OpToRel
<1> HIDE DEF R
<1>2. \E x \in T : \A y \in T : ~(<<y, x>> \in R)
  BY <1>1, WFMin
<1>3. ASSUME NEW x \in Nat, NEW y \in Nat PROVE <<y, x>> \in R <=> y < x
  BY DEF R
<1>. QED BY <1>2, <1>3

LEMMA SetInduction ==
  ASSUME NEW S, 0 \in S, \A n \in Nat : n \in S => n + 1 \in S
  PROVE  Nat \subseteq S
<1> SUFFICES ASSUME Nat \ S # {} PROVE FALSE
  OBVIOUS
<1>1. PICK x \in Nat \ S : \A y \in Nat \ S : ~(y < x)
  BY NatMinimum
<1>2. x # 0 /\ x - 1 \in Nat /\ x - 1 < x /\ (x - 1) + 1 = x
  BY <1>1
<1>3. x - 1 \in S
  BY <1>1, <1>2
<1>. QED BY <1>1, <1>2, <1>3

(* The recursive function of Filtered on the first n signals: it exists. *)
KeptUpTo(kept, queue, alive, n) ==
  kept = [i \in 0..n |->
            IF i = 0 THEN << >>
            ELSE IF queue[i] \in alive THEN Append(kept[i - 1], queue[i])
            ELSE kept[i - 1]]

LEMMA KeptExists ==
  ASSUME NEW queue, NEW alive
  PROVE  \A n \in Nat : \E kept : KeptUpTo(kept, queue, alive, n)
<1> DEFINE S == {n \in Nat : \E kept : KeptUpTo(kept, queue, alive, n)}
<1>1. 0 \in S
  <2> DEFINE kept == [i \in 0..0 |-> << >>]
  <2>1. KeptUpTo(kept, queue, alive, 0)
    BY DEF KeptUpTo
  <2>. QED BY <2>1
<1>2. ASSUME NEW n \in Nat, n \in S PROVE n + 1 \in S
  <2>1. PICK kept : KeptUpTo(kept, queue, alive, n)
    BY <1>2
  <2> DEFINE more == [i \in 0..(n + 1) |->
               IF i <= n THEN kept[i]
               ELSE IF queue[i] \in alive THEN Append(kept[i - 1], queue[i])
               ELSE kept[i - 1]]
  <2>2. KeptUpTo(more, queue, alive, n + 1)
    <3> DEFINE rhs == [i \in 0..(n + 1) |->
            IF i = 0 THEN << >>
            ELSE IF queue[i] \in alive THEN Append(more[i - 1], queue[i])
            ELSE more[i - 1]]
    <3>1. ASSUME NEW i \in 0..(n + 1) PROVE more[i] = rhs[i]
      <4>1. CASE i <= n
        <5>1. i \in 0..n /\ (i # 0 => i - 1 \in 0..(n + 1) /\ i - 1 <= n)
          BY <4>1
        <5>2. kept[i] = IF i = 0 THEN << >>
                        ELSE IF queue[i] \in alive THEN Append(kept[i - 1], queue[i])
                        ELSE kept[i - 1]
          BY <2>1, <5>1 DEF KeptUpTo
        <5>. QED BY <5>1, <5>2, <4>1
      <4>2. CASE ~(i <= n)
        <5>1. i # 0 /\ i - 1 \in 0..(n + 1) /\ i - 1 <= n
          BY <4>2
        <5>. QED BY <5>1, <4>2
      <4>. QED BY <4>1, <4>2
    <3>2. more = rhs
      BY <3>1
    <3>. QED BY <3>2 DEF KeptUpTo
  <2>. QED BY <2>2
<1> HIDE DEF S
<1>3. Nat \subseteq S
  BY <1>1, <1>2, SetInduction
<1>. QED BY <1>3 DEF S

LEMMA FilteredUnfolds ==
  ASSUME NEW queue, NEW alive, Len(queue) \in Nat
  PROVE  \E kept : /\ KeptUpTo(kept, queue, alive, Len(queue))
                   /\ Filtered(queue, alive) = kept[Len(queue)]
<1> DEFINE kept == CHOOSE g : KeptUpTo(g, queue, alive, Len(queue))
<1>1. KeptUpTo(kept, queue, alive, Len(queue))
  BY KeptExists
<1>2. Filtered(queue, alive) = kept[Len(queue)]
  BY DEF Filtered, KeptUpTo
<1>. QED BY <1>1, <1>2

(* r is what alive leaves of the first n signals of q: position i of r is  *)
(* position p[i] of q, in the same order, and no signal of alive is lost.  *)
Places(p, r, q, n, alive) ==
  /\ p \in [1..Len(r) -> 1..n]
  /\ \A i \in 1..Len(r) : r[i] = q[p[i]] /\ q[p[i]] \in alive
  /\ \A i, j \in 1..Len(r) : i < j => p[i] < p[j]
  /\ \A k \in 1..n : q[k] \in alive => \E i \in 1..Len(r) : p[i] = k

IsSifted(r, q, n, alive) ==
  /\ r \in Seq(Signal)
  /\ Len(r) <= n
  /\ \E p : Places(p, r, q, n, alive)

LEMMA SiftedKeeps ==
  ASSUME NEW q, NEW alive, NEW n \in Nat, NEW r, IsSifted(r, q, n, alive),
         q[n + 1] \in alive, q[n + 1] \in Signal
  PROVE  IsSifted(Append(r, q[n + 1]), q, n + 1, alive)
<1> DEFINE t == Append(r, q[n + 1])
           N == Len(r)
<1>1. PICK p : Places(p, r, q, n, alive)
  BY DEF IsSifted
<1>2. r \in Seq(Signal) /\ N \in Nat /\ N <= n
  BY DEF IsSifted
<1>3. /\ t \in Seq(Signal) /\ Len(t) = N + 1 /\ t[N + 1] = q[n + 1]
      /\ \A i \in 1..N : t[i] = r[i]
  BY <1>2
<1> DEFINE P == [i \in 1..(N + 1) |-> IF i = N + 1 THEN n + 1 ELSE p[i]]
<1>4. \A i \in 1..N : i \in 1..(N + 1) /\ i # N + 1 /\ p[i] \in 1..n /\ P[i] = p[i]
  BY <1>1, <1>2 DEF Places
<1>5. N + 1 \in 1..(N + 1) /\ P[N + 1] = n + 1
  BY <1>2
<1>6. \A i \in 1..(N + 1) : i \in 1..N \/ i = N + 1
  BY <1>2
<1>7. \A k \in 1..(n + 1) : k \in 1..n \/ k = n + 1
  OBVIOUS
<1> HIDE DEF t, P, N
<1>8. Places(P, t, q, n + 1, alive)
  <2>1. P \in [1..(N + 1) -> 1..(n + 1)]
    <3>1. \A i \in 1..(N + 1) : P[i] \in 1..(n + 1)
      BY <1>4, <1>5, <1>6
    <3>. QED BY <3>1 DEF P
  <2>2. \A i \in 1..(N + 1) : t[i] = q[P[i]] /\ q[P[i]] \in alive
    BY <1>1, <1>3, <1>4, <1>5, <1>6 DEF Places, N
  <2>3. ASSUME NEW i \in 1..(N + 1), NEW j \in 1..(N + 1), i < j PROVE P[i] < P[j]
    <3>1. i \in 1..N
      BY <1>2, <2>3 DEF N
    <3>2. CASE j \in 1..N
      BY <1>1, <1>4, <2>3, <3>1, <3>2 DEF Places, N
    <3>3. CASE j = N + 1
      BY <1>4, <1>5, <3>1, <3>3
    <3>. QED BY <1>6, <3>2, <3>3
  <2>4. ASSUME NEW k \in 1..(n + 1), q[k] \in alive PROVE \E i \in 1..(N + 1) : P[i] = k
    <3>1. CASE k \in 1..n
      BY <1>1, <1>4, <2>4, <3>1 DEF Places, N
    <3>2. CASE k = n + 1
      BY <1>5, <3>2
    <3>. QED BY <1>7, <3>1, <3>2
  <2>. QED BY <1>3, <2>1, <2>2, <2>3, <2>4 DEF Places
<1>9. Len(t) <= n + 1
  BY <1>2, <1>3 DEF N
<1>10. IsSifted(t, q, n + 1, alive)
  BY <1>3, <1>8, <1>9 DEF IsSifted
<1>. QED BY <1>10 DEF t

LEMMA SiftedDrops ==
  ASSUME NEW q, NEW alive, NEW n \in Nat, NEW r, IsSifted(r, q, n, alive),
         q[n + 1] \notin alive
  PROVE  IsSifted(r, q, n + 1, alive)
<1>1. PICK p : Places(p, r, q, n, alive)
  BY DEF IsSifted
<1>2. r \in Seq(Signal) /\ Len(r) \in Nat /\ Len(r) <= n + 1
  BY DEF IsSifted
<1>3. \A k \in 1..(n + 1) : k \in 1..n \/ k = n + 1
  OBVIOUS
<1>4. p \in [1..Len(r) -> 1..(n + 1)]
  BY <1>1 DEF Places
<1>5. Places(p, r, q, n + 1, alive)
  BY <1>1, <1>3, <1>4 DEF Places
<1>. QED BY <1>2, <1>5 DEF IsSifted

LEMMA FilteredSifts ==
  ASSUME NEW q \in Seq(Signal), NEW alive
  PROVE  IsSifted(Filtered(q, alive), q, Len(q), alive)
<1>1. Len(q) \in Nat /\ \A i \in 1..Len(q) : q[i] \in Signal
  OBVIOUS
<1>2. PICK kept : /\ KeptUpTo(kept, q, alive, Len(q))
                  /\ Filtered(q, alive) = kept[Len(q)]
  BY <1>1, FilteredUnfolds
<1> DEFINE S == {n \in Nat : n <= Len(q) => IsSifted(kept[n], q, n, alive)}
<1>3. 0 \in S
  <2>1. kept[0] = << >>
    BY <1>1, <1>2 DEF KeptUpTo
  <2>2. Places(<< >>, << >>, q, 0, alive)
    BY DEF Places
  <2>3. IsSifted(<< >>, q, 0, alive)
    BY <2>2 DEF IsSifted
  <2>. QED BY <2>1, <2>3
<1>4. ASSUME NEW n \in Nat, n \in S PROVE n + 1 \in S
  <2> SUFFICES ASSUME n + 1 <= Len(q) PROVE IsSifted(kept[n + 1], q, n + 1, alive)
    OBVIOUS
  <2>1. n + 1 \in 1..Len(q) /\ n + 1 \in 0..Len(q) /\ n <= Len(q) /\ (n + 1) - 1 = n /\ n + 1 # 0
    BY <1>1
  <2>2. IsSifted(kept[n], q, n, alive)
    BY <1>4, <2>1
  <2>3. kept[n + 1] = IF q[n + 1] \in alive THEN Append(kept[n], q[n + 1]) ELSE kept[n]
    BY <1>2, <2>1 DEF KeptUpTo
  <2>4. q[n + 1] \in Signal
    BY <1>1, <2>1
  <2>5. CASE q[n + 1] \in alive
    BY <2>2, <2>3, <2>4, <2>5, SiftedKeeps
  <2>6. CASE q[n + 1] \notin alive
    BY <2>2, <2>3, <2>6, SiftedDrops
  <2>. QED BY <2>5, <2>6
<1> HIDE DEF S
<1>5. Len(q) \in S
  BY <1>1, <1>3, <1>4, SetInduction
<1>. QED BY <1>1, <1>2, <1>5 DEF S

LEMMA FilteredType ==
  ASSUME NEW q \in Seq(Signal), NEW alive
  PROVE  /\ Filtered(q, alive) \in Seq(Signal)
         /\ Len(Filtered(q, alive)) <= Len(q)
BY FilteredSifts DEF IsSifted

(* A filter adds nothing, and leaves only what is alive. *)
LEMMA FilteredElements ==
  ASSUME NEW q \in Seq(Signal), NEW alive, NEW i \in 1..Len(Filtered(q, alive))
  PROVE  /\ Filtered(q, alive)[i] \in alive
         /\ \E j \in 1..Len(q) : q[j] = Filtered(q, alive)[i]
<1> DEFINE r == Filtered(q, alive)
<1>1. PICK p : Places(p, r, q, Len(q), alive)
  BY FilteredSifts DEF IsSifted
<1>. QED BY <1>1 DEF Places
-----------------------------------------------------------------------------
(* The last signal of a kind.  What the library will be told of a modem is *)
(* the last signal of the queue among those of a set D.                    *)
Final(q, D, s) ==
  \E i \in 1..Len(q) : q[i] = s /\ s \in D /\ \A j \in 1..Len(q) : j > i => q[j] \notin D

NoneIn(q, D) == \A i \in 1..Len(q) : q[i] \notin D

(* Two queues tell the same of D. *)
SameAbout(q, r, D) ==
  /\ \A s \in Signal : Final(r, D, s) <=> Final(q, D, s)
  /\ NoneIn(r, D) <=> NoneIn(q, D)

LEMMA SameTransitive ==
  ASSUME NEW q, NEW r, NEW t, NEW D, SameAbout(q, r, D), SameAbout(r, t, D)
  PROVE  SameAbout(q, t, D)
BY DEF SameAbout

LEMMA SameReflexive ==
  ASSUME NEW q, NEW D
  PROVE  SameAbout(q, q, D)
BY DEF SameAbout

LEMMA SomeSignal ==
  ASSUME NEW q, NEW D, NEW s, Final(q, D, s)
  PROVE  ~NoneIn(q, D)
BY DEF Final, NoneIn

LEMMA NoneInSubset ==
  ASSUME NEW q, NEW D, NEW E, E \subseteq D, NoneIn(q, D)
  PROVE  NoneIn(q, E)
BY DEF NoneIn

LEMMA NoneInEmpty ==
  ASSUME NEW D
  PROVE  NoneIn(<< >>, D) /\ \A s : ~Final(<< >>, D, s)
<1>1. 1..Len(<< >>) = {}
  OBVIOUS
<1>. QED BY <1>1 DEF NoneIn, Final

LEMMA AppendSame ==
  ASSUME NEW q \in Seq(Signal), NEW t \in Signal, NEW D, t \notin D
  PROVE  SameAbout(q, Append(q, t), D)
<1> DEFINE r == Append(q, t)
           N == Len(q)
<1>1. N \in Nat /\ Len(r) = N + 1 /\ r[N + 1] = t /\ \A i \in 1..N : r[i] = q[i]
  OBVIOUS
<1>2. \A i \in 1..(N + 1) : i \in 1..N \/ i = N + 1
  BY <1>1
<1>3. \A i \in 1..N : i \in 1..(N + 1)
  BY <1>1
<1> HIDE DEF r, N
<1>4. NoneIn(r, D) <=> NoneIn(q, D)
  BY <1>1, <1>2, <1>3 DEF NoneIn, N
<1>5. ASSUME NEW s \in Signal, Final(q, D, s) PROVE Final(r, D, s)
  <2>1. PICK i \in 1..N : q[i] = s /\ s \in D /\ \A j \in 1..N : j > i => q[j] \notin D
    BY <1>5 DEF Final, N
  <2>2. i \in 1..Len(r) /\ r[i] = s /\ \A j \in 1..Len(r) : j > i => r[j] \notin D
    BY <1>1, <1>2, <1>3, <2>1
  <2>. QED BY <2>1, <2>2 DEF Final
<1>6. ASSUME NEW s \in Signal, Final(r, D, s) PROVE Final(q, D, s)
  <2>1. PICK i \in 1..(N + 1) : r[i] = s /\ s \in D /\ \A j \in 1..(N + 1) : j > i => r[j] \notin D
    BY <1>1, <1>6 DEF Final
  <2>2. i \in 1..N
    BY <1>1, <1>2, <2>1
  <2>3. q[i] = s /\ \A j \in 1..N : j > i => q[j] \notin D
    BY <1>1, <1>3, <2>1, <2>2
  <2>. QED BY <2>1, <2>2, <2>3 DEF Final, N
<1>7. SameAbout(q, r, D)
  BY <1>4, <1>5, <1>6 DEF SameAbout
<1>. QED BY <1>7 DEF r

(* An appended signal is the last of its kind. *)
LEMMA AppendFinal ==
  ASSUME NEW q \in Seq(Signal), NEW t \in Signal, NEW D, t \in D
  PROVE  /\ \A s \in Signal : Final(Append(q, t), D, s) <=> s = t
         /\ ~NoneIn(Append(q, t), D)
<1> DEFINE r == Append(q, t)
           N == Len(q)
<1>1. N \in Nat /\ Len(r) = N + 1 /\ r[N + 1] = t /\ N + 1 \in 1..(N + 1)
  OBVIOUS
<1>2. \A i \in 1..(N + 1) : ~(i > N + 1) /\ (i = N + 1 \/ N + 1 > i)
  BY <1>1
<1> HIDE DEF r, N
<1>3. Final(r, D, t)
  BY <1>1, <1>2 DEF Final
<1>4. ASSUME NEW s \in Signal, Final(r, D, s) PROVE s = t
  <2>1. PICK i \in 1..(N + 1) : r[i] = s /\ s \in D /\ \A j \in 1..(N + 1) : j > i => r[j] \notin D
    BY <1>1, <1>4 DEF Final
  <2>. QED BY <1>1, <1>2, <2>1
<1>5. ~NoneIn(r, D)
  BY <1>3, SomeSignal
<1>. QED BY <1>3, <1>4, <1>5 DEF r

LEMMA TailShift ==
  ASSUME NEW q \in Seq(Signal), q # << >>
  PROVE  /\ Tail(q) \in Seq(Signal) /\ Len(Tail(q)) \in Nat /\ Len(q) \in Nat
         /\ Len(q) = Len(Tail(q)) + 1
         /\ Head(q) \in Signal /\ Head(q) = q[1] /\ 1 \in 1..Len(q)
         /\ \A i \in 1..Len(Tail(q)) : i + 1 \in 1..Len(q) /\ Tail(q)[i] = q[i + 1]
         /\ \A i \in 1..Len(q) : i = 1 \/ (i - 1 \in 1..Len(Tail(q)) /\ (i - 1) + 1 = i)
<1>1. Len(q) \in Nat /\ Len(q) # 0 /\ Len(q) >= 1
  OBVIOUS
<1>2. /\ Tail(q) \in Seq(Signal) /\ Len(Tail(q)) = Len(q) - 1 
      /\ Head(q) \in Signal /\ Head(q) = q[1]
  OBVIOUS
<1>3. \A i \in 1..(Len(q) - 1) : Tail(q)[i] = q[i + 1]
  OBVIOUS
<1>. QED BY <1>1, <1>2, <1>3

LEMMA TailSame ==
  ASSUME NEW q \in Seq(Signal), q # << >>, NEW D, Head(q) \notin D
  PROVE  SameAbout(q, Tail(q), D)
<1> DEFINE r == Tail(q)
           N == Len(Tail(q))
<1>1. /\ N \in Nat /\ Len(q) = N + 1 /\ Len(r) = N /\ q[1] \notin D
      /\ \A i \in 1..N : i + 1 \in 1..(N + 1) /\ r[i] = q[i + 1]
      /\ \A i \in 1..(N + 1) : i = 1 \/ (i - 1 \in 1..N /\ (i - 1) + 1 = i)
  BY TailShift
<1>2. \A i \in 1..N : \A j \in 1..N : (j + 1 > i + 1 <=> j > i)
  BY <1>1
<1> HIDE DEF r, N
<1>3. NoneIn(r, D) <=> NoneIn(q, D)
  <2>1. ASSUME NoneIn(r, D), NEW i \in 1..(N + 1) PROVE q[i] \notin D
    <3>1. CASE i = 1
      BY <1>1, <3>1
    <3>2. CASE i # 1
      <4>1. i - 1 \in 1..N /\ q[i] = r[i - 1]
        BY <1>1, <3>2
      <4>. QED BY <1>1, <2>1, <4>1 DEF NoneIn
    <3>. QED BY <3>1, <3>2
  <2>2. ASSUME NoneIn(q, D) PROVE NoneIn(r, D)
    BY <1>1, <2>2 DEF NoneIn
  <2>. QED BY <1>1, <2>1, <2>2 DEF NoneIn
<1>4. ASSUME NEW s \in Signal, Final(q, D, s) PROVE Final(r, D, s)
  <2>1. PICK i \in 1..(N + 1) : q[i] = s /\ s \in D /\ \A j \in 1..(N + 1) : j > i => q[j] \notin D
    BY <1>1, <1>4 DEF Final
  <2>2. i # 1
    BY <1>1, <2>1
  <2>3. i - 1 \in 1..N /\ (i - 1) + 1 = i /\ r[i - 1] = s
    BY <1>1, <2>1, <2>2
  <2>4. ASSUME NEW j \in 1..N, j > i - 1 PROVE r[j] \notin D
    <3>1. j + 1 > i /\ j + 1 \in 1..(N + 1) /\ r[j] = q[j + 1]
      BY <1>1, <2>4
    <3>. QED BY <2>1, <3>1
  <2>. QED BY <1>1, <2>1, <2>3, <2>4 DEF Final
<1>5. ASSUME NEW s \in Signal, Final(r, D, s) PROVE Final(q, D, s)
  <2>1. PICK i \in 1..N : r[i] = s /\ s \in D /\ \A j \in 1..N : j > i => r[j] \notin D
    BY <1>1, <1>5 DEF Final
  <2>2. i + 1 \in 1..(N + 1) /\ q[i + 1] = s
    BY <1>1, <2>1
  <2>3. ASSUME NEW j \in 1..(N + 1), j > i + 1 PROVE q[j] \notin D
    <3>1. j # 1 /\ j - 1 > i
      BY <1>1, <2>3
    <3>2. j - 1 \in 1..N /\ q[j] = r[j - 1]
      BY <1>1, <3>1
    <3>. QED BY <2>1, <3>1, <3>2
  <2>. QED BY <1>1, <2>1, <2>2, <2>3 DEF Final
<1>6. SameAbout(q, r, D)
  BY <1>3, <1>4, <1>5 DEF SameAbout
<1>. QED BY <1>6 DEF r

(* The signals after the first. *)
LEMMA TailRest ==
  ASSUME NEW q \in Seq(Signal), q # << >>, NEW D
  PROVE  /\ \A s : Final(Tail(q), D, s) => Final(q, D, s)
         /\ NoneIn(q, D) => NoneIn(Tail(q), D)
         /\ NoneIn(Tail(q), D) /\ Head(q) \in D => Final(q, D, Head(q))
<1> DEFINE r == Tail(q)
           N == Len(Tail(q))
<1>1. /\ N \in Nat /\ Len(q) = N + 1 /\ Len(r) = N /\ Head(q) = q[1] /\ 1 \in 1..(N + 1)
      /\ \A i \in 1..N : i + 1 \in 1..(N + 1) /\ r[i] = q[i + 1]
      /\ \A i \in 1..(N + 1) : i = 1 \/ (i - 1 \in 1..N /\ (i - 1) + 1 = i)
  BY TailShift
<1> HIDE DEF r, N
<1>2. ASSUME NEW s, Final(r, D, s) PROVE Final(q, D, s)
  <2>1. PICK i \in 1..N : r[i] = s /\ s \in D /\ \A j \in 1..N : j > i => r[j] \notin D
    BY <1>1, <1>2 DEF Final
  <2>2. i + 1 \in 1..(N + 1) /\ q[i + 1] = s
    BY <1>1, <2>1
  <2>3. ASSUME NEW j \in 1..(N + 1), j > i + 1 PROVE q[j] \notin D
    <3>1. j # 1 /\ j - 1 > i
      BY <1>1, <2>3
    <3>2. j - 1 \in 1..N /\ q[j] = r[j - 1]
      BY <1>1, <3>1
    <3>. QED BY <2>1, <3>1, <3>2
  <2>. QED BY <1>1, <2>1, <2>2, <2>3 DEF Final
<1>3. ASSUME NoneIn(q, D) PROVE NoneIn(r, D)
  BY <1>1, <1>3 DEF NoneIn
<1>4. ASSUME NoneIn(r, D), q[1] \in D PROVE Final(q, D, q[1])
  <2>1. ASSUME NEW j \in 1..(N + 1), j > 1 PROVE q[j] \notin D
    <3>1. j - 1 \in 1..N /\ q[j] = r[j - 1]
      BY <1>1, <2>1
    <3>. QED BY <1>1, <1>4, <3>1 DEF NoneIn
  <2>. QED BY <1>1, <1>4, <2>1 DEF Final
<1>. QED BY <1>1, <1>2, <1>3, <1>4 DEF r

LEMMA FilteredRest ==
  ASSUME NEW q \in Seq(Signal), NEW alive, NEW D
  PROVE  /\ NoneIn(q, D) => NoneIn(Filtered(q, alive), D)
         /\ D \cap alive = {} => NoneIn(Filtered(q, alive), D)
         /\ \A s \in alive : Final(q, D, s) => Final(Filtered(q, alive), D, s)
<1> DEFINE r == Filtered(q, alive)
           N == Len(r)
<1>1. PICK p : Places(p, r, q, Len(q), alive)
  BY FilteredSifts DEF IsSifted
<1>2. \A i \in 1..N : p[i] \in 1..Len(q) /\ r[i] = q[p[i]] /\ r[i] \in alive
  BY <1>1 DEF Places
<1>3. N \in Nat /\ Len(q) \in Nat
  BY FilteredType
<1> HIDE DEF r, N
<1>4. (NoneIn(q, D) \/ D \cap alive = {}) => NoneIn(r, D)
  BY <1>2 DEF NoneIn, N
<1>5. ASSUME NEW s \in alive, Final(q, D, s) PROVE Final(r, D, s)
  <2>1. PICK k \in 1..Len(q) : q[k] = s /\ s \in D /\ \A j \in 1..Len(q) : j > k => q[j] \notin D
    BY <1>5 DEF Final
  <2>2. PICK i \in 1..N : p[i] = k
    BY <1>1, <2>1 DEF Places, N
  <2>3. r[i] = s
    BY <1>2, <2>1, <2>2
  <2>4. ASSUME NEW j \in 1..N, j > i PROVE r[j] \notin D
    <3>1. p[j] > k
      <4>1. p[i] < p[j]
        BY <1>1, <2>4 DEF Places, N
      <4>. QED BY <1>2, <1>3, <2>2, <4>1
    <3>. QED BY <1>2, <2>1, <3>1
  <2>. QED BY <2>1, <2>3, <2>4 DEF Final, N
<1>. QED BY <1>4, <1>5 DEF r

LEMMA FilteredSame ==
  ASSUME NEW q \in Seq(Signal), NEW alive, NEW D, D \subseteq alive
  PROVE  SameAbout(q, Filtered(q, alive), D)
<1> DEFINE r == Filtered(q, alive)
           N == Len(r)
<1>1. PICK p : Places(p, r, q, Len(q), alive)
  BY FilteredSifts DEF IsSifted
<1>2. \A i \in 1..N : p[i] \in 1..Len(q) /\ r[i] = q[p[i]]
  BY <1>1 DEF Places
<1>3. N \in Nat /\ Len(q) \in Nat
  BY FilteredType
<1>4. \A s \in alive : Final(q, D, s) => Final(r, D, s)
  BY FilteredRest
<1>5. NoneIn(q, D) => NoneIn(r, D)
  BY FilteredRest
<1> HIDE DEF r, N
<1>6. \A k \in 1..Len(q) : q[k] \in D => \E i \in 1..N : p[i] = k
  BY <1>1 DEF Places, N
<1>7. ASSUME NEW s \in Signal, Final(r, D, s) PROVE Final(q, D, s)
  <2>1. PICK i \in 1..N : r[i] = s /\ s \in D /\ \A j \in 1..N : j > i => r[j] \notin D
    BY <1>7 DEF Final, N
  <2>2. ASSUME NEW k \in 1..Len(q), k > p[i], q[k] \in D PROVE FALSE
    <3>1. PICK j \in 1..N : p[j] = k
      BY <1>6, <2>2
    <3>2. r[j] \in D
      BY <1>2, <2>2, <3>1
    <3>3. ~(j > i)
      BY <2>1, <3>2
    <3>4. j # i
      BY <1>2, <1>3, <2>2, <3>1
    <3>5. j < i
      BY <1>3, <3>3, <3>4
    <3>6. p[j] < p[i]
      BY <1>1, <3>5 DEF Places, N
    <3>. QED BY <1>2, <1>3, <2>2, <3>1, <3>6
  <2>. QED BY <1>2, <2>1, <2>2 DEF Final
<1>8. ASSUME NEW s \in Signal, Final(q, D, s) PROVE Final(r, D, s)
  <2>1. s \in alive
    BY <1>8 DEF Final
  <2>. QED BY <1>4, <1>8, <2>1
<1>9. ASSUME NoneIn(r, D) PROVE NoneIn(q, D)
  BY <1>2, <1>6, <1>9 DEF NoneIn, N
<1>10. SameAbout(q, r, D)
  BY <1>5, <1>7, <1>8, <1>9 DEF SameAbout
<1>. QED BY <1>10 DEF r
-----------------------------------------------------------------------------
(* The inductive invariant. *)
In(s, q) == \E i \in 1..Len(q) : q[i] = s

(* An object has data only for interfaces it knows, and one that is not    *)
(* there is Absent (TypeOK says so of every object).                       *)
ObjectOK(o) ==
  /\ o \in Object
  /\ \A f \in Facet : HasData(o, f) => f \in o.known
  /\ o.phase = "absent" => o = Absent

Types ==
  /\ ofono \in [Modem -> Reality]
  /\ context \in {"none", "subscribed", "listed", "ready"}
  /\ signals \in Seq(Signal) /\ Len(signals) <= MaxSignals
  /\ obj \in [Modem -> Object] /\ \A m \in Modem : ObjectOK(obj[m])
  /\ arriving \in [Modem -> Snapshot \cup {None}]
  /\ idle \subseteq Modem \X Kind
  /\ registered \subseteq Kind
  /\ heard \in [Kind -> [Modem -> Val \cup {None, Gone}]]
  /\ missed \subseteq Modem

(* The table is empty until the answer of GetModems was taken; what is     *)
(* about to be added is the answer, or the modem that replaces another.    *)
Phases ==
  /\ context \in {"subscribed", "listed"} => \A m \in Modem : obj[m].phase = "absent"
  /\ context = "none" => \A m \in Modem : obj[m].phase \in {"absent", "leaving"}
  /\ \A m \in Modem :
       /\ obj[m].phase = "replacing" => arriving[m] # None
       /\ arriving[m] # None => context = "listed" \/ obj[m].phase = "replacing"

(* A modem that is not there has no state, an interface that is not there  *)
(* has its properties at their default.                                    *)
RealityOK ==
  \A m \in Modem :
    /\ ~ofono[m].here => ofono[m] = Nowhere
    /\ \A f \in Facet : f \notin ofono[m].ifaces => ofono[m].facet[f] = Default

SourcesAlive ==
  \A m \in Modem :
    /\ <<m, "modem">> \in idle => obj[m].phase = "present"
    /\ \A f \in Facet : <<m, f>> \in idle => HasData(obj[m], f)

(* Every queued signal still has the proxy it was received for. *)
ProxiesAlive == \A s \in Signal : In(s, signals) => Subscribed(s)

Alive == Types /\ Phases /\ RealityOK /\ SourcesAlive /\ ProxiesAlive
-----------------------------------------------------------------------------
LEMMA TypesIsTypeOK == Types <=> TypeOK
BY DEF Types, TypeOK, ObjectOK

LEMMA AliveIsSourcesAreAlive == Types /\ SourcesAlive /\ ProxiesAlive => SourcesAreAlive
<1> SUFFICES ASSUME Types, SourcesAlive, ProxiesAlive PROVE SourcesAreAlive
  OBVIOUS
<1>1. ASSUME NEW s \in idle
      PROVE  IF s[2] = "modem" THEN obj[s[1]].phase = "present" ELSE HasData(obj[s[1]], s[2])
  <2>1. s[1] \in Modem /\ s[2] \in Kind /\ s = <<s[1], s[2]>>
    BY DEF Types
  <2>2. CASE s[2] = "modem"
    <3>1. <<s[1], "modem">> \in idle
      BY <2>1, <2>2
    <3>. QED BY <2>1, <2>2, <3>1 DEF SourcesAlive
  <2>3. CASE s[2] # "modem"
    <3>1. s[2] \in Facet /\ <<s[1], s[2]>> \in idle
      BY <2>1, <2>3 DEF Kind
    <3>. QED BY <2>1, <2>3, <3>1 DEF SourcesAlive
  <2>. QED BY <2>2, <2>3
<1>2. ASSUME NEW i \in 1..Len(signals), signals[i].type = "facet"
      PROVE  HasData(obj[signals[i].modem], signals[i].facet)
  <2>1. signals[i] \in Signal /\ In(signals[i], signals)
    BY DEF Types, In
  <2>2. Subscribed(signals[i])
    BY <2>1 DEF ProxiesAlive
  <2>. QED BY <1>2, <2>2 DEF Subscribed
<1>. QED BY <1>1, <1>2 DEF SourcesAreAlive

LEMMA SignalFields ==
  ASSUME NEW s \in Signal
  PROVE  /\ s.modem \in Modem
         /\ s.type \in {"added", "removed", "value", "ifaces", "facet"}
         /\ s.type = "added" => s.value \in Val /\ s.ifaces \in SUBSET Facet
         /\ s.type = "value" => s.value \in Val
         /\ s.type = "ifaces" => s.ifaces \in SUBSET Facet
         /\ s.type = "facet" => s.facet \in Facet /\ s.value \in Val
BY DEF Signal

LEMMA SubscribedCases ==
  ASSUME NEW s \in Signal
  PROVE  /\ Subscribed(s) <=>
              /\ s.type \in {"added", "removed"} => context # "none"
              /\ s.type \in {"value", "ifaces"} => obj[s.modem].phase # "absent"
              /\ s.type = "facet" => HasData(obj[s.modem], s.facet)
         /\ Subscribed(s)' <=>
              /\ s.type \in {"added", "removed"} => context' # "none"
              /\ s.type \in {"value", "ifaces"} => obj'[s.modem].phase # "absent"
              /\ s.type = "facet" => HasData(obj'[s.modem], s.facet)
<1>1. CASE s.type \in {"added", "removed"}
  BY <1>1 DEF Subscribed
<1>2. CASE s.type \in {"value", "ifaces"}
  BY <1>2 DEF Subscribed
<1>3. CASE s.type = "facet"
  BY <1>3 DEF Subscribed
<1>. QED BY <1>1, <1>2, <1>3, SignalFields

LEMMA FacetNotModem == "modem" \notin Facet /\ Facet \subseteq Kind /\ "modem" \in Kind
BY DEF Kind

LEMMA InAppend ==
  ASSUME NEW q \in Seq(Signal), NEW t \in Signal, NEW s, In(s, Append(q, t))
  PROVE  In(s, q) \/ s = t
<1>1. /\ Len(q) \in Nat /\ Len(Append(q, t)) = Len(q) + 1
      /\ Append(q, t)[Len(q) + 1] = t
      /\ \A i \in 1..Len(q) : Append(q, t)[i] = q[i]
  OBVIOUS
<1>2. \A i \in 1..(Len(q) + 1) : i \in 1..Len(q) \/ i = Len(q) + 1
  BY <1>1
<1>. QED BY <1>1, <1>2 DEF In

LEMMA InTail ==
  ASSUME NEW q \in Seq(Signal), q # << >>
  PROVE  /\ Head(q) \in Signal /\ In(Head(q), q)
         /\ Tail(q) \in Seq(Signal) /\ Len(Tail(q)) <= Len(q)
         /\ \A s : In(s, Tail(q)) => In(s, q)
<1>1. \A s : In(s, Tail(q)) => In(s, q)
  BY TailShift DEF In
<1>2. In(Head(q), q)
  BY TailShift DEF In
<1>3. Len(Tail(q)) <= Len(q)
  BY TailShift
<1>. QED BY TailShift, <1>1, <1>2, <1>3

LEMMA InFiltered ==
  ASSUME NEW q \in Seq(Signal), NEW alive, NEW s, In(s, Filtered(q, alive))
  PROVE  s \in alive /\ In(s, q)
BY FilteredElements DEF In

LEMMA InEmpty == \A s : ~In(s, << >>)
<1>1. 1..Len(<< >>) = {}
  OBVIOUS
<1>. QED BY <1>1 DEF In

(* What the helpers on idle sources leave and add. *)
LEMMA SourceSets ==
  ASSUME NEW S, NEW m, NEW kinds, NEW n, NEW k
  PROVE  <<n, k>> \in SourcesRemoved(S, m, kinds) <=> <<n, k>> \in S /\ ~(n = m /\ k \in kinds)
BY DEF SourcesRemoved

LEMMA NotifySet ==
  ASSUME NEW objects, NEW facets, NEW n, NEW k
  PROVE  <<n, k>> \in NotifyAll(objects, facets) <=>
           /\ n \in Modem /\ k \in facets
           /\ objects[n].phase = "present" /\ HasData(objects[n], k)
BY DEF NotifyAll

LEMMA AddedSet ==
  ASSUME NEW S, NEW objects, NEW m, NEW facets, NEW n, NEW k
  PROVE  <<n, k>> \in AddedSources(S, objects, m, facets) <=>
           \/ <<n, k>> \in S
           \/ n = m /\ k = "modem"
           \/ <<n, k>> \in NotifyAll(objects, facets)
BY DEF AddedSources

LEMMA SourceTypes ==
  ASSUME NEW S \in SUBSET (Modem \X Kind), NEW m, NEW kinds, NEW objects, NEW facets \in SUBSET Facet
  PROVE  /\ SourcesRemoved(S, m, kinds) \in SUBSET (Modem \X Kind)
         /\ NotifyAll(objects, facets) \in SUBSET (Modem \X Kind)
BY FacetNotModem DEF SourcesRemoved, NotifyAll

LEMMA ReadType ==
  ASSUME Types, RealityOK, NEW m \in Modem, NEW f \in Facet
  PROVE  Read(m, f) = ofono[m].facet[f] /\ Read(m, f) \in Val
BY DEF Types, RealityOK, Read, Reality

(* A new modem object. *)
LEMMA MadeType ==
  ASSUME Types, RealityOK, NEW m \in Modem, NEW told, NEW bad,
         told.value \in Val, told.ifaces \in SUBSET Facet
  PROVE  /\ ObjectOK(Made(m, told, bad))
         /\ Made(m, told, bad).phase = "present"
         /\ Made(m, told, bad).view = told.value
         /\ Made(m, told, bad).known = told.ifaces
         /\ \A f \in Facet :
              /\ HasData(Made(m, told, bad), f) <=> f \in told.ifaces \ bad
              /\ HasData(Made(m, told, bad), f) =>
                   Made(m, told, bad).data[f] = ofono[m].facet[f]
<1> DEFINE o == Made(m, told, bad)
           d == [f \in Facet |-> IF f \in told.ifaces \ bad THEN Read(m, f) ELSE None]
<1>1. d \in [Facet -> Val \cup {None}]
  BY ReadType
<1>2. \A f \in Facet : d[f] = IF f \in told.ifaces \ bad THEN Read(m, f) ELSE None
  OBVIOUS
<1> HIDE DEF d
<1>3. o = [phase |-> "present", view |-> told.value, known |-> told.ifaces, data |-> d]
  BY DEF Made, d
<1>4. o \in Object
  BY <1>1, <1>3 DEF Object
<1>5. /\ o.phase = "present" /\ o.view = told.value /\ o.known = told.ifaces /\ o.data = d
  BY <1>3
<1> HIDE DEF o
<1>6. \A f \in Facet : /\ HasData(o, f) <=> f \in told.ifaces \ bad
                       /\ HasData(o, f) => o.data[f] = ofono[m].facet[f]
  BY <1>2, <1>5, ReadType DEF HasData
<1>7. ObjectOK(o)
  BY <1>4, <1>5, <1>6 DEF ObjectOK
<1>. QED BY <1>5, <1>6, <1>7 DEF o

LEMMA AbsentType ==
  /\ ObjectOK(Absent) /\ Absent.phase = "absent" /\ Absent \in Object
  /\ \A f \in Facet : ~HasData(Absent, f)
BY DEF ObjectOK, Absent, Object, HasData

(* An object that changes its phase only. *)
LEMMA PhaseSet ==
  ASSUME NEW o, ObjectOK(o), NEW p \in {"present", "replacing", "leaving"}
  PROVE  /\ ObjectOK([o EXCEPT !.phase = p])
         /\ [o EXCEPT !.phase = p].phase = p
         /\ [o EXCEPT !.phase = p].data = o.data
         /\ [o EXCEPT !.phase = p].view = o.view
         /\ [o EXCEPT !.phase = p].known = o.known
BY DEF ObjectOK, Object, HasData

LEMMA ViewSet ==
  ASSUME NEW o, ObjectOK(o), o.phase # "absent", NEW v \in Val
  PROVE  /\ ObjectOK([o EXCEPT !.view = v])
         /\ [o EXCEPT !.view = v].phase = o.phase
         /\ [o EXCEPT !.view = v].data = o.data
         /\ [o EXCEPT !.view = v].view = v
         /\ [o EXCEPT !.view = v].known = o.known
BY DEF ObjectOK, Object, HasData

LEMMA DataSet ==
  ASSUME NEW o, ObjectOK(o), NEW f \in Facet, HasData(o, f), NEW v \in Val
  PROVE  /\ ObjectOK([o EXCEPT !.data[f] = v])
         /\ [o EXCEPT !.data[f] = v].phase = o.phase
         /\ [o EXCEPT !.data[f] = v].data = [o.data EXCEPT ![f] = v]
         /\ [o EXCEPT !.data[f] = v].view = o.view
         /\ [o EXCEPT !.data[f] = v].known = o.known
         /\ \A g \in Facet : HasData([o EXCEPT !.data[f] = v], g) <=> HasData(o, g)
<1> DEFINE p == [o EXCEPT !.data[f] = v]
<1>1. o \in Object /\ o.data \in [Facet -> Val \cup {None}] /\ o.phase # "absent"
  BY AbsentType DEF ObjectOK, Object
<1>2. p = [o EXCEPT !.data = [o.data EXCEPT ![f] = v]]
  OBVIOUS
<1> HIDE DEF p
<1>3. [o.data EXCEPT ![f] = v] \in [Facet -> Val \cup {None}]
  BY <1>1
<1>4. p \in Object /\ p.phase = o.phase /\ p.view = o.view /\ p.known = o.known
      /\ p.data = [o.data EXCEPT ![f] = v]
  BY <1>1, <1>2, <1>3 DEF Object
<1>5. \A g \in Facet : HasData(p, g) <=> HasData(o, g)
  BY <1>1, <1>4 DEF HasData
<1>6. ObjectOK(p)
  BY <1>1, <1>4, <1>5 DEF ObjectOK
<1>. QED BY <1>4, <1>5, <1>6 DEF p

(* An object that is told its interfaces: some data come, some go. *)
WithInterfaces(o, i, d) == [o EXCEPT !.known = i, !.data = d]

LEMMA KnownSet ==
  ASSUME NEW o, ObjectOK(o), o.phase # "absent", NEW i \in SUBSET Facet,
         NEW d \in [Facet -> Val \cup {None}], \A f \in Facet : d[f] # None => f \in i
  PROVE  /\ ObjectOK(WithInterfaces(o, i, d))
         /\ WithInterfaces(o, i, d).phase = o.phase
         /\ WithInterfaces(o, i, d).view = o.view
         /\ WithInterfaces(o, i, d).known = i
         /\ WithInterfaces(o, i, d).data = d
<1>1. WithInterfaces(o, i, d) = [[o EXCEPT !.known = i] EXCEPT !.data = d]
  BY DEF WithInterfaces
<1>2. o \in Object
  BY DEF ObjectOK
<1>3. /\ WithInterfaces(o, i, d) \in Object
      /\ WithInterfaces(o, i, d).phase = o.phase
      /\ WithInterfaces(o, i, d).view = o.view
      /\ WithInterfaces(o, i, d).known = i
      /\ WithInterfaces(o, i, d).data = d
  BY <1>1, <1>2 DEF Object
<1>. QED BY <1>3 DEF ObjectOK, HasData
-----------------------------------------------------------------------------
(* Types, phases, sources and proxies: every action preserves Alive. *)
LEMMA EmitDoes ==
  ASSUME Types, ProxiesAlive, NEW t \in Signal, Emit(t)
  PROVE  /\ signals' \in Seq(Signal) /\ Len(signals') <= MaxSignals
         /\ \A s \in Signal : In(s, signals') => Subscribed(s)
<1>1. CASE Subscribed(t)
  <2>1. signals' = Append(signals, t) /\ Len(signals) < MaxSignals
    BY <1>1 DEF Emit
  <2>2. signals' \in Seq(Signal) /\ Len(signals') = Len(signals) + 1 /\ Len(signals) \in Nat
    BY <2>1 DEF Types
  <2>3. \A s \in Signal : In(s, signals') => Subscribed(s)
    BY <1>1, <2>1, InAppend DEF ProxiesAlive, Types
  <2>. QED BY <2>1, <2>2, <2>3
<1>2. CASE ~Subscribed(t)
  <2>1. signals' = signals
    BY <1>2 DEF Emit
  <2>. QED BY <2>1 DEF Types, ProxiesAlive
<1>. QED BY <1>1, <1>2

LEMMA OfonoAlive ==
  ASSUME Alive, LibraryUnchanged, ofono' \in [Modem -> Reality], RealityOK',
         missed' \subseteq Modem, NEW t \in Signal, Emit(t)
  PROVE  Alive'
<1>1. /\ UNCHANGED <<context, obj, arriving, idle, registered, heard>>
  BY DEF LibraryUnchanged
<1>2. Types /\ Phases /\ SourcesAlive /\ ProxiesAlive
  BY DEF Alive
<1>3. Types'
  BY <1>1, <1>2, EmitDoes DEF Types
<1>4. Phases' /\ SourcesAlive'
  BY <1>1, <1>2 DEF Phases, SourcesAlive
<1>5. ProxiesAlive'
  <2>1. \A s \in Signal : Subscribed(s) <=> Subscribed(s)'
    BY <1>1 DEF Subscribed
  <2>2. \A s \in Signal : In(s, signals') => Subscribed(s)
    BY <1>2, EmitDoes
  <2>. QED BY <2>1, <2>2 DEF ProxiesAlive
<1>. QED BY <1>3, <1>4, <1>5 DEF Alive

LEMMA NowhereType == Nowhere \in Reality /\ \A f \in Facet : Nowhere.facet[f] = Default
BY DEF Nowhere, Reality

LEMMA RealitySet ==
  ASSUME RealityOK, NEW m \in Modem, ofono'[m].here,
         \A f \in Facet : f \notin ofono'[m].ifaces => ofono'[m].facet[f] = Default,
         \A n \in Modem \ {m} : ofono'[n] = ofono[n]
  PROVE  RealityOK'
<1> SUFFICES ASSUME NEW n \in Modem
             PROVE  /\ ~ofono'[n].here => ofono'[n] = Nowhere
                    /\ \A f \in Facet : f \notin ofono'[n].ifaces => ofono'[n].facet[f] = Default
  BY DEF RealityOK, Nowhere
<1>1. CASE n = m
  BY <1>1
<1>2. CASE n # m
  BY <1>2 DEF RealityOK
<1>. QED BY <1>1, <1>2

LEMMA ModemAppearsAlive ==
  ASSUME Alive, NEW m \in Modem, ModemAppears(m)
  PROVE  Alive'
<1>1. PICK v \in Val, i \in SUBSET Facet :
        /\ ofono' = [ofono EXCEPT ![m].here = TRUE, ![m].value = v, ![m].ifaces = i]
        /\ Emit([type |-> "added", modem |-> m, value |-> v, ifaces |-> i])
  BY DEF ModemAppears
<1>2. ~ofono[m].here /\ missed' = missed /\ LibraryUnchanged
  BY DEF ModemAppears
<1>3. ofono \in [Modem -> Reality] /\ RealityOK /\ missed \subseteq Modem
  BY DEF Alive, Types
<1>4. ofono[m] \in Reality /\ \A f \in Facet : ofono[m].facet[f] = Default
  BY <1>2, <1>3, NowhereType DEF RealityOK
<1>5. ofono'[m] = [ofono[m] EXCEPT !.here = TRUE, !.value = v, !.ifaces = i]
      /\ \A n \in Modem \ {m} : ofono'[n] = ofono[n]
  BY <1>1, <1>3
<1>6. ofono'[m] \in Reality /\ ofono'[m].here /\ ofono'[m].facet = ofono[m].facet
  BY <1>4, <1>5 DEF Reality
<1>7. ofono' \in [Modem -> Reality]
  BY <1>1, <1>3, <1>5, <1>6
<1>8. RealityOK'
  <2>1. \A f \in Facet : ofono'[m].facet[f] = Default
    BY <1>4, <1>6
  <2>. QED BY <1>3, <1>5, <1>6, <2>1, RealitySet
<1>9. [type |-> "added", modem |-> m, value |-> v, ifaces |-> i] \in Signal
  BY DEF Signal
<1>. QED BY <1>1, <1>2, <1>3, <1>7, <1>8, <1>9, OfonoAlive

LEMMA ModemVanishesAlive ==
  ASSUME Alive, NEW m \in Modem, ModemVanishes(m)
  PROVE  Alive'
<1>1. /\ ofono' = [ofono EXCEPT ![m] = Nowhere] /\ missed' = missed /\ LibraryUnchanged
      /\ Emit([type |-> "removed", modem |-> m])
  BY DEF ModemVanishes
<1>2. ofono \in [Modem -> Reality] /\ RealityOK /\ missed \subseteq Modem
  BY DEF Alive, Types
<1>3. ofono' \in [Modem -> Reality]
  BY <1>1, <1>2, NowhereType
<1>4. RealityOK'
  BY <1>1, <1>2, NowhereType DEF RealityOK, Nowhere
<1>5. [type |-> "removed", modem |-> m] \in Signal
  BY DEF Signal
<1>. QED BY <1>1, <1>2, <1>3, <1>4, <1>5, OfonoAlive

LEMMA ValueChangesAlive ==
  ASSUME Alive, NEW m \in Modem, ValueChanges(m)
  PROVE  Alive'
<1>1. PICK v \in Val : /\ ofono' = [ofono EXCEPT ![m].value = v]
                       /\ Emit([type |-> "value", modem |-> m, value |-> v])
  BY DEF ValueChanges
<1>2. ofono[m].here /\ missed' \in {missed, missed \cup {m}} /\ LibraryUnchanged
  BY DEF ValueChanges
<1>3. ofono \in [Modem -> Reality] /\ RealityOK /\ missed \subseteq Modem
  BY DEF Alive, Types
<1>4. ofono'[m] = [ofono[m] EXCEPT !.value = v] /\ \A n \in Modem \ {m} : ofono'[n] = ofono[n]
  BY <1>1, <1>3
<1>5. /\ ofono'[m] \in Reality /\ ofono'[m].here = ofono[m].here
      /\ ofono'[m].facet = ofono[m].facet /\ ofono'[m].ifaces = ofono[m].ifaces
  BY <1>3, <1>4 DEF Reality
<1>6. ofono' \in [Modem -> Reality]
  BY <1>1, <1>3, <1>4, <1>5
<1>7. RealityOK'
  <2>1. \A f \in Facet : f \notin ofono'[m].ifaces => ofono'[m].facet[f] = Default
    BY <1>3, <1>5 DEF RealityOK
  <2>. QED BY <1>2, <1>3, <1>4, <1>5, <2>1, RealitySet
<1>8. [type |-> "value", modem |-> m, value |-> v] \in Signal
  BY DEF Signal
<1>9. missed' \subseteq Modem
  BY <1>2, <1>3
<1>. QED BY <1>1, <1>2, <1>6, <1>7, <1>8, <1>9, OfonoAlive

(* What an interface that comes or goes does to a modem. *)
InterfacesSet(m, f, i) == ofono' = [ofono EXCEPT ![m].ifaces = i, ![m].facet[f] = Default]

LEMMA InterfaceSet ==
  ASSUME Types, NEW m \in Modem, NEW f \in Facet, NEW i \in SUBSET Facet,
         InterfacesSet(m, f, i)
  PROVE  /\ ofono' \in [Modem -> Reality]
         /\ ofono'[m].here = ofono[m].here /\ ofono'[m].value = ofono[m].value
         /\ ofono'[m].ifaces = i
         /\ \A g \in Facet : ofono'[m].facet[g] = IF g = f THEN Default ELSE ofono[m].facet[g]
         /\ \A n \in Modem \ {m} : ofono'[n] = ofono[n]
<1> DEFINE d == [ofono[m].facet EXCEPT ![f] = Default]
<1>1. ofono \in [Modem -> Reality] /\ ofono[m] \in Reality
  BY DEF Types
<1>2. d \in [Facet -> Val]
      /\ \A g \in Facet : d[g] = IF g = f THEN Default ELSE ofono[m].facet[g]
  BY <1>1 DEF Reality
<1>3. /\ ofono'[m] = [[ofono[m] EXCEPT !.ifaces = i] EXCEPT !.facet = d]
      /\ \A n \in Modem \ {m} : ofono'[n] = ofono[n]
  BY <1>1 DEF Reality, InterfacesSet
<1> HIDE DEF d
<1>4. /\ ofono'[m] \in Reality /\ ofono'[m].here = ofono[m].here
      /\ ofono'[m].value = ofono[m].value /\ ofono'[m].ifaces = i
      /\ ofono'[m].facet = d
  BY <1>1, <1>2, <1>3 DEF Reality
<1>5. ofono' \in [Modem -> Reality]
  <2>1. ofono' = [n \in Modem |-> IF n = m THEN ofono'[m] ELSE ofono[n]]
    BY <1>1 DEF InterfacesSet
  <2>. QED BY <1>1, <1>4, <2>1
<1>. QED BY <1>2, <1>3, <1>4, <1>5

LEMMA InterfaceChangesAlive ==
  ASSUME Alive, NEW m \in Modem, NEW f \in Facet, InterfaceChanges(m, f)
  PROVE  Alive'
<1> DEFINE i == IF f \in ofono[m].ifaces THEN ofono[m].ifaces \ {f}
                ELSE ofono[m].ifaces \cup {f}
<1>1. /\ InterfacesSet(m, f, i)
      /\ Emit([type |-> "ifaces", modem |-> m, ifaces |-> i])
  BY DEF InterfaceChanges, InterfacesSet
<1>2. ofono[m].here /\ missed' \in {missed, missed \cup {m}} /\ LibraryUnchanged
  BY DEF InterfaceChanges
<1>3. ofono \in [Modem -> Reality] /\ RealityOK /\ missed \subseteq Modem
  BY DEF Alive, Types
<1>4. i \in SUBSET Facet /\ \A g \in Facet : g # f => (g \in i <=> g \in ofono[m].ifaces)
  BY <1>3 DEF Reality
<1> HIDE DEF i
<1>5. /\ ofono' \in [Modem -> Reality]
      /\ ofono'[m].here = ofono[m].here /\ ofono'[m].ifaces = i
      /\ \A g \in Facet : ofono'[m].facet[g] = IF g = f THEN Default ELSE ofono[m].facet[g]
      /\ \A n \in Modem \ {m} : ofono'[n] = ofono[n]
  BY <1>1, <1>4, InterfaceSet DEF Alive
<1>8. RealityOK'
  <2>1. \A g \in Facet : g \notin ofono'[m].ifaces => ofono'[m].facet[g] = Default
    BY <1>3, <1>4, <1>5 DEF RealityOK
  <2>. QED BY <1>2, <1>3, <1>5, <2>1, RealitySet
<1>9. [type |-> "ifaces", modem |-> m, ifaces |-> i] \in Signal
  BY <1>4 DEF Signal
<1>10. missed' \subseteq Modem
  BY <1>2, <1>3
<1>. QED BY <1>1, <1>2, <1>5, <1>8, <1>9, <1>10, OfonoAlive

(* What a changed property does to a modem. *)
FacetBecomes(m, f, v) == ofono' = [ofono EXCEPT ![m].facet[f] = v]

LEMMA FacetSet ==
  ASSUME Types, NEW m \in Modem, NEW f \in Facet, NEW v \in Val, FacetBecomes(m, f, v)
  PROVE  /\ ofono' \in [Modem -> Reality]
         /\ ofono'[m].here = ofono[m].here /\ ofono'[m].value = ofono[m].value
         /\ ofono'[m].ifaces = ofono[m].ifaces
         /\ \A g \in Facet : ofono'[m].facet[g] = IF g = f THEN v ELSE ofono[m].facet[g]
         /\ \A n \in Modem \ {m} : ofono'[n] = ofono[n]
<1> DEFINE d == [ofono[m].facet EXCEPT ![f] = v]
<1>1. ofono \in [Modem -> Reality] /\ ofono[m] \in Reality
  BY DEF Types
<1>2. d \in [Facet -> Val] /\ \A g \in Facet : d[g] = IF g = f THEN v ELSE ofono[m].facet[g]
  BY <1>1 DEF Reality
<1>3. ofono'[m] = [ofono[m] EXCEPT !.facet = d] /\ \A n \in Modem \ {m} : ofono'[n] = ofono[n]
  BY <1>1 DEF FacetBecomes
<1> HIDE DEF d
<1>4. /\ ofono'[m] \in Reality /\ ofono'[m].here = ofono[m].here
      /\ ofono'[m].value = ofono[m].value /\ ofono'[m].ifaces = ofono[m].ifaces
      /\ ofono'[m].facet = d
  BY <1>1, <1>2, <1>3 DEF Reality
<1>5. ofono' \in [Modem -> Reality]
  <2>1. ofono' = [n \in Modem |-> IF n = m THEN ofono'[m] ELSE ofono[n]]
    BY <1>1 DEF FacetBecomes
  <2>. QED BY <1>1, <1>4, <2>1
<1>. QED BY <1>2, <1>3, <1>4, <1>5

LEMMA FacetSetReality ==
  ASSUME Types, RealityOK, NEW m \in Modem, NEW f \in Facet, NEW v \in Val,
         f \in ofono[m].ifaces, FacetBecomes(m, f, v)
  PROVE  RealityOK'
<1>1. ofono[m].here
  BY DEF RealityOK, Nowhere
<1>. QED BY <1>1, FacetSet DEF RealityOK

LEMMA FacetChangesAlive ==
  ASSUME Alive, NEW m \in Modem, NEW f \in Facet, FacetChanges(m, f)
  PROVE  Alive'
<1>1. PICK v \in Val : /\ FacetBecomes(m, f, v)
                       /\ Emit([type |-> "facet", modem |-> m, facet |-> f, value |-> v])
  BY DEF FacetChanges, FacetBecomes
<1>2. f \in ofono[m].ifaces /\ missed' = missed /\ LibraryUnchanged
  BY DEF FacetChanges
<1>3. Types /\ RealityOK /\ missed \subseteq Modem
  BY DEF Alive, Types
<1>4. ofono' \in [Modem -> Reality] /\ RealityOK'
  BY <1>1, <1>2, <1>3, FacetSet, FacetSetReality
<1>5. [type |-> "facet", modem |-> m, facet |-> f, value |-> v] \in Signal
  BY DEF Signal
<1>. QED BY <1>1, <1>2, <1>3, <1>4, <1>5, OfonoAlive

LEMMA HearType ==
  ASSUME Types, NEW m \in Modem, NEW kinds, NEW v \in Val \cup {None, Gone}
  PROVE  /\ Hear(heard, m, kinds, v) \in [Kind -> [Modem -> Val \cup {None, Gone}]]
         /\ \A k \in Kind, n \in Modem :
              Hear(heard, m, kinds, v)[k][n] =
                IF k \in kinds /\ k \in registered /\ n = m THEN v ELSE heard[k][n]
<1>1. heard \in [Kind -> [Modem -> Val \cup {None, Gone}]]
  BY DEF Types
<1>2. ASSUME NEW k \in Kind
      PROVE  /\ Hear(heard, m, kinds, v)[k] \in [Modem -> Val \cup {None, Gone}]
             /\ \A n \in Modem : Hear(heard, m, kinds, v)[k][n] =
                  IF k \in kinds /\ k \in registered /\ n = m THEN v ELSE heard[k][n]
  <2>1. Hear(heard, m, kinds, v)[k] =
          IF k \in kinds \cap registered THEN [heard[k] EXCEPT ![m] = v] ELSE heard[k]
    BY DEF Hear
  <2>2. CASE k \in kinds \cap registered
    BY <1>1, <2>1, <2>2
  <2>3. CASE k \notin kinds \cap registered
    BY <1>1, <2>1, <2>3
  <2>. QED BY <2>2, <2>3
<1>3. Hear(heard, m, kinds, v) = [k \in Kind |-> Hear(heard, m, kinds, v)[k]]
  BY DEF Hear
<1>. QED BY <1>2, <1>3

(* The object of one modem changes. *)
LEMMA OneObjectAlive ==
  ASSUME Alive, UNCHANGED <<ofono, context>>, NEW m \in Modem, NEW o, ObjectOK(o),
         obj' = [obj EXCEPT ![m] = o],
         signals' \in Seq(Signal), Len(signals') <= MaxSignals,
         arriving' \in [Modem -> Snapshot \cup {None}],
         idle' \in SUBSET (Modem \X Kind), registered' \subseteq Kind,
         heard' \in [Kind -> [Modem -> Val \cup {None, Gone}]], missed' \subseteq Modem,
         context \in {"subscribed", "listed"} => o.phase = "absent",
         context = "none" => o.phase \in {"absent", "leaving"},
         \A n \in Modem \ {m} : arriving'[n] = arriving[n],
         o.phase = "replacing" => arriving'[m] # None,
         arriving'[m] # None => context = "listed" \/ o.phase = "replacing",
         \A n \in Modem \ {m} : \A k \in Kind : <<n, k>> \in idle' =>
           \/ <<n, k>> \in idle
           \/ obj[n].phase = "present" /\ (k # "modem" => HasData(obj[n], k)),
         <<m, "modem">> \in idle' => o.phase = "present",
         \A f \in Facet : <<m, f>> \in idle' => HasData(o, f),
         \A s \in Signal : In(s, signals') =>
           /\ In(s, signals)
           /\ s.modem = m /\ s.type \in {"value", "ifaces"} => o.phase # "absent"
           /\ s.modem = m /\ s.type = "facet" => HasData(o, s.facet)
  PROVE  Alive'
<1>1. Types /\ Phases /\ RealityOK /\ SourcesAlive /\ ProxiesAlive
  BY DEF Alive
<1>2. obj \in [Modem -> Object] /\ o \in Object /\ \A n \in Modem : ObjectOK(obj[n])
  BY <1>1 DEF Types, ObjectOK
<1>3. /\ obj' \in [Modem -> Object] /\ obj'[m] = o
      /\ \A n \in Modem : n # m => obj'[n] = obj[n]
  BY <1>2
<1>4. \A n \in Modem : ObjectOK(obj'[n])
  BY <1>2, <1>3
<1>5. Types'
  BY <1>1, <1>3, <1>4 DEF Types
<1>6. Phases'
  BY <1>1, <1>3 DEF Phases
<1>7. RealityOK'
  BY <1>1 DEF RealityOK
<1>8. SourcesAlive'
  <2>1. ASSUME NEW n \in Modem
        PROVE  /\ <<n, "modem">> \in idle' => obj'[n].phase = "present"
               /\ \A f \in Facet : <<n, f>> \in idle' => HasData(obj'[n], f)
    <3>1. CASE n = m
      BY <1>3, <3>1
    <3>2. CASE n # m
      BY <1>1, <1>3, <3>2, FacetNotModem DEF SourcesAlive
    <3>. QED BY <3>1, <3>2
  <2>. QED BY <2>1 DEF SourcesAlive
<1>9. ProxiesAlive'
  <2>1. ASSUME NEW s \in Signal, In(s, signals') PROVE Subscribed(s)'
    <3>1. Subscribed(s) /\ s.modem \in Modem
      BY <1>1, <2>1, SignalFields DEF ProxiesAlive
    <3>2. CASE s.modem = m
      BY <1>3, <2>1, <3>1, <3>2, SubscribedCases
    <3>3. CASE s.modem # m
      BY <1>3, <3>1, <3>3, SubscribedCases
    <3>. QED BY <3>2, <3>3
  <2>. QED BY <2>1 DEF ProxiesAlive
<1>. QED BY <1>5, <1>6, <1>7, <1>8, <1>9 DEF Alive

(* No object changes, and no signal or modem comes. *)
LEMMA SameObjectsAlive ==
  ASSUME Alive, UNCHANGED <<ofono, context, obj, arriving>>,
         signals' \in Seq(Signal), Len(signals') <= MaxSignals,
         idle' \in SUBSET (Modem \X Kind), registered' \subseteq Kind,
         heard' \in [Kind -> [Modem -> Val \cup {None, Gone}]], missed' \subseteq Modem,
         \A n \in Modem : \A k \in Kind : <<n, k>> \in idle' =>
           \/ <<n, k>> \in idle
           \/ obj[n].phase = "present" /\ (k # "modem" => HasData(obj[n], k)),
         \A s \in Signal : In(s, signals') => In(s, signals)
  PROVE  Alive'
<1>1. Types /\ Phases /\ RealityOK /\ SourcesAlive /\ ProxiesAlive
  BY DEF Alive
<1>2. Types' /\ Phases' /\ RealityOK'
  BY <1>1 DEF Types, Phases, RealityOK
<1>3. SourcesAlive'
  BY <1>1, FacetNotModem DEF SourcesAlive
<1>4. ProxiesAlive'
  BY <1>1 DEF ProxiesAlive, Subscribed
<1>. QED BY <1>2, <1>3, <1>4 DEF Alive

LEMMA HeadFacts ==
  ASSUME Alive, signals # << >>
  PROVE  /\ Head(signals) \in Signal /\ Subscribed(Head(signals))
         /\ Head(signals).modem \in Modem
         /\ Tail(signals) \in Seq(Signal) /\ Len(Tail(signals)) <= MaxSignals
         /\ \A s : In(s, Tail(signals)) => In(s, signals)
<1>1. signals \in Seq(Signal) /\ Len(signals) <= MaxSignals /\ ProxiesAlive
  BY DEF Alive, Types
<1>2. Head(signals) \in Signal /\ In(Head(signals), signals)
  BY <1>1, InTail
<1>3. Subscribed(Head(signals))
  BY <1>1, <1>2 DEF ProxiesAlive
<1>4. Tail(signals) \in Seq(Signal) /\ Len(Tail(signals)) <= Len(signals)
      /\ \A s : In(s, Tail(signals)) => In(s, signals)
  BY <1>1, InTail
<1>5. Len(Tail(signals)) <= MaxSignals
  BY <1>1, <1>4, TailShift
<1>. QED BY <1>2, <1>3, <1>4, <1>5, SignalFields

LEMMA ModemAddedAlive ==
  ASSUME Alive, ModemAdded
  PROVE  Alive'
<1> DEFINE s == Head(signals)
           m == s.modem
<1>1. /\ signals # << >> /\ s.type = "added" /\ obj[m].phase = "absent" /\ context = "ready"
      /\ signals' = Tail(signals)
      /\ UNCHANGED <<ofono, context, arriving, registered, heard, missed>>
  BY DEF ModemAdded, Dispatch
<1>2. PICK bad \in SUBSET s.ifaces :
        /\ obj' = [obj EXCEPT ![m] = Made(m, s, bad)]
        /\ idle' = AddedSources(idle, obj', m, s.ifaces \ bad)
  BY DEF ModemAdded
<1>3. Types /\ Phases /\ RealityOK /\ SourcesAlive /\ ProxiesAlive
  BY DEF Alive
<1>4. /\ s \in Signal /\ m \in Modem /\ s.value \in Val /\ s.ifaces \in SUBSET Facet
      /\ signals' \in Seq(Signal) /\ Len(signals') <= MaxSignals
      /\ \A t : In(t, signals') => In(t, signals)
  BY <1>1, HeadFacts, SignalFields
<1> HIDE DEF s, m
<1> DEFINE o == Made(m, s, bad)
<1>5. /\ ObjectOK(o) /\ o.phase = "present"
      /\ \A f \in Facet : HasData(o, f) <=> f \in s.ifaces \ bad
  BY <1>3, <1>4, MadeType
<1> HIDE DEF o
<1>6. obj' = [obj EXCEPT ![m] = o] /\ obj'[m] = o /\ \A n \in Modem \ {m} : obj'[n] = obj[n]
  BY <1>2, <1>3, <1>4 DEF o, Types
<1>7. obj[m] = Absent
  BY <1>1, <1>3, <1>4 DEF Types, ObjectOK
<1>8. ASSUME NEW n \in Modem, NEW k \in Kind, <<n, k>> \in idle'
      PROVE  \/ <<n, k>> \in idle
             \/ n = m /\ k = "modem"
             \/ k \in s.ifaces \ bad /\ obj'[n].phase = "present" /\ HasData(obj'[n], k)
  <2> DEFINE objects == obj'
             facets == s.ifaces \ bad
  <2>1. <<n, k>> \in AddedSources(idle, objects, m, facets)
    BY <1>2, <1>8
  <2> HIDE DEF objects, facets
  <2>2. \/ <<n, k>> \in idle
        \/ n = m /\ k = "modem"
        \/ <<n, k>> \in NotifyAll(objects, facets)
    BY <2>1, AddedSet
  <2>3. \/ <<n, k>> \in idle
        \/ n = m /\ k = "modem"
        \/ k \in facets /\ objects[n].phase = "present" /\ HasData(objects[n], k)
    BY <2>2, NotifySet
  <2>. QED BY <2>3 DEF objects, facets
<1>9. \A f \in Facet : <<m, f>> \notin idle
  BY <1>3, <1>4, <1>7, AbsentType DEF SourcesAlive
<1>10. \A f \in Facet : <<m, f>> \in idle' => HasData(o, f)
  BY <1>4, <1>6, <1>8, <1>9, FacetNotModem
<1>11. \A n \in Modem \ {m} : \A k \in Kind : <<n, k>> \in idle' =>
           \/ <<n, k>> \in idle
           \/ obj[n].phase = "present" /\ (k # "modem" => HasData(obj[n], k))
  BY <1>6, <1>8
<1>12. idle' \in SUBSET (Modem \X Kind)
  <2>1. NotifyAll(obj', s.ifaces \ bad) \in SUBSET (Modem \X Kind)
    BY <1>4, FacetNotModem DEF NotifyAll
  <2>2. <<m, "modem">> \in Modem \X Kind /\ idle \in SUBSET (Modem \X Kind)
    BY <1>3, <1>4, FacetNotModem DEF Types
  <2>. QED BY <1>2, <2>1, <2>2 DEF AddedSources
<1>13. \A t \in Signal : In(t, signals') => In(t, signals) /\ ~(t.modem = m /\ t.type = "facet")
  <2>1. ASSUME NEW t \in Signal, In(t, signals'), t.modem = m, t.type = "facet" PROVE FALSE
    <3>1. Subscribed(t) /\ t.facet \in Facet
      BY <1>3, <1>4, <2>1, SignalFields DEF ProxiesAlive
    <3>. QED BY <1>7, <2>1, <3>1, AbsentType, SubscribedCases
  <2>. QED BY <1>4, <2>1
<1>14. arriving[m] = None
  BY <1>1, <1>3, <1>4 DEF Phases
<1>15. /\ arriving' \in [Modem -> Snapshot \cup {None}] /\ registered' \subseteq Kind
       /\ heard' \in [Kind -> [Modem -> Val \cup {None, Gone}]] /\ missed' \subseteq Modem
  BY <1>1, <1>3 DEF Types
<1>16. /\ UNCHANGED <<ofono, context>>
       /\ context \in {"subscribed", "listed"} => o.phase = "absent"
       /\ context = "none" => o.phase \in {"absent", "leaving"}
       /\ \A n \in Modem \ {m} : arriving'[n] = arriving[n]
       /\ o.phase = "replacing" => arriving'[m] # None
       /\ arriving'[m] # None => context = "listed" \/ o.phase = "replacing"
       /\ <<m, "modem">> \in idle' => o.phase = "present"
  BY <1>1, <1>5, <1>14
<1>17. \A t \in Signal : In(t, signals') =>
         /\ In(t, signals)
         /\ t.modem = m /\ t.type \in {"value", "ifaces"} => o.phase # "absent"
         /\ t.modem = m /\ t.type = "facet" => HasData(o, t.facet)
  BY <1>5, <1>13
<1>. QED BY <1>4, <1>5, <1>6, <1>10, <1>11, <1>12, <1>15, <1>16, <1>17, OneObjectAlive

LEMMA UnsubscribedRest ==
  ASSUME NEW q \in Seq(Signal), NEW m, NEW facets, NEW self \in BOOLEAN
  PROVE  /\ Unsubscribed(q, m, facets, self) \in Seq(Signal)
         /\ Len(Unsubscribed(q, m, facets, self)) <= Len(q)
         /\ \A t : In(t, Unsubscribed(q, m, facets, self)) =>
              /\ In(t, q)
              /\ t.modem = m /\ t.type = "facet" => t.facet \notin facets
              /\ t.modem = m /\ self => t.type \notin {"value", "ifaces"}
<1>1. \A t : In(t, Unsubscribed(q, m, facets, self)) =>
        In(t, q) /\ t \in Signal /\ t \notin Dying(m, facets, self)
  BY InFiltered DEF Unsubscribed
<1>2. ASSUME NEW t \in Signal, t \notin Dying(m, facets, self)
      PROVE  /\ t.modem = m /\ t.type = "facet" => t.facet \notin facets
             /\ t.modem = m /\ self => t.type \notin {"value", "ifaces"}
  BY <1>2 DEF Dying
<1>3. /\ Unsubscribed(q, m, facets, self) \in Seq(Signal)
      /\ Len(Unsubscribed(q, m, facets, self)) <= Len(q)
  BY FilteredType DEF Unsubscribed
<1>. QED BY <1>1, <1>2, <1>3

LEMMA ModemReplacedAlive ==
  ASSUME Alive, ModemReplaced
  PROVE  Alive'
<1> DEFINE s == Head(signals)
           m == s.modem
           told == [value |-> s.value, ifaces |-> s.ifaces]
           o == [obj[m] EXCEPT !.phase = "replacing"]
           q == Tail(signals)
           none == {}
           self == TRUE
<1>1. /\ signals # << >> /\ s.type = "added" /\ obj[m].phase = "present" /\ context = "ready"
      /\ signals' = Unsubscribed(q, m, none, self)
      /\ arriving' = [arriving EXCEPT ![m] = told]
      /\ idle' = SourcesRemoved(idle, m, {"modem"})
      /\ heard' = Hear(heard, m, {"modem"}, Gone)
      /\ UNCHANGED <<ofono, context, registered, missed>>
  BY DEF ModemReplaced, Dispatch
<1>2. Types /\ Phases /\ RealityOK /\ SourcesAlive /\ ProxiesAlive
  BY DEF Alive
<1>3. /\ s \in Signal /\ m \in Modem /\ s.value \in Val /\ s.ifaces \in SUBSET Facet
      /\ q \in Seq(Signal) /\ Len(q) <= MaxSignals /\ Len(q) \in Nat
      /\ \A t : In(t, q) => In(t, signals)
  <2>1. Len(q) \in Nat
    BY <1>1, <1>2, TailShift DEF Types
  <2>. QED BY <1>1, <2>1, HeadFacts, SignalFields
<1>4. obj' = [obj EXCEPT ![m] = o]
  BY DEF ModemReplaced
<1>5. told \in Snapshot /\ told # None
  BY <1>3 DEF Snapshot
<1> HIDE DEF s, m, told, q, none, self
<1>6. /\ ObjectOK(o) /\ o.phase = "replacing" /\ o.data = obj[m].data
  <2> DEFINE p == "replacing"
             x == obj[m]
  <2>1. ObjectOK(x) /\ p \in {"present", "replacing", "leaving"}
    BY <1>2, <1>3 DEF Types
  <2> HIDE DEF p, x
  <2>2. /\ ObjectOK([x EXCEPT !.phase = p]) /\ [x EXCEPT !.phase = p].phase = p
        /\ [x EXCEPT !.phase = p].data = x.data
    BY <2>1, PhaseSet
  <2>. QED BY <2>2 DEF p, x
<1> HIDE DEF o
<1>7. \A f \in Facet : HasData(o, f) <=> HasData(obj[m], f)
  BY <1>6 DEF HasData
<1>8. /\ signals' \in Seq(Signal) /\ Len(signals') <= MaxSignals
      /\ \A t : In(t, signals') =>
           In(t, q) /\ (t.modem = m => t.type \notin {"value", "ifaces"})
  <2>1. self \in BOOLEAN /\ self
    BY DEF self
  <2>2. /\ signals' \in Seq(Signal) /\ Len(signals') <= Len(q)
        /\ \A t : In(t, signals') =>
             In(t, q) /\ (t.modem = m => t.type \notin {"value", "ifaces"})
    BY <1>1, <1>3, <2>1, UnsubscribedRest
  <2>3. Len(signals') \in Nat
    BY <2>2
  <2>4. Len(signals') <= MaxSignals
    BY <1>3, <2>2, <2>3
  <2>. QED BY <2>2, <2>4
<1>9. \A n \in Modem : \A k \in Kind : <<n, k>> \in idle' =>
        <<n, k>> \in idle /\ ~(n = m /\ k = "modem")
  BY <1>1, SourceSets
<1>10. idle' \in SUBSET (Modem \X Kind)
  BY <1>1, <1>2 DEF Types, SourcesRemoved
<1>11. /\ arriving' \in [Modem -> Snapshot \cup {None}] /\ registered' \subseteq Kind
       /\ heard' \in [Kind -> [Modem -> Val \cup {None, Gone}]] /\ missed' \subseteq Modem
       /\ arriving'[m] # None /\ \A n \in Modem \ {m} : arriving'[n] = arriving[n]
  <2>1. heard' \in [Kind -> [Modem -> Val \cup {None, Gone}]]
    BY <1>1, <1>2, <1>3, HearType
  <2>. QED BY <1>1, <1>2, <1>3, <1>5, <2>1 DEF Types
<1>12. /\ UNCHANGED <<ofono, context>>
       /\ context \in {"subscribed", "listed"} => o.phase = "absent"
       /\ context = "none" => o.phase \in {"absent", "leaving"}
       /\ o.phase = "replacing" => arriving'[m] # None
       /\ arriving'[m] # None => context = "listed" \/ o.phase = "replacing"
       /\ <<m, "modem">> \in idle' => o.phase = "present"
  <2>1. <<m, "modem">> \notin idle'
    BY <1>3, <1>9, FacetNotModem
  <2>. QED BY <1>1, <1>6, <1>11, <2>1
<1>13. \A f \in Facet : <<m, f>> \in idle' => HasData(o, f)
  BY <1>2, <1>3, <1>7, <1>9, FacetNotModem DEF SourcesAlive
<1>14. \A n \in Modem \ {m} : \A k \in Kind : <<n, k>> \in idle' =>
           \/ <<n, k>> \in idle
           \/ obj[n].phase = "present" /\ (k # "modem" => HasData(obj[n], k))
  BY <1>9
<1>15. \A t \in Signal : In(t, signals') =>
         /\ In(t, signals)
         /\ t.modem = m /\ t.type \in {"value", "ifaces"} => o.phase # "absent"
         /\ t.modem = m /\ t.type = "facet" => HasData(o, t.facet)
  <2>1. ASSUME NEW t \in Signal, In(t, signals'), t.modem = m, t.type = "facet"
        PROVE  HasData(o, t.facet)
    <3>1. Subscribed(t) /\ t.facet \in Facet
      BY <1>2, <1>3, <1>8, <2>1, SignalFields DEF ProxiesAlive
    <3>. QED BY <1>7, <2>1, <3>1, SubscribedCases
  <2>. QED BY <1>3, <1>8, <2>1
<1>. QED BY <1>3, <1>4, <1>6, <1>8, <1>10, <1>11, <1>12, <1>13, <1>14, <1>15, OneObjectAlive

LEMMA ReplacedAlive ==
  ASSUME Alive, NEW m \in Modem, Replaced(m)
  PROVE  Alive'
<1> DEFINE told == arriving[m]
           self == FALSE
           ends == {f \in Facet : HasData(obj[m], f)} \cap TellsItsEnd
<1>1. /\ obj[m].phase = "replacing"
      /\ signals' = Unsubscribed(signals, m, Facet, self)
      /\ arriving' = [arriving EXCEPT ![m] = None]
      /\ heard' = Hear(heard, m, ends, Gone)
      /\ UNCHANGED <<ofono, context, registered, missed>>
  BY DEF Replaced
<1>2. PICK bad \in SUBSET told.ifaces :
        /\ obj' = [obj EXCEPT ![m] = Made(m, told, bad)]
        /\ idle' = AddedSources(SourcesRemoved(idle, m, Facet), obj', m, told.ifaces \ bad)
  BY DEF Replaced
<1>3. Types /\ Phases /\ RealityOK /\ SourcesAlive /\ ProxiesAlive
  BY DEF Alive
<1>4. told \in Snapshot /\ told.value \in Val /\ told.ifaces \in SUBSET Facet
  BY <1>1, <1>3 DEF Phases, Types, Snapshot
<1>5. context = "ready"
  BY <1>1, <1>3 DEF Phases, Types
<1> HIDE DEF told, self, ends
<1> DEFINE o == Made(m, told, bad)
           rest == SourcesRemoved(idle, m, Facet)
           facets == told.ifaces \ bad
<1>6. /\ ObjectOK(o) /\ o.phase = "present"
      /\ \A f \in Facet : HasData(o, f) <=> f \in facets
  BY <1>3, <1>4, MadeType
<1> HIDE DEF o
<1>7. obj' = [obj EXCEPT ![m] = o] /\ obj'[m] = o /\ \A n \in Modem \ {m} : obj'[n] = obj[n]
  BY <1>2, <1>3 DEF o, Types
<1>8. ASSUME NEW n \in Modem, NEW k \in Kind, <<n, k>> \in idle'
      PROVE  \/ <<n, k>> \in idle /\ ~(n = m /\ k \in Facet)
             \/ n = m /\ k = "modem"
             \/ k \in facets /\ obj'[n].phase = "present" /\ HasData(obj'[n], k)
  <2> DEFINE objects == obj'
  <2>1. <<n, k>> \in AddedSources(rest, objects, m, facets)
    BY <1>2, <1>8
  <2> HIDE DEF objects, facets, rest
  <2>2. \/ <<n, k>> \in rest
        \/ n = m /\ k = "modem"
        \/ <<n, k>> \in NotifyAll(objects, facets)
    BY <2>1, AddedSet
  <2>3. <<n, k>> \in NotifyAll(objects, facets) =>
          k \in facets /\ objects[n].phase = "present" /\ HasData(objects[n], k)
    BY NotifySet
  <2>4. <<n, k>> \in rest => <<n, k>> \in idle /\ ~(n = m /\ k \in Facet)
    BY SourceSets DEF rest
  <2>. QED BY <2>2, <2>3, <2>4 DEF objects
<1>9. \A f \in Facet : <<m, f>> \in idle' => HasData(o, f)
  BY <1>7, <1>8, FacetNotModem
<1>10. \A n \in Modem \ {m} : \A k \in Kind : <<n, k>> \in idle' =>
           \/ <<n, k>> \in idle
           \/ obj[n].phase = "present" /\ (k # "modem" => HasData(obj[n], k))
  BY <1>7, <1>8
<1>11. idle' \in SUBSET (Modem \X Kind)
  <2>1. NotifyAll(obj', facets) \in SUBSET (Modem \X Kind)
    BY <1>4, FacetNotModem DEF NotifyAll
  <2>2. <<m, "modem">> \in Modem \X Kind /\ rest \in SUBSET (Modem \X Kind)
    BY <1>3, FacetNotModem DEF Types, SourcesRemoved
  <2>. QED BY <1>2, <2>1, <2>2 DEF AddedSources
<1>12. /\ signals' \in Seq(Signal) /\ Len(signals') <= MaxSignals
       /\ \A t : In(t, signals') =>
            In(t, signals) /\ (t.modem = m /\ t.type = "facet" => t.facet \notin Facet)
  <2>1. signals \in Seq(Signal) /\ Len(signals) <= MaxSignals /\ Len(signals) \in Nat
    BY <1>3 DEF Types
  <2>2. self \in BOOLEAN
    BY DEF self
  <2>3. /\ signals' \in Seq(Signal) /\ Len(signals') <= Len(signals)
        /\ \A t : In(t, signals') =>
             In(t, signals) /\ (t.modem = m /\ t.type = "facet" => t.facet \notin Facet)
    BY <1>1, <2>1, <2>2, UnsubscribedRest
  <2>4. Len(signals') \in Nat
    BY <2>3
  <2>5. Len(signals') <= MaxSignals
    BY <2>1, <2>3, <2>4
  <2>. QED BY <2>3, <2>5
<1>13. /\ arriving' \in [Modem -> Snapshot \cup {None}] /\ registered' \subseteq Kind
       /\ heard' \in [Kind -> [Modem -> Val \cup {None, Gone}]] /\ missed' \subseteq Modem
       /\ arriving'[m] = None /\ \A n \in Modem \ {m} : arriving'[n] = arriving[n]
  <2>1. heard' \in [Kind -> [Modem -> Val \cup {None, Gone}]]
    BY <1>1, <1>3, HearType
  <2>. QED BY <1>1, <1>3, <2>1 DEF Types
<1>14. /\ UNCHANGED <<ofono, context>>
       /\ context \in {"subscribed", "listed"} => o.phase = "absent"
       /\ context = "none" => o.phase \in {"absent", "leaving"}
       /\ o.phase = "replacing" => arriving'[m] # None
       /\ arriving'[m] # None => context = "listed" \/ o.phase = "replacing"
       /\ <<m, "modem">> \in idle' => o.phase = "present"
  BY <1>1, <1>5, <1>6, <1>13
<1>15. \A t \in Signal : In(t, signals') =>
         /\ In(t, signals)
         /\ t.modem = m /\ t.type \in {"value", "ifaces"} => o.phase # "absent"
         /\ t.modem = m /\ t.type = "facet" => HasData(o, t.facet)
  BY <1>6, <1>12, SignalFields
<1>. QED BY <1>6, <1>7, <1>9, <1>10, <1>11, <1>12, <1>13, <1>14, <1>15, OneObjectAlive

LEMMA ModemRemovedAlive ==
  ASSUME Alive, ModemRemoved
  PROVE  Alive'
<1> DEFINE m == Head(signals).modem
           o == [obj[m] EXCEPT !.phase = "leaving"]
<1>1. /\ signals # << >> /\ Head(signals).type = "removed" /\ context = "ready"
      /\ obj[m].phase \in {"present", "absent"}
      /\ signals' = Tail(signals) /\ missed' \in {missed, missed \ {m}}
      /\ UNCHANGED <<ofono, context, arriving, registered>>
  BY DEF ModemRemoved, Dispatch
<1>2. Types /\ Phases /\ RealityOK /\ SourcesAlive /\ ProxiesAlive
  BY DEF Alive
<1>3. /\ m \in Modem /\ signals' \in Seq(Signal) /\ Len(signals') <= MaxSignals
      /\ \A t : In(t, signals') => In(t, signals)
  BY <1>1, HeadFacts
<1>4. /\ arriving' \in [Modem -> Snapshot \cup {None}] /\ registered' \subseteq Kind
      /\ missed' \subseteq Modem
  BY <1>1, <1>2 DEF Types
<1>5. CASE obj[m].phase = "present"
  <2>1. /\ obj' = [obj EXCEPT ![m] = o]
        /\ idle' = SourcesRemoved(idle, m, {"modem"})
        /\ heard' = Hear(heard, m, {"modem"}, Gone)
    BY <1>5 DEF ModemRemoved
  <2> HIDE DEF m
  <2>2. /\ ObjectOK(o) /\ o.phase = "leaving" /\ o.data = obj[m].data
    <3> DEFINE p == "leaving"
               x == obj[m]
    <3>1. ObjectOK(x) /\ p \in {"present", "replacing", "leaving"}
      BY <1>2, <1>3 DEF Types
    <3> HIDE DEF p, x
    <3>2. /\ ObjectOK([x EXCEPT !.phase = p]) /\ [x EXCEPT !.phase = p].phase = p
          /\ [x EXCEPT !.phase = p].data = x.data
      BY <3>1, PhaseSet
    <3>. QED BY <3>2 DEF p, x
  <2> HIDE DEF o
  <2>3. \A f \in Facet : HasData(o, f) <=> HasData(obj[m], f)
    BY <2>2 DEF HasData
  <2>4. \A n \in Modem : \A k \in Kind : <<n, k>> \in idle' =>
          <<n, k>> \in idle /\ ~(n = m /\ k = "modem")
    BY <2>1, SourceSets
  <2>5. idle' \in SUBSET (Modem \X Kind)
    BY <1>2, <2>1 DEF Types, SourcesRemoved
  <2>6. heard' \in [Kind -> [Modem -> Val \cup {None, Gone}]]
    BY <1>2, <1>3, <2>1, HearType
  <2>7. <<m, "modem">> \notin idle' /\ arriving[m] = None
    BY <1>1, <1>2, <1>3, <1>5, <2>4, FacetNotModem DEF Phases
  <2>8. /\ UNCHANGED <<ofono, context>>
        /\ context \in {"subscribed", "listed"} => o.phase = "absent"
        /\ context = "none" => o.phase \in {"absent", "leaving"}
        /\ \A n \in Modem \ {m} : arriving'[n] = arriving[n]
        /\ o.phase = "replacing" => arriving'[m] # None
        /\ arriving'[m] # None => context = "listed" \/ o.phase = "replacing"
        /\ <<m, "modem">> \in idle' => o.phase = "present"
    BY <1>1, <2>2, <2>7
  <2>9. \A f \in Facet : <<m, f>> \in idle' => HasData(o, f)
    BY <1>2, <1>3, <2>3, <2>4, FacetNotModem DEF SourcesAlive
  <2>10. \A n \in Modem \ {m} : \A k \in Kind : <<n, k>> \in idle' =>
             \/ <<n, k>> \in idle
             \/ obj[n].phase = "present" /\ (k # "modem" => HasData(obj[n], k))
    BY <2>4
  <2>11. \A t \in Signal : In(t, signals') =>
           /\ In(t, signals)
           /\ t.modem = m /\ t.type \in {"value", "ifaces"} => o.phase # "absent"
           /\ t.modem = m /\ t.type = "facet" => HasData(o, t.facet)
    <3>1. ASSUME NEW t \in Signal, In(t, signals'), t.modem = m, t.type = "facet"
          PROVE  HasData(o, t.facet)
      <4>1. Subscribed(t) /\ t.facet \in Facet
        BY <1>2, <1>3, <3>1, SignalFields DEF ProxiesAlive
      <4>. QED BY <2>3, <3>1, <4>1, SubscribedCases
    <3>. QED BY <1>3, <2>2, <3>1
  <2>. QED BY <1>3, <1>4, <2>1, <2>2, <2>5, <2>6, <2>8, <2>9, <2>10, <2>11, OneObjectAlive
<1>6. CASE obj[m].phase = "absent"
  <2>1. UNCHANGED <<obj, idle, heard>>
    BY <1>6 DEF ModemRemoved
  <2>2. /\ UNCHANGED <<ofono, context, obj, arriving>>
        /\ idle' \in SUBSET (Modem \X Kind)
        /\ heard' \in [Kind -> [Modem -> Val \cup {None, Gone}]]
        /\ \A n \in Modem : \A k \in Kind : <<n, k>> \in idle' => <<n, k>> \in idle
    BY <1>1, <1>2, <2>1 DEF Types
  <2>. QED BY <1>3, <1>4, <2>2, SameObjectsAlive
<1>. QED BY <1>1, <1>5, <1>6

LEMMA ModemFinalizedAlive ==
  ASSUME Alive, NEW m \in Modem, ModemFinalized(m)
  PROVE  Alive'
<1> DEFINE self == TRUE
           o == Absent
           ends == {f \in Facet : HasData(obj[m], f)} \cap TellsItsEnd
<1>1. /\ obj[m].phase = "leaving" /\ obj' = [obj EXCEPT ![m] = o]
      /\ idle' = SourcesRemoved(idle, m, Facet)
      /\ signals' = Unsubscribed(signals, m, Facet, self)
      /\ heard' = Hear(heard, m, ends, Gone)
      /\ UNCHANGED <<ofono, context, arriving, registered, missed>>
  BY DEF ModemFinalized
<1>2. Types /\ Phases /\ RealityOK /\ SourcesAlive /\ ProxiesAlive
  BY DEF Alive
<1>3. ObjectOK(o) /\ o.phase = "absent"
  BY AbsentType
<1>4. self
  BY DEF self
<1> HIDE DEF o, ends, self
<1>5. \A n \in Modem : \A k \in Kind : <<n, k>> \in idle' =>
        <<n, k>> \in idle /\ ~(n = m /\ k \in Facet)
  BY <1>1, SourceSets
<1>6. \A k \in Kind : <<m, k>> \notin idle'
  <2>1. <<m, "modem">> \notin idle
    BY <1>1, <1>2 DEF SourcesAlive
  <2>. QED BY <1>5, <2>1 DEF Kind
<1>7. idle' \in SUBSET (Modem \X Kind)
  BY <1>1, <1>2 DEF Types, SourcesRemoved
<1>8. heard' \in [Kind -> [Modem -> Val \cup {None, Gone}]]
  BY <1>1, <1>2, HearType
<1>9. /\ signals' \in Seq(Signal) /\ Len(signals') <= MaxSignals
      /\ \A t : In(t, signals') =>
           /\ In(t, signals)
           /\ t.modem = m /\ t.type = "facet" => t.facet \notin Facet
           /\ t.modem = m => t.type \notin {"value", "ifaces"}
  <2>1. signals \in Seq(Signal) /\ Len(signals) <= MaxSignals /\ Len(signals) \in Nat
    BY <1>2 DEF Types
  <2>2. self \in BOOLEAN
    BY DEF self
  <2>3. /\ signals' \in Seq(Signal) /\ Len(signals') <= Len(signals)
        /\ \A t : In(t, signals') =>
             /\ In(t, signals)
             /\ t.modem = m /\ t.type = "facet" => t.facet \notin Facet
             /\ t.modem = m => t.type \notin {"value", "ifaces"}
    BY <1>1, <1>4, <2>1, <2>2, UnsubscribedRest
  <2>4. Len(signals') \in Nat
    BY <2>3
  <2>5. Len(signals') <= MaxSignals
    BY <2>1, <2>3, <2>4
  <2>. QED BY <2>3, <2>5
<1>10. /\ arriving' \in [Modem -> Snapshot \cup {None}] /\ registered' \subseteq Kind
       /\ missed' \subseteq Modem /\ \A n \in Modem \ {m} : arriving'[n] = arriving[n]
  BY <1>1, <1>2 DEF Types
<1>11. context \in {"none", "ready"} /\ arriving'[m] = None
  BY <1>1, <1>2 DEF Phases, Types
<1>12. /\ UNCHANGED <<ofono, context>>
       /\ context \in {"subscribed", "listed"} => o.phase = "absent"
       /\ context = "none" => o.phase \in {"absent", "leaving"}
       /\ o.phase = "replacing" => arriving'[m] # None
       /\ arriving'[m] # None => context = "listed" \/ o.phase = "replacing"
       /\ <<m, "modem">> \in idle' => o.phase = "present"
  BY <1>1, <1>3, <1>6, <1>11, FacetNotModem
<1>13. \A f \in Facet : <<m, f>> \in idle' => HasData(o, f)
  BY <1>6, FacetNotModem
<1>14. \A n \in Modem \ {m} : \A k \in Kind : <<n, k>> \in idle' =>
           \/ <<n, k>> \in idle
           \/ obj[n].phase = "present" /\ (k # "modem" => HasData(obj[n], k))
  BY <1>5
<1>15. \A t \in Signal : In(t, signals') =>
         /\ In(t, signals)
         /\ t.modem = m /\ t.type \in {"value", "ifaces"} => o.phase # "absent"
         /\ t.modem = m /\ t.type = "facet" => HasData(o, t.facet)
  BY <1>9, SignalFields
<1>. QED BY <1>1, <1>3, <1>7, <1>8, <1>9, <1>10, <1>12, <1>13, <1>14, <1>15, OneObjectAlive

LEMMA ValueToldAlive ==
  ASSUME Alive, ValueTold
  PROVE  Alive'
<1> DEFINE s == Head(signals)
           m == s.modem
           o == [obj[m] EXCEPT !.view = s.value]
<1>1. /\ signals # << >> /\ s.type = "value" /\ context = "ready"
      /\ signals' = Tail(signals)
      /\ UNCHANGED <<ofono, context, arriving, registered, heard, missed>>
  BY DEF ValueTold, Dispatch
<1>2. Types /\ Phases /\ RealityOK /\ SourcesAlive /\ ProxiesAlive
  BY DEF Alive
<1>3. /\ s \in Signal /\ m \in Modem /\ s.value \in Val
      /\ signals' \in Seq(Signal) /\ Len(signals') <= MaxSignals
      /\ \A t : In(t, signals') => In(t, signals)
  BY <1>1, HeadFacts, SignalFields
<1>4. /\ arriving' \in [Modem -> Snapshot \cup {None}] /\ registered' \subseteq Kind
      /\ heard' \in [Kind -> [Modem -> Val \cup {None, Gone}]] /\ missed' \subseteq Modem
  BY <1>1, <1>2 DEF Types
<1>5. CASE obj[m].phase = "present"
  <2>1. obj' = [obj EXCEPT ![m] = o] /\ idle' = idle \cup {<<m, "modem">>}
    BY <1>5 DEF ValueTold
  <2>2. ObjectOK(o) /\ o.phase = "present" /\ o.data = obj[m].data
    <3> DEFINE v == s.value
               x == obj[m]
    <3>1. ObjectOK(x) /\ x.phase # "absent" /\ v \in Val
      BY <1>2, <1>3, <1>5 DEF Types
    <3> HIDE DEF v, x
    <3>2. /\ ObjectOK([x EXCEPT !.view = v]) /\ [x EXCEPT !.view = v].phase = x.phase
          /\ [x EXCEPT !.view = v].data = x.data
      BY <3>1, ViewSet
    <3>. QED BY <1>5, <3>2 DEF v, x
  <2> HIDE DEF s, m, o
  <2>3. \A f \in Facet : HasData(o, f) <=> HasData(obj[m], f)
    BY <2>2 DEF HasData
  <2>4. \A n \in Modem : \A k \in Kind : <<n, k>> \in idle' =>
          <<n, k>> \in idle \/ (n = m /\ k = "modem")
    BY <2>1
  <2>5. idle' \in SUBSET (Modem \X Kind)
    BY <1>2, <1>3, <2>1, FacetNotModem DEF Types
  <2>6. arriving[m] = None
    BY <1>1, <1>2, <1>3, <1>5 DEF Phases
  <2>7. /\ UNCHANGED <<ofono, context>>
        /\ context \in {"subscribed", "listed"} => o.phase = "absent"
        /\ context = "none" => o.phase \in {"absent", "leaving"}
        /\ \A n \in Modem \ {m} : arriving'[n] = arriving[n]
        /\ o.phase = "replacing" => arriving'[m] # None
        /\ arriving'[m] # None => context = "listed" \/ o.phase = "replacing"
        /\ <<m, "modem">> \in idle' => o.phase = "present"
    BY <1>1, <2>2, <2>6
  <2>8. \A f \in Facet : <<m, f>> \in idle' => HasData(o, f)
    BY <1>2, <1>3, <2>3, <2>4, FacetNotModem DEF SourcesAlive
  <2>9. \A n \in Modem \ {m} : \A k \in Kind : <<n, k>> \in idle' =>
             \/ <<n, k>> \in idle
             \/ obj[n].phase = "present" /\ (k # "modem" => HasData(obj[n], k))
    BY <2>4
  <2>10. \A t \in Signal : In(t, signals') =>
           /\ In(t, signals)
           /\ t.modem = m /\ t.type \in {"value", "ifaces"} => o.phase # "absent"
           /\ t.modem = m /\ t.type = "facet" => HasData(o, t.facet)
    <3>1. ASSUME NEW t \in Signal, In(t, signals'), t.modem = m, t.type = "facet"
          PROVE  HasData(o, t.facet)
      <4>1. Subscribed(t) /\ t.facet \in Facet
        BY <1>2, <1>3, <3>1, SignalFields DEF ProxiesAlive
      <4>. QED BY <2>3, <3>1, <4>1, SubscribedCases
    <3>. QED BY <1>3, <2>2, <3>1
  <2>. QED BY <1>3, <1>4, <2>1, <2>2, <2>5, <2>7, <2>8, <2>9, <2>10, OneObjectAlive
<1>6. CASE obj[m].phase # "present"
  <2>1. UNCHANGED <<obj, idle>>
    BY <1>6 DEF ValueTold
  <2>2. /\ UNCHANGED <<ofono, context, obj, arriving>>
        /\ idle' \in SUBSET (Modem \X Kind)
        /\ \A n \in Modem : \A k \in Kind : <<n, k>> \in idle' => <<n, k>> \in idle
    BY <1>1, <1>2, <2>1 DEF Types
  <2>. QED BY <1>3, <1>4, <2>2, SameObjectsAlive
<1>. QED BY <1>5, <1>6

(* The data of a modem that is told its interfaces: those that went have   *)
(* none, those that came are read, unless their proxy failed, and the      *)
(* others are kept.                                                        *)
DataTold(m, told, bad) ==
  [f \in Facet |-> IF f \in (told \ obj[m].known) \ bad THEN Read(m, f)
                   ELSE FacetsRemoved(obj[m], obj[m].known \ told)[f]]

LEMMA DataToldIs ==
  ASSUME Types, RealityOK, NEW m \in Modem, NEW told \in SUBSET Facet, NEW bad
  PROVE  /\ DataTold(m, told, bad) \in [Facet -> Val \cup {None}]
         /\ \A f \in Facet :
              DataTold(m, told, bad)[f] =
                IF f \in (told \ obj[m].known) \ bad THEN ofono[m].facet[f]
                ELSE IF f \in obj[m].known \ told THEN None ELSE obj[m].data[f]
         /\ \A f \in Facet : DataTold(m, told, bad)[f] # None => f \in told
<1> DEFINE gone == obj[m].known \ told
           d == DataTold(m, told, bad)
<1>1. ObjectOK(obj[m]) /\ obj[m].data \in [Facet -> Val \cup {None}]
  BY DEF Types, Object
<1>2. \A f \in Facet : FacetsRemoved(obj[m], gone)[f] = IF f \in gone THEN None ELSE obj[m].data[f]
  BY DEF FacetsRemoved
<1> HIDE DEF gone
<1>3. \A f \in Facet : d[f] = IF f \in (told \ obj[m].known) \ bad THEN ofono[m].facet[f]
                              ELSE IF f \in gone THEN None ELSE obj[m].data[f]
  BY <1>2, ReadType DEF DataTold, gone
<1>4. \A f \in Facet : ofono[m].facet[f] \in Val
  BY ReadType
<1>5. d = [f \in Facet |-> d[f]]
  BY DEF DataTold
<1> HIDE DEF d
<1>6. d \in [Facet -> Val \cup {None}]
  BY <1>1, <1>3, <1>4, <1>5
<1>7. \A f \in Facet : d[f] # None => f \in told
  BY <1>1, <1>3 DEF ObjectOK, HasData, gone
<1>. QED BY <1>3, <1>6, <1>7 DEF d, gone

LEMMA InterfacesToldAlive ==
  ASSUME Alive, InterfacesTold
  PROVE  Alive'
<1> DEFINE s == Head(signals)
           m == s.modem
           told == s.ifaces
           gone == obj[m].known \ told
           new == told \ obj[m].known
           q == Tail(signals)
           self == FALSE
           ends == {f \in gone : HasData(obj[m], f)} \cap TellsItsEnd
<1>1. /\ signals # << >> /\ s.type = "ifaces" /\ context = "ready"
      /\ UNCHANGED <<ofono, context, arriving, registered, missed>>
  BY DEF InterfacesTold, Dispatch
<1>2. Types /\ Phases /\ RealityOK /\ SourcesAlive /\ ProxiesAlive
  BY DEF Alive
<1>3. /\ s \in Signal /\ m \in Modem /\ told \in SUBSET Facet
      /\ q \in Seq(Signal) /\ Len(q) <= MaxSignals /\ Len(q) \in Nat
      /\ \A t : In(t, q) => In(t, signals)
  <2>1. Len(q) \in Nat
    BY <1>1, <1>2, TailShift DEF Types
  <2>. QED BY <1>1, <2>1, HeadFacts, SignalFields
<1>4. /\ arriving' \in [Modem -> Snapshot \cup {None}] /\ registered' \subseteq Kind
      /\ missed' \subseteq Modem
  BY <1>1, <1>2 DEF Types
<1>5. CASE obj[m].phase = "present"
  <2>1. PICK bad \in SUBSET new :
          /\ obj' = [obj EXCEPT ![m].known = told, ![m].data = DataTold(m, told, bad)]
          /\ idle' = SourcesRemoved(idle, m, gone) \cup NotifyAll(obj', new \ bad)
                     \cup {<<m, "modem">>}
          /\ heard' = Hear(heard, m, ends, Gone)
          /\ signals' = Unsubscribed(q, m, gone, self)
    BY <1>5 DEF InterfacesTold, DataTold
  <2> HIDE DEF s, m, told, q, self, ends
  <2> DEFINE d == DataTold(m, told, bad)
             o == WithInterfaces(obj[m], told, d)
             facets == new \ bad
  <2>2. /\ d \in [Facet -> Val \cup {None}]
        /\ \A f \in Facet : d[f] # None => f \in told
        /\ \A f \in Facet : f \in facets => d[f] # None
        /\ \A f \in Facet : f \notin gone /\ HasData(obj[m], f) => d[f] # None
    <3>1. /\ d \in [Facet -> Val \cup {None}]
          /\ \A f \in Facet : d[f] # None => f \in told
          /\ \A f \in Facet : d[f] = IF f \in (told \ obj[m].known) \ bad THEN ofono[m].facet[f]
                                     ELSE IF f \in obj[m].known \ told THEN None
                                     ELSE obj[m].data[f]
      <4> HIDE DEF d, gone, new
      <4> SUFFICES /\ DataTold(m, told, bad) \in [Facet -> Val \cup {None}]
                   /\ \A f \in Facet : DataTold(m, told, bad)[f] # None => f \in told
                   /\ \A f \in Facet : DataTold(m, told, bad)[f] =
                        IF f \in (told \ obj[m].known) \ bad THEN ofono[m].facet[f]
                        ELSE IF f \in obj[m].known \ told THEN None ELSE obj[m].data[f]
        BY DEF d
      <4> HIDE DEF o, facets
      <4>1. Types /\ RealityOK /\ m \in Modem /\ told \in SUBSET Facet
        BY <1>2, <1>3
      <4>. QED BY <4>1, DataToldIs
    <3>2. \A f \in Facet : ofono[m].facet[f] # None
      BY <1>2, <1>3, ReadType
    <3> HIDE DEF d
    <3>. QED BY <3>1, <3>2 DEF HasData
  <2>3. obj' = [obj EXCEPT ![m] = o]
    BY <2>1 DEF WithInterfaces
  <2> HIDE DEF d
  <2>4. ObjectOK(o) /\ o.phase = "present" /\ o.data = d
    <3> DEFINE x == obj[m]
    <3>1. ObjectOK(x) /\ x.phase # "absent"
      BY <1>2, <1>3, <1>5 DEF Types
    <3> HIDE DEF x
    <3>2. /\ ObjectOK(WithInterfaces(x, told, d))
          /\ WithInterfaces(x, told, d).phase = x.phase
          /\ WithInterfaces(x, told, d).data = d
      BY <1>3, <2>2, <3>1, KnownSet
    <3>. QED BY <1>5, <3>2 DEF x
  <2> HIDE DEF o
  <2>5. obj'[m] = o /\ \A n \in Modem \ {m} : obj'[n] = obj[n]
    BY <1>2, <1>3, <2>3 DEF Types
  <2>6. \A f \in Facet : /\ f \in facets => HasData(o, f)
                         /\ f \notin gone /\ HasData(obj[m], f) => HasData(o, f)
    BY <2>2, <2>4 DEF HasData
  <2>7. ASSUME NEW n \in Modem, NEW k \in Kind, <<n, k>> \in idle'
        PROVE  \/ <<n, k>> \in idle /\ ~(n = m /\ k \in gone)
               \/ n = m /\ k = "modem"
               \/ k \in facets /\ obj'[n].phase = "present" /\ HasData(obj'[n], k)
    <3> DEFINE objects == obj'
               rest == SourcesRemoved(idle, m, gone)
    <3>1. \/ <<n, k>> \in rest
          \/ <<n, k>> \in NotifyAll(objects, facets)
          \/ n = m /\ k = "modem"
      BY <2>1, <2>7
    <3> HIDE DEF objects, facets, rest
    <3>2. <<n, k>> \in NotifyAll(objects, facets) =>
            k \in facets /\ objects[n].phase = "present" /\ HasData(objects[n], k)
      BY NotifySet
    <3>3. <<n, k>> \in rest => <<n, k>> \in idle /\ ~(n = m /\ k \in gone)
      BY SourceSets DEF rest
    <3>. QED BY <3>1, <3>2, <3>3 DEF objects
  <2>8. \A f \in Facet : <<m, f>> \in idle' => HasData(o, f)
    <3>1. ASSUME NEW f \in Facet, <<m, f>> \in idle' PROVE HasData(o, f)
      <4>1. f \in Kind /\ f # "modem"
        BY FacetNotModem
      <4>2. \/ <<m, f>> \in idle /\ f \notin gone
            \/ f \in facets
        BY <1>3, <2>7, <3>1, <4>1
      <4>3. <<m, f>> \in idle => HasData(obj[m], f)
        BY <1>2, <1>3 DEF SourcesAlive
      <4>. QED BY <2>6, <4>2, <4>3
    <3>. QED BY <3>1
  <2>9. \A n \in Modem \ {m} : \A k \in Kind : <<n, k>> \in idle' =>
             \/ <<n, k>> \in idle
             \/ obj[n].phase = "present" /\ (k # "modem" => HasData(obj[n], k))
    BY <2>5, <2>7
  <2>10. idle' \in SUBSET (Modem \X Kind)
    <3>1. NotifyAll(obj', facets) \in SUBSET (Modem \X Kind)
      BY <1>3, FacetNotModem DEF NotifyAll
    <3>2. <<m, "modem">> \in Modem \X Kind /\ SourcesRemoved(idle, m, gone) \in SUBSET (Modem \X Kind)
      BY <1>2, <1>3, FacetNotModem DEF Types, SourcesRemoved
    <3>. QED BY <2>1, <3>1, <3>2
  <2>11. heard' \in [Kind -> [Modem -> Val \cup {None, Gone}]]
    BY <1>2, <1>3, <2>1, HearType
  <2>12. /\ signals' \in Seq(Signal) /\ Len(signals') <= MaxSignals
         /\ \A t : In(t, signals') =>
              In(t, q) /\ (t.modem = m /\ t.type = "facet" => t.facet \notin gone)
    <3>1. self \in BOOLEAN
      BY DEF self
    <3>2. /\ signals' \in Seq(Signal) /\ Len(signals') <= Len(q)
          /\ \A t : In(t, signals') =>
               In(t, q) /\ (t.modem = m /\ t.type = "facet" => t.facet \notin gone)
      BY <1>3, <2>1, <3>1, UnsubscribedRest
    <3>3. Len(signals') \in Nat
      BY <3>2
    <3>4. Len(signals') <= MaxSignals
      BY <1>3, <3>2, <3>3
    <3>. QED BY <3>2, <3>4
  <2>13. arriving[m] = None
    BY <1>1, <1>2, <1>3, <1>5 DEF Phases
  <2>14. /\ UNCHANGED <<ofono, context>>
         /\ context \in {"subscribed", "listed"} => o.phase = "absent"
         /\ context = "none" => o.phase \in {"absent", "leaving"}
         /\ \A n \in Modem \ {m} : arriving'[n] = arriving[n]
         /\ o.phase = "replacing" => arriving'[m] # None
         /\ arriving'[m] # None => context = "listed" \/ o.phase = "replacing"
         /\ <<m, "modem">> \in idle' => o.phase = "present"
    BY <1>1, <2>4, <2>13
  <2>15. \A t \in Signal : In(t, signals') =>
           /\ In(t, signals)
           /\ t.modem = m /\ t.type \in {"value", "ifaces"} => o.phase # "absent"
           /\ t.modem = m /\ t.type = "facet" => HasData(o, t.facet)
    <3>1. ASSUME NEW t \in Signal, In(t, signals'), t.modem = m, t.type = "facet"
          PROVE  HasData(o, t.facet)
      <4>1. Subscribed(t) /\ t.facet \in Facet /\ t.facet \notin gone
        BY <1>2, <1>3, <2>12, <3>1, SignalFields DEF ProxiesAlive
      <4>. QED BY <2>6, <3>1, <4>1, SubscribedCases
    <3>. QED BY <1>3, <2>4, <2>12, <3>1
  <2>. QED BY <1>3, <1>4, <2>3, <2>4, <2>8, <2>9, <2>10, <2>11, <2>12, <2>14, <2>15, OneObjectAlive
<1>6. CASE obj[m].phase # "present"
  <2>1. signals' = q /\ UNCHANGED <<obj, idle, heard>>
    BY <1>6 DEF InterfacesTold
  <2>2. /\ UNCHANGED <<ofono, context, obj, arriving>>
        /\ idle' \in SUBSET (Modem \X Kind)
        /\ heard' \in [Kind -> [Modem -> Val \cup {None, Gone}]]
        /\ \A n \in Modem : \A k \in Kind : <<n, k>> \in idle' => <<n, k>> \in idle
    BY <1>1, <1>2, <2>1 DEF Types
  <2>3. /\ signals' \in Seq(Signal) /\ Len(signals') <= MaxSignals
        /\ \A t \in Signal : In(t, signals') => In(t, signals)
    BY <1>3, <2>1
  <2>. QED BY <1>4, <2>2, <2>3, SameObjectsAlive
<1>. QED BY <1>5, <1>6

LEMMA FacetToldAlive ==
  ASSUME Alive, FacetTold
  PROVE  Alive'
<1> DEFINE s == Head(signals)
           m == s.modem
           f == s.facet
           v == s.value
           o == [obj[m] EXCEPT !.data[f] = v]
<1>1. /\ signals # << >> /\ s.type = "facet"
      /\ signals' = Tail(signals)
      /\ obj' = [obj EXCEPT ![m] = o]
      /\ idle' \in {idle, idle \cup {<<m, f>>}}
      /\ UNCHANGED <<ofono, context, arriving, registered, heard, missed>>
  BY DEF FacetTold, Dispatch
<1>2. Types /\ Phases /\ RealityOK /\ SourcesAlive /\ ProxiesAlive
  BY DEF Alive
<1>3. /\ s \in Signal /\ m \in Modem /\ v \in Val /\ f \in Facet /\ Subscribed(s)
      /\ signals' \in Seq(Signal) /\ Len(signals') <= MaxSignals
      /\ \A t : In(t, signals') => In(t, signals)
  BY <1>1, HeadFacts, SignalFields
<1>4. HasData(obj[m], f)
  BY <1>1, <1>3, SubscribedCases
<1> HIDE DEF s, m, f, v
<1>5. /\ ObjectOK(o) /\ o.phase = obj[m].phase
      /\ \A g \in Facet : HasData(o, g) <=> HasData(obj[m], g)
  <2> DEFINE x == obj[m]
  <2>1. ObjectOK(x) /\ HasData(x, f)
    BY <1>2, <1>3, <1>4 DEF Types
  <2> HIDE DEF x
  <2>2. /\ ObjectOK([x EXCEPT !.data[f] = v]) /\ [x EXCEPT !.data[f] = v].phase = x.phase
        /\ \A g \in Facet : HasData([x EXCEPT !.data[f] = v], g) <=> HasData(x, g)
    <3>1. ObjectOK(x) /\ HasData(x, f) /\ f \in Facet /\ v \in Val
      BY <1>3, <2>1
    <3>. QED BY <3>1, DataSet
  <2>. QED BY <2>2 DEF x
<1> HIDE DEF o
<1>6. \A n \in Modem : \A k \in Kind : <<n, k>> \in idle' =>
        <<n, k>> \in idle \/ (n = m /\ k = f)
  BY <1>1
<1>7. idle' \in SUBSET (Modem \X Kind)
  BY <1>1, <1>2, <1>3, FacetNotModem DEF Types
<1>8. /\ arriving' \in [Modem -> Snapshot \cup {None}] /\ registered' \subseteq Kind
      /\ heard' \in [Kind -> [Modem -> Val \cup {None, Gone}]] /\ missed' \subseteq Modem
  BY <1>1, <1>2 DEF Types
<1>9. /\ UNCHANGED <<ofono, context>>
      /\ context \in {"subscribed", "listed"} => o.phase = "absent"
      /\ context = "none" => o.phase \in {"absent", "leaving"}
      /\ \A n \in Modem \ {m} : arriving'[n] = arriving[n]
      /\ o.phase = "replacing" => arriving'[m] # None
      /\ arriving'[m] # None => context = "listed" \/ o.phase = "replacing"
  BY <1>1, <1>2, <1>3, <1>5 DEF Phases
<1>10. <<m, "modem">> \in idle' => o.phase = "present"
  BY <1>2, <1>3, <1>5, <1>6, FacetNotModem DEF SourcesAlive
<1>11. \A g \in Facet : <<m, g>> \in idle' => HasData(o, g)
  BY <1>2, <1>3, <1>4, <1>5, <1>6, FacetNotModem DEF SourcesAlive
<1>12. \A n \in Modem \ {m} : \A k \in Kind : <<n, k>> \in idle' =>
           \/ <<n, k>> \in idle
           \/ obj[n].phase = "present" /\ (k # "modem" => HasData(obj[n], k))
  BY <1>6
<1>13. \A t \in Signal : In(t, signals') =>
         /\ In(t, signals)
         /\ t.modem = m /\ t.type \in {"value", "ifaces"} => o.phase # "absent"
         /\ t.modem = m /\ t.type = "facet" => HasData(o, t.facet)
  <2>1. ASSUME NEW t \in Signal, In(t, signals'), t.modem = m
        PROVE  /\ t.type \in {"value", "ifaces"} => o.phase # "absent"
               /\ t.type = "facet" => HasData(o, t.facet)
    <3>1. Subscribed(t) /\ (t.type = "facet" => t.facet \in Facet)
      BY <1>2, <1>3, <2>1, SignalFields DEF ProxiesAlive
    <3>. QED BY <1>5, <2>1, <3>1, SubscribedCases
  <2>. QED BY <1>3, <2>1
<1>. QED BY <1>1, <1>3, <1>5, <1>7, <1>8, <1>9, <1>10, <1>11, <1>12, <1>13, OneObjectAlive

LEMMA IdleNotifyAlive ==
  ASSUME Alive, NEW m \in Modem, NEW k \in Kind, IdleNotify(m, k)
  PROVE  Alive'
<1> DEFINE v == IF k = "modem" THEN obj[m].view ELSE obj[m].data[k]
<1>1. /\ idle' = idle \ {<<m, k>>} /\ heard' = Hear(heard, m, {k}, v)
      /\ UNCHANGED <<ofono, signals, context, obj, arriving, registered, missed>>
  BY DEF IdleNotify
<1>2. Types
  BY DEF Alive
<1>3. v \in Val \cup {None, Gone}
  <2>1. obj[m] \in Object
    BY <1>2 DEF Types
  <2>2. CASE k = "modem"
    BY <2>1, <2>2 DEF Object
  <2>3. CASE k # "modem"
    BY <2>1, <2>3 DEF Object, Kind
  <2>. QED BY <2>2, <2>3
<1> HIDE DEF v
<1>4. heard' \in [Kind -> [Modem -> Val \cup {None, Gone}]]
  BY <1>1, <1>2, <1>3, HearType
<1>5. /\ signals' \in Seq(Signal) /\ Len(signals') <= MaxSignals
      /\ idle' \in SUBSET (Modem \X Kind) /\ registered' \subseteq Kind /\ missed' \subseteq Modem
      /\ UNCHANGED <<ofono, context, obj, arriving>>
  BY <1>1, <1>2 DEF Types
<1>6. \A n \in Modem : \A j \in Kind : <<n, j>> \in idle' => <<n, j>> \in idle
  BY <1>1
<1>7. \A s \in Signal : In(s, signals') => In(s, signals)
  BY <1>1
<1>. QED BY <1>4, <1>5, <1>6, <1>7, SameObjectsAlive

LEMMA RegisterAlive ==
  ASSUME Alive, NEW k \in Kind, Register(k)
  PROVE  Alive'
<1>1. /\ registered' = registered \cup {k}
      /\ UNCHANGED <<ofono, signals, context, obj, arriving, heard, missed>>
  BY DEF Register
<1>2. Types
  BY DEF Alive
<1>3. \A n \in Modem : \A j \in Kind : <<n, j>> \in idle' =>
        \/ <<n, j>> \in idle
        \/ obj[n].phase = "present" /\ (j # "modem" => HasData(obj[n], j))
  <2>1. CASE k = "modem"
    <3>1. idle' = idle \cup {<<m, "modem">> : m \in {n \in Modem : obj[n].phase = "present"}}
      BY <2>1 DEF Register
    <3>. QED BY <3>1
  <2>2. CASE k # "modem"
    <3>1. idle' = idle \cup NotifyAll(obj, {k})
      BY <2>2 DEF Register
    <3>. QED BY <3>1, NotifySet
  <2>. QED BY <2>1, <2>2
<1>4. idle' \in SUBSET (Modem \X Kind)
  <2>1. {<<m, "modem">> : m \in {n \in Modem : obj[n].phase = "present"}} \in SUBSET (Modem \X Kind)
    BY FacetNotModem
  <2>2. NotifyAll(obj, {k}) \in SUBSET (Modem \X Kind)
    BY DEF NotifyAll
  <2>3. idle \in SUBSET (Modem \X Kind)
    BY <1>2 DEF Types
  <2>. QED BY <2>1, <2>2, <2>3 DEF Register
<1>5. /\ signals' \in Seq(Signal) /\ Len(signals') <= MaxSignals /\ registered' \subseteq Kind
      /\ heard' \in [Kind -> [Modem -> Val \cup {None, Gone}]] /\ missed' \subseteq Modem
      /\ UNCHANGED <<ofono, context, obj, arriving>>
  BY <1>1, <1>2 DEF Types
<1>6. \A s \in Signal : In(s, signals') => In(s, signals)
  BY <1>1
<1>. QED BY <1>3, <1>4, <1>5, <1>6, SameObjectsAlive

(* A forgotten kind was not told. *)
LEMMA ForgottenType ==
  ASSUME Types, NEW k \in Kind
  PROVE  /\ Forgotten(heard, k) \in [Kind -> [Modem -> Val \cup {None, Gone}]]
         /\ \A j \in Kind, n \in Modem :
              Forgotten(heard, k)[j][n] = IF j = k THEN None ELSE heard[j][n]
<1> DEFINE nothing == [m \in Modem |-> None]
<1>1. nothing \in [Modem -> Val \cup {None, Gone}] /\ \A n \in Modem : nothing[n] = None
  OBVIOUS
<1>2. heard \in [Kind -> [Modem -> Val \cup {None, Gone}]]
  BY DEF Types
<1>3. Forgotten(heard, k) = [heard EXCEPT ![k] = nothing]
  BY DEF Forgotten
<1> HIDE DEF nothing
<1>. QED BY <1>1, <1>2, <1>3

LEMMA CloseAlive ==
  ASSUME Alive, NEW k \in Kind, Close(k)
  PROVE  Alive'
<1>1. /\ registered' = registered \ {k} /\ heard' = Forgotten(heard, k)
      /\ UNCHANGED <<ofono, signals, context, obj, arriving, idle, missed>>
  BY DEF Close
<1>2. Types
  BY DEF Alive
<1>3. heard' \in [Kind -> [Modem -> Val \cup {None, Gone}]]
  BY <1>1, <1>2, ForgottenType
<1>4. /\ signals' \in Seq(Signal) /\ Len(signals') <= MaxSignals /\ registered' \subseteq Kind
      /\ idle' \in SUBSET (Modem \X Kind) /\ missed' \subseteq Modem
      /\ UNCHANGED <<ofono, context, obj, arriving>>
  BY <1>1, <1>2 DEF Types
<1>5. /\ \A n \in Modem : \A j \in Kind : <<n, j>> \in idle' => <<n, j>> \in idle
      /\ \A s \in Signal : In(s, signals') => In(s, signals)
  BY <1>1
<1>. QED BY <1>3, <1>4, <1>5, SameObjectsAlive

(* While no modem is in the table or on its way out, there are no sources, *)
(* and no signals but those of the manager.                                *)
LEMMA NothingListed ==
  ASSUME Alive, \A m \in Modem : obj[m].phase = "absent"
  PROVE  /\ idle = {}
         /\ \A s \in Signal : In(s, signals) => s.type \in {"added", "removed"}
         /\ \A m \in Modem : obj[m] = Absent
<1>1. Types /\ SourcesAlive /\ ProxiesAlive
  BY DEF Alive
<1>2. \A m \in Modem : obj[m] = Absent
  BY <1>1 DEF Types, ObjectOK
<1>3. \A m \in Modem : <<m, "modem">> \notin idle /\ \A f \in Facet : <<m, f>> \notin idle
  BY <1>1, <1>2, AbsentType DEF SourcesAlive
<1>4. idle \subseteq Modem \X Kind
  BY <1>1 DEF Types
<1>5. idle = {}
  <2>1. ASSUME NEW p \in idle PROVE FALSE
    <3>1. p = <<p[1], p[2]>> /\ p[1] \in Modem /\ p[2] \in Kind
      BY <1>4
    <3>2. \A k \in Kind : <<p[1], k>> \notin idle
      BY <1>3, <3>1 DEF Kind
    <3>. QED BY <3>1, <3>2
  <2>. QED BY <2>1
<1>6. ASSUME NEW s \in Signal, In(s, signals) PROVE s.type \in {"added", "removed"}
  <2>1. Subscribed(s) /\ s.modem \in Modem /\ (s.type = "facet" => s.facet \in Facet)
        /\ s.type \in {"added", "removed", "value", "ifaces", "facet"}
    BY <1>1, <1>6, SignalFields DEF ProxiesAlive
  <2>2. s.type \notin {"value", "ifaces"}
    BY <1>2, <2>1, SubscribedCases, AbsentType
  <2>3. s.type # "facet"
    BY <1>2, <2>1, SubscribedCases, AbsentType
  <2>. QED BY <2>1, <2>2, <2>3
<1>. QED BY <1>2, <1>5, <1>6

LEMMA OpenAlive ==
  ASSUME Alive, NEW k \in Kind, Open(k)
  PROVE  Alive'
<1>1. /\ context' = "subscribed" /\ context = "none" /\ registered' = {k}
      /\ \A m \in Modem : obj[m].phase = "absent"
      /\ UNCHANGED <<ofono, signals, obj, arriving, idle, heard, missed>>
  BY DEF Open
<1>2. Types /\ Phases /\ RealityOK /\ SourcesAlive /\ ProxiesAlive
  BY DEF Alive
<1>3. Types'
  BY <1>1, <1>2 DEF Types
<1>4. Phases' /\ RealityOK' /\ SourcesAlive'
  BY <1>1, <1>2 DEF Phases, RealityOK, SourcesAlive
<1>5. ProxiesAlive'
  <2>1. ASSUME NEW s \in Signal, In(s, signals) PROVE Subscribed(s)'
    BY <1>1, <2>1, NothingListed, SubscribedCases
  <2>. QED BY <1>1, <2>1 DEF ProxiesAlive
<1>. QED BY <1>3, <1>4, <1>5 DEF Alive

LEMMA GetModemsAlive ==
  ASSUME Alive, GetModems
  PROVE  Alive'
<1>1. /\ context = "subscribed" /\ context' = "listed"
      /\ arriving' = [m \in Modem |-> IF ofono[m].here THEN SnapshotOf(m) ELSE None]
      /\ UNCHANGED <<ofono, signals, obj, idle, registered, heard, missed>>
  BY DEF GetModems
<1>2. Types /\ Phases /\ RealityOK /\ SourcesAlive /\ ProxiesAlive
  BY DEF Alive
<1>3. \A m \in Modem : SnapshotOf(m) \in Snapshot
  BY <1>2 DEF Types, SnapshotOf, Snapshot, Reality
<1>4. Types'
  BY <1>1, <1>2, <1>3 DEF Types
<1>5. Phases' /\ RealityOK' /\ SourcesAlive'
  BY <1>1, <1>2 DEF Phases, RealityOK, SourcesAlive
<1>6. ProxiesAlive'
  <2>1. ASSUME NEW s \in Signal, In(s, signals) PROVE Subscribed(s)'
    BY <1>1, <1>2, <2>1, SubscribedCases DEF ProxiesAlive
  <2>. QED BY <1>1, <2>1 DEF ProxiesAlive
<1>. QED BY <1>4, <1>5, <1>6 DEF Alive

LEMMA GetModemsFailsAlive ==
  ASSUME Alive, GetModemsFails
  PROVE  Alive'
<1>1. /\ context = "subscribed" /\ context' = "none" /\ registered' = {}
      /\ signals' = << >> /\ missed' = {}
      /\ UNCHANGED <<ofono, obj, arriving, idle, heard>>
  BY DEF GetModemsFails
<1>2. Types /\ Phases /\ RealityOK /\ SourcesAlive
  BY DEF Alive
<1>3. Types'
  BY <1>1, <1>2 DEF Types
<1>4. Phases' /\ RealityOK' /\ SourcesAlive'
  BY <1>1, <1>2 DEF Phases, RealityOK, SourcesAlive
<1>5. ProxiesAlive'
  BY <1>1, InEmpty DEF ProxiesAlive
<1>. QED BY <1>3, <1>4, <1>5 DEF Alive

LEMMA OpenedAlive ==
  ASSUME Alive, Opened
  PROVE  Alive'
<1>1. PICK bad \in SUBSET Facet :
        obj' = [m \in Modem |-> IF arriving[m] # None THEN Made(m, arriving[m], bad)
                                ELSE Absent]
  BY DEF Opened
<1>2. /\ context = "listed" /\ context' = "ready"
      /\ idle' = {<<m, "modem">> : m \in {n \in Modem : arriving[n] # None}}
                 \cup NotifyAll(obj', Facet)
      /\ arriving' = [m \in Modem |-> None]
      /\ UNCHANGED <<ofono, signals, registered, heard, missed>>
  BY DEF Opened
<1>3. Types /\ Phases /\ RealityOK /\ ProxiesAlive
  BY DEF Alive
<1>4. \A m \in Modem : arriving[m] # None =>
        arriving[m].value \in Val /\ arriving[m].ifaces \in SUBSET Facet
  BY <1>3 DEF Types, Snapshot
<1>5. \A m \in Modem : /\ ObjectOK(obj'[m])
                       /\ arriving[m] # None => obj'[m].phase = "present"
                       /\ arriving[m] = None => obj'[m].phase = "absent"
  <2>1. ASSUME NEW m \in Modem, arriving[m] # None
        PROVE  ObjectOK(obj'[m]) /\ obj'[m].phase = "present"
    <3>1. obj'[m] = Made(m, arriving[m], bad)
      BY <1>1, <2>1
    <3>. QED BY <1>3, <1>4, <2>1, <3>1, MadeType
  <2>2. ASSUME NEW m \in Modem, arriving[m] = None
        PROVE  ObjectOK(obj'[m]) /\ obj'[m].phase = "absent"
    BY <1>1, <2>2, AbsentType
  <2>. QED BY <2>1, <2>2
<1>6. obj' = [m \in Modem |-> obj'[m]]
  BY <1>1
<1>7. Types'
  <2>1. NotifyAll(obj', Facet) \in SUBSET (Modem \X Kind)
    BY FacetNotModem DEF NotifyAll
  <2>2. {<<m, "modem">> : m \in {n \in Modem : arriving[n] # None}} \in SUBSET (Modem \X Kind)
    BY FacetNotModem
  <2>3. idle' \subseteq Modem \X Kind
    BY <1>2, <2>1, <2>2
  <2>4. obj' \in [Modem -> Object] /\ \A m \in Modem : ObjectOK(obj'[m])
    BY <1>5, <1>6 DEF ObjectOK
  <2>. QED BY <1>2, <1>3, <2>3, <2>4 DEF Types
<1>8. Phases'
  <2>1. \A m \in Modem : obj'[m].phase \in {"present", "absent"} /\ arriving'[m] = None
    BY <1>2, <1>5
  <2>. QED BY <1>2, <2>1 DEF Phases
<1>9. RealityOK'
  BY <1>2, <1>3 DEF RealityOK
<1>10. SourcesAlive'
  <2>1. ASSUME NEW m \in Modem, NEW k \in Kind, <<m, k>> \in idle'
        PROVE  (k = "modem" /\ arriving[m] # None)
               \/ (k \in Facet /\ HasData(obj'[m], k))
    BY <1>2, <2>1, NotifySet
  <2>. QED BY <1>5, <2>1, FacetNotModem DEF SourcesAlive
<1>11. ProxiesAlive'
  <2>1. ASSUME NEW s \in Signal, In(s, signals) PROVE Subscribed(s)'
    <3>1. s.type \in {"added", "removed"}
      BY <1>2, <1>3, <2>1, NothingListed DEF Phases
    <3>. QED BY <1>2, <3>1, SubscribedCases
  <2>. QED BY <1>2, <2>1 DEF ProxiesAlive
<1>. QED BY <1>7, <1>8, <1>9, <1>10, <1>11 DEF Alive

LEMMA CloseLastAlive ==
  ASSUME Alive, NEW k \in Kind, CloseLast(k)
  PROVE  Alive'
<1> DEFINE out == {m \in Modem : obj[m].phase = "leaving"}
           alive == {s \in Signal : s.type = "facet" /\ s.modem \in out}
<1>1. /\ context = "ready" /\ context' = "none" /\ registered' = {}
      /\ \A m \in Modem : obj[m].phase # "replacing"
      /\ heard' = Forgotten(heard, k)
      /\ obj' = [m \in Modem |-> IF m \in out THEN obj[m] ELSE Absent]
      /\ idle' = {s \in idle : s[1] \in out}
      /\ signals' = Filtered(signals, alive)
      /\ missed' = {} /\ UNCHANGED <<ofono, arriving>>
  BY DEF CloseLast
<1>2. Types /\ Phases /\ RealityOK /\ SourcesAlive /\ ProxiesAlive
  BY DEF Alive
<1>3. \A m \in Modem : /\ m \in out => obj'[m] = obj[m] /\ obj'[m].phase = "leaving"
                       /\ m \notin out => obj'[m] = Absent /\ obj'[m].phase = "absent"
  BY <1>1, AbsentType
<1>4. \A m \in Modem : m \in out <=> obj[m].phase = "leaving"
  OBVIOUS
<1>5. \A s \in alive : s.type = "facet" /\ s.modem \in out
  OBVIOUS
<1> HIDE DEF out, alive
<1>6. obj' \in [Modem -> Object] /\ \A m \in Modem : ObjectOK(obj'[m])
  <2>1. obj' = [m \in Modem |-> obj'[m]]
    BY <1>1
  <2>2. \A m \in Modem : ObjectOK(obj'[m])
    BY <1>2, <1>3, AbsentType DEF Types
  <2>. QED BY <2>1, <2>2 DEF ObjectOK
<1>7. signals' \in Seq(Signal) /\ Len(signals') <= MaxSignals
  <2>1. signals \in Seq(Signal) /\ Len(signals) <= MaxSignals /\ Len(signals) \in Nat
    BY <1>2 DEF Types
  <2>2. signals' \in Seq(Signal) /\ Len(signals') <= Len(signals)
    BY <1>1, <2>1, FilteredType
  <2>3. Len(signals') \in Nat
    BY <2>2
  <2>4. Len(signals') <= MaxSignals
    BY <2>1, <2>2, <2>3
  <2>. QED BY <2>2, <2>4
<1>8. Types'
  <2>1. heard' \in [Kind -> [Modem -> Val \cup {None, Gone}]]
    BY <1>1, <1>2, ForgottenType
  <2>. QED BY <1>1, <1>2, <1>6, <1>7, <2>1 DEF Types
<1>9. Phases'
  BY <1>1, <1>2, <1>3 DEF Phases
<1>10. RealityOK'
  BY <1>1, <1>2 DEF RealityOK
<1>11. \A m \in Modem : \A j \in Kind : <<m, j>> \in idle' => <<m, j>> \in idle /\ m \in out
  BY <1>1
<1>12. SourcesAlive'
  <2>1. ASSUME NEW m \in Modem
        PROVE  /\ <<m, "modem">> \notin idle'
               /\ \A f \in Facet : <<m, f>> \in idle' => HasData(obj'[m], f)
    <3>1. <<m, "modem">> \in idle' => <<m, "modem">> \in idle /\ m \in out
      BY <1>11, FacetNotModem
    <3>2. \A f \in Facet : <<m, f>> \in idle' => <<m, f>> \in idle /\ m \in out
      BY <1>11, FacetNotModem
    <3>. QED BY <1>2, <1>3, <1>4, <3>1, <3>2 DEF SourcesAlive
  <2>. QED BY <2>1 DEF SourcesAlive
<1>13. ProxiesAlive'
  <2>1. ASSUME NEW s \in Signal, In(s, signals') PROVE Subscribed(s)'
    <3>1. s \in alive /\ In(s, signals)
      BY <1>1, <1>2, <2>1, InFiltered DEF Types
    <3>2. Subscribed(s) /\ s.modem \in Modem
      BY <1>2, <3>1, SignalFields DEF ProxiesAlive
    <3>. QED BY <1>3, <1>5, <3>1, <3>2, SubscribedCases
  <2>. QED BY <2>1 DEF ProxiesAlive
<1>. QED BY <1>8, <1>9, <1>10, <1>12, <1>13 DEF Alive

LEMMA ProcessDiesAlive ==
  ASSUME Alive, ProcessDies
  PROVE  Alive'
<1>1. /\ signals' = << >> /\ context' = "none"
      /\ obj' = [m \in Modem |-> Absent] /\ arriving' = [m \in Modem |-> None]
      /\ idle' = {} /\ registered' = {}
      /\ heard' = [k \in Kind |-> [m \in Modem |-> None]]
      /\ missed' = {} /\ ofono' = ofono
  BY DEF ProcessDies
<1>2. Types /\ RealityOK
  BY DEF Alive
<1>3. Types'
  BY <1>1, <1>2, AbsentType DEF Types
<1>4. Phases' /\ RealityOK' /\ SourcesAlive'
  BY <1>1, <1>2, AbsentType DEF Phases, RealityOK, SourcesAlive
<1>5. ProxiesAlive'
  BY <1>1, InEmpty DEF ProxiesAlive
<1>. QED BY <1>3, <1>4, <1>5 DEF Alive

LEMMA CodeVerifiedAlive ==
  ASSUME Alive, NEW m \in Modem, CodeVerified(m)
  PROVE  Alive'
<1> DEFINE f == "sim"
<1>1. PICK v \in Val :
        /\ FacetBecomes(m, f, v)
        /\ Emit([type |-> "facet", modem |-> m, facet |-> f, value |-> v])
        /\ obj' = [obj EXCEPT ![m].data[f] = v]
  BY DEF CodeVerified, FacetBecomes
<1>2. /\ f \in ofono[m].ifaces /\ HasData(obj[m], f)
      /\ UNCHANGED <<context, arriving, idle, registered, heard, missed>>
  BY DEF CodeVerified
<1>3. Types /\ Phases /\ RealityOK /\ SourcesAlive /\ ProxiesAlive
  BY DEF Alive
<1>4. f \in Facet
  BY <1>2, <1>3 DEF Types, Reality
<1> HIDE DEF f
<1>5. ofono' \in [Modem -> Reality] /\ RealityOK'
  BY <1>1, <1>2, <1>3, <1>4, FacetSet, FacetSetReality
<1> DEFINE t == [type |-> "facet", modem |-> m, facet |-> f, value |-> v]
           x == obj[m]
           o == [x EXCEPT !.data[f] = v]
<1>6. t \in Signal /\ Emit(t)
  BY <1>1, <1>4 DEF Signal
<1>7. obj' = [obj EXCEPT ![m] = o]
  BY <1>1
<1>8. ObjectOK(x) /\ HasData(x, f)
  BY <1>2, <1>3 DEF Types
<1> HIDE DEF t, x
<1>9. /\ ObjectOK(o) /\ o.phase = x.phase
      /\ \A g \in Facet : HasData(o, g) <=> HasData(x, g)
  BY <1>4, <1>8, DataSet
<1> HIDE DEF o
<1>10. /\ signals' \in Seq(Signal) /\ Len(signals') <= MaxSignals
       /\ \A s \in Signal : In(s, signals') => Subscribed(s)
  BY <1>3, <1>6, EmitDoes
<1>11. obj \in [Modem -> Object] /\ o \in Object
  BY <1>3, <1>9 DEF Types, ObjectOK
<1>12. /\ obj' \in [Modem -> Object] /\ obj'[m] = o
       /\ \A n \in Modem \ {m} : obj'[n] = obj[n]
  BY <1>7, <1>11
<1>13. \A n \in Modem : /\ ObjectOK(obj'[n]) /\ obj'[n].phase = obj[n].phase
                        /\ \A g \in Facet : HasData(obj'[n], g) <=> HasData(obj[n], g)
  <2>1. ASSUME NEW n \in Modem, n # m
        PROVE  /\ ObjectOK(obj'[n]) /\ obj'[n].phase = obj[n].phase
               /\ \A g \in Facet : HasData(obj'[n], g) <=> HasData(obj[n], g)
    BY <1>3, <1>12, <2>1 DEF Types
  <2>2. /\ ObjectOK(obj'[m]) /\ obj'[m].phase = obj[m].phase
        /\ \A g \in Facet : HasData(obj'[m], g) <=> HasData(obj[m], g)
    BY <1>9, <1>12 DEF x
  <2>. QED BY <2>1, <2>2
<1>14. Types'
  BY <1>2, <1>3, <1>5, <1>10, <1>12, <1>13 DEF Types
<1>15. Phases' /\ SourcesAlive'
  BY <1>2, <1>3, <1>13 DEF Phases, SourcesAlive
<1>16. ProxiesAlive'
  <2>1. ASSUME NEW s \in Signal, In(s, signals') PROVE Subscribed(s)'
    BY <1>2, <1>10, <1>13, <2>1, SignalFields, SubscribedCases
  <2>. QED BY <2>1 DEF ProxiesAlive
<1>. QED BY <1>5, <1>14, <1>15, <1>16 DEF Alive

LEMMA InitAlive == Init => Alive
<1> SUFFICES ASSUME Init PROVE Alive
  OBVIOUS
<1>1. Types
  BY NowhereType, AbsentType DEF Init, Types
<1>2. Phases /\ RealityOK /\ SourcesAlive
  BY NowhereType, AbsentType DEF Init, Phases, RealityOK, SourcesAlive
<1>3. ProxiesAlive
  BY InEmpty DEF Init, ProxiesAlive
<1>. QED BY <1>1, <1>2, <1>3 DEF Alive

LEMMA NextAlive ==
  ASSUME Alive, [Next]_vars
  PROVE  Alive'
<1>1. ASSUME NEW m \in Modem, ModemAppears(m) PROVE Alive'
  BY <1>1, ModemAppearsAlive
<1>2. ASSUME NEW m \in Modem, ModemVanishes(m) PROVE Alive'
  BY <1>2, ModemVanishesAlive
<1>3. ASSUME NEW m \in Modem, ValueChanges(m) PROVE Alive'
  BY <1>3, ValueChangesAlive
<1>4. ASSUME NEW m \in Modem, NEW f \in Facet, InterfaceChanges(m, f) PROVE Alive'
  BY <1>4, InterfaceChangesAlive
<1>5. ASSUME NEW m \in Modem, NEW f \in Facet, FacetChanges(m, f) PROVE Alive'
  BY <1>5, FacetChangesAlive
<1>6. ASSUME NEW k \in Kind, Open(k) PROVE Alive'
  BY <1>6, OpenAlive
<1>7. ASSUME NEW k \in Kind, Register(k) PROVE Alive'
  BY <1>7, RegisterAlive
<1>8. ASSUME NEW k \in Kind, Close(k) PROVE Alive'
  BY <1>8, CloseAlive
<1>9. ASSUME NEW k \in Kind, CloseLast(k) PROVE Alive'
  BY <1>9, CloseLastAlive
<1>10. ASSUME NEW m \in Modem, Replaced(m) PROVE Alive'
  BY <1>10, ReplacedAlive
<1>11. ASSUME NEW m \in Modem, ModemFinalized(m) PROVE Alive'
  BY <1>11, ModemFinalizedAlive
<1>12. ASSUME NEW m \in Modem, NEW k \in Kind, IdleNotify(m, k) PROVE Alive'
  BY <1>12, IdleNotifyAlive
<1>13. ASSUME NEW m \in Modem, CodeVerified(m) PROVE Alive'
  BY <1>13, CodeVerifiedAlive
<1>14. CASE UNCHANGED vars
  <2>1. Types' /\ Phases' /\ RealityOK' /\ SourcesAlive'
    BY <1>14 DEF Alive, Types, Phases, RealityOK, SourcesAlive, vars
  <2>2. ProxiesAlive'
    BY <1>14 DEF Alive, ProxiesAlive, Subscribed, vars
  <2>. QED BY <2>1, <2>2 DEF Alive
<1>. QED
  BY <1>1, <1>2, <1>3, <1>4, <1>5, <1>6, <1>7, <1>8, <1>9, <1>10, <1>11, <1>12, <1>13, <1>14,
     GetModemsAlive, GetModemsFailsAlive, OpenedAlive, ProcessDiesAlive, ModemAddedAlive,
     ModemReplacedAlive, ModemRemovedAlive, ValueToldAlive, InterfacesToldAlive, FacetToldAlive
     DEF Next
-----------------------------------------------------------------------------
(* What the callbacks have been told.  A signal under way from oFono about *)
(* a facet.                                                                *)
Pending(m, f, q) ==
  \E s \in Signal : In(s, q) /\ s.type = "facet" /\ s.modem = m /\ s.facet = f

(* Only registered callbacks have been told anything, and none is          *)
(* registered without a context.                                           *)
HeardRegistered ==
  /\ context = "none" => registered = {}
  /\ \A k \in Kind, m \in Modem : heard[k][m] # None => context = "ready" /\ k \in registered

HeardModem(m) ==
  context = "ready" /\ "modem" \in registered /\ <<m, "modem">> \notin idle =>
    /\ obj[m].phase = "present" => heard["modem"][m] = obj[m].view
    /\ obj[m].phase # "present" => heard["modem"][m] \in {None, Gone}

HeardFacet(m, f) ==
  context = "ready" /\ f \in registered /\ <<m, f>> \notin idle =>
    /\ HasData(obj[m], f) /\ obj[m].phase = "present" =>
         SameShown(f, heard[f][m], obj[m].data[f]) \/ (f = "sim" /\ Pending(m, f, signals))
    /\ ~HasData(obj[m], f) /\ f \in {"sim", "net"} => heard[f][m] \in {None, Gone}

HeardOf(m) == HeardModem(m) /\ \A f \in Facet : HeardFacet(m, f)

Heard == HeardRegistered /\ \A m \in Modem : HeardOf(m)

LEMMA HeardIsQuietMeansHeard == Types /\ Heard => QuietMeansHeard
<1> SUFFICES ASSUME Types, Heard, context = "ready",
                    NEW m \in Modem, NEW k \in registered, <<m, k>> \notin idle
             PROVE  CASE k = "modem" -> IF obj[m].phase = "present" THEN heard[k][m] = obj[m].view
                                        ELSE heard[k][m] \in {None, Gone}
                      [] k # "modem" /\ HasData(obj[m], k) /\ obj[m].phase = "present" ->
                           \/ SameShown(k, heard[k][m], obj[m].data[k])
                           \/ k = "sim" /\ \E i \in 1..Len(signals) :
                                signals[i].type = "facet" /\ signals[i].modem = m
                                /\ signals[i].facet = k
                      [] k # "modem" /\ ~HasData(obj[m], k) ->
                           k \in {"sim", "net"} => heard[k][m] \in {None, Gone}
                      [] OTHER -> TRUE
  BY DEF QuietMeansHeard
<1>1. CASE k = "modem"
  <2>1. HeardModem(m)
    BY DEF Heard, HeardOf
  <2>. QED BY <1>1, <2>1 DEF HeardModem
<1>2. CASE k # "modem"
  <2>1. k \in Facet
    BY <1>2 DEF Types, Kind
  <2>2. HeardFacet(m, k)
    BY <2>1 DEF Heard, HeardOf
  <2>3. Pending(m, k, signals) =>
          \E i \in 1..Len(signals) :
             signals[i].type = "facet" /\ signals[i].modem = m /\ signals[i].facet = k
    BY DEF Pending, In
  <2>4. CASE HasData(obj[m], k) /\ obj[m].phase = "present"
    BY <1>2, <2>2, <2>3, <2>4 DEF HeardFacet
  <2>5. CASE ~HasData(obj[m], k)
    BY <1>2, <2>2, <2>5 DEF HeardFacet
  <2>6. CASE HasData(obj[m], k) /\ obj[m].phase # "present"
    BY <1>2, <2>6
  <2>. QED BY <2>4, <2>5, <2>6
<1>. QED BY <1>1, <1>2

LEMMA InAppendKept ==
  ASSUME NEW q \in Seq(Signal), NEW t \in Signal
  PROVE  In(t, Append(q, t)) /\ \A s : In(s, q) => In(s, Append(q, t))
<1>1. /\ Len(q) \in Nat /\ Len(Append(q, t)) = Len(q) + 1
      /\ Append(q, t)[Len(q) + 1] = t /\ Len(q) + 1 \in 1..(Len(q) + 1)
      /\ \A i \in 1..Len(q) : i \in 1..(Len(q) + 1) /\ Append(q, t)[i] = q[i]
  OBVIOUS
<1>. QED BY <1>1 DEF In

LEMMA InTailKept ==
  ASSUME NEW q \in Seq(Signal), q # << >>, NEW s, In(s, q), s # Head(q)
  PROVE  In(s, Tail(q))
<1>1. PICK i \in 1..Len(q) : q[i] = s
  BY DEF In
<1>2. i # 1
  BY <1>1, TailShift
<1>3. i - 1 \in 1..Len(Tail(q)) /\ (i - 1) + 1 = i
  BY <1>2, TailShift
<1>4. Tail(q)[i - 1] = q[i]
  BY <1>3, TailShift
<1>. QED BY <1>1, <1>3, <1>4 DEF In

LEMMA InFilteredKept ==
  ASSUME NEW q \in Seq(Signal), NEW alive, NEW s \in alive, In(s, q)
  PROVE  In(s, Filtered(q, alive))
<1> DEFINE r == Filtered(q, alive)
<1>1. PICK p : Places(p, r, q, Len(q), alive)
  BY FilteredSifts DEF IsSifted
<1>2. PICK k \in 1..Len(q) : q[k] = s
  BY DEF In
<1> HIDE DEF r
<1>3. PICK i \in 1..Len(r) : p[i] = k
  BY <1>1, <1>2 DEF Places
<1>4. r[i] = s
  BY <1>1, <1>2, <1>3 DEF Places
<1>5. In(s, r)
  BY <1>3, <1>4 DEF In
<1>. QED BY <1>5 DEF r

LEMMA PendingAppend ==
  ASSUME NEW q \in Seq(Signal), NEW t \in Signal, NEW m, NEW f
  PROVE  /\ Pending(m, f, q) => Pending(m, f, Append(q, t))
         /\ t.type = "facet" /\ t.modem = m /\ t.facet = f => Pending(m, f, Append(q, t))
BY InAppendKept DEF Pending

LEMMA PendingTail ==
  ASSUME NEW q \in Seq(Signal), q # << >>, NEW m, NEW f, Pending(m, f, q),
         ~(Head(q).type = "facet" /\ Head(q).modem = m /\ Head(q).facet = f)
  PROVE  Pending(m, f, Tail(q))
BY InTailKept DEF Pending

LEMMA PendingUnsubscribed ==
  ASSUME NEW q \in Seq(Signal), NEW m, NEW facets, NEW self, NEW n, NEW f, Pending(n, f, q),
         ~(n = m /\ f \in facets)
  PROVE  Pending(n, f, Unsubscribed(q, m, facets, self))
<1>1. PICK s \in Signal : In(s, q) /\ s.type = "facet" /\ s.modem = n /\ s.facet = f
  BY DEF Pending
<1>2. s \in Signal \ Dying(m, facets, self)
  BY <1>1 DEF Dying
<1>3. In(s, Unsubscribed(q, m, facets, self))
  BY <1>1, <1>2, InFilteredKept DEF Unsubscribed
<1>. QED BY <1>1, <1>3 DEF Pending

LEMMA PendingEmit ==
  ASSUME Types, NEW t \in Signal, Emit(t), NEW m, NEW f, Pending(m, f, signals)
  PROVE  Pending(m, f, signals')
<1>1. signals' = Append(signals, t) \/ signals' = signals
  BY DEF Emit
<1>2. signals \in Seq(Signal)
  BY DEF Types
<1>3. CASE signals' = Append(signals, t)
  <2>1. Pending(m, f, Append(signals, t))
    BY <1>2, PendingAppend
  <2>. QED BY <1>3, <2>1
<1>4. CASE signals' = signals
  BY <1>4
<1>. QED BY <1>1, <1>3, <1>4

(* A modem that a step does not touch, and whose sources and signals it    *)
(* leaves alone.                                                           *)
LEMMA HeardKept ==
  ASSUME Heard, NEW m \in Modem, context' = context, registered' \subseteq registered,
         obj'[m] = obj[m], \A k \in registered' : heard'[k][m] = heard[k][m],
         \A k \in Kind : <<m, k>> \in idle => <<m, k>> \in idle',
         \A f \in Facet : Pending(m, f, signals) => Pending(m, f, signals')
  PROVE  HeardOf(m)'
<1>1. HeardModem(m) /\ \A f \in Facet : HeardFacet(m, f)
  BY DEF Heard, HeardOf
<1>2. HeardModem(m)'
  BY <1>1, FacetNotModem DEF HeardModem
<1>3. ASSUME NEW f \in Facet PROVE HeardFacet(m, f)'
  BY <1>1, <1>3, FacetNotModem DEF HeardFacet
<1>. QED BY <1>2, <1>3 DEF HeardOf

LEMMA HeardRegisteredKept ==
  ASSUME Types, HeardRegistered, UNCHANGED <<context, registered>>,
         context = "ready" \/ registered = {},
         NEW m \in Modem, NEW kinds, NEW v \in Val \cup {None, Gone},
         heard' = Hear(heard, m, kinds, v)
  PROVE  HeardRegistered'
<1>1. \A k \in Kind, n \in Modem : heard'[k][n] =
        IF k \in kinds /\ k \in registered /\ n = m THEN v ELSE heard[k][n]
  BY HearType
<1>. QED BY <1>1 DEF HeardRegistered

(* The steps of oFono. *)
LEMMA EmitHeard ==
  ASSUME Types, Heard, LibraryUnchanged, NEW t \in Signal, Emit(t)
  PROVE  Heard'
<1>1. UNCHANGED <<context, obj, idle, registered, heard>>
  BY DEF LibraryUnchanged
<1>2. ASSUME NEW m \in Modem PROVE HeardOf(m)'
  <2>1. \A f \in Facet : Pending(m, f, signals) => Pending(m, f, signals')
    BY PendingEmit
  <2>. QED BY <1>1, <2>1, HeardKept
<1>3. HeardRegistered'
  BY <1>1 DEF Heard, HeardRegistered
<1>. QED BY <1>2, <1>3 DEF Heard

(* A step about one modem only. *)
LEMMA HeardOne ==
  ASSUME Heard, HeardRegistered', NEW m \in Modem, HeardOf(m)',
         UNCHANGED <<context, registered>>,
         \A n \in Modem \ {m} : obj'[n] = obj[n],
         \A n \in Modem \ {m} : \A k \in registered : heard'[k][n] = heard[k][n],
         \A n \in Modem \ {m} : \A k \in Kind : <<n, k>> \in idle => <<n, k>> \in idle',
         \A n \in Modem \ {m} : \A f \in Facet : Pending(n, f, signals) => Pending(n, f, signals')
  PROVE  Heard'
<1>1. ASSUME NEW n \in Modem PROVE HeardOf(n)'
  <2>1. CASE n = m
    BY <2>1
  <2>2. CASE n # m
    <3>1. /\ context' = context /\ registered' \subseteq registered /\ obj'[n] = obj[n]
          /\ \A k \in registered' : heard'[k][n] = heard[k][n]
          /\ \A k \in Kind : <<n, k>> \in idle => <<n, k>> \in idle'
          /\ \A f \in Facet : Pending(n, f, signals) => Pending(n, f, signals')
      BY <2>2
    <3>. QED BY <3>1, HeardKept
  <2>. QED BY <2>1, <2>2
<1>. QED BY <1>1 DEF Heard

(* A step that tells nobody leaves HeardRegistered alone. *)
LEMMA HeardUntold ==
  ASSUME HeardRegistered, UNCHANGED <<context, registered, heard>>
  PROVE  HeardRegistered'
BY DEF HeardRegistered

(* Signals taken from the head of the queue, and signals of proxies that   *)
(* are gone, leave the pending ones of the other modems and facets.        *)
LEMMA PendingRest ==
  ASSUME Types, signals # << >>, NEW m, NEW f,
         ~(Head(signals).type = "facet" /\ Head(signals).modem = m /\ Head(signals).facet = f),
         Pending(m, f, signals)
  PROVE  Pending(m, f, Tail(signals))
<1>1. signals \in Seq(Signal)
  BY DEF Types
<1>. QED BY <1>1, PendingTail

(* Before the context is ready nothing was told. *)
LEMMA NothingHeard ==
  ASSUME HeardRegistered, context # "ready"
  PROVE  \A k \in Kind, m \in Modem : heard[k][m] = None
BY DEF HeardRegistered

LEMMA InitHeard == Init => Heard
<1> SUFFICES ASSUME Init PROVE Heard
  OBVIOUS
<1>1. /\ context = "none" /\ registered = {}
      /\ heard = [k \in Kind |-> [m \in Modem |-> None]]
  BY DEF Init
<1>. QED BY <1>1 DEF Heard, HeardRegistered, HeardOf, HeardModem, HeardFacet

LEMMA OfonoPlainHeard ==
  ASSUME Alive, Heard, NEW m \in Modem,
         ModemAppears(m) \/ ModemVanishes(m) \/ ValueChanges(m)
  PROVE  Heard'
<1>1. Types
  BY DEF Alive
<1>3. CASE ModemAppears(m)
  <2>1. PICK v \in Val, i \in SUBSET Facet :
          Emit([type |-> "added", modem |-> m, value |-> v, ifaces |-> i])
    BY <1>3 DEF ModemAppears
  <2>2. [type |-> "added", modem |-> m, value |-> v, ifaces |-> i] \in Signal /\ LibraryUnchanged
    BY <1>3 DEF Signal, ModemAppears
  <2>. QED BY <1>1, <2>1, <2>2, EmitHeard
<1>4. CASE ModemVanishes(m)
  <2>1. /\ Emit([type |-> "removed", modem |-> m]) /\ LibraryUnchanged
        /\ [type |-> "removed", modem |-> m] \in Signal
    BY <1>4 DEF Signal, ModemVanishes
  <2>. QED BY <1>1, <2>1, EmitHeard
<1>5. CASE ValueChanges(m)
  <2>1. PICK v \in Val : Emit([type |-> "value", modem |-> m, value |-> v])
    BY <1>5 DEF ValueChanges
  <2>2. [type |-> "value", modem |-> m, value |-> v] \in Signal /\ LibraryUnchanged
    BY <1>5 DEF Signal, ValueChanges
  <2>. QED BY <1>1, <2>1, <2>2, EmitHeard
<1>. QED BY <1>3, <1>4, <1>5

LEMMA OfonoFacetHeard ==
  ASSUME Alive, Heard, NEW m \in Modem, NEW f \in Facet,
         InterfaceChanges(m, f) \/ FacetChanges(m, f)
  PROVE  Heard'
<1>1. Types
  BY DEF Alive
<1>2. ofono[m] \in Reality
  BY <1>1 DEF Types
<1>6. CASE InterfaceChanges(m, f)
  <2> DEFINE i == IF f \in ofono[m].ifaces THEN ofono[m].ifaces \ {f}
                  ELSE ofono[m].ifaces \cup {f}
  <2>1. Emit([type |-> "ifaces", modem |-> m, ifaces |-> i]) /\ LibraryUnchanged
    BY <1>6 DEF InterfaceChanges
  <2>2. i \in SUBSET Facet
    BY <1>2 DEF Reality
  <2> HIDE DEF i
  <2>3. [type |-> "ifaces", modem |-> m, ifaces |-> i] \in Signal
    BY <2>2 DEF Signal
  <2>. QED BY <1>1, <2>1, <2>3, EmitHeard
<1>7. CASE FacetChanges(m, f)
  <2>1. PICK v \in Val : Emit([type |-> "facet", modem |-> m, facet |-> f, value |-> v])
    BY <1>7 DEF FacetChanges
  <2>2. [type |-> "facet", modem |-> m, facet |-> f, value |-> v] \in Signal /\ LibraryUnchanged
    BY <1>7 DEF Signal, FacetChanges
  <2>. QED BY <1>1, <2>1, <2>2, EmitHeard
<1>. QED BY <1>6, <1>7

(* The steps that leave no context, or one that is not ready. *)
LEMMA NotReadyHeard ==
  ASSUME context' # "ready", context' = "none" => registered' = {},
         \A k \in Kind, m \in Modem : heard'[k][m] = None
  PROVE  Heard'
BY DEF Heard, HeardRegistered, HeardOf, HeardModem, HeardFacet

LEMMA ClosedHeard ==
  ASSUME Alive, Heard, NEW k \in Kind,
         Open(k) \/ GetModems \/ GetModemsFails \/ CloseLast(k) \/ ProcessDies
  PROVE  Heard'
<1>1. HeardRegistered /\ Types
  BY DEF Heard, Alive
<1>2. CASE Open(k) \/ GetModems \/ GetModemsFails
  <2>1. heard' = heard /\ context # "ready" /\ context' # "ready"
        /\ (context' = "none" => registered' = {})
    BY <1>2 DEF Open, GetModems, GetModemsFails
  <2>. QED BY <1>1, <2>1, NothingHeard, NotReadyHeard
<1>3. CASE CloseLast(k)
  <2>1. heard' = Forgotten(heard, k) /\ context' = "none" /\ registered' = {} /\ registered = {k}
    BY <1>3 DEF CloseLast
  <2>2. ASSUME NEW j \in Kind, NEW m \in Modem PROVE heard'[j][m] = None
    <3>1. j # k => heard[j][m] = None
      BY <1>1, <2>1 DEF HeardRegistered
    <3>. QED BY <1>1, <2>1, <3>1, ForgottenType
  <2>. QED BY <2>1, <2>2, NotReadyHeard
<1>4. CASE ProcessDies
  <2>1. /\ heard' = [j \in Kind |-> [m \in Modem |-> None]] /\ context' = "none" /\ registered' = {}
    BY <1>4 DEF ProcessDies
  <2>. QED BY <2>1, NotReadyHeard
<1>. QED BY <1>2, <1>3, <1>4

LEMMA CloseHeard ==
  ASSUME Alive, Heard, NEW k \in Kind, Close(k)
  PROVE  Heard'
<1>1. HeardRegistered /\ Types
  BY DEF Heard, Alive
<1>2. /\ context = "ready" /\ registered' = registered \ {k} /\ heard' = Forgotten(heard, k)
      /\ UNCHANGED <<signals, context, obj, idle>>
  BY DEF Close
<1>3. \A j \in Kind, m \in Modem : heard'[j][m] = IF j = k THEN None ELSE heard[j][m]
  BY <1>1, <1>2, ForgottenType
<1>4. HeardRegistered'
  BY <1>1, <1>2, <1>3 DEF HeardRegistered
<1>5. ASSUME NEW m \in Modem PROVE HeardOf(m)'
  <2>1. \A j \in registered' : heard'[j][m] = heard[j][m]
    BY <1>1, <1>2, <1>3 DEF Types
  <2>. QED BY <1>2, <2>1, HeardKept
<1>. QED BY <1>4, <1>5 DEF Heard

LEMMA RegisterHeard ==
  ASSUME Alive, Heard, NEW k \in Kind, Register(k)
  PROVE  Heard'
<1>1. HeardRegistered /\ Types
  BY DEF Heard, Alive
<1>2. /\ context = "ready" /\ registered' = registered \cup {k} /\ k \notin registered
      /\ UNCHANGED <<signals, context, obj, heard>>
  BY DEF Register
<1>3. HeardRegistered'
  BY <1>1, <1>2 DEF HeardRegistered
<1>4. \A m \in Modem : heard[k][m] = None
  BY <1>1, <1>2 DEF HeardRegistered
<1>5. \A m \in Modem, j \in Kind : <<m, j>> \in idle => <<m, j>> \in idle'
  BY DEF Register
<1>6. ASSUME NEW m \in Modem PROVE HeardModem(m)'
  <2>1. CASE k = "modem"
    <3>1. obj[m].phase = "present" => <<m, "modem">> \in idle'
      BY <2>1 DEF Register
    <3>. QED BY <1>2, <1>4, <2>1, <3>1 DEF HeardModem
  <2>2. CASE k # "modem"
    BY <1>2, <1>5, <2>2, FacetNotModem DEF Heard, HeardOf, HeardModem
  <2>. QED BY <2>1, <2>2
<1>7. ASSUME NEW m \in Modem, NEW f \in Facet PROVE HeardFacet(m, f)'
  <2>1. CASE k = f
    <3>1. idle' = idle \cup NotifyAll(obj, {f})
      BY <2>1, FacetNotModem DEF Register
    <3>2. HasData(obj[m], f) /\ obj[m].phase = "present" => <<m, f>> \in idle'
      BY <3>1, NotifySet
    <3>3. HasData(obj[m], f) <=> HasData(obj[m], f)'
      BY <1>2 DEF HasData
    <3>. QED BY <1>2, <1>4, <2>1, <3>2, <3>3 DEF HeardFacet
  <2>2. CASE k # f
    <3>1. HeardFacet(m, f)
      BY DEF Heard, HeardOf
    <3>2. <<m, f>> \in idle => <<m, f>> \in idle'
      BY <1>5, FacetNotModem
    <3>. QED BY <1>2, <2>2, <3>1, <3>2 DEF HeardFacet
  <2>. QED BY <2>1, <2>2
<1>. QED BY <1>3, <1>6, <1>7 DEF Heard, HeardOf

LEMMA OpenedHeard ==
  ASSUME Alive, Heard, Opened
  PROVE  Heard'
<1>1. PICK bad \in SUBSET Facet :
        obj' = [m \in Modem |-> IF arriving[m] # None THEN Made(m, arriving[m], bad)
                                ELSE Absent]
  BY DEF Opened
<1>2. /\ context = "listed" /\ context' = "ready"
      /\ idle' = {<<m, "modem">> : m \in {n \in Modem : arriving[n] # None}}
                 \cup NotifyAll(obj', Facet)
      /\ UNCHANGED <<registered, heard>>
  BY DEF Opened
<1>3. Types /\ HeardRegistered
  BY DEF Alive, Heard
<1>4. \A k \in Kind, m \in Modem : heard'[k][m] = None
  BY <1>2, <1>3, NothingHeard
<1>5. HeardRegistered'
  BY <1>2, <1>4 DEF HeardRegistered
<1>6. ASSUME NEW m \in Modem PROVE HeardModem(m)'
  <2>1. CASE arriving[m] # None
    <3>1. <<m, "modem">> \in idle'
      BY <1>2, <2>1
    <3>. QED BY <3>1 DEF HeardModem
  <2>2. CASE arriving[m] = None
    <3>1. obj'[m].phase = "absent"
      BY <1>1, <2>2, AbsentType
    <3>. QED BY <1>4, <3>1, FacetNotModem DEF HeardModem
  <2>. QED BY <2>1, <2>2
<1>7. ASSUME NEW m \in Modem, NEW f \in Facet PROVE HeardFacet(m, f)'
  <2>1. HasData(obj'[m], f) /\ obj'[m].phase = "present" => <<m, f>> \in idle'
    <3> DEFINE objects == obj'
    <3> HIDE DEF objects
    <3>1. HasData(objects[m], f) /\ objects[m].phase = "present" => <<m, f>> \in NotifyAll(objects, Facet)
      BY NotifySet
    <3>. QED BY <1>2, <3>1 DEF objects
  <2>. QED BY <1>4, <2>1, FacetNotModem DEF HeardFacet
<1>. QED BY <1>5, <1>6, <1>7 DEF Heard, HeardOf

LEMMA ModemAddedHeard ==
  ASSUME Alive, Heard, ModemAdded
  PROVE  Heard'
<1> DEFINE s == Head(signals)
<1>0. signals # << >>
  BY DEF ModemAdded, Dispatch
<1>00. PICK m \in Modem : m = s.modem
  BY <1>0, HeadFacts
<1>1. /\ signals # << >> /\ s.type = "added" /\ obj[m].phase = "absent" /\ context = "ready"
      /\ signals' = Tail(signals)
      /\ UNCHANGED <<ofono, context, arriving, registered, heard, missed>>
  BY <1>00 DEF ModemAdded, Dispatch
<1>2. PICK bad \in SUBSET s.ifaces :
        /\ obj' = [obj EXCEPT ![m] = Made(m, s, bad)]
        /\ idle' = AddedSources(idle, obj', m, s.ifaces \ bad)
  BY <1>00 DEF ModemAdded
<1>3. Types /\ RealityOK /\ SourcesAlive /\ HeardRegistered
  BY DEF Alive, Heard
<1>4. s \in Signal /\ m \in Modem /\ s.value \in Val /\ s.ifaces \in SUBSET Facet
  BY <1>1, HeadFacts, SignalFields
<1>5. \A n \in Modem, f \in Facet : Pending(n, f, signals) => Pending(n, f, signals')
  BY <1>1, <1>3, PendingRest
<1> HIDE DEF s
<1> DEFINE o == Made(m, s, bad)
           objects == obj'
           facets == s.ifaces \ bad
<1>6. o.phase = "present" /\ \A f \in Facet : HasData(o, f) <=> f \in facets
  BY <1>3, <1>4, MadeType
<1>7. objects = obj' /\ idle' = AddedSources(idle, objects, m, facets)
  BY <1>2
<1>8. obj'[m] = o /\ \A n \in Modem \ {m} : obj'[n] = obj[n]
  BY <1>2, <1>3, <1>4 DEF Types
<1>9. obj[m] = Absent /\ \A f \in Facet : ~HasData(obj[m], f)
  BY <1>1, <1>3, <1>4, AbsentType DEF Types, ObjectOK
<1> HIDE DEF o, objects, facets
<1>10. \A n \in Modem, k \in Kind : <<n, k>> \in idle => <<n, k>> \in idle'
  BY <1>7 DEF AddedSources
<1>11. <<m, "modem">> \in idle'
  BY <1>7 DEF AddedSources
<1>12. \A f \in Facet : HasData(o, f) => <<m, f>> \in idle'
  <2>1. ASSUME NEW f \in Facet, HasData(o, f) PROVE <<m, f>> \in NotifyAll(objects, facets)
    BY <1>4, <1>6, <1>7, <1>8, <2>1, NotifySet
  <2>. QED BY <1>7, <2>1 DEF AddedSources
<1>13. ASSUME NEW f \in Facet PROVE HeardFacet(m, f)'
  <2>1. HeardFacet(m, f)
    BY <1>4 DEF Heard, HeardOf
  <2>2. <<m, f>> \in idle => <<m, f>> \in idle'
    BY <1>4, <1>10, FacetNotModem
  <2>. QED BY <1>1, <1>8, <1>9, <1>12, <2>1, <2>2 DEF HeardFacet
<1>14. HeardOf(m)'
  BY <1>11, <1>13 DEF HeardOf, HeardModem
<1>15. HeardRegistered'
  BY <1>1, <1>3, HeardUntold
<1>16. /\ UNCHANGED <<context, registered>>
       /\ \A n \in Modem \ {m} : obj'[n] = obj[n]
       /\ \A n \in Modem \ {m} : \A k \in registered : heard'[k][n] = heard[k][n]
       /\ \A n \in Modem \ {m} : \A k \in Kind : <<n, k>> \in idle => <<n, k>> \in idle'
       /\ \A n \in Modem \ {m} : \A f \in Facet : Pending(n, f, signals) => Pending(n, f, signals')
  BY <1>1, <1>5, <1>8, <1>10
<1>. QED BY <1>4, <1>14, <1>15, <1>16, HeardOne

(* A modem whose own part is gone, and its end told: ModemReplaced,        *)
(* ModemRemoved.                                                           *)
LEMMA PhaseHeard ==
  ASSUME Types, Heard, NEW m \in Modem, NEW p \in {"replacing", "leaving"},
         context = "ready", UNCHANGED <<context, registered>>,
         obj' = [obj EXCEPT ![m].phase = p],
         idle' = SourcesRemoved(idle, m, {"modem"}),
         heard' = Hear(heard, m, {"modem"}, Gone),
         \A n \in Modem, f \in Facet : Pending(n, f, signals) => Pending(n, f, signals')
  PROVE  Heard'
<1>1. /\ obj'[m].phase = p /\ obj'[m].data = obj[m].data
      /\ \A n \in Modem \ {m} : obj'[n] = obj[n]
  BY DEF Types, Object
<1>2. \A k \in Kind, n \in Modem : heard'[k][n] =
        IF k = "modem" /\ k \in registered /\ n = m THEN Gone ELSE heard[k][n]
  BY HearType
<1>3. \A n \in Modem, k \in Kind : <<n, k>> \in idle =>
        <<n, k>> \in idle' \/ (n = m /\ k = "modem")
  BY SourceSets
<1>4. HeardModem(m)'
  BY <1>1, <1>2, FacetNotModem DEF HeardModem
<1>5. ASSUME NEW f \in Facet PROVE HeardFacet(m, f)'
  <2>1. HeardFacet(m, f)
    BY DEF Heard, HeardOf
  <2>2. heard'[f][m] = heard[f][m] /\ (<<m, f>> \in idle => <<m, f>> \in idle')
    BY <1>2, <1>3, FacetNotModem
  <2>3. HasData(obj[m], f) <=> HasData(obj'[m], f)
    BY <1>1 DEF HasData
  <2>. QED BY <1>1, <2>1, <2>2, <2>3 DEF HeardFacet
<1>6. HeardOf(m)'
  BY <1>4, <1>5 DEF HeardOf
<1>7. HeardRegistered'
  <2>1. HeardRegistered
    BY DEF Heard
  <2>. QED BY <1>2, <2>1 DEF HeardRegistered
<1>8. /\ \A n \in Modem \ {m} : \A k \in registered : heard'[k][n] = heard[k][n]
      /\ \A n \in Modem \ {m} : \A k \in Kind : <<n, k>> \in idle => <<n, k>> \in idle'
  BY <1>2, <1>3 DEF Types
<1>. QED BY <1>1, <1>6, <1>7, <1>8, HeardOne

LEMMA ModemReplacedHeard ==
  ASSUME Alive, Heard, ModemReplaced
  PROVE  Heard'
<1> DEFINE s == Head(signals)
           m == s.modem
           q == Tail(signals)
           none == {}
           self == TRUE
           p == "replacing"
<1>1. /\ signals # << >> /\ s.type = "added" /\ context = "ready"
      /\ signals' = Unsubscribed(q, m, none, self)
      /\ obj' = [obj EXCEPT ![m].phase = p]
      /\ idle' = SourcesRemoved(idle, m, {"modem"})
      /\ heard' = Hear(heard, m, {"modem"}, Gone)
      /\ UNCHANGED <<context, registered>>
  BY DEF ModemReplaced, Dispatch
<1>2. Types
  BY DEF Alive
<1>3. m \in Modem /\ q \in Seq(Signal) /\ p \in {"replacing", "leaving"}
  BY <1>1, HeadFacts
<1>4. \A n \in Modem, f \in Facet : Pending(n, f, signals) => Pending(n, f, q)
  BY <1>1, <1>2, PendingRest
<1>5. \A f : f \notin none
  OBVIOUS
<1> HIDE DEF m, q, none, self, p
<1>6. \A n \in Modem, f \in Facet : Pending(n, f, q) => Pending(n, f, signals')
  BY <1>1, <1>3, <1>5, PendingUnsubscribed
<1>. QED BY <1>1, <1>2, <1>3, <1>4, <1>6, PhaseHeard

LEMMA ModemRemovedHeard ==
  ASSUME Alive, Heard, ModemRemoved
  PROVE  Heard'
<1> DEFINE m == Head(signals).modem
           p == "leaving"
<1>1. /\ signals # << >> /\ Head(signals).type = "removed" /\ context = "ready"
      /\ signals' = Tail(signals) /\ UNCHANGED <<context, registered>>
  BY DEF ModemRemoved, Dispatch
<1>2. Types /\ HeardRegistered
  BY DEF Alive, Heard
<1>3. m \in Modem /\ p \in {"replacing", "leaving"}
  BY <1>1, HeadFacts
<1>4. \A n \in Modem, f \in Facet : Pending(n, f, signals) => Pending(n, f, signals')
  BY <1>1, <1>2, PendingRest
<1>5. CASE obj[m].phase = "present"
  <2>1. /\ obj' = [obj EXCEPT ![m].phase = p]
        /\ idle' = SourcesRemoved(idle, m, {"modem"})
        /\ heard' = Hear(heard, m, {"modem"}, Gone)
    BY <1>5 DEF ModemRemoved
  <2> HIDE DEF m, p
  <2>. QED BY <1>1, <1>2, <1>3, <1>4, <2>1, PhaseHeard
<1>6. CASE obj[m].phase # "present"
  <2>1. UNCHANGED <<obj, idle, heard>>
    BY <1>6 DEF ModemRemoved
  <2>2. HeardRegistered'
    BY <1>1, <1>2, <2>1, HeardUntold
  <2>3. \A n \in Modem : HeardOf(n)'
    BY <1>1, <1>4, <2>1, HeardKept
  <2>. QED BY <2>2, <2>3 DEF Heard
<1>. QED BY <1>5, <1>6

(* A modem whose facets are gone, and those that tell their end told:      *)
(* Replaced and ModemFinalized.                                            *)
LEMMA FacetsGone ==
  ASSUME Alive, Heard, NEW m \in Modem, NEW facets \in SUBSET Facet,
         context = "ready", UNCHANGED <<context, registered>>,
         heard' = Hear(heard, m, {f \in facets : HasData(obj[m], f)} \cap TellsItsEnd, Gone)
  PROVE  \A f \in facets : f \in registered /\ f \in {"sim", "net"} => heard'[f][m] \in {None, Gone}
<1>1. Types /\ SourcesAlive
  BY DEF Alive
<1> DEFINE ends == {f \in facets : HasData(obj[m], f)} \cap TellsItsEnd
<1>2. \A f \in facets : f \in {"sim", "net"} => (f \in ends <=> HasData(obj[m], f))
  BY DEF TellsItsEnd
<1>3. heard' = Hear(heard, m, ends, Gone)
  OBVIOUS
<1> HIDE DEF ends
<1>4. \A k \in Kind : heard'[k][m] = IF k \in ends /\ k \in registered THEN Gone ELSE heard[k][m]
  BY <1>1, <1>3, HearType
<1>5. ASSUME NEW f \in facets, f \in registered, f \in {"sim", "net"}, ~HasData(obj[m], f)
      PROVE  heard[f][m] \in {None, Gone}
  <2>1. <<m, f>> \notin idle
    BY <1>1, <1>5 DEF SourcesAlive
  <2>2. HeardFacet(m, f)
    BY DEF Heard, HeardOf
  <2>. QED BY <1>5, <2>1, <2>2 DEF HeardFacet
<1>. QED BY <1>2, <1>4, <1>5, FacetNotModem

(* What HeardOf says of a kind that is told nothing is kept. *)
LEMMA HearElsewhere ==
  ASSUME Types, NEW m \in Modem, NEW kinds, NEW v \in Val \cup {None, Gone},
         heard' = Hear(heard, m, kinds, v)
  PROVE  /\ \A n \in Modem \ {m} : \A k \in registered : heard'[k][n] = heard[k][n]
         /\ \A k \in Kind \ kinds : heard'[k][m] = heard[k][m]
<1>1. \A k \in Kind, n \in Modem : heard'[k][n] =
        IF k \in kinds /\ k \in registered /\ n = m THEN v ELSE heard[k][n]
  BY HearType
<1>. QED BY <1>1 DEF Types

LEMMA ReplacedHeard ==
  ASSUME Alive, Heard, NEW m \in Modem, Replaced(m)
  PROVE  Heard'
<1> DEFINE told == arriving[m]
           self == FALSE
           all == Facet
           ends == {f \in all : HasData(obj[m], f)} \cap TellsItsEnd
<1>1. /\ obj[m].phase = "replacing"
      /\ signals' = Unsubscribed(signals, m, all, self)
      /\ heard' = Hear(heard, m, ends, Gone)
      /\ UNCHANGED <<context, registered>>
  BY DEF Replaced
<1>2. PICK bad \in SUBSET told.ifaces :
        /\ obj' = [obj EXCEPT ![m] = Made(m, told, bad)]
        /\ idle' = AddedSources(SourcesRemoved(idle, m, Facet), obj', m, told.ifaces \ bad)
  BY DEF Replaced
<1>3. Types /\ Phases /\ RealityOK /\ HeardRegistered
  BY DEF Alive, Heard
<1>4. told.value \in Val /\ told.ifaces \in SUBSET Facet
  BY <1>1, <1>3 DEF Phases, Types, Snapshot
<1>5. context = "ready"
  BY <1>1, <1>3 DEF Phases, Types
<1> HIDE DEF told
<1> DEFINE o == Made(m, told, bad)
           rest == SourcesRemoved(idle, m, Facet)
           objects == obj'
           facets == told.ifaces \ bad
<1>6. o.phase = "present" /\ \A f \in Facet : HasData(o, f) <=> f \in facets
  BY <1>3, <1>4, MadeType
<1>7. objects = obj' /\ idle' = AddedSources(rest, objects, m, facets)
  BY <1>2
<1>8. obj'[m] = o /\ \A n \in Modem \ {m} : obj'[n] = obj[n]
  BY <1>2, <1>3 DEF Types
<1>9. \A n \in Modem \ {m} : \A k \in Kind : <<n, k>> \in idle => <<n, k>> \in rest
  BY SourceSets
<1>10. \A f \in all : f \in registered /\ f \in {"sim", "net"} => heard'[f][m] \in {None, Gone}
  <2>1. all \in SUBSET Facet
    OBVIOUS
  <2> HIDE DEF all
  <2>. QED BY <1>1, <1>5, <2>1, FacetsGone
<1>11. /\ \A n \in Modem \ {m} : \A k \in registered : heard'[k][n] = heard[k][n]
       /\ \A k \in Kind \ ends : heard'[k][m] = heard[k][m]
  <2> HIDE DEF ends
  <2>. QED BY <1>1, <1>3, HearElsewhere
<1>12. HeardRegistered'
  <2> HIDE DEF ends
  <2>. QED BY <1>1, <1>3, <1>5, HeardRegisteredKept
<1> HIDE DEF o, objects, facets, rest, ends
<1>13. \A n \in Modem \ {m} : \A k \in Kind : <<n, k>> \in idle => <<n, k>> \in idle'
  BY <1>7, <1>9 DEF AddedSources
<1>14. <<m, "modem">> \in idle'
  BY <1>7 DEF AddedSources
<1>15. \A f \in Facet : HasData(o, f) => <<m, f>> \in idle'
  <2>1. ASSUME NEW f \in Facet, HasData(o, f) PROVE <<m, f>> \in NotifyAll(objects, facets)
    BY <1>4, <1>6, <1>7, <1>8, <2>1, NotifySet
  <2>. QED BY <1>7, <2>1 DEF AddedSources
<1>16. HeardOf(m)'
  BY <1>1, <1>8, <1>10, <1>14, <1>15 DEF HeardOf, HeardModem, HeardFacet, all
<1>17. \A n \in Modem \ {m} : \A f \in Facet : Pending(n, f, signals) => Pending(n, f, signals')
  <2> HIDE DEF all, self
  <2>. QED BY <1>1, <1>3, PendingUnsubscribed DEF Types
<1>. QED BY <1>1, <1>8, <1>11, <1>12, <1>13, <1>16, <1>17, HeardOne

LEMMA ModemFinalizedHeard ==
  ASSUME Alive, Heard, NEW m \in Modem, ModemFinalized(m)
  PROVE  Heard'
<1> DEFINE self == TRUE
           all == Facet
           ends == {f \in all : HasData(obj[m], f)} \cap TellsItsEnd
<1>1. /\ obj[m].phase = "leaving"
      /\ obj' = [obj EXCEPT ![m] = Absent]
      /\ idle' = SourcesRemoved(idle, m, Facet)
      /\ signals' = Unsubscribed(signals, m, all, self)
      /\ heard' = Hear(heard, m, ends, Gone)
      /\ UNCHANGED <<context, registered>>
  BY DEF ModemFinalized
<1>2. Types /\ Phases /\ SourcesAlive /\ HeardRegistered
  BY DEF Alive, Heard
<1>3. context = "ready" \/ registered = {}
  BY <1>1, <1>2 DEF Phases, Types, HeardRegistered
<1>4. obj'[m] = Absent /\ \A n \in Modem \ {m} : obj'[n] = obj[n]
  BY <1>1, <1>2 DEF Types
<1>5. \A n \in Modem \ {m} : \A k \in Kind : <<n, k>> \in idle => <<n, k>> \in idle'
  BY <1>1, SourceSets
<1>6. context = "ready" =>
        \A f \in all : f \in registered /\ f \in {"sim", "net"} => heard'[f][m] \in {None, Gone}
  <2>1. all \in SUBSET Facet
    OBVIOUS
  <2> HIDE DEF all
  <2>. QED BY <1>1, <2>1, FacetsGone
<1>7. "modem" \in Kind \ ends
  BY FacetNotModem
<1>8. /\ \A n \in Modem \ {m} : \A k \in registered : heard'[k][n] = heard[k][n]
      /\ \A k \in Kind \ ends : heard'[k][m] = heard[k][m]
  <2> HIDE DEF ends
  <2>. QED BY <1>1, <1>2, HearElsewhere
<1>9. HeardRegistered'
  <2> HIDE DEF ends
  <2>. QED BY <1>1, <1>2, <1>3, HeardRegisteredKept
<1>10. context = "ready" /\ "modem" \in registered => heard["modem"][m] \in {None, Gone}
  <2>1. <<m, "modem">> \notin idle /\ HeardModem(m)
    BY <1>1, <1>2 DEF SourcesAlive, Heard, HeardOf
  <2>. QED BY <1>1, <2>1 DEF HeardModem
<1>11. HeardOf(m)'
  BY <1>1, <1>4, <1>6, <1>7, <1>8, <1>10, AbsentType DEF HeardOf, HeardModem, HeardFacet, all
<1>12. \A n \in Modem \ {m} : \A f \in Facet : Pending(n, f, signals) => Pending(n, f, signals')
  <2> HIDE DEF all, self
  <2>. QED BY <1>1, <1>2, PendingUnsubscribed DEF Types
<1>. QED BY <1>1, <1>4, <1>5, <1>8, <1>9, <1>11, <1>12, HeardOne

LEMMA ValueToldHeard ==
  ASSUME Alive, Heard, ValueTold
  PROVE  Heard'
<1> DEFINE s == Head(signals)
<1>0. signals # << >>
  BY DEF ValueTold, Dispatch
<1>00. PICK m \in Modem : m = s.modem
  BY <1>0, HeadFacts
<1>1. /\ signals # << >> /\ s.type = "value" /\ signals' = Tail(signals)
      /\ UNCHANGED <<context, registered, heard>>
  BY DEF ValueTold, Dispatch
<1>2. Types /\ HeardRegistered
  BY DEF Alive, Heard
<1>3. m \in Modem /\ s.value \in Val
  BY <1>1, HeadFacts, SignalFields
<1>4. \A n \in Modem, f \in Facet : Pending(n, f, signals) => Pending(n, f, signals')
  BY <1>1, <1>2, PendingRest
<1>5. HeardRegistered'
  BY <1>1, <1>2, HeardUntold
<1>6. CASE obj[m].phase = "present"
  <2>1. obj' = [obj EXCEPT ![m].view = s.value] /\ idle' = idle \cup {<<m, "modem">>}
    BY <1>00, <1>6 DEF ValueTold
  <2> HIDE DEF s
  <2>2. /\ obj'[m].phase = obj[m].phase /\ obj'[m].data = obj[m].data
        /\ \A n \in Modem \ {m} : obj'[n] = obj[n]
    BY <1>2, <1>3, <2>1 DEF Types, Object
  <2>3. ASSUME NEW f \in Facet PROVE HeardFacet(m, f)'
    <3>1. HeardFacet(m, f)
      BY <1>3 DEF Heard, HeardOf
    <3>2. HasData(obj[m], f) <=> HasData(obj'[m], f)
      BY <2>2 DEF HasData
    <3>. QED BY <1>1, <1>3, <1>4, <2>1, <2>2, <3>1, <3>2 DEF HeardFacet
  <2>4. HeardOf(m)'
    BY <2>1, <2>3 DEF HeardOf, HeardModem
  <2>5. /\ UNCHANGED <<context, registered>>
        /\ \A n \in Modem \ {m} : \A k \in registered : heard'[k][n] = heard[k][n]
        /\ \A n \in Modem \ {m} : \A k \in Kind : <<n, k>> \in idle => <<n, k>> \in idle'
        /\ \A n \in Modem \ {m} : \A f \in Facet : Pending(n, f, signals) => Pending(n, f, signals')
    BY <1>1, <1>4, <2>1
  <2>. QED BY <1>3, <1>5, <2>2, <2>4, <2>5, HeardOne
<1>7. CASE obj[m].phase # "present"
  <2>1. UNCHANGED <<obj, idle>>
    BY <1>00, <1>7 DEF ValueTold
  <2>2. \A n \in Modem : HeardOf(n)'
    BY <1>1, <1>4, <2>1, HeardKept
  <2>. QED BY <1>5, <2>2 DEF Heard
<1>. QED BY <1>6, <1>7

LEMMA InterfacesToldHeard ==
  ASSUME Alive, Heard, InterfacesTold
  PROVE  Heard'
<1> DEFINE s == Head(signals)
           told == s.ifaces
           q == Tail(signals)
           self == FALSE
<1>0. signals # << >>
  BY DEF InterfacesTold, Dispatch
<1>00. PICK m \in Modem : m = s.modem
  BY <1>0, HeadFacts
<1> DEFINE gone == obj[m].known \ told
           new == told \ obj[m].known
           ends == {f \in gone : HasData(obj[m], f)} \cap TellsItsEnd
<1>1. /\ s.type = "ifaces" /\ context = "ready" /\ UNCHANGED <<context, registered>>
  BY DEF InterfacesTold, Dispatch
<1>2. Types /\ RealityOK /\ SourcesAlive /\ HeardRegistered
  BY DEF Alive, Heard
<1>3. told \in SUBSET Facet /\ q \in Seq(Signal)
  BY <1>0, <1>1, HeadFacts, SignalFields
<1>4. \A n \in Modem, f \in Facet : Pending(n, f, signals) => Pending(n, f, q)
  BY <1>0, <1>1, <1>2, PendingRest
<1>5. CASE obj[m].phase = "present"
  <2>1. PICK bad \in SUBSET new :
          /\ obj' = [obj EXCEPT ![m].known = told, ![m].data = DataTold(m, told, bad)]
          /\ idle' = SourcesRemoved(idle, m, gone) \cup NotifyAll(obj', new \ bad)
                     \cup {<<m, "modem">>}
          /\ heard' = Hear(heard, m, ends, Gone)
          /\ signals' = Unsubscribed(q, m, gone, self)
    BY <1>00, <1>5 DEF InterfacesTold, DataTold
  <2> HIDE DEF s, told, q, self
  <2>2. obj[m] \in Object /\ gone \in SUBSET Facet /\ ObjectOK(obj[m])
    BY <1>2 DEF Types, Object
  <2> DEFINE d == DataTold(m, told, bad)
             facets == new \ bad
             objects == obj'
  <2>3. \A f \in Facet :
          d[f] = IF f \in facets THEN ofono[m].facet[f]
                 ELSE IF f \in gone THEN None ELSE obj[m].data[f]
    <3> HIDE DEF d, gone, new
    <3> SUFFICES \A f \in Facet : DataTold(m, told, bad)[f] =
                   IF f \in (told \ obj[m].known) \ bad THEN ofono[m].facet[f]
                   ELSE IF f \in obj[m].known \ told THEN None ELSE obj[m].data[f]
      BY DEF d, gone, new
    <3> HIDE DEF facets, objects
    <3>1. Types /\ RealityOK /\ m \in Modem /\ told \in SUBSET Facet
      BY <1>2, <1>3
    <3>. QED BY <3>1, DataToldIs
  <2>4. /\ obj'[m].phase = "present" /\ obj'[m].data = d
        /\ \A n \in Modem \ {m} : obj'[n] = obj[n]
    <3> DEFINE x == WithInterfaces(obj[m], told, d)
    <3>1. obj' = [obj EXCEPT ![m] = x]
      BY <2>1 DEF WithInterfaces
    <3>2. x = [[obj[m] EXCEPT !.known = told] EXCEPT !.data = d]
      BY DEF WithInterfaces
    <3> HIDE DEF d
    <3>3. x.phase = obj[m].phase /\ x.data = d
      BY <2>2, <3>2 DEF Object
    <3> HIDE DEF x
    <3>4. obj'[m] = x /\ \A n \in Modem \ {m} : obj'[n] = obj[n]
      BY <1>2, <3>1 DEF Types
    <3>. QED BY <1>5, <3>3, <3>4
  <2>5. facets \cap gone = {} /\ "modem" \notin gone
    BY <2>2, FacetNotModem
  <2> HIDE DEF d
  <2>6. \A f \in gone : f \in registered /\ f \in {"sim", "net"} => heard'[f][m] \in {None, Gone}
    <3> HIDE DEF gone
    <3>. QED BY <1>1, <2>1, <2>2, FacetsGone
  <2>7. /\ \A n \in Modem \ {m} : \A k \in registered : heard'[k][n] = heard[k][n]
        /\ \A k \in Kind \ ends : heard'[k][m] = heard[k][m]
    <3> HIDE DEF ends
    <3>. QED BY <1>2, <2>1, HearElsewhere
  <2>8. HeardRegistered'
    <3> HIDE DEF ends
    <3>. QED BY <1>1, <1>2, <2>1, HeardRegisteredKept
  <2>9. \A n \in Modem : \A f \in Facet : ~(n = m /\ f \in gone) =>
          (Pending(n, f, signals) => Pending(n, f, signals'))
    <3> HIDE DEF gone
    <3>. QED BY <1>3, <1>4, <2>1, PendingUnsubscribed
  <2>10. \A n \in Modem, k \in Kind : ~(n = m /\ k \in gone) =>
           (<<n, k>> \in idle => <<n, k>> \in idle')
    <3> HIDE DEF gone, facets
    <3>. QED BY <2>1, SourceSets
  <2>11. <<m, "modem">> \in idle'
    BY <2>1
  <2>12. \A f \in facets : HasData(obj'[m], f) => <<m, f>> \in idle'
    <3>1. objects = obj' /\ NotifyAll(objects, facets) \subseteq idle'
      BY <2>1
    <3> HIDE DEF objects, facets
    <3>2. \A f \in facets : HasData(objects[m], f) => <<m, f>> \in NotifyAll(objects, facets)
      BY <2>4, <3>1, NotifySet
    <3>. QED BY <3>1, <3>2
  <2>13. ASSUME NEW f \in Facet PROVE HeardFacet(m, f)'
    <3>1. HasData(obj'[m], f) <=> d[f] # None
      BY <2>4 DEF HasData
    <3>2. CASE f \in facets
      <4>1. HasData(obj'[m], f)
        <5>1. ofono[m].facet[f] # None
          BY <1>2, ReadType
        <5>. QED BY <2>3, <3>1, <3>2, <5>1
      <4>. QED BY <2>12, <3>2, <4>1 DEF HeardFacet
    <3>3. CASE f \in gone
      <4>1. ~HasData(obj'[m], f)
        BY <2>3, <2>5, <3>1, <3>3
      <4>. QED BY <1>1, <2>6, <3>3, <4>1 DEF HeardFacet
    <3>4. CASE f \notin facets /\ f \notin gone
      <4>1. d[f] = obj[m].data[f]
        BY <2>3, <3>4
      <4>2. HasData(obj[m], f) <=> HasData(obj'[m], f)
        BY <3>1, <4>1 DEF HasData
      <4>3. HeardFacet(m, f)
        BY DEF Heard, HeardOf
      <4>4. /\ heard'[f][m] = heard[f][m] /\ (<<m, f>> \in idle => <<m, f>> \in idle')
            /\ (Pending(m, f, signals) => Pending(m, f, signals'))
        BY <2>7, <2>9, <2>10, <3>4, FacetNotModem
      <4>. QED BY <1>1, <1>5, <2>4, <4>1, <4>2, <4>3, <4>4 DEF HeardFacet
    <3>. QED BY <3>2, <3>3, <3>4
  <2>14. HeardOf(m)'
    BY <2>11, <2>13 DEF HeardOf, HeardModem
  <2>15. /\ \A n \in Modem \ {m} : \A k \in Kind : <<n, k>> \in idle => <<n, k>> \in idle'
         /\ \A n \in Modem \ {m} : \A f \in Facet : Pending(n, f, signals) => Pending(n, f, signals')
    BY <2>9, <2>10
  <2>. QED BY <1>1, <2>4, <2>7, <2>8, <2>14, <2>15, HeardOne
<1>6. CASE obj[m].phase # "present"
  <2>1. signals' = q /\ UNCHANGED <<obj, idle, heard>>
    BY <1>00, <1>6 DEF InterfacesTold
  <2>2. HeardRegistered'
    BY <1>1, <1>2, <2>1, HeardUntold
  <2>3. \A n \in Modem : HeardOf(n)'
    BY <1>1, <1>4, <2>1, HeardKept
  <2>. QED BY <2>2, <2>3 DEF Heard
<1>. QED BY <1>5, <1>6

(* A facet that gets a new value: its source, or a signal still under way, *)
(* or neither of them where the two values need not be told apart.         *)
LEMMA DataHeard ==
  ASSUME Types, Heard, NEW m \in Modem, NEW f \in Facet, NEW v \in Val,
         HasData(obj[m], f), UNCHANGED <<context, registered, heard>>,
         obj' = [obj EXCEPT ![m].data[f] = v],
         \A n \in Modem, k \in Kind : <<n, k>> \in idle => <<n, k>> \in idle',
         \A n \in Modem, g \in Facet : ~(n = m /\ g = f) =>
           (Pending(n, g, signals) => Pending(n, g, signals')),
         \/ <<m, f>> \in idle'
         \/ f = "sim" /\ Pending(m, f, signals')
         \/ f = "net" /\ obj[m].data[f] \in Off /\ v \in Off
  PROVE  Heard'
<1> DEFINE x == obj[m]
           o == [x EXCEPT !.data[f] = v]
<1>1. ObjectOK(x) /\ x.data \in [Facet -> Val \cup {None}] /\ obj' = [obj EXCEPT ![m] = o]
  BY DEF Types, Object
<1> HIDE DEF x
<1>2. /\ o.phase = x.phase /\ o.view = x.view /\ o.data = [x.data EXCEPT ![f] = v]
      /\ \A g \in Facet : HasData(o, g) <=> HasData(x, g)
  <2>1. HasData(x, f)
    BY DEF x
  <2>. QED BY <1>1, <2>1, DataSet
<1> HIDE DEF o
<1>3. \A g \in Facet : o.data[g] = IF g = f THEN v ELSE x.data[g]
  BY <1>1, <1>2
<1>4. obj'[m] = o /\ x = obj[m] /\ \A n \in Modem \ {m} : obj'[n] = obj[n]
  BY <1>1 DEF Types, x
<1>5. HeardModem(m)'
  <2>1. HeardModem(m) /\ (<<m, "modem">> \in idle => <<m, "modem">> \in idle')
    BY FacetNotModem DEF Heard, HeardOf
  <2>. QED BY <1>2, <1>4, <2>1 DEF HeardModem
<1>6. ASSUME NEW g \in Facet PROVE HeardFacet(m, g)'
  <2>1. HeardFacet(m, g) /\ (<<m, g>> \in idle => <<m, g>> \in idle')
    BY FacetNotModem DEF Heard, HeardOf
  <2>2. HasData(obj'[m], g) <=> HasData(obj[m], g)
    BY <1>2, <1>4
  <2>3. CASE g # f
    BY <1>2, <1>3, <1>4, <2>1, <2>2, <2>3 DEF HeardFacet
  <2>4. CASE g = f /\ (<<m, f>> \in idle' \/ (f = "sim" /\ Pending(m, f, signals')))
    BY <2>2, <2>4 DEF HeardFacet
  <2>5. CASE g = f /\ f = "net" /\ obj[m].data[f] \in Off /\ v \in Off
    <3>1. SameShown(f, heard[f][m], obj[m].data[f]) => SameShown(f, heard[f][m], v)
      BY <2>5 DEF SameShown
    <3>. QED BY <1>2, <1>3, <1>4, <2>1, <2>2, <2>5, <3>1 DEF HeardFacet
  <2>. QED BY <2>3, <2>4, <2>5
<1>7. HeardOf(m)'
  BY <1>5, <1>6 DEF HeardOf
<1>8. HeardRegistered'
  BY HeardUntold DEF Heard
<1>9. /\ UNCHANGED <<context, registered>>
      /\ \A n \in Modem \ {m} : \A k \in registered : heard'[k][n] = heard[k][n]
      /\ \A n \in Modem \ {m} : \A k \in Kind : <<n, k>> \in idle => <<n, k>> \in idle'
      /\ \A n \in Modem \ {m} : \A g \in Facet : Pending(n, g, signals) => Pending(n, g, signals')
  OBVIOUS
<1>. QED BY <1>4, <1>7, <1>8, <1>9, HeardOne

LEMMA FacetToldHeard ==
  ASSUME Alive, Heard, FacetTold
  PROVE  Heard'
<1> DEFINE s == Head(signals)
           m == s.modem
           f == s.facet
           v == s.value
<1>1. /\ signals # << >> /\ s.type = "facet" /\ signals' = Tail(signals)
      /\ obj' = [obj EXCEPT ![m].data[f] = v]
      /\ idle' = IF Notifies(f, obj[m].data[f], v) THEN idle \cup {<<m, f>>} ELSE idle
      /\ UNCHANGED <<context, registered, heard>>
  BY DEF FacetTold, Dispatch
<1>2. Types
  BY DEF Alive
<1>3. s \in Signal /\ m \in Modem /\ f \in Facet /\ v \in Val /\ Subscribed(s)
  BY <1>1, HeadFacts, SignalFields
<1>4. HasData(obj[m], f)
  BY <1>1, <1>3, SubscribedCases
<1>5. \A n \in Modem, g \in Facet : ~(n = m /\ g = f) =>
        (Pending(n, g, signals) => Pending(n, g, signals'))
  BY <1>1, <1>2, PendingRest
<1> HIDE DEF s, m, f, v
<1>6. \A n \in Modem, k \in Kind : <<n, k>> \in idle => <<n, k>> \in idle'
  BY <1>1
<1>7. \/ <<m, f>> \in idle'
      \/ f = "sim" /\ Pending(m, f, signals')
      \/ f = "net" /\ obj[m].data[f] \in Off /\ v \in Off
  BY <1>1 DEF Notifies
<1>. QED BY <1>1, <1>2, <1>3, <1>4, <1>5, <1>6, <1>7, DataHeard

LEMMA CodeVerifiedHeard ==
  ASSUME Alive, Heard, NEW m \in Modem, CodeVerified(m)
  PROVE  Heard'
<1> DEFINE f == "sim"
<1>1. /\ f \in ofono[m].ifaces /\ HasData(obj[m], f)
      /\ UNCHANGED <<context, arriving, idle, registered, heard, missed>>
  BY DEF CodeVerified
<1>2. PICK v \in Val :
        /\ Emit([type |-> "facet", modem |-> m, facet |-> f, value |-> v])
        /\ obj' = [obj EXCEPT ![m].data[f] = v]
  BY DEF CodeVerified
<1>3. Types /\ f = "sim"
  BY DEF Alive
<1>4. f \in Facet
  BY <1>1, <1>3 DEF Types, Reality
<1> HIDE DEF f
<1> DEFINE t == [type |-> "facet", modem |-> m, facet |-> f, value |-> v]
<1>5. t \in Signal /\ t.type = "facet" /\ t.modem = m /\ t.facet = f /\ Emit(t)
  BY <1>2, <1>4 DEF Signal
<1> HIDE DEF t
<1>6. signals' = Append(signals, t)
  BY <1>1, <1>5, SubscribedCases DEF Emit
<1>7. signals \in Seq(Signal)
  BY <1>3 DEF Types
<1>8. Pending(m, f, signals')
  BY <1>5, <1>6, <1>7, PendingAppend
<1>9. \A n \in Modem, g \in Facet : Pending(n, g, signals) => Pending(n, g, signals')
  BY <1>5, <1>6, <1>7, PendingAppend
<1>10. /\ UNCHANGED <<context, registered, heard>>
       /\ \A n \in Modem, k \in Kind : <<n, k>> \in idle => <<n, k>> \in idle'
       /\ \A n \in Modem, g \in Facet : ~(n = m /\ g = f) =>
            (Pending(n, g, signals) => Pending(n, g, signals'))
       /\ \/ <<m, f>> \in idle'
          \/ f = "sim" /\ Pending(m, f, signals')
          \/ f = "net" /\ obj[m].data[f] \in Off /\ v \in Off
  BY <1>1, <1>3, <1>8, <1>9
<1>. QED BY <1>1, <1>2, <1>3, <1>4, <1>10, DataHeard

LEMMA IdleNotifyHeard ==
  ASSUME Alive, Heard, NEW m \in Modem, NEW k \in Kind, IdleNotify(m, k)
  PROVE  Heard'
<1> DEFINE v == IF k = "modem" THEN obj[m].view ELSE obj[m].data[k]
           kinds == {k}
<1>1. /\ <<m, k>> \in idle /\ idle' = idle \ {<<m, k>>} /\ heard' = Hear(heard, m, kinds, v)
      /\ UNCHANGED <<ofono, signals, context, obj, arriving, registered, missed>>
  BY DEF IdleNotify
<1>2. Types /\ Phases /\ SourcesAlive /\ HeardRegistered
  BY DEF Alive, Heard
<1>3. v \in Val \cup {None, Gone}
  <2>1. obj[m] \in Object
    BY <1>2 DEF Types
  <2>2. CASE k = "modem"
    BY <2>1, <2>2 DEF Object
  <2>3. CASE k # "modem"
    BY <2>1, <2>3 DEF Object, Kind
  <2>. QED BY <2>2, <2>3
<1>4. k = "modem" => obj[m].phase = "present" /\ v = obj[m].view
  BY <1>1, <1>2 DEF SourcesAlive
<1>5. k # "modem" => HasData(obj[m], k) /\ v = obj[m].data[k]
  BY <1>1, <1>2 DEF SourcesAlive, Kind
<1>6. context = "ready" \/ registered = {}
  <2>1. ASSUME \A n \in Modem : obj[n].phase = "absent" PROVE FALSE
    BY <1>1, <2>1, NothingListed
  <2>. QED BY <1>2, <2>1 DEF Phases, Types, HeardRegistered
<1>7. k \in kinds /\ \A j \in Kind : j # k => j \in Kind \ kinds
  OBVIOUS
<1> HIDE DEF v, kinds
<1>8. HeardRegistered'
  BY <1>1, <1>2, <1>3, <1>6, HeardRegisteredKept
<1>9. /\ \A n \in Modem \ {m} : \A j \in registered : heard'[j][n] = heard[j][n]
      /\ \A j \in Kind \ kinds : heard'[j][m] = heard[j][m]
  BY <1>1, <1>2, <1>3, HearElsewhere
<1>10. k \in registered => heard'[k][m] = v
  BY <1>1, <1>2, <1>3, <1>7, HearType
<1>11. \A n \in Modem, j \in Kind : ~(n = m /\ j = k) => (<<n, j>> \in idle => <<n, j>> \in idle')
  BY <1>1
<1>12. HeardModem(m)'
  <2>1. CASE k = "modem"
    BY <1>1, <1>4, <1>10, <2>1 DEF HeardModem
  <2>2. CASE k # "modem"
    <3>1. HeardModem(m) /\ "modem" \in Kind
      BY FacetNotModem DEF Heard, HeardOf
    <3>. QED BY <1>1, <1>7, <1>9, <1>11, <2>2, <3>1 DEF HeardModem
  <2>. QED BY <2>1, <2>2
<1>13. ASSUME NEW f \in Facet PROVE HeardFacet(m, f)'
  <2>1. HeardFacet(m, f) /\ f \in Kind /\ f # "modem"
    BY FacetNotModem DEF Heard, HeardOf
  <2>2. HasData(obj'[m], f) <=> HasData(obj[m], f)
    BY <1>1
  <2>3. CASE k = f
    BY <1>1, <1>5, <1>10, <2>1, <2>2, <2>3 DEF HeardFacet, SameShown
  <2>4. CASE k # f
    BY <1>1, <1>7, <1>9, <1>11, <2>1, <2>2, <2>4 DEF HeardFacet
  <2>. QED BY <2>3, <2>4
<1>14. HeardOf(m)'
  BY <1>12, <1>13 DEF HeardOf
<1>15. /\ UNCHANGED <<context, registered>>
       /\ \A n \in Modem \ {m} : obj'[n] = obj[n]
       /\ \A n \in Modem \ {m} : \A j \in Kind : <<n, j>> \in idle => <<n, j>> \in idle'
       /\ \A n \in Modem \ {m} : \A f \in Facet : Pending(n, f, signals) => Pending(n, f, signals')
  BY <1>1, <1>11
<1>. QED BY <1>8, <1>9, <1>14, <1>15, HeardOne

LEMMA NextHeard ==
  ASSUME Alive, Heard, [Next]_vars
  PROVE  Heard'
<1>0. CASE UNCHANGED vars
  <2>1. /\ UNCHANGED <<context, registered, heard, obj, idle, signals>>
    BY <1>0 DEF vars
  <2>2. HeardRegistered'
    BY <2>1, HeardUntold DEF Heard
  <2>3. \A n \in Modem : HeardOf(n)'
    BY <2>1, HeardKept
  <2>. QED BY <2>2, <2>3 DEF Heard
<1>1. ASSUME NEW m \in Modem, ModemAppears(m) \/ ModemVanishes(m) \/ ValueChanges(m) PROVE Heard'
  BY <1>1, OfonoPlainHeard
<1>2. ASSUME NEW m \in Modem, NEW f \in Facet, InterfaceChanges(m, f) \/ FacetChanges(m, f)
      PROVE  Heard'
  BY <1>2, OfonoFacetHeard
<1>3. ASSUME NEW k \in Kind, Open(k) \/ CloseLast(k) PROVE Heard'
  BY <1>3, ClosedHeard
<1>4. ASSUME GetModems \/ GetModemsFails \/ ProcessDies PROVE Heard'
  BY <1>4, ClosedHeard, FacetNotModem
<1>5. ASSUME NEW k \in Kind, Register(k) PROVE Heard'
  BY <1>5, RegisterHeard
<1>6. ASSUME NEW k \in Kind, Close(k) PROVE Heard'
  BY <1>6, CloseHeard
<1>7. ASSUME NEW m \in Modem, Replaced(m) PROVE Heard'
  BY <1>7, ReplacedHeard
<1>8. ASSUME NEW m \in Modem, ModemFinalized(m) PROVE Heard'
  BY <1>8, ModemFinalizedHeard
<1>9. ASSUME NEW m \in Modem, NEW k \in Kind, IdleNotify(m, k) PROVE Heard'
  BY <1>9, IdleNotifyHeard
<1>10. ASSUME NEW m \in Modem, CodeVerified(m) PROVE Heard'
  BY <1>10, CodeVerifiedHeard
<1>. QED
  BY <1>0, <1>1, <1>2, <1>3, <1>4, <1>5, <1>6, <1>7, <1>8, <1>9, <1>10,
     OpenedHeard, ModemAddedHeard, ModemReplacedHeard, ModemRemovedHeard, ValueToldHeard,
     InterfacesToldHeard, FacetToldHeard DEF Next
-----------------------------------------------------------------------------
(* What the library knows of oFono.  The sets of the signals that tell     *)
(* the library that a modem is there, its state, its interfaces, the state *)
(* of one of them; and all that the announcement of a modem supersedes.    *)
About(m) == {s \in Signal : s.modem = m}
Presence(m) == {s \in About(m) : s.type \in {"added", "removed"}}
ValueOf(m) == {s \in About(m) : s.type = "value"}
IfacesOf(m) == {s \in About(m) : s.type = "ifaces"}
FacetOf(m, f) == {s \in About(m) : s.type = "facet" /\ s.facet = f}
News(m) == Presence(m) \cup ValueOf(m) \cup IfacesOf(m)

(* The interfaces told without f. *)
Without(m, f) == {s \in IfacesOf(m) : f \notin s.ifaces}

(* The last signal of the presence tells whether oFono has the modem.      *)
PresenceAhead(m) ==
  \A s \in Signal : Final(signals, Presence(m), s) => (ofono[m].here <=> s.type = "added")

(* With no such signal, the library has it, or is about to.                *)
PresenceKnown(m) ==
  context \in {"listed", "ready"} /\ NoneIn(signals, Presence(m)) =>
    (ofono[m].here <=> arriving[m] # None \/ obj[m].phase = "present")

(* An announcement that was not overtaken tells what oFono has.            *)
AnnouncementFresh(m) ==
  m \notin missed =>
    \A s \in Signal : Final(signals, Presence(m), s) /\ s.type = "added" =>
      /\ Final(signals, News(m), s)
      /\ s.value = ofono[m].value /\ s.ifaces = ofono[m].ifaces

Settled(m) ==
  context \in {"listed", "ready"} /\ m \notin missed /\ NoneIn(signals, Presence(m))

(* So does a modem about to be added.                                      *)
ArrivalFresh(m) ==
  Settled(m) /\ arriving[m] # None =>
    arriving[m] = SnapshotOf(m) /\ NoneIn(signals, News(m))

(* The state and the interfaces of a modem are those of oFono, once the    *)
(* signals under way are dispatched.                                       *)
ViewCurrent(m) ==
  Settled(m) /\ obj[m].phase = "present" =>
    /\ \A s \in Signal : Final(signals, ValueOf(m), s) => s.value = ofono[m].value
    /\ NoneIn(signals, ValueOf(m)) => obj[m].view = ofono[m].value

KnownCurrent(m) ==
  Settled(m) /\ obj[m].phase = "present" =>
    /\ \A s \in Signal : Final(signals, IfacesOf(m), s) => s.ifaces = ofono[m].ifaces
    /\ NoneIn(signals, IfacesOf(m)) => obj[m].known = ofono[m].ifaces

(* So is the state of a facet whose data will not be dropped by then.      *)
Kept(m, f) == HasData(obj[m], f) /\ NoneIn(signals, Without(m, f))

DataCurrent(m, f) ==
  Settled(m) /\ obj[m].phase = "present" /\ Kept(m, f) =>
    /\ \A s \in Signal : Final(signals, FacetOf(m, f), s) => s.value = ofono[m].facet[f]
    /\ NoneIn(signals, FacetOf(m, f)) => obj[m].data[f] = ofono[m].facet[f]

CurrentOf(m) ==
  /\ PresenceAhead(m) /\ PresenceKnown(m) /\ AnnouncementFresh(m)
  /\ ArrivalFresh(m) /\ ViewCurrent(m) /\ KnownCurrent(m)
  /\ \A f \in Facet : DataCurrent(m, f)

Current == \A m \in Modem : CurrentOf(m)

LEMMA CurrentIsQuietMeansCurrent == Types /\ Phases /\ Current => QuietMeansCurrent
<1> SUFFICES ASSUME Types, Phases, Current, context = "ready", signals = << >>,
                    NEW m \in Modem, obj[m].phase \in {"absent", "present"}
             PROVE  /\ obj[m].phase = "present" <=> ofono[m].here
                    /\ ofono[m].here /\ m \notin missed =>
                         /\ obj[m].view = ofono[m].value
                         /\ obj[m].known = ofono[m].ifaces
                         /\ \A f \in Facet : HasData(obj[m], f) =>
                              obj[m].data[f] = ofono[m].facet[f]
  BY DEF QuietMeansCurrent
<1>1. \A D : NoneIn(signals, D)
  BY NoneInEmpty
<1>2. arriving[m] = None
  BY DEF Phases
<1>3. CurrentOf(m)
  BY DEF Current
<1>4. obj[m].phase = "present" <=> ofono[m].here
  BY <1>1, <1>2, <1>3 DEF CurrentOf, PresenceKnown
<1>5. ASSUME ofono[m].here, m \notin missed PROVE Settled(m) /\ obj[m].phase = "present"
  BY <1>1, <1>4, <1>5 DEF Settled
<1>. QED BY <1>1, <1>3, <1>4, <1>5 DEF CurrentOf, ViewCurrent, KnownCurrent, DataCurrent, Kept

LEMMA AboutSets ==
  ASSUME NEW m, NEW f
  PROVE  /\ Presence(m) \subseteq About(m) /\ ValueOf(m) \subseteq About(m)
         /\ IfacesOf(m) \subseteq About(m) /\ FacetOf(m, f) \subseteq About(m)
         /\ News(m) \subseteq About(m) /\ Without(m, f) \subseteq About(m)
         /\ Presence(m) \subseteq News(m) /\ ValueOf(m) \subseteq News(m)
         /\ IfacesOf(m) \subseteq News(m) /\ Without(m, f) \subseteq IfacesOf(m)
BY DEF Presence, ValueOf, IfacesOf, FacetOf, News, Without

LEMMA AboutSignal ==
  ASSUME NEW s \in Signal, NEW m, NEW f
  PROVE  /\ s \in About(m) <=> s.modem = m
         /\ s \in Presence(m) <=> s.modem = m /\ s.type \in {"added", "removed"}
         /\ s \in ValueOf(m) <=> s.modem = m /\ s.type = "value"
         /\ s \in IfacesOf(m) <=> s.modem = m /\ s.type = "ifaces"
         /\ s \in FacetOf(m, f) <=> s.modem = m /\ s.type = "facet" /\ s.facet = f
         /\ s \in News(m) <=> s.modem = m /\ s.type \in {"added", "removed", "value", "ifaces"}
         /\ s \in Without(m, f) <=> s.modem = m /\ s.type = "ifaces" /\ f \notin s.ifaces
BY DEF About, Presence, ValueOf, IfacesOf, FacetOf, News, Without

LEMMA FinalIn ==
  ASSUME NEW q, NEW D, NEW s, Final(q, D, s)
  PROVE  s \in D /\ In(s, q)
BY DEF Final, In

LEMMA NoneInIs ==
  ASSUME NEW q \in Seq(Signal), NEW D, \A s \in Signal : In(s, q) => s \notin D
  PROVE  NoneIn(q, D)
<1>1. \A i \in 1..Len(q) : q[i] \in Signal
  OBVIOUS
<1>. QED BY <1>1 DEF NoneIn, In

(* A queue that has signals of a kind has a last one. *)
LEMMA FinalExists ==
  ASSUME NEW q \in Seq(Signal), NEW D, ~NoneIn(q, D)
  PROVE  \E s \in Signal : Final(q, D, s)
<1> DEFINE N == Len(q)
           T == {x \in Nat : x < N /\ q[N - x] \in D}
<1>1. N \in Nat /\ \A i \in 1..N : q[i] \in Signal
  OBVIOUS
<1>2. PICK i \in 1..N : q[i] \in D
  BY DEF NoneIn
<1>3. N - i \in T
  <2>1. N - i \in Nat /\ N - i < N /\ N - (N - i) = i
    BY <1>1
  <2>. QED BY <1>2, <2>1
<1>4. T \subseteq Nat /\ T # {}
  BY <1>3
<1>5. PICK x \in T : \A y \in T : ~(y < x)
  <2> HIDE DEF T
  <2>. QED BY <1>4, NatMinimum
<1>6. x \in Nat /\ N - x \in 1..N /\ q[N - x] \in D
  BY <1>1, <1>5
<1>7. ASSUME NEW j \in 1..N, j > N - x, q[j] \in D PROVE FALSE
  <2>1. N - j \in Nat /\ N - j < N /\ N - (N - j) = j /\ N - j < x
    BY <1>1, <1>6, <1>7
  <2>2. N - j \in T
    BY <1>7, <2>1
  <2>. QED BY <1>5, <2>1, <2>2
<1>. QED BY <1>1, <1>6, <1>7 DEF Final

(* The first signal is the last of D when no other follows; one that       *)
(* follows and is the last of E is the last of D when it was.              *)
LEMMA TailFinal ==
  ASSUME NEW q \in Seq(Signal), q # << >>, NEW D, NEW E, E \subseteq D
  PROVE  /\ \A s : Final(Tail(q), E, s) /\ Final(q, D, s) => Final(Tail(q), D, s)
         /\ Head(q) \in E /\ NoneIn(Tail(q), E) /\ Final(q, D, Head(q)) => NoneIn(Tail(q), D)
<1> DEFINE r == Tail(q)
           N == Len(Tail(q))
<1>1. /\ N \in Nat /\ Len(q) = N + 1 /\ Len(r) = N /\ Head(q) = q[1] /\ 1 \in 1..(N + 1)
      /\ \A i \in 1..N : i + 1 \in 1..(N + 1) /\ r[i] = q[i + 1]
      /\ \A i \in 1..(N + 1) : i = 1 \/ (i - 1 \in 1..N /\ (i - 1) + 1 = i)
  BY TailShift
<1> HIDE DEF r, N
<1>2. ASSUME NEW s, Final(r, E, s), Final(q, D, s) PROVE Final(r, D, s)
  <2>1. PICK i \in 1..N : r[i] = s /\ s \in E /\ \A j \in 1..N : j > i => r[j] \notin E
    BY <1>1, <1>2 DEF Final
  <2>2. PICK k \in 1..(N + 1) : q[k] = s /\ s \in D
                                /\ \A j \in 1..(N + 1) : j > k => q[j] \notin D
    BY <1>1, <1>2 DEF Final
  <2>3. i + 1 \in 1..(N + 1) /\ q[i + 1] = s
    BY <1>1, <2>1
  <2>4. ~(i + 1 > k)
    BY <2>2, <2>3
  <2>5. k - 1 \in 1..N /\ r[k - 1] = s
    BY <1>1, <2>2, <2>4
  <2>6. ASSUME NEW j \in 1..N, j > k - 1 PROVE r[j] \notin D
    <3>1. j + 1 \in 1..(N + 1) /\ r[j] = q[j + 1] /\ j + 1 > k
      BY <1>1, <2>6
    <3>. QED BY <2>2, <3>1
  <2>. QED BY <1>1, <2>2, <2>5, <2>6 DEF Final
<1>3. ASSUME q[1] \in E, NoneIn(r, E), Final(q, D, q[1]) PROVE NoneIn(r, D)
  <2>1. PICK k \in 1..(N + 1) : q[k] = q[1] /\ \A j \in 1..(N + 1) : j > k => q[j] \notin D
    BY <1>1, <1>3 DEF Final
  <2>2. k = 1
    <3>1. CASE k - 1 \in 1..N /\ (k - 1) + 1 = k
      <4>1. r[k - 1] = q[1]
        BY <1>1, <2>1, <3>1
      <4>. QED BY <1>1, <1>3, <3>1, <4>1 DEF NoneIn
    <3>. QED BY <1>1, <3>1
  <2>3. ASSUME NEW j \in 1..N PROVE r[j] \notin D
    <3>1. j + 1 \in 1..(N + 1) /\ r[j] = q[j + 1] /\ j + 1 > 1
      BY <1>1
    <3>. QED BY <2>1, <2>2, <3>1
  <2>. QED BY <1>1, <2>3 DEF NoneIn
<1>. QED BY <1>1, <1>2, <1>3 DEF r

(* A modem that a step does not touch, and that is told the same.          *)
LEMMA CurrentKept ==
  ASSUME NEW m \in Modem, CurrentOf(m), context' = context,
         ofono'[m] = ofono[m], obj'[m] = obj[m], arriving'[m] = arriving[m],
         m \in missed' <=> m \in missed,
         \A D : D \subseteq About(m) => SameAbout(signals, signals', D)
  PROVE  CurrentOf(m)'
<1>1. /\ SameAbout(signals, signals', Presence(m)) /\ SameAbout(signals, signals', ValueOf(m))
      /\ SameAbout(signals, signals', IfacesOf(m)) /\ SameAbout(signals, signals', News(m))
      /\ \A f \in Facet : /\ SameAbout(signals, signals', FacetOf(m, f))
                          /\ SameAbout(signals, signals', Without(m, f))
  BY AboutSets
<1>2. Settled(m)' <=> Settled(m)
  BY <1>1 DEF Settled, SameAbout
<1>3. PresenceAhead(m)' /\ PresenceKnown(m)'
  BY <1>1 DEF CurrentOf, PresenceAhead, PresenceKnown, SameAbout
<1>4. AnnouncementFresh(m)'
  BY <1>1 DEF CurrentOf, AnnouncementFresh, SameAbout
<1>5. ArrivalFresh(m)'
  <2>1. SnapshotOf(m)' = SnapshotOf(m)
    BY DEF SnapshotOf
  <2>. QED BY <1>1, <1>2, <2>1 DEF CurrentOf, ArrivalFresh, SameAbout
<1>6. ViewCurrent(m)' /\ KnownCurrent(m)'
  BY <1>1, <1>2 DEF CurrentOf, ViewCurrent, KnownCurrent, SameAbout
<1>7. ASSUME NEW f \in Facet PROVE DataCurrent(m, f)'
  BY <1>1, <1>2 DEF CurrentOf, DataCurrent, Kept, SameAbout, HasData
<1>. QED BY <1>3, <1>4, <1>5, <1>6, <1>7 DEF CurrentOf

(* A step about one modem only. *)
LEMMA CurrentOne ==
  ASSUME Current, NEW m \in Modem, CurrentOf(m)', context' = context,
         \A n \in Modem \ {m} : /\ ofono'[n] = ofono[n] /\ obj'[n] = obj[n]
                                /\ arriving'[n] = arriving[n]
                                /\ n \in missed' <=> n \in missed,
         \A D : D \subseteq Signal /\ D \cap About(m) = {} => SameAbout(signals, signals', D)
  PROVE  Current'
<1>1. ASSUME NEW n \in Modem PROVE CurrentOf(n)'
  <2>1. CASE n = m
    BY <2>1
  <2>2. CASE n # m
    <3>1. About(n) \cap About(m) = {} /\ About(n) \subseteq Signal
      BY <2>2 DEF About
    <3>2. \A D : D \subseteq About(n) => SameAbout(signals, signals', D)
      BY <3>1
    <3>3. /\ CurrentOf(n) /\ context' = context
          /\ ofono'[n] = ofono[n] /\ obj'[n] = obj[n] /\ arriving'[n] = arriving[n]
          /\ n \in missed' <=> n \in missed
      BY <2>2 DEF Current
    <3>. QED BY <3>2, <3>3, CurrentKept
  <2>. QED BY <2>1, <2>2
<1>. QED BY <1>1 DEF Current

(* Without a context nothing is claimed, and nothing is received about the *)
(* presence of modems.                                                     *)
LEMMA NotOpen ==
  ASSUME Alive', context' = "none"
  PROVE  Current'
<1>1. ASSUME NEW m \in Modem, NEW s \in Signal, Final(signals', Presence(m), s) PROVE FALSE
  <2>1. In(s, signals') /\ s.type \in {"added", "removed"}
    BY <1>1, FinalIn, AboutSignal
  <2>2. Subscribed(s)'
    BY <2>1 DEF Alive, ProxiesAlive
  <2>. QED BY <2>1, <2>2, SubscribedCases
<1>2. ASSUME NEW m \in Modem PROVE CurrentOf(m)'
  BY <1>1 DEF CurrentOf, PresenceAhead, PresenceKnown, AnnouncementFresh, Settled,
              ArrivalFresh, ViewCurrent, KnownCurrent, DataCurrent
<1>. QED BY <1>2 DEF Current

LEMMA Emitted ==
  ASSUME Alive, NEW t \in Signal, Emit(t)
  PROVE  /\ \A D : t \notin D => SameAbout(signals, signals', D)
         /\ Subscribed(t) => \A D : t \in D =>
              /\ \A s \in Signal : Final(signals', D, s) <=> s = t
              /\ ~NoneIn(signals', D)
<1>1. signals \in Seq(Signal)
  BY DEF Alive, Types
<1>2. ASSUME NEW D, t \notin D PROVE SameAbout(signals, signals', D)
  <2>1. SameAbout(signals, Append(signals, t), D) /\ SameAbout(signals, signals, D)
    BY <1>1, <1>2, AppendSame, SameReflexive
  <2>. QED BY <2>1 DEF Emit
<1>3. ASSUME Subscribed(t), NEW D, t \in D
      PROVE  /\ \A s \in Signal : Final(signals', D, s) <=> s = t
             /\ ~NoneIn(signals', D)
  <2>1. signals' = Append(signals, t)
    BY <1>3 DEF Emit
  <2>. QED BY <1>1, <1>3, <2>1, AppendFinal
<1>. QED BY <1>2, <1>3

(* What a step of oFono leaves alone when it is about one modem.           *)
LEMMA OfonoOne ==
  ASSUME Alive, Current, NEW m \in Modem, NEW t \in Signal, Emit(t), t.modem = m,
         UNCHANGED <<context, arriving>>, CurrentOf(m)',
         \A n \in Modem \ {m} : ofono'[n] = ofono[n] /\ obj'[n] = obj[n],
         missed' = missed \/ missed' = missed \cup {m}
  PROVE  Current'
<1>1. t \in About(m)
  BY AboutSignal
<1>2. \A D : D \subseteq Signal /\ D \cap About(m) = {} => SameAbout(signals, signals', D)
  BY <1>1, Emitted
<1>3. \A n \in Modem \ {m} : /\ ofono'[n] = ofono[n] /\ obj'[n] = obj[n]
                             /\ arriving'[n] = arriving[n]
                             /\ n \in missed' <=> n \in missed
  OBVIOUS
<1>. QED BY <1>2, <1>3, CurrentOne

(* A modem that comes or goes is announced. *)
LEMMA PresenceCurrent ==
  ASSUME Alive, Alive', Current, NEW m \in Modem, NEW t \in Signal, Emit(t), t.modem = m,
         t.type \in {"added", "removed"}, LibraryUnchanged, missed' = missed,
         ofono'[m].here <=> t.type = "added",
         t.type = "added" => t.value = ofono'[m].value /\ t.ifaces = ofono'[m].ifaces,
         \A n \in Modem \ {m} : ofono'[n] = ofono[n]
  PROVE  Current'
<1>1. UNCHANGED <<context, obj, arriving>>
  BY DEF LibraryUnchanged
<1>2. CASE context = "none"
  BY <1>1, <1>2, NotOpen
<1>3. CASE context # "none"
  <2>1. Subscribed(t) /\ t \in Presence(m) /\ t \in News(m)
    BY <1>3, SubscribedCases, AboutSignal
  <2>2. /\ \A s \in Signal : Final(signals', Presence(m), s) <=> s = t
        /\ ~NoneIn(signals', Presence(m)) /\ Final(signals', News(m), t)
    BY <2>1, Emitted
  <2>3. PresenceAhead(m)' /\ PresenceKnown(m)' /\ AnnouncementFresh(m)'
    BY <2>2 DEF PresenceAhead, PresenceKnown, AnnouncementFresh
  <2>4. ~Settled(m)'
    BY <2>2 DEF Settled
  <2>5. CurrentOf(m)'
    BY <2>3, <2>4 DEF CurrentOf, ArrivalFresh, ViewCurrent, KnownCurrent, DataCurrent
  <2>. QED BY <1>1, <2>5, OfonoOne
<1>. QED BY <1>2, <1>3

LEMMA ModemAppearsCurrent ==
  ASSUME Alive, Alive', Current, NEW m \in Modem, ModemAppears(m)
  PROVE  Current'
<1>1. PICK v \in Val, i \in SUBSET Facet :
        /\ ofono' = [ofono EXCEPT ![m].here = TRUE, ![m].value = v, ![m].ifaces = i]
        /\ Emit([type |-> "added", modem |-> m, value |-> v, ifaces |-> i])
  BY DEF ModemAppears
<1>2. missed' = missed /\ LibraryUnchanged
  BY DEF ModemAppears
<1>3. ofono \in [Modem -> Reality]
  BY DEF Alive, Types
<1>4. /\ ofono'[m].here /\ ofono'[m].value = v /\ ofono'[m].ifaces = i
      /\ \A n \in Modem \ {m} : ofono'[n] = ofono[n]
  <2>1. ofono'[m] = [ofono[m] EXCEPT !.here = TRUE, !.value = v, !.ifaces = i]
        /\ \A n \in Modem \ {m} : ofono'[n] = ofono[n]
    BY <1>1, <1>3
  <2>. QED BY <1>3, <2>1 DEF Reality
<1> DEFINE t == [type |-> "added", modem |-> m, value |-> v, ifaces |-> i]
<1>5. /\ t \in Signal /\ t.modem = m /\ t.type = "added" /\ t.value = v /\ t.ifaces = i /\ Emit(t)
  BY <1>1 DEF Signal
<1> HIDE DEF t
<1>6. /\ t.type \in {"added", "removed"} /\ (ofono'[m].here <=> t.type = "added")
      /\ t.type = "added" => t.value = ofono'[m].value /\ t.ifaces = ofono'[m].ifaces
  BY <1>4, <1>5
<1>. QED BY <1>2, <1>4, <1>5, <1>6, PresenceCurrent

LEMMA ModemVanishesCurrent ==
  ASSUME Alive, Alive', Current, NEW m \in Modem, ModemVanishes(m)
  PROVE  Current'
<1>1. /\ ofono' = [ofono EXCEPT ![m] = Nowhere] /\ missed' = missed /\ LibraryUnchanged
      /\ Emit([type |-> "removed", modem |-> m])
  BY DEF ModemVanishes
<1>2. ~ofono'[m].here /\ \A n \in Modem \ {m} : ofono'[n] = ofono[n]
  BY <1>1 DEF Alive, Types, Nowhere
<1> DEFINE t == [type |-> "removed", modem |-> m]
<1>3. t \in Signal /\ t.modem = m /\ t.type = "removed" /\ Emit(t)
  BY <1>1 DEF Signal
<1> HIDE DEF t
<1>4. /\ t.type \in {"added", "removed"} /\ (ofono'[m].here <=> t.type = "added")
      /\ t.type = "added" => t.value = ofono'[m].value /\ t.ifaces = ofono'[m].ifaces
  BY <1>2, <1>3
<1>. QED BY <1>1, <1>2, <1>3, <1>4, PresenceCurrent

(* A change of a modem that was announced may be overtaken: it is missed.  *)
LEMMA NotAnnounced ==
  ASSUME Types, NEW m \in Modem, ~Announced(m), NEW s \in Signal,
         Final(signals, Presence(m), s)
  PROVE  s.type # "added"
<1>1. s.modem = m /\ In(s, signals)
  BY FinalIn, AboutSignal
<1>. QED BY <1>1 DEF Announced, AnnouncedIn, In

(* A change that was not missed changes no announcement, and one that was  *)
(* missed is no concern of the invariant.                                  *)
LEMMA ChangeCurrent ==
  ASSUME Types, NEW m \in Modem, CurrentOf(m),
         UNCHANGED <<context, arriving>>, obj'[m].phase = obj[m].phase,
         ofono'[m].here = ofono[m].here,
         SameAbout(signals, signals', Presence(m)),
         missed' = IF Announced(m) THEN missed \cup {m} ELSE missed
  PROVE  /\ PresenceAhead(m)' /\ PresenceKnown(m)' /\ AnnouncementFresh(m)'
         /\ ArrivalFresh(m)' /\ (Settled(m)' => Settled(m))
<1>1. PresenceAhead(m)' /\ PresenceKnown(m)'
  BY DEF CurrentOf, PresenceAhead, PresenceKnown, SameAbout
<1>2. Settled(m)' => Settled(m) /\ arriving[m] = None
  BY DEF Settled, SameAbout, Announced
<1>3. AnnouncementFresh(m)'
  BY NotAnnounced DEF AnnouncementFresh, SameAbout
<1>4. ArrivalFresh(m)'
  BY <1>2 DEF ArrivalFresh
<1>. QED BY <1>1, <1>2, <1>3, <1>4

LEMMA ValueChangesCurrent ==
  ASSUME Alive, Current, NEW m \in Modem, ValueChanges(m)
  PROVE  Current'
<1>1. PICK v \in Val : /\ ofono' = [ofono EXCEPT ![m].value = v]
                       /\ Emit([type |-> "value", modem |-> m, value |-> v])
  BY DEF ValueChanges
<1>2. /\ missed' = IF Announced(m) THEN missed \cup {m} ELSE missed
      /\ UNCHANGED <<context, obj, arriving>>
  BY DEF ValueChanges, LibraryUnchanged
<1>3. /\ ofono'[m].here = ofono[m].here /\ ofono'[m].value = v
      /\ ofono'[m].ifaces = ofono[m].ifaces /\ ofono'[m].facet = ofono[m].facet
      /\ \A n \in Modem \ {m} : ofono'[n] = ofono[n]
  BY <1>1 DEF Alive, Types, Reality
<1> DEFINE t == [type |-> "value", modem |-> m, value |-> v]
<1>4. t \in Signal /\ t.modem = m /\ t.type = "value" /\ t.value = v /\ Emit(t)
  BY <1>1 DEF Signal
<1> HIDE DEF t
<1>5. /\ t \notin Presence(m) /\ t \notin IfacesOf(m) /\ t \in ValueOf(m)
      /\ \A f \in Facet : t \notin FacetOf(m, f) /\ t \notin Without(m, f)
  BY <1>4, AboutSignal
<1>6. /\ SameAbout(signals, signals', Presence(m)) /\ SameAbout(signals, signals', IfacesOf(m))
      /\ \A f \in Facet : /\ SameAbout(signals, signals', FacetOf(m, f))
                          /\ SameAbout(signals, signals', Without(m, f))
  BY <1>4, <1>5, Emitted
<1>7. CurrentOf(m) /\ Types
  BY DEF Current, Alive
<1>8. /\ PresenceAhead(m)' /\ PresenceKnown(m)' /\ AnnouncementFresh(m)'
      /\ ArrivalFresh(m)' /\ (Settled(m)' => Settled(m))
  BY <1>2, <1>3, <1>6, <1>7, ChangeCurrent
<1>9. ViewCurrent(m)'
  <2>1. obj[m].phase = "present" =>
          /\ \A s \in Signal : Final(signals', ValueOf(m), s) <=> s = t
          /\ ~NoneIn(signals', ValueOf(m))
    BY <1>4, <1>5, Emitted, SubscribedCases
  <2>. QED BY <1>2, <1>3, <1>4, <2>1 DEF ViewCurrent
<1>10. KnownCurrent(m)'
  BY <1>2, <1>3, <1>6, <1>7, <1>8 DEF CurrentOf, KnownCurrent, SameAbout
<1>11. \A f \in Facet : DataCurrent(m, f)'
  BY <1>2, <1>3, <1>6, <1>7, <1>8 DEF CurrentOf, DataCurrent, Kept, SameAbout, HasData
<1>12. CurrentOf(m)'
  BY <1>8, <1>9, <1>10, <1>11 DEF CurrentOf
<1>. QED BY <1>2, <1>3, <1>4, <1>12, OfonoOne

(* An interface that comes back: the data of its last life go first.       *)
LEMMA KeptIsKnown ==
  ASSUME Types, NEW m \in Modem, CurrentOf(m), NEW f \in Facet, Settled(m),
         obj[m].phase = "present", Kept(m, f)
  PROVE  f \in ofono[m].ifaces
<1>1. signals \in Seq(Signal) /\ ObjectOK(obj[m])
  BY DEF Types
<1>2. f \in obj[m].known
  BY <1>1 DEF Kept, ObjectOK
<1>3. CASE NoneIn(signals, IfacesOf(m))
  BY <1>2, <1>3 DEF CurrentOf, KnownCurrent
<1>4. CASE ~NoneIn(signals, IfacesOf(m))
  <2>1. PICK s \in Signal : Final(signals, IfacesOf(m), s)
    BY <1>1, <1>4, FinalExists
  <2>2. s.ifaces = ofono[m].ifaces
    BY <2>1 DEF CurrentOf, KnownCurrent
  <2>3. s \in IfacesOf(m) /\ In(s, signals)
    BY <2>1, FinalIn
  <2>4. s \notin Without(m, f)
    BY <2>3 DEF Kept, NoneIn, In
  <2>. QED BY <2>2, <2>3, <2>4, AboutSignal
<1>. QED BY <1>3, <1>4

LEMMA InterfaceChangesCurrent ==
  ASSUME Alive, Current, NEW m \in Modem, NEW f \in Facet, InterfaceChanges(m, f)
  PROVE  Current'
<1> DEFINE i == IF f \in ofono[m].ifaces THEN ofono[m].ifaces \ {f}
                ELSE ofono[m].ifaces \cup {f}
           t == [type |-> "ifaces", modem |-> m, ifaces |-> i]
<1>1. InterfacesSet(m, f, i) /\ Emit(t)
  BY DEF InterfaceChanges, InterfacesSet
<1>2. /\ missed' = IF Announced(m) THEN missed \cup {m} ELSE missed
      /\ UNCHANGED <<context, obj, arriving>>
  BY DEF InterfaceChanges, LibraryUnchanged
<1>3. Types /\ CurrentOf(m)
  BY DEF Alive, Current
<1>4. i \in SUBSET Facet /\ (f \in i <=> f \notin ofono[m].ifaces)
  BY <1>3 DEF Types, Reality
<1>5. t \in Signal /\ t.modem = m /\ t.type = "ifaces" /\ t.ifaces = i
  BY <1>4 DEF Signal
<1> HIDE DEF i, t
<1>6. /\ ofono'[m].here = ofono[m].here /\ ofono'[m].value = ofono[m].value
      /\ ofono'[m].ifaces = i
      /\ \A g \in Facet : ofono'[m].facet[g] = IF g = f THEN Default ELSE ofono[m].facet[g]
      /\ \A n \in Modem \ {m} : ofono'[n] = ofono[n]
  <2>1. Types /\ i \in SUBSET Facet /\ InterfacesSet(m, f, i)
    BY <1>1, <1>3, <1>4
  <2>. QED BY <2>1, InterfaceSet
<1>7. /\ t \notin Presence(m) /\ t \notin ValueOf(m) /\ t \in IfacesOf(m)
      /\ \A g \in Facet : t \notin FacetOf(m, g) /\ (t \in Without(m, g) <=> g \notin i)
  BY <1>5, AboutSignal
<1>8. /\ SameAbout(signals, signals', Presence(m)) /\ SameAbout(signals, signals', ValueOf(m))
      /\ \A g \in Facet : /\ SameAbout(signals, signals', FacetOf(m, g))
                          /\ g \in i => SameAbout(signals, signals', Without(m, g))
  BY <1>1, <1>5, <1>7, Emitted
<1>9. /\ PresenceAhead(m)' /\ PresenceKnown(m)' /\ AnnouncementFresh(m)'
      /\ ArrivalFresh(m)' /\ (Settled(m)' => Settled(m))
  BY <1>2, <1>3, <1>6, <1>8, ChangeCurrent
<1>10. ViewCurrent(m)'
  BY <1>2, <1>3, <1>6, <1>8, <1>9 DEF CurrentOf, ViewCurrent, SameAbout
<1>11. obj[m].phase = "present" => Subscribed(t)
  BY <1>5, SubscribedCases
<1>12. KnownCurrent(m)'
  <2>1. obj[m].phase = "present" =>
          /\ \A s \in Signal : Final(signals', IfacesOf(m), s) <=> s = t
          /\ ~NoneIn(signals', IfacesOf(m))
    BY <1>1, <1>5, <1>7, <1>11, Emitted
  <2>. QED BY <1>2, <1>5, <1>6, <2>1 DEF KnownCurrent
<1>13. ASSUME NEW g \in Facet, Settled(m)', obj'[m].phase = "present", Kept(m, g)'
       PROVE  g # f /\ Settled(m) /\ obj[m].phase = "present" /\ Kept(m, g)
  <2>1. Settled(m) /\ obj[m].phase = "present" /\ HasData(obj[m], g)
    BY <1>2, <1>9, <1>13 DEF Kept, HasData
  <2>2. NoneIn(signals', Without(m, g))
    BY <1>13 DEF Kept
  <2>3. g \in i
    BY <1>1, <1>5, <1>7, <1>11, <2>1, <2>2, Emitted
  <2>4. Kept(m, g)
    BY <1>8, <2>1, <2>2, <2>3 DEF Kept, SameAbout
  <2>5. g \in ofono[m].ifaces
    BY <1>3, <2>1, <2>4, KeptIsKnown
  <2>. QED BY <1>4, <2>1, <2>3, <2>4, <2>5
<1>14. ASSUME NEW g \in Facet PROVE DataCurrent(m, g)'
  BY <1>2, <1>3, <1>6, <1>8, <1>13 DEF CurrentOf, DataCurrent, SameAbout
<1>15. CurrentOf(m)'
  BY <1>9, <1>10, <1>12, <1>14 DEF CurrentOf
<1>. QED BY <1>1, <1>2, <1>5, <1>6, <1>15, OfonoOne

(* A facet that changes in oFono, and possibly in the library at once.     *)
LEMMA FacetSetCurrent ==
  ASSUME Alive, Current, NEW m \in Modem, NEW f \in Facet, NEW v \in Val,
         FacetBecomes(m, f, v),
         NEW t \in Signal, Emit(t), t.type = "facet", t.modem = m, t.facet = f, t.value = v,
         UNCHANGED <<context, arriving, missed>>,
         \A n \in Modem \ {m} : obj'[n] = obj[n],
         obj'[m].phase = obj[m].phase, obj'[m].view = obj[m].view,
         obj'[m].known = obj[m].known,
         \A g \in Facet : HasData(obj'[m], g) <=> HasData(obj[m], g),
         \A g \in Facet : g # f => obj'[m].data[g] = obj[m].data[g]
  PROVE  Current'
<1>1. Types /\ CurrentOf(m)
  BY DEF Alive, Current
<1>2. /\ ofono'[m].here = ofono[m].here /\ ofono'[m].value = ofono[m].value
      /\ ofono'[m].ifaces = ofono[m].ifaces
      /\ \A g \in Facet : ofono'[m].facet[g] = IF g = f THEN v ELSE ofono[m].facet[g]
      /\ \A n \in Modem \ {m} : ofono'[n] = ofono[n]
  BY <1>1, FacetSet
<1>3. /\ t \notin Presence(m) /\ t \notin ValueOf(m) /\ t \notin IfacesOf(m) /\ t \notin News(m)
      /\ \A g \in Facet : (t \in FacetOf(m, g) <=> g = f) /\ t \notin Without(m, g)
  BY AboutSignal
<1>4. /\ SameAbout(signals, signals', Presence(m)) /\ SameAbout(signals, signals', ValueOf(m))
      /\ SameAbout(signals, signals', IfacesOf(m)) /\ SameAbout(signals, signals', News(m))
      /\ \A g \in Facet : /\ g # f => SameAbout(signals, signals', FacetOf(m, g))
                          /\ SameAbout(signals, signals', Without(m, g))
  BY <1>3, Emitted
<1>5. Settled(m)' <=> Settled(m)
  BY <1>4 DEF Settled, SameAbout
<1>6. PresenceAhead(m)' /\ PresenceKnown(m)'
  BY <1>1, <1>2, <1>4 DEF CurrentOf, PresenceAhead, PresenceKnown, SameAbout
<1>7. AnnouncementFresh(m)'
  BY <1>1, <1>2, <1>4 DEF CurrentOf, AnnouncementFresh, SameAbout
<1>8. ArrivalFresh(m)'
  <2>1. SnapshotOf(m)' = SnapshotOf(m)
    BY <1>2 DEF SnapshotOf
  <2>. QED BY <1>1, <1>4, <1>5, <2>1 DEF CurrentOf, ArrivalFresh, SameAbout
<1>9. ViewCurrent(m)' /\ KnownCurrent(m)'
  BY <1>1, <1>2, <1>4, <1>5 DEF CurrentOf, ViewCurrent, KnownCurrent, SameAbout
<1>10. ASSUME NEW g \in Facet PROVE DataCurrent(m, g)'
  <2>1. Kept(m, g)' => Kept(m, g)
    BY <1>4 DEF Kept, SameAbout
  <2>2. CASE g = f
    <3>1. HasData(obj[m], g) => /\ \A s \in Signal : Final(signals', FacetOf(m, g), s) <=> s = t
                                /\ ~NoneIn(signals', FacetOf(m, g))
      BY <1>3, <2>2, Emitted, SubscribedCases
    <3>. QED BY <1>2, <2>1, <2>2, <3>1 DEF DataCurrent, Kept
  <2>3. CASE g # f
    BY <1>1, <1>2, <1>4, <1>5, <2>1, <2>3 DEF CurrentOf, DataCurrent, SameAbout
  <2>. QED BY <2>2, <2>3
<1>11. CurrentOf(m)'
  BY <1>6, <1>7, <1>8, <1>9, <1>10 DEF CurrentOf
<1>. QED BY <1>2, <1>11, OfonoOne

LEMMA FacetChangesCurrent ==
  ASSUME Alive, Current, NEW m \in Modem, NEW f \in Facet, FacetChanges(m, f)
  PROVE  Current'
<1>1. PICK v \in Val : /\ FacetBecomes(m, f, v)
                       /\ Emit([type |-> "facet", modem |-> m, facet |-> f, value |-> v])
  BY DEF FacetChanges, FacetBecomes
<1>2. UNCHANGED <<context, arriving, obj, missed>>
  BY DEF FacetChanges, LibraryUnchanged
<1> DEFINE t == [type |-> "facet", modem |-> m, facet |-> f, value |-> v]
<1>3. t \in Signal /\ t.type = "facet" /\ t.modem = m /\ t.facet = f /\ t.value = v /\ Emit(t)
  BY <1>1 DEF Signal
<1> HIDE DEF t
<1>4. /\ \A n \in Modem \ {m} : obj'[n] = obj[n]
      /\ obj'[m].phase = obj[m].phase /\ obj'[m].view = obj[m].view
      /\ obj'[m].known = obj[m].known
      /\ \A g \in Facet : HasData(obj'[m], g) <=> HasData(obj[m], g)
      /\ \A g \in Facet : g # f => obj'[m].data[g] = obj[m].data[g]
  BY <1>2
<1>. QED BY <1>1, <1>2, <1>3, <1>4, FacetSetCurrent

LEMMA CodeVerifiedCurrent ==
  ASSUME Alive, Current, NEW m \in Modem, CodeVerified(m)
  PROVE  Current'
<1> DEFINE f == "sim"
           x == obj[m]
<1>1. PICK v \in Val :
        /\ FacetBecomes(m, f, v)
        /\ Emit([type |-> "facet", modem |-> m, facet |-> f, value |-> v])
        /\ obj' = [obj EXCEPT ![m].data[f] = v]
  BY DEF CodeVerified, FacetBecomes
<1>2. f \in ofono[m].ifaces /\ HasData(x, f) /\ UNCHANGED <<context, arriving, missed>>
  BY DEF CodeVerified
<1>3. Types
  BY DEF Alive
<1>4. f \in Facet
  BY <1>2, <1>3 DEF Types, Reality
<1> HIDE DEF f
<1> DEFINE t == [type |-> "facet", modem |-> m, facet |-> f, value |-> v]
           o == [x EXCEPT !.data[f] = v]
<1>5. t \in Signal /\ t.type = "facet" /\ t.modem = m /\ t.facet = f /\ t.value = v /\ Emit(t)
  BY <1>1, <1>4 DEF Signal
<1>6. obj' = [obj EXCEPT ![m] = o] /\ ObjectOK(x) /\ x.data \in [Facet -> Val \cup {None}]
  BY <1>1, <1>3 DEF Types, Object
<1> HIDE DEF t, x
<1>7. /\ o.phase = x.phase /\ o.view = x.view /\ o.known = x.known
      /\ o.data = [x.data EXCEPT ![f] = v]
      /\ \A g \in Facet : HasData(o, g) <=> HasData(x, g)
  BY <1>2, <1>4, <1>6, DataSet
<1> HIDE DEF o
<1>8. x = obj[m] /\ obj'[m] = o /\ \A n \in Modem \ {m} : obj'[n] = obj[n]
  BY <1>3, <1>6 DEF Types, x
<1>9. /\ obj'[m].phase = obj[m].phase /\ obj'[m].view = obj[m].view
      /\ obj'[m].known = obj[m].known
      /\ \A g \in Facet : HasData(obj'[m], g) <=> HasData(obj[m], g)
      /\ \A g \in Facet : g # f => obj'[m].data[g] = obj[m].data[g]
  BY <1>6, <1>7, <1>8
<1>10. FacetBecomes(m, f, v) /\ UNCHANGED <<context, arriving, missed>>
  BY <1>1, <1>2
<1>. QED BY <1>4, <1>5, <1>8, <1>9, <1>10, FacetSetCurrent

(* The steps about no modem. *)
LEMMA SameCurrent ==
  ASSUME Current, UNCHANGED <<ofono, context, signals, obj, arriving, missed>>
  PROVE  Current'
<1>1. \A D : SameAbout(signals, signals', D)
  BY SameReflexive
<1>2. ASSUME NEW m \in Modem PROVE CurrentOf(m)'
  BY <1>1, CurrentKept DEF Current
<1>. QED BY <1>2 DEF Current

LEMMA InitCurrent == Init => Current
<1> SUFFICES ASSUME Init, NEW m \in Modem PROVE CurrentOf(m)
  BY DEF Current
<1>1. signals = << >> /\ context = "none"
  BY DEF Init
<1>2. \A D : NoneIn(signals, D) /\ \A s : ~Final(signals, D, s)
  BY <1>1, NoneInEmpty
<1>. QED BY <1>1, <1>2 DEF CurrentOf, PresenceAhead, PresenceKnown, AnnouncementFresh, Settled,
                          ArrivalFresh, ViewCurrent, KnownCurrent, DataCurrent

LEMMA OpenCurrent ==
  ASSUME Alive, Current, NEW k \in Kind, Open(k)
  PROVE  Current'
<1>1. context = "none" /\ context' = "subscribed" /\ UNCHANGED <<ofono, signals, obj, arriving, missed>>
  BY DEF Open
<1>2. ASSUME NEW m \in Modem PROVE CurrentOf(m)'
  <2>1. PresenceAhead(m)' /\ AnnouncementFresh(m)'
    BY <1>1 DEF Current, CurrentOf, PresenceAhead, AnnouncementFresh
  <2>2. ~Settled(m)' /\ PresenceKnown(m)'
    BY <1>1 DEF Settled, PresenceKnown
  <2>. QED BY <2>1, <2>2 DEF CurrentOf, ArrivalFresh, ViewCurrent, KnownCurrent, DataCurrent
<1>. QED BY <1>2 DEF Current

LEMMA GetModemsCurrent ==
  ASSUME Alive, Current, GetModems
  PROVE  Current'
<1>1. /\ context = "subscribed" /\ context' = "listed"
      /\ arriving' = [m \in Modem |-> IF ofono[m].here THEN SnapshotOf(m) ELSE None]
      /\ UNCHANGED <<ofono, signals, obj, missed>>
  BY DEF GetModems
<1>2. Types /\ \A m \in Modem : obj[m].phase = "absent"
  BY <1>1 DEF Alive, Phases
<1>3. \A m \in Modem : SnapshotOf(m) \in Snapshot /\ SnapshotOf(m)' = SnapshotOf(m)
  BY <1>1, <1>2 DEF Types, SnapshotOf, Snapshot, Reality
<1>4. ASSUME NEW m \in Modem PROVE CurrentOf(m)'
  <2>1. arriving'[m] = IF ofono[m].here THEN SnapshotOf(m) ELSE None
    BY <1>1
  <2>2. arriving'[m] # None <=> ofono[m].here
    BY <1>3, <2>1
  <2>3. PresenceAhead(m)' /\ AnnouncementFresh(m)'
    BY <1>1 DEF Current, CurrentOf, PresenceAhead, AnnouncementFresh
  <2>4. PresenceKnown(m)'
    BY <1>1, <1>2, <2>2 DEF PresenceKnown
  <2>5. NoneIn(signals, Presence(m)) => NoneIn(signals, News(m))
    <3>1. \A s \in Signal : In(s, signals) => s.type \in {"added", "removed"}
      BY <1>2, NothingListed
    <3>2. ASSUME NoneIn(signals, Presence(m)), NEW s \in Signal, In(s, signals) PROVE s \notin News(m)
      <4>1. s \notin Presence(m)
        BY <3>2 DEF NoneIn, In
      <4>. QED BY <3>1, <3>2, <4>1, AboutSignal
    <3>. QED BY <1>2, <3>2, NoneInIs DEF Types
  <2>6. ArrivalFresh(m)'
    BY <1>1, <1>3, <2>1, <2>2, <2>5 DEF ArrivalFresh, Settled
  <2>. QED BY <1>1, <1>2, <2>3, <2>4, <2>6 DEF CurrentOf, ViewCurrent, KnownCurrent, DataCurrent
<1>. QED BY <1>4 DEF Current

(* No signal is under way for a facet without data. *)
LEMMA NoFacetSignals ==
  ASSUME Alive, NEW m \in Modem, NEW f \in Facet, ~HasData(obj[m], f)
  PROVE  NoneIn(signals, FacetOf(m, f))
<1>1. signals \in Seq(Signal) /\ ProxiesAlive
  BY DEF Alive, Types
<1>2. ASSUME NEW s \in Signal, In(s, signals) PROVE s \notin FacetOf(m, f)
  <2>1. Subscribed(s)
    BY <1>1, <1>2 DEF ProxiesAlive
  <2>. QED BY <2>1, SubscribedCases, AboutSignal
<1>. QED BY <1>1, <1>2, NoneInIs

(* A modem that is made from what oFono has, when nothing else was told.   *)
LEMMA MadeCurrent ==
  ASSUME Types, RealityOK, NEW m \in Modem, NEW told, NEW bad,
         told.value \in Val, told.ifaces \in SUBSET Facet,
         obj'[m] = Made(m, told, bad), ofono'[m] = ofono[m], arriving'[m] = None,
         Settled(m)' => /\ told.value = ofono[m].value /\ told.ifaces = ofono[m].ifaces
                        /\ NoneIn(signals', News(m)),
         \A f \in Facet : HasData(obj'[m], f) => NoneIn(signals', FacetOf(m, f))
  PROVE  /\ ArrivalFresh(m)' /\ ViewCurrent(m)' /\ KnownCurrent(m)'
         /\ \A f \in Facet : DataCurrent(m, f)'
<1> DEFINE o == Made(m, told, bad)
<1>1. /\ o.view = told.value /\ o.known = told.ifaces
      /\ \A f \in Facet : HasData(o, f) => o.data[f] = ofono[m].facet[f]
  BY MadeType
<1>2. obj'[m] = o
  OBVIOUS
<1> HIDE DEF o
<1>3. NoneIn(signals', News(m)) => NoneIn(signals', ValueOf(m)) /\ NoneIn(signals', IfacesOf(m))
  BY AboutSets, NoneInSubset
<1>4. \A D, s : NoneIn(signals', D) => ~Final(signals', D, s)
  BY SomeSignal
<1>5. ArrivalFresh(m)'
  BY DEF ArrivalFresh
<1>6. ViewCurrent(m)' /\ KnownCurrent(m)'
  BY <1>1, <1>2, <1>3, <1>4 DEF ViewCurrent, KnownCurrent
<1>7. ASSUME NEW f \in Facet PROVE DataCurrent(m, f)'
  BY <1>1, <1>2, <1>4 DEF DataCurrent, Kept
<1>. QED BY <1>5, <1>6, <1>7

LEMMA OpenedCurrent ==
  ASSUME Alive, Current, Opened
  PROVE  Current'
<1>1. PICK bad \in SUBSET Facet :
        obj' = [m \in Modem |-> IF arriving[m] # None THEN Made(m, arriving[m], bad)
                                ELSE Absent]
  BY DEF Opened
<1>2. /\ context = "listed" /\ context' = "ready" /\ arriving' = [m \in Modem |-> None]
      /\ UNCHANGED <<ofono, signals, missed>>
  BY DEF Opened
<1>3. Types /\ RealityOK /\ \A m \in Modem : obj[m].phase = "absent"
  BY <1>2 DEF Alive, Phases
<1>4. ASSUME NEW m \in Modem PROVE CurrentOf(m)'
  <2>1. CurrentOf(m)
    BY DEF Current
  <2>2. PresenceAhead(m)' /\ AnnouncementFresh(m)'
    BY <1>2, <2>1 DEF CurrentOf, PresenceAhead, AnnouncementFresh
  <2>3. Settled(m)' => Settled(m)
    BY <1>2 DEF Settled
  <2>4. arriving'[m] = None /\ ofono'[m] = ofono[m]
    BY <1>2
  <2>5. CASE arriving[m] # None
    <3> DEFINE told == arriving[m]
    <3>1. obj'[m] = Made(m, told, bad)
      BY <1>1, <2>5
    <3>2. told.value \in Val /\ told.ifaces \in SUBSET Facet
      BY <1>3, <2>5 DEF Types, Snapshot
    <3>3. obj'[m].phase = "present"
      BY <3>1 DEF Made
    <3>4. PresenceKnown(m)'
      BY <1>2, <2>1, <2>5, <3>3 DEF CurrentOf, PresenceKnown
    <3>5. Settled(m)' => /\ told.value = ofono[m].value /\ told.ifaces = ofono[m].ifaces
                         /\ NoneIn(signals', News(m))
      BY <1>2, <2>1, <2>3, <2>5 DEF CurrentOf, ArrivalFresh, SnapshotOf
    <3>6. \A f \in Facet : HasData(obj'[m], f) => NoneIn(signals', FacetOf(m, f))
      <4>1. \A f \in Facet : ~HasData(obj[m], f)
        BY <1>3, AbsentType DEF Types, ObjectOK
      <4>. QED BY <1>2, <4>1, NoFacetSignals
    <3> HIDE DEF told
    <3>. QED BY <1>3, <2>2, <2>4, <3>1, <3>2, <3>4, <3>5, <3>6, MadeCurrent DEF CurrentOf
  <2>6. CASE arriving[m] = None
    <3>1. obj'[m].phase = "absent"
      BY <1>1, <2>6, AbsentType
    <3>2. PresenceKnown(m)'
      BY <1>2, <1>3, <2>1, <2>4, <2>6, <3>1 DEF CurrentOf, PresenceKnown
    <3>. QED BY <2>2, <2>4, <3>1, <3>2
          DEF CurrentOf, ArrivalFresh, ViewCurrent, KnownCurrent, DataCurrent
  <2>. QED BY <2>5, <2>6
<1>. QED BY <1>4 DEF Current

LEMMA TailAbout ==
  ASSUME Types, signals # << >>
  PROVE  /\ signals \in Seq(Signal) /\ Tail(signals) \in Seq(Signal)
         /\ \A D : Head(signals) \notin D => SameAbout(signals, Tail(signals), D)
<1>1. signals \in Seq(Signal)
  BY DEF Types
<1>. QED BY <1>1, TailSame, TailShift

(* What Unsubscribed leaves alone. *)
LEMMA UnsubscribedAbout ==
  ASSUME NEW q \in Seq(Signal), NEW m, NEW facets, NEW self \in BOOLEAN
  PROVE  /\ \A D : D \subseteq Signal /\ D \cap Dying(m, facets, self) = {} =>
              SameAbout(q, Unsubscribed(q, m, facets, self), D)
         /\ \A D : D \subseteq Dying(m, facets, self) =>
              NoneIn(Unsubscribed(q, m, facets, self), D)
         /\ \A D : NoneIn(q, D) => NoneIn(Unsubscribed(q, m, facets, self), D)
         /\ \A D, s : s \in Signal /\ s \notin Dying(m, facets, self) /\ Final(q, D, s) =>
              Final(Unsubscribed(q, m, facets, self), D, s)
<1> DEFINE alive == Signal \ Dying(m, facets, self)
           r == Unsubscribed(q, m, facets, self)
<1>1. r = Filtered(q, alive)
  BY DEF Unsubscribed
<1>2. /\ \A D : D \subseteq Signal /\ D \cap Dying(m, facets, self) = {} => D \subseteq alive
      /\ \A D : D \subseteq Dying(m, facets, self) => D \cap alive = {}
      /\ \A s : s \in Signal /\ s \notin Dying(m, facets, self) => s \in alive
  OBVIOUS
<1> HIDE DEF alive, r
<1>3. \A D : D \subseteq Signal /\ D \cap Dying(m, facets, self) = {} => SameAbout(q, r, D)
  BY <1>1, <1>2, FilteredSame
<1>4. \A D : D \subseteq Dying(m, facets, self) => NoneIn(r, D)
  BY <1>1, <1>2, FilteredRest
<1>5. \A D : NoneIn(q, D) => NoneIn(r, D)
  BY <1>1, FilteredRest
<1>6. \A D, s : s \in Signal /\ s \notin Dying(m, facets, self) /\ Final(q, D, s) => Final(r, D, s)
  BY <1>1, <1>2, FilteredRest
<1>. QED BY <1>3, <1>4, <1>5, <1>6 DEF r

LEMMA DyingIs ==
  ASSUME NEW m, NEW facets, NEW self, NEW f
  PROVE  /\ Dying(m, facets, self) \subseteq About(m)
         /\ Presence(m) \cap Dying(m, facets, self) = {}
         /\ f \in facets => FacetOf(m, f) \subseteq Dying(m, facets, self)
         /\ f \notin facets => FacetOf(m, f) \cap Dying(m, facets, self) = {}
         /\ ~self => News(m) \cap Dying(m, facets, self) = {}
BY DEF Dying, About, Presence, ValueOf, IfacesOf, News, FacetOf

(* The signal dispatched tells that m is there, or not. *)
LEMMA PresenceTold ==
  ASSUME Types, signals # << >>, NEW m \in Modem, CurrentOf(m), Head(signals) \in Presence(m),
         ofono'[m] = ofono[m],
         SameAbout(Tail(signals), signals', Presence(m)),
         \A s \in Presence(m) :
           Final(Tail(signals), News(m), s) => Final(signals', News(m), s),
         m \notin missed' => m \notin missed \/ ~AnnouncedIn(Tail(signals), m)
  PROVE  /\ PresenceAhead(m)' /\ AnnouncementFresh(m)'
         /\ NoneIn(signals', Presence(m)) => (ofono[m].here <=> Head(signals).type = "added")
         /\ NoneIn(signals', Presence(m)) /\ m \notin missed /\ Head(signals).type = "added" =>
              /\ Head(signals).value = ofono[m].value /\ Head(signals).ifaces = ofono[m].ifaces
              /\ NoneIn(Tail(signals), News(m))
<1>1. signals \in Seq(Signal) /\ Head(signals) \in Signal /\ Presence(m) \subseteq News(m)
  BY TailShift, AboutSets DEF Types
<1>2. /\ \A s : Final(Tail(signals), Presence(m), s) => Final(signals, Presence(m), s)
      /\ NoneIn(Tail(signals), Presence(m)) => Final(signals, Presence(m), Head(signals))
  BY <1>1, TailRest
<1>3. \A s \in Signal : Final(signals', Presence(m), s) =>
        Final(Tail(signals), Presence(m), s) /\ Final(signals, Presence(m), s)
  BY <1>2 DEF SameAbout
<1>4. PresenceAhead(m)'
  BY <1>3 DEF CurrentOf, PresenceAhead
<1>5. AnnouncementFresh(m)'
  <2>1. ASSUME m \notin missed', NEW s \in Signal, Final(signals', Presence(m), s), s.type = "added"
        PROVE  Final(signals', News(m), s) /\ s.value = ofono[m].value /\ s.ifaces = ofono[m].ifaces
    <3>1. s \in Presence(m) /\ In(s, Tail(signals)) /\ s.modem = m
      BY <1>3, <2>1, FinalIn, AboutSignal
    <3>2. AnnouncedIn(Tail(signals), m)
      BY <2>1, <3>1 DEF AnnouncedIn, In
    <3>3. Final(signals, News(m), s) /\ s.value = ofono[m].value /\ s.ifaces = ofono[m].ifaces
      BY <1>3, <2>1, <3>2 DEF CurrentOf, AnnouncementFresh
    <3>4. Final(Tail(signals), News(m), s)
      BY <1>1, <1>3, <2>1, <3>3, TailFinal
    <3>. QED BY <3>1, <3>3, <3>4
  <2>. QED BY <2>1 DEF AnnouncementFresh
<1>6. NoneIn(signals', Presence(m)) => Final(signals, Presence(m), Head(signals))
                                       /\ NoneIn(Tail(signals), Presence(m))
  BY <1>2 DEF SameAbout
<1>7. NoneIn(signals', Presence(m)) => (ofono[m].here <=> Head(signals).type = "added")
  BY <1>1, <1>6 DEF CurrentOf, PresenceAhead
<1>8. ASSUME NoneIn(signals', Presence(m)), m \notin missed, Head(signals).type = "added"
      PROVE  /\ Head(signals).value = ofono[m].value /\ Head(signals).ifaces = ofono[m].ifaces
             /\ NoneIn(Tail(signals), News(m))
  <2>1. /\ Final(signals, News(m), Head(signals))
        /\ Head(signals).value = ofono[m].value /\ Head(signals).ifaces = ofono[m].ifaces
    BY <1>1, <1>6, <1>8 DEF CurrentOf, AnnouncementFresh
  <2>2. NoneIn(Tail(signals), News(m))
    BY <1>1, <1>6, <1>8, <2>1, TailFinal
  <2>. QED BY <2>1, <2>2
<1>. QED BY <1>4, <1>5, <1>7, <1>8

LEMMA ModemAddedCurrent ==
  ASSUME Alive, Current, ModemAdded
  PROVE  Current'
<1> DEFINE s == Head(signals)
<1>0. signals # << >>
  BY DEF ModemAdded, Dispatch
<1>00. PICK m \in Modem : m = s.modem
  BY <1>0, HeadFacts
<1>1. /\ s.type = "added" /\ obj[m].phase = "absent" /\ context = "ready"
      /\ signals' = Tail(signals) /\ UNCHANGED <<ofono, context, arriving, missed>>
  BY <1>00 DEF ModemAdded, Dispatch
<1>2. PICK bad \in SUBSET s.ifaces : obj' = [obj EXCEPT ![m] = Made(m, s, bad)]
  BY <1>00 DEF ModemAdded
<1>3. Types /\ Phases /\ RealityOK /\ CurrentOf(m)
  BY DEF Alive, Current
<1>4. s \in Signal /\ s.value \in Val /\ s.ifaces \in SUBSET Facet /\ s \in Presence(m)
      /\ s \in About(m)
  <2>1. s \in Signal /\ s.modem = m /\ s.type = "added"
    BY <1>0, <1>00, <1>1, HeadFacts
  <2>2. s.value \in Val /\ s.ifaces \in SUBSET Facet
    BY <2>1, SignalFields
  <2>. QED BY <2>1, <2>2, AboutSignal
<1>5. arriving[m] = None /\ \A f \in Facet : ~HasData(obj[m], f)
  BY <1>1, <1>3, AbsentType DEF Phases, Types, ObjectOK
<1>6. /\ obj'[m] = Made(m, s, bad) /\ obj'[m].phase = "present"
      /\ \A n \in Modem \ {m} : obj'[n] = obj[n]
  BY <1>2, <1>3 DEF Types, Made
<1>7. signals \in Seq(Signal) /\ Tail(signals) \in Seq(Signal)
      /\ \A D : Head(signals) \notin D => SameAbout(signals, Tail(signals), D)
  BY <1>0, <1>3, TailAbout
<1>8. /\ PresenceAhead(m)' /\ AnnouncementFresh(m)'
      /\ NoneIn(signals', Presence(m)) => ofono[m].here
      /\ Settled(m)' => /\ s.value = ofono[m].value /\ s.ifaces = ofono[m].ifaces
                        /\ NoneIn(signals', News(m))
  <2>1. /\ ofono'[m] = ofono[m]
        /\ SameAbout(Tail(signals), signals', Presence(m))
        /\ \A t \in Presence(m) :
             Final(Tail(signals), News(m), t) => Final(signals', News(m), t)
        /\ m \notin missed' => m \notin missed \/ ~AnnouncedIn(Tail(signals), m)
    BY <1>1, SameReflexive
  <2>2. /\ PresenceAhead(m)' /\ AnnouncementFresh(m)'
        /\ NoneIn(signals', Presence(m)) => (ofono[m].here <=> s.type = "added")
        /\ NoneIn(signals', Presence(m)) /\ m \notin missed /\ s.type = "added" =>
             /\ s.value = ofono[m].value /\ s.ifaces = ofono[m].ifaces
             /\ NoneIn(Tail(signals), News(m))
    BY <1>0, <1>3, <1>4, <2>1, PresenceTold
  <2>. QED BY <1>1, <2>2 DEF Settled
<1>9. PresenceKnown(m)'
  BY <1>1, <1>6, <1>8 DEF PresenceKnown
<1>10. \A f \in Facet : HasData(obj'[m], f) => NoneIn(signals', FacetOf(m, f))
  <2>1. \A f \in Facet : NoneIn(signals, FacetOf(m, f))
    BY <1>5, NoFacetSignals
  <2>. QED BY <1>0, <1>1, <1>7, <2>1, TailRest
<1>11. ofono'[m] = ofono[m] /\ arriving'[m] = None
  BY <1>1, <1>5
<1> HIDE DEF s
<1>12. /\ ArrivalFresh(m)' /\ ViewCurrent(m)' /\ KnownCurrent(m)'
       /\ \A f \in Facet : DataCurrent(m, f)'
  BY <1>3, <1>4, <1>6, <1>8, <1>10, <1>11, MadeCurrent
<1>13. CurrentOf(m)'
  BY <1>8, <1>9, <1>12 DEF CurrentOf
<1>14. /\ \A n \in Modem \ {m} : /\ ofono'[n] = ofono[n] /\ obj'[n] = obj[n]
                                 /\ arriving'[n] = arriving[n]
                                 /\ n \in missed' <=> n \in missed
       /\ \A D : D \subseteq Signal /\ D \cap About(m) = {} => SameAbout(signals, signals', D)
  BY <1>1, <1>4, <1>6, <1>7 DEF s
<1>. QED BY <1>1, <1>13, <1>14, CurrentOne

(* The signals of the others, when the proxies of m go. *)
LEMMA UnsubscribedOthers ==
  ASSUME Types, signals # << >>, NEW m, Head(signals) \in About(m), NEW facets,
         NEW self \in BOOLEAN, signals' = Unsubscribed(Tail(signals), m, facets, self)
  PROVE  \A D : D \subseteq Signal /\ D \cap About(m) = {} => SameAbout(signals, signals', D)
<1>1. /\ Tail(signals) \in Seq(Signal)
      /\ \A D : Head(signals) \notin D => SameAbout(signals, Tail(signals), D)
  BY TailAbout
<1>2. \A D : D \subseteq Signal /\ D \cap Dying(m, facets, self) = {} =>
        SameAbout(Tail(signals), signals', D)
  BY <1>1, UnsubscribedAbout
<1>3. Dying(m, facets, self) \subseteq About(m)
  BY DyingIs
<1>4. ASSUME NEW D, D \subseteq Signal, D \cap About(m) = {} PROVE SameAbout(signals, signals', D)
  <2>1. SameAbout(signals, Tail(signals), D) /\ SameAbout(Tail(signals), signals', D)
    BY <1>1, <1>2, <1>3, <1>4
  <2>. QED BY <2>1, SameTransitive
<1>. QED BY <1>4

LEMMA ModemReplacedCurrent ==
  ASSUME Alive, Current, ModemReplaced
  PROVE  Current'
<1> DEFINE s == Head(signals)
           q == Tail(signals)
           none == {}
           self == TRUE
<1>0. signals # << >>
  BY DEF ModemReplaced, Dispatch
<1>00. PICK m \in Modem : m = s.modem
  BY <1>0, HeadFacts
<1> DEFINE told == [value |-> s.value, ifaces |-> s.ifaces]
<1>1. /\ s.type = "added" /\ context = "ready"
      /\ obj' = [obj EXCEPT ![m].phase = "replacing"]
      /\ signals' = Unsubscribed(q, m, none, self)
      /\ arriving' = [arriving EXCEPT ![m] = told]
      /\ UNCHANGED <<ofono, context, missed>>
  BY <1>00 DEF ModemReplaced, Dispatch
<1>2. Types /\ CurrentOf(m)
  BY DEF Alive, Current
<1>3. s \in Signal /\ s.value \in Val /\ s.ifaces \in SUBSET Facet
      /\ s \in Presence(m) /\ s \in About(m) /\ q \in Seq(Signal)
  <2>1. s \in Signal /\ s.modem = m /\ s.type = "added" /\ q \in Seq(Signal)
    BY <1>0, <1>00, <1>1, HeadFacts
  <2>2. s.value \in Val /\ s.ifaces \in SUBSET Facet
    BY <2>1, SignalFields
  <2>. QED BY <2>1, <2>2, AboutSignal
<1>4. told \in Snapshot /\ told # None /\ told.value = s.value /\ told.ifaces = s.ifaces
  BY <1>3 DEF Snapshot
<1>5. obj'[m].phase = "replacing" /\ \A n \in Modem \ {m} : obj'[n] = obj[n]
  BY <1>1, <1>2 DEF Types, Object
<1>6. arriving'[m] = told /\ \A n \in Modem \ {m} : arriving'[n] = arriving[n]
  BY <1>1, <1>2 DEF Types
<1>7. self \in BOOLEAN
  OBVIOUS
<1> HIDE DEF none, self, told, q
<1>8. /\ SameAbout(q, signals', Presence(m))
      /\ \A t \in Presence(m) : Final(q, News(m), t) => Final(signals', News(m), t)
      /\ NoneIn(q, News(m)) => NoneIn(signals', News(m))
  <2>1. Presence(m) \cap Dying(m, none, self) = {} /\ Presence(m) \subseteq Signal
    BY DyingIs DEF Presence, About
  <2>. QED BY <1>1, <1>3, <1>7, <2>1, UnsubscribedAbout
<1>9. /\ PresenceAhead(m)' /\ AnnouncementFresh(m)'
      /\ NoneIn(signals', Presence(m)) => ofono[m].here
      /\ Settled(m)' => /\ s.value = ofono[m].value /\ s.ifaces = ofono[m].ifaces
                        /\ NoneIn(signals', News(m))
  <2>1. /\ ofono'[m] = ofono[m]
        /\ SameAbout(Tail(signals), signals', Presence(m))
        /\ \A t \in Presence(m) :
             Final(Tail(signals), News(m), t) => Final(signals', News(m), t)
        /\ m \notin missed' => m \notin missed \/ ~AnnouncedIn(Tail(signals), m)
    BY <1>1, <1>8 DEF q
  <2>2. /\ PresenceAhead(m)' /\ AnnouncementFresh(m)'
        /\ NoneIn(signals', Presence(m)) => (ofono[m].here <=> s.type = "added")
        /\ NoneIn(signals', Presence(m)) /\ m \notin missed /\ s.type = "added" =>
             /\ s.value = ofono[m].value /\ s.ifaces = ofono[m].ifaces
             /\ NoneIn(Tail(signals), News(m))
    BY <1>0, <1>2, <1>3, <2>1, PresenceTold
  <2>. QED BY <1>1, <1>8, <2>2 DEF Settled, q
<1>10. PresenceKnown(m)'
  BY <1>1, <1>4, <1>6, <1>9 DEF PresenceKnown
<1>11. ArrivalFresh(m)'
  <2>1. ASSUME Settled(m)' PROVE told = SnapshotOf(m)'
    BY <1>1, <1>9, <2>1 DEF told, SnapshotOf
  <2>. QED BY <1>6, <1>9, <2>1 DEF ArrivalFresh
<1>12. CurrentOf(m)'
  BY <1>5, <1>9, <1>10, <1>11 DEF CurrentOf, ViewCurrent, KnownCurrent, DataCurrent
<1>13. \A D : D \subseteq Signal /\ D \cap About(m) = {} => SameAbout(signals, signals', D)
  BY <1>0, <1>1, <1>2, <1>3, <1>7, UnsubscribedOthers DEF q
<1>14. \A n \in Modem \ {m} : /\ ofono'[n] = ofono[n] /\ obj'[n] = obj[n]
                              /\ arriving'[n] = arriving[n]
                              /\ n \in missed' <=> n \in missed
  BY <1>1, <1>5, <1>6
<1>. QED BY <1>1, <1>12, <1>13, <1>14, CurrentOne

(* The last signal of the presence is the same. *)
LEMMA PresenceKept ==
  ASSUME NEW m \in Modem, CurrentOf(m), ofono'[m] = ofono[m], missed' = missed,
         SameAbout(signals, signals', Presence(m)),
         \A s \in Presence(m) :
           Final(signals, News(m), s) => Final(signals', News(m), s)
  PROVE  PresenceAhead(m)' /\ AnnouncementFresh(m)'
<1>1. PresenceAhead(m)'
  BY DEF CurrentOf, PresenceAhead, SameAbout
<1>2. ASSUME m \notin missed', NEW s \in Signal, Final(signals', Presence(m), s), s.type = "added"
      PROVE  Final(signals', News(m), s) /\ s.value = ofono[m].value /\ s.ifaces = ofono[m].ifaces
  <2>1. s \in Presence(m) /\ Final(signals, Presence(m), s)
    BY <1>2, FinalIn DEF SameAbout
  <2>. QED BY <1>2, <2>1 DEF CurrentOf, AnnouncementFresh
<1>3. AnnouncementFresh(m)'
  BY <1>2 DEF AnnouncementFresh
<1>. QED BY <1>1, <1>3

LEMMA ReplacedCurrent ==
  ASSUME Alive, Current, NEW m \in Modem, Replaced(m)
  PROVE  Current'
<1> DEFINE told == arriving[m]
           self == FALSE
<1>1. /\ obj[m].phase = "replacing"
      /\ signals' = Unsubscribed(signals, m, Facet, self)
      /\ arriving' = [arriving EXCEPT ![m] = None]
      /\ UNCHANGED <<ofono, context, missed>>
  BY DEF Replaced
<1>2. PICK bad \in SUBSET told.ifaces : obj' = [obj EXCEPT ![m] = Made(m, told, bad)]
  BY DEF Replaced
<1>3. Types /\ Phases /\ RealityOK /\ CurrentOf(m) /\ signals \in Seq(Signal)
  BY DEF Alive, Current, Types
<1>4. told # None /\ told.value \in Val /\ told.ifaces \in SUBSET Facet /\ context = "ready"
  BY <1>1, <1>3 DEF Phases, Types, Snapshot
<1>5. /\ obj'[m] = Made(m, told, bad) /\ obj'[m].phase = "present"
      /\ \A n \in Modem \ {m} : obj'[n] = obj[n]
  BY <1>2, <1>3 DEF Types, Made
<1>6. arriving'[m] = None /\ \A n \in Modem \ {m} : arriving'[n] = arriving[n]
  BY <1>1, <1>3 DEF Types
<1>7. self \in BOOLEAN /\ ~self
  OBVIOUS
<1> HIDE DEF self
<1>8. /\ \A D : D \subseteq Signal /\ D \cap Dying(m, Facet, self) = {} =>
           SameAbout(signals, signals', D)
      /\ \A D : D \subseteq Dying(m, Facet, self) => NoneIn(signals', D)
      /\ \A D : NoneIn(signals, D) => NoneIn(signals', D)
      /\ \A D, s : s \in Signal /\ s \notin Dying(m, Facet, self) /\ Final(signals, D, s) =>
           Final(signals', D, s)
  BY <1>1, <1>3, <1>7, UnsubscribedAbout
<1>9. /\ Dying(m, Facet, self) \subseteq About(m)
      /\ Presence(m) \cap Dying(m, Facet, self) = {} /\ Presence(m) \subseteq Signal
      /\ \A f \in Facet : FacetOf(m, f) \subseteq Dying(m, Facet, self)
  BY DyingIs DEF Presence, About
<1>10. /\ SameAbout(signals, signals', Presence(m))
       /\ \A s \in Presence(m) : Final(signals, News(m), s) => Final(signals', News(m), s)
       /\ NoneIn(signals, News(m)) => NoneIn(signals', News(m))
  BY <1>8, <1>9
<1>11. PresenceAhead(m)' /\ AnnouncementFresh(m)'
  BY <1>1, <1>3, <1>10, PresenceKept
<1>12. PresenceKnown(m)'
  BY <1>1, <1>3, <1>4, <1>5, <1>10 DEF CurrentOf, PresenceKnown, SameAbout
<1>13. Settled(m)' => /\ told.value = ofono[m].value /\ told.ifaces = ofono[m].ifaces
                      /\ NoneIn(signals', News(m))
  BY <1>1, <1>3, <1>4, <1>10 DEF CurrentOf, ArrivalFresh, SnapshotOf, Settled, SameAbout
<1>14. \A f \in Facet : HasData(obj'[m], f) => NoneIn(signals', FacetOf(m, f))
  BY <1>8, <1>9
<1>15. ofono'[m] = ofono[m]
  BY <1>1
<1> HIDE DEF told
<1>16. /\ ArrivalFresh(m)' /\ ViewCurrent(m)' /\ KnownCurrent(m)'
       /\ \A f \in Facet : DataCurrent(m, f)'
  BY <1>3, <1>4, <1>5, <1>6, <1>13, <1>14, <1>15, MadeCurrent
<1>17. CurrentOf(m)'
  BY <1>11, <1>12, <1>16 DEF CurrentOf
<1>18. \A D : D \subseteq Signal /\ D \cap About(m) = {} => SameAbout(signals, signals', D)
  BY <1>8, <1>9
<1>19. \A n \in Modem \ {m} : /\ ofono'[n] = ofono[n] /\ obj'[n] = obj[n]
                              /\ arriving'[n] = arriving[n]
                              /\ n \in missed' <=> n \in missed
  BY <1>1, <1>5, <1>6
<1>. QED BY <1>1, <1>17, <1>18, <1>19, CurrentOne

LEMMA ModemFinalizedCurrent ==
  ASSUME Alive, Current, NEW m \in Modem, ModemFinalized(m)
  PROVE  Current'
<1> DEFINE self == TRUE
<1>1. /\ obj[m].phase = "leaving" /\ obj' = [obj EXCEPT ![m] = Absent]
      /\ signals' = Unsubscribed(signals, m, Facet, self)
      /\ UNCHANGED <<ofono, context, arriving, missed>>
  BY DEF ModemFinalized
<1>2. Types /\ Phases /\ CurrentOf(m) /\ signals \in Seq(Signal)
  BY DEF Alive, Current, Types
<1>3. /\ obj'[m].phase = "absent" /\ \A n \in Modem \ {m} : obj'[n] = obj[n]
  BY <1>1, <1>2, AbsentType DEF Types
<1>4. arriving[m] = None
  BY <1>1, <1>2 DEF Phases
<1>5. self \in BOOLEAN
  OBVIOUS
<1> HIDE DEF self
<1>6. /\ \A D : D \subseteq Signal /\ D \cap Dying(m, Facet, self) = {} =>
           SameAbout(signals, signals', D)
      /\ \A D, s : s \in Signal /\ s \notin Dying(m, Facet, self) /\ Final(signals, D, s) =>
           Final(signals', D, s)
  BY <1>1, <1>2, <1>5, UnsubscribedAbout
<1>7. /\ Dying(m, Facet, self) \subseteq About(m)
      /\ Presence(m) \cap Dying(m, Facet, self) = {} /\ Presence(m) \subseteq Signal
  BY DyingIs DEF Presence, About
<1>8. /\ SameAbout(signals, signals', Presence(m))
      /\ \A s \in Presence(m) : Final(signals, News(m), s) => Final(signals', News(m), s)
  BY <1>6, <1>7
<1>9. PresenceAhead(m)' /\ AnnouncementFresh(m)'
  BY <1>1, <1>2, <1>8, PresenceKept
<1>10. PresenceKnown(m)'
  BY <1>1, <1>2, <1>3, <1>8 DEF CurrentOf, PresenceKnown, SameAbout
<1>11. CurrentOf(m)'
  BY <1>1, <1>3, <1>4, <1>9, <1>10
     DEF CurrentOf, ArrivalFresh, ViewCurrent, KnownCurrent, DataCurrent
<1>12. \A D : D \subseteq Signal /\ D \cap About(m) = {} => SameAbout(signals, signals', D)
  BY <1>6, <1>7
<1>13. \A n \in Modem \ {m} : /\ ofono'[n] = ofono[n] /\ obj'[n] = obj[n]
                              /\ arriving'[n] = arriving[n]
                              /\ n \in missed' <=> n \in missed
  BY <1>1, <1>3
<1>. QED BY <1>1, <1>11, <1>12, <1>13, CurrentOne

LEMMA ModemRemovedCurrent ==
  ASSUME Alive, Current, ModemRemoved
  PROVE  Current'
<1> DEFINE s == Head(signals)
<1>0. signals # << >>
  BY DEF ModemRemoved, Dispatch
<1>00. PICK m \in Modem : m = s.modem
  BY <1>0, HeadFacts
<1>1. /\ s.type = "removed" /\ context = "ready" /\ obj[m].phase \in {"present", "absent"}
      /\ signals' = Tail(signals)
      /\ missed' = IF AnnouncedIn(Tail(signals), m) THEN missed ELSE missed \ {m}
      /\ UNCHANGED <<ofono, context, arriving>>
  BY <1>00 DEF ModemRemoved, Dispatch
<1>2. Types /\ Phases /\ CurrentOf(m)
  BY DEF Alive, Current
<1>3. s \in Signal /\ s \in Presence(m) /\ s \in About(m)
  BY <1>0, <1>00, <1>1, HeadFacts, AboutSignal
<1>4. arriving[m] = None
  BY <1>1, <1>2 DEF Phases
<1>5. obj'[m].phase \in {"absent", "leaving"} /\ \A n \in Modem \ {m} : obj'[n] = obj[n]
  <2>1. \/ obj[m].phase = "present" /\ obj' = [obj EXCEPT ![m].phase = "leaving"]
        \/ obj[m].phase = "absent" /\ obj' = obj
    BY <1>00, <1>1 DEF ModemRemoved
  <2>. QED BY <1>2, <2>1 DEF Types, Object
<1>6. \A D : Head(signals) \notin D => SameAbout(signals, Tail(signals), D)
  BY <1>0, <1>2, TailAbout
<1>7. /\ PresenceAhead(m)' /\ AnnouncementFresh(m)'
      /\ NoneIn(signals', Presence(m)) => ~ofono[m].here
  <2>1. /\ ofono'[m] = ofono[m]
        /\ SameAbout(Tail(signals), signals', Presence(m))
        /\ \A t \in Presence(m) :
             Final(Tail(signals), News(m), t) => Final(signals', News(m), t)
        /\ m \notin missed' => m \notin missed \/ ~AnnouncedIn(Tail(signals), m)
    BY <1>1, SameReflexive
  <2>2. /\ PresenceAhead(m)' /\ AnnouncementFresh(m)'
        /\ NoneIn(signals', Presence(m)) => (ofono[m].here <=> s.type = "added")
    BY <1>0, <1>2, <1>3, <2>1, PresenceTold
  <2>. QED BY <1>1, <2>2
<1>8. PresenceKnown(m)'
  BY <1>1, <1>4, <1>5, <1>7 DEF PresenceKnown
<1>9. CurrentOf(m)'
  BY <1>1, <1>4, <1>5, <1>7, <1>8
     DEF CurrentOf, ArrivalFresh, ViewCurrent, KnownCurrent, DataCurrent
<1>10. \A D : D \subseteq Signal /\ D \cap About(m) = {} => SameAbout(signals, signals', D)
  BY <1>1, <1>3, <1>6
<1>11. \A n \in Modem \ {m} : /\ ofono'[n] = ofono[n] /\ obj'[n] = obj[n]
                              /\ arriving'[n] = arriving[n]
                              /\ n \in missed' <=> n \in missed
  BY <1>1, <1>5
<1>. QED BY <1>1, <1>9, <1>10, <1>11, CurrentOne

(* The signal dispatched tells the state, the interfaces or a facet.       *)
LEMMA ChangeTold ==
  ASSUME Types, signals # << >>, NEW m \in Modem, CurrentOf(m), Head(signals) \notin Presence(m),
         ofono'[m] = ofono[m], arriving'[m] = arriving[m], obj'[m].phase = obj[m].phase,
         UNCHANGED <<context, missed>>,
         SameAbout(Tail(signals), signals', Presence(m)),
         \A s \in Presence(m) :
           Final(Tail(signals), News(m), s) => Final(signals', News(m), s),
         NoneIn(Tail(signals), News(m)) => NoneIn(signals', News(m))
  PROVE  /\ PresenceAhead(m)' /\ PresenceKnown(m)' /\ AnnouncementFresh(m)'
         /\ ArrivalFresh(m)' /\ (Settled(m)' <=> Settled(m))
<1>1. signals \in Seq(Signal) /\ Presence(m) \subseteq News(m)
  BY AboutSets DEF Types
<1>2. SameAbout(signals, Tail(signals), Presence(m))
  BY TailAbout
<1>3. SameAbout(signals, signals', Presence(m))
  BY <1>2, SameTransitive
<1>4. \A s \in Presence(m) :
        Final(signals', Presence(m), s) /\ Final(signals, News(m), s) => Final(signals', News(m), s)
  <2>1. ASSUME NEW s \in Presence(m), Final(signals', Presence(m), s), Final(signals, News(m), s)
        PROVE  Final(signals', News(m), s)
    <3>1. s \in Signal
      BY DEF Presence, About
    <3>2. Final(Tail(signals), Presence(m), s)
      BY <2>1, <3>1 DEF SameAbout
    <3>3. Final(Tail(signals), News(m), s)
      BY <1>1, <2>1, <3>2, TailFinal
    <3>. QED BY <3>3
  <2>. QED BY <2>1
<1>5. PresenceAhead(m)' /\ PresenceKnown(m)'
  BY <1>3 DEF CurrentOf, PresenceAhead, PresenceKnown, SameAbout
<1>6. AnnouncementFresh(m)'
  <2>1. ASSUME m \notin missed', NEW s \in Signal, Final(signals', Presence(m), s), s.type = "added"
        PROVE  Final(signals', News(m), s) /\ s.value = ofono[m].value /\ s.ifaces = ofono[m].ifaces
    <3>1. s \in Presence(m) /\ Final(signals, Presence(m), s)
      BY <1>3, <2>1, FinalIn DEF SameAbout
    <3>2. Final(signals, News(m), s) /\ s.value = ofono[m].value /\ s.ifaces = ofono[m].ifaces
      BY <2>1, <3>1 DEF CurrentOf, AnnouncementFresh
    <3>. QED BY <1>4, <2>1, <3>1, <3>2
  <2>. QED BY <2>1 DEF AnnouncementFresh
<1>7. Settled(m)' <=> Settled(m)
  BY <1>3 DEF Settled, SameAbout
<1>8. ArrivalFresh(m)'
  <2>1. SnapshotOf(m)' = SnapshotOf(m)
    BY DEF SnapshotOf
  <2>2. NoneIn(signals, News(m)) => NoneIn(signals', News(m))
    BY <1>1, TailRest
  <2>. QED BY <1>7, <2>1, <2>2 DEF CurrentOf, ArrivalFresh
<1>. QED BY <1>5, <1>6, <1>7, <1>8

(* What is left when the first signal is dispatched. *)
LEMMA LeftOver ==
  ASSUME Types, signals # << >>, NEW D
  PROVE  /\ \A s : Final(Tail(signals), D, s) => Final(signals, D, s)
         /\ NoneIn(Tail(signals), D) /\ Head(signals) \in D => Final(signals, D, Head(signals))
         /\ NoneIn(signals, D) => NoneIn(Tail(signals), D)
<1>1. signals \in Seq(Signal)
  BY DEF Types
<1>. QED BY <1>1, TailRest

LEMMA ValueToldCurrent ==
  ASSUME Alive, Current, ValueTold
  PROVE  Current'
<1> DEFINE s == Head(signals)
<1>0. signals # << >>
  BY DEF ValueTold, Dispatch
<1>00. PICK m \in Modem : m = s.modem
  BY <1>0, HeadFacts
<1>1. /\ s.type = "value" /\ signals' = Tail(signals)
      /\ UNCHANGED <<ofono, context, arriving, missed>>
      /\ IF obj[m].phase = "present" THEN obj' = [obj EXCEPT ![m].view = s.value] ELSE obj' = obj
  BY <1>00 DEF ValueTold, Dispatch
<1>2. Types /\ CurrentOf(m)
  BY DEF Alive, Current
<1>3. /\ s \in Signal /\ s \in About(m) /\ s \notin Presence(m) /\ s \in ValueOf(m)
      /\ s \notin IfacesOf(m) /\ \A f \in Facet : s \notin FacetOf(m, f) /\ s \notin Without(m, f)
  BY <1>0, <1>00, <1>1, HeadFacts, AboutSignal
<1>4. /\ obj'[m].phase = obj[m].phase /\ obj'[m].known = obj[m].known
      /\ obj'[m].data = obj[m].data
      /\ obj[m].phase = "present" => obj'[m].view = s.value
      /\ \A n \in Modem \ {m} : obj'[n] = obj[n]
  BY <1>1, <1>2 DEF Types, Object
<1>5. \A D : s \notin D => SameAbout(signals, signals', D)
  BY <1>0, <1>1, <1>2, TailAbout
<1>6. /\ PresenceAhead(m)' /\ PresenceKnown(m)' /\ AnnouncementFresh(m)'
      /\ ArrivalFresh(m)' /\ (Settled(m)' <=> Settled(m))
  <2>1. /\ ofono'[m] = ofono[m] /\ arriving'[m] = arriving[m]
        /\ UNCHANGED <<context, missed>>
        /\ SameAbout(Tail(signals), signals', Presence(m))
        /\ \A t \in Presence(m) :
             Final(Tail(signals), News(m), t) => Final(signals', News(m), t)
        /\ NoneIn(Tail(signals), News(m)) => NoneIn(signals', News(m))
    BY <1>1, SameReflexive
  <2>. QED BY <1>0, <1>2, <1>3, <1>4, <2>1, ChangeTold
<1>7. ViewCurrent(m)'
  <2>1. /\ \A t : Final(signals', ValueOf(m), t) => Final(signals, ValueOf(m), t)
        /\ NoneIn(signals', ValueOf(m)) => Final(signals, ValueOf(m), s)
    BY <1>0, <1>1, <1>2, <1>3, LeftOver
  <2>. QED BY <1>1, <1>2, <1>3, <1>4, <1>6, <2>1 DEF CurrentOf, ViewCurrent
<1>8. KnownCurrent(m)'
  <2>1. SameAbout(signals, signals', IfacesOf(m))
    BY <1>3, <1>5
  <2>. QED BY <1>1, <1>2, <1>4, <1>6, <2>1 DEF CurrentOf, KnownCurrent, SameAbout
<1>9. ASSUME NEW f \in Facet PROVE DataCurrent(m, f)'
  <2>1. SameAbout(signals, signals', FacetOf(m, f)) /\ SameAbout(signals, signals', Without(m, f))
    BY <1>3, <1>5
  <2>. QED BY <1>1, <1>2, <1>4, <1>6, <2>1 DEF CurrentOf, DataCurrent, Kept, HasData, SameAbout
<1>10. CurrentOf(m)'
  BY <1>6, <1>7, <1>8, <1>9 DEF CurrentOf
<1>11. \A D : D \subseteq Signal /\ D \cap About(m) = {} => SameAbout(signals, signals', D)
  BY <1>3, <1>5
<1>12. \A n \in Modem \ {m} : /\ ofono'[n] = ofono[n] /\ obj'[n] = obj[n]
                              /\ arriving'[n] = arriving[n]
                              /\ n \in missed' <=> n \in missed
  BY <1>1, <1>4
<1>. QED BY <1>1, <1>10, <1>11, <1>12, CurrentOne

LEMMA FacetToldCurrent ==
  ASSUME Alive, Current, FacetTold
  PROVE  Current'
<1> DEFINE s == Head(signals)
           f == s.facet
           v == s.value
<1>0. signals # << >>
  BY DEF FacetTold, Dispatch
<1>00. PICK m \in Modem : m = s.modem
  BY <1>0, HeadFacts
<1> DEFINE x == obj[m]
           o == [x EXCEPT !.data[f] = v]
<1>1. /\ s.type = "facet" /\ signals' = Tail(signals) /\ obj' = [obj EXCEPT ![m] = o]
      /\ UNCHANGED <<ofono, context, arriving, missed>>
  BY <1>00 DEF FacetTold, Dispatch
<1>2. Types /\ CurrentOf(m)
  BY DEF Alive, Current
<1>3. /\ s \in Signal /\ s \in About(m) /\ s \notin Presence(m) /\ s \notin ValueOf(m)
      /\ f \in Facet /\ v \in Val /\ Subscribed(s)
      /\ s \notin IfacesOf(m)
      /\ \A g \in Facet : (s \in FacetOf(m, g) <=> g = f) /\ s \notin Without(m, g)
  BY <1>0, <1>00, <1>1, HeadFacts, SignalFields, AboutSignal
<1>4. HasData(x, f) /\ ObjectOK(x) /\ x.data \in [Facet -> Val \cup {None}]
  BY <1>00, <1>1, <1>2, <1>3, SubscribedCases DEF Types, Object
<1> HIDE DEF f, v, x
<1>5. /\ o.phase = x.phase /\ o.view = x.view /\ o.known = x.known
      /\ o.data = [x.data EXCEPT ![f] = v]
      /\ \A g \in Facet : HasData(o, g) <=> HasData(x, g)
  BY <1>3, <1>4, DataSet
<1> HIDE DEF o
<1>6. x = obj[m] /\ obj'[m] = o /\ \A n \in Modem \ {m} : obj'[n] = obj[n]
  BY <1>1, <1>2 DEF Types, x
<1>7. /\ obj'[m].phase = obj[m].phase /\ obj'[m].known = obj[m].known
      /\ obj'[m].view = obj[m].view
      /\ \A g \in Facet : /\ HasData(obj'[m], g) <=> HasData(obj[m], g)
                          /\ obj'[m].data[g] = IF g = f THEN v ELSE obj[m].data[g]
  BY <1>3, <1>4, <1>5, <1>6
<1>8. \A D : s \notin D => SameAbout(signals, signals', D)
  BY <1>0, <1>1, <1>2, TailAbout
<1>9. /\ PresenceAhead(m)' /\ PresenceKnown(m)' /\ AnnouncementFresh(m)'
      /\ ArrivalFresh(m)' /\ (Settled(m)' <=> Settled(m))
  <2>1. /\ ofono'[m] = ofono[m] /\ arriving'[m] = arriving[m]
        /\ UNCHANGED <<context, missed>>
        /\ SameAbout(Tail(signals), signals', Presence(m))
        /\ \A t \in Presence(m) :
             Final(Tail(signals), News(m), t) => Final(signals', News(m), t)
        /\ NoneIn(Tail(signals), News(m)) => NoneIn(signals', News(m))
    BY <1>1, SameReflexive
  <2>. QED BY <1>0, <1>2, <1>3, <1>7, <2>1, ChangeTold
<1>10. ViewCurrent(m)' /\ KnownCurrent(m)'
  <2>1. SameAbout(signals, signals', ValueOf(m)) /\ SameAbout(signals, signals', IfacesOf(m))
    BY <1>3, <1>8
  <2>. QED BY <1>1, <1>2, <1>7, <1>9, <2>1 DEF CurrentOf, ViewCurrent, KnownCurrent, SameAbout
<1>11. ASSUME NEW g \in Facet PROVE DataCurrent(m, g)'
  <2>1. Kept(m, g)' => Kept(m, g)
    <3>1. SameAbout(signals, signals', Without(m, g))
      BY <1>3, <1>8
    <3>. QED BY <1>7, <3>1 DEF Kept, SameAbout
  <2>2. CASE g = f
    <3>1. /\ \A t : Final(signals', FacetOf(m, g), t) => Final(signals, FacetOf(m, g), t)
          /\ NoneIn(signals', FacetOf(m, g)) => Final(signals, FacetOf(m, g), s)
      BY <1>0, <1>1, <1>2, <1>3, <2>2, LeftOver
    <3>. QED BY <1>1, <1>2, <1>3, <1>7, <1>9, <2>1, <2>2, <3>1 DEF CurrentOf, DataCurrent, v
  <2>3. CASE g # f
    <3>1. SameAbout(signals, signals', FacetOf(m, g))
      BY <1>3, <1>8, <2>3
    <3>. QED BY <1>1, <1>2, <1>7, <1>9, <2>1, <2>3, <3>1 DEF CurrentOf, DataCurrent, SameAbout
  <2>. QED BY <2>2, <2>3
<1>12. CurrentOf(m)'
  BY <1>9, <1>10, <1>11 DEF CurrentOf
<1>13. \A D : D \subseteq Signal /\ D \cap About(m) = {} => SameAbout(signals, signals', D)
  BY <1>3, <1>8
<1>14. \A n \in Modem \ {m} : /\ ofono'[n] = ofono[n] /\ obj'[n] = obj[n]
                              /\ arriving'[n] = arriving[n]
                              /\ n \in missed' <=> n \in missed
  BY <1>1, <1>6
<1>. QED BY <1>1, <1>12, <1>13, <1>14, CurrentOne

LEMMA InterfacesToldCurrent ==
  ASSUME Alive, Current, InterfacesTold
  PROVE  Current'
<1> DEFINE s == Head(signals)
           told == s.ifaces
           q == Tail(signals)
           self == FALSE
<1>0. signals # << >>
  BY DEF InterfacesTold, Dispatch
<1>00. PICK m \in Modem : m = s.modem
  BY <1>0, HeadFacts
<1> DEFINE gone == obj[m].known \ told
           new == told \ obj[m].known
           x == obj[m]
<1>1. s.type = "ifaces" /\ UNCHANGED <<ofono, context, arriving, missed>>
  BY DEF InterfacesTold, Dispatch
<1>2. Types /\ RealityOK /\ CurrentOf(m)
  BY DEF Alive, Current
<1>3. /\ s \in Signal /\ s \in About(m) /\ s \notin Presence(m) /\ s \notin ValueOf(m)
      /\ s \in IfacesOf(m) /\ told \in SUBSET Facet
      /\ \A f \in Facet : s \notin FacetOf(m, f) /\ (s \in Without(m, f) <=> f \notin told)
  BY <1>0, <1>00, <1>1, HeadFacts, SignalFields, AboutSignal
<1>4. q \in Seq(Signal) /\ \A D : s \notin D => SameAbout(signals, q, D)
  BY <1>0, <1>2, TailAbout
<1>5. CASE obj[m].phase = "present"
  <2>1. PICK bad \in SUBSET new :
          /\ obj' = [obj EXCEPT ![m].known = told, ![m].data = DataTold(m, told, bad)]
          /\ signals' = Unsubscribed(q, m, gone, self)
    BY <1>00, <1>5 DEF InterfacesTold, DataTold
  <2>2. self \in BOOLEAN /\ ~self
    OBVIOUS
  <2> HIDE DEF s, told, q, self, x
  <2> DEFINE d == DataTold(m, told, bad)
             o == WithInterfaces(x, told, d)
  <2>3. /\ d \in [Facet -> Val \cup {None}]
        /\ \A f \in Facet : d[f] # None => f \in told
        /\ \A f \in Facet : d[f] = IF f \in new \ bad THEN ofono[m].facet[f]
                                   ELSE IF f \in gone THEN None ELSE obj[m].data[f]
    <3> HIDE DEF d, gone, new
    <3> SUFFICES /\ DataTold(m, told, bad) \in [Facet -> Val \cup {None}]
                 /\ \A f \in Facet : DataTold(m, told, bad)[f] # None => f \in told
                 /\ \A f \in Facet : DataTold(m, told, bad)[f] =
                      IF f \in (told \ obj[m].known) \ bad THEN ofono[m].facet[f]
                      ELSE IF f \in obj[m].known \ told THEN None ELSE obj[m].data[f]
      BY DEF d, gone, new
    <3> HIDE DEF o
    <3>1. Types /\ RealityOK /\ m \in Modem /\ told \in SUBSET Facet
      BY <1>2, <1>3
    <3>. QED BY <3>1, DataToldIs
  <2>4. obj' = [obj EXCEPT ![m] = o]
    BY <2>1 DEF WithInterfaces, x
  <2>5. ObjectOK(x) /\ x.phase # "absent"
    BY <1>2, <1>5 DEF Types, x
  <2> HIDE DEF d
  <2>6. o.phase = x.phase /\ o.view = x.view /\ o.known = told /\ o.data = d
    BY <1>3, <2>3, <2>5, KnownSet
  <2> HIDE DEF o
  <2>7. /\ obj'[m].phase = obj[m].phase /\ obj'[m].view = obj[m].view
        /\ obj'[m].known = told /\ obj'[m].data = d
        /\ \A n \in Modem \ {m} : obj'[n] = obj[n]
    BY <1>2, <2>4, <2>6 DEF Types, x
  <2> HIDE DEF gone, new
  <2>8. /\ \A D : D \subseteq Signal /\ D \cap Dying(m, gone, self) = {} => SameAbout(q, signals', D)
        /\ \A D : NoneIn(q, D) => NoneIn(signals', D)
        /\ \A D, t : t \in Signal /\ t \notin Dying(m, gone, self) /\ Final(q, D, t) =>
             Final(signals', D, t)
    BY <1>4, <2>1, <2>2, UnsubscribedAbout
  <2>9. /\ Dying(m, gone, self) \subseteq About(m)
        /\ Presence(m) \cap Dying(m, gone, self) = {}
        /\ News(m) \cap Dying(m, gone, self) = {}
        /\ \A f \in Facet : f \notin gone => FacetOf(m, f) \cap Dying(m, gone, self) = {}
    BY <2>2, DyingIs
  <2>10. /\ About(m) \subseteq Signal /\ Presence(m) \subseteq Signal
         /\ ValueOf(m) \subseteq News(m) /\ IfacesOf(m) \subseteq News(m) /\ News(m) \subseteq Signal
         /\ \A f \in Facet : FacetOf(m, f) \subseteq Signal /\ Without(m, f) \subseteq News(m)
    BY DEF About, Presence, ValueOf, IfacesOf, FacetOf, News, Without
  <2>11. /\ SameAbout(q, signals', Presence(m)) /\ SameAbout(q, signals', ValueOf(m))
         /\ SameAbout(q, signals', IfacesOf(m))
         /\ \A f \in Facet : /\ SameAbout(q, signals', Without(m, f))
                             /\ f \notin gone => SameAbout(q, signals', FacetOf(m, f))
    <3>1. \A D : D \subseteq News(m) => SameAbout(q, signals', D)
      BY <2>8, <2>9, <2>10
    <3>2. \A f \in Facet : f \notin gone => SameAbout(q, signals', FacetOf(m, f))
      BY <2>8, <2>9, <2>10
    <3>3. Presence(m) \subseteq News(m)
      BY DEF News
    <3>. QED BY <2>10, <3>1, <3>2, <3>3
  <2>12. /\ PresenceAhead(m)' /\ PresenceKnown(m)' /\ AnnouncementFresh(m)'
         /\ ArrivalFresh(m)' /\ (Settled(m)' <=> Settled(m))
    <3>1. /\ ofono'[m] = ofono[m] /\ arriving'[m] = arriving[m]
          /\ UNCHANGED <<context, missed>>
          /\ Head(signals) \notin Presence(m)
          /\ SameAbout(Tail(signals), signals', Presence(m))
      BY <1>1, <1>3, <2>11 DEF q, s
    <3>2. /\ \A t \in Presence(m) :
               Final(Tail(signals), News(m), t) => Final(signals', News(m), t)
          /\ NoneIn(Tail(signals), News(m)) => NoneIn(signals', News(m))
      BY <2>8, <2>9, <2>10 DEF q
    <3>. QED BY <1>0, <1>2, <2>7, <3>1, <3>2, ChangeTold
  <2>13. ViewCurrent(m)'
    <3>1. SameAbout(signals, signals', ValueOf(m))
      BY <1>3, <1>4, <2>11, SameTransitive
    <3>. QED BY <1>1, <1>2, <2>7, <2>12, <3>1 DEF CurrentOf, ViewCurrent, SameAbout
  <2>14. KnownCurrent(m)'
    <3>1. /\ \A t \in Signal : Final(signals', IfacesOf(m), t) => Final(signals, IfacesOf(m), t)
          /\ NoneIn(signals', IfacesOf(m)) => Final(signals, IfacesOf(m), s)
      BY <1>0, <1>2, <1>3, <2>11, LeftOver DEF SameAbout, q, s
    <3>. QED BY <1>1, <1>2, <1>3, <2>7, <2>12, <3>1 DEF CurrentOf, KnownCurrent, told
  <2>15. ASSUME NEW f \in Facet, Settled(m)', obj'[m].phase = "present", Kept(m, f)'
         PROVE  /\ \A t \in Signal : Final(signals', FacetOf(m, f), t) => t.value = ofono[m].facet[f]
                /\ NoneIn(signals', FacetOf(m, f)) => obj'[m].data[f] = ofono[m].facet[f]
    <3>1. d[f] # None /\ f \in told /\ s \notin Without(m, f) /\ NoneIn(signals', Without(m, f))
      BY <1>3, <2>3, <2>7, <2>15 DEF Kept, HasData
    <3>2. CASE f \in new \ bad
      <4>1. ~HasData(obj[m], f)
        BY <2>5, <3>2 DEF ObjectOK, new, x
      <4>2. NoneIn(signals, FacetOf(m, f))
        BY <4>1, NoFacetSignals
      <4>3. NoneIn(signals', FacetOf(m, f))
        BY <1>0, <1>2, <2>8, <4>2, LeftOver DEF q
      <4>4. \A t : ~Final(signals', FacetOf(m, f), t)
        BY <4>3, SomeSignal
      <4>. QED BY <2>3, <2>7, <3>2, <4>4
    <3>3. CASE f \notin new \ bad
      <4>1. f \notin gone /\ d[f] = obj[m].data[f] /\ HasData(obj[m], f)
        BY <2>3, <3>1, <3>3 DEF HasData
      <4>2. /\ SameAbout(signals, signals', Without(m, f))
            /\ SameAbout(signals, signals', FacetOf(m, f))
        BY <1>3, <1>4, <2>11, <3>1, <4>1, SameTransitive
      <4>3. Kept(m, f)
        BY <3>1, <4>1, <4>2 DEF Kept, SameAbout
      <4>4. Settled(m) /\ obj[m].phase = "present"
        BY <1>5, <2>12, <2>15
      <4>5. /\ \A t \in Signal : Final(signals, FacetOf(m, f), t) => t.value = ofono[m].facet[f]
            /\ NoneIn(signals, FacetOf(m, f)) => obj[m].data[f] = ofono[m].facet[f]
        BY <1>2, <4>3, <4>4 DEF CurrentOf, DataCurrent
      <4>. QED BY <2>7, <4>1, <4>2, <4>5 DEF SameAbout
    <3>. QED BY <3>2, <3>3
  <2>16. ASSUME NEW f \in Facet PROVE DataCurrent(m, f)'
    BY <1>1, <2>15 DEF DataCurrent
  <2>17. CurrentOf(m)'
    BY <2>12, <2>13, <2>14, <2>16 DEF CurrentOf
  <2>18. \A D : D \subseteq Signal /\ D \cap About(m) = {} => SameAbout(signals, signals', D)
    <3>1. Head(signals) \in About(m) /\ signals' = Unsubscribed(Tail(signals), m, gone, self)
      BY <1>3, <2>1 DEF s, q
    <3>. QED BY <1>0, <1>2, <2>2, <3>1, UnsubscribedOthers
  <2>19. \A n \in Modem \ {m} : /\ ofono'[n] = ofono[n] /\ obj'[n] = obj[n]
                                /\ arriving'[n] = arriving[n]
                                /\ n \in missed' <=> n \in missed
    BY <1>1, <2>7
  <2>. QED BY <1>1, <2>17, <2>18, <2>19, CurrentOne
<1>6. CASE obj[m].phase # "present"
  <2>1. signals' = Tail(signals) /\ obj' = obj
    BY <1>00, <1>6 DEF InterfacesTold
  <2>2. /\ ofono'[m] = ofono[m] /\ arriving'[m] = arriving[m]
        /\ UNCHANGED <<context, missed>> /\ obj'[m].phase = obj[m].phase
        /\ SameAbout(Tail(signals), signals', Presence(m))
        /\ \A t \in Presence(m) :
             Final(Tail(signals), News(m), t) => Final(signals', News(m), t)
        /\ NoneIn(Tail(signals), News(m)) => NoneIn(signals', News(m))
    BY <1>1, <2>1, SameReflexive
  <2>3. /\ PresenceAhead(m)' /\ PresenceKnown(m)' /\ AnnouncementFresh(m)' /\ ArrivalFresh(m)'
    BY <1>0, <1>2, <1>3, <2>2, ChangeTold
  <2>4. CurrentOf(m)'
    BY <1>6, <2>1, <2>3 DEF CurrentOf, ViewCurrent, KnownCurrent, DataCurrent
  <2>5. \A D : D \subseteq Signal /\ D \cap About(m) = {} => SameAbout(signals, signals', D)
    BY <1>3, <1>4, <2>1
  <2>6. \A n \in Modem \ {m} : /\ ofono'[n] = ofono[n] /\ obj'[n] = obj[n]
                               /\ arriving'[n] = arriving[n]
                               /\ n \in missed' <=> n \in missed
    BY <1>1, <2>1
  <2>. QED BY <1>1, <2>4, <2>5, <2>6, CurrentOne
<1>. QED BY <1>5, <1>6

LEMMA NextCurrent ==
  ASSUME Alive, Current, [Next]_vars
  PROVE  Current'
<1>1. Alive'
  BY NextAlive
<1>2. CASE UNCHANGED vars
  BY <1>2, SameCurrent DEF vars
<1>3. ASSUME NEW m \in Modem, ModemAppears(m) PROVE Current'
  BY <1>1, <1>3, ModemAppearsCurrent
<1>4. ASSUME NEW m \in Modem, ModemVanishes(m) PROVE Current'
  BY <1>1, <1>4, ModemVanishesCurrent
<1>5. ASSUME NEW m \in Modem, ValueChanges(m) PROVE Current'
  BY <1>5, ValueChangesCurrent
<1>6. ASSUME NEW m \in Modem, NEW f \in Facet, InterfaceChanges(m, f) PROVE Current'
  BY <1>6, InterfaceChangesCurrent
<1>7. ASSUME NEW m \in Modem, NEW f \in Facet, FacetChanges(m, f) PROVE Current'
  BY <1>7, FacetChangesCurrent
<1>8. ASSUME NEW k \in Kind, Open(k) PROVE Current'
  BY <1>8, OpenCurrent
<1>9. ASSUME GetModemsFails \/ ProcessDies \/ \E k \in Kind : CloseLast(k) PROVE Current'
  <2>1. context' = "none"
    BY <1>9 DEF GetModemsFails, ProcessDies, CloseLast
  <2>. QED BY <1>1, <2>1, NotOpen
<1>10. ASSUME NEW k \in Kind, Register(k) \/ Close(k) PROVE Current'
  BY <1>10, SameCurrent DEF Register, Close
<1>11. ASSUME NEW m \in Modem, NEW k \in Kind, IdleNotify(m, k) PROVE Current'
  BY <1>11, SameCurrent DEF IdleNotify
<1>12. ASSUME NEW m \in Modem, Replaced(m) PROVE Current'
  BY <1>12, ReplacedCurrent
<1>13. ASSUME NEW m \in Modem, ModemFinalized(m) PROVE Current'
  BY <1>13, ModemFinalizedCurrent
<1>14. ASSUME NEW m \in Modem, CodeVerified(m) PROVE Current'
  BY <1>14, CodeVerifiedCurrent
<1>. QED
  BY <1>2, <1>3, <1>4, <1>5, <1>6, <1>7, <1>8, <1>9, <1>10, <1>11, <1>12, <1>13, <1>14,
     GetModemsCurrent, OpenedCurrent, ModemAddedCurrent, ModemReplacedCurrent,
     ModemRemovedCurrent, ValueToldCurrent, InterfacesToldCurrent, FacetToldCurrent DEF Next
-----------------------------------------------------------------------------
IInv == Alive /\ Heard /\ Current

(* Every reachable state satisfies the inductive invariant. *)
THEOREM Invariance == Spec => []IInv
<1>1. Init => IInv
  BY InitAlive, InitHeard, InitCurrent DEF IInv
<1>2. IInv /\ [Next]_vars => IInv'
  BY NextAlive, NextHeard, NextCurrent DEF IInv
<1>. QED BY <1>1, <1>2, PTL DEF Spec

(* Every variable has its type, and no modem that is not in the table      *)
(* keeps any data.                                                         *)
THEOREM TypeCorrect == Spec => []TypeOK
<1>1. IInv => TypeOK
  BY TypesIsTypeOK DEF IInv, Alive
<1>. QED BY <1>1, Invariance, PTL

(* Whatever is removed, replaced or closed takes its sources of the main   *)
(* loop and the subscriptions of its proxies along.                        *)
THEOREM SourcesCorrect == Spec => []SourcesAreAlive
<1>1. IInv => SourcesAreAlive
  BY AliveIsSourcesAreAlive DEF IInv, Alive
<1>. QED BY <1>1, Invariance, PTL

(* When no source of the main loop is left for an object, its callbacks    *)
(* have been told what the library has of it, or that it is gone.          *)
THEOREM HeardCorrect == Spec => []QuietMeansHeard
<1>1. IInv => QuietMeansHeard
  BY HeardIsQuietMeansHeard DEF IInv, Alive
<1>. QED BY <1>1, Invariance, PTL

(* When no signal is under way, the table has the modems that oFono has,   *)
(* and for each of them the state, interfaces and facets oFono has, but    *)
(* for modems that changed between being announced and being added.        *)
THEOREM CurrentCorrect == Spec => []QuietMeansCurrent
<1>1. IInv => QuietMeansCurrent
  BY CurrentIsQuietMeansCurrent DEF IInv, Alive
<1>. QED BY <1>1, Invariance, PTL
=============================================================================
