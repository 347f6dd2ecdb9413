------------------------ MODULE ContractPipeline_proofs ------------------------
(***************************************************************************)
(* Freezing a service succeeds with every operation in its place or fails  *)
(* for good, its contract can be read back, the names of a client are      *)
(* distinct, and a generation that ends has written what it rendered, for  *)
(* any channels, declarations, mounts, types, options and documents.       *)
(***************************************************************************)
EXTENDS ContractPipeline, FiniteSetTheorems, SequenceTheorems, WellFoundedInduction,
        TLAPS

\* Induction on the natural numbers, for a set instead of a predicate
LEMMA NatInd ==
    ASSUME NEW S, 0 \in S, \A n \in Nat : n \in S => n + 1 \in S
    PROVE  \A n \in Nat : n \in S
<1> DEFINE R == {p \in Nat \X Nat : p[1] < p[2]}
           T == Nat \ S
<1> SUFFICES ASSUME T # {} PROVE FALSE
  OBVIOUS
<1>1. IsWellFoundedOn(R, Nat)
  BY NatLessThanWellFounded DEF OpToRel
<1>2. PICK x \in T : \A y \in T : <<y, x>> \notin R
  <2>1. T \subseteq Nat
    OBVIOUS
  <2> HIDE DEF R, T
  <2> QED BY <1>1, <2>1, WFMin
<1>3. x \in Nat /\ x # 0
  OBVIOUS
<1>4. x - 1 \in Nat /\ x - 1 + 1 = x /\ x - 1 < x
  BY <1>3
<1>5. x - 1 \notin T
  BY <1>2, <1>3, <1>4
<1> QED BY <1>4, <1>5

\* The least of some natural numbers
LEMMA MinOfNaturals ==
    ASSUME NEW S \in SUBSET Nat, S # {}
    PROVE  Min(S) \in S /\ \A y \in S : Min(S) <= y
<1> DEFINE R == {p \in Nat \X Nat : p[1] < p[2]}
<1>1. IsWellFoundedOn(R, Nat)
  BY NatLessThanWellFounded DEF OpToRel
<1>2. PICK x \in S : \A y \in S : <<y, x>> \notin R
  <2> HIDE DEF R
  <2> QED BY <1>1, WFMin
<1>3. ASSUME NEW y \in S PROVE x <= y
  <2>1. x \in Nat /\ y \in Nat /\ <<y, x>> \notin R
    BY <1>2
  <2>2. ~(y < x)
    BY <2>1
  <2> QED BY <2>1, <2>2
<1> QED BY <1>3 DEF Min

(***************************************************************************)
(* Freezing a channel                                                      *)
(***************************************************************************)

\* The run over the children of a channel, and the body of ChannelFreeze, with the
\* recursive function as a parameter
IsRun(F, g, ks, st) ==
    g = [n \in 0..Len(ks) |-> IF n = 0 THEN st ELSE F[ks[n]][g[n - 1]]]

\* The definitions of a channel, and those its protocol gets
Own(c) == {d \in declared : d.ch = c}
Ops(c, after) == Own(c) \cup UNION {after.of[k].ops : k \in ToSet(children[c])}

FrozenAs(c, st, after) ==
    IF ~st.ok \/ st.of[c].frozen THEN st
    ELSE IF \E d \in Own(c) : ~Sound(d) THEN [st EXCEPT !.ok = FALSE]
    ELSE IF ~after.ok \/ Clashes(Ops(c, after)) THEN [after EXCEPT !.ok = FALSE]
    ELSE [after EXCEPT !.of[c] = Frozen(Ops(c, after))]

Run(F, ks, st) == CHOOSE g : IsRun(F, g, ks, st)
Body(F, c, st) == FrozenAs(c, st, Run(F, children[c], st)[Len(children[c])])

\* A recursive function on some channels
Freezes(F, D) == \A k \in D, s \in FreezeState : F[k][s] \in FreezeState

\* Freezing the children of a channel one after the other has an outcome.
LEMMA RunExists ==
    ASSUME NEW F, NEW D, Freezes(F, D), NEW ks \in Seq(D), NEW st \in FreezeState
    PROVE  \E g \in [0..Len(ks) -> FreezeState] : IsRun(F, g, ks, st)
<1> DEFINE Upto(g, k) == /\ g \in [0..k -> FreezeState]
                         /\ g = [n \in 0..k |-> IF n = 0 THEN st ELSE F[ks[n]][g[n - 1]]]
           S == {k \in Nat : k <= Len(ks) => \E g : Upto(g, k)}
<1>1. 0 \in S
  <2> DEFINE g == [n \in 0..0 |-> st]
  <2>1. Upto(g, 0)
    OBVIOUS
  <2> QED BY <2>1
<1>2. ASSUME NEW k \in Nat, k \in S PROVE k + 1 \in S
  <2> HIDE DEF Upto
  <2> SUFFICES ASSUME k + 1 <= Len(ks) PROVE \E h : Upto(h, k + 1)
    OBVIOUS
  <2> USE DEF Upto
  <2>1. PICK g : Upto(g, k)
    BY <1>2
  <2>2. ks[k + 1] \in D
    BY ElementOfSeq
  <2>3. g[k] \in FreezeState
    BY <2>1
  <2>4. F[ks[k + 1]][g[k]] \in FreezeState
    BY <2>2, <2>3 DEF Freezes
  <2> DEFINE h == [n \in 0..(k + 1) |-> IF n = k + 1 THEN F[ks[k + 1]][g[k]] ELSE g[n]]
  <2>5. ASSUME NEW n \in 0..(k + 1)
        PROVE  h[n] = IF n = 0 THEN st ELSE F[ks[n]][h[n - 1]]
    <3>1. CASE n = k + 1
      BY <3>1
    <3>2. CASE n # k + 1
      <4>1. n \in 0..k /\ (n # 0 => n - 1 \in 0..k)
        BY <3>2
      <4>2. g[n] = IF n = 0 THEN st ELSE F[ks[n]][g[n - 1]]
        BY <2>1, <4>1
      <4> QED BY <3>2, <4>1, <4>2
    <3> HIDE DEF h, Upto
    <3> QED BY <3>1, <3>2
  <2>6. h \in [0..(k + 1) -> FreezeState]
    <3>1. \A n \in 0..(k + 1) : n # k + 1 => n \in 0..k
      OBVIOUS
    <3>2. \A n \in 0..(k + 1) :
              (IF n = k + 1 THEN F[ks[k + 1]][g[k]] ELSE g[n]) \in FreezeState
      BY <2>1, <2>4, <3>1
    <3> QED BY <3>2
  <2>7. Upto(h, k + 1)
    BY <2>5, <2>6
  <2> QED BY <2>7
<1>3. Len(ks) \in Nat
  BY LenProperties
<1>4. Len(ks) \in S
  <2> HIDE DEF S
  <2> QED BY <1>1, <1>2, <1>3, NatInd
<1> QED BY <1>3, <1>4 DEF IsRun

\* ... and only one, which depends on the function at those children alone.
LEMMA RunUnique ==
    ASSUME NEW F, NEW H, NEW D, Freezes(F, D), NEW ks \in Seq(D), NEW st \in FreezeState,
           \A k \in D, s \in FreezeState : F[k][s] = H[k][s],
           NEW g \in [0..Len(ks) -> FreezeState], IsRun(F, g, ks, st),
           NEW h, IsRun(H, h, ks, st)
    PROVE  g = h
<1> DEFINE S == {k \in Nat : k <= Len(ks) => g[k] = h[k]}
<1>0. Len(ks) \in Nat
  BY LenProperties
<1>1. 0 \in S
  BY <1>0 DEF IsRun
<1>2. ASSUME NEW k \in Nat, k \in S PROVE k + 1 \in S
  <2> SUFFICES ASSUME k + 1 <= Len(ks) PROVE g[k + 1] = h[k + 1]
    OBVIOUS
  <2>1. ks[k + 1] \in D /\ g[k] = h[k] /\ g[k] \in FreezeState
    BY <1>2, <1>0, ElementOfSeq
  <2>2. g[k + 1] = F[ks[k + 1]][g[k]] /\ h[k + 1] = H[ks[k + 1]][h[k]]
    <3>1. k + 1 \in 0..Len(ks) /\ k + 1 # 0 /\ k + 1 - 1 = k
      BY <1>0
    <3>2. /\ g = [n \in 0..Len(ks) |-> IF n = 0 THEN st ELSE F[ks[n]][g[n - 1]]]
          /\ h = [n \in 0..Len(ks) |-> IF n = 0 THEN st ELSE H[ks[n]][h[n - 1]]]
      BY DEF IsRun
    <3>3. g[k + 1] = F[ks[k + 1]][g[k]]
      BY <3>1, <3>2
    <3>4. h[k + 1] = H[ks[k + 1]][h[k]]
      BY <3>1, <3>2
    <3> QED BY <3>3, <3>4
  <2> QED BY <2>1, <2>2
<1>3. \A k \in 0..Len(ks) : g[k] = h[k]
  <2> HIDE DEF S
  <2>1. \A k \in Nat : k \in S
    BY <1>1, <1>2, NatInd
  <2> QED BY <2>1, <1>0 DEF S
<1> QED BY <1>3 DEF IsRun

\* What the run over the children is, for two functions that agree on them
LEMMA RunAgrees ==
    ASSUME NEW F, NEW H, NEW D, Freezes(F, D), NEW ks \in Seq(D), NEW st \in FreezeState,
           \A k \in D, s \in FreezeState : F[k][s] = H[k][s]
    PROVE  /\ Run(F, ks, st) = Run(H, ks, st)
           /\ Run(F, ks, st) \in [0..Len(ks) -> FreezeState]
           /\ IsRun(F, Run(F, ks, st), ks, st)
<1>1. PICK g \in [0..Len(ks) -> FreezeState] : IsRun(F, g, ks, st)
  BY RunExists
<1>2. Freezes(H, D) /\ \A k \in D, s \in FreezeState : H[k][s] = F[k][s]
  BY DEF Freezes
<1>3. PICK h \in [0..Len(ks) -> FreezeState] : IsRun(H, h, ks, st)
  BY <1>2, RunExists
<1>4. IsRun(F, Run(F, ks, st), ks, st)
  BY <1>1 DEF Run
<1>5. IsRun(H, Run(H, ks, st), ks, st)
  BY <1>3 DEF Run
<1>6. g = Run(F, ks, st)
  BY <1>1, <1>4, RunUnique
<1>7. g = Run(H, ks, st)
  BY <1>1, <1>5, RunUnique
<1> QED BY <1>1, <1>4, <1>6, <1>7

\* The parts of the type invariant that freezing depends on
TreeOK ==
    /\ children \in [Channels -> Seq(Channels)]
    /\ \A c \in Channels : \A k \in ToSet(children[c]) : Parent[k] = c
    /\ declared \subseteq Decls

\* A channel that has been frozen, or has failed to be, is in a state of the freezing.
LEMMA FrozenAsType ==
    ASSUME TreeOK, NEW c \in Channels, NEW st \in FreezeState, NEW after \in FreezeState
    PROVE  FrozenAs(c, st, after) \in FreezeState
<1>1. [st EXCEPT !.ok = FALSE] \in FreezeState /\ [after EXCEPT !.ok = FALSE] \in FreezeState
  BY DEF FreezeState
<1>2. Ops(c, after) \in SUBSET Decls
  <2>1. \A k \in ToSet(children[c]) : k \in Channels
    BY DEF TreeOK, ToSet
  <2>2. \A k \in Channels : after.of[k].ops \subseteq Decls
    BY DEF FreezeState, Protocols
  <2> QED BY <2>1, <2>2 DEF Ops, Own, TreeOK
<1>3. [after EXCEPT !.of[c] = Frozen(Ops(c, after))] \in FreezeState
  <2> DEFINE f == Frozen(Ops(c, after))
  <2>1. f \in [frozen : BOOLEAN, ops : SUBSET Decls]
    BY <1>2 DEF Frozen
  <2> HIDE DEF f
  <2>2. [after.of EXCEPT ![c] = f] \in Protocols
    BY <2>1 DEF FreezeState, Protocols
  <2>3. [after EXCEPT !.of = [after.of EXCEPT ![c] = f]] \in FreezeState
    BY <2>2 DEF FreezeState
  <2> QED BY <2>3 DEF f
<1> QED BY <1>1, <1>3 DEF FrozenAs

\* The body of ChannelFreeze depends on the function at the children alone.
LEMMA BodyAgrees ==
    ASSUME TreeOK, NEW F, NEW H, NEW D, Freezes(F, D), NEW c \in Channels,
           \A k \in ToSet(children[c]) : k \in D,
           NEW st \in FreezeState, \A k \in D, s \in FreezeState : F[k][s] = H[k][s]
    PROVE  Body(F, c, st) = Body(H, c, st) /\ Body(F, c, st) \in FreezeState
<1>1. children[c] \in Seq(D)
  <2>1. children[c] \in Seq(Channels)
    BY DEF TreeOK
  <2>2. \A i \in 1..Len(children[c]) : children[c][i] \in D
    BY <2>1 DEF ToSet
  <2>3. /\ Len(children[c]) \in Nat
        /\ children[c] = [i \in 1..Len(children[c]) |-> children[c][i]]
    BY <2>1
  <2> HIDE DEF TreeOK
  <2>4. [i \in 1..Len(children[c]) |-> children[c][i]] \in Seq(D)
    BY <2>2, <2>3, IsASeq
  <2> QED BY <2>3, <2>4
<1>2. /\ Run(F, children[c], st) = Run(H, children[c], st)
      /\ Run(F, children[c], st) \in [0..Len(children[c]) -> FreezeState]
  BY <1>1, RunAgrees
<1>3. Len(children[c]) \in 0..Len(children[c])
  BY <1>1, LenProperties
<1>4. Run(F, children[c], st)[Len(children[c])] \in FreezeState
  BY <1>2, <1>3
<1> QED BY <1>2, <1>4, FrozenAsType DEF Body

\* A longest namespace
LEMMA Deepest == \E top \in Nat : \A c \in Channels : Len(Namespace[c]) <= top
<1>1. PICK n \in Nat : ExistsSurjection(1..n, Channels)
  BY FS_NatSurjection, DefinitionAssumption
<1>2. PICK f \in Surjection(1..n, Channels) : TRUE
  BY <1>1 DEF ExistsSurjection
<1>3. f \in [1..n -> Channels] /\ \A c \in Channels : \E i \in 1..n : f[i] = c
  BY <1>2 DEF Surjection
<1> DEFINE S == {k \in Nat : k <= n =>
                    \E top \in Nat : \A i \in 1..k : Len(Namespace[f[i]]) <= top}
<1>4. 0 \in S
  OBVIOUS
<1>5. ASSUME NEW k \in Nat, k \in S PROVE k + 1 \in S
  <2> SUFFICES ASSUME k + 1 <= n
               PROVE  \E top \in Nat : \A i \in 1..(k + 1) : Len(Namespace[f[i]]) <= top
    OBVIOUS
  <2>1. PICK top \in Nat : \A i \in 1..k : Len(Namespace[f[i]]) <= top
    BY <1>5
  <2>2. \A c \in Channels : Len(Namespace[c]) \in Nat
    BY DefinitionAssumption, LenProperties
  <2>3. \A i \in 1..(k + 1) : Len(Namespace[f[i]]) \in Nat
    BY <1>3, <2>2
  <2>4. k + 1 \in 1..(k + 1)
    OBVIOUS
  <2> DEFINE new == IF top <= Len(Namespace[f[k + 1]]) THEN Len(Namespace[f[k + 1]]) ELSE top
  <2>5. new \in Nat /\ \A i \in 1..(k + 1) : Len(Namespace[f[i]]) <= new
    <3>1. new \in Nat /\ top <= new /\ Len(Namespace[f[k + 1]]) <= new
      BY <2>3, <2>4
    <3> HIDE DEF new
    <3>2. ASSUME NEW i \in 1..(k + 1) PROVE Len(Namespace[f[i]]) <= new
      <4>1. CASE i = k + 1
        BY <4>1, <3>1
      <4>2. CASE i \in 1..k
        <5>1. Len(Namespace[f[i]]) \in Nat
          BY <2>3
        <5>2. Len(Namespace[f[i]]) <= top
          BY <4>2, <2>1
        <5> QED BY <3>1, <5>1, <5>2
      <4> QED BY <4>1, <4>2
    <3> QED BY <3>1, <3>2
  <2> QED BY <2>5
<1>6. n \in S
  <2> HIDE DEF S
  <2> QED BY <1>4, <1>5, NatInd
<1>7. PICK top \in Nat : \A i \in 1..n : Len(Namespace[f[i]]) <= top
  BY <1>6
<1> QED BY <1>3, <1>7

\* The channels whose names are at most k segments shorter than the longest ones
Deep(top, k) == {c \in Channels : Len(Namespace[c]) + k > top}

\* Arithmetic of lengths
LEMMA Lengths ==
    /\ \A x, top \in Nat : x <= top => ~(x + 0 > top)
    /\ \A x, k, top \in Nat : x + k > top => x + (k + 1) > top
    /\ \A x, y, k, top \in Nat :
           x + (k + 1) > top /\ x <= y /\ x # y => y + k > top
OBVIOUS

\* Children have longer names than their parents.
LEMMA ChildDeeper ==
    ASSUME TreeOK, NEW c \in Channels, NEW q \in ToSet(children[c])
    PROVE  /\ q \in Channels /\ Len(Namespace[c]) \in Nat /\ Len(Namespace[q]) \in Nat
           /\ Len(Namespace[c]) <= Len(Namespace[q]) /\ Len(Namespace[c]) # Len(Namespace[q])
<1>1. q \in Channels /\ Parent[q] = c
  BY DEF TreeOK, ToSet
<1>2. Parent[q] # NoChannel
  BY <1>1, DefinitionAssumption
<1>3. Namespace[c] \in Seq(STRING) /\ Namespace[q] \in Seq(STRING)
  BY <1>1, DefinitionAssumption
<1>4. IsStrictPrefix(Namespace[c], Namespace[q])
  BY <1>1, <1>2, DefinitionAssumption
<1>5. /\ Len(Namespace[c]) <= Len(Namespace[q]) /\ Namespace[c] # Namespace[q]
      /\ SubSeq(Namespace[c], 1, Len(Namespace[c]))
           = SubSeq(Namespace[q], 1, Len(Namespace[c]))
  BY <1>4 DEF IsStrictPrefix, IsPrefix
<1>6. Len(Namespace[c]) # Len(Namespace[q])
  BY <1>5, <1>3, SubSeqFull
<1> QED BY <1>1, <1>3, <1>5, <1>6, LenProperties

\* All channels are deep enough in the end, and children before their parents.
LEMMA DeepFacts ==
    ASSUME TreeOK, NEW top \in Nat, \A c \in Channels : Len(Namespace[c]) <= top
    PROVE  /\ Deep(top, 0) = {} /\ Deep(top, top + 1) = Channels
           /\ \A k \in Nat : /\ Deep(top, k) \subseteq Deep(top, k + 1)
                             /\ Deep(top, k + 1) \subseteq Channels
           /\ \A k \in Nat : \A c \in Deep(top, k + 1) :
                 \A q \in ToSet(children[c]) : q \in Deep(top, k)
<1>1. \A c \in Channels : Len(Namespace[c]) \in Nat
  BY DefinitionAssumption, LenProperties
<1>2. Deep(top, 0) = {}
  <2> SUFFICES ASSUME NEW c \in Channels, Len(Namespace[c]) + 0 > top PROVE FALSE
    BY DEF Deep
  <2> DEFINE x == Len(Namespace[c])
  <2>1. x \in Nat /\ x <= top /\ x + 0 > top
    BY <1>1
  <2> HIDE DEF x
  <2> QED BY <2>1
<1>3. Deep(top, top + 1) = Channels
  <2> SUFFICES ASSUME NEW c \in Channels PROVE Len(Namespace[c]) + (top + 1) > top
    BY DEF Deep
  <2> DEFINE x == Len(Namespace[c])
  <2>1. x \in Nat
    BY <1>1
  <2> HIDE DEF x
  <2>2. x + (top + 1) > top
    BY <2>1
  <2> QED BY <2>2 DEF x
<1>4. ASSUME NEW k \in Nat, NEW c \in Deep(top, k) PROVE c \in Deep(top, k + 1)
  <2>1. c \in Channels /\ Len(Namespace[c]) + k > top
    BY DEF Deep
  <2>2. Len(Namespace[c]) \in Nat
    BY <2>1, <1>1
  <2>3. Len(Namespace[c]) + (k + 1) > top
    BY <2>1, <2>2, Lengths
  <2> QED BY <2>1, <2>3 DEF Deep
<1>5. ASSUME NEW k \in Nat, NEW c \in Deep(top, k + 1), NEW q \in ToSet(children[c])
      PROVE  q \in Deep(top, k)
  <2>1. c \in Channels /\ Len(Namespace[c]) + (k + 1) > top
    BY DEF Deep
  <2>2. /\ q \in Channels /\ Len(Namespace[c]) \in Nat /\ Len(Namespace[q]) \in Nat
        /\ Len(Namespace[c]) <= Len(Namespace[q]) /\ Len(Namespace[c]) # Len(Namespace[q])
    BY <2>1, ChildDeeper
  <2>3. Len(Namespace[q]) + k > top
    BY <2>1, <2>2, Lengths
  <2> QED BY <2>2, <2>3 DEF Deep
<1>6. \A k \in Nat : Deep(top, k + 1) \subseteq Channels
  BY DEF Deep
<1> QED BY <1>2, <1>3, <1>4, <1>5, <1>6

\* A function that freezes the channels of D as ChannelFreeze does
Recursion(F, D) == F = [c \in D |-> [st \in FreezeState |-> Body(F, c, st)]]

\* The recursion of RpcChannel.freeze ends: some function has its equations.
LEMMA RecursionExists ==
    ASSUME TreeOK
    PROVE  \E F : Recursion(F, Channels)
<1>1. PICK top \in Nat : \A c \in Channels : Len(Namespace[c]) <= top
  BY Deepest
<1> DEFINE S == {k \in Nat :
                    \E F : Recursion(F, Deep(top, k)) /\ Freezes(F, Deep(top, k))}
<1>2. 0 \in S
  <2> DEFINE F == [c \in {} |-> 0]
  <2>1. Recursion(F, {}) /\ Freezes(F, {})
    BY DEF Recursion, Freezes
  <2>2. Deep(top, 0) = {}
    BY <1>1, DeepFacts
  <2> QED BY <2>1, <2>2
<1>3. ASSUME NEW k \in Nat, k \in S PROVE k + 1 \in S
  <2> DEFINE D == Deep(top, k)
             E == Deep(top, k + 1)
  <2>1. PICK F : Recursion(F, D) /\ Freezes(F, D)
    BY <1>3
  <2>2. /\ D \subseteq E /\ E \subseteq Channels
        /\ \A c \in E : \A q \in ToSet(children[c]) : q \in D
    BY <1>1, DeepFacts
  <2> HIDE DEF D, E
  <2> DEFINE H == [c \in E |-> IF c \in D THEN F[c]
                              ELSE [st \in FreezeState |-> Body(F, c, st)]]
  <2>3. \A c \in D : H[c] = F[c]
    BY <2>2
  <2>4. ASSUME NEW c \in E PROVE H[c] = [st \in FreezeState |-> Body(F, c, st)]
    <3>1. CASE c \in D
      <4>1. F[c] = [st \in FreezeState |-> Body(F, c, st)]
        BY <3>1, <2>1 DEF Recursion
      <4> QED BY <3>1, <2>3, <4>1
    <3>2. CASE c \notin D
      BY <3>2
    <3> QED BY <3>1, <3>2
  <2>5. H = [c \in E |-> H[c]]
    OBVIOUS
  <2> HIDE DEF H
  <2>6. ASSUME NEW c \in E, NEW st \in FreezeState
        PROVE  Body(F, c, st) = Body(H, c, st) /\ Body(F, c, st) \in FreezeState
    <3>1. \A q \in D, s \in FreezeState : F[q][s] = H[q][s]
      BY <2>3
    <3> QED BY <2>1, <2>2, <3>1, BodyAgrees
  <2>7. Recursion(H, E)
    <3>1. \A c \in E : H[c] = [st \in FreezeState |-> Body(H, c, st)]
      BY <2>4, <2>6
    <3> QED BY <3>1, <2>5 DEF Recursion
  <2>8. Freezes(H, E)
    BY <2>4, <2>6 DEF Freezes
  <2> QED BY <2>7, <2>8 DEF E
<1>4. top + 1 \in S
  <2> HIDE DEF S
  <2> QED BY <1>2, <1>3, NatInd
<1>5. Deep(top, top + 1) = Channels
  BY <1>1, DeepFacts
<1> QED BY <1>4, <1>5

\* ... and it yields states of the freezing.
LEMMA RecursionFreezes ==
    ASSUME TreeOK, NEW F, Recursion(F, Channels)
    PROVE  Freezes(F, Channels)
<1>1. PICK top \in Nat : \A c \in Channels : Len(Namespace[c]) <= top
  BY Deepest
<1> DEFINE S == {k \in Nat : Freezes(F, Deep(top, k))}
<1>2. 0 \in S
  <2>1. Deep(top, 0) = {}
    BY <1>1, DeepFacts
  <2> QED BY <2>1 DEF Freezes
<1>3. ASSUME NEW k \in Nat, k \in S PROVE k + 1 \in S
  <2> SUFFICES ASSUME NEW c \in Deep(top, k + 1), NEW st \in FreezeState
               PROVE  F[c][st] \in FreezeState
    BY DEF Freezes
  <2>1. c \in Channels /\ \A q \in ToSet(children[c]) : q \in Deep(top, k)
    BY <1>1, DeepFacts
  <2>2. Freezes(F, Deep(top, k))
    BY <1>3
  <2>3. Body(F, c, st) \in FreezeState
    BY <2>1, <2>2, BodyAgrees
  <2> QED BY <2>1, <2>3 DEF Recursion
<1>4. top + 1 \in S
  <2> HIDE DEF S
  <2> QED BY <1>2, <1>3, NatInd
<1>5. Deep(top, top + 1) = Channels
  BY <1>1, DeepFacts
<1> QED BY <1>4, <1>5

\* ChannelFreeze unfolds, and takes states of a freeze to states of a freeze.
LEMMA ChannelFreezeUnfolds ==
    ASSUME TreeOK
    PROVE  /\ Recursion(ChannelFreeze, Channels)
           /\ Freezes(ChannelFreeze, Channels)
<1>1. ChannelFreeze = CHOOSE F : Recursion(F, Channels)
  BY DEF ChannelFreeze, Recursion, Body, Run, IsRun, FrozenAs, Ops, Own
<1>2. PICK F : Recursion(F, Channels)
  BY RecursionExists
<1>3. Recursion(ChannelFreeze, Channels)
  BY <1>1, <1>2
<1> QED BY <1>3, RecursionFreezes

(***************************************************************************)
(* What freezing does to the protocols of the channels                     *)
(***************************************************************************)

\* A channel frozen now: its children are, and it holds what it and they declare.
Settled(k, of) ==
    /\ \A j \in ToSet(children[k]) : of[j].frozen /\ of[j].ops \subseteq of[k].ops
    /\ Own(k) \subseteq of[k].ops
    /\ \A d \in Own(k) : Sound(d)
    /\ ~Clashes(of[k].ops)

\* From a to b: frozen channels are left alone, and those frozen on the way are settled.
Progress(a, b) ==
    \A k \in Channels : /\ a[k].frozen \/ ~b[k].frozen => b[k] = a[k]
                        /\ b[k].frozen /\ ~a[k].frozen => Settled(k, b)

\* A channel that cannot be frozen any more
Hopeless(b, of) ==
    /\ b \in Channels /\ ~of[b].frozen
    /\ \/ \E d \in Own(b) : ~Sound(d)
       \/ Clashes(Own(b) \cup
                   UNION {of[j].ops : j \in {k \in ToSet(children[b]) : of[k].frozen}})

\* The channel and all below it
Subtree(c) ==
    {b \in Channels :
        \A T \in SUBSET Channels :
            c \in T /\ (\A k \in T : ToSet(children[k]) \subseteq T) => b \in T}

\* The children of a channel
LEMMA ChildrenAreChannels ==
    ASSUME TreeOK, NEW c \in Channels
    PROVE  /\ ToSet(children[c]) \subseteq Channels
           /\ children[c] \in Seq(Channels) /\ Len(children[c]) \in Nat
           /\ \A i \in 1..Len(children[c]) : children[c][i] \in ToSet(children[c])
           /\ \A k \in ToSet(children[c]) :
                  \E i \in 1..Len(children[c]) : children[c][i] = k
BY DEF TreeOK, ToSet

\* Doing nothing is progress.
LEMMA ProgressReflexive == \A a : Progress(a, a)
BY DEF Progress

\* Progress adds up.
LEMMA ProgressTransitive ==
    ASSUME TreeOK, NEW a \in Protocols, NEW b \in Protocols, NEW e \in Protocols,
           Progress(a, b), Progress(b, e)
    PROVE  Progress(a, e)
<1> SUFFICES ASSUME NEW k \in Channels
             PROVE  /\ a[k].frozen \/ ~e[k].frozen => e[k] = a[k]
                    /\ e[k].frozen /\ ~a[k].frozen => Settled(k, e)
  BY DEF Progress
<1>1. /\ a[k].frozen \/ ~b[k].frozen => b[k] = a[k]
      /\ b[k].frozen \/ ~e[k].frozen => e[k] = b[k]
  BY DEF Progress
<1>2. ASSUME e[k].frozen, ~a[k].frozen PROVE Settled(k, e)
  <2>1. CASE ~b[k].frozen
    BY <2>1, <1>2 DEF Progress
  <2>2. CASE b[k].frozen
    <3>1. Settled(k, b)
      BY <2>2, <1>2 DEF Progress
    <3>2. e[k] = b[k]
      BY <2>2, <1>1
    <3>3. \A j \in ToSet(children[k]) : e[j] = b[j]
      BY <3>1, ChildrenAreChannels DEF Settled, Progress
    <3> QED BY <3>1, <3>2, <3>3 DEF Settled
  <2> QED BY <2>1, <2>2
<1> QED BY <1>1, <1>2

\* What has made a freeze() fail is there for the next one.
LEMMA HopelessStays ==
    ASSUME TreeOK, NEW a \in Protocols, NEW e \in Protocols, Progress(a, e),
           NEW b, Hopeless(b, a)
    PROVE  Hopeless(b, e)
<1>1. b \in Channels /\ ~a[b].frozen
  BY DEF Hopeless
<1>2. \A j \in ToSet(children[b]) : a[j].frozen => e[j] = a[j]
  BY <1>1, ChildrenAreChannels DEF Progress
<1> DEFINE U == Own(b) \cup UNION {a[j].ops : j \in {k \in ToSet(children[b]) : a[k].frozen}}
           V == Own(b) \cup UNION {e[j].ops : j \in {k \in ToSet(children[b]) : e[k].frozen}}
<1>3. U \subseteq V
  BY <1>2
<1>4. ~e[b].frozen
  <2> SUFFICES ASSUME e[b].frozen PROVE FALSE
    OBVIOUS
  <2>1. Settled(b, e)
    BY <1>1 DEF Progress
  <2>2. V \subseteq e[b].ops
    BY <2>1 DEF Settled
  <2>3. Clashes(U) => Clashes(e[b].ops)
    BY <1>3, <2>2 DEF Clashes
  <2> QED BY <2>1, <2>3 DEF Settled, Hopeless
<1>5. Clashes(U) => Clashes(V)
  BY <1>3 DEF Clashes
<1> QED BY <1>1, <1>4, <1>5 DEF Hopeless

\* A channel and what is below it
LEMMA SubtreeFacts ==
    ASSUME TreeOK, NEW c \in Channels
    PROVE  /\ c \in Subtree(c)
           /\ \A k \in ToSet(children[c]) : Subtree(k) \subseteq Subtree(c)
BY ChildrenAreChannels DEF Subtree

\* The channels whose names are shorter than that of c are left alone.
Aside(c, a, b) ==
    \A k \in Channels : Len(Namespace[k]) < Len(Namespace[c]) => b[k] = a[k]

\* What ChannelFreeze makes of a state
Outcome(c, st, r) ==
    /\ r \in FreezeState /\ Progress(st.of, r.of) /\ Aside(c, st.of, r.of)
    /\ ~st.ok => r = st
    /\ r.ok => r.of[c].frozen
    /\ st.ok /\ ~r.ok => \E b \in Subtree(c) : Hopeless(b, r.of)

\* Freezing the children: they are frozen, or one of those below is hopeless.
LEMMA RunOutcome ==
    ASSUME TreeOK, NEW F, NEW c \in Channels, NEW st \in FreezeState,
           \A k \in ToSet(children[c]), s \in FreezeState : Outcome(k, s, F[k][s]),
           NEW g \in [0..Len(children[c]) -> FreezeState], IsRun(F, g, children[c], st)
    PROVE  LET r == g[Len(children[c])]
           IN  /\ r \in FreezeState /\ Progress(st.of, r.of)
               /\ Aside(c, st.of, r.of) /\ r.of[c] = st.of[c]
               /\ ~st.ok => r = st
               /\ r.ok => \A k \in ToSet(children[c]) : r.of[k].frozen
               /\ st.ok /\ ~r.ok => \E b \in Subtree(c) : Hopeless(b, r.of)
<1> DEFINE ks == children[c]
           P(n) == /\ g[n] \in FreezeState /\ Progress(st.of, g[n].of)
                   /\ Aside(c, st.of, g[n].of) /\ g[n].of[c] = st.of[c]
                   /\ ~st.ok => g[n] = st
                   /\ g[n].ok => \A i \in 1..n : g[n].of[ks[i]].frozen
                   /\ st.ok /\ ~g[n].ok => \E b \in Subtree(c) : Hopeless(b, g[n].of)
           S == {n \in Nat : n <= Len(ks) => P(n)}
<1>1. Len(ks) \in Nat /\ ks \in Seq(Channels)
  BY ChildrenAreChannels
<1>2. 0 \in S
  <2>1. g[0] = st
    BY <1>1 DEF IsRun
  <2> QED BY <2>1, ProgressReflexive DEF Aside
<1>3. ASSUME NEW n \in Nat, n \in S PROVE n + 1 \in S
  <2> SUFFICES ASSUME n + 1 <= Len(ks) PROVE P(n + 1)
    OBVIOUS
  <2> DEFINE k == ks[n + 1]
             a == g[n]
             b == g[n + 1]
  <2>1. k \in ToSet(ks) /\ k \in Channels
    <3>1. n + 1 \in 1..Len(ks)
      BY <1>1
    <3> QED BY <3>1, ChildrenAreChannels
  <2>2. b = F[k][a]
    <3>1. n + 1 \in 0..Len(ks) /\ n + 1 # 0 /\ (n + 1) - 1 = n
      BY <1>1
    <3>2. g[n + 1] = F[ks[n + 1]][g[(n + 1) - 1]]
      BY <3>1 DEF IsRun
    <3> QED BY <3>1, <3>2
  <2>3. P(n)
    BY <1>3, <1>1
  <2>4. Outcome(k, a, b)
    BY <2>1, <2>2, <2>3
  <2>5. /\ b \in FreezeState /\ a.of \in Protocols /\ b.of \in Protocols
        /\ st.of \in Protocols /\ Progress(a.of, b.of)
    BY <2>3, <2>4 DEF Outcome, FreezeState
  <2>6. Progress(st.of, b.of)
    BY <2>3, <2>5, ProgressTransitive
  <2>7. ~st.ok => b = st
    BY <2>3, <2>4 DEF Outcome
  <2>8. ASSUME b.ok, NEW i \in 1..(n + 1) PROVE b.of[ks[i]].frozen
    <3>1. a.ok
      BY <2>8, <2>4 DEF Outcome
    <3>2. CASE i = n + 1
      BY <3>2, <2>8, <2>4 DEF Outcome
    <3>3. CASE i \in 1..n
      <4>1. a.of[ks[i]].frozen
        BY <3>1, <3>3, <2>3
      <4>2. ks[i] \in Channels
        BY <3>3, <1>1
      <4> QED BY <4>1, <4>2, <2>5 DEF Progress
    <3> QED BY <3>2, <3>3
  <2>9. ASSUME st.ok, ~b.ok PROVE \E h \in Subtree(c) : Hopeless(h, b.of)
    <3>1. CASE ~a.ok
      <4>1. b = a
        BY <3>1, <2>4 DEF Outcome
      <4> QED BY <4>1, <3>1, <2>9, <2>3
    <3>2. CASE a.ok
      <4>1. \E h \in Subtree(k) : Hopeless(h, b.of)
        BY <3>2, <2>9, <2>4 DEF Outcome
      <4> QED BY <4>1, <2>1, SubtreeFacts
    <3> QED BY <3>1, <3>2
  <2>10. Aside(c, st.of, b.of) /\ b.of[c] = st.of[c]
    <3>1. ASSUME NEW j \in Channels, Len(Namespace[j]) < Len(Namespace[c]) \/ j = c
          PROVE  b.of[j] = a.of[j]
      <4> DEFINE x == Len(Namespace[j])
                 y == Len(Namespace[c])
                 z == Len(Namespace[k])
      <4>1. x \in Nat /\ y \in Nat /\ z \in Nat /\ y <= z /\ y # z
        BY <2>1, ChildDeeper, DefinitionAssumption, LenProperties
      <4>2. x < y \/ x = y
        BY <3>1
      <4>3. x < z
        <5> HIDE DEF x, y, z
        <5> QED BY <4>1, <4>2
      <4> QED BY <4>3, <2>4 DEF Outcome, Aside
    <3> QED BY <3>1, <2>3 DEF Aside
  <2> QED BY <2>5, <2>6, <2>7, <2>8, <2>9, <2>10
<1>4. P(Len(ks))
  <2>1. Len(ks) \in S
    <3> HIDE DEF S
    <3> QED BY <1>1, <1>2, <1>3, NatInd
  <2> QED BY <2>1, <1>1
<1> QED BY <1>4, <1>1, ChildrenAreChannels

\* Freezing the channel after its children: it is frozen, or it is hopeless.
LEMMA FrozenAsOutcome ==
    ASSUME TreeOK, NEW c \in Channels, NEW st \in FreezeState, NEW after \in FreezeState,
           Progress(st.of, after.of), ~st.ok => after = st,
           Aside(c, st.of, after.of), after.of[c] = st.of[c],
           after.ok => \A k \in ToSet(children[c]) : after.of[k].frozen,
           st.ok /\ ~after.ok => \E b \in Subtree(c) : Hopeless(b, after.of)
    PROVE  Outcome(c, st, FrozenAs(c, st, after))
<1> DEFINE r == FrozenAs(c, st, after)
           ops == Ops(c, after)
<1>0. r \in FreezeState /\ st.of \in Protocols /\ after.of \in Protocols
  BY FrozenAsType DEF FreezeState
<1>1. CASE ~st.ok \/ st.of[c].frozen
  <2>1. r = st
    BY <1>1 DEF FrozenAs
  <2> QED BY <2>1, <1>1, <1>0, ProgressReflexive DEF Outcome, Aside
<1>2. CASE st.ok /\ ~st.of[c].frozen /\ \E d \in Own(c) : ~Sound(d)
  <2>1. r = [st EXCEPT !.ok = FALSE]
    BY <1>2 DEF FrozenAs
  <2>2. r.of = st.of /\ r.ok = FALSE
    BY <2>1 DEF FreezeState
  <2>3. c \in Subtree(c) /\ Hopeless(c, r.of)
    BY <1>2, <2>2, SubtreeFacts DEF Hopeless
  <2> QED BY <2>2, <2>3, <1>2, <1>0, ProgressReflexive DEF Outcome, Aside
<1>3. ASSUME st.ok, ~st.of[c].frozen, \A d \in Own(c) : Sound(d), ~after.ok
      PROVE  Outcome(c, st, r)
  <2>1. r = [after EXCEPT !.ok = FALSE]
    BY <1>3 DEF FrozenAs
  <2>2. r.of = after.of /\ r.ok = FALSE
    BY <2>1 DEF FreezeState
  <2> QED BY <2>2, <1>3, <1>0 DEF Outcome
<1>4. ASSUME st.ok, ~st.of[c].frozen, \A d \in Own(c) : Sound(d), after.ok
      PROVE  Outcome(c, st, r)
  <2>1. \A k \in ToSet(children[c]) : after.of[k].frozen /\ k \in Channels
    BY <1>4, ChildrenAreChannels
  <2>2. ~after.of[c].frozen
    BY <1>4
  <2>3. CASE ~Clashes(ops)
    <3>1. r = [after EXCEPT !.of[c] = Frozen(ops)]
      BY <2>3, <1>4 DEF FrozenAs
    <3> DEFINE f == Frozen(ops)
    <3>2. r.of = [after.of EXCEPT ![c] = f] /\ r.ok = after.ok
      BY <3>1 DEF FreezeState
    <3>3. f.frozen /\ f.ops = ops
      BY DEF Frozen
    <3> HIDE DEF f, r
    <3>4. r.of[c] = f /\ \A k \in Channels \ {c} : r.of[k] = after.of[k]
      BY <3>2, <1>0 DEF Protocols
    <3>5. Settled(c, r.of)
      <4>1. \A k \in ToSet(children[c]) : k # c /\ r.of[k] = after.of[k]
        BY <2>1, <2>2, <3>4
      <4>2. \A k \in ToSet(children[c]) : after.of[k].ops \subseteq ops
        BY DEF Ops
      <4>3. Own(c) \subseteq ops
        BY DEF Ops
      <4> QED BY <4>1, <4>2, <4>3, <3>3, <3>4, <2>1, <2>3, <1>4 DEF Settled
    <3>6. Progress(after.of, r.of)
      <4> SUFFICES ASSUME NEW k \in Channels
                   PROVE  /\ after.of[k].frozen \/ ~r.of[k].frozen => r.of[k] = after.of[k]
                          /\ r.of[k].frozen /\ ~after.of[k].frozen => Settled(k, r.of)
        BY DEF Progress
      <4>1. CASE k = c
        BY <4>1, <3>3, <3>4, <3>5, <2>2
      <4>2. CASE k # c
        BY <4>2, <3>4
      <4> QED BY <4>1, <4>2
    <3>7. r \in FreezeState /\ r.of \in Protocols
      BY <1>0 DEF r, FreezeState
    <3>8. Progress(st.of, r.of)
      BY <3>6, <3>7, <1>0, ProgressTransitive
    <3>9. Aside(c, st.of, r.of)
      <4> SUFFICES ASSUME NEW k \in Channels, Len(Namespace[k]) < Len(Namespace[c])
                   PROVE  r.of[k] = st.of[k]
        BY DEF Aside
      <4>1. k # c
        <5>1. Len(Namespace[c]) \in Nat
          BY DefinitionAssumption, LenProperties
        <5> QED BY <5>1
      <4>2. after.of[k] = st.of[k]
        BY DEF Aside
      <4> QED BY <4>1, <4>2, <3>4
    <3> QED BY <3>2, <3>3, <3>4, <3>7, <3>8, <3>9, <1>4 DEF Outcome
  <2>4. CASE Clashes(ops)
    <3>1. r = [after EXCEPT !.ok = FALSE]
      BY <2>4, <1>4 DEF FrozenAs
    <3>2. r.of = after.of /\ r.ok = FALSE
      BY <3>1 DEF FreezeState
    <3>3. {k \in ToSet(children[c]) : after.of[k].frozen} = ToSet(children[c])
      BY <2>1
    <3>4. Hopeless(c, after.of)
      BY <2>2, <2>4, <3>3 DEF Hopeless, Ops
    <3> QED BY <3>2, <3>4, <1>0, <1>4, SubtreeFacts DEF Outcome
  <2> QED BY <2>3, <2>4
<1> QED BY <1>1, <1>2, <1>3, <1>4

\* What freezing a channel does, by induction from the deepest channels up
LEMMA FreezeOutcome ==
    ASSUME TreeOK
    PROVE  \A c \in Channels, st \in FreezeState : Outcome(c, st, ChannelFreeze[c][st])
<1> DEFINE F == ChannelFreeze
<1>1. Recursion(F, Channels) /\ Freezes(F, Channels)
  BY ChannelFreezeUnfolds
<1> HIDE DEF F
<1>2. PICK top \in Nat : \A c \in Channels : Len(Namespace[c]) <= top
  BY Deepest
<1> DEFINE S == {k \in Nat : \A c \in Deep(top, k), st \in FreezeState :
                                 Outcome(c, st, F[c][st])}
<1>3. 0 \in S
  <2>1. Deep(top, 0) = {}
    BY <1>2, DeepFacts
  <2> QED BY <2>1
<1>4. ASSUME NEW k \in Nat, k \in S PROVE k + 1 \in S
  <2> SUFFICES ASSUME NEW c \in Deep(top, k + 1), NEW st \in FreezeState
               PROVE  Outcome(c, st, F[c][st])
    OBVIOUS
  <2>1. c \in Channels /\ \A q \in ToSet(children[c]) : q \in Deep(top, k)
    BY <1>2, DeepFacts
  <2>2. \A q \in ToSet(children[c]), s \in FreezeState : Outcome(q, s, F[q][s])
    BY <1>4, <2>1
  <2> DEFINE g == Run(F, children[c], st)
             after == g[Len(children[c])]
  <2>3. g \in [0..Len(children[c]) -> FreezeState] /\ IsRun(F, g, children[c], st)
    <3>1. children[c] \in Seq(Channels)
      BY <2>1, ChildrenAreChannels
    <3> QED BY <3>1, <1>1, RunAgrees
  <2> HIDE DEF g
  <2>4. /\ after \in FreezeState /\ Progress(st.of, after.of)
        /\ Aside(c, st.of, after.of) /\ after.of[c] = st.of[c]
        /\ ~st.ok => after = st
        /\ after.ok => \A q \in ToSet(children[c]) : after.of[q].frozen
        /\ st.ok /\ ~after.ok => \E b \in Subtree(c) : Hopeless(b, after.of)
    BY <2>1, <2>2, <2>3, RunOutcome
  <2>5. F[c][st] = FrozenAs(c, st, after)
    BY <2>1, <1>1 DEF Recursion, Body, g
  <2> HIDE DEF after
  <2> QED BY <2>1, <2>4, <2>5, FrozenAsOutcome
<1>5. top + 1 \in S
  <2> HIDE DEF S
  <2> QED BY <1>3, <1>4, NatInd
<1>6. Deep(top, top + 1) = Channels
  BY <1>2, DeepFacts
<1> QED BY <1>5, <1>6 DEF F

(***************************************************************************)
(* Freezing the service                                                    *)
(***************************************************************************)

\* An operation of the protocol, and what freezing the service works on
Entry == [decl : Decls, server : {EndpointName(m) : m \in Mounts}]
Accumulator == [ok : BOOLEAN, of : Protocols, entries : SUBSET Entry]

\* The claims of an endpoint: the channels of a socket, the one function of another
Claims(m) == IF m.kind = "socket" THEN DOMAIN m.channels ELSE {1}
ChannelAt(m, p) ==
    IF m.kind = "socket" THEN m.channels[p] ELSE (CHOOSE d \in m.decls : TRUE).ch
ClaimAt(of, m, p) ==
    {Served(d, m) : d \in IF m.kind = "socket"
                          THEN {e \in of[m.channels[p]].ops : e.kind \in JsonKinds}
                          ELSE m.decls}

\* A position: an endpoint and one of its claims
Positions == UNION {{<<i, p>> : p \in Claims(endpoints[i])} : i \in DOMAIN endpoints}
Channel(x) == ChannelAt(endpoints[x[1]], x[2])
Claim(of, x) == ClaimAt(of, endpoints[x[1]], x[2])

\* Two entries that one protocol cannot hold
Apart(e, f) ==
    /\ e # f => WireName(e.decl) # WireName(f.decl)
    /\ \A a \in Raises(e.decl), b \in Raises(f.decl) : ErrorCode[a] = ErrorCode[b] => a = b

\* What has been claimed is frozen, held by the protocol and by one claim only.
Achieved(Q, of, entries) ==
    /\ \A x \in Q : of[Channel(x)].frozen /\ Claim(of, x) \subseteq entries
    /\ \A x, y \in Q : x # y => Claim(of, x) \cap Claim(of, y) = {}
    /\ \A e, f \in entries : Apart(e, f)
    /\ \A e \in entries : \E x \in Q : e \in Claim(of, x)
    /\ \A x \in Q : endpoints[x[1]].completes =>
           \E p \in DOMAIN endpoints[x[1]].channels :
               LET at == of[endpoints[x[1]].channels[p]] IN at.frozen /\ HasEvents(at)

\* ... and two that make a protocol unservable
Crossing(d, e) == IsStrictPrefix(WireName(d), WireName(e)) \/ SameType(d, e)

\* Why no freeze() can succeed any more
BadChannel(of) == \E x \in Positions : \E b \in Subtree(Channel(x)) : Hopeless(b, of)
NoEvents(of) ==
    \E x \in Positions :
        /\ endpoints[x[1]].completes
        /\ \A p \in DOMAIN endpoints[x[1]].channels :
               LET at == of[endpoints[x[1]].channels[p]] IN at.frozen /\ ~HasEvents(at)
Conflict(of) ==
    \E x, y \in Positions :
        /\ of[Channel(x)].frozen /\ of[Channel(y)].frozen
        /\ \/ x # y /\ Claim(of, x) \cap Claim(of, y) # {}
           \/ \E e \in Claim(of, x), f \in Claim(of, y) :
                  ~Apart(e, f) \/ Crossing(e.decl, f.decl)
\* No freeze() can succeed any more.
Doomed(of) == BadChannel(of) \/ NoEvents(of) \/ Conflict(of)

\* What has not been frozen holds nothing yet.
Blank(of) == \A k \in Channels : ~of[k].frozen => of[k].ops = {}

\* With a frozen channel go those below it.
FrozenClosed(of) ==
    \A k \in Channels : of[k].frozen =>
        \A j \in ToSet(children[k]) : of[j].frozen /\ of[j].ops \subseteq of[k].ops

\* The endpoints are mounts.
EndpointsTyped == endpoints \in Seq(Mounts)

EndpointRun(g, acc, m) ==
    g = [n \in 0..Len(Steps(m)) |->
            IF n = 0 THEN acc ELSE Perform(g[n - 1], Steps(m)[n])]

ServiceRun(g) ==
    g = [n \in 0..Len(endpoints) |->
            IF n = 0 THEN [ok |-> TRUE, of |-> protocolOf, entries |-> {}]
            ELSE FreezeEndpoint(g[n - 1], endpoints[n])]

\* The steps of an endpoint have an outcome.
LEMMA EndpointRunExists ==
    ASSUME NEW acc, NEW m, Len(Steps(m)) \in Nat
    PROVE  \E g : EndpointRun(g, acc, m) /\ FreezeEndpoint(acc, m) = g[Len(Steps(m))]
<1> DEFINE L == Len(Steps(m))
           Upto(g, k) == g = [n \in 0..k |->
                                 IF n = 0 THEN acc ELSE Perform(g[n - 1], Steps(m)[n])]
           S == {k \in Nat : \E g : Upto(g, k)}
<1>1. 0 \in S
  <2> DEFINE g == [n \in 0..0 |-> acc]
  <2>1. Upto(g, 0)
    OBVIOUS
  <2> QED BY <2>1
<1>2. ASSUME NEW k \in Nat, k \in S PROVE k + 1 \in S
  <2>1. PICK g : Upto(g, k)
    BY <1>2
  <2> DEFINE h == [n \in 0..(k + 1) |->
                      IF n = k + 1 THEN Perform(g[k], Steps(m)[k + 1]) ELSE g[n]]
  <2>2. ASSUME NEW n \in 0..(k + 1)
        PROVE  h[n] = IF n = 0 THEN acc ELSE Perform(h[n - 1], Steps(m)[n])
    <3>1. CASE n = k + 1
      BY <3>1
    <3>2. CASE n # k + 1
      <4>1. n \in 0..k /\ (n # 0 => n - 1 \in 0..k)
        BY <3>2
      <4>2. g[n] = IF n = 0 THEN acc ELSE Perform(g[n - 1], Steps(m)[n])
        BY <2>1, <4>1
      <4> QED BY <3>2, <4>1, <4>2
    <3> QED BY <3>1, <3>2
  <2>3. Upto(h, k + 1)
    BY <2>2
  <2> HIDE DEF h
  <2>4. \E f : Upto(f, k + 1)
    BY <2>3
  <2> QED BY <2>4
<1>3. L \in S
  <2> HIDE DEF S
  <2> QED BY <1>1, <1>2, NatInd
<1>4. \E g : EndpointRun(g, acc, m)
  BY <1>3 DEF EndpointRun
<1>5. FreezeEndpoint(acc, m) = (CHOOSE g : EndpointRun(g, acc, m))[L]
  BY DEF FreezeEndpoint, EndpointRun
<1> QED BY <1>4, <1>5

\* The endpoints of a service have an outcome, one after the other.
LEMMA ServiceRunExists ==
    ASSUME Len(endpoints) \in Nat
    PROVE  \E g : /\ ServiceRun(g)
                  /\ LET all == g[Len(endpoints)]
                     IN  ServiceFreeze = [all EXCEPT !.ok = all.ok /\ ~Unservable(all.entries)]
<1> DEFINE L == Len(endpoints)
           first == [ok |-> TRUE, of |-> protocolOf, entries |-> {}]
           Upto(g, k) == g = [n \in 0..k |->
                                 IF n = 0 THEN first
                                 ELSE FreezeEndpoint(g[n - 1], endpoints[n])]
           S == {k \in Nat : \E g : Upto(g, k)}
<1>1. 0 \in S
  <2> DEFINE g == [n \in 0..0 |-> first]
  <2>1. Upto(g, 0)
    OBVIOUS
  <2> QED BY <2>1
<1>2. ASSUME NEW k \in Nat, k \in S PROVE k + 1 \in S
  <2>1. PICK g : Upto(g, k)
    BY <1>2
  <2> HIDE DEF first
  <2> DEFINE h == [n \in 0..(k + 1) |->
                      IF n = k + 1 THEN FreezeEndpoint(g[k], endpoints[k + 1]) ELSE g[n]]
  <2>2. ASSUME NEW n \in 0..(k + 1)
        PROVE  h[n] = IF n = 0 THEN first ELSE FreezeEndpoint(h[n - 1], endpoints[n])
    <3>1. CASE n = k + 1
      BY <3>1
    <3>2. CASE n # k + 1
      <4>1. n \in 0..k /\ (n # 0 => n - 1 \in 0..k)
        BY <3>2
      <4>2. g[n] = IF n = 0 THEN first ELSE FreezeEndpoint(g[n - 1], endpoints[n])
        BY <2>1, <4>1
      <4> QED BY <3>2, <4>1, <4>2
    <3> QED BY <3>1, <3>2
  <2>3. Upto(h, k + 1)
    BY <2>2
  <2> HIDE DEF h
  <2>4. \E f : Upto(f, k + 1)
    BY <2>3
  <2> QED BY <2>4
<1>3. L \in S
  <2> HIDE DEF S
  <2> QED BY <1>1, <1>2, NatInd
<1>4. \E g : ServiceRun(g)
  BY <1>3 DEF ServiceRun
<1> DEFINE run == CHOOSE g : ServiceRun(g)
<1>5. ServiceFreeze = [run[L] EXCEPT !.ok = run[L].ok /\ ~Unservable(run[L].entries)]
  BY DEF ServiceFreeze, ServiceRun
<1>6. ServiceRun(run)
  BY <1>4
<1> HIDE DEF run
<1> QED BY <1>5, <1>6

\* What socket(), stream() and raw_socket() are called with
LEMMA MountFacts ==
    ASSUME NEW m \in Mounts
    PROVE  /\ m.kind = "socket" =>
                  /\ m.channels \in Seq(Channels) /\ Len(m.channels) \in Nat
                  /\ DOMAIN m.channels = 1..Len(m.channels)
                  /\ \A p \in DOMAIN m.channels : m.channels[p] \in Channels
           /\ m.kind # "socket" =>
                  /\ m.kind \in SocketKinds /\ ~m.completes
                  /\ m.decls \in SUBSET Decls
                  /\ \E d \in Decls : m.decls = {d} /\ d.ch \in Channels
           /\ \A p \in Claims(m) : ChannelAt(m, p) \in Channels
           /\ m.completes \in BOOLEAN
<1>1. m \in Mount
  BY DefinitionAssumption
<1>2. m.channels \in Seq(Channels) /\ m.decls \in SUBSET Decls /\ m.completes \in BOOLEAN
      /\ m.kind \in {"socket"} \cup SocketKinds
  BY <1>1 DEF Mount
<1>3. ASSUME m.kind = "socket"
      PROVE  /\ Len(m.channels) \in Nat /\ DOMAIN m.channels = 1..Len(m.channels)
             /\ \A p \in DOMAIN m.channels : m.channels[p] \in Channels
  BY <1>2, LenProperties, ElementOfSeq
<1>4. ASSUME m.kind # "socket"
      PROVE  /\ m.kind \in SocketKinds /\ ~m.completes
             /\ \E d \in Decls : m.decls = {d} /\ d.ch \in Channels
  <2>1. m.kind \in SocketKinds
    BY <1>2, <1>4
  <2>2. ~m.completes
    BY <2>1, DefinitionAssumption
  <2>4. PICK d \in Decls : m.decls = {d}
    BY <2>1, DefinitionAssumption
  <2>5. d \in Decls /\ d.ch \in Channels
    BY <2>4, DefinitionAssumption DEF Decl
  <2> QED BY <2>1, <2>2, <2>4, <2>5
<1>5. ASSUME NEW p \in Claims(m) PROVE ChannelAt(m, p) \in Channels
  BY <1>3, <1>4 DEF Claims, ChannelAt
<1> QED BY <1>2, <1>3, <1>4, <1>5

\* The endpoints and their positions
LEMMA PositionFacts ==
    ASSUME EndpointsTyped
    PROVE  /\ Len(endpoints) \in Nat /\ DOMAIN endpoints = 1..Len(endpoints)
           /\ \A i \in DOMAIN endpoints : endpoints[i] \in Mounts
           /\ \A x \in Positions :
                  /\ x[1] \in DOMAIN endpoints /\ x[2] \in Claims(endpoints[x[1]])
                  /\ x = <<x[1], x[2]>> /\ Channel(x) \in Channels
                  /\ endpoints[x[1]] \in Mounts
           /\ \A i \in DOMAIN endpoints :
                  \A p \in Claims(endpoints[i]) : <<i, p>> \in Positions
<1>1. Len(endpoints) \in Nat /\ DOMAIN endpoints = 1..Len(endpoints)
      /\ \A i \in DOMAIN endpoints : endpoints[i] \in Mounts
  BY LenProperties, ElementOfSeq DEF EndpointsTyped
<1>2. ASSUME NEW x \in Positions
      PROVE  /\ x[1] \in DOMAIN endpoints /\ x[2] \in Claims(endpoints[x[1]])
             /\ x = <<x[1], x[2]>>
  BY DEF Positions
<1>3. \A x \in Positions : Channel(x) \in Channels
  BY <1>1, <1>2, MountFacts DEF Channel
<1> QED BY <1>1, <1>2, <1>3 DEF Positions

\* What is frozen stays, and so do the claims on it.
LEMMA ClaimStays ==
    ASSUME EndpointsTyped, NEW a, NEW b, Progress(a, b), NEW x \in Positions,
           a[Channel(x)].frozen
    PROVE  b[Channel(x)] = a[Channel(x)] /\ Claim(b, x) = Claim(a, x)
<1>1. Channel(x) \in Channels
  BY PositionFacts
<1>2. b[Channel(x)] = a[Channel(x)]
  BY <1>1 DEF Progress
<1>3. CASE endpoints[x[1]].kind = "socket"
  <2>1. Channel(x) = endpoints[x[1]].channels[x[2]]
    BY <1>3 DEF Channel, ChannelAt
  <2> QED BY <1>2, <1>3, <2>1 DEF Claim, ClaimAt
<1>4. CASE endpoints[x[1]].kind # "socket"
  BY <1>2, <1>4 DEF Claim, ClaimAt
<1> QED BY <1>3, <1>4

\* A channel asked for its events gives the same answer later.
LEMMA AskedStays ==
    ASSUME EndpointsTyped, NEW a, NEW b, Progress(a, b), NEW i \in DOMAIN endpoints,
           endpoints[i].completes, NEW p \in DOMAIN endpoints[i].channels,
           a[endpoints[i].channels[p]].frozen
    PROVE  b[endpoints[i].channels[p]] = a[endpoints[i].channels[p]]
<1>1. endpoints[i] \in Mounts
  BY PositionFacts
<1>2. endpoints[i].channels[p] \in Channels
  BY <1>1, MountFacts
<1> QED BY <1>2 DEF Progress

\* What has been served is served after more freezing.
LEMMA AchievedStays ==
    ASSUME EndpointsTyped, NEW a, NEW b, Progress(a, b), NEW Q \in SUBSET Positions,
           NEW entries, Achieved(Q, a, entries)
    PROVE  Achieved(Q, b, entries)
<1>1. \A x \in Q : a[Channel(x)].frozen /\ Claim(a, x) \subseteq entries
  BY DEF Achieved
<1>2. \A x \in Q : b[Channel(x)] = a[Channel(x)] /\ Claim(b, x) = Claim(a, x)
  BY <1>1, ClaimStays
<1>3. ASSUME NEW x \in Q, endpoints[x[1]].completes
      PROVE  \E p \in DOMAIN endpoints[x[1]].channels :
                 LET at == b[endpoints[x[1]].channels[p]] IN at.frozen /\ HasEvents(at)
  <2>1. PICK p \in DOMAIN endpoints[x[1]].channels :
            LET at == a[endpoints[x[1]].channels[p]] IN at.frozen /\ HasEvents(at)
    BY <1>3 DEF Achieved
  <2>2. x[1] \in DOMAIN endpoints
    BY PositionFacts
  <2>3. b[endpoints[x[1]].channels[p]] = a[endpoints[x[1]].channels[p]]
    BY <1>3, <2>1, <2>2, AskedStays
  <2> QED BY <2>1, <2>3
<1> QED BY <1>1, <1>2, <1>3 DEF Achieved

\* No freezing undoes the reason of a failure.
LEMMA DoomedStays ==
    ASSUME TreeOK, EndpointsTyped, NEW a \in Protocols, NEW b \in Protocols, Progress(a, b),
           Doomed(a)
    PROVE  Doomed(b)
<1>1. CASE BadChannel(a)
  <2>1. \A k : Hopeless(k, a) => Hopeless(k, b)
    BY HopelessStays
  <2> QED BY <1>1, <2>1 DEF BadChannel, Doomed
<1>2. CASE NoEvents(a)
  <2>1. PICK x \in Positions :
            /\ endpoints[x[1]].completes
            /\ \A p \in DOMAIN endpoints[x[1]].channels :
                   LET at == a[endpoints[x[1]].channels[p]] IN at.frozen /\ ~HasEvents(at)
    BY <1>2 DEF NoEvents
  <2>2. x[1] \in DOMAIN endpoints
    BY PositionFacts
  <2>3. \A p \in DOMAIN endpoints[x[1]].channels :
            b[endpoints[x[1]].channels[p]] = a[endpoints[x[1]].channels[p]]
    BY <2>1, <2>2, AskedStays
  <2>4. NoEvents(b)
    BY <2>1, <2>3 DEF NoEvents
  <2> QED BY <2>4 DEF Doomed
<1>3. CASE Conflict(a)
  <2>1. PICK x \in Positions, y \in Positions :
            /\ a[Channel(x)].frozen /\ a[Channel(y)].frozen
            /\ \/ x # y /\ Claim(a, x) \cap Claim(a, y) # {}
               \/ \E e \in Claim(a, x), f \in Claim(a, y) :
                      ~Apart(e, f) \/ Crossing(e.decl, f.decl)
    BY <1>3 DEF Conflict
  <2>2. /\ b[Channel(x)] = a[Channel(x)] /\ Claim(b, x) = Claim(a, x)
        /\ b[Channel(y)] = a[Channel(y)] /\ Claim(b, y) = Claim(a, y)
    BY <2>1, ClaimStays
  <2>3. Conflict(b)
    BY <2>1, <2>2 DEF Conflict
  <2> QED BY <2>3 DEF Doomed
<1> QED BY <1>1, <1>2, <1>3 DEF Doomed

\* A protocol that serves every position refutes each reason for failing.
LEMMA DoomedNeverAchieved ==
    ASSUME TreeOK, EndpointsTyped, NEW of, FrozenClosed(of), NEW entries,
           Achieved(Positions, of, entries), ~Unservable(entries)
    PROVE  ~Doomed(of)
<1>1. ASSUME BadChannel(of) PROVE FALSE
  <2>1. PICK x \in Positions : \E b \in Subtree(Channel(x)) : Hopeless(b, of)
    BY <1>1 DEF BadChannel
  <2>2. PICK b \in Subtree(Channel(x)) : Hopeless(b, of)
    BY <2>1
  <2> DEFINE W == {k \in Channels : of[k].frozen}
  <2>3. Channel(x) \in W
    BY PositionFacts DEF Achieved
  <2>4. \A k \in W : ToSet(children[k]) \subseteq W
    BY ChildrenAreChannels DEF FrozenClosed
  <2>5. b \in W
    BY <2>2, <2>3, <2>4 DEF Subtree
  <2> QED BY <2>2, <2>5 DEF Hopeless
<1>2. ASSUME NoEvents(of) PROVE FALSE
  BY <1>2 DEF NoEvents, Achieved
<1>3. ASSUME Conflict(of) PROVE FALSE
  <2>1. PICK x \in Positions, y \in Positions :
            \/ x # y /\ Claim(of, x) \cap Claim(of, y) # {}
            \/ \E e \in Claim(of, x), f \in Claim(of, y) :
                   ~Apart(e, f) \/ Crossing(e.decl, f.decl)
    BY <1>3 DEF Conflict
  <2>2. PICK e \in Claim(of, x), f \in Claim(of, y) :
            ~Apart(e, f) \/ Crossing(e.decl, f.decl)
    BY <2>1 DEF Achieved
  <2>3. e \in entries /\ f \in entries
    BY DEF Achieved
  <2>4. Apart(e, f)
    BY <2>3 DEF Achieved
  <2>5. ~Crossing(e.decl, f.decl)
    BY <2>3 DEF Unservable, Nested, Names, Crossing
  <2> QED BY <2>2, <2>4, <2>5
<1> QED BY <1>1, <1>2, <1>3 DEF Doomed

(***************************************************************************)
(* The steps of a freeze                                                   *)
(***************************************************************************)

\* The first channels of an endpoint have been asked: one has events, or none has.
AskedUpto(of, m, n) ==
    \/ \E q \in 1..n : of[m.channels[q]].frozen /\ HasEvents(of[m.channels[q]])
    \/ \A q \in 1..n : of[m.channels[q]].frozen /\ ~HasEvents(of[m.channels[q]])

Ask(m, p) == [do |-> "ask", at |-> p, ch |-> m.channels[p], m |-> m]
ClaimOf(m, p) == [do |-> "claim", at |-> p, ch |-> ChannelAt(m, p), m |-> m]

\* Freezing fills the channels it freezes and no other.
LEMMA BlankStays ==
    ASSUME NEW a, NEW b, Blank(a), Progress(a, b)
    PROVE  Blank(b)
BY DEF Blank, Progress

\* Asking a channel for its events: an answer, or the service is doomed.
LEMMA AskStep ==
    ASSUME TreeOK, EndpointsTyped, NEW i \in DOMAIN endpoints,
           NEW m, m = endpoints[i], m.kind = "socket", m.completes,
           NEW p \in DOMAIN m.channels, NEW acc \in Accumulator, acc.ok, Blank(acc.of),
           AskedUpto(acc.of, m, p - 1)
    PROVE  LET r == Perform(acc, Ask(m, p))
           IN  /\ r \in Accumulator /\ Progress(acc.of, r.of) /\ r.entries = acc.entries
               /\ r.ok => AskedUpto(r.of, m, p)
               /\ ~r.ok => Doomed(r.of)
<1> DEFINE k == m.channels[p]
           s0 == [ok |-> acc.ok, of |-> acc.of]
           st == ChannelFreeze[k][s0]
           r == Perform(acc, Ask(m, p))
<1>1. m \in Mounts /\ k \in Channels /\ p \in Nat /\ Len(m.channels) \in Nat
      /\ p \in 1..Len(m.channels) /\ \A q \in 1..Len(m.channels) : m.channels[q] \in Channels
  BY PositionFacts, MountFacts
<1>2. s0 \in FreezeState /\ s0.of = acc.of /\ s0.ok = acc.ok
  BY DEF FreezeState, Accumulator
<1>3. Outcome(k, s0, st)
  BY <1>1, <1>2, FreezeOutcome
<1> HIDE DEF st
<1>4. CASE AnyEvents(acc.of, m, p - 1)
  <2>1. r = acc
    BY <1>4 DEF Perform, Ask
  <2>2. PICK q \in 1..(p - 1) : HasEvents(acc.of[m.channels[q]])
    BY <1>4 DEF AnyEvents
  <2>3. q \in 1..p /\ q \in 1..Len(m.channels)
    BY <1>1
  <2>4. acc.of[m.channels[q]].frozen
    BY <2>2, <2>3, <1>1 DEF Blank, HasEvents
  <2> QED BY <2>1, <2>2, <2>3, <2>4, ProgressReflexive DEF AskedUpto
<1>5. CASE ~AnyEvents(acc.of, m, p - 1)
  <2>1. r = [acc EXCEPT !.ok = st.ok, !.of = st.of]
    BY <1>5 DEF Perform, Ask, st
  <2>2. r \in Accumulator /\ r.ok = st.ok /\ r.of = st.of /\ r.entries = acc.entries
    BY <2>1, <1>3 DEF Outcome, FreezeState, Accumulator
  <2>3. Progress(acc.of, r.of)
    BY <2>2, <1>2, <1>3 DEF Outcome
  <2>4. ASSUME r.ok PROVE AskedUpto(r.of, m, p)
    <3>1. \A q \in 1..(p - 1) :
              acc.of[m.channels[q]].frozen /\ ~HasEvents(acc.of[m.channels[q]])
      BY <1>5 DEF AskedUpto, AnyEvents
    <3>2. \A q \in 1..(p - 1) : r.of[m.channels[q]] = acc.of[m.channels[q]]
      BY <3>1, <2>3, <1>1 DEF Progress
    <3>3. r.of[m.channels[p]].frozen
      BY <2>2, <2>4, <1>3 DEF Outcome
    <3>4. \A q \in 1..p : q = p \/ q \in 1..(p - 1)
      BY <1>1
    <3>5. p \in 1..p
      BY <1>1
    <3> QED BY <3>1, <3>2, <3>3, <3>4, <3>5 DEF AskedUpto
  <2>5. ASSUME ~r.ok PROVE Doomed(r.of)
    <3>1. \E b \in Subtree(k) : Hopeless(b, r.of)
      BY <2>2, <2>5, <1>2, <1>3 DEF Outcome
    <3>2. p \in Claims(m)
      BY DEF Claims
    <3>3. <<i, p>> \in Positions
      BY <3>2, PositionFacts
    <3>4. Channel(<<i, p>>) = k
      BY DEF Channel, ChannelAt
    <3>5. BadChannel(r.of)
      BY <3>1, <3>3, <3>4 DEF BadChannel
    <3> QED BY <3>5 DEF Doomed
  <2> QED BY <2>2, <2>3, <2>4, <2>5
<1> QED BY <1>4, <1>5

\* Claiming the names of a channel: they are served, or the service is doomed.
LEMMA ClaimStep ==
    ASSUME TreeOK, EndpointsTyped, NEW i \in DOMAIN endpoints,
           NEW m, m = endpoints[i], NEW p \in Claims(m),
           NEW acc \in Accumulator, acc.ok, Blank(acc.of),
           NEW Q \in SUBSET Positions, <<i, p>> \notin Q,
           Achieved(Q, acc.of, acc.entries),
           m.completes /\ p = 1 => AskedUpto(acc.of, m, Len(m.channels)),
           m.completes /\ p # 1 => <<i, 1>> \in Q
    PROVE  LET r == Perform(acc, ClaimOf(m, p))
           IN  /\ r \in Accumulator /\ Progress(acc.of, r.of)
               /\ r.ok => Achieved(Q \cup {<<i, p>>}, r.of, r.entries)
               /\ ~r.ok => Doomed(r.of)
<1> DEFINE x == <<i, p>>
           k == ChannelAt(m, p)
           s0 == [ok |-> acc.ok, of |-> acc.of]
           st == ChannelFreeze[k][s0]
           step == ClaimOf(m, p)
           new == Claimed(st.of, step)
           r == Perform(acc, step)
<1>1. /\ m \in Mounts /\ x \in Positions /\ x[1] = i /\ x[2] = p /\ Channel(x) = k
      /\ k \in Channels
  BY PositionFacts, MountFacts DEF Channel
<1>2. s0 \in FreezeState /\ s0.of = acc.of /\ s0.ok = acc.ok /\ acc.of \in Protocols
  BY DEF FreezeState, Accumulator
<1>3. Outcome(k, s0, st)
  BY <1>1, <1>2, FreezeOutcome
<1>4. step.m = m /\ step.do = "claim" /\ step.at = p /\ step.ch = k
  BY DEF ClaimOf
<1>5. new = Claim(st.of, x)
  <2> HIDE DEF step, st, x
  <2>1. CASE m.kind = "socket"
    <3>1. k = m.channels[p]
      BY <2>1 DEF ChannelAt
    <3> QED BY <1>1, <1>4, <2>1, <3>1 DEF Claimed, Claim, ClaimAt
  <2>2. CASE m.kind # "socket"
    BY <1>1, <1>4, <2>2 DEF Claimed, Claim, ClaimAt
  <2> QED BY <2>1, <2>2
<1> DEFINE none == m.completes /\ p = 1 /\ ~AnyEvents(acc.of, m, Len(m.channels))
<1>6. r = IF none THEN [acc EXCEPT !.ok = FALSE]
          ELSE IF ~st.ok THEN [acc EXCEPT !.ok = st.ok, !.of = st.of]
          ELSE IF new \cap acc.entries = {} /\ Admits(acc.entries, new)
               THEN [ok |-> TRUE, of |-> st.of, entries |-> acc.entries \cup new]
          ELSE [acc EXCEPT !.ok = FALSE, !.of = st.of]
  <2> HIDE DEF step, new
  <2> QED BY <1>4 DEF Perform, new
<1> HIDE DEF st, step, new, r
<1>7. st \in FreezeState /\ Progress(acc.of, st.of)
  BY <1>2, <1>3 DEF Outcome
<1>8. CASE none
  <2>1. r = [acc EXCEPT !.ok = FALSE]
    BY <1>6, <1>8
  <2>2. r \in Accumulator /\ r.of = acc.of /\ r.ok = FALSE
    BY <2>1 DEF Accumulator
  <2>3. m.kind = "socket" /\ DOMAIN m.channels = 1..Len(m.channels)
    BY <1>1, <1>8, MountFacts
  <2>4. \A q \in DOMAIN m.channels :
            acc.of[m.channels[q]].frozen /\ ~HasEvents(acc.of[m.channels[q]])
    BY <2>3, <1>8 DEF AskedUpto, AnyEvents
  <2>5. NoEvents(acc.of)
    BY <2>4, <1>1, <1>8 DEF NoEvents
  <2> QED BY <2>2, <2>5, ProgressReflexive DEF Doomed, r, step
<1>9. ASSUME ~none, ~st.ok
      PROVE  r \in Accumulator /\ Progress(acc.of, r.of) /\ ~r.ok /\ Doomed(r.of)
  <2>1. r = [acc EXCEPT !.ok = st.ok, !.of = st.of]
    BY <1>6, <1>9
  <2>2. r \in Accumulator /\ r.of = st.of /\ r.ok = st.ok
    BY <2>1, <1>7 DEF Accumulator, FreezeState
  <2>3. \E b \in Subtree(k) : Hopeless(b, st.of)
    BY <1>2, <1>3, <1>9 DEF Outcome
  <2>4. BadChannel(st.of)
    BY <2>3, <1>1 DEF BadChannel
  <2> QED BY <2>2, <2>4, <1>7, <1>9 DEF Doomed
<1>10. ASSUME ~none, st.ok
       PROVE  /\ r \in Accumulator /\ Progress(acc.of, r.of)
              /\ r.ok => Achieved(Q \cup {x}, r.of, r.entries)
              /\ ~r.ok => Doomed(r.of)
  <2>1. Achieved(Q, st.of, acc.entries)
    BY <1>7, AchievedStays
  <2>2. st.of[k].frozen
    BY <1>3, <1>10 DEF Outcome
  <2>3. \A y \in Q : st.of[Channel(y)].frozen /\ Claim(st.of, y) \subseteq acc.entries
    BY <2>1 DEF Achieved
  <2>4. \A e \in acc.entries : \E y \in Q : e \in Claim(st.of, y)
    BY <2>1 DEF Achieved
  <2>5. \A y \in Q : y # x /\ y \in Positions
    OBVIOUS
  <2>6. CASE new \cap acc.entries = {} /\ Admits(acc.entries, new)
    <3>1. r = [ok |-> TRUE, of |-> st.of, entries |-> acc.entries \cup new]
      BY <1>6, <1>10, <2>6
    <3>2. new \in SUBSET Entry
      BY <1>5, <1>1, <1>7, MountFacts
         DEF Claim, ClaimAt, Served, Entry, FreezeState, Protocols, Claims
    <3>3. r \in Accumulator /\ r.of = st.of /\ r.entries = acc.entries \cup new
      BY <3>1, <3>2, <1>7 DEF Accumulator, FreezeState
    <3> DEFINE E == acc.entries \cup new
    <3>4. \A y \in Q \cup {x} : st.of[Channel(y)].frozen /\ Claim(st.of, y) \subseteq E
      BY <2>2, <2>3, <1>1, <1>5
    <3>5. \A y, z \in Q \cup {x} : y # z => Claim(st.of, y) \cap Claim(st.of, z) = {}
      <4>1. \A y \in Q : Claim(st.of, y) \cap Claim(st.of, x) = {}
        BY <2>3, <2>6, <1>5
      <4>2. \A y, z \in Q : y # z => Claim(st.of, y) \cap Claim(st.of, z) = {}
        BY <2>1 DEF Achieved
      <4> QED BY <4>1, <4>2
    <3>6. \A e, f \in E : Apart(e, f)
      BY <2>6 DEF Admits, Apart
    <3>7. \A e \in E : \E y \in Q \cup {x} : e \in Claim(st.of, y)
      BY <2>4, <1>5
    <3>8. ASSUME NEW y \in Q \cup {x}, endpoints[y[1]].completes
          PROVE  \E q \in DOMAIN endpoints[y[1]].channels :
                     LET at == st.of[endpoints[y[1]].channels[q]]
                     IN  at.frozen /\ HasEvents(at)
      <4>1. CASE y \in Q
        BY <4>1, <3>8, <2>1 DEF Achieved
      <4>2. CASE y = x /\ p # 1
        <5>1. <<i, 1>> \in Q /\ <<i, 1>>[1] = i
          BY <4>2, <3>8, <1>1
        <5>2. endpoints[<<i, 1>>[1]].completes
          BY <4>2, <3>8, <5>1, <1>1
        <5>3. \E q \in DOMAIN endpoints[<<i, 1>>[1]].channels :
                  LET at == st.of[endpoints[<<i, 1>>[1]].channels[q]]
                  IN  at.frozen /\ HasEvents(at)
          BY <5>1, <5>2, <2>1 DEF Achieved
        <5> QED BY <5>1, <5>3, <4>2, <1>1
      <4>3. CASE y = x /\ p = 1
        <5>1. m.completes /\ m.kind = "socket" /\ DOMAIN m.channels = 1..Len(m.channels)
          BY <4>3, <3>8, <1>1, MountFacts
        <5>2. PICK q \in 1..Len(m.channels) : HasEvents(acc.of[m.channels[q]])
          BY <4>3, <5>1, <1>10 DEF AnyEvents
        <5>3. m.channels[q] \in Channels
          BY <5>1, <1>1, MountFacts
        <5>4. acc.of[m.channels[q]].frozen
          BY <5>2, <5>3 DEF Blank, HasEvents
        <5>5. st.of[m.channels[q]] = acc.of[m.channels[q]]
          BY <5>3, <5>4, <1>7 DEF Progress
        <5> QED BY <5>1, <5>2, <5>4, <5>5, <4>3, <1>1
      <4> QED BY <4>1, <4>2, <4>3
    <3>9. Achieved(Q \cup {x}, st.of, E)
      BY <3>4, <3>5, <3>6, <3>7, <3>8 DEF Achieved
    <3> QED BY <3>1, <3>3, <3>9, <1>7
  <2>7. CASE new \cap acc.entries # {}
    <3>1. r = [acc EXCEPT !.ok = FALSE, !.of = st.of]
      BY <1>6, <1>10, <2>7
    <3>2. r \in Accumulator /\ r.of = st.of /\ r.ok = FALSE
      BY <3>1, <1>7 DEF Accumulator, FreezeState
    <3>3. PICK e : e \in new /\ e \in acc.entries
      BY <2>7
    <3>4. PICK y \in Q : e \in Claim(st.of, y)
      BY <3>3, <2>4
    <3>5. Claim(st.of, x) \cap Claim(st.of, y) # {} /\ x # y /\ y \in Positions
      BY <3>3, <3>4, <2>5, <1>5
    <3>6. st.of[Channel(x)].frozen /\ st.of[Channel(y)].frozen
      BY <2>2, <2>3, <1>1
    <3>7. Conflict(st.of)
      BY <3>5, <3>6, <1>1 DEF Conflict
    <3> QED BY <3>2, <3>7, <1>7 DEF Doomed
  <2>8. CASE ~Admits(acc.entries, new)
    <3>1. r = [acc EXCEPT !.ok = FALSE, !.of = st.of]
      BY <1>6, <1>10, <2>8
    <3>2. r \in Accumulator /\ r.of = st.of /\ r.ok = FALSE
      BY <3>1, <1>7 DEF Accumulator, FreezeState
    <3>3. PICK e \in acc.entries \cup new, f \in acc.entries \cup new : ~Apart(e, f)
      BY <2>8 DEF Admits, Apart
    <3>4. \A g \in acc.entries \cup new : \E y \in Q \cup {x} : g \in Claim(st.of, y)
      BY <2>4, <1>5
    <3>5. PICK y \in Q \cup {x} : e \in Claim(st.of, y)
      BY <3>4
    <3>6. PICK z \in Q \cup {x} : f \in Claim(st.of, z)
      BY <3>4
    <3>7. /\ y \in Positions /\ z \in Positions
          /\ st.of[Channel(y)].frozen /\ st.of[Channel(z)].frozen
      BY <2>2, <2>3, <1>1
    <3>8. Conflict(st.of)
      BY <3>3, <3>5, <3>6, <3>7 DEF Conflict
    <3> QED BY <3>2, <3>8, <1>7 DEF Doomed
  <2> QED BY <2>6, <2>7, <2>8
<1>11. r = Perform(acc, ClaimOf(m, p))
  BY DEF r, step
<1> QED BY <1>8, <1>9, <1>10, <1>11

\* How many steps of an endpoint ask, and how many claim
Asks(m) == IF m.completes THEN Len(m.channels) ELSE 0
ClaimCount(m) == IF m.kind = "socket" THEN Len(m.channels) ELSE 1

\* The steps of an endpoint: first the questions, then the claims
LEMMA StepsFacts ==
    ASSUME NEW m \in Mounts
    PROVE  /\ Asks(m) \in Nat /\ ClaimCount(m) \in Nat
           /\ Claims(m) = 1..ClaimCount(m)
           /\ Len(Steps(m)) = Asks(m) + ClaimCount(m)
           /\ m.completes => m.kind = "socket" /\ Asks(m) = Len(m.channels)
                             /\ DOMAIN m.channels = 1..Len(m.channels)
           /\ \A n \in 1..Asks(m) : Steps(m)[n] = Ask(m, n)
           /\ \A p \in 1..ClaimCount(m) : Steps(m)[Asks(m) + p] = ClaimOf(m, p)
<1>1. CASE m.kind = "socket"
  <2> DEFINE L == Len(m.channels)
             asks == [i \in DOMAIN Asked(m) |-> Ask(m, i)]
             claims == [i \in DOMAIN m.channels |-> ClaimOf(m, i)]
             S == {Ask(m, i) : i \in 1..L} \cup {ClaimOf(m, i) : i \in 1..L}
  <2>1. L \in Nat /\ DOMAIN m.channels = 1..L
    BY <1>1, MountFacts
  <2>2. Asks(m) \in Nat /\ DOMAIN Asked(m) = 1..Asks(m) /\ (Asks(m) = L \/ Asks(m) = 0)
    BY <2>1 DEF Asks, Asked
  <2>3. asks \in Seq(S) /\ Len(asks) = Asks(m) /\ \A n \in 1..Asks(m) : asks[n] = Ask(m, n)
    <3>1. \A n \in 1..Asks(m) : Ask(m, n) \in S
      BY <2>1, <2>2
    <3> HIDE DEF S
    <3> QED BY <2>2, <3>1, IsASeq
  <2>4. claims \in Seq(S) /\ Len(claims) = L /\ \A n \in 1..L : claims[n] = ClaimOf(m, n)
    <3>1. \A n \in 1..L : ClaimOf(m, n) \in S
      OBVIOUS
    <3> HIDE DEF S
    <3> QED BY <2>1, <3>1, IsASeq
  <2>5. Steps(m) = asks \o claims
    BY <1>1 DEF Steps, Ask, ClaimOf, ChannelAt
  <2> HIDE DEF asks, claims, S
  <2>6. /\ Len(asks \o claims) = Len(asks) + Len(claims)
        /\ \A n \in 1..(Len(asks) + Len(claims)) :
               (asks \o claims)[n] = IF n <= Len(asks) THEN asks[n] ELSE claims[n - Len(asks)]
    BY <2>3, <2>4, ConcatProperties, ZenonT(30)
  <2>7. ClaimCount(m) = L /\ Claims(m) = 1..L
    BY <1>1, <2>1 DEF ClaimCount, Claims
  <2> DEFINE a == Asks(m)
  <2>8. Len(Steps(m)) = a + L
    BY <2>3, <2>4, <2>5, <2>6
  <2>9. ASSUME NEW n \in 1..a PROVE Steps(m)[n] = Ask(m, n)
    <3>1. n \in 1..(a + L) /\ n <= a
      BY <2>1, <2>2
    <3> QED BY <3>1, <2>3, <2>4, <2>5, <2>6
  <2>10. ASSUME NEW p \in 1..L PROVE Steps(m)[a + p] = ClaimOf(m, p)
    <3>1. a + p \in 1..(a + L) /\ ~(a + p <= a) /\ (a + p) - a = p
      BY <2>1, <2>2
    <3> QED BY <3>1, <2>3, <2>4, <2>5, <2>6
  <2>11. m.completes => a = L
    BY DEF Asks
  <2> QED BY <1>1, <2>1, <2>2, <2>7, <2>8, <2>9, <2>10, <2>11
<1>2. CASE m.kind # "socket"
  <2>1. ~m.completes /\ Asks(m) = 0 /\ ClaimCount(m) = 1 /\ Claims(m) = {1}
    BY <1>2, MountFacts DEF Asks, ClaimCount, Claims
  <2>2. Steps(m) = <<ClaimOf(m, 1)>>
    BY <1>2 DEF Steps, ClaimOf, ChannelAt
  <2>3. Len(Steps(m)) = 1 /\ Steps(m)[1] = ClaimOf(m, 1)
    BY <2>2
  <2>4. 1..1 = {1} /\ 0 + 1 = 1
    OBVIOUS
  <2> QED BY <2>1, <2>3, <2>4
<1> QED BY <1>1, <1>2

\* The positions before a step
Earlier(i, n) ==
    {x \in Positions : x[1] < i \/ (x[1] = i /\ x[2] + Asks(endpoints[i]) <= n)}

\* An endpoint is served, or the service is doomed.
LEMMA EndpointOutcome ==
    ASSUME TreeOK, EndpointsTyped, NEW i \in DOMAIN endpoints, NEW acc \in Accumulator,
           Blank(acc.of),
           acc.ok => Achieved({x \in Positions : x[1] < i}, acc.of, acc.entries)
    PROVE  LET r == FreezeEndpoint(acc, endpoints[i])
           IN  /\ r \in Accumulator /\ Progress(acc.of, r.of)
               /\ ~acc.ok => r = acc
               /\ r.ok => Achieved({x \in Positions : x[1] < i + 1}, r.of, r.entries)
               /\ acc.ok /\ ~r.ok => Doomed(r.of)
<1> DEFINE m == endpoints[i]
           a == Asks(m)
           count == ClaimCount(m)
           L == a + count
<1>1. m \in Mounts /\ i \in Nat
  BY PositionFacts
<1>2. /\ a \in Nat /\ count \in Nat /\ Claims(m) = 1..count /\ Len(Steps(m)) = L
      /\ m.completes => m.kind = "socket" /\ a = Len(m.channels)
                        /\ DOMAIN m.channels = 1..Len(m.channels)
      /\ \A n \in 1..a : Steps(m)[n] = Ask(m, n)
      /\ \A p \in 1..count : Steps(m)[a + p] = ClaimOf(m, p)
  BY <1>1, StepsFacts
<1>3. \A x \in Positions :
          x[1] \in Nat /\ (x[1] = i => x[2] \in 1..count) /\ x = <<x[1], x[2]>>
  BY <1>2, PositionFacts
<1>4. PICK g : EndpointRun(g, acc, m) /\ FreezeEndpoint(acc, m) = g[L]
  BY <1>2, EndpointRunExists
<1>5. g[0] = acc /\ \A n \in 0..(L - 1) : g[n + 1] = Perform(g[n], Steps(m)[n + 1])
  <2>1. g = [n \in 0..L |-> IF n = 0 THEN acc ELSE Perform(g[n - 1], Steps(m)[n])]
    BY <1>2, <1>4 DEF EndpointRun
  <2>2. 0 \in 0..L /\ \A n \in 0..(L - 1) : n + 1 \in 0..L /\ n + 1 # 0 /\ (n + 1) - 1 = n
    BY <1>2
  <2> HIDE DEF L
  <2> QED BY <2>1, <2>2
<1>6. /\ Earlier(i, 0) = {x \in Positions : x[1] < i}
      /\ Earlier(i, L) = {x \in Positions : x[1] < i + 1}
      /\ \A n \in 0..(a - 1) : Earlier(i, n + 1) = Earlier(i, n)
      /\ \A p \in 1..count : /\ Earlier(i, a + p) = Earlier(i, a + p - 1) \cup {<<i, p>>}
                             /\ <<i, p>> \notin Earlier(i, a + p - 1)
                             /\ p # 1 => <<i, 1>> \in Earlier(i, a + p - 1)
  <2> HIDE DEF a, count
  <2>1. Earlier(i, 0) = {x \in Positions : x[1] < i}
    BY <1>2, <1>3 DEF Earlier, a
  <2>2. Earlier(i, a + count) = {x \in Positions : x[1] < i + 1}
    BY <1>1, <1>2, <1>3 DEF Earlier, a
  <2>3. \A n \in 0..(a - 1) : Earlier(i, n + 1) = Earlier(i, n)
    BY <1>2, <1>3 DEF Earlier, a
  <2>4. ASSUME NEW p \in 1..count
        PROVE  /\ Earlier(i, a + p) = Earlier(i, a + p - 1) \cup {<<i, p>>}
               /\ <<i, p>> \notin Earlier(i, a + p - 1)
               /\ p # 1 => <<i, 1>> \in Earlier(i, a + p - 1)
    <3>1. <<i, p>> \in Positions /\ <<i, 1>> \in Positions
      <4>1. p \in Claims(m) /\ 1 \in Claims(m)
        BY <1>2
      <4> QED BY <4>1, PositionFacts
    <3>2. <<i, p>>[1] = i /\ <<i, p>>[2] = p /\ <<i, 1>>[1] = i /\ <<i, 1>>[2] = 1
      OBVIOUS
    <3>3. ASSUME NEW x \in Positions, x[1] = i
          PROVE  /\ x[2] + a <= a + p <=> (x[2] + a <= a + p - 1 \/ x[2] = p)
                 /\ x[2] = p <=> x = <<i, p>>
      BY <3>3, <1>2, <1>3
    <3>4. ~(p + a <= a + p - 1) /\ (p # 1 => 1 + a <= a + p - 1)
      BY <1>2
    <3>5. ~(i < i)
      BY <1>1
    <3> QED BY <3>1, <3>2, <3>3, <3>4, <3>5 DEF Earlier, a
  <2> QED BY <2>1, <2>2, <2>3, <2>4
<1> DEFINE P(n) == /\ g[n] \in Accumulator /\ Progress(acc.of, g[n].of)
                   /\ ~acc.ok => g[n] = acc
                   /\ acc.ok /\ ~g[n].ok => Doomed(g[n].of)
                   /\ g[n].ok => Achieved(Earlier(i, n), g[n].of, g[n].entries)
                   /\ g[n].ok /\ m.completes /\ n <= a => AskedUpto(g[n].of, m, n)
           S == {n \in Nat : n <= L => P(n)}
<1>7. 0 \in S
  <2>1. AskedUpto(acc.of, m, 0)
    BY DEF AskedUpto
  <2> QED BY <1>5, <1>6, <2>1, ProgressReflexive
<1>8. ASSUME NEW n \in Nat, n \in S PROVE n + 1 \in S
  <2> SUFFICES ASSUME n + 1 <= L PROVE P(n + 1)
    OBVIOUS
  <2>0. L \in Nat
    BY <1>2
  <2>1. P(n) /\ n \in 0..(L - 1)
    <3> HIDE DEF P, L
    <3> QED BY <1>8, <2>0
  <2> DEFINE u == g[n]
             r == g[n + 1]
             step == Steps(m)[n + 1]
  <2>2. r = Perform(u, step)
    BY <1>5, <2>1
  <2>3. CASE ~u.ok
    <3>1. r = u
      BY <2>2, <2>3 DEF Perform
    <3> QED BY <2>1, <2>3, <3>1
  <2>4. ASSUME u.ok
        PROVE  /\ r \in Accumulator /\ Progress(u.of, r.of)
               /\ ~r.ok => Doomed(r.of)
               /\ r.ok => Achieved(Earlier(i, n + 1), r.of, r.entries)
               /\ r.ok /\ m.completes /\ n + 1 <= a => AskedUpto(r.of, m, n + 1)
    <3>1. Blank(u.of)
      BY <2>1, BlankStays
    <3>2. CASE n + 1 <= a
      <4>1. n + 1 \in 1..a /\ n \in 0..(a - 1) /\ (n + 1) - 1 = n /\ n <= a
        BY <3>2, <1>2
      <4>2. step = Ask(m, n + 1)
        BY <4>1, <1>2
      <4>3. m.completes
        BY <4>1 DEF Asks
      <4>4. n + 1 \in DOMAIN m.channels /\ m.kind = "socket"
        BY <4>1, <4>3, <1>2
      <4>5. AskedUpto(u.of, m, (n + 1) - 1)
        BY <4>1, <4>3, <2>1, <2>4
      <4>6. /\ r \in Accumulator /\ Progress(u.of, r.of) /\ r.entries = u.entries
            /\ r.ok => AskedUpto(r.of, m, n + 1)
            /\ ~r.ok => Doomed(r.of)
        <5> HIDE DEF m, a, u
        <5> QED BY <2>1, <2>2, <2>4, <3>1, <4>2, <4>3, <4>4, <4>5, AskStep DEF m, u
      <4>7. Earlier(i, n) \in SUBSET Positions
        BY DEF Earlier
      <4>8. Achieved(Earlier(i, n), r.of, r.entries)
        BY <4>6, <4>7, <2>1, <2>4, AchievedStays
      <4>9. Earlier(i, n + 1) = Earlier(i, n)
        BY <4>1, <1>6
      <4> QED BY <4>6, <4>8, <4>9
    <3>3. CASE ~(n + 1 <= a)
      <4> DEFINE p == n + 1 - a
      <4>1. p \in 1..count /\ a + p = n + 1 /\ a + p - 1 = n
        BY <3>3, <1>2, <2>1
      <4>2. step = ClaimOf(m, p) /\ p \in Claims(m)
        <5> HIDE DEF p
        <5> QED BY <4>1, <1>2
      <4>3. /\ Earlier(i, n + 1) = Earlier(i, n) \cup {<<i, p>>}
            /\ <<i, p>> \notin Earlier(i, n)
            /\ p # 1 => <<i, 1>> \in Earlier(i, n)
        <5> HIDE DEF p
        <5> QED BY <4>1, <1>6
      <4>4. ASSUME m.completes, p = 1 PROVE AskedUpto(u.of, m, Len(m.channels))
        <5>1. n = a /\ n <= a
          BY <4>4, <1>2
        <5>2. a = Len(m.channels)
          BY <4>4, <1>2
        <5> QED BY <5>1, <5>2, <4>4, <2>1, <2>4
      <4>5. Earlier(i, n) \in SUBSET Positions
        BY DEF Earlier
      <4> HIDE DEF p
      <4>6. /\ r \in Accumulator /\ Progress(u.of, r.of)
            /\ r.ok => Achieved(Earlier(i, n) \cup {<<i, p>>}, r.of, r.entries)
            /\ ~r.ok => Doomed(r.of)
        <5>1. u \in Accumulator /\ u.ok /\ Achieved(Earlier(i, n), u.of, u.entries)
          BY <2>1, <2>4
        <5> DEFINE Q == Earlier(i, n)
        <5>2. Q \in SUBSET Positions /\ <<i, p>> \notin Q /\ Achieved(Q, u.of, u.entries)
              /\ (m.completes /\ p # 1 => <<i, 1>> \in Q)
          BY <4>3, <4>5, <5>1
        <5>3. m = endpoints[i] /\ r = Perform(u, ClaimOf(m, p))
          BY <2>2, <4>2
        <5> HIDE DEF Q, u, m, r
        <5>4. m.completes /\ p = 1 => AskedUpto(u.of, m, Len(m.channels))
          BY <4>4
        <5>5. p \in Claims(m)
          BY <4>2
        <5> QED BY <5>1, <5>2, <5>3, <5>4, <5>5, <3>1, ClaimStep DEF Q
      <4> QED BY <4>3, <4>6, <3>3
    <3> QED BY <3>2, <3>3
  <2>5. CASE u.ok
    <3>1. u.of \in Protocols /\ r.of \in Protocols /\ acc.of \in Protocols
      BY <2>1, <2>4, <2>5 DEF Accumulator
    <3>2. Progress(acc.of, r.of)
      BY <3>1, <2>1, <2>4, <2>5, ProgressTransitive
    <3>3. acc.ok
      BY <2>1, <2>5
    <3> QED BY <2>4, <2>5, <3>2, <3>3
  <2> QED BY <2>3, <2>5
<1>9. P(L)
  <2>1. L \in Nat
    BY <1>2
  <2>2. L \in S
    <3> HIDE DEF S, L
    <3> QED BY <1>7, <1>8, <2>1, NatInd
  <2>3. L <= L
    BY <2>1
  <2> HIDE DEF P
  <2> QED BY <2>2, <2>3
<1> HIDE DEF L
<1> QED BY <1>4, <1>6, <1>9

\* RpcService.freeze serves every position, or the service is doomed (_freeze raises).
LEMMA ServiceOutcome ==
    ASSUME TreeOK, EndpointsTyped, protocolOf \in Protocols, Blank(protocolOf)
    PROVE  LET r == ServiceFreeze
           IN  /\ r \in Accumulator /\ Progress(protocolOf, r.of)
               /\ r.ok => Achieved(Positions, r.of, r.entries) /\ ~Unservable(r.entries)
               /\ ~r.ok => Doomed(r.of)
<1> DEFINE L == Len(endpoints)
           first == [ok |-> TRUE, of |-> protocolOf, entries |-> {}]
           Q(n) == {x \in Positions : x[1] < n + 1}
<1>1. L \in Nat /\ DOMAIN endpoints = 1..L
  BY PositionFacts
<1>2. PICK g : /\ ServiceRun(g)
               /\ LET all == g[L]
                  IN  ServiceFreeze = [all EXCEPT !.ok = all.ok /\ ~Unservable(all.entries)]
  BY <1>1, ServiceRunExists
<1>3. /\ g[0] = first
      /\ \A n \in 0..(L - 1) : g[n + 1] = FreezeEndpoint(g[n], endpoints[n + 1])
  <2>1. g = [n \in 0..L |-> IF n = 0 THEN first ELSE FreezeEndpoint(g[n - 1], endpoints[n])]
    BY <1>2 DEF ServiceRun
  <2>2. 0 \in 0..L /\ \A n \in 0..(L - 1) : n + 1 \in 0..L /\ n + 1 # 0 /\ (n + 1) - 1 = n
    BY <1>1
  <2> HIDE DEF L, first
  <2> QED BY <2>1, <2>2
<1> DEFINE P(n) == /\ g[n] \in Accumulator /\ Progress(protocolOf, g[n].of)
                   /\ g[n].ok => Achieved(Q(n), g[n].of, g[n].entries)
                   /\ ~g[n].ok => Doomed(g[n].of)
           S == {n \in Nat : n <= L => P(n)}
<1>4. 0 \in S
  <2>1. first \in Accumulator /\ first.of = protocolOf /\ first.ok /\ first.entries = {}
    BY DEF Accumulator
  <2>2. Q(0) = {}
    BY <1>1, PositionFacts
  <2>3. Achieved({}, protocolOf, {})
    BY DEF Achieved
  <2> HIDE DEF first, Q
  <2> QED BY <1>3, <2>1, <2>2, <2>3, ProgressReflexive
<1>5. ASSUME NEW n \in Nat, n \in S PROVE n + 1 \in S
  <2> SUFFICES ASSUME n + 1 <= L PROVE P(n + 1)
    OBVIOUS
  <2> DEFINE u == g[n]
             r == g[n + 1]
             i == n + 1
  <2>1. n \in 0..(L - 1) /\ i \in DOMAIN endpoints
    BY <1>1
  <2>2. P(n)
    <3>1. n <= L
      BY <1>1
    <3> HIDE DEF P
    <3> QED BY <1>5, <3>1
  <2>3. r = FreezeEndpoint(u, endpoints[i])
    BY <1>3, <2>1
  <2>4. Blank(u.of)
    BY <2>2, BlankStays
  <2>5. Q(n) = {x \in Positions : x[1] < i} /\ Q(n + 1) = {x \in Positions : x[1] < i + 1}
    OBVIOUS
  <2>6. u.ok => Achieved({x \in Positions : x[1] < i}, u.of, u.entries)
    BY <2>2
  <2>7. u \in Accumulator
    BY <2>2
  <2>8. /\ r \in Accumulator /\ Progress(u.of, r.of)
        /\ ~u.ok => r = u
        /\ r.ok => Achieved({x \in Positions : x[1] < i + 1}, r.of, r.entries)
        /\ u.ok /\ ~r.ok => Doomed(r.of)
    <3> HIDE DEF u, r, i
    <3> QED BY <2>1, <2>3, <2>4, <2>6, <2>7, EndpointOutcome
  <2>9. u.of \in Protocols /\ r.of \in Protocols
    BY <2>7, <2>8 DEF Accumulator
  <2>10. Progress(protocolOf, r.of)
    BY <2>2, <2>8, <2>9, ProgressTransitive
  <2>11. ~r.ok => Doomed(r.of)
    BY <2>2, <2>8
  <2>12. r.ok => Achieved(Q(n + 1), r.of, r.entries)
    BY <2>8
  <2> QED BY <2>8, <2>10, <2>11, <2>12
<1>6. P(L)
  <2>1. L \in S
    <3> HIDE DEF S, L
    <3> QED BY <1>1, <1>4, <1>5, NatInd
  <2>2. L <= L
    BY <1>1
  <2> HIDE DEF P
  <2> QED BY <2>1, <2>2
<1>7. Q(L) = Positions
  <2>1. \A x \in Positions : x[1] \in 1..L
    BY <1>1, PositionFacts
  <2> QED BY <1>1, <2>1
<1> DEFINE all == g[L]
           r == ServiceFreeze
<1>8. all \in Accumulator /\ r = [all EXCEPT !.ok = all.ok /\ ~Unservable(all.entries)]
  BY <1>2, <1>6
<1>9. r \in Accumulator /\ r.of = all.of /\ r.entries = all.entries
      /\ r.ok = (all.ok /\ ~Unservable(all.entries))
  <2> DEFINE v == all.ok /\ ~Unservable(all.entries)
  <2>1. v \in BOOLEAN
    BY <1>8 DEF Accumulator
  <2> HIDE DEF v, all, r
  <2> QED BY <1>8, <2>1 DEF Accumulator, v
<1>10. ASSUME all.ok, Unservable(all.entries) PROVE Doomed(all.of)
  <2>1. PICK e \in all.entries, f \in all.entries : Crossing(e.decl, f.decl)
    BY <1>10 DEF Unservable, Nested, Names, Crossing
  <2>2. Achieved(Positions, all.of, all.entries)
    BY <1>6, <1>7, <1>10
  <2>3. PICK x \in Positions : e \in Claim(all.of, x)
    BY <2>1, <2>2 DEF Achieved
  <2>4. PICK y \in Positions : f \in Claim(all.of, y)
    BY <2>1, <2>2 DEF Achieved
  <2>5. Conflict(all.of)
    BY <2>1, <2>2, <2>3, <2>4 DEF Conflict, Achieved
  <2> QED BY <2>5 DEF Doomed
<1> QED BY <1>6, <1>7, <1>9, <1>10

(***************************************************************************)
(* The invariant of the definitions                                        *)
(***************************************************************************)

\* The types of what an application defines
DefinitionTypes ==
    /\ TreeOK /\ EndpointsTyped
    /\ opened \subseteq Decls /\ late \subseteq declared
    /\ protocolOf \in Protocols
    /\ protocol \in [frozen : BOOLEAN, ops : SUBSET Entry]
    /\ failed \in BOOLEAN

\* A channel is made before its children and before its declarations.
Known ==
    /\ \A c \in Channels : children[c] # <<>> => Exists(c)
    /\ \A d \in opened \cup declared : Exists(d.ch)

\* No two endpoints of one name or one template
EndpointsApart ==
    \A i, j \in DOMAIN endpoints : i # j =>
        /\ EndpointName(endpoints[i]) # EndpointName(endpoints[j])
        /\ Normalized(endpoints[i].path) # Normalized(endpoints[j].path)

\* What is mounted as a stream or raw socket is one that was declared.
FunctionsMounted ==
    \A i \in DOMAIN endpoints : endpoints[i].kind # "socket" =>
        /\ endpoints[i].decls \subseteq declared
        /\ \A d \in endpoints[i].decls : d.kind = endpoints[i].kind

\* A frozen channel has what was declared in time, on it and below.
ChannelsSettled ==
    /\ Blank(protocolOf) /\ FrozenClosed(protocolOf)
    /\ \A d \in declared \ late : protocolOf[d.ch].frozen => d \in protocolOf[d.ch].ops

\* A frozen service serves what its frozen channels hold.
ServedExactly ==
    protocol.frozen => Achieved(Positions, protocolOf, protocol.ops) /\ ~Unservable(protocol.ops)

\* A freeze() that raised has left a reason for every later one.
FailedForGood == failed => Doomed(protocolOf) /\ ~protocol.frozen

DefinitionInv ==
    /\ DefinitionTypes /\ Known /\ EndpointsApart /\ FunctionsMounted
    /\ ChannelsSettled /\ ServedExactly /\ FailedForGood

\* A definition is as doomed with more children, declarations and endpoints.
LEMMA DoomedGrows ==
    ASSUME EndpointsTyped, protocolOf' = protocolOf,
           \A c \in Channels : ToSet(children[c]) \subseteq ToSet(children'[c]),
           declared \subseteq declared',
           \A i \in DOMAIN endpoints :
               i \in DOMAIN endpoints' /\ endpoints'[i] = endpoints[i],
           Doomed(protocolOf)
    PROVE  Doomed(protocolOf)'
<1>1. \A x \in Positions : /\ x \in Positions' /\ Channel(x)' = Channel(x)
                           /\ endpoints'[x[1]] = endpoints[x[1]]
                           /\ Claim(protocolOf, x)' = Claim(protocolOf, x)
                           /\ Channel(x) \in Channels
  <2>1. \A x \in Positions : x[1] \in DOMAIN endpoints /\ x[2] \in Claims(endpoints[x[1]])
                             /\ x = <<x[1], x[2]>> /\ Channel(x) \in Channels
    BY PositionFacts
  <2>2. \A x \in Positions : endpoints'[x[1]] = endpoints[x[1]] /\ x[1] \in DOMAIN endpoints'
    BY <2>1
  <2>3. \A x \in Positions : x \in Positions'
    <3> TAKE x \in Positions
    <3>1. x[1] \in DOMAIN endpoints' /\ x[2] \in Claims(endpoints'[x[1]])
      BY <2>1, <2>2
    <3>2. x = <<x[1], x[2]>>
      BY <2>1
    <3>3. <<x[1], x[2]>> \in Positions'
      BY <3>1 DEF Positions, Claims
    <3> QED BY <3>2, <3>3
  <2>4. \A x \in Positions : Channel(x)' = Channel(x)
    <3> TAKE x \in Positions
    <3>1. Channel(x)' = ChannelAt(endpoints'[x[1]], x[2])
      BY DEF Channel
    <3> QED BY <3>1, <2>2 DEF Channel
  <2>5. \A x \in Positions : Claim(protocolOf, x)' = Claim(protocolOf, x)
    <3> TAKE x \in Positions
    <3>1. Claim(protocolOf, x)' = ClaimAt(protocolOf', endpoints'[x[1]], x[2])
      BY DEF Claim
    <3> QED BY <3>1, <2>2 DEF Claim
  <2> QED BY <2>1, <2>2, <2>3, <2>4, <2>5
<1>2. CASE BadChannel(protocolOf)
  <2>1. PICK x \in Positions : \E b \in Subtree(Channel(x)) : Hopeless(b, protocolOf)
    BY <1>2 DEF BadChannel
  <2>2. PICK b \in Subtree(Channel(x)) : Hopeless(b, protocolOf)
    BY <2>1
  <2> DEFINE k == Channel(x)
  <2>3. b \in Subtree(k)'
    <3>1. k' = k /\ b \in Channels
      BY <1>1 DEF Subtree
    <3> SUFFICES ASSUME NEW W \in SUBSET Channels, k \in W,
                        \A j \in W : ToSet(children'[j]) \subseteq W
                 PROVE  b \in W
      BY <3>1 DEF Subtree
    <3>2. \A j \in W : ToSet(children[j]) \subseteq W
      OBVIOUS
    <3> QED BY <3>2 DEF Subtree
  <2>4. Hopeless(b, protocolOf)'
    <3>1. b \in Channels /\ ~protocolOf'[b].frozen
      BY <2>2 DEF Hopeless
    <3>2. Own(b) \subseteq Own(b)'
      BY DEF Own
    <3> DEFINE U == Own(b) \cup UNION {protocolOf[j].ops :
                        j \in {q \in ToSet(children[b]) : protocolOf[q].frozen}}
               V == Own(b)' \cup UNION {protocolOf'[j].ops :
                        j \in {q \in ToSet(children'[b]) : protocolOf'[q].frozen}}
    <3>3. U \subseteq V
      BY <3>1, <3>2
    <3>4. Clashes(U) => Clashes(V)
      BY <3>3 DEF Clashes
    <3>5. (\E d \in Own(b) : ~Sound(d)) \/ Clashes(U)
      BY <2>2 DEF Hopeless
    <3>6. (\E d \in Own(b)' : ~Sound(d)) \/ Clashes(V)
      BY <3>2, <3>4, <3>5
    <3> QED BY <3>1, <3>6 DEF Hopeless
  <2> QED BY <1>1, <2>3, <2>4 DEF BadChannel, Doomed
<1>3. CASE NoEvents(protocolOf)
  <2>1. NoEvents(protocolOf)'
    BY <1>1, <1>3 DEF NoEvents
  <2> QED BY <2>1 DEF Doomed
<1>4. CASE Conflict(protocolOf)
  <2>1. PICK x \in Positions, y \in Positions :
            /\ protocolOf[Channel(x)].frozen /\ protocolOf[Channel(y)].frozen
            /\ \/ x # y /\ Claim(protocolOf, x) \cap Claim(protocolOf, y) # {}
               \/ \E e \in Claim(protocolOf, x), f \in Claim(protocolOf, y) :
                      ~Apart(e, f) \/ Crossing(e.decl, f.decl)
    BY <1>4 DEF Conflict
  <2>2. Conflict(protocolOf)'
    BY <1>1, <2>1 DEF Conflict
  <2> QED BY <2>2 DEF Doomed
<1> QED BY <1>2, <1>3, <1>4 DEF Doomed

\* What was declared in time is in a channel once it is frozen.
LEMMA SettledStays ==
    ASSUME TreeOK, NEW a, NEW b, Progress(a, b), Blank(a), FrozenClosed(a),
           \A d \in declared \ late : a[d.ch].frozen => d \in a[d.ch].ops
    PROVE  /\ Blank(b) /\ FrozenClosed(b)
           /\ \A d \in declared \ late : b[d.ch].frozen => d \in b[d.ch].ops
<1>1. Blank(b)
  BY BlankStays
<1>2. FrozenClosed(b)
  <2> SUFFICES ASSUME NEW k \in Channels, b[k].frozen, NEW j \in ToSet(children[k])
               PROVE  b[j].frozen /\ b[j].ops \subseteq b[k].ops
    BY DEF FrozenClosed
  <2>1. CASE a[k].frozen
    <3>1. a[j].frozen /\ a[j].ops \subseteq a[k].ops /\ j \in Channels
      BY <2>1, ChildrenAreChannels DEF FrozenClosed
    <3> QED BY <2>1, <3>1 DEF Progress
  <2>2. CASE ~a[k].frozen
    BY <2>2 DEF Progress, Settled
  <2> QED BY <2>1, <2>2
<1>3. ASSUME NEW d \in declared \ late, b[d.ch].frozen PROVE d \in b[d.ch].ops
  <2>1. d.ch \in Channels /\ d \in Own(d.ch)
    BY DefinitionAssumption DEF TreeOK, Decl, Own
  <2>2. CASE a[d.ch].frozen
    BY <2>1, <2>2 DEF Progress
  <2>3. CASE ~a[d.ch].frozen
    BY <1>3, <2>1, <2>3 DEF Progress, Settled
  <2> QED BY <2>2, <2>3
<1> QED BY <1>1, <1>2, <1>3

\* What no declaration and no child can change
LEMMA EndpointsKeep ==
    ASSUME EndpointsTyped, UNCHANGED <<endpoints, protocolOf, protocol, failed>>,
           \A c \in Channels : ToSet(children[c]) \subseteq ToSet(children'[c]),
           declared \subseteq declared',
           EndpointsApart, FunctionsMounted, ServedExactly, FailedForGood
    PROVE  EndpointsApart' /\ FunctionsMounted' /\ ServedExactly' /\ FailedForGood'
<1>1. EndpointsApart'
  BY DEF EndpointsApart
<1>2. FunctionsMounted'
  BY DEF FunctionsMounted
<1>3. ServedExactly'
  <2>1. Positions' = Positions
    BY DEF Positions
  <2>2. \A x : Channel(x)' = Channel(x) /\ Claim(protocolOf, x)' = Claim(protocolOf, x)
    BY DEF Channel, Claim
  <2> QED BY <2>1, <2>2 DEF ServedExactly, Achieved
<1>4. FailedForGood'
  <2>1. failed => Doomed(protocolOf)'
    <3> SUFFICES ASSUME failed PROVE Doomed(protocolOf)'
      OBVIOUS
    <3>1. Doomed(protocolOf)
      BY DEF FailedForGood
    <3> QED BY <3>1, DoomedGrows
  <2> QED BY <2>1 DEF FailedForGood
<1> QED BY <1>1, <1>2, <1>3, <1>4

\* channel.child() keeps the invariant.
LEMMA ChildKeeps ==
    ASSUME DefinitionInv, NEW c \in Channels, Child(c)
    PROVE  DefinitionInv'
<1> DEFINE q == Parent[c]
<1> USE DEF DefinitionInv
<1>1. /\ q \in Channels /\ ~Exists(c) /\ Exists(q) /\ ~protocolOf[q].frozen
      /\ children' = [children EXCEPT ![q] = Append(children[q], c)]
      /\ UNCHANGED <<opened, declared, late, protocolOf, endpoints, protocol, failed>>
  BY DefinitionAssumption DEF Child, EnsureMutable
<1>2. children \in [Channels -> Seq(Channels)]
  BY DEF DefinitionTypes, TreeOK
<1>3. /\ children' \in [Channels -> Seq(Channels)]
      /\ \A k \in Channels : k # q => children'[k] = children[k]
      /\ children'[q] = Append(children[q], c)
  BY <1>1, <1>2
<1>4. ToSet(children'[q]) = ToSet(children[q]) \cup {c}
  <2> DEFINE s == children[q]
             L == Len(s)
             t == children'[q]
  <2>1. s \in Seq(Channels) /\ L \in Nat /\ DOMAIN s = 1..L
    BY <1>1, <1>2
  <2>2. t = Append(s, c) /\ Len(t) = L + 1 /\ DOMAIN t = 1..(L + 1)
        /\ \A i \in 1..L : t[i] = s[i]
    BY <2>1, <1>3
  <2>3. t[L + 1] = c
    BY <2>1, <2>2
  <2> HIDE DEF s, t, L
  <2>4. 1..(L + 1) = 1..L \cup {L + 1}
    BY <2>1
  <2> QED BY <2>1, <2>2, <2>3, <2>4 DEF ToSet, s, t
<1>5. \A k \in Channels : ToSet(children[k]) \subseteq ToSet(children'[k])
  BY <1>3, <1>4
<1>6. TreeOK'
  <2>1. \A k \in Channels : \A j \in ToSet(children'[k]) : Parent[j] = k
    <3> TAKE k \in Channels
    <3>1. \A j \in ToSet(children[k]) : Parent[j] = k
      BY DEF DefinitionTypes, TreeOK
    <3> QED BY <3>1, <1>3, <1>4
  <2> QED BY <1>1, <1>3, <2>1 DEF TreeOK, DefinitionTypes
<1>7. DefinitionTypes'
  BY <1>1, <1>6 DEF DefinitionTypes, EndpointsTyped
<1>8. Known'
  <2>1. \A k \in Channels : Exists(k) => Exists(k)'
    <3> TAKE k \in Channels
    <3>1. Parent[k] \in Channels \cup {NoChannel}
      BY DefinitionAssumption
    <3> QED BY <3>1, <1>5 DEF Exists
  <2>2. \A d \in opened \cup declared : d.ch \in Channels
    BY DefinitionAssumption DEF DefinitionTypes, TreeOK, Decl
  <2>3. \A k \in Channels : children'[k] # <<>> => Exists(k)'
    BY <1>1, <1>3, <2>1 DEF Known
  <2> QED BY <1>1, <2>1, <2>2, <2>3 DEF Known
<1>9. ChannelsSettled'
  <2>1. FrozenClosed(protocolOf)'
    <3>1. \A k \in Channels : protocolOf[k].frozen => children'[k] = children[k]
      BY <1>1, <1>3
    <3> QED BY <1>1, <3>1 DEF ChannelsSettled, FrozenClosed
  <2> QED BY <1>1, <2>1 DEF ChannelsSettled, Blank
<1>10. EndpointsApart' /\ FunctionsMounted' /\ ServedExactly' /\ FailedForGood'
  BY <1>1, <1>5, EndpointsKeep DEF DefinitionTypes
<1> QED BY <1>7, <1>8, <1>9, <1>10

\* So do the decorators and channel.client.method(),
LEMMA DeclareKeeps ==
    ASSUME DefinitionInv, NEW d \in Decls,
           OpenDecorator(d) \/ Decorate(d) \/ DeclareClientMethod(d)
    PROVE  DefinitionInv'
<1> USE DEF DefinitionInv
<1>1. UNCHANGED <<children, protocolOf, endpoints, protocol, failed>>
  BY DEF OpenDecorator, Decorate, DeclareClientMethod
<1>2. \/ opened' = opened \cup {d} /\ declared' = declared /\ late' = late /\ Exists(d.ch)
      \/ opened' = opened \ {d} /\ declared' = declared /\ late' = late
      \/ /\ d \in opened /\ opened' = opened \ {d} /\ declared' = declared \cup {d}
         /\ Decorates(d)
         /\ late' = IF protocolOf[d.ch].frozen THEN late \cup {d} ELSE late
      \/ /\ opened' = opened /\ declared' = declared \cup {d} /\ late' = late
         /\ Exists(d.ch) /\ ~protocolOf[d.ch].frozen /\ d.kind = "client"
  BY DEF OpenDecorator, Decorate, DeclareClientMethod, EnsureMutable
<1>3. /\ declared \subseteq declared' /\ declared' \subseteq declared \cup {d}
      /\ late' \subseteq declared' /\ opened' \subseteq opened \cup {d}
  BY <1>2 DEF DefinitionTypes
<1>4. DefinitionTypes'
  <2>1. TreeOK'
    BY <1>1, <1>3 DEF DefinitionTypes, TreeOK
  <2> QED BY <1>1, <1>3, <2>1 DEF DefinitionTypes, EndpointsTyped
<1>5. Known'
  <2>1. \A k : Exists(k)' = Exists(k)
    BY <1>1 DEF Exists
  <2> QED BY <1>1, <1>2, <2>1 DEF Known
<1>6. ChannelsSettled'
  <2>1. FrozenClosed(protocolOf)' /\ Blank(protocolOf)'
    BY <1>1 DEF ChannelsSettled, FrozenClosed, Blank
  <2>2. ASSUME NEW e \in declared' \ late', protocolOf[e.ch].frozen
        PROVE  e \in protocolOf[e.ch].ops
    BY <1>2, <2>2 DEF ChannelsSettled
  <2> QED BY <1>1, <2>1, <2>2 DEF ChannelsSettled
<1>7. EndpointsApart' /\ FunctionsMounted' /\ ServedExactly' /\ FailedForGood'
  BY <1>1, <1>3, EndpointsKeep DEF DefinitionTypes
<1> QED BY <1>4, <1>5, <1>6, <1>7

\* socket(), stream() and raw_socket(),
LEMMA MountKeeps ==
    ASSUME DefinitionInv, NEW m \in Mounts,
           MountSocket(m) \/ MountStream(m) \/ MountRawSocket(m)
    PROVE  DefinitionInv'
<1> USE DEF DefinitionInv
<1> DEFINE L == Len(endpoints)
<1>1. /\ UNCHANGED <<children, opened, declared, late, protocolOf, protocol, failed>>
      /\ endpoints' = Append(endpoints, m) /\ ~protocol.frozen /\ ValidEndpoint(m)
      /\ m.kind # "socket" => m.decls \subseteq declared /\ \A d \in m.decls : d.kind = m.kind
  BY DEF MountSocket, MountStream, MountRawSocket, MountFunction
<1>2. endpoints \in Seq(Mounts) /\ L \in Nat /\ DOMAIN endpoints = 1..L
  BY PositionFacts DEF DefinitionTypes, EndpointsTyped
<1>3. /\ endpoints' \in Seq(Mounts) /\ DOMAIN endpoints' = 1..(L + 1)
      /\ \A i \in 1..L : endpoints'[i] = endpoints[i]
      /\ endpoints'[L + 1] = m
  BY <1>1, <1>2
<1>4. \A i \in DOMAIN endpoints' : i \in 1..L \/ i = L + 1
  BY <1>2, <1>3
<1>5. DefinitionTypes'
  <2>1. TreeOK'
    BY <1>1 DEF DefinitionTypes, TreeOK
  <2> QED BY <1>1, <1>3, <2>1 DEF DefinitionTypes, EndpointsTyped
<1>6. Known'
  BY <1>1 DEF Known, Exists
<1>7. ChannelsSettled'
  BY <1>1 DEF ChannelsSettled, FrozenClosed, Blank
<1>8. EndpointsApart'
  <2>1. \A i \in 1..L : /\ EndpointName(endpoints[i]) # EndpointName(m)
                        /\ Normalized(endpoints[i].path) # Normalized(m.path)
    BY <1>1, <1>2 DEF ValidEndpoint, NameTaken, PathTaken
  <2> SUFFICES ASSUME NEW i \in DOMAIN endpoints', NEW j \in DOMAIN endpoints', i # j
               PROVE  /\ EndpointName(endpoints'[i]) # EndpointName(endpoints'[j])
                      /\ Normalized(endpoints'[i].path) # Normalized(endpoints'[j].path)
    BY DEF EndpointsApart
  <2>2. CASE i \in 1..L /\ j \in 1..L
    BY <1>2, <1>3, <2>2 DEF EndpointsApart
  <2>3. CASE i \in 1..L /\ j = L + 1
    BY <1>3, <2>1, <2>3
  <2>4. CASE i = L + 1 /\ j \in 1..L
    BY <1>3, <2>1, <2>4
  <2> QED BY <1>4, <2>2, <2>3, <2>4
<1>9. FunctionsMounted'
  <2>1. \A i \in 1..L : endpoints[i].kind # "socket" =>
            endpoints[i].decls \subseteq declared /\
            \A d \in endpoints[i].decls : d.kind = endpoints[i].kind
    BY <1>2 DEF FunctionsMounted
  <2> QED BY <1>1, <1>3, <1>4, <2>1 DEF FunctionsMounted
<1>10. ServedExactly'
  BY <1>1 DEF ServedExactly
<1>11. FailedForGood'
  <2> SUFFICES ASSUME failed PROVE Doomed(protocolOf)'
    BY <1>1 DEF FailedForGood
  <2>1. Doomed(protocolOf) /\ EndpointsTyped
    BY DEF FailedForGood, DefinitionTypes
  <2>2. \A i \in DOMAIN endpoints : i \in DOMAIN endpoints' /\ endpoints'[i] = endpoints[i]
    BY <1>2, <1>3
  <2> QED BY <1>1, <2>1, <2>2, DoomedGrows
<1> QED BY <1>5, <1>6, <1>7, <1>8, <1>9, <1>10, <1>11

\* What every freeze leaves alone, and what it does to the channels
LEMMA ProgressKeeps ==
    ASSUME DefinitionInv, UNCHANGED <<children, opened, declared, late, endpoints>>,
           NEW b \in Protocols, protocolOf' = b, Progress(protocolOf, b)
    PROVE  /\ TreeOK' /\ EndpointsTyped' /\ Known' /\ EndpointsApart'
           /\ FunctionsMounted' /\ ChannelsSettled'
           /\ opened' \subseteq Decls /\ late' \subseteq declared'
           /\ failed => Doomed(b)
<1> USE DEF DefinitionInv
<1>1. TreeOK' /\ EndpointsTyped' /\ opened' \subseteq Decls /\ late' \subseteq declared'
  BY DEF DefinitionTypes, TreeOK, EndpointsTyped
<1>2. Known' /\ EndpointsApart' /\ FunctionsMounted'
  BY DEF Known, Exists, EndpointsApart, FunctionsMounted
<1>3. /\ Blank(b) /\ FrozenClosed(b)
      /\ \A d \in declared \ late : b[d.ch].frozen => d \in b[d.ch].ops
  BY SettledStays DEF DefinitionTypes, ChannelsSettled
<1>4. ChannelsSettled'
  BY <1>3 DEF ChannelsSettled, FrozenClosed, Blank
<1>5. failed => Doomed(b)
  BY DoomedStays DEF FailedForGood, DefinitionTypes
<1> QED BY <1>1, <1>2, <1>4, <1>5

\* The reasons of a failure, read after a step that changes no definition
LEMMA ReadsPrimed ==
    ASSUME UNCHANGED <<endpoints, children, declared>>, NEW b, protocolOf' = b
    PROVE  /\ Doomed(b) => Doomed(protocolOf)'
           /\ Positions' = Positions
           /\ \A Q, E : Achieved(Q, b, E) <=> Achieved(Q, protocolOf, E)'
<1>1. Positions' = Positions
  BY DEF Positions
<1>2. \A x : Channel(x)' = Channel(x) /\ Claim(protocolOf, x)' = Claim(b, x)
  BY DEF Channel, Claim
<1>3. \A Q, E : Achieved(Q, b, E) <=> Achieved(Q, protocolOf, E)'
  BY <1>2 DEF Achieved
<1>4. BadChannel(b) => BadChannel(protocolOf)'
  <2>1. \A k : Subtree(k)' = Subtree(k) /\ (Hopeless(k, b) <=> Hopeless(k, protocolOf)')
    BY DEF Subtree, Hopeless, Own
  <2> QED BY <1>1, <1>2, <2>1 DEF BadChannel
<1>5. NoEvents(b) => NoEvents(protocolOf)'
  BY <1>1 DEF NoEvents
<1>6. Conflict(b) => Conflict(protocolOf)'
  BY <1>1, <1>2 DEF Conflict
<1>7. Doomed(b) => Doomed(protocolOf)'
  BY <1>4, <1>5, <1>6 DEF Doomed
<1> QED BY <1>1, <1>3, <1>7

(***************************************************************************)
(* The names of the client                                                 *)
(***************************************************************************)

\* The segments of names; the operations of a document have such names
Segments == DOMAIN Identifier
OpNames(contract) == \A op \in contract : op.name \in Seq(Segments) /\ op.name # <<>>

\* What is left of a path is its end, cut at some place.
LEMMA StrippedPath ==
    ASSUME NEW root \in Seq(Segments), NEW path \in Seq(Segments)
    PROVE  LET left == Stripped(root, path)
               cut == Len(path) - Len(left)
           IN  /\ left \in Seq(Segments)
               /\ Len(left) \in Nat /\ cut \in Nat /\ Len(path) = cut + Len(left)
               /\ cut = 0 \/ cut = Len(root)
               /\ \A i \in 1..Len(left) : left[i] = path[cut + i]
<1>1. Len(path) \in Nat /\ Len(root) \in Nat
  BY LenProperties
<1>2. CASE root # <<>> /\ IsPrefix(root, path)
  <2> DEFINE left == SubSeq(path, Len(root) + 1, Len(path))
  <2>1. Stripped(root, path) = left
    BY <1>2 DEF Stripped
  <2>2. Len(root) <= Len(path)
    BY <1>2 DEF IsPrefix
  <2>3. left \in Seq(Segments)
    BY <1>1, <2>2, SubSeqProperties
  <2>4. Len(left) = Len(path) - Len(root)
    BY <1>1, <2>2, SubSeqProperties
  <2>5. \A i \in 1..Len(left) : left[i] = path[Len(root) + i]
    BY <1>1, <2>2, <2>4, SubSeqProperties
  <2> HIDE DEF left
  <2>6. Len(path) - Len(left) = Len(root)
    BY <1>1, <2>2, <2>4
  <2> QED BY <1>1, <2>1, <2>2, <2>3, <2>4, <2>5, <2>6
<1>3. CASE ~(root # <<>> /\ IsPrefix(root, path))
  <2>1. Stripped(root, path) = path
    BY <1>3 DEF Stripped
  <2>2. Len(path) - Len(path) = 0
    BY <1>1
  <2> QED BY <1>1, <2>1, <2>2
<1> QED BY <1>2, <1>3

\* _api_name returns a segment.
LEMMA ApiNameIsSegment ==
    ASSUME NEW opts \in Options, NEW path \in Seq(Segments),
           NEW i \in 1..Len(Stripped(opts.root, path))
    PROVE  ApiName(opts, path, i) \in Segments
<1> DEFINE keys == AliasKeys(opts.root, path, i)
           known == {j \in DOMAIN keys : keys[j] \in DOMAIN opts.names}
<1>1. Stripped(opts.root, path)[i] \in Segments
  BY StrippedPath, ElementOfSeq, GenerationAssumption DEF Segments
<1>2. DOMAIN keys = 1..3
  BY DEF AliasKeys
<1>3. ASSUME known # {} PROVE opts.names[keys[Min(known)]] \in Segments
  <2>1. known \subseteq Nat
    BY <1>2
  <2>2. Min(known) \in known
    BY <1>3, <2>1, MinOfNaturals
  <2> QED BY <2>2, GenerationAssumption DEF Segments
<1>4. \/ Applied(opts, path, i) = {}
      \/ /\ known # {} /\ Applied(opts, path, i) = {keys[Min(known)]}
         /\ (CHOOSE k \in Applied(opts, path, i) : TRUE) = keys[Min(known)]
  BY DEF Applied
<1> HIDE DEF keys, known
<1> QED BY <1>1, <1>3, <1>4 DEF ApiName

\* What the client shows of an operation are segments.
LEMMA ViewIsNames ==
    ASSUME NEW opts \in Options, NEW contract, OpNames(contract)
    PROVE  LET view == View(opts, contract)
           IN  /\ DOMAIN view = Exposed(contract)
               /\ \A op \in DOMAIN view :
                      /\ op \in contract /\ op.name \in Seq(Segments) /\ op.name # <<>>
                      /\ Path(op) \in Seq(Segments) /\ view[op] \in Seq(Segments)
                      /\ Len(view[op]) = Len(Stripped(opts.root, Path(op)))
                      /\ view[op] = Visible(opts, op)
<1> DEFINE view == View(opts, contract)
<1>1. DOMAIN view = Exposed(contract) /\ \A op \in DOMAIN view : view[op] = Visible(opts, op)
  BY DEF View
<1>2. ASSUME NEW op \in Exposed(contract)
      PROVE  /\ op \in contract /\ op.name \in Seq(Segments) /\ op.name # <<>>
             /\ Path(op) \in Seq(Segments) /\ Visible(opts, op) \in Seq(Segments)
             /\ Len(Visible(opts, op)) = Len(Stripped(opts.root, Path(op)))
  <2>1. op \in contract /\ op.name \in Seq(Segments) /\ op.name # <<>>
    BY DEF Exposed, OpNames
  <2>2. Path(op) \in Seq(Segments)
    <3>1. Len(op.name) \in Nat /\ 1 <= Len(op.name)
      BY <2>1, EmptySeq
    <3>2. SubSeq(op.name, 1, Len(op.name) - 1) \in Seq(Segments)
      BY <2>1, <3>1, SubSeqProperties
    <3> QED BY <3>2 DEF Path, Front
  <2> DEFINE left == Stripped(opts.root, Path(op))
             shown == [i \in DOMAIN left |-> ApiName(opts, Path(op), i)]
  <2>3. opts.root \in Seq(Segments)
    BY GenerationAssumption DEF Segments
  <2>4. left \in Seq(Segments)
    BY <2>2, <2>3, StrippedPath
  <2>5. \A i \in 1..Len(left) : ApiName(opts, Path(op), i) \in Segments
    BY <2>2, ApiNameIsSegment
  <2>6. shown \in Seq(Segments) /\ Len(shown) = Len(left)
    <3>1. DOMAIN left = 1..Len(left) /\ Len(left) \in Nat
      BY <2>4, LenProperties
    <3> QED BY <2>5, <3>1, IsASeq
  <2>7. Visible(opts, op) = IF IsStream(op) THEN left ELSE shown
    BY DEF Visible
  <2> QED BY <2>1, <2>2, <2>4, <2>6, <2>7
<1> QED BY <1>1, <1>2

\* The files of a client have a place in the order of writing.
LEMMA RenderedFiles ==
    ASSUME NEW opts \in Options, NEW contract, OpNames(contract)
    PROVE  /\ DOMAIN Render(opts, contract) \subseteq ToSet(Files)
           /\ Render(opts, contract) = [f \in DOMAIN Render(opts, contract) |->
                                           Render(opts, contract)[f]]
<1> DEFINE view == View(opts, contract)
           names == {Head(Files)} \cup {Identifier[n[1]] : n \in Top(view)}
<1>1. DOMAIN Render(opts, contract) = names
  BY DEF Render
<1>2. Head(Files) \in ToSet(Files)
  <2>1. Files \in Seq(STRING) /\ Files # <<>>
    BY GenerationAssumption
  <2>2. Head(Files) = Files[1] /\ 1 \in DOMAIN Files
    BY <2>1
  <2> QED BY <2>2 DEF ToSet
<1>3. ASSUME NEW n \in Top(view) PROVE Identifier[n[1]] \in ToSet(Files)
  <2>1. PICK op \in DOMAIN view : view[op] # <<>> /\ n = <<view[op][1]>>
    BY DEF Top
  <2>2. view[op] \in Seq(Segments)
    BY ViewIsNames
  <2>3. view[op][1] \in Segments
    BY <2>1, <2>2
  <2>4. n[1] \in Segments
    BY <2>1, <2>3
  <2> QED BY <2>4, GenerationAssumption DEF Segments
<1>4. Render(opts, contract) = [f \in DOMAIN Render(opts, contract) |->
                                   Render(opts, contract)[f]]
  BY DEF Render
<1> QED BY <1>1, <1>2, <1>3, <1>4

(***************************************************************************)
(* The writer                                                              *)
(***************************************************************************)

\* The states of a generation
JobStates == {"idle", "writing", "open", "listing", "removing", "finished"}

\* The files of the running generation, and what each should hold
Written(f) == f = ContractFile \/ f \in DOMAIN job.files
\* What a file should hold, and the files written so far that hold it
Right(f) == IF f = ContractFile THEN Made(job.contract) ELSE job.files[f]
Done(n) ==
    \A i \in 1..n : Written(Everything[i]) => disk[Everything[i]] = Right(Everything[i])

\* The files of the directory that some manifest lists
Listed == IF job.st = "idle" THEN manifest.files ELSE DOMAIN job.files \cup job.stale

\* The types of the output directory and of the running generation
WriterTypes ==
    /\ job = [st |-> job.st, files |-> job.files, contract |-> job.contract,
              stale |-> job.stale, at |-> job.at]
    /\ job.st \in JobStates
    /\ disk = [f \in ToSet(Everything) |-> disk[f]]
    /\ DOMAIN job.files \subseteq ToSet(Files) /\ manifest.files \subseteq ToSet(Files)
    /\ job.stale \subseteq ToSet(Files) \ DOMAIN job.files

\* The files up to job.at are right; then the manifest is; nothing is on disk that was not
\* listed, unless a generation was killed when something on disk was not.
WriterInv ==
    /\ WriterTypes
    /\ job.st = "writing" => job.at \in 1..(Len(Everything) + 1) /\ Done(job.at - 1)
    /\ job.st = "open" => /\ job.at \in 1..Len(Everything) /\ Done(job.at - 1)
                          /\ Written(Everything[job.at])
    /\ job.st \in {"listing", "removing", "finished"} => Done(Len(Everything))
    /\ job.st \in {"removing", "finished"} =>
           manifest = ManifestOf(job.files, job.contract)
    /\ job.st = "finished" => job.stale = {}
    /\ ~disturbed => \A f \in ToSet(Files) : disk[f] # Absent => f \in Listed

\* The order of writing: the contract first, then the files
LEMMA EverythingFacts ==
    /\ Len(Everything) \in Nat /\ 1 <= Len(Everything)
    /\ DOMAIN Everything = 1..Len(Everything)
    /\ ToSet(Everything) = {ContractFile} \cup ToSet(Files)
    /\ \A i \in 1..Len(Everything) : Everything[i] \in ToSet(Everything)
    /\ \A f \in ToSet(Everything) : \E i \in 1..Len(Everything) : Everything[i] = f
<1> DEFINE S == STRING \cup {ContractFile}
           one == <<ContractFile>>
<1>1. Files \in Seq(S) /\ one \in Seq(S) /\ Len(one) = 1 /\ one[1] = ContractFile
  BY GenerationAssumption
<1>2. Len(Files) \in Nat /\ DOMAIN Files = 1..Len(Files)
  BY <1>1, LenProperties
<1>3. /\ one \o Files \in Seq(S) /\ Len(one \o Files) = 1 + Len(Files)
      /\ \A i \in 1..(1 + Len(Files)) :
             (one \o Files)[i] = IF i <= 1 THEN one[i] ELSE Files[i - 1]
  <2> HIDE DEF one, S
  <2>1. /\ one \o Files \in Seq(S) /\ Len(one \o Files) = Len(one) + Len(Files)
        /\ \A i \in 1..(Len(one) + Len(Files)) :
               (one \o Files)[i] = IF i <= Len(one) THEN one[i] ELSE Files[i - Len(one)]
    BY <1>1, ConcatProperties
  <2>2. Len(one) = 1
    BY <1>1
  <2> QED BY <2>1, <2>2
<1>4. DOMAIN (one \o Files) = 1..(1 + Len(Files))
  <2> HIDE DEF one, S
  <2> QED BY <1>3, LenProperties
<1>5. ToSet(one \o Files) = {ContractFile} \cup ToSet(Files)
  <2>1. ASSUME NEW f \in ToSet(one \o Files) PROVE f \in {ContractFile} \cup ToSet(Files)
    <3>1. PICK i \in 1..(1 + Len(Files)) : f = (one \o Files)[i]
      BY <1>4 DEF ToSet
    <3>2. CASE i = 1
      BY <3>1, <3>2, <1>1, <1>3
    <3>3. CASE i # 1
      <4>1. f = Files[i - 1] /\ i - 1 \in 1..Len(Files)
        BY <3>1, <3>3, <1>2, <1>3
      <4> QED BY <4>1, <1>2 DEF ToSet
    <3> QED BY <3>2, <3>3
  <2>2. ContractFile \in ToSet(one \o Files)
    <3>1. 1 \in 1..(1 + Len(Files))
      BY <1>2
    <3>2. (one \o Files)[1] = ContractFile
      BY <3>1, <1>1, <1>3
    <3> QED BY <3>1, <3>2, <1>4 DEF ToSet
  <2>3. ASSUME NEW f \in ToSet(Files) PROVE f \in ToSet(one \o Files)
    <3>1. PICK j \in 1..Len(Files) : f = Files[j]
      BY <1>2 DEF ToSet
    <3>2. j + 1 \in 1..(1 + Len(Files)) /\ ~(j + 1 <= 1) /\ (j + 1) - 1 = j
      BY <1>2
    <3>3. (one \o Files)[j + 1] = Files[j]
      BY <3>2, <1>3
    <3> QED BY <3>1, <3>2, <3>3, <1>4 DEF ToSet
  <2> QED BY <2>1, <2>2, <2>3
<1>6. Everything = one \o Files
  BY DEF Everything
<1>7. /\ \A i \in 1..(1 + Len(Files)) : (one \o Files)[i] \in ToSet(one \o Files)
      /\ \A f \in ToSet(one \o Files) : \E i \in 1..(1 + Len(Files)) : (one \o Files)[i] = f
  BY <1>4 DEF ToSet
<1>8. 1 + Len(Files) \in Nat /\ 1 <= 1 + Len(Files)
  BY <1>2
<1> HIDE DEF one
<1> QED BY <1>3, <1>4, <1>5, <1>6, <1>7, <1>8

\* A generation starts with all files to do.
LEMMA GenerateWrites ==
    ASSUME WriterInv, NEW opts \in Options, NEW contract, OpNames(contract),
           Generate(opts, contract)
    PROVE  WriterInv'
<1> DEFINE files == Render(opts, contract)
<1>1. /\ job' = [st |-> "writing", files |-> files, contract |-> contract,
                 stale |-> Stale(files), at |-> 1]
      /\ disk' = disk /\ manifest' = manifest /\ disturbed' = disturbed
      /\ job.st \in {"idle", "finished"}
  BY DEF Generate
<1>2. DOMAIN files \subseteq ToSet(Files)
  BY RenderedFiles
<1> HIDE DEF files
<1>3. /\ job'.st = "writing" /\ job'.files = files /\ job'.contract = contract
      /\ job'.stale = manifest.files \ DOMAIN files /\ job'.at = 1
  BY <1>1 DEF Stale
<1>4. WriterTypes'
  BY <1>1, <1>2, <1>3 DEF WriterInv, WriterTypes, JobStates
<1>5. 1 \in 1..(Len(Everything) + 1) /\ (Done(0))'
  BY EverythingFacts DEF Done
<1>6. ASSUME ~disturbed, NEW f \in ToSet(Files), disk[f] # Absent
      PROVE  f \in DOMAIN files \cup (manifest.files \ DOMAIN files)
  <2>1. f \in manifest.files
    <3>1. CASE job.st = "idle"
      BY <3>1, <1>6 DEF WriterInv, Listed
    <3>2. CASE job.st = "finished"
      BY <3>2, <1>6 DEF WriterInv, Listed, ManifestOf
    <3> QED BY <1>1, <3>1, <3>2
  <2> QED BY <2>1
<1>7. (~disturbed => \A f \in ToSet(Files) : disk[f] # Absent => f \in Listed)'
  BY <1>1, <1>3, <1>6 DEF Listed
<1> QED BY <1>3, <1>4, <1>5, <1>7 DEF WriterInv

\* Every write, every removal, every kill and every edit keeps what is done as it is.
LEMMA WriterWrites ==
    ASSUME WriterInv, WriterNext
    PROVE  WriterInv'
<1> DEFINE N == Len(Everything)
           f == Everything[job.at]
<1>0. N \in Nat /\ \A i \in 1..N : Everything[i] \in ToSet(Everything)
  BY EverythingFacts
<1> USE DEF JobStates
<1>1. ASSUME OpenFile, disk[f] = Wanted PROVE WriterInv'
  <2>1. /\ job' = [job EXCEPT !.at = @ + 1] /\ disk' = disk /\ manifest' = manifest
        /\ disturbed' = disturbed /\ job.st = "writing" /\ job.at <= N
    BY <1>1 DEF OpenFile
  <2>2. /\ job'.st = "writing" /\ job'.files = job.files /\ job'.contract = job.contract
        /\ job'.stale = job.stale /\ job'.at = job.at + 1
    BY <2>1 DEF WriterInv, WriterTypes
  <2>3. WriterTypes'
    BY <2>1, <2>2 DEF WriterInv, WriterTypes
  <2>4. job.at \in 1..N /\ Done(job.at - 1)
    BY <2>1, <1>0 DEF WriterInv
  <2>5. ASSUME NEW i \in 1..job.at, Written(Everything[i])
        PROVE  disk[Everything[i]] = Right(Everything[i])
    <3>1. CASE i = job.at
      BY <3>1, <2>5, <1>1 DEF Wanted, Right, Written
    <3>2. CASE i # job.at
      <4>1. i \in 1..(job.at - 1)
        BY <3>2, <2>4
      <4> QED BY <4>1, <2>4, <2>5 DEF Done
    <3> QED BY <3>1, <3>2
  <2>6. (job.at + 1) - 1 = job.at /\ job.at + 1 \in 1..(N + 1)
    BY <2>4, <1>0
  <2>7. Done(job.at - 1)'
    BY <2>1, <2>2, <2>5, <2>6 DEF Done, Written, Right
  <2>8. Listed' = Listed
    BY <2>1, <2>2 DEF Listed
  <2> QED BY <2>1, <2>2, <2>3, <2>6, <2>7, <2>8 DEF WriterInv
<1>2. ASSUME OpenFile, disk[f] # Wanted PROVE WriterInv'
  <2>1. /\ job' = [job EXCEPT !.st = "open"] /\ disk' = [disk EXCEPT ![f] = Partial]
        /\ manifest' = manifest
        /\ disturbed' = disturbed /\ job.st = "writing" /\ job.at <= N
    BY <1>2 DEF OpenFile
  <2>2. /\ job'.st = "open" /\ job'.files = job.files /\ job'.contract = job.contract
        /\ job'.stale = job.stale /\ job'.at = job.at
    BY <2>1 DEF WriterInv, WriterTypes
  <2>3. job.at \in 1..N /\ Done(job.at - 1)
    BY <2>1, <1>0 DEF WriterInv
  <2>4. f \in ToSet(Everything) /\ disk = [g \in ToSet(Everything) |-> disk[g]]
    BY <1>0, <2>3 DEF WriterInv, WriterTypes
  <2>5. disk' = [g \in ToSet(Everything) |-> disk'[g]]
        /\ disk'[f] = Partial /\ \A g \in ToSet(Everything) : g # f => disk'[g] = disk[g]
    BY <2>1, <2>4
  <2>6. WriterTypes'
    BY <2>1, <2>2, <2>5 DEF WriterInv, WriterTypes
  <2>7. Written(f) /\ disk[f] # Right(f)
    BY <1>2 DEF Wanted, Written, Right
  <2>8. ASSUME NEW i \in 1..(job.at - 1), Written(Everything[i])
        PROVE  disk'[Everything[i]] = Right(Everything[i])
    <3>1. disk[Everything[i]] = Right(Everything[i])
      BY <2>8, <2>3 DEF Done
    <3>2. Everything[i] \in ToSet(Everything)
      BY <2>3, <1>0
    <3> QED BY <3>1, <3>2, <2>5, <2>7
  <2>9. Done(job.at - 1)' /\ Written(Everything[job.at])'
    BY <2>2, <2>7, <2>8 DEF Done, Written, Right
  <2>10. ASSUME NEW g \in ToSet(Files), ~disturbed', disk'[g] # Absent PROVE g \in Listed'
    <3>1. g \in ToSet(Everything)
      BY EverythingFacts
    <3>2. /\ Listed' = DOMAIN job.files \cup job.stale
          /\ Listed = DOMAIN job.files \cup job.stale
      BY <2>1, <2>2 DEF Listed
    <3>3. CASE g = f
      <4>1. g # ContractFile
        BY GenerationAssumption
      <4> QED BY <3>3, <4>1, <3>2, <2>7 DEF Written
    <3>4. CASE g # f
      BY <3>1, <3>2, <3>4, <2>1, <2>5, <2>10 DEF WriterInv
    <3> QED BY <3>3, <3>4
  <2> QED BY <2>2, <2>3, <2>6, <2>9, <2>10 DEF WriterInv
<1>3. ASSUME WriteFile PROVE WriterInv'
  <2>1. /\ job' = [job EXCEPT !.st = "writing", !.at = @ + 1]
        /\ disk' = [disk EXCEPT ![f] = Wanted]
        /\ manifest' = manifest /\ disturbed' = disturbed /\ job.st = "open"
    BY <1>3 DEF WriteFile
  <2>2. /\ job'.st = "writing" /\ job'.files = job.files /\ job'.contract = job.contract
        /\ job'.stale = job.stale /\ job'.at = job.at + 1
    BY <2>1 DEF WriterInv, WriterTypes
  <2>3. job.at \in 1..N /\ Done(job.at - 1) /\ Written(f)
    BY <2>1 DEF WriterInv
  <2>4. f \in ToSet(Everything) /\ disk = [g \in ToSet(Everything) |-> disk[g]]
    BY <1>0, <2>3 DEF WriterInv, WriterTypes
  <2>5. Wanted = Right(f)
    BY <2>3 DEF Wanted, Right, Written
  <2>6. /\ disk' = [g \in ToSet(Everything) |-> disk'[g]]
        /\ disk'[f] = Right(f) /\ \A g \in ToSet(Everything) : g # f => disk'[g] = disk[g]
    BY <2>1, <2>4, <2>5
  <2>7. WriterTypes'
    BY <2>1, <2>2, <2>6 DEF WriterInv, WriterTypes
  <2>8. ASSUME NEW i \in 1..job.at, Written(Everything[i])
        PROVE  disk'[Everything[i]] = Right(Everything[i])
    <3>1. CASE Everything[i] = f
      BY <3>1, <2>6
    <3>2. CASE Everything[i] # f
      <4>1. i \in 1..(job.at - 1)
        BY <3>2, <2>3
      <4>2. Everything[i] \in ToSet(Everything)
        BY <2>3, <1>0
      <4> QED BY <3>2, <4>1, <4>2, <2>3, <2>6, <2>8 DEF Done
    <3> QED BY <3>1, <3>2
  <2>9. (job.at + 1) - 1 = job.at /\ job.at + 1 \in 1..(N + 1)
    BY <2>3, <1>0
  <2>10. Done(job.at - 1)'
    BY <2>2, <2>8, <2>9 DEF Done, Written, Right
  <2>11. ASSUME NEW g \in ToSet(Files), ~disturbed', disk'[g] # Absent PROVE g \in Listed'
    <3>1. g \in ToSet(Everything)
      BY EverythingFacts
    <3>2. /\ Listed' = DOMAIN job.files \cup job.stale
          /\ Listed = DOMAIN job.files \cup job.stale
      BY <2>1, <2>2 DEF Listed
    <3>3. CASE g = f
      <4>1. g # ContractFile
        BY GenerationAssumption
      <4> QED BY <3>3, <4>1, <3>2, <2>3 DEF Written
    <3>4. CASE g # f
      BY <3>1, <3>2, <3>4, <2>1, <2>6, <2>11 DEF WriterInv
    <3> QED BY <3>3, <3>4
  <2> QED BY <2>2, <2>7, <2>9, <2>10, <2>11 DEF WriterInv
<1>4. ASSUME OpenManifest PROVE WriterInv'
  <2>1. /\ job.st = "writing" /\ job.at = N + 1 /\ disk' = disk /\ disturbed' = disturbed
    BY <1>4 DEF OpenManifest
  <2>2. Done(N)
    <3>1. (N + 1) - 1 = N
      BY <1>0
    <3> QED BY <2>1, <3>1 DEF WriterInv
  <2>3. CASE manifest = ManifestOf(job.files, job.contract)
    <3>1. job' = [job EXCEPT !.st = "removing"] /\ manifest' = manifest
      BY <1>4, <2>3 DEF OpenManifest
    <3>2. /\ job'.st = "removing" /\ job'.files = job.files /\ job'.contract = job.contract
          /\ job'.stale = job.stale /\ job'.at = job.at
      BY <3>1 DEF WriterInv, WriterTypes
    <3>3. WriterTypes'
      BY <2>1, <3>1, <3>2 DEF WriterInv, WriterTypes
    <3>4. Done(N)' /\ Listed' = Listed /\ manifest' = ManifestOf(job'.files, job'.contract)
      BY <2>1, <2>2, <2>3, <3>1, <3>2 DEF Done, Written, Right, Listed
    <3> QED BY <2>1, <3>2, <3>3, <3>4 DEF WriterInv
  <2>4. CASE manifest # ManifestOf(job.files, job.contract)
    <3>1. job' = [job EXCEPT !.st = "listing"] /\ manifest' = TornManifest
      BY <1>4, <2>4 DEF OpenManifest
    <3>2. /\ job'.st = "listing" /\ job'.files = job.files /\ job'.contract = job.contract
          /\ job'.stale = job.stale /\ job'.at = job.at
      BY <3>1 DEF WriterInv, WriterTypes
    <3>3. WriterTypes'
      BY <2>1, <3>1, <3>2 DEF WriterInv, WriterTypes, TornManifest
    <3>4. Done(N)' /\ Listed' = Listed
      BY <2>1, <2>2, <3>1, <3>2 DEF Done, Written, Right, Listed
    <3> QED BY <2>1, <3>2, <3>3, <3>4 DEF WriterInv
  <2> QED BY <2>3, <2>4
<1>5. ASSUME WriteManifest PROVE WriterInv'
  <2>1. /\ job.st = "listing" /\ disk' = disk /\ disturbed' = disturbed
        /\ job' = [job EXCEPT !.st = "removing"]
        /\ manifest' = ManifestOf(job.files, job.contract)
    BY <1>5 DEF WriteManifest
  <2>2. /\ job'.st = "removing" /\ job'.files = job.files /\ job'.contract = job.contract
        /\ job'.stale = job.stale /\ job'.at = job.at
    BY <2>1 DEF WriterInv, WriterTypes
  <2>3. WriterTypes'
    BY <2>1, <2>2 DEF WriterInv, WriterTypes, ManifestOf
  <2>4. Done(N)' /\ Listed' = Listed /\ manifest' = ManifestOf(job'.files, job'.contract)
    BY <2>1, <2>2 DEF Done, Written, Right, Listed, WriterInv
  <2> QED BY <2>1, <2>2, <2>3, <2>4 DEF WriterInv
<1>6. ASSUME RemoveStale PROVE WriterInv'
  <2> DEFINE at == {i \in DOMAIN Files : Files[i] \in job.stale}
             g == Files[Min(at)]
  <2>1. /\ job.st = "removing" /\ job.stale # {} /\ manifest' = manifest
        /\ disturbed' = disturbed
        /\ disk' = [disk EXCEPT ![g] = Absent]
        /\ job' = [job EXCEPT !.stale = @ \ {g}]
    BY <1>6 DEF RemoveStale
  <2>2. g \in job.stale
    <3>1. DOMAIN Files = 1..Len(Files) /\ Len(Files) \in Nat
      BY GenerationAssumption, LenProperties
    <3>2. at \subseteq Nat /\ at # {}
      BY <2>1, <3>1 DEF WriterInv, WriterTypes, ToSet
    <3>3. Min(at) \in at
      BY <3>2, MinOfNaturals
    <3> QED BY <3>3
  <2> HIDE DEF g
  <2>3. /\ job'.st = "removing" /\ job'.files = job.files /\ job'.contract = job.contract
        /\ job'.stale = job.stale \ {g} /\ job'.at = job.at
    BY <2>1 DEF WriterInv, WriterTypes
  <2>4. /\ g \in ToSet(Files) /\ g \in ToSet(Everything) /\ ~Written(g)
    BY <2>2, EverythingFacts, GenerationAssumption DEF WriterInv, WriterTypes, Written
  <2>5. /\ disk' = [h \in ToSet(Everything) |-> disk'[h]]
        /\ disk'[g] = Absent /\ \A h \in ToSet(Everything) : h # g => disk'[h] = disk[h]
    BY <2>1, <2>4 DEF WriterInv, WriterTypes
  <2>6. WriterTypes'
    BY <2>1, <2>3, <2>5 DEF WriterInv, WriterTypes
  <2>7. ASSUME NEW i \in 1..N, Written(Everything[i])
        PROVE  disk'[Everything[i]] = Right(Everything[i])
    <3>1. Everything[i] # g /\ Everything[i] \in ToSet(Everything)
      BY <2>4, <2>7, <1>0
    <3> QED BY <3>1, <2>1, <2>5, <2>7 DEF WriterInv, Done
  <2>8. Done(N)' /\ manifest' = ManifestOf(job'.files, job'.contract)
    BY <2>1, <2>3, <2>7 DEF Done, Written, Right, WriterInv
  <2>9. ASSUME NEW h \in ToSet(Files), ~disturbed', disk'[h] # Absent PROVE h \in Listed'
    <3>1. h # g /\ h \in ToSet(Everything)
      BY <2>5, <2>9, EverythingFacts
    <3>2. h \in DOMAIN job.files \cup job.stale
      BY <3>1, <2>1, <2>5, <2>9 DEF WriterInv, Listed
    <3> QED BY <3>1, <3>2, <2>3 DEF Listed
  <2> QED BY <2>3, <2>6, <2>8, <2>9 DEF WriterInv
<1>7. ASSUME Finish PROVE WriterInv'
  <2>1. /\ job.st = "removing" /\ job.stale = {} /\ disk' = disk /\ manifest' = manifest
        /\ disturbed' = disturbed /\ job' = [job EXCEPT !.st = "finished", !.at = 0]
    BY <1>7 DEF Finish
  <2>2. /\ job'.st = "finished" /\ job'.files = job.files /\ job'.contract = job.contract
        /\ job'.stale = {} /\ job'.at = 0
    BY <2>1 DEF WriterInv, WriterTypes
  <2>3. WriterTypes'
    BY <2>1, <2>2 DEF WriterInv, WriterTypes
  <2>4. Done(N)' /\ Listed' = Listed /\ manifest' = ManifestOf(job'.files, job'.contract)
    BY <2>1, <2>2 DEF Done, Written, Right, Listed, WriterInv
  <2> QED BY <2>1, <2>2, <2>3, <2>4 DEF WriterInv
<1>8. ASSUME Kill PROVE WriterInv'
  <2>1. /\ job' = Idle /\ disturbed' = (disturbed \/ Forgotten # {})
        /\ disk' = disk /\ manifest' = manifest
    BY <1>8 DEF Kill
  <2>2. /\ job'.st = "idle" /\ job'.files = <<>> /\ job'.contract = {}
        /\ job'.stale = {} /\ job'.at = 0
    BY <2>1 DEF Idle
  <2>3. WriterTypes'
    BY <2>1, <2>2 DEF WriterInv, WriterTypes, Idle
  <2>4. ASSUME NEW h \in ToSet(Files), ~disturbed', disk'[h] # Absent PROVE h \in Listed'
    <3>1. Forgotten = {} /\ disk[h] # Absent
      BY <2>1, <2>4
    <3>2. h \in manifest.files
      BY <3>1 DEF Forgotten
    <3> QED BY <3>2, <2>1, <2>2 DEF Listed
  <2> QED BY <2>1, <2>2, <2>3, <2>4 DEF WriterInv
<1>9. ASSUME NEW g \in ToSet(Everything), Touch(g) PROVE WriterInv'
  <2>1. PICK content \in {Edited, Absent} : disk' = [disk EXCEPT ![g] = content]
    BY <1>9 DEF Touch
  <2>2. /\ job.st \in {"idle", "finished"} /\ disk[g] # Absent
        /\ job' = Idle /\ manifest' = manifest /\ disturbed' = disturbed
    BY <1>9 DEF Touch
  <2>3. /\ job'.st = "idle" /\ job'.files = <<>> /\ job'.contract = {}
        /\ job'.stale = {} /\ job'.at = 0
    BY <2>2 DEF Idle
  <2>4. /\ disk' = [h \in ToSet(Everything) |-> disk'[h]]
        /\ \A h \in ToSet(Everything) : h # g => disk'[h] = disk[h]
    BY <2>1 DEF WriterInv, WriterTypes
  <2>5. WriterTypes'
    BY <2>2, <2>3, <2>4 DEF WriterInv, WriterTypes, Idle
  <2>6. ASSUME NEW h \in ToSet(Files), ~disturbed', disk'[h] # Absent PROVE h \in Listed'
    <3>1. disk[h] # Absent
      BY <2>2, <2>4, <2>6, EverythingFacts
    <3>2. h \in manifest.files
      <4>1. CASE job.st = "idle"
        BY <4>1, <3>1, <2>2, <2>6 DEF WriterInv, Listed
      <4>2. CASE job.st = "finished"
        BY <4>2, <3>1, <2>2, <2>6 DEF WriterInv, Listed, ManifestOf
      <4> QED BY <4>1, <4>2, <2>2
    <3> QED BY <3>2, <2>2, <2>3 DEF Listed
  <2> QED BY <2>3, <2>5, <2>6 DEF WriterInv
<1> QED BY <1>1, <1>2, <1>3, <1>4, <1>5, <1>6, <1>7, <1>8, <1>9 DEF WriterNext

\* Once the last file is done, nothing is out of date and nothing is left over.
LEMMA WriterInvExact == WriterInv => RegenerationExact
<1> SUFFICES ASSUME WriterInv, job.st = "finished"
             PROVE  /\ OutOfDate(job.files, job.contract) = {}
                    /\ ~disturbed =>
                           \A f \in ToSet(Files) \ DOMAIN job.files : disk[f] = Absent
  BY DEF RegenerationExact
<1>1. manifest = ManifestOf(job.files, job.contract) /\ job.stale = {}
  BY DEF WriterInv
<1>2. Stale(job.files) = {}
  BY <1>1 DEF Stale, ManifestOf
<1>3. ASSUME NEW f \in ToSet(Everything), Written(f) PROVE disk[f] = Right(f)
  <2>1. PICK i \in 1..Len(Everything) : Everything[i] = f
    BY EverythingFacts
  <2> QED BY <2>1, <1>3 DEF WriterInv, Done
<1>4. disk[ContractFile] = Made(job.contract)
  BY <1>3, EverythingFacts DEF Written, Right
<1>5. \A f \in DOMAIN job.files : disk[f] = job.files[f]
  <2> TAKE f \in DOMAIN job.files
  <2>1. f \in ToSet(Files)
    BY DEF WriterInv, WriterTypes
  <2>2. f \in ToSet(Everything) /\ f # ContractFile
    BY <2>1, EverythingFacts, GenerationAssumption
  <2> QED BY <2>2, <1>3 DEF Written, Right
<1>6. OutOfDate(job.files, job.contract) = {}
  BY <1>1, <1>2, <1>4, <1>5 DEF OutOfDate
<1>7. ~disturbed => \A f \in ToSet(Files) \ DOMAIN job.files : disk[f] = Absent
  BY <1>1 DEF WriterInv, Listed
<1> QED BY <1>6, <1>7

\* The directory is empty at first.
LEMMA WriterStarts == GenerationInit => WriterInv
<1> SUFFICES ASSUME GenerationInit PROVE WriterInv
  OBVIOUS
<1>1. /\ job.st = "idle" /\ job.files = <<>> /\ job.contract = {} /\ job.stale = {}
      /\ job.at = 0 /\ manifest.files = {}
  BY DEF GenerationInit, Idle, NoManifest
<1>2. WriterTypes
  BY <1>1 DEF GenerationInit, Idle, WriterTypes, JobStates
<1>3. \A f \in ToSet(Files) : disk[f] = Absent
  BY EverythingFacts DEF GenerationInit
<1> QED BY <1>1, <1>2, <1>3 DEF WriterInv

\* channel.protocol keeps the invariant,
LEMMA FreezeChannelKeeps ==
    ASSUME DefinitionInv, NEW c \in Channels, FreezeChannel(c)
    PROVE  DefinitionInv'
<1> USE DEF DefinitionInv
<1> DEFINE s0 == [ok |-> TRUE, of |-> protocolOf]
           r == ChannelFreeze[c][s0]
           b == r.of
<1>1. /\ UNCHANGED <<children, opened, declared, late, endpoints, protocol, failed>>
      /\ protocolOf' = b
  BY DEF FreezeChannel
<1>2. s0 \in FreezeState /\ s0.of = protocolOf /\ TreeOK /\ EndpointsTyped
  BY DEF FreezeState, DefinitionTypes
<1>3. Outcome(c, s0, r)
  BY <1>2, FreezeOutcome
<1> HIDE DEF r
<1>4. b \in Protocols /\ Progress(protocolOf, b)
  BY <1>2, <1>3 DEF Outcome, FreezeState
<1> HIDE DEF b
<1>5. /\ TreeOK' /\ EndpointsTyped' /\ Known' /\ EndpointsApart'
      /\ FunctionsMounted' /\ ChannelsSettled'
      /\ opened' \subseteq Decls /\ late' \subseteq declared'
      /\ failed => Doomed(b)
  BY <1>1, <1>4, ProgressKeeps
<1>6. DefinitionTypes'
  BY <1>1, <1>4, <1>5 DEF DefinitionTypes
<1>7. /\ Doomed(b) => Doomed(protocolOf)'
      /\ Positions' = Positions
      /\ \A Q, E : Achieved(Q, b, E) <=> Achieved(Q, protocolOf, E)'
  BY <1>1, ReadsPrimed
<1>8. ServedExactly'
  <2> SUFFICES ASSUME protocol.frozen
               PROVE  Achieved(Positions, protocolOf, protocol.ops)' /\ ~Unservable(protocol.ops)'
    BY <1>1 DEF ServedExactly
  <2>1. Achieved(Positions, protocolOf, protocol.ops) /\ ~Unservable(protocol.ops)
    BY DEF ServedExactly
  <2>2. Achieved(Positions, b, protocol.ops)
    BY <2>1, <1>2, <1>4, AchievedStays
  <2>3. Achieved(Positions, protocolOf, protocol.ops)'
    BY <2>2, <1>1, <1>7
  <2>4. ~Unservable(protocol.ops)'
    BY <2>1, <1>1 DEF Unservable, Nested, Names
  <2> QED BY <2>3, <2>4
<1>9. FailedForGood'
  BY <1>1, <1>5, <1>7 DEF FailedForGood
<1> QED BY <1>5, <1>6, <1>8, <1>9

\* A freeze() of the service succeeds with everything served, or leaves what made it fail;
\* and after one that failed no other succeeds.
LEMMA FreezeKeeps ==
    ASSUME DefinitionInv, Freeze
    PROVE  DefinitionInv'
<1> USE DEF DefinitionInv
<1> DEFINE r == ServiceFreeze
           b == r.of
<1>1. /\ UNCHANGED <<children, opened, declared, late, endpoints>>
      /\ protocolOf' = b /\ ~protocol.frozen
      /\ protocol' = IF r.ok THEN Frozen(r.entries) ELSE protocol
      /\ failed' = (failed \/ ~r.ok)
  BY DEF Freeze
<1>2. TreeOK /\ EndpointsTyped /\ protocolOf \in Protocols /\ Blank(protocolOf)
      /\ failed \in BOOLEAN
      /\ protocol \in [frozen : BOOLEAN, ops : SUBSET Entry]
  BY DEF DefinitionTypes, ChannelsSettled
<1>3. /\ r \in Accumulator /\ Progress(protocolOf, r.of)
      /\ r.ok => Achieved(Positions, r.of, r.entries) /\ ~Unservable(r.entries)
      /\ ~r.ok => Doomed(r.of)
  BY <1>2, ServiceOutcome
<1> HIDE DEF r
<1>4. /\ b \in Protocols /\ Progress(protocolOf, b)
      /\ r.entries \subseteq Entry /\ r.ok \in BOOLEAN
  BY <1>3 DEF Accumulator
<1>5. r.ok => Achieved(Positions, b, r.entries)
  BY <1>3
<1>6. ~r.ok => Doomed(b)
  BY <1>3
<1> HIDE DEF b
<1>7. /\ TreeOK' /\ EndpointsTyped' /\ Known' /\ EndpointsApart'
      /\ FunctionsMounted' /\ ChannelsSettled'
      /\ opened' \subseteq Decls /\ late' \subseteq declared'
      /\ failed => Doomed(b)
  BY <1>1, <1>4, ProgressKeeps
<1>8. DefinitionTypes'
  <2>1. protocol' \in [frozen : BOOLEAN, ops : SUBSET Entry]
    BY <1>1, <1>2, <1>4 DEF Frozen
  <2>2. failed' \in BOOLEAN
    BY <1>1, <1>2, <1>4
  <2> QED BY <1>1, <1>4, <1>7, <2>1, <2>2 DEF DefinitionTypes
<1>9. /\ Doomed(b) => Doomed(protocolOf)'
      /\ Positions' = Positions
      /\ \A Q, E : Achieved(Q, b, E) <=> Achieved(Q, protocolOf, E)'
  BY <1>1, ReadsPrimed
<1>10. CASE r.ok
  <2>1. protocol' = [frozen |-> TRUE, ops |-> r.entries]
    BY <1>1, <1>10 DEF Frozen
  <2>2. protocol'.ops = r.entries /\ protocol'.frozen
    BY <2>1
  <2>4. ServedExactly'
    <3>1. ~Unservable(protocol.ops)'
      BY <2>2, <1>3, <1>10 DEF Unservable, Nested, Names
    <3>2. Achieved(Positions, b, r.entries)
      BY <1>5, <1>10
    <3>3. Achieved(Positions, protocolOf, protocol.ops)'
      BY <3>2, <1>9, <2>2
    <3> QED BY <3>1, <3>3 DEF ServedExactly
  <2>5. ~failed
    <3> SUFFICES ASSUME failed PROVE FALSE
      BY <1>2
    <3>1. FrozenClosed(b)
      BY <1>2, <1>4, SettledStays DEF ChannelsSettled
    <3>2. ~Doomed(b)
      BY <3>1, <1>2, <1>3, <1>5, <1>10, DoomedNeverAchieved
    <3> QED BY <3>2, <1>7
  <2>6. FailedForGood'
    BY <1>1, <1>10, <2>5 DEF FailedForGood
  <2> QED BY <1>7, <1>8, <2>4, <2>6
<1>11. CASE ~r.ok
  <2>1. protocol' = protocol /\ Doomed(protocolOf)'
    BY <1>1, <1>6, <1>9, <1>11
  <2>2. ServedExactly' /\ FailedForGood'
    BY <1>1, <2>1 DEF ServedExactly, FailedForGood
  <2> QED BY <1>7, <1>8, <2>2
<1> QED BY <1>10, <1>11

\* Nothing is defined at first,
LEMMA DefinitionStarts == DefinitionInit => DefinitionInv
<1> SUFFICES ASSUME DefinitionInit PROVE DefinitionInv
  OBVIOUS
<1>1. /\ children = [c \in Channels |-> <<>>]
      /\ opened = {} /\ declared = {} /\ late = {}
      /\ protocolOf = [c \in Channels |-> Mutable]
      /\ endpoints = <<>> /\ protocol = Mutable /\ failed = FALSE
  BY DEF DefinitionInit
<1>2. \A c \in Channels : children[c] = <<>> /\ ToSet(children[c]) = {}
  BY <1>1 DEF ToSet
<1>3. TreeOK
  <2>1. children \in [Channels -> Seq(Channels)]
    BY <1>1
  <2> QED BY <1>1, <1>2, <2>1 DEF TreeOK
<1>4. Mutable = [frozen |-> FALSE, ops |-> {}]
  BY DEF Mutable
<1>5. DefinitionTypes
  <2>1. protocolOf \in Protocols
    BY <1>1, <1>4 DEF Protocols
  <2>2. protocol \in [frozen : BOOLEAN, ops : SUBSET Entry]
    BY <1>1, <1>4
  <2>3. EndpointsTyped
    BY <1>1 DEF EndpointsTyped
  <2>4. failed \in BOOLEAN
    BY <1>1
  <2> QED BY <1>1, <1>3, <2>1, <2>2, <2>3, <2>4 DEF DefinitionTypes
<1>6. ChannelsSettled
  BY <1>1, <1>4 DEF ChannelsSettled, Blank, FrozenClosed
<1>7. Known /\ EndpointsApart /\ FunctionsMounted
  BY <1>1, <1>2 DEF Known, EndpointsApart, FunctionsMounted
<1>8. ServedExactly /\ FailedForGood
  BY <1>1, <1>4 DEF ServedExactly, FailedForGood
<1> QED BY <1>5, <1>6, <1>7, <1>8 DEF DefinitionInv

\* ... nor in a new process.
LEMMA DefinitionRestarts == DefinitionReset => DefinitionInv'
<1>1. DefinitionReset => DefinitionInit'
  BY DEF DefinitionReset, DefinitionInit
<1> QED BY <1>1, DefinitionStarts, PTL

\* Every step of an application that defines its service keeps the invariant.
LEMMA DefinitionSteps == DefinitionInv /\ [DefinitionNext]_definitionVars => DefinitionInv'
<1> SUFFICES ASSUME DefinitionInv, [DefinitionNext]_definitionVars PROVE DefinitionInv'
  OBVIOUS
<1>1. ASSUME NEW c \in Channels, Child(c) PROVE DefinitionInv'
  BY <1>1, ChildKeeps
<1>2. ASSUME NEW c \in Channels, FreezeChannel(c) PROVE DefinitionInv'
  BY <1>2, FreezeChannelKeeps
<1>3. ASSUME NEW d \in Decls, OpenDecorator(d) \/ Decorate(d) \/ DeclareClientMethod(d)
      PROVE  DefinitionInv'
  BY <1>3, DeclareKeeps
<1>4. ASSUME NEW m \in Mounts, MountSocket(m) \/ MountStream(m) \/ MountRawSocket(m)
      PROVE  DefinitionInv'
  BY <1>4, MountKeeps
<1>5. ASSUME Freeze PROVE DefinitionInv'
  BY <1>5, FreezeKeeps
<1>6. ASSUME UNCHANGED definitionVars PROVE DefinitionInv'
  <2> USE <1>6 DEF definitionVars
  <2>1. protocolOf \in Protocols /\ Progress(protocolOf, protocolOf)
    BY ProgressReflexive DEF DefinitionInv, DefinitionTypes
  <2>2. /\ Known' /\ EndpointsApart' /\ FunctionsMounted' /\ ChannelsSettled'
    BY <2>1, ProgressKeeps
  <2>3. ServedExactly' /\ FailedForGood'
    BY EndpointsKeep DEF DefinitionInv, DefinitionTypes
  <2>4. DefinitionTypes'
    BY DEF DefinitionInv, DefinitionTypes, TreeOK, EndpointsTyped
  <2> QED BY <2>2, <2>3, <2>4 DEF DefinitionInv
<1> QED BY <1>1, <1>2, <1>3, <1>4, <1>5, <1>6 DEF DefinitionNext

(***************************************************************************)
(* The pipeline                                                            *)
(***************************************************************************)

\* The invariant of the pipeline
PipelineInv == DefinitionInv /\ WriterInv

\* The name of an operation is not empty.
LEMMA WireNames ==
    ASSUME NEW d \in Decls
    PROVE  WireName(d) \in Seq(Segments) /\ WireName(d) # <<>>
<1>1. /\ d.ch \in Channels /\ Namespace[d.ch] \in Seq(Segments)
      /\ d.local \in Seq(Segments) /\ d.local # <<>>
  BY DefinitionAssumption, PipelineAssumption DEF Decl, Segments
<1> DEFINE s == Namespace[d.ch]
           t == d.local
<1>2. /\ s \o t \in Seq(Segments) /\ Len(s \o t) = Len(s) + Len(t)
      /\ Len(s) \in Nat /\ Len(t) \in Nat /\ Len(t) # 0
  BY <1>1, ConcatProperties, EmptySeq
<1>3. s \o t # <<>>
  BY <1>2
<1> QED BY <1>2, <1>3 DEF WireName

\* The operations of the document are those of the protocol.
LEMMA ContractNames ==
    ASSUME protocol.ops \in SUBSET Entry
    PROVE  /\ OpNames(Contract)
           /\ \A op \in Contract : \E x \in protocol.ops :
                  /\ x.decl \in Decls
                  /\ op = WriteOperation(x.decl, WireName(x.decl), x.server)
                  /\ op.name = WireName(x.decl) /\ op.kind = x.decl.kind
                  /\ op.server = x.server
<1>1. ASSUME NEW x \in protocol.ops
      PROVE  LET op == WriteOperation(x.decl, WireName(x.decl), x.server)
             IN  /\ x.decl \in Decls /\ op.name = WireName(x.decl) /\ op.kind = x.decl.kind
                 /\ op.server = x.server
  <2>1. x.decl \in Decls
    BY DEF Entry
  <2>2. CASE x.decl.kind = "stream"
    BY <2>1, <2>2 DEF WriteOperation, StreamOperation
  <2>3. CASE x.decl.kind = "raw"
    BY <2>1, <2>3 DEF WriteOperation, RawSocketOperation
  <2>4. CASE x.decl.kind # "stream" /\ x.decl.kind # "raw"
    BY <2>1, <2>4 DEF WriteOperation, RpcOperation
  <2> QED BY <2>2, <2>3, <2>4
<1>2. \A op \in Contract : \E x \in protocol.ops :
          op = WriteOperation(x.decl, WireName(x.decl), x.server)
  BY DEF Contract
<1> QED BY <1>1, <1>2, WireNames DEF OpNames

\* The definitions and the output directory are in order in every reachable state,
\* for any channels, declarations, mounts, options, documents and generations.
THEOREM PipelineInvariant == Spec => []PipelineInv
<1>1. Init => PipelineInv
  BY DefinitionStarts, WriterStarts DEF Init, PipelineInv
<1>2. PipelineInv /\ [Next]_pipelineVars => PipelineInv'
  <2> SUFFICES ASSUME PipelineInv, [Next]_pipelineVars PROVE PipelineInv'
    OBVIOUS
  <2> USE DEF PipelineInv
  <2>1. UNCHANGED generationVars => WriterInv'
    <3> SUFFICES ASSUME UNCHANGED generationVars PROVE WriterInv'
      OBVIOUS
    <3> USE DEF generationVars
    <3>1. WriterTypes'
      BY DEF WriterInv, WriterTypes
    <3>2. Listed' = Listed /\ \A n : Done(n)' <=> Done(n)
      BY DEF Listed, Done, Written, Right
    <3> QED BY <3>1, <3>2 DEF WriterInv, Written
  <2>2. CASE Define
    BY <2>1, <2>2, DefinitionSteps DEF Define
  <2>3. CASE LoadContract
    <3>1. protocol.ops \in SUBSET Entry
      BY DEF DefinitionInv, DefinitionTypes
    <3>2. PICK opts \in Options : Generate(opts, Contract)
      BY <2>3 DEF LoadContract
    <3>3. WriterInv'
      BY <3>1, <3>2, ContractNames, GenerateWrites
    <3> QED BY <3>3, <2>3, DefinitionRestarts DEF LoadContract
  <2>4. CASE LoadDocument
    <3>1. PICK opts \in Options, doc \in Documents : Generate(opts, doc.ops)
      BY <2>4 DEF LoadDocument
    <3>2. OpNames(doc.ops)
      BY PipelineAssumption DEF OpNames, Segments
    <3>3. WriterInv'
      BY <3>1, <3>2, GenerateWrites
    <3> QED BY <3>3, <2>4, DefinitionSteps DEF LoadDocument
  <2>5. CASE Write
    BY <2>5, WriterWrites, DefinitionSteps DEF Write
  <2>6. CASE UNCHANGED pipelineVars
    BY <2>1, <2>6, DefinitionSteps DEF pipelineVars
  <2> QED BY <2>2, <2>3, <2>4, <2>5, <2>6 DEF Next
<1> QED BY <1>1, <1>2, PTL DEF Spec

\* A freeze() that raised is final (RpcService.freeze, RpcChannel.freeze).
THEOREM FailureIsFinalCorrect == Spec => []FailureIsFinal
<1>1. PipelineInv => FailureIsFinal
  BY DEF PipelineInv, DefinitionInv, FailedForGood, FailureIsFinal
<1> QED BY <1>1, PipelineInvariant, PTL

\* A generation that ends leaves the client as rendered and --check nothing to report,
\* and no file of an earlier client unless one was killed (codegen/writer.py).
THEOREM RegenerationExactCorrect == Spec => []RegenerationExact
<1>1. PipelineInv => RegenerationExact
  BY WriterInvExact DEF PipelineInv
<1> QED BY <1>1, PipelineInvariant, PTL

(***************************************************************************)
(* What a frozen service serves                                            *)
(***************************************************************************)

\* RpcService.match finds at most one endpoint, and one if any template matches.
LEMMA MatchIsOne ==
    ASSUME EndpointsTyped, NEW path, NEW i \in DOMAIN endpoints,
           Matches(endpoints[i].path, path)
    PROVE  \E k \in DOMAIN endpoints : Match(path) = {k}
<1> DEFINE Matching == {j \in DOMAIN endpoints : Matches(endpoints[j].path, path)}
           Fixed == {j \in Matching : IsStatic(j)}
           Best == IF Fixed # {} THEN Fixed ELSE Matching
<1>1. DOMAIN endpoints \subseteq Nat
  BY PositionFacts
<1>2. Matching \subseteq Nat /\ Matching # {} /\ Best \subseteq Matching
  BY <1>1
<1>3. Best \subseteq Nat /\ Best # {}
  BY <1>2
<1> DEFINE k == Min(Best)
<1>4. k \in Best /\ \A j \in Best : k <= j
  <2> HIDE DEF Best
  <2> QED BY <1>3, MinOfNaturals
<1> HIDE DEF k
<1>5. k \in Matching /\ k \in DOMAIN endpoints /\ k \in Nat
  BY <1>2, <1>3, <1>4
<1>6. ASSUME NEW j \in Matching, j # k PROVE Before(k, j) /\ ~Before(j, k)
  <2>1. j \in Nat
    BY <1>2
  <2>2. CASE Fixed # {}
    <3>1. IsStatic(k)
      BY <1>4, <2>2
    <3>2. CASE IsStatic(j)
      <4>1. j \in Best
        BY <1>6, <2>2, <3>2
      <4>2. k <= j
        BY <1>4, <4>1
      <4>3. k < j /\ ~(j < k)
        BY <4>2, <2>1, <1>5, <1>6
      <4> QED BY <4>3, <3>1, <3>2 DEF Before
    <3>3. CASE ~IsStatic(j)
      BY <3>1, <3>3 DEF Before
    <3> QED BY <3>2, <3>3
  <2>3. CASE Fixed = {}
    <3>1. ~IsStatic(k) /\ ~IsStatic(j)
      BY <1>5, <1>6, <2>3
    <3>2. j \in Best
      BY <1>6, <2>3
    <3>3. k <= j
      BY <1>4, <3>2
    <3>4. k < j /\ ~(j < k)
      BY <3>3, <2>1, <1>5, <1>6
    <3> QED BY <3>1, <3>4 DEF Before, IsStatic
  <2> QED BY <2>2, <2>3
<1>7. k \in Match(path)
  BY <1>5, <1>6 DEF Match
<1>8. ASSUME NEW j \in Match(path), j # k PROVE FALSE
  <2>1. j \in Matching /\ Before(j, k)
    BY <1>5, <1>8 DEF Match
  <2> QED BY <1>6, <1>8, <2>1
<1> QED BY <1>5, <1>7, <1>8

\* An endpoint matches its own template, and one without variables comes first there.
LEMMA ServedByPath ==
    ASSUME EndpointsTyped, EndpointsApart, NEW i \in DOMAIN endpoints
    PROVE  /\ Cardinality(Serve(endpoints[i].path)) = 1
           /\ IsStatic(i) => Serve(endpoints[i].path) = {endpoints[i]}
<1> DEFINE path == endpoints[i].path
<1>1. \A j \in DOMAIN endpoints : endpoints[j].path \in Seq(STRING)
  BY PositionFacts, DefinitionAssumption DEF Mount
<1>2. Matches(path, path)
  BY DEF Matches
<1>3. PICK k \in DOMAIN endpoints : Match(path) = {k}
  BY <1>2, MatchIsOne
<1>4. Serve(path) = {endpoints[k]}
  BY <1>3 DEF Serve
<1>5. Cardinality(Serve(path)) = 1
  BY <1>4, FS_Singleton
<1>6. ASSUME IsStatic(i) PROVE i \in Match(path)
  <2> SUFFICES ASSUME NEW j \in DOMAIN endpoints \ {i}, Matches(endpoints[j].path, path)
               PROVE  Before(i, j)
    BY <1>2 DEF Match
  <2> SUFFICES ASSUME IsStatic(j) PROVE FALSE
    BY <1>6 DEF Before
  <2> DEFINE other == endpoints[j].path
  <2>1. \A n \in DOMAIN path : n \in DOMAIN other /\ other[n] = path[n]
    <3> TAKE n \in DOMAIN path
    <3>1. Len(other) = Len(path) /\ (other[n] \in Variables \/ other[n] = path[n])
      BY DEF Matches
    <3>2. n \in 1..Len(other) /\ n \in DOMAIN other
      BY <1>1, <3>1, LenProperties
    <3>3. other[n] \in ToSet(other)
      BY <3>2 DEF ToSet
    <3> QED BY <3>1, <3>2, <3>3 DEF IsStatic
  <2>2. Len(other) = Len(path)
    BY DEF Matches
  <2>3. other = path
    <3> HIDE DEF other, path
    <3>1. other \in Seq(STRING) /\ path \in Seq(STRING)
      BY <1>1 DEF other, path
    <3> QED BY <2>1, <2>2, <3>1, SeqEqual
  <2>4. Normalized(other) = Normalized(path)
    BY <2>3
  <2> QED BY <2>4 DEF EndpointsApart
<1> QED BY <1>3, <1>4, <1>5, <1>6

\* What was declared in time at or below a frozen channel is among its operations.
LEMMA DueIsFrozen ==
    ASSUME DefinitionInv, NEW c \in Channels, protocolOf[c].frozen,
           NEW d \in declared \ late, InSubtree(d.ch, c)
    PROVE  d \in protocolOf[c].ops
<1>1. FrozenClosed(protocolOf) /\ TreeOK
  BY DEF DefinitionInv, ChannelsSettled, DefinitionTypes
<1>2. Exists(d.ch)
  BY DEF DefinitionInv, Known
<1>3. \A k \in Channels : protocolOf[k].frozen =>
          \A j \in ToSet(children[k]) :
              protocolOf[j].frozen /\ protocolOf[j].ops \subseteq protocolOf[k].ops
  BY <1>1 DEF FrozenClosed
<1>4. protocolOf[d.ch].frozen => d \in protocolOf[d.ch].ops
  BY DEF DefinitionInv, ChannelsSettled
<1> DEFINE T == {k \in Channels :
                    Exists(k) => protocolOf[k].frozen
                                 /\ protocolOf[k].ops \subseteq protocolOf[c].ops}
<1>5. ASSUME NEW k \in Channels, Parent[k] \in T PROVE k \in T
  <2> SUFFICES ASSUME Exists(k)
               PROVE  protocolOf[k].frozen /\ protocolOf[k].ops \subseteq protocolOf[c].ops
    OBVIOUS
  <2>1. Parent[k] \in Channels /\ k \in ToSet(children[Parent[k]])
    BY <1>5, DefinitionAssumption DEF Exists
  <2>2. children[Parent[k]] # <<>>
    BY <2>1 DEF ToSet
  <2>3. Exists(Parent[k])
    BY <2>1, <2>2 DEF DefinitionInv, Known
  <2>4. /\ protocolOf[Parent[k]].frozen
        /\ protocolOf[Parent[k]].ops \subseteq protocolOf[c].ops
    BY <1>5, <2>3
  <2> QED BY <1>3, <2>1, <2>4
<1>6. c \in T
  OBVIOUS
<1>7. d.ch \in T
  <2>1. T \in SUBSET Channels
    OBVIOUS
  <2> HIDE DEF T
  <2> QED BY <1>5, <1>6, <2>1 DEF InSubtree
<1> QED BY <1>2, <1>4, <1>7

\* Every operation due at an endpoint is served there, once.
LEMMA ServedOnce == DefinitionInv => OperationsServedOnce
<1> SUFFICES ASSUME DefinitionInv, protocol.frozen, NEW i \in DOMAIN endpoints
             PROVE  LET m == endpoints[i]
                        due == IF m.kind = "socket"
                               THEN {d \in declared \ late : d.kind \in JsonKinds /\
                                        \E c \in ToSet(m.channels) : InSubtree(d.ch, c)}
                               ELSE m.decls
                    IN  /\ \A d \in due :
                               /\ {x \in protocol.ops : WireName(x.decl) = WireName(d)}
                                      = {Served(d, m)}
                               /\ m.kind = "socket" =>
                                      {j \in DOMAIN endpoints :
                                          Served(d, m) \in Slice(endpoints[j])} = {i}
                        /\ Cardinality(Serve(m.path)) = 1
                        /\ IsStatic(i) => Serve(m.path) = {m}
  BY DEF OperationsServedOnce
<1> DEFINE m == endpoints[i]
           due == IF m.kind = "socket"
                  THEN {d \in declared \ late : d.kind \in JsonKinds /\
                           \E c \in ToSet(m.channels) : InSubtree(d.ch, c)}
                  ELSE m.decls
<1>1. EndpointsTyped /\ EndpointsApart
  BY DEF DefinitionInv, DefinitionTypes
<1>2. Cardinality(Serve(m.path)) = 1 /\ (IsStatic(i) => Serve(m.path) = {m})
  BY <1>1, ServedByPath
<1>3. Achieved(Positions, protocolOf, protocol.ops)
  BY DEF DefinitionInv, ServedExactly
<1>4. m \in Mounts /\ \A p \in Claims(m) : <<i, p>> \in Positions
  BY <1>1, PositionFacts
<1>5. ASSUME NEW d \in due PROVE Served(d, m) \in protocol.ops
  <2>1. CASE m.kind = "socket"
    <3>1. PICK c \in ToSet(m.channels) : InSubtree(d.ch, c)
      BY <1>5, <2>1
    <3>2. d \in declared \ late /\ d.kind \in JsonKinds
      BY <1>5, <2>1
    <3>3. PICK p \in DOMAIN m.channels : c = m.channels[p]
      BY <3>1 DEF ToSet
    <3> DEFINE x == <<i, p>>
    <3>4. x \in Positions /\ Channel(x) = c /\ c \in Channels
      BY <1>4, <2>1, <3>3, MountFacts DEF Claims, Channel, ChannelAt
    <3>5. protocolOf[c].frozen /\ Claim(protocolOf, x) \subseteq protocol.ops
      BY <1>3, <3>4 DEF Achieved
    <3>6. d \in protocolOf[c].ops
      BY <3>1, <3>2, <3>4, <3>5, DueIsFrozen
    <3>7. Served(d, m) \in Claim(protocolOf, x)
      BY <2>1, <3>2, <3>3, <3>6 DEF Claim, ClaimAt
    <3> QED BY <3>5, <3>7
  <2>2. CASE m.kind # "socket"
    <3> DEFINE x == <<i, 1>>
    <3>1. x \in Positions
      BY <1>4, <2>2 DEF Claims
    <3>2. Claim(protocolOf, x) \subseteq protocol.ops
      BY <1>3, <3>1 DEF Achieved
    <3>3. Served(d, m) \in Claim(protocolOf, x)
      BY <1>5, <2>2 DEF Claim, ClaimAt
    <3> QED BY <3>2, <3>3
  <2> QED BY <2>1, <2>2
<1>6. ASSUME NEW d \in due
      PROVE  {x \in protocol.ops : WireName(x.decl) = WireName(d)} = {Served(d, m)}
  <2>1. Served(d, m).decl = d
    BY DEF Served
  <2>2. \A x \in protocol.ops : x # Served(d, m) => WireName(x.decl) # WireName(d)
    BY <1>3, <1>5, <1>6, <2>1 DEF Achieved, Apart
  <2> QED BY <1>5, <1>6, <2>1, <2>2
<1>7. ASSUME NEW d \in due, m.kind = "socket"
      PROVE  {j \in DOMAIN endpoints : Served(d, m) \in Slice(endpoints[j])} = {i}
  <2>1. Served(d, m).decl = d /\ Served(d, m).server = EndpointName(m)
    BY DEF Served
  <2>2. d.kind \in JsonKinds
    BY <1>7
  <2>3. \A j \in DOMAIN endpoints :
            Served(d, m) \in Slice(endpoints[j])
                <=> EndpointName(m) = EndpointName(endpoints[j])
    BY <1>5, <1>7, <2>1, <2>2 DEF Slice
  <2> QED BY <1>1, <2>3 DEF EndpointsApart
<1> HIDE DEF m, due
<1> QED BY <1>2, <1>6, <1>7 DEF m, due

\* A frozen service serves every operation declared in time once, at the endpoint that
\* mounts it, and hands connections to a fixed path to its endpoint (service.py).
THEOREM OperationsServedOnceCorrect == Spec => []OperationsServedOnce
<1>1. PipelineInv => OperationsServedOnce
  BY ServedOnce DEF PipelineInv
<1> QED BY <1>1, PipelineInvariant, PTL

(***************************************************************************)
(* The public names                                                        *)
(***************************************************************************)

Kinds == JsonKinds \cup SocketKinds

\* What the names of a contract have to be for a client: an operation is in no other
Nameable(ops) ==
    /\ OpNames(ops) /\ \A op \in ops : op.kind \in Kinds
    /\ \A o, p \in ops : ~IsStrictPrefix(o.name, p.name)

\* A prefix agrees segment by segment.
LEMMA PrefixElements ==
    ASSUME NEW S, NEW s \in Seq(S), NEW t \in Seq(S)
    PROVE  IsPrefix(s, t) <=> Len(s) <= Len(t) /\ \A i \in 1..Len(s) : s[i] = t[i]
<1>1. Len(s) \in Nat /\ Len(t) \in Nat
  BY LenProperties
<1>2. CASE Len(s) <= Len(t)
  <2>1. /\ \A i \in 1..Len(s) : s[i] \in S /\ t[i] \in S
    BY <1>1, <1>2, ElementOfSeq
  <2> DEFINE a == SubSeq(s, 1, Len(s))
             b == SubSeq(t, 1, Len(s))
  <2>2. a \in Seq(S) /\ Len(a) = Len(s) /\ \A i \in 1..Len(s) : a[i] = s[i]
    BY <1>1, <2>1, SubSeqFull
  <2>3. b \in Seq(S) /\ Len(b) = Len(s) /\ \A i \in 1..Len(s) : b[i] = t[i]
    BY <1>1, <2>1, SubSeqProperties
  <2>4. IsPrefix(s, t) <=> a = b
    BY <1>2 DEF IsPrefix
  <2> HIDE DEF a, b
  <2>5. a = b <=> \A i \in 1..Len(s) : s[i] = t[i]
    BY <2>2, <2>3, SeqEqual
  <2> QED BY <1>2, <2>4, <2>5
<1>3. CASE ~(Len(s) <= Len(t))
  BY <1>3 DEF IsPrefix
<1> QED BY <1>2, <1>3

\* A namespace of the client is the beginning of what an operation shows.
LEMMA NodeFacts ==
    ASSUME NEW opts \in Options, NEW ops, OpNames(ops),
           NEW n \in Nodes(View(opts, ops))
    PROVE  /\ n \in Seq(Segments) /\ Len(n) \in Nat \ {0} /\ n # <<>>
           /\ \E op \in DOMAIN View(opts, ops) :
                  IsPrefix(n, View(opts, ops)[op]) /\ Len(n) <= Len(View(opts, ops)[op])
           /\ Last(n) = n[Len(n)]
<1> DEFINE view == View(opts, ops)
<1>0. PICK op \in DOMAIN view : \E k \in 1..Len(view[op]) : n = SubSeq(view[op], 1, k)
  BY DEF Nodes
<1>1. PICK k \in 1..Len(view[op]) : n = SubSeq(view[op], 1, k)
  BY <1>0
<1>2. view[op] \in Seq(Segments) /\ Len(view[op]) \in Nat
  BY ViewIsNames, LenProperties
<1>3. k \in Nat /\ 1 <= k /\ k <= Len(view[op])
  BY <1>1, <1>2
<1>4. \A i \in 1..k : view[op][i] \in Segments
  BY <1>2, <1>3, ElementOfSeq
<1>5. n \in Seq(Segments) /\ Len(n) = k /\ \A i \in 1..k : n[i] = view[op][i]
  BY <1>1, <1>3, <1>4, SubSeqProperties
<1>6. IsPrefix(n, view[op])
  BY <1>2, <1>3, <1>5, PrefixElements
<1>7. n # <<>>
  BY <1>3, <1>5, EmptySeq
<1> QED BY <1>3, <1>5, <1>6, <1>7 DEF Last

\* The path of an operation, what the client shows of it, and where it is cut
LEMMA Shown ==
    ASSUME NEW opts \in Options, NEW ops, OpNames(ops),
           NEW o \in DOMAIN View(opts, ops), View(opts, ops)[o] # <<>>
    PROVE  LET view == View(opts, ops)
               path == Path(o)
               cut == Len(path) - Len(view[o])
           IN  /\ cut \in Nat /\ Len(path) \in Nat /\ cut + 1 <= Len(path)
               /\ path \in Seq(Segments) /\ (opts.root = <<>> => cut = 0)
               /\ Source(view, o, 1) = SubSeq(path, 1, cut + 1)
               /\ Source(view, o, 1) \in Seq(Segments)
               /\ Len(Source(view, o, 1)) = cut + 1
               /\ Source(view, o, 1)[cut + 1] = path[cut + 1]
               /\ Last(Source(view, o, 1)) = path[cut + 1]
               /\ Stripped(opts.root, path)[1] = path[cut + 1]
               /\ cut = Len(path) - Len(Stripped(opts.root, path))
               /\ SubSeq(Stripped(opts.root, path), 1, 1) = <<path[cut + 1]>>
               /\ view[o][1] = IF IsStream(o) THEN path[cut + 1] ELSE ApiName(opts, path, 1)
<1> DEFINE view == View(opts, ops)
           path == Path(o)
           left == Stripped(opts.root, path)
           cut == Len(path) - Len(view[o])
<1>1. /\ path \in Seq(Segments) /\ view[o] \in Seq(Segments) /\ Len(view[o]) = Len(left)
      /\ view[o] = Visible(opts, o)
  BY ViewIsNames
<1>2. opts.root \in Seq(Segments)
  BY GenerationAssumption DEF Segments
<1>3. /\ left \in Seq(Segments) /\ Len(left) \in Nat /\ cut \in Nat
      /\ Len(path) = cut + Len(left)
      /\ \A i \in 1..Len(left) : left[i] = path[cut + i]
  <2> DEFINE at == Len(path) - Len(left)
  <2>1. /\ left \in Seq(Segments) /\ Len(left) \in Nat /\ at \in Nat
        /\ Len(path) = at + Len(left)
        /\ \A i \in 1..Len(left) : left[i] = path[at + i]
    BY <1>1, <1>2, StrippedPath
  <2>2. cut = at
    BY <1>1
  <2> HIDE DEF cut, at, left, path
  <2> QED BY <2>1, <2>2
<1>4. opts.root = <<>> => cut = 0
  <2>1. opts.root = <<>> => left = path
    BY DEF Stripped
  <2>2. Len(path) \in Nat
    BY <1>1, LenProperties
  <2>3. opts.root = <<>> => Len(path) = Len(view[o])
    BY <1>1, <2>1
  <2> QED BY <2>2, <2>3
<1>5. Len(view[o]) \in Nat \ {0}
  BY <1>1, EmptySeq
<1> HIDE DEF cut, left, path
<1>6. 1 \in 1..Len(left) /\ cut + 1 <= Len(path) /\ Len(path) \in Nat
  BY <1>1, <1>3, <1>5
<1>7. left[1] = path[cut + 1]
  BY <1>3, <1>6
<1> DEFINE from == SubSeq(path, 1, cut + 1)
<1>8. \A i \in 1..(cut + 1) : path[i] \in Segments
  BY <1>1, <1>3, <1>6, ElementOfSeq
<1>9. /\ from \in Seq(Segments) /\ Len(from) = cut + 1
      /\ \A i \in 1..(cut + 1) : from[i] = path[i]
  BY <1>3, <1>8, SubSeqProperties
<1>10. Source(view, o, 1) = from
  BY DEF Source, cut, path
<1>11. SubSeq(left, 1, 1) = <<path[cut + 1]>>
  <2>1. left[1] \in Segments
    BY <1>3, <1>6, ElementOfSeq
  <2>2. \A i \in 1..1 : left[i] \in Segments
    BY <2>1
  <2>3. /\ SubSeq(left, 1, 1) \in Seq(Segments) /\ Len(SubSeq(left, 1, 1)) = 1
        /\ SubSeq(left, 1, 1)[1] = left[1]
    BY <2>2, SubSeqProperties
  <2>4. <<left[1]>> \in Seq(Segments) /\ Len(<<left[1]>>) = 1 /\ <<left[1]>>[1] = left[1]
    BY <2>1
  <2>5. SubSeq(left, 1, 1) = <<left[1]>>
    <3> DEFINE a == SubSeq(left, 1, 1)
               b == <<left[1]>>
    <3>1. a \in Seq(Segments) /\ b \in Seq(Segments) /\ Len(a) = Len(b) /\ Len(a) = 1
          /\ a[1] = b[1]
      BY <2>3, <2>4
    <3> HIDE DEF a, b
    <3>2. \A i \in 1..Len(a) : a[i] = b[i]
      BY <3>1
    <3>3. a = b
      BY <3>1, <3>2, SeqEqual
    <3> QED BY <3>3 DEF a, b
  <2> QED BY <1>7, <2>5
<1>12. view[o][1] = IF IsStream(o) THEN path[cut + 1] ELSE ApiName(opts, path, 1)
  <2>1. DOMAIN left = 1..Len(left)
    BY <1>3, LenProperties
  <2>2. Visible(opts, o) = IF IsStream(o) THEN left
                           ELSE [i \in DOMAIN left |-> ApiName(opts, path, i)]
    BY DEF Visible, left, path
  <2> QED BY <1>1, <1>6, <1>7, <2>1, <2>2
<1>13. from[cut + 1] = path[cut + 1] /\ Last(from) = path[cut + 1]
  <2>1. cut + 1 \in 1..(cut + 1)
    BY <1>3
  <2>2. from[cut + 1] = path[cut + 1]
    BY <1>9, <2>1
  <2> HIDE DEF from
  <2> QED BY <1>9, <2>2 DEF Last
<1>14. cut = Len(path) - Len(left)
  BY <1>1 DEF cut
<1> HIDE DEF from
<1> QED BY <1>1, <1>3, <1>4, <1>6, <1>7, <1>9, <1>10, <1>11, <1>12, <1>13, <1>14
        DEF cut, left, path, from

\* Two operations of one source show one name, when a stream shows it for both or for
\* neither: the keys of _api_name depend on the source alone.
LEMMA OneSourceOneName ==
    ASSUME NEW opts \in Options, NEW ops, OpNames(ops),
           NEW o \in DOMAIN View(opts, ops), View(opts, ops)[o] # <<>>,
           NEW p \in DOMAIN View(opts, ops), View(opts, ops)[p] # <<>>,
           Source(View(opts, ops), o, 1) = Source(View(opts, ops), p, 1),
           IsStream(o) <=> IsStream(p)
    PROVE  View(opts, ops)[o][1] = View(opts, ops)[p][1]
<1> DEFINE view == View(opts, ops)
           pathO == Path(o)
           pathP == Path(p)
           cutO == Len(pathO) - Len(view[o])
           cutP == Len(pathP) - Len(view[p])
           from == SubSeq(pathO, 1, cutO + 1)
<1>1. /\ cutO \in Nat /\ Source(view, o, 1) = from
      /\ Len(Source(view, o, 1)) = cutO + 1
      /\ Source(view, o, 1)[cutO + 1] = pathO[cutO + 1]
      /\ Stripped(opts.root, pathO)[1] = pathO[cutO + 1]
      /\ cutO = Len(pathO) - Len(Stripped(opts.root, pathO))
      /\ SubSeq(Stripped(opts.root, pathO), 1, 1) = <<pathO[cutO + 1]>>
      /\ view[o][1] = IF IsStream(o) THEN pathO[cutO + 1] ELSE ApiName(opts, pathO, 1)
  BY Shown, ZenonT(30)
<1>2. /\ cutP \in Nat /\ Source(view, p, 1) = SubSeq(pathP, 1, cutP + 1)
      /\ Len(Source(view, p, 1)) = cutP + 1
      /\ Source(view, p, 1)[cutP + 1] = pathP[cutP + 1]
      /\ Stripped(opts.root, pathP)[1] = pathP[cutP + 1]
      /\ cutP = Len(pathP) - Len(Stripped(opts.root, pathP))
      /\ SubSeq(Stripped(opts.root, pathP), 1, 1) = <<pathP[cutP + 1]>>
      /\ view[p][1] = IF IsStream(p) THEN pathP[cutP + 1] ELSE ApiName(opts, pathP, 1)
  BY Shown, ZenonT(30)
<1> HIDE DEF view, pathO, pathP, cutO, cutP
<1>3. cutO = cutP /\ pathO[cutO + 1] = pathP[cutP + 1]
  <2>1. cutO + 1 = cutP + 1
    BY <1>1, <1>2 DEF view
  <2>2. cutO = cutP
    <3>1. cutO \in Nat /\ cutP \in Nat
      BY <1>1, <1>2
    <3> QED BY <2>1, <3>1
  <2> QED BY <1>1, <1>2, <2>2 DEF view
<1>4. SubSeq(pathP, 1, cutP + 1) = from
  BY <1>1, <1>2 DEF view
<1>5. AliasKeys(opts.root, pathO, 1) = <<from, <<pathO[cutO + 1]>>, <<pathO[cutO + 1]>>>>
  <2> DEFINE left == Stripped(opts.root, pathO)
  <2>1. AliasKeys(opts.root, pathO, 1)
            = <<SubSeq(pathO, 1, (Len(pathO) - Len(left)) + 1), SubSeq(left, 1, 1),
                <<left[1]>>>>
    BY DEF AliasKeys
  <2> QED BY <1>1, <2>1
<1>6. AliasKeys(opts.root, pathP, 1) = <<from, <<pathO[cutO + 1]>>, <<pathO[cutO + 1]>>>>
  <2> DEFINE left == Stripped(opts.root, pathP)
  <2>1. AliasKeys(opts.root, pathP, 1)
            = <<SubSeq(pathP, 1, (Len(pathP) - Len(left)) + 1), SubSeq(left, 1, 1),
                <<left[1]>>>>
    BY DEF AliasKeys
  <2> QED BY <1>2, <1>3, <1>4, <2>1
<1>7. ApiName(opts, pathO, 1) = ApiName(opts, pathP, 1)
  <2>1. AliasKeys(opts.root, pathO, 1) = AliasKeys(opts.root, pathP, 1)
    BY <1>5, <1>6
  <2>2. Applied(opts, pathO, 1) = Applied(opts, pathP, 1)
    BY <2>1 DEF Applied
  <2>3. Stripped(opts.root, pathO)[1] = Stripped(opts.root, pathP)[1]
    BY <1>1, <1>2, <1>3
  <2> DEFINE Pick(S) == CHOOSE k \in S : TRUE
  <2>4. \A path \in {pathO, pathP} :
            ApiName(opts, path, 1) = IF Applied(opts, path, 1) = {}
                                     THEN Stripped(opts.root, path)[1]
                                     ELSE opts.names[Pick(Applied(opts, path, 1))]
    BY DEF ApiName
  <2> HIDE DEF Pick
  <2> QED BY <2>2, <2>3, <2>4
<1> QED BY <1>1, <1>2, <1>3, <1>7 DEF view

\* The operation a namespace has its source from: a stream only where there are only
\* streams.
LEMMA NodeSourceOf ==
    ASSUME NEW opts \in Options, NEW ops, Nameable(ops),
           NEW n \in Nodes(View(opts, ops)), Len(n) = 1
    PROVE  \E o \in DOMAIN View(opts, ops) :
               /\ View(opts, ops)[o] # <<>> /\ n = <<View(opts, ops)[o][1]>>
               /\ NodeSource(View(opts, ops), n) = Source(View(opts, ops), o, 1)
               /\ OnlyStreams(View(opts, ops), n) <=> IsStream(o)
               /\ n \in Top(View(opts, ops))
<1> DEFINE view == View(opts, ops)
           in == {op \in DOMAIN view : IsPrefix(n, view[op])}
           routes == {op \in in : IsRoute(op)}
           events == {op \in in : IsEvent(op)}
           from == IF routes # {} THEN routes ELSE IF events # {} THEN events ELSE in
           o == CHOOSE x \in from : TRUE
<1>1. OpNames(ops)
  BY DEF Nameable
<1>2. /\ n \in Seq(Segments) /\ n # <<>>
      /\ \E op \in DOMAIN view : IsPrefix(n, view[op])
  BY <1>1, NodeFacts
<1>3. from # {} /\ from \subseteq in
  BY <1>2
<1>4. o \in from
  BY <1>3
<1>5. o \in DOMAIN view /\ IsPrefix(n, view[o])
  BY <1>3, <1>4
<1>6. NodeSource(view, n) = Source(view, o, 1)
  BY DEF NodeSource
<1>7. \A op \in in : IsStream(op) \/ IsRoute(op) \/ IsEvent(op)
  <2>1. DOMAIN view \subseteq Exposed(ops)
    BY DEF View
  <2> QED BY <2>1 DEF Exposed, Nameable, Kinds, JsonKinds, SocketKinds, IsStream,
                      IsRoute, IsEvent
<1>8. \A op : (IsRoute(op) => ~IsStream(op)) /\ (IsEvent(op) => ~IsStream(op))
  BY DEF IsStream, IsRoute, IsEvent
<1>9. OnlyStreams(view, n) <=> IsStream(o)
  <2>1. OnlyStreams(view, n) <=> \A op \in in : IsStream(op)
    BY DEF OnlyStreams
  <2>2. CASE routes # {}
    <3>1. IsRoute(o) /\ o \in in
      BY <1>4, <2>2
    <3> HIDE DEF o, in
    <3> QED BY <1>8, <2>1, <3>1
  <2>3. CASE routes = {} /\ events # {}
    <3>1. IsEvent(o) /\ o \in in
      BY <1>4, <2>3
    <3> HIDE DEF o, in
    <3> QED BY <1>8, <2>1, <3>1
  <2>4. CASE routes = {} /\ events = {}
    <3>1. \A op \in in : IsStream(op)
      BY <1>7, <2>4
    <3>2. o \in in
      BY <1>3, <1>4
    <3> HIDE DEF o, in
    <3> QED BY <2>1, <3>1, <3>2
  <2> QED BY <2>2, <2>3, <2>4
<1> HIDE DEF o
<1>10. view[o] # <<>> /\ n = <<view[o][1]>>
  <2>1. view[o] \in Seq(Segments)
    BY <1>1, <1>5, ViewIsNames
  <2>2. 1 <= Len(view[o]) /\ n[1] = view[o][1] /\ Len(view[o]) \in Nat
    BY <1>2, <1>5, <2>1, PrefixElements, LenProperties
  <2>3. view[o] # <<>>
    BY <2>2, EmptySeq
  <2>4. view[o][1] \in Segments
    BY <2>1, <2>2, ElementOfSeq
  <2> DEFINE one == <<view[o][1]>>
  <2>5. one \in Seq(Segments) /\ Len(one) = 1 /\ one[1] = n[1]
    BY <2>2, <2>4
  <2>6. one = n
    <3> HIDE DEF one
    <3>1. \A i \in 1..Len(one) : one[i] = n[i]
      BY <2>5
    <3> QED BY <1>2, <2>5, <3>1, SeqEqual
  <2> QED BY <2>3, <2>6
<1>11. n \in Top(view)
  BY <1>5, <1>10 DEF Top
<1> QED BY <1>5, <1>6, <1>9, <1>10, <1>11

\* Below a namespace and within it
LEMMA NamesBelow ==
    ASSUME NEW opts \in Options, NEW ops, OpNames(ops),
           NEW node \in Seq(Segments), NEW n \in Nodes(View(opts, ops)),
           Len(n) = Len(node) + 1, IsPrefix(node, n),
           NEW m \in Nodes(View(opts, ops)), Len(m) = Len(node) + 1, IsPrefix(node, m),
           Last(n) = Last(m)
    PROVE  n = m
<1>1. /\ n \in Seq(Segments) /\ m \in Seq(Segments)
      /\ Last(n) = n[Len(n)] /\ Last(m) = m[Len(m)] /\ Len(node) \in Nat
  BY NodeFacts, LenProperties
<1>2. /\ \A i \in 1..Len(node) : node[i] = n[i]
      /\ \A i \in 1..Len(node) : node[i] = m[i]
  BY <1>1, PrefixElements
<1>3. \A i \in 1..Len(n) : i \in 1..Len(node) \/ i = Len(n)
  BY <1>1
<1>4. \A i \in 1..Len(n) : n[i] = m[i]
  BY <1>1, <1>2, <1>3
<1> QED BY <1>1, <1>4, SeqEqual

NamespaceOf(view, node, n) ==
    [source |-> IF node = <<>> THEN <<Last(NodeSource(view, n))>> ELSE <<Last(n)>>,
     as |-> Identifier[Last(n)], of |-> n, is |-> "namespace"]
OperationOf(op) ==
    [source |-> op.name, as |-> Identifier[Last(op.name)], of |-> op.name,
     is |-> "operation"]
Below(view, node) == {n \in Nodes(view) : Len(n) = Len(node) + 1 /\ IsPrefix(node, n)}
Within(view, node) == {op \in DOMAIN view : view[op] = node}

\* The attributes of a namespace of the client: namespaces and operations
LEMMA MembersAre ==
    ASSUME NEW view, NEW node, NEW x \in Members(view, node)
    PROVE  \/ \E n \in Below(view, node) : x = NamespaceOf(view, node, n)
           \/ \E op \in Within(view, node) : x = OperationOf(op)
BY DEF Members, Below, Within, NamespaceOf, OperationOf

\* Every attribute is a member, less the namespace of the contract it stands for.
LEMMA AttributesAreMembers ==
    ASSUME NEW opts \in Options, NEW ops, OpNames(ops),
           NEW node \in Nodes(View(opts, ops)) \cup {<<>>},
           NEW x \in Attributes(View(opts, ops), node)
    PROVE  \/ /\ x \in Namespaces(DOMAIN View(opts, ops), View(opts, ops), node)
              /\ x.is = "namespace" /\ x.of \in Below(View(opts, ops), node)
              /\ x.as = Identifier[Last(x.of)]
           \/ /\ x.is = "operation"
              /\ \E op \in Within(View(opts, ops), node) : x = OperationOf(op)
<1> DEFINE view == View(opts, ops)
<1>1. node \in Seq(Segments) /\ Len(node) \in Nat
  <2>1. node \in Seq(Segments)
    <3>1. CASE node \in Nodes(View(opts, ops))
      BY <3>1, NodeFacts
    <3>2. CASE node = <<>>
      BY <3>2
    <3> QED BY <3>1, <3>2
  <2> QED BY <2>1, LenProperties
<1>2. ASSUME NEW op \in DOMAIN view, IsPrefix(node, view[op]), Len(node) < Len(view[op])
      PROVE  SubSeq(view[op], 1, Len(node) + 1) \in Below(view, node)
  <2> DEFINE k == Len(node) + 1
             n == SubSeq(view[op], 1, k)
  <2>1. view[op] \in Seq(Segments) /\ Len(view[op]) \in Nat
    BY ViewIsNames, LenProperties
  <2>2. k \in 1..Len(view[op]) /\ k \in Nat /\ 1 <= k /\ k <= Len(view[op])
    BY <1>1, <1>2, <2>1
  <2>3. \A i \in 1..k : view[op][i] \in Segments
    BY <2>1, <2>2, ElementOfSeq
  <2>4. n \in Seq(Segments) /\ Len(n) = k /\ \A i \in 1..k : n[i] = view[op][i]
    BY <2>2, <2>3, SubSeqProperties
  <2>5. \A i \in 1..Len(node) : node[i] = view[op][i]
    BY <1>1, <1>2, <2>1, PrefixElements
  <2>6. \A i \in 1..Len(node) : node[i] = n[i]
    <3> HIDE DEF n
    <3> QED BY <1>1, <2>2, <2>4, <2>5
  <2>7. n \in Nodes(view)
    BY <2>2 DEF Nodes
  <2> HIDE DEF n
  <2>8. Len(node) <= Len(n)
    BY <1>1, <2>4
  <2>9. IsPrefix(node, n)
    BY <1>1, <2>4, <2>6, <2>8, PrefixElements
  <2> QED BY <2>4, <2>7, <2>9 DEF Below, n
<1>3. ASSUME x \in Namespaces(DOMAIN view, view, node)
      PROVE  x.is = "namespace" /\ x.of \in Below(view, node) /\ x.as = Identifier[Last(x.of)]
  <2>1. PICK op \in DOMAIN view :
            /\ IsPrefix(node, view[op]) /\ Len(node) < Len(view[op])
            /\ x = [source |-> Source(view, op, Len(node) + 1),
                    as |-> Identifier[Last(SubSeq(view[op], 1, Len(node) + 1))],
                    of |-> SubSeq(view[op], 1, Len(node) + 1), is |-> "namespace"]
    BY <1>3 DEF Namespaces
  <2>2. SubSeq(view[op], 1, Len(node) + 1) \in Below(view, node)
    BY <1>2, <2>1
  <2> QED BY <2>1, <2>2
<1> HIDE DEF view
<1>4. \/ x \in Namespaces(DOMAIN view, view, node)
      \/ \E op \in Within(view, node) : x = OperationOf(op)
  BY DEF Attributes, Within, OperationOf, view
<1> QED BY <1>3, <1>4 DEF OperationOf, view

\* Two namespaces with methods are not shown under one path: Merged looks at all of them.
LEMMA MethodsApart ==
    ASSUME NEW opts \in Options, NEW ops, OpNames(ops),
           NEW node \in Nodes(View(opts, ops)) \cup {<<>>}, ~Merged(View(opts, ops)),
           NEW x \in Namespaces(DOMAIN View(opts, ops), View(opts, ops), node),
           NEW y \in Namespaces(DOMAIN View(opts, ops), View(opts, ops), node),
           x.is = "namespace", y.is = "namespace", x.of = y.of
    PROVE  x = y \/ Joined(View(opts, ops), node, x, y)
<1> DEFINE view == View(opts, ops)
           routes == {op \in DOMAIN view : IsRoute(op)}
<1>1. Len(node) \in Nat
  BY NodeFacts, LenProperties
<1> SUFFICES ASSUME x \in Namespaces(routes, view, node), y \in Namespaces(routes, view, node)
             PROVE  x = y
  BY DEF Joined
<1> DEFINE at(op) == SubSeq(view[op], 1, Len(node) + 1)
           Is(z, op) == z = [source |-> Source(view, op, Len(node) + 1),
                             as |-> Identifier[Last(at(op))], of |-> at(op),
                             is |-> "namespace"]
<1>2. PICK o \in routes : Len(node) < Len(view[o]) /\ Is(x, o)
  BY DEF Namespaces
<1>3. PICK p \in routes : Len(node) < Len(view[p]) /\ Is(y, p)
  BY DEF Namespaces
<1>4. Len(view[o]) \in Nat /\ Len(view[p]) \in Nat
  BY <1>2, <1>3, ViewIsNames, LenProperties
<1>5. at(o) = at(p)
  BY <1>2, <1>3
<1>6. Len(node) + 1 \in 1..Len(view[o]) /\ Len(node) + 1 <= Len(view[p])
  BY <1>1, <1>2, <1>3, <1>4
<1>7. Source(view, o, Len(node) + 1) = Source(view, p, Len(node) + 1)
  BY <1>5, <1>6 DEF Merged
<1> QED BY <1>2, <1>3, <1>5, <1>7

\* Within a namespace no two attributes are one: assert_unique_names sees to it.
LEMMA DistinctBelow ==
    ASSUME NEW opts \in Options, NEW ops, Nameable(ops),
           NEW node \in Nodes(View(opts, ops)),
           ~Ambiguous(Members(View(opts, ops), node)),
           NEW x \in Members(View(opts, ops), node),
           NEW y \in Members(View(opts, ops), node), x.as = y.as
    PROVE  x = y
<1> DEFINE view == View(opts, ops)
<1>1. OpNames(ops)
  BY DEF Nameable
<1>2. node \in Seq(Segments) /\ node # <<>>
  BY <1>1, NodeFacts
<1>3. x.source = y.source
  BY DEF Ambiguous
<1>4. ASSUME NEW n \in Below(view, node), NEW m \in Below(view, node),
             NamespaceOf(view, node, n).source = NamespaceOf(view, node, m).source
      PROVE  n = m
  <2>1. Last(n) = Last(m)
    BY <1>2, <1>4 DEF NamespaceOf
  <2> QED BY <1>1, <1>2, <2>1, NamesBelow DEF Below
<1>5. ASSUME NEW n \in Below(view, node), NEW op \in Within(view, node),
             NamespaceOf(view, node, n).source = OperationOf(op).source
      PROVE  FALSE
  <2>1. op.name = <<Last(n)>>
    BY <1>2, <1>5 DEF NamespaceOf, OperationOf
  <2>2. Len(op.name) = 1
    BY <2>1
  <2>3. op \in DOMAIN view /\ view[op] = node
    BY DEF Within
  <2>4. Path(op) = <<>>
    BY <2>2, SubSeqEmpty DEF Path, Front
  <2>5. view[op] \in Seq(Segments) /\ Len(view[op]) = Len(Stripped(opts.root, Path(op)))
    BY <1>1, <2>3, ViewIsNames
  <2>6. Path(op) \in Seq(Segments) /\ opts.root \in Seq(Segments)
    BY <1>1, <2>3, ViewIsNames, GenerationAssumption DEF Segments
  <2>7. Len(Path(op)) = 0
    BY <2>4
  <2>8. Len(view[op]) = 0
    <3> DEFINE left == Stripped(opts.root, Path(op))
               cut == Len(Path(op)) - Len(left)
    <3>1. Len(left) \in Nat /\ cut \in Nat
      BY <2>6, StrippedPath
    <3> HIDE DEF left
    <3>2. Len(left) = 0
      BY <2>7, <3>1
    <3> QED BY <2>5, <3>2 DEF left
  <2> QED BY <1>2, <2>3, <2>8, EmptySeq
<1>6. ASSUME NEW op \in Within(view, node), NEW pp \in Within(view, node),
             OperationOf(op).source = OperationOf(pp).source
      PROVE  OperationOf(op) = OperationOf(pp)
  <2>1. op.name = pp.name
    BY <1>6 DEF OperationOf
  <2> QED BY <2>1 DEF OperationOf
<1> HIDE DEF view
<1>7. /\ \/ \E n \in Below(view, node) : x = NamespaceOf(view, node, n)
         \/ \E op \in Within(view, node) : x = OperationOf(op)
      /\ \/ \E n \in Below(view, node) : y = NamespaceOf(view, node, n)
         \/ \E op \in Within(view, node) : y = OperationOf(op)
  BY MembersAre DEF view
<1> QED BY <1>3, <1>4, <1>5, <1>6, <1>7

\* On the client itself there are the two cases it overlooks, and no other.
LEMMA DistinctOnTop ==
    ASSUME NEW opts \in Options, NEW ops, Nameable(ops),
           ~Ambiguous(Members(View(opts, ops), <<>>)), ~ExportsRefused(View(opts, ops)),
           NEW x \in Members(View(opts, ops), <<>>),
           NEW y \in Members(View(opts, ops), <<>>), x.as = y.as
    PROVE  x = y \/ Overlooked(opts, View(opts, ops), x, y)
<1> DEFINE view == View(opts, ops)
<1>1. OpNames(ops)
  BY DEF Nameable
<1>2. x.source = y.source
  BY DEF Ambiguous
<1>3. \A n \in Below(view, <<>>) : n \in Nodes(view) /\ Len(n) = 1 /\ Last(n) = n[1]
  <2> TAKE n \in Below(view, <<>>)
  <2>1. n \in Nodes(view) /\ Len(n) = Len(<<>>) + 1
    BY DEF Below
  <2>2. Len(n) = 1
    BY <2>1
  <2> QED BY <2>1, <2>2 DEF Last
<1>4. ASSUME NEW n \in Below(view, <<>>), NEW m \in Below(view, <<>>),
             NamespaceOf(view, <<>>, n).as = NamespaceOf(view, <<>>, m).as
      PROVE  \/ n = m
             \/ Overlooked(opts, view, NamespaceOf(view, <<>>, n), NamespaceOf(view, <<>>, m))
  <2>1. PICK o \in DOMAIN view :
            /\ view[o] # <<>> /\ n = <<view[o][1]>>
            /\ NodeSource(view, n) = Source(view, o, 1)
            /\ OnlyStreams(view, n) <=> IsStream(o)
            /\ n \in Top(view)
    BY <1>3, NodeSourceOf
  <2>2. PICK p \in DOMAIN view :
            /\ view[p] # <<>> /\ m = <<view[p][1]>>
            /\ NodeSource(view, m) = Source(view, p, 1)
            /\ OnlyStreams(view, m) <=> IsStream(p)
            /\ m \in Top(view)
    BY <1>3, NodeSourceOf
  <2>3. NodeSource(view, n) = NodeSource(view, m)
    <3>1. Identifier[n[1]] = Identifier[m[1]]
      BY <1>3, <1>4 DEF NamespaceOf
    <3>2. n \in Seq(Segments) /\ m \in Seq(Segments) /\ Len(n) = 1 /\ Len(m) = 1
      BY <1>1, <1>3, NodeFacts
    <3>3. n[1] \in Segments /\ m[1] \in Segments
      <4>1. 1 \in 1..Len(n) /\ 1 \in 1..Len(m)
        BY <3>2
      <4>2. n[1] \in Segments
        BY <3>2, <4>1, ElementOfSeq
      <4>3. m[1] \in Segments
        BY <3>2, <4>1, ElementOfSeq
      <4> QED BY <4>2, <4>3
    <3>4. ApiClass[n[1]] = ApiClass[m[1]]
      BY <3>1, <3>3, GenerationAssumption DEF Segments
    <3> QED BY <2>1, <2>2, <3>4 DEF ExportsRefused
  <2>4. CASE OnlyStreams(view, n) <=> OnlyStreams(view, m)
    <3>1. view[o][1] = view[p][1]
      BY <1>1, <2>1, <2>2, <2>3, <2>4, OneSourceOneName
    <3> QED BY <2>1, <2>2, <3>1
  <2>5. CASE ~(OnlyStreams(view, n) <=> OnlyStreams(view, m))
    <3>1. OnlyStreams(view, n) # OnlyStreams(view, m)
      BY <2>5 DEF OnlyStreams
    <3> QED BY <2>3, <3>1 DEF Overlooked, NamespaceOf
  <2> QED BY <2>4, <2>5
<1>5. ASSUME NEW n \in Below(view, <<>>), NEW op \in Within(view, <<>>),
             NamespaceOf(view, <<>>, n).source = OperationOf(op).source
      PROVE  opts.root # <<>> /\ Len(op.name) = 1
  <2>1. PICK o \in DOMAIN view :
            /\ view[o] # <<>> /\ n = <<view[o][1]>>
            /\ NodeSource(view, n) = Source(view, o, 1)
    BY <1>3, NodeSourceOf
  <2>2. op.name = <<Last(NodeSource(view, n))>>
    BY <1>5 DEF NamespaceOf, OperationOf
  <2>3. Len(op.name) = 1
    BY <2>2
  <2>4. ASSUME opts.root = <<>> PROVE FALSE
    <3> DEFINE cut == Len(Path(o)) - Len(view[o])
    <3>1. /\ cut = 0 /\ cut + 1 <= Len(Path(o)) /\ Len(Path(o)) \in Nat
          /\ Last(Source(view, o, 1)) = Path(o)[cut + 1]
      BY <1>1, <2>1, <2>4, Shown
    <3>2. Last(Source(view, o, 1)) = Path(o)[1] /\ 1 <= Len(Path(o))
      <4> HIDE DEF cut
      <4> QED BY <3>1
    <3>3. /\ o.name \in Seq(Segments) /\ o.name # <<>> /\ o \in ops
          /\ op.name \in Seq(Segments) /\ op \in ops
      BY <1>1, ViewIsNames DEF Within
    <3>4. Len(o.name) \in Nat \ {0}
      BY <3>3, EmptySeq
    <3>5. /\ Len(Path(o)) = Len(o.name) - 1
          /\ Path(o)[1] = o.name[1]
      <4>1. \A i \in 1..(Len(o.name) - 1) : o.name[i] \in Segments
        BY <3>3, <3>4, ElementOfSeq
      <4>2. /\ Len(SubSeq(o.name, 1, Len(o.name) - 1)) = Len(o.name) - 1
            /\ \A i \in 1..(Len(o.name) - 1) :
                   SubSeq(o.name, 1, Len(o.name) - 1)[i] = o.name[i]
        BY <3>4, <4>1, SubSeqProperties
      <4>3. /\ Len(Path(o)) = Len(o.name) - 1
            /\ \A i \in 1..(Len(o.name) - 1) : Path(o)[i] = o.name[i]
        BY <4>2 DEF Path, Front
      <4> QED BY <3>2, <3>4, <4>3
    <3>6. op.name[1] = o.name[1] /\ Len(op.name) <= Len(o.name) /\ op.name # o.name
      <4>1. op.name = <<o.name[1]>>
        BY <2>1, <2>2, <3>2, <3>5
      <4>2. \A a, b \in Nat : 1 <= a /\ a = b - 1 => 1 # b /\ 1 <= b
        OBVIOUS
      <4>3. Len(op.name) # Len(o.name) /\ Len(op.name) <= Len(o.name)
        <5>1. Len(Path(o)) \in Nat /\ Len(o.name) \in Nat
          BY <3>1, <3>4
        <5> QED BY <2>3, <3>2, <3>5, <4>2, <5>1
      <4>4. op.name[1] = o.name[1]
        BY <4>1
      <4>5. op.name # o.name
        BY <4>3
      <4> QED BY <4>3, <4>4, <4>5
    <3>7. \A i \in 1..Len(op.name) : op.name[i] = o.name[i]
      BY <2>3, <3>6
    <3>8. IsStrictPrefix(op.name, o.name)
      BY <3>3, <3>6, <3>7, PrefixElements DEF IsStrictPrefix
    <3> QED BY <3>3, <3>8 DEF Nameable
  <2> QED BY <2>3, <2>4
<1>6. ASSUME NEW op \in Within(view, <<>>), NEW pp \in Within(view, <<>>),
             OperationOf(op).source = OperationOf(pp).source
      PROVE  OperationOf(op) = OperationOf(pp)
  <2>1. op.name = pp.name
    BY <1>6 DEF OperationOf
  <2> QED BY <2>1 DEF OperationOf
<1> HIDE DEF view
<1>7. /\ \/ \E n \in Below(view, <<>>) : x = NamespaceOf(view, <<>>, n)
         \/ \E op \in Within(view, <<>>) : x = OperationOf(op)
      /\ \/ \E n \in Below(view, <<>>) : y = NamespaceOf(view, <<>>, n)
         \/ \E op \in Within(view, <<>>) : y = OperationOf(op)
  BY MembersAre DEF view
<1>8. CASE \E n, m \in Below(view, <<>>) :
               x = NamespaceOf(view, <<>>, n) /\ y = NamespaceOf(view, <<>>, m)
  BY <1>4, <1>8 DEF view
<1>9. CASE \E o, p \in Within(view, <<>>) : x = OperationOf(o) /\ y = OperationOf(p)
  BY <1>2, <1>6, <1>9
<1>10. CASE \E n \in Below(view, <<>>), op \in Within(view, <<>>) :
                x = NamespaceOf(view, <<>>, n) /\ y = OperationOf(op)
  <2>1. PICK n \in Below(view, <<>>), op \in Within(view, <<>>) :
                x = NamespaceOf(view, <<>>, n) /\ y = OperationOf(op)
    BY <1>10
  <2>2. opts.root # <<>> /\ Len(op.name) = 1
    BY <1>2, <1>5, <2>1
  <2>3. x.is = "namespace" /\ y.is = "operation" /\ y.source = op.name
    BY <1>2, <2>1 DEF NamespaceOf, OperationOf
  <2>4. x.is # y.is /\ Len(y.source) = 1
    BY <2>2, <2>3
  <2> QED BY <2>2, <2>3, <2>4 DEF Overlooked
<1>11. CASE \E n \in Below(view, <<>>), op \in Within(view, <<>>) :
                y = NamespaceOf(view, <<>>, n) /\ x = OperationOf(op)
  <2>1. PICK n \in Below(view, <<>>), op \in Within(view, <<>>) :
                y = NamespaceOf(view, <<>>, n) /\ x = OperationOf(op)
    BY <1>11
  <2>2. opts.root # <<>> /\ Len(op.name) = 1
    BY <1>2, <1>5, <2>1
  <2>3. y.is = "namespace" /\ x.is = "operation" /\ x.source = op.name
    BY <1>2, <2>1 DEF NamespaceOf, OperationOf
  <2>4. x.is # y.is /\ Len(x.source) = 1
    BY <2>2, <2>3
  <2> QED BY <2>2, <2>3, <2>4 DEF Overlooked
<1> QED BY <1>7, <1>8, <1>9, <1>10, <1>11

\* The operations of a frozen service have names a client can take on.
LEMMA ContractNameable ==
    ASSUME DefinitionInv, protocol.frozen
    PROVE  Nameable(Contract)
<1>1. protocol.ops \in SUBSET Entry /\ ~Unservable(protocol.ops)
  BY DEF DefinitionInv, DefinitionTypes, ServedExactly
<1>2. OpNames(Contract)
  BY <1>1, ContractNames
<1>3. \A op \in Contract : \E x \in protocol.ops :
          x.decl \in Decls /\ op.name = WireName(x.decl) /\ op.kind = x.decl.kind
  BY <1>1, ContractNames
<1>4. \A d \in Decls : d.kind \in Kinds
  BY DefinitionAssumption DEF Decl, Kinds
<1>5. \A op \in Contract : op.name \in Names(protocol.ops)
  BY <1>3 DEF Names
<1> QED BY <1>1, <1>2, <1>3, <1>4, <1>5 DEF Nameable, Unservable, Nested

\* Public names are distinct when the contract of a frozen service is rendered.
LEMMA NamesDistinct == DefinitionInv => PublicNamesDistinct
<1> SUFFICES ASSUME DefinitionInv, protocol.frozen,
                    NEW opts \in {o \in Options : ~Refused(o, Contract)},
                    NEW node \in Nodes(View(opts, Contract)) \cup {<<>>},
                    NEW x \in Attributes(View(opts, Contract), node),
                    NEW y \in Attributes(View(opts, Contract), node), x.as = y.as
             PROVE  \/ x = y \/ Joined(View(opts, Contract), node, x, y)
                    \/ node = <<>> /\ Overlooked(opts, View(opts, Contract), x, y)
  BY DEF PublicNamesDistinct
<1> DEFINE view == View(opts, Contract)
           MemberOf(z) == IF z.is = "namespace" THEN NamespaceOf(view, node, z.of) ELSE z
<1>1. Nameable(Contract) /\ OpNames(Contract) /\ opts \in Options
  BY ContractNameable DEF Nameable
<1>2. /\ ~Ambiguous(Members(view, node)) /\ ~ExportsRefused(view) /\ ~Merged(view)
  BY DEF Refused, NamesRefused
<1>3. ASSUME NEW z \in Attributes(view, node)
      PROVE  /\ MemberOf(z) \in Members(view, node)
             /\ MemberOf(z).as = z.as /\ MemberOf(z).is = z.is /\ MemberOf(z).of = z.of
             /\ z.is \in {"namespace", "operation"}
             /\ z.is = "namespace" => z \in Namespaces(DOMAIN view, view, node)
             /\ z.is = "operation" => MemberOf(z) = z
  <2>1. \/ /\ z \in Namespaces(DOMAIN view, view, node)
           /\ z.is = "namespace" /\ z.of \in Below(view, node)
           /\ z.as = Identifier[Last(z.of)]
        \/ /\ z.is = "operation" /\ \E op \in Within(view, node) : z = OperationOf(op)
    BY <1>1, AttributesAreMembers
  <2> HIDE DEF view
  <2>2. CASE z.is = "namespace"
    <3>1. NamespaceOf(view, node, z.of) \in Members(view, node)
      BY <2>1, <2>2 DEF Members, NamespaceOf, Below
    <3> QED BY <2>1, <2>2, <3>1 DEF NamespaceOf
  <2>3. CASE z.is = "operation"
    <3>1. z \in Members(view, node)
      BY <2>1, <2>3 DEF Members, OperationOf, Within
    <3> QED BY <2>3, <3>1
  <2> QED BY <2>1, <2>2, <2>3
<1>4. /\ MemberOf(x) \in Members(view, node) /\ MemberOf(y) \in Members(view, node)
      /\ MemberOf(x).as = MemberOf(y).as
  BY <1>3
<1>5. ASSUME MemberOf(x) = MemberOf(y) PROVE x = y \/ Joined(view, node, x, y)
  <2>1. x.is = y.is /\ x.of = y.of
    BY <1>3, <1>5
  <2>2. CASE x.is = "namespace"
    BY <1>1, <1>2, <1>3, <2>1, <2>2, MethodsApart
  <2>3. CASE x.is = "operation"
    BY <1>3, <1>5, <2>1, <2>3
  <2> QED BY <1>3, <2>2, <2>3
<1>6. CASE node # <<>>
  BY <1>1, <1>2, <1>4, <1>5, <1>6, DistinctBelow
<1>7. CASE node = <<>>
  <2>1. MemberOf(x) = MemberOf(y) \/ Overlooked(opts, view, MemberOf(x), MemberOf(y))
    BY <1>1, <1>2, <1>4, <1>7, DistinctOnTop
  <2>2. ASSUME Overlooked(opts, view, MemberOf(x), MemberOf(y))
        PROVE  Overlooked(opts, view, x, y)
    BY <1>3, <2>2 DEF Overlooked
  <2> QED BY <1>5, <1>7, <2>1, <2>2
<1> QED BY <1>6, <1>7

\* In a rendered client no attribute stands for two namespaces of the contract that both
\* have methods, for two operations, or for an operation and a namespace, but for the
\* overlooked cases; namespaces of events and streams are joined silently (codegen/names.py,
\* python.py).
THEOREM PublicNamesDistinctCorrect == Spec => []PublicNamesDistinct
<1>1. PipelineInv => PublicNamesDistinct
  BY NamesDistinct DEF PipelineInv
<1> QED BY <1>1, PipelineInvariant, PTL

(***************************************************************************)
(* What a client can read back                                             *)
(***************************************************************************)

\* The declarations one step further than some
Further(declarations, k) ==
    k \cup ((UNION {NamedTypes(u) : u \in UNION {Type[t].refs : t \in k}}) \cap declarations)

\* The worklist of _reachable, step by step
LEMMA ReachableUnfolds ==
    ASSUME NEW declarations, NEW roots, Cardinality(declarations) \in Nat
    PROVE  \E g : /\ g[0] = roots \cap declarations
                  /\ \A n \in 1..Cardinality(declarations) :
                         g[n] = Further(declarations, g[n - 1])
                  /\ Reachable(declarations, roots) = g[Cardinality(declarations)]
<1> DEFINE L == Cardinality(declarations)
           Worklist(g, k) ==
               g = [n \in 0..k |->
                       IF n = 0 THEN roots \cap declarations
                       ELSE g[n - 1] \cup ((UNION {NamedTypes(u) : u \in
                                UNION {Type[t].refs : t \in g[n - 1]}}) \cap declarations)]
           Upto(g, k) == g = [n \in 0..k |-> IF n = 0 THEN roots \cap declarations
                                             ELSE Further(declarations, g[n - 1])]
           S == {k \in Nat : \E g : Upto(g, k)}
<1>1. 0 \in S
  <2> DEFINE g == [n \in 0..0 |-> roots \cap declarations]
  <2>1. Upto(g, 0)
    OBVIOUS
  <2> QED BY <2>1
<1>2. ASSUME NEW k \in Nat, k \in S PROVE k + 1 \in S
  <2>1. PICK g : Upto(g, k)
    BY <1>2
  <2> DEFINE h == [n \in 0..(k + 1) |->
                      IF n = k + 1 THEN Further(declarations, g[k]) ELSE g[n]]
  <2>2. ASSUME NEW n \in 0..(k + 1)
        PROVE  h[n] = IF n = 0 THEN roots \cap declarations
                      ELSE Further(declarations, h[n - 1])
    <3>1. CASE n = k + 1
      BY <3>1
    <3>2. CASE n # k + 1
      <4>1. n \in 0..k /\ (n # 0 => n - 1 \in 0..k)
        BY <3>2
      <4>2. g[n] = IF n = 0 THEN roots \cap declarations ELSE Further(declarations, g[n - 1])
        BY <2>1, <4>1
      <4> QED BY <3>2, <4>1, <4>2
    <3> QED BY <3>1, <3>2
  <2>3. Upto(h, k + 1)
    BY <2>2
  <2> HIDE DEF h
  <2>4. \E f : Upto(f, k + 1)
    BY <2>3
  <2> QED BY <2>4
<1>3. L \in S
  <2> HIDE DEF S
  <2> QED BY <1>1, <1>2, NatInd
<1>4. \A g : Worklist(g, L) <=> Upto(g, L)
  BY DEF Further
<1>5. \E g : Worklist(g, L)
  BY <1>3, <1>4
<1>6. Reachable(declarations, roots) = (CHOOSE g : Worklist(g, L))[L]
  BY DEF Reachable
<1>7. PICK g : Worklist(g, L) /\ Reachable(declarations, roots) = g[L]
  BY <1>5, <1>6
<1>8. Upto(g, L)
  BY <1>4, <1>7
<1> HIDE DEF Worklist
<1>9. g[0] = roots \cap declarations
  BY <1>8
<1>10. ASSUME NEW n \in 1..L PROVE g[n] = Further(declarations, g[n - 1])
  <2>1. n \in 0..L /\ n # 0
    OBVIOUS
  <2> QED BY <1>8, <2>1
<1> QED BY <1>7, <1>9, <1>10

\* The worklist has come to an end after as many steps as there are declarations.
LEMMA WorklistEnds ==
    ASSUME NEW D, IsFiniteSet(D), NEW roots, NEW B,
           roots \cap D \subseteq B, \A k \in SUBSET (B \cap D) : Further(D, k) \subseteq B
    PROVE  /\ roots \cap D \subseteq Reachable(D, roots)
           /\ Reachable(D, roots) \subseteq B \cap D
           /\ Further(D, Reachable(D, roots)) = Reachable(D, roots)
<1> DEFINE L == Cardinality(D)
<1>1. L \in Nat
  BY FS_CardinalityType
<1>2. PICK g : /\ g[0] = roots \cap D
               /\ \A n \in 1..L : g[n] = Further(D, g[n - 1])
               /\ Reachable(D, roots) = g[L]
  BY <1>1, ReachableUnfolds
<1> HIDE DEF L
<1> DEFINE S == {n \in Nat : n <= L =>
                    /\ roots \cap D \subseteq g[n] /\ g[n] \subseteq B \cap D
                    /\ Further(D, g[n]) = g[n] \/ n <= Cardinality(g[n])}
<1>3. ASSUME NEW k
      PROVE  k \subseteq Further(D, k) /\ (k \subseteq D => Further(D, k) \subseteq D)
  <2> DEFINE more == UNION {NamedTypes(u) : u \in UNION {Type[t].refs : t \in k}}
  <2>1. Further(D, k) = k \cup (more \cap D)
    BY DEF Further
  <2> HIDE DEF more
  <2> QED BY <2>1
<1>4. 0 \in S
  <2>1. roots \cap D \subseteq g[0] /\ g[0] \subseteq B \cap D
    BY <1>2
  <2>2. IsFiniteSet(g[0])
    BY <2>1, FS_Subset
  <2>3. Cardinality(g[0]) \in Nat
    BY <2>2, FS_CardinalityType
  <2>4. 0 <= Cardinality(g[0])
    BY <2>3
  <2> QED BY <2>1, <2>4
<1>5. ASSUME NEW n \in Nat, n \in S PROVE n + 1 \in S
  <2> SUFFICES ASSUME n + 1 <= L
               PROVE  /\ roots \cap D \subseteq g[n + 1] /\ g[n + 1] \subseteq B \cap D
                      /\ \/ Further(D, g[n + 1]) = g[n + 1]
                         \/ n + 1 <= Cardinality(g[n + 1])
    OBVIOUS
  <2>1. n <= L /\ n + 1 \in 1..L /\ (n + 1) - 1 = n
    BY <1>1
  <2>2. /\ roots \cap D \subseteq g[n] /\ g[n] \subseteq B \cap D
        /\ Further(D, g[n]) = g[n] \/ n <= Cardinality(g[n])
    BY <1>5, <2>1
  <2>3. g[n + 1] = Further(D, g[n])
    BY <1>2, <2>1
  <2>4. g[n] \subseteq g[n + 1] /\ g[n + 1] \subseteq B \cap D
    BY <1>3, <2>2, <2>3
  <2>5. CASE Further(D, g[n]) = g[n]
    BY <2>2, <2>3, <2>4, <2>5
  <2>6. CASE Further(D, g[n]) # g[n]
    <3>1. IsFiniteSet(g[n + 1])
      BY <2>4, FS_Subset
    <3>2. /\ IsFiniteSet(g[n]) /\ Cardinality(g[n]) <= Cardinality(g[n + 1])
          /\ Cardinality(g[n + 1]) # Cardinality(g[n])
      BY <2>3, <2>4, <2>6, <3>1, FS_Subset
    <3>3. Cardinality(g[n]) \in Nat /\ Cardinality(g[n + 1]) \in Nat
      BY <3>1, <3>2, FS_CardinalityType
    <3>4. n <= Cardinality(g[n])
      BY <2>2, <2>6
    <3>5. n + 1 <= Cardinality(g[n + 1])
      BY <3>2, <3>3, <3>4
    <3> QED BY <2>2, <2>4, <3>5
  <2> QED BY <2>5, <2>6
<1>6. L \in S
  <2> HIDE DEF S
  <2> QED BY <1>1, <1>4, <1>5, NatInd
<1>7. /\ roots \cap D \subseteq g[L] /\ g[L] \subseteq B \cap D
      /\ Further(D, g[L]) = g[L] \/ L <= Cardinality(g[L])
  BY <1>1, <1>6
<1>8. ASSUME L <= Cardinality(g[L]) PROVE Further(D, g[L]) = g[L]
  <2>1. /\ Cardinality(g[L]) <= L /\ IsFiniteSet(g[L])
        /\ (L = Cardinality(g[L]) => D = g[L])
    BY <1>7, FS_Subset DEF L
  <2>2. Cardinality(g[L]) \in Nat
    BY <2>1, FS_CardinalityType
  <2>3. D = g[L]
    BY <1>1, <1>8, <2>1, <2>2
  <2> QED BY <1>3, <2>3
<1> QED BY <1>2, <1>7, <1>8

\* The closure of some types is closed.
LEMMA ClosureIsClosed ==
    ASSUME NEW types
    PROVE  /\ \A t \in types \cap DOMAIN Type : t \in Closure(types)
           /\ \A t \in Closure(types) : /\ t \in DOMAIN Type
                                        /\ \A u \in Type[t].refs : u \in Closure(types)
<1>1. \A t \in DOMAIN Type : Type[t].refs \subseteq DOMAIN Type
  BY DeclarationAssumption
<1> QED BY <1>1 DEF Closure, Closed

\* The members of a union are no unions.
LEMMA NamedAreNoUnions ==
    ASSUME NEW q \in DOMAIN Type \cup {NoType}
    PROVE  \A t \in NamedTypes(q) : t \in DOMAIN Type /\ Type[t].is # "union"
BY DeclarationAssumption DEF NamedTypes

\* With the types an operation names go those their fields refer to.
LEMMA ClientDeclares ==
    ASSUME NEW ops, NEW servers,
           \A op \in ops : /\ op.params \in DOMAIN Type \cup {NoType}
                           /\ op.payload \in DOMAIN Type \cup {NoType}
    PROVE  {t \in Closure(IrRoots(ops)) : HasComponent(t)}
               = ClientTypes([ops |-> ops, servers |-> servers])
<1> DEFINE A == Annotations(ops)
           R == IrRoots(ops)
           D == Components(ops)
           W == Reachable(D, R)
           B == Closure(R)
<1>1. ClientTypes([ops |-> ops, servers |-> servers]) = W
  BY DEF ClientTypes
<1>2. D = {t \in Closure(A) : HasComponent(t)}
  BY DEF Components
<1>3. \A t \in R : t \in DOMAIN Type /\ Type[t].is # "union"
  BY NamedAreNoUnions DEF IrRoots
<1>4. \A t \in R : HasComponent(t) => t \in D
  <2> SUFFICES ASSUME NEW t \in R, HasComponent(t) PROVE t \in Closure(A)
    BY <1>2
  <2>1. t \in DOMAIN Type
    BY <1>3
  <2>2. PICK op \in ops : t \in NamedTypes(op.params) \/ t \in NamedTypes(op.payload)
    BY DEF IrRoots
  <2>3. CASE t \in NamedTypes(op.payload)
    <3>1. t \in A
      BY <2>2, <2>3 DEF Annotations
    <3> QED BY <2>1, <3>1, ClosureIsClosed
  <2>4. CASE t \in NamedTypes(op.params)
    <3>1. op.params # NoType
      BY <2>4 DEF NamedTypes
    <3>2. op.params \in A /\ op.params \in DOMAIN Type
      BY <3>1 DEF Annotations
    <3>3. op.params \in Closure(A)
      BY <3>2, ClosureIsClosed
    <3>4. t = op.params \/ t \in Type[op.params].refs
      BY <2>4, <3>1 DEF NamedTypes
    <3> QED BY <3>3, <3>4, ClosureIsClosed
  <2> QED BY <2>2, <2>3, <2>4
<1>5. IsFiniteSet(D)
  BY <1>2, DeclarationAssumption, FS_Subset DEF Closure
<1>6. R \cap D \subseteq B
  BY <1>3, ClosureIsClosed
<1>7. ASSUME NEW k \in SUBSET (B \cap D) PROVE Further(D, k) \subseteq B
  <2>1. \A t \in k : \A u \in Type[t].refs : u \in B /\ u \in DOMAIN Type
    BY ClosureIsClosed
  <2>2. \A u \in B : NamedTypes(u) \subseteq B
    BY ClosureIsClosed DEF NamedTypes
  <2> HIDE DEF B, D
  <2> QED BY <2>1, <2>2 DEF Further, B
<1>8. R \cap D \subseteq W /\ W \subseteq B \cap D /\ Further(D, W) = W
  <2> HIDE DEF B, D, R
  <2> QED BY <1>5, <1>6, <1>7, WorklistEnds
<1> HIDE DEF W
<1>9. ASSUME NEW t \in W, NEW u \in Type[t].refs PROVE NamedTypes(u) \cap D \subseteq W
  <2> DEFINE next == UNION {Type[v].refs : v \in W}
             more == UNION {NamedTypes(v) : v \in next}
  <2> HIDE DEF D
  <2>1. u \in next
    OBVIOUS
  <2> HIDE DEF next
  <2>2. NamedTypes(u) \subseteq more
    BY <2>1
  <2>3. Further(D, W) = W \cup (more \cap D)
    BY DEF Further, next
  <2> HIDE DEF more
  <2> QED BY <1>8, <2>2, <2>3
<1> DEFINE s == {t \in DOMAIN Type :
                    /\ HasComponent(t) => t \in W
                    /\ Type[t].is = "union" =>
                           \A v \in Type[t].refs : HasComponent(v) => v \in W}
<1>10. R \subseteq s
  BY <1>3, <1>4, <1>8
<1>11. ASSUME NEW t \in s, NEW u \in Type[t].refs PROVE u \in s
  <2>1. t \in DOMAIN Type /\ u \in DOMAIN Type /\ u # NoType
    BY <1>11, DeclarationAssumption
  <2>2. CASE HasComponent(t)
    <3>1. t \in W /\ t \in Closure(A)
      BY <1>2, <1>8, <2>2
    <3>2. u \in Closure(A)
      BY <3>1, ClosureIsClosed
    <3>3. NamedTypes(u) \cap D \subseteq W
      BY <1>9, <3>1
    <3>4. HasComponent(u) => u \in W
      <4>1. HasComponent(u) => u \in NamedTypes(u)
        BY <2>1 DEF HasComponent, NamedTypes
      <4> QED BY <1>2, <3>2, <3>3, <4>1
    <3>5. ASSUME Type[u].is = "union", NEW v \in Type[u].refs, HasComponent(v)
          PROVE  v \in W
      <4>1. v \in Closure(A) /\ v \in NamedTypes(u)
        BY <2>1, <3>2, <3>5, ClosureIsClosed DEF NamedTypes
      <4> QED BY <1>2, <3>3, <3>5, <4>1
    <3> QED BY <2>1, <3>4, <3>5
  <2>3. CASE Type[t].is = "union"
    <3>1. Type[u].is # "union"
      BY <2>1, <2>3, DeclarationAssumption
    <3>2. HasComponent(u) => u \in W
      BY <1>11, <2>3
    <3> QED BY <2>1, <3>1, <3>2
  <2>4. CASE ~HasComponent(t) /\ Type[t].is # "union"
    <3>1. Type[t].is \in {"scalar", "bytes", "opaque"}
      BY <2>1, <2>4, DeclarationAssumption DEF HasComponent, TypeInfo
    <3> QED BY <2>1, <3>1, DeclarationAssumption
  <2> QED BY <2>2, <2>3, <2>4
<1>12. s \in Closed
  BY <1>11, DeclarationAssumption DEF Closed
<1>13. \A t \in B : t \in s
  <2> HIDE DEF s
  <2> QED BY <1>10, <1>12 DEF Closure
<1>14. \A t \in B : HasComponent(t) => t \in W
  BY <1>13
<1>15. \A t \in W : t \in B /\ HasComponent(t)
  BY <1>2, <1>8
<1> QED BY <1>1, <1>14, <1>15

\* What the code generator refuses is not in the document of a service.
LEMMA FrozenReadable ==
    ASSUME DefinitionInv, protocol.frozen
    PROVE  ~Unreadable(Document)
<1>1. protocol.ops \in SUBSET Entry /\ Achieved(Positions, protocolOf, protocol.ops)
  BY DEF DefinitionInv, DefinitionTypes, ServedExactly
<1>2. Document.ops = Contract /\ Document.servers = Servers
  BY DEF Document
<1>3. \A op \in Contract : \E x \in protocol.ops :
          /\ x.decl \in Decls /\ op = WriteOperation(x.decl, WireName(x.decl), x.server)
          /\ op.name = WireName(x.decl) /\ op.kind = x.decl.kind /\ op.server = x.server
  BY <1>1, ContractNames
<1>4. ASSUME NEW op \in Contract, op.kind = "stream" PROVE StreamReadable(op)
  <2>1. PICK x \in protocol.ops :
            op = WriteOperation(x.decl, WireName(x.decl), x.server) /\ op.kind = x.decl.kind
    BY <1>3
  <2> DEFINE d == x.decl
  <2>2. op = StreamOperation(d, WireName(d), x.server)
    BY <1>4, <2>1 DEF WriteOperation
  <2>3. /\ op.direction = StreamDirection(d) /\ op.input = InputContentType(d)
        /\ op.output = IF StreamDirection(d) = "client-to-server" THEN "" ELSE Octets
    BY <2>2 DEF StreamOperation
  <2>4. StreamDirection(d) \in Directions
    BY DEF StreamDirection, Directions
  <2>5. (StreamDirection(d) = "server-to-client") <=> ~HasInput(d.fn)
    BY DEF StreamDirection
  <2>6. (InputContentType(d) = "") <=> ~HasInput(d.fn)
    BY DEF InputContentType, Octets
  <2> QED BY <2>3, <2>4, <2>5, <2>6 DEF StreamReadable
<1>5. \A o, p \in Contract : o.name = p.name => o = p
  <2>1. \A x, y \in protocol.ops : WireName(x.decl) = WireName(y.decl) => x = y
    BY <1>1 DEF Achieved, Apart
  <2> QED BY <1>3, <2>1
<1>6. NamesReadable(Contract)
  BY <1>5 DEF NamesReadable, OneName
<1>7. ASSUME NEW op \in Contract, op.kind \notin {"stream", "raw"} PROVE op.server \in Servers
  <2>1. PICK x \in protocol.ops : op.kind = x.decl.kind /\ op.server = x.server
    BY <1>3
  <2>2. PICK y \in Positions : x \in Claim(protocolOf, y)
    BY <1>1 DEF Achieved
  <2> DEFINE m == endpoints[y[1]]
  <2>3. y[1] \in DOMAIN endpoints /\ m \in Mounts
    BY PositionFacts DEF DefinitionInv, DefinitionTypes
  <2>4. x.server = EndpointName(m)
    BY <2>2 DEF Claim, ClaimAt, Served
  <2>5. m.kind = "socket"
    <3> SUFFICES ASSUME m.kind # "socket" PROVE FALSE
      OBVIOUS
    <3>1. x.decl \in m.decls
      BY <2>2 DEF Claim, ClaimAt, Served
    <3>2. x.decl.kind = m.kind
      BY <2>3, <3>1 DEF DefinitionInv, FunctionsMounted
    <3>3. m.kind \in SocketKinds
      BY <2>3, MountFacts
    <3> QED BY <1>7, <2>1, <3>2, <3>3 DEF SocketKinds
  <2>6. m \in {e \in ToSet(endpoints) : e.kind = "socket"}
    BY <2>3, <2>5 DEF ToSet
  <2> QED BY <2>1, <2>4, <2>6 DEF Servers
<1>8. ~UndeclaredServer(Document)
  BY <1>2, <1>7 DEF UndeclaredServer
<1> QED BY <1>2, <1>4, <1>6, <1>8 DEF Unreadable

\* The client of a frozen service declares what its operations name.
LEMMA FrozenDeclares ==
    ASSUME DefinitionInv
    PROVE  {t \in Closure(IrRoots(Contract)) : HasComponent(t)} = ClientTypes(Document)
<1>1. protocol.ops \in SUBSET Entry
  BY DEF DefinitionInv, DefinitionTypes
<1>2. ASSUME NEW op \in Contract
      PROVE  /\ op.params \in DOMAIN Type \cup {NoType}
             /\ op.payload \in DOMAIN Type \cup {NoType}
  <2>1. PICK x \in protocol.ops :
            x.decl \in Decls /\ op = WriteOperation(x.decl, WireName(x.decl), x.server)
    BY <1>1, ContractNames
  <2> DEFINE d == x.decl
  <2>2. d.fn \in DOMAIN Function
    BY <2>1, DefinitionAssumption DEF Decl
  <2>3. /\ ParamsType(d.fn) \in DOMAIN Type \cup {NoType}
        /\ Function[d.fn].of \in DOMAIN Type \cup {NoType}
    BY <2>2, DeclarationAssumption
  <2>4. CASE d.kind = "stream"
    BY <2>1, <2>4 DEF WriteOperation, StreamOperation
  <2>5. CASE d.kind = "raw"
    BY <2>1, <2>5 DEF WriteOperation, RawSocketOperation
  <2>6. CASE d.kind \notin {"stream", "raw"}
    BY <2>1, <2>3, <2>6 DEF WriteOperation, RpcOperation
  <2> QED BY <2>4, <2>5, <2>6
<1> QED BY <1>2, ClientDeclares DEF Document

\* What a frozen service writes, the generator reads, and the client declares every type
\* its operations name, directly or through fields (schema/openrpc.py, codegen/ir.py).
THEOREM ContractReadableCorrect == Spec => []ContractReadable
<1>1. PipelineInv => ContractReadable
  BY FrozenReadable, FrozenDeclares DEF PipelineInv, ContractReadable
<1> QED BY <1>1, PipelineInvariant, PTL

===============================================================================
