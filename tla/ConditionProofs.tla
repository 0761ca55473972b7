--------------------------- MODULE ConditionProofs ---------------------------
(***************************************************************************)
(* Conditions of a filter, for any columns and any frame of variables:     *)
(* that parsing and evaluating them are what their recursive definitions   *)
(* say, what a bitmap that comes out says of the rows, and when one does.  *)
(* Expressions are finite, so the arguments are by induction on Height.    *)
(* The facts about numbers, sequences and sets they need come first.       *)
(***************************************************************************)
EXTENDS FilterParse, SequenceTheorems, FiniteSetTheorems, WellFoundedInduction, TLAPS

-----------------------------------------------------------------------------
(* Numbers and sequences.                                                   *)

\* Induction over the natural numbers, for a set of them.
LEMMA NatSetInduction ==
  ASSUME NEW S, 0 \in S, \A n \in Nat : n \in S => n + 1 \in S
  PROVE  Nat \subseteq S
  <1> SUFFICES ASSUME ~(Nat \subseteq S) PROVE FALSE
    OBVIOUS
  <1> DEFINE R == OpToRel(<, Nat)
             T == Nat \ S
  <1>1. PICK m \in T : \A k \in T : ~ (<<k, m>> \in R)
    <2>1. T \subseteq Nat /\ T # {}
      OBVIOUS
    <2> HIDE DEF R, T
    <2> QED BY <2>1, WFMin, NatLessThanWellFounded DEF R
  <1>2. m \in Nat \ {0} /\ m - 1 \in Nat /\ (m - 1) + 1 = m
    OBVIOUS
  <1>3. \A k \in T : ~ (k < m)
    BY <1>1 DEF OpToRel
  <1> QED BY <1>2, <1>3

\* FlattenSeq puts one sequence after the other.
LEMMA Flattened ==
  ASSUME NEW S, NEW seqs \in Seq(Seq(S))
  PROVE  \E f \in [0..Len(seqs) -> Seq(S)] :
           /\ f[0] = <<>>
           /\ \A i \in 1..Len(seqs) : f[i] = f[i - 1] \o seqs[i]
           /\ FlattenSeq(seqs) = f[Len(seqs)]
  <1> DEFINE Flat(f, n) == f = [i \in 1..n |-> IF i = 1 THEN seqs[i] ELSE f[i - 1] \o seqs[i]]
             len  == Len(seqs)
             flat == CHOOSE f : Flat(f, len)
             g    == [i \in 0..len |-> IF i = 0 THEN <<>> ELSE flat[i]]
  <1>1. len \in Nat /\ \A i \in 1..len : seqs[i] \in Seq(S)
    BY LenProperties, ElementOfSeq
  <1>2. Flat(flat, len)
    <2> DEFINE T == {n \in Nat : \E f : Flat(f, n)}
    <2>1. 0 \in T
      <3>1. Flat(<<>>, 0)
        OBVIOUS
      <3> QED BY <3>1
    <2>2. ASSUME NEW n \in Nat, n \in T PROVE n + 1 \in T
      <3>1. PICK f : Flat(f, n)
        BY <2>2
      <3> DEFINE h == [i \in 1..n + 1 |->
                         IF i = 1 THEN seqs[i] ELSE f[i - 1] \o seqs[i]]
      <3>0. \A i \in 1..n : f[i] = IF i = 1 THEN seqs[i] ELSE f[i - 1] \o seqs[i]
        BY <3>1
      <3>2. \A i \in 1..n : h[i] = f[i]
        BY <3>0
      <3>3. Flat(h, n + 1)
        <4>1. \A i \in 1..n + 1 : i # 1 => i - 1 \in 1..n
          OBVIOUS
        <4>2. \A i \in 1..n + 1 : (IF i = 1 THEN seqs[i] ELSE f[i - 1] \o seqs[i])
                                  = (IF i = 1 THEN seqs[i] ELSE h[i - 1] \o seqs[i])
          <5> HIDE DEF h
          <5> QED BY <3>2, <4>1
        <4> QED BY <4>2
      <3> HIDE DEF h, Flat
      <3> QED BY <3>3
    <2> HIDE DEF T
    <2>3. Nat \subseteq T
      BY <2>1, <2>2, NatSetInduction
    <2>4. \E f : Flat(f, len)
      BY <1>1, <2>3 DEF T
    <2> QED BY <2>4
  <1> HIDE DEF flat
  <1>3. \A i \in 1..len : flat[i] = IF i = 1 THEN seqs[i] ELSE flat[i - 1] \o seqs[i]
    BY <1>2
  <1>4. \A i \in 1..len : g[i] = g[i - 1] \o seqs[i]
    <2> SUFFICES ASSUME NEW i \in 1..len PROVE g[i] = g[i - 1] \o seqs[i]
      OBVIOUS
    <2>0. i - 1 \in 0..len /\ i \in 0..len /\ (i - 1 = 0 <=> i = 1) /\ i # 0
      BY <1>1
    <2>1. CASE i = 1
      <3>1. <<>> \o seqs[1] = seqs[1]
        BY <1>1, <2>1, ConcatEmptySeq
      <3>2. g[1] = flat[1] /\ g[0] = <<>> /\ flat[1] = seqs[1]
        BY <1>1, <1>3, <2>0, <2>1
      <3> QED BY <2>1, <3>1, <3>2
    <2>2. CASE i # 1
      <3>1. g[i] = flat[i] /\ g[i - 1] = flat[i - 1]
        BY <2>0, <2>2
      <3> QED BY <1>3, <2>2, <3>1
    <2> QED BY <2>1, <2>2
  <1>5. g \in [0..len -> Seq(S)]
    <2> DEFINE T == {n \in Nat : n =< len => g[n] \in Seq(S)}
    <2>1. 0 \in T
      BY <1>1
    <2>2. ASSUME NEW n \in Nat, n \in T PROVE n + 1 \in T
      <3> SUFFICES ASSUME n + 1 =< len PROVE g[n + 1] \in Seq(S)
        OBVIOUS
      <3>1. n + 1 \in 1..len /\ (n + 1) - 1 = n /\ g[n] \in Seq(S)
        BY <1>1, <2>2
      <3>2. g[n + 1] = g[n] \o seqs[n + 1]
        BY <1>4, <3>1
      <3> HIDE DEF g
      <3> QED BY <1>1, <3>1, <3>2, ConcatProperties
    <2>3. Nat \subseteq T
      <3> HIDE DEF T
      <3> QED BY <2>1, <2>2, NatSetInduction
    <2>4. \A n \in 0..len : g[n] \in Seq(S)
      <3> HIDE DEF g
      <3> QED BY <1>1, <2>3
    <2>5. g = [n \in 0..len |-> g[n]]
      OBVIOUS
    <2> HIDE DEF g
    <2> QED BY <2>4, <2>5
  <1>6. FlattenSeq(seqs) = g[len]
    <2>1. CASE len = 0
      <3>1. seqs = <<>>
        BY <2>1, EmptySeq
      <3> QED BY <2>1, <3>1 DEF FlattenSeq
    <2>2. CASE len # 0
      <3>1. FlattenSeq(seqs) = flat[len]
        BY <2>2 DEF FlattenSeq, flat
      <3> QED BY <1>1, <2>2, <3>1
    <2> QED BY <2>1, <2>2
  <1> HIDE DEF g
  <1>7. g[0] = <<>>
    BY <1>1 DEF g
  <1> QED BY <1>4, <1>5, <1>6, <1>7

\* A set of numbers that is not empty has a least one.
LEMMA LeastOf ==
  ASSUME NEW S \in SUBSET Nat, S # {}
  PROVE  Min(S) \in S /\ \A k \in S : Min(S) =< k
  <1> DEFINE R == OpToRel(<, Nat)
  <1>1. PICK m \in S : \A k \in S : ~ (<<k, m>> \in R)
    <2> HIDE DEF R
    <2> QED BY WFMin, NatLessThanWellFounded DEF R
  <1>2. m \in Nat /\ \A k \in S : k \in Nat /\ ~(k < m)
    BY <1>1 DEF OpToRel
  <1>3. \A k \in S : m =< k
    BY <1>2
  <1> QED BY <1>3 DEF Min

\* A list of numbers that is not empty has a largest one.
LEMMA LargestOf ==
  ASSUME NEW list \in Seq(Nat), list # <<>>
  PROVE  \E m \in DOMAIN list : \A j \in DOMAIN list : list[j] =< list[m]
  <1> DEFINE len  == Len(list)
             T == {n \in Nat : n + 1 =< len =>
                     \E m \in 1..n + 1 : \A j \in 1..n + 1 : list[j] =< list[m]}
  <1>1. len \in Nat \ {0} /\ DOMAIN list = 1..len /\ \A j \in 1..len : list[j] \in Nat
    BY LenProperties, ElementOfSeq, EmptySeq
  <1>2. 0 \in T
    <2>1. ASSUME 0 + 1 =< len PROVE \A j \in 1..0 + 1 : list[j] =< list[1]
      BY <1>1, <2>1
    <2> QED BY <2>1
  <1>3. ASSUME NEW n \in Nat, n \in T PROVE n + 1 \in T
    <2> SUFFICES ASSUME (n + 1) + 1 =< len
                 PROVE  \E m \in 1..(n + 1) + 1 : \A j \in 1..(n + 1) + 1 : list[j] =< list[m]
      OBVIOUS
    <2>1. PICK m \in 1..n + 1 : \A j \in 1..n + 1 : list[j] =< list[m]
      BY <1>1, <1>3
    <2> DEFINE o == n + 2
    <2>2. m \in 1..len /\ o \in 1..len /\ list[m] \in Nat /\ list[o] \in Nat
      BY <1>1
    <2>3. \A j \in 1..o : j = o \/ j \in 1..n + 1
      OBVIOUS
    <2>4. (n + 1) + 1 = o /\ m \in 1..o /\ o \in 1..o /\ \A j \in 1..o : list[j] \in Nat
      BY <1>1
    <2> HIDE DEF o, len
    <2>5. CASE list[m] =< list[o]
      <3>1. \A j \in 1..o : list[j] =< list[o]
        BY <2>1, <2>2, <2>3, <2>4, <2>5
      <3> QED BY <2>4, <3>1
    <2>6. CASE ~(list[m] =< list[o])
      <3>1. \A j \in 1..o : list[j] =< list[m]
        BY <2>1, <2>2, <2>3, <2>4, <2>6
      <3> QED BY <2>4, <3>1
    <2> QED BY <2>5, <2>6
  <1>4. Nat \subseteq T
    <2> HIDE DEF T
    <2> QED BY <1>2, <1>3, NatSetInduction
  <1>5. len - 1 \in Nat /\ (len - 1) + 1 = len
    BY <1>1
  <1>6. len - 1 \in T
    BY <1>4, <1>5
  <1> HIDE DEF len
  <1> QED BY <1>1, <1>5, <1>6

-----------------------------------------------------------------------------
(* Parsing and evaluating conditions.                                       *)

\* An expression is parsed from its operands, parsed.
ParseStep(P, e) == Rewritten(e, [i \in DOMAIN e.args |-> P[e.args[i]]])

\* Only the operands matter, and only those of a call.
LEMMA ParseStepSame ==
  ASSUME NEW e \in Expr, NEW P, NEW R,
         \A a \in Expr : Height[a] < Height[e] => P[a] = R[a]
  PROVE  ParseStep(P, e) = ParseStep(R, e)
  <1>1. CASE e.is = "call"
    <2>1. e.args \in Seq(Expr) /\ \A i \in DOMAIN e.args : Height[e.args[i]] < Height[e]
      BY <1>1, ExprAssumption
    <2>2. \A i \in DOMAIN e.args : P[e.args[i]] = R[e.args[i]]
      BY <2>1, LenProperties, ElementOfSeq
    <2>3. [i \in DOMAIN e.args |-> P[e.args[i]]] = [i \in DOMAIN e.args |-> R[e.args[i]]]
      BY <2>2
    <2> QED BY <2>3 DEF ParseStep
  <1>2. CASE e.is # "call"
    BY <1>2 DEF ParseStep, Rewritten
  <1> QED BY <1>1, <1>2

\* Parse is what its definition says: expressions are finite, so there is one
\* such function.
LEMMA ParseDef == Parse = [e \in Expr |-> ParseStep(Parse, e)]
  <1> DEFINE Below(n) == {e \in Expr : Height[e] < n}
             Def(P, n) == P = [e \in Below(n) |-> ParseStep(P, e)]
             Agree(P, R, n) == \A e \in Below(n) : P[e] = R[e]
  <1>0. \A e \in Expr : Height[e] \in Nat
    BY ExprAssumption
  <1>1. ASSUME NEW n \in Nat, NEW m1 \in Nat, NEW m2 \in Nat, n =< m1, n =< m2,
               NEW P, NEW R, Def(P, m1), Def(R, m2)
        PROVE  Agree(P, R, n)
    <2> DEFINE T == {k \in Nat : k =< n => Agree(P, R, k)}
    <2>1. 0 \in T
      BY <1>0
    <2>2. ASSUME NEW k \in Nat, k \in T PROVE k + 1 \in T
      <3> SUFFICES ASSUME k + 1 =< n, NEW e \in Below(k + 1) PROVE P[e] = R[e]
        OBVIOUS
      <3>1. Height[e] \in Nat /\ Height[e] < k + 1 /\ e \in Expr
        BY <1>0
      <3>2. e \in Below(m1) /\ e \in Below(m2)
        BY <1>1, <3>1
      <3>3. P[e] = ParseStep(P, e) /\ R[e] = ParseStep(R, e)
        BY <1>1, <3>2
      <3>4. \A a \in Expr : Height[a] < Height[e] => P[a] = R[a]
        BY <1>0, <2>2, <3>1
      <3> QED BY <3>1, <3>3, <3>4, ParseStepSame
    <2>3. Nat \subseteq T
      <3> HIDE DEF T
      <3> QED BY <2>1, <2>2, NatSetInduction
    <2> QED BY <2>3
  <1> DEFINE S == {n \in Nat : \E P : Def(P, n)}
  <1>2. Nat \subseteq S
    <2>1. 0 \in S
      <3>1. Below(0) = {}
        BY <1>0
      <3>2. Def([e \in {} |-> 0], 0)
        BY <3>1
      <3> QED BY <3>2
    <2>2. ASSUME NEW n \in Nat, n \in S PROVE n + 1 \in S
      <3>1. PICK P : Def(P, n)
        BY <2>2
      <3> DEFINE H == [e \in Below(n + 1) |-> ParseStep(P, e)]
      <3>2. ASSUME NEW e \in Below(n + 1) PROVE ParseStep(P, e) = ParseStep(H, e)
        <4>1. e \in Expr /\ Height[e] < n + 1
          OBVIOUS
        <4>2. \A a \in Expr : Height[a] < Height[e] => a \in Below(n) /\ a \in Below(n + 1)
          BY <1>0, <4>1
        <4>3. \A a \in Below(n) : P[a] = ParseStep(P, a)
          BY <3>1
        <4>4. \A a \in Expr : Height[a] < Height[e] => P[a] = H[a]
          BY <4>2, <4>3
        <4> HIDE DEF H
        <4> QED BY <4>1, <4>4, ParseStepSame
      <3>3. Def(H, n + 1)
        BY <3>2
      <3> HIDE DEF H, Def
      <3> QED BY <3>3
    <2> HIDE DEF S
    <2> QED BY <2>1, <2>2, NatSetInduction
  <1> DEFINE P(n) == CHOOSE R : Def(R, n)
             G    == [e \in Expr |-> P(Height[e] + 1)[e]]
  <1>3. \A n \in Nat : Def(P(n), n)
    BY <1>2
  <1>4. ASSUME NEW e \in Expr PROVE G[e] = ParseStep(G, e)
    <2>1. Height[e] + 1 \in Nat /\ e \in Below(Height[e] + 1)
      BY <1>0
    <2>2. G[e] = P(Height[e] + 1)[e]
      OBVIOUS
    <2>3. P(Height[e] + 1)[e] = ParseStep(P(Height[e] + 1), e)
      BY <1>3, <2>1
    <2>4. ASSUME NEW a \in Expr, Height[a] < Height[e]
          PROVE  P(Height[e] + 1)[a] = G[a]
      <3>1. /\ Height[a] + 1 \in Nat /\ Height[a] + 1 =< Height[e] + 1
            /\ a \in Below(Height[a] + 1)
        BY <1>0, <2>4
      <3>2. Agree(P(Height[e] + 1), P(Height[a] + 1), Height[a] + 1)
        <4> HIDE DEF Agree, Def, P
        <4> QED BY <1>1, <1>3, <2>1, <3>1
      <3>3. G[a] = P(Height[a] + 1)[a]
        OBVIOUS
      <3> HIDE DEF P, G
      <3> QED BY <3>1, <3>2, <3>3
    <2> HIDE DEF P, G
    <2> QED BY <2>2, <2>3, <2>4, ParseStepSame
  <1>5. G = [e \in Expr |-> ParseStep(G, e)]
    <2>1. G = [e \in Expr |-> G[e]]
      OBVIOUS
    <2> HIDE DEF G
    <2> QED BY <1>4, <2>1
  <1>6. Parse = CHOOSE R : R = [e \in Expr |-> ParseStep(R, e)]
    BY DEF Parse, ParseStep
  <1> HIDE DEF G
  <1> QED BY <1>5, <1>6

\* What a rewritten call looks like: its operands are parsed expressions.
LEMMA CallParsed ==
  ASSUME NEW e \in Expr, Parse[e].is = "call"
  PROVE  /\ e.is = "call"
         /\ Parse[e].args \in Seq(Parsed)
         /\ \A i \in DOMAIN Parse[e].args :
              \E a \in Expr : Height[a] < Height[e] /\ Parse[e].args[i] = Parse[a]
         /\ Parse[e].fn \in DOMAIN KernelOp \cup {"sindex_and", "sindex_or"} =>
              Len(Parse[e].args) = 2
  <1> DEFINE args == [i \in DOMAIN e.args |-> Parse[e.args[i]]]
  <1>1. Parse[e] = Rewritten(e, args)
    BY ParseDef DEF ParseStep
  <1>2. e.is = "call"
    BY <1>1 DEF Rewritten, Const, Error
  <1>3. e.args \in Seq(Expr) /\ \A i \in DOMAIN e.args : Height[e.args[i]] < Height[e]
    BY <1>2, ExprAssumption
  <1>4. /\ Len(e.args) \in Nat /\ DOMAIN e.args = 1..Len(e.args)
        /\ \A i \in DOMAIN e.args : e.args[i] \in Expr
    BY <1>3, LenProperties, ElementOfSeq
  <1>5. args = [i \in 1..Len(e.args) |-> args[i]] /\ \A i \in 1..Len(e.args) : args[i] \in Parsed
    BY <1>4 DEF Parsed
  <1>6. \A i \in 1..Len(e.args) : \E a \in Expr : Height[a] < Height[e] /\ args[i] = Parse[a]
    BY <1>3, <1>4
  <1> HIDE DEF args
  <1>7. args \in Seq(Parsed) /\ Len(args) = Len(e.args) /\ DOMAIN args = 1..Len(e.args)
    BY <1>4, <1>5, IsASeq
  <1>8. CASE e.fn \in DOMAIN Logical
    <2>1. Parse[e] = CallOf(Logical[e.fn], args)
      <3>1. e.fn \notin DOMAIN Generic
        BY <1>8 DEF Logical, Generic
      <3> QED BY <1>1, <1>2, <1>8, <3>1 DEF Rewritten
    <2>2. Parse[e].args = args /\ Parse[e].fn = Logical[e.fn]
      BY <2>1 DEF CallOf, Error
    <2>3. Parse[e].fn \in DOMAIN KernelOp \cup {"sindex_and", "sindex_or"} => e.fn \in {"&", "|"}
      BY <1>8, <2>2 DEF Logical, KernelOp
    <2> QED BY <1>2, <1>4, <1>6, <1>7, <2>2, <2>3, ExprAssumption
  <1>9. CASE e.fn \notin DOMAIN Logical
    <2>1. /\ Len(e.args) = 2
          /\ \/ Parse[e].args = Reverse(args)
             \/ Parse[e].args = args
      BY <1>1, <1>2, <1>9 DEF Rewritten, CallOf, Error
    <2>2. Reverse(args) = [i \in 1..2 |-> args[3 - i]]
      BY <1>7, <2>1 DEF Reverse
    <2>3. Reverse(args) \in Seq(Parsed) /\ Len(Reverse(args)) = 2 /\ DOMAIN Reverse(args) = 1..2
      <3>1. \A i \in 1..2 : args[3 - i] \in Parsed
        BY <1>5, <2>1
      <3> QED BY <2>2, <3>1
    <2>4. \A i \in 1..2 : \E a \in Expr : Height[a] < Height[e] /\ Reverse(args)[i] = Parse[a]
      <3>1. \A i \in 1..2 : 3 - i \in 1..2 /\ Reverse(args)[i] = args[3 - i]
        BY <2>2
      <3> QED BY <1>6, <2>1, <3>1
    <2> QED BY <1>2, <1>6, <1>7, <2>1, <2>3, <2>4
  <1> QED BY <1>8, <1>9

\* The value of a tree comes from the values of its operands.
ValueStep(frame, F, t) == Valued(frame, t, [i \in DOMAIN t.args |-> F[t.args[i]]])

\* Only the operands matter, and only those of a call.
LEMMA ValueStepSame ==
  ASSUME NEW e \in Expr, NEW frame, NEW P, NEW R,
         \A a \in Expr : Height[a] < Height[e] => P[Parse[a]] = R[Parse[a]]
  PROVE  ValueStep(frame, P, Parse[e]) = ValueStep(frame, R, Parse[e])
  <1> DEFINE t == Parse[e]
  <1>1. CASE t.is = "call"
    <2>1. \A i \in DOMAIN t.args : P[t.args[i]] = R[t.args[i]]
      BY <1>1, CallParsed
    <2>2. [i \in DOMAIN t.args |-> P[t.args[i]]] = [i \in DOMAIN t.args |-> R[t.args[i]]]
      BY <2>1
    <2> QED BY <2>2 DEF ValueStep
  <1>2. CASE t.is # "call"
    <2> HIDE DEF t
    <2>1. ValueStep(frame, P, t) = ValueStep(frame, R, t)
      BY <1>2 DEF ValueStep, Valued
    <2> QED BY <2>1 DEF t
  <1> QED BY <1>1, <1>2

\* Eval is what its definition says, by the same argument as for Parse: how
\* deep a tree is nested is the height of an expression it is parsed from.
LEMMA EvalDef ==
  ASSUME NEW frame
  PROVE  \A e \in Expr :
           \E F : /\ Eval(frame, Parse[e]) = ValueStep(frame, F, Parse[e])
                 /\ \A a \in Expr : F[Parse[a]] = Eval(frame, Parse[a])
  <1> DEFINE Step(F, t) == ValueStep(frame, F, t)
             Below(n) == {Parse[e] : e \in {x \in Expr : Height[x] < n}}
             Def(P, n) == P = [t \in Below(n) |-> Step(P, t)]
             Agree(P, R, n) == \A t \in Below(n) : P[t] = R[t]
  <1>0. \A e \in Expr : Height[e] \in Nat
    BY ExprAssumption
  <1>1. ASSUME NEW n \in Nat, NEW m1 \in Nat, NEW m2 \in Nat, n =< m1, n =< m2,
               NEW P, NEW R, Def(P, m1), Def(R, m2)
        PROVE  Agree(P, R, n)
    <2> DEFINE T == {k \in Nat : k =< n => Agree(P, R, k)}
    <2>1. 0 \in T
      BY <1>0
    <2>2. ASSUME NEW k \in Nat, k \in T PROVE k + 1 \in T
      <3> SUFFICES ASSUME k + 1 =< n, NEW e \in Expr, Height[e] < k + 1
                   PROVE  P[Parse[e]] = R[Parse[e]]
        OBVIOUS
      <3>1. Height[e] \in Nat /\ Height[e] < m1 /\ Height[e] < m2
        BY <1>0, <1>1
      <3>2. Parse[e] \in Below(m1) /\ Parse[e] \in Below(m2)
        BY <3>1
      <3>3. P[Parse[e]] = Step(P, Parse[e]) /\ R[Parse[e]] = Step(R, Parse[e])
        BY <1>1, <3>2
      <3>4. \A a \in Expr : Height[a] < Height[e] => P[Parse[a]] = R[Parse[a]]
        BY <1>0, <2>2, <3>1
      <3> QED BY <3>1, <3>3, <3>4, ValueStepSame
    <2>3. Nat \subseteq T
      <3> HIDE DEF T
      <3> QED BY <2>1, <2>2, NatSetInduction
    <2> QED BY <2>3
  <1> DEFINE S == {n \in Nat : \E P : Def(P, n)}
  <1>2. Nat \subseteq S
    <2>1. 0 \in S
      <3>1. Below(0) = {}
        BY <1>0
      <3>2. Def([t \in {} |-> 0], 0)
        BY <3>1
      <3> QED BY <3>2
    <2>2. ASSUME NEW n \in Nat, n \in S PROVE n + 1 \in S
      <3>1. PICK P : Def(P, n)
        BY <2>2
      <3> DEFINE H == [t \in Below(n + 1) |-> Step(P, t)]
      <3>2. ASSUME NEW e \in Expr, Height[e] < n + 1
            PROVE  Step(P, Parse[e]) = Step(H, Parse[e])
        <4>2. \A a \in Expr : Height[a] < Height[e] =>
                Parse[a] \in Below(n) /\ Parse[a] \in Below(n + 1)
          BY <1>0, <3>2
        <4>3. \A t \in Below(n) : P[t] = Step(P, t)
          BY <3>1
        <4>4. \A a \in Expr : Height[a] < Height[e] => P[Parse[a]] = H[Parse[a]]
          BY <4>2, <4>3
        <4> HIDE DEF H
        <4> QED BY <4>4, ValueStepSame
      <3>3. Def(H, n + 1)
        BY <3>2
      <3> HIDE DEF H, Def
      <3> QED BY <3>3
    <2> HIDE DEF S
    <2> QED BY <2>1, <2>2, NatSetInduction
  <1> DEFINE P(n)     == CHOOSE R : Def(R, n)
             Depth(t) == CHOOSE n \in Nat : t \in Below(n)
             G        == [t \in Parsed |-> P(Depth(t))[t]]
  <1>3. \A n \in Nat : Def(P(n), n)
    BY <1>2
  <1>4. \A t \in Parsed : Depth(t) \in Nat /\ t \in Below(Depth(t))
    <2>1. ASSUME NEW e \in Expr PROVE \E n \in Nat : Parse[e] \in Below(n)
      <3>1. Height[e] + 1 \in Nat /\ Height[e] < Height[e] + 1
        BY <1>0
      <3> QED BY <3>1
    <2> HIDE DEF Below
    <2> QED BY <2>1 DEF Parsed
  <1>5. \A m, n \in Nat : m =< n => Below(m) \subseteq Below(n)
    BY <1>0
  <1>6. ASSUME NEW n \in Nat, NEW t \in Below(n), t \in Parsed
        PROVE  P(n)[t] = G[t]
    <2> DEFINE d == Depth(t)
    <2>1. d \in Nat /\ t \in Below(d) /\ G[t] = P(d)[t]
      BY <1>4, <1>6
    <2> HIDE DEF d, G, P, Def
    <2>2. CASE d =< n
      <3>1. Agree(P(n), P(d), d)
        <4> HIDE DEF Agree
        <4> QED BY <1>1, <1>3, <2>1, <2>2
      <3> QED BY <2>1, <3>1
    <2>3. CASE ~(d =< n)
      <3>1. Agree(P(n), P(d), n)
        <4> HIDE DEF Agree
        <4> QED BY <1>1, <1>3, <2>1, <2>3
      <3> QED BY <1>6, <2>1, <3>1
    <2> QED BY <2>2, <2>3
  <1>7. ASSUME NEW e \in Expr PROVE G[Parse[e]] = Step(G, Parse[e])
    <2> DEFINE n == Height[e] + 1
    <2>1. n \in Nat /\ Parse[e] \in Below(n) /\ Parse[e] \in Parsed
      BY <1>0 DEF Parsed
    <2>2. G[Parse[e]] = P(n)[Parse[e]]
      <3> HIDE DEF G, P, Below, n
      <3> QED BY <1>6, <2>1
    <2>3. P(n)[Parse[e]] = Step(P(n), Parse[e])
      <3> HIDE DEF P, n, Step, Below
      <3>1. Def(P(n), n)
        <4> HIDE DEF Def
        <4> QED BY <1>3, <2>1
      <3> QED BY <2>1, <3>1
    <2>4. ASSUME NEW a \in Expr, Height[a] < Height[e]
          PROVE  P(n)[Parse[a]] = G[Parse[a]]
      <3>1. Parse[a] \in Below(n) /\ Parse[a] \in Parsed
        BY <1>0, <2>4 DEF Parsed
      <3> HIDE DEF G, P, Below, n
      <3> QED BY <1>6, <2>1, <3>1
    <2> HIDE DEF G, P, n
    <2> QED BY <2>2, <2>3, <2>4, ValueStepSame
  <1>8. G = [t \in Parsed |-> Step(G, t)]
    <2>1. G = [t \in Parsed |-> G[t]]
      OBVIOUS
    <2>2. \A t \in Parsed : G[t] = Step(G, t)
      BY <1>7 DEF Parsed
    <2> HIDE DEF G
    <2> QED BY <2>1, <2>2
  <1> DEFINE E == CHOOSE R : R = [t \in Parsed |-> Step(R, t)]
  <1>9. E = [t \in Parsed |-> Step(E, t)]
    <2> HIDE DEF G
    <2> QED BY <1>8
  <1>10. \A tree : Eval(frame, tree) = E[tree]
    BY DEF Eval, ValueStep
  <1>11. \A e \in Expr : Parse[e] \in Parsed
    BY DEF Parsed
  <1> HIDE DEF E
  <1> QED BY <1>9, <1>10, <1>11

\* A vector's cells, and a bitmap's bits, are numbered from one.
Numbered(f) == \E n \in Nat : DOMAIN f = 1..n

ValueOK(x) ==
  /\ x.is = "vec" => Numbered(x.cells)
  /\ x.is = "bits" => x.bits \in Seq(BOOLEAN)

\* A function that is true or false on a numbered domain is a bitmap.
LEMMA BitsSeq ==
  ASSUME NEW n \in Nat, NEW f, f = [j \in 1..n |-> f[j]], \A j \in 1..n : f[j] \in BOOLEAN
  PROVE  f \in Seq(BOOLEAN)
  BY IsASeq

\* What a comparison gives.
LEMMA CompareOK ==
  ASSUME NEW f \in DOMAIN KernelOp, NEW x, NEW y, ValueOK(x)
  PROVE  ValueOK(Compare(f, x, y))
  <1>1. CASE ~Comparable(f, x, y)
    BY <1>1 DEF Compare, ValueOK, Error
  <1>2. CASE Comparable(f, x, y)
    <2> DEFINE b == [j \in DOMAIN x.cells |->
                       KernelBit(x.class, KernelOp[f], Len(x.cells), j, x.cells[j],
                                 Value(x.class, y.cells[1]))]
    <2>1. PICK n \in Nat : DOMAIN x.cells = 1..n
      BY <1>2 DEF Comparable, ValueOK, Numbered
    <2>2. KernelOp[f] \in OpName
      BY DEF KernelOp, OpName
    <2>3. \A j \in 1..n : b[j] \in BOOLEAN
      <3> SUFFICES ASSUME NEW j \in 1..n, NEW op \in OpName, NEW u, NEW w,
                          NEW c, NEW l
                   PROVE  KernelBit(c, op, l, j, u, w) \in BOOLEAN
        BY <2>1, <2>2
      <3> QED BY DEF KernelBit, LaneBit, TailBit, LaneEq, LaneLt, LaneGt, LaneGe, LaneLe, OpName
    <2>4. b = [j \in 1..n |-> b[j]]
      BY <2>1
    <2>5. Compare(f, x, y) = Bits(b)
      BY <1>2 DEF Compare
    <2> HIDE DEF b
    <2>6. b \in Seq(BOOLEAN)
      BY <2>3, <2>4, BitsSeq
    <2> QED BY <2>5, <2>6 DEF ValueOK, Bits
  <1> QED BY <1>1, <1>2

\* What a logical operation gives.
LEMMA CombineOK ==
  ASSUME NEW f, NEW x, NEW y, ValueOK(x)
  PROVE  ValueOK(Combine(f, x, y))
  <1> DEFINE P == x.is = "bits" /\ y.is = "bits" /\ Len(x.bits) = Len(y.bits)
             b == [j \in DOMAIN x.bits |->
                     IF f = "sindex_and" THEN x.bits[j] /\ y.bits[j] ELSE x.bits[j] \/ y.bits[j]]
  <1>1. CASE ~P
    BY <1>1 DEF Combine, ValueOK, Error
  <1>2. CASE P
    <2>1. x.bits \in Seq(BOOLEAN)
      BY <1>2 DEF ValueOK
    <2>2. Len(x.bits) \in Nat /\ DOMAIN x.bits = 1..Len(x.bits)
      BY <2>1, LenProperties
    <2>3. b = [j \in 1..Len(x.bits) |-> b[j]] /\ \A j \in 1..Len(x.bits) : b[j] \in BOOLEAN
      BY <2>2
    <2>4. Combine(f, x, y) = Bits(b)
      BY <1>2 DEF Combine
    <2> HIDE DEF b
    <2>5. b \in Seq(BOOLEAN)
      BY <2>2, <2>3, BitsSeq
    <2> QED BY <2>4, <2>5 DEF ValueOK, Bits
  <1> QED BY <1>1, <1>2

\* Evaluating a condition in a frame of vectors gives a vector, a bitmap, or
\* an error.
LEMMA EvalOK ==
  ASSUME NEW frame, \A n \in DOMAIN frame : ValueOK(frame[n]), NEW cond \in Expr
  PROVE  ValueOK(Eval(frame, Parse[cond]))
  <1> DEFINE T == {n \in Nat : \A e \in Expr : Height[e] < n => ValueOK(Eval(frame, Parse[e]))}
  <1>0. \A e \in Expr : Height[e] \in Nat
    BY ExprAssumption
  <1>1. 0 \in T
    BY <1>0
  <1>2. ASSUME NEW n \in Nat, n \in T PROVE n + 1 \in T
    <2> SUFFICES ASSUME NEW e \in Expr, Height[e] < n + 1 PROVE ValueOK(Eval(frame, Parse[e]))
      OBVIOUS
    <2> DEFINE t == Parse[e]
    <2>1. PICK F : /\ Eval(frame, t) = ValueStep(frame, F, t)
                   /\ \A a \in Expr : F[Parse[a]] = Eval(frame, Parse[a])
      BY EvalDef
    <2> DEFINE args == [i \in DOMAIN t.args |-> F[t.args[i]]]
    <2>2. Eval(frame, t) = Valued(frame, t, args)
      BY <2>1 DEF ValueStep
    <2>3. ASSUME t.is = "call", NEW i \in DOMAIN t.args PROVE ValueOK(args[i])
      <3>1. PICK a \in Expr : Height[a] < Height[e] /\ t.args[i] = Parse[a]
        BY <2>3, CallParsed
      <3>2. Height[a] < n
        BY <1>0, <3>1
      <3>3. ValueOK(Eval(frame, Parse[a]))
        BY <1>2, <3>2
      <3>4. args[i] = Eval(frame, Parse[a])
        BY <2>1, <3>1
      <3> QED BY <3>3, <3>4
    <2>4. t.is = "call" /\ t.fn \in DOMAIN KernelOp \cup {"sindex_and", "sindex_or"} =>
            1 \in DOMAIN t.args
      <3> SUFFICES ASSUME t.is = "call", t.fn \in DOMAIN KernelOp \cup {"sindex_and", "sindex_or"}
                   PROVE  1 \in DOMAIN t.args
        OBVIOUS
      <3>1. t.args \in Seq(Parsed) /\ Len(t.args) = 2
        BY CallParsed
      <3> QED BY <3>1, LenProperties
    <2> HIDE DEF t, args
    <2>5. CASE t.is = "const"
      <3>1. Eval(frame, t) = Vec("double", <<t.value>>)
        BY <2>2, <2>5 DEF Valued
      <3> QED BY <3>1 DEF Vec, ValueOK, Numbered, t
    <2>6. CASE t.is = "name"
      <3>1. Eval(frame, t) = IF t.name \in DOMAIN frame THEN frame[t.name] ELSE Error
        BY <2>2, <2>6 DEF Valued
      <3> QED BY <3>1 DEF ValueOK, Error, t
    <2>7. CASE t.is = "call" /\ t.fn \in DOMAIN KernelOp
      <3>1. t.fn \notin {"sindex_and", "sindex_or"}
        BY <2>7 DEF KernelOp
      <3>2. Eval(frame, t) = Compare(t.fn, args[1], args[2])
        BY <2>2, <2>7, <3>1 DEF Valued
      <3>3. ValueOK(args[1])
        BY <2>3, <2>4, <2>7
      <3> QED BY <2>7, <3>2, <3>3, CompareOK DEF t
    <2>8. CASE t.is = "call" /\ t.fn \in {"sindex_and", "sindex_or"}
      <3>1. t.fn \notin DOMAIN KernelOp
        BY <2>8 DEF KernelOp
      <3>2. Eval(frame, t) = Combine(t.fn, args[1], args[2])
        BY <2>2, <2>8, <3>1 DEF Valued
      <3>3. ValueOK(args[1])
        BY <2>3, <2>4, <2>8
      <3> QED BY <3>2, <3>3, CombineOK DEF t
    <2>9. CASE /\ t.is \notin {"const", "name"}
               /\ ~(t.is = "call" /\ t.fn \in DOMAIN KernelOp)
               /\ ~(t.is = "call" /\ t.fn \in {"sindex_and", "sindex_or"})
      <3>1. Eval(frame, t) = Error
        BY <2>2, <2>9 DEF Valued
      <3> QED BY <3>1 DEF ValueOK, Error, t
    <2> QED BY <2>5, <2>6, <2>7, <2>8, <2>9
  <1>3. Nat \subseteq T
    <2> HIDE DEF T
    <2> QED BY <1>1, <1>2, NatSetInduction
  <1>4. Height[cond] + 1 \in Nat /\ Height[cond] < Height[cond] + 1
    BY <1>0
  <1> QED BY <1>3, <1>4

-----------------------------------------------------------------------------
(* Functions defined by recursion.                                          *)

\* A step of a recursion over S: what it makes of x depends on lower values.
Recurs(G, S, V, h) ==
  /\ h \in [S -> Nat]
  /\ G \in [[S -> V] -> [S -> V]]
  /\ \A P, R \in [S -> V] : \A x \in S :
       (\A a \in S : h[a] < h[x] => P[a] = R[a]) => G[P][x] = G[R][x]

\* A recursion over values of finite height has a solution.
LEMMA Solution ==
  ASSUME NEW S, NEW V, NEW h, NEW G, V # {}, Recurs(G, S, V, h)
  PROVE  \E F : F \in [S -> V] /\ F = G[F]
  <1> PICK w \in V : TRUE
    OBVIOUS
  <1> DEFINE Def(P, n) == P \in [S -> V] /\ \A x \in S : h[x] < n => P[x] = G[P][x]
             Agree(P, R, n) == \A x \in S : h[x] < n => P[x] = R[x]
  <1>0. h \in [S -> Nat] /\ \A P \in [S -> V] : G[P] \in [S -> V]
    BY DEF Recurs
  <1>9. ASSUME NEW P \in [S -> V], NEW R \in [S -> V], NEW x \in S,
               \A a \in S : h[a] < h[x] => P[a] = R[a]
        PROVE  G[P][x] = G[R][x]
    BY <1>9 DEF Recurs
  <1>1. ASSUME NEW n \in Nat, NEW m1 \in Nat, NEW m2 \in Nat, n =< m1, n =< m2,
               NEW P, NEW R, Def(P, m1), Def(R, m2)
        PROVE  Agree(P, R, n)
    <2> DEFINE T == {k \in Nat : k =< n => Agree(P, R, k)}
    <2>1. 0 \in T
      BY <1>0
    <2>2. ASSUME NEW k \in Nat, k \in T PROVE k + 1 \in T
      <3> SUFFICES ASSUME k + 1 =< n, NEW x \in S, h[x] < k + 1 PROVE P[x] = R[x]
        OBVIOUS
      <3>1. h[x] \in Nat /\ h[x] < m1 /\ h[x] < m2
        BY <1>0, <1>1
      <3>2. P[x] = G[P][x] /\ R[x] = G[R][x]
        BY <1>1, <3>1
      <3>3. \A a \in S : h[a] < h[x] => P[a] = R[a]
        BY <1>0, <2>2, <3>1
      <3> QED BY <1>1, <1>9, <3>2, <3>3
    <2>3. Nat \subseteq T
      <3> HIDE DEF T
      <3> QED BY <2>1, <2>2, NatSetInduction
    <2> QED BY <2>3
  <1> DEFINE N == {n \in Nat : \E P : Def(P, n)}
  <1>2. Nat \subseteq N
    <2>1. 0 \in N
      <3>1. Def([x \in S |-> w], 0)
        BY <1>0
      <3> HIDE DEF Def
      <3> QED BY <3>1
    <2>2. ASSUME NEW n \in Nat, n \in N PROVE n + 1 \in N
      <3>1. PICK P : Def(P, n)
        BY <2>2
      <3>2. Def(G[P], n + 1)
        <4> SUFFICES ASSUME NEW x \in S, h[x] < n + 1 PROVE G[P][x] = G[G[P]][x]
          BY <1>0, <3>1
        <4>1. \A a \in S : h[a] < h[x] => h[a] < n
          BY <1>0
        <4>2. \A a \in S : h[a] < h[x] => P[a] = G[P][a]
          BY <3>1, <4>1
        <4> QED BY <1>0, <1>9, <3>1, <4>2
      <3> HIDE DEF Def
      <3> QED BY <3>2
    <2> HIDE DEF N
    <2> QED BY <2>1, <2>2, NatSetInduction
  <1> DEFINE P(n) == CHOOSE R : Def(R, n)
             F    == [x \in S |-> P(h[x] + 1)[x]]
  <1>3. \A n \in Nat : Def(P(n), n)
    BY <1>2
  <1>4. ASSUME NEW x \in S PROVE F[x] \in V
    <2>1. h[x] + 1 \in Nat
      BY <1>0
    <2>2. P(h[x] + 1) \in [S -> V]
      BY <1>3, <2>1
    <2> HIDE DEF P
    <2> QED BY <2>2
  <1>5. F \in [S -> V]
    <2>1. F = [x \in S |-> F[x]]
      OBVIOUS
    <2> HIDE DEF F
    <2> QED BY <1>4, <2>1
  <1>6. ASSUME NEW x \in S PROVE F[x] = G[F][x]
    <2> DEFINE n == h[x] + 1
               B == P(n)
    <2>0. n \in Nat /\ h[x] < n
      BY <1>0
    <2>1. n \in Nat /\ h[x] < n /\ Def(B, n)
      <3>1. Def(P(n), n)
        <4> HIDE DEF Def, P, n
        <4> QED BY <1>3, <2>0
      <3> HIDE DEF Def
      <3> QED BY <2>0, <3>1
    <2>2. F[x] = B[x] /\ B[x] = G[B][x]
      BY <2>1
    <2>3. ASSUME NEW a \in S, h[a] < h[x] PROVE B[a] = F[a]
      <3> DEFINE m == h[a] + 1
      <3>1. m \in Nat /\ m =< n /\ h[a] < m /\ Def(P(m), m) /\ F[a] = P(m)[a]
        BY <1>0, <1>3, <2>3
      <3>2. Agree(B, P(m), m)
        <4> HIDE DEF Agree, Def, B, P, m, n
        <4> QED BY <1>1, <2>1, <3>1
      <3> HIDE DEF B, P, F, m
      <3> QED BY <3>1, <3>2
    <2> HIDE DEF B, F
    <2> QED BY <1>5, <1>9, <2>1, <2>2, <2>3
  <1>7. F = G[F]
    <2> HIDE DEF F
    <2> QED BY <1>0, <1>5, <1>6
  <1> HIDE DEF F
  <1> QED BY <1>5, <1>7

-----------------------------------------------------------------------------
(* What a condition means, row by row.                                      *)

\* What a condition means is worked out from its operands.
LEMMA TruthDef ==
  ASSUME NEW row
  PROVE  \A e \in Expr :
           Truth(e, row) = Meant(e, row, [i \in DOMAIN e.args |-> Truth(e.args[i], row)])
  <1> DEFINE Step(P, e) == Meant(e, row, [i \in DOMAIN e.args |-> P[e.args[i]]])
             G == [P \in [Expr -> BOOLEAN] |-> [e \in Expr |-> Step(P, e)]]
  <1>1. ASSUME NEW P, NEW R, NEW e \in Expr, \A a \in Expr : Height[a] < Height[e] => P[a] = R[a]
        PROVE  Step(P, e) = Step(R, e)
    <2>1. CASE e.is = "call"
      <3>1. e.args \in Seq(Expr) /\ \A i \in DOMAIN e.args : Height[e.args[i]] < Height[e]
        BY <2>1, ExprAssumption
      <3>2. \A i \in DOMAIN e.args : P[e.args[i]] = R[e.args[i]]
        BY <1>1, <3>1, LenProperties, ElementOfSeq
      <3>3. [i \in DOMAIN e.args |-> P[e.args[i]]] = [i \in DOMAIN e.args |-> R[e.args[i]]]
        BY <3>2
      <3> QED BY <3>3
    <2>2. CASE e.is # "call"
      BY <2>2 DEF Meant
    <2> QED BY <2>1, <2>2
  <1>2. \A P, e : Step(P, e) \in BOOLEAN
    BY DEF Meant
  <1> HIDE DEF Step
  <1>3. G \in [[Expr -> BOOLEAN] -> [Expr -> BOOLEAN]]
    BY <1>2
  <1>4. Recurs(G, Expr, BOOLEAN, Height)
    <2>1. Height \in [Expr -> Nat]
      BY ExprAssumption
    <2>2. \A P \in [Expr -> BOOLEAN] : \A e \in Expr : G[P][e] = Step(P, e)
      OBVIOUS
    <2> HIDE DEF G
    <2> QED BY <1>1, <1>3, <2>1, <2>2 DEF Recurs
  <1>5. PICK F \in [Expr -> BOOLEAN] : F = G[F]
    <2> HIDE DEF G
    <2>1. BOOLEAN # {}
      OBVIOUS
    <2> QED BY <1>4, <2>1, Solution
  <1>6. F = [e \in Expr |-> Step(F, e)]
    BY <1>5
  <1> DEFINE T == CHOOSE R : R = [e \in Expr |-> Step(R, e)]
  <1>7. T = [e \in Expr |-> Step(T, e)]
    BY <1>6
  <1>8. \A e : Truth(e, row) = T[e]
    BY DEF Truth, Step
  <1> HIDE DEF T
  <1>9. \A e \in Expr : T[e] = Step(T, e)
    BY <1>7
  <1> QED BY <1>8, <1>9 DEF Step

\* How deep a tree is nested.
Least(t) == Min({Height[e] : e \in {x \in Expr : Parse[x] = t}})

\* Every tree the parser returns has a least nesting, reached by an expression.
LEMMA LeastHeight ==
  ASSUME NEW t \in Parsed
  PROVE  /\ Least(t) \in Nat
         /\ \E e \in Expr : Parse[e] = t /\ Height[e] = Least(t)
         /\ \A e \in Expr : Parse[e] = t => Least(t) =< Height[e]
  <1> DEFINE S == {Height[e] : e \in {x \in Expr : Parse[x] = t}}
  <1>1. S \subseteq Nat /\ S # {}
    BY ExprAssumption DEF Parsed
  <1>2. Min(S) \in S /\ \A m \in S : Min(S) =< m
    <2> HIDE DEF S
    <2> QED BY <1>1, LeastOf
  <1> QED BY <1>1, <1>2 DEF Least

\* The operands of a tree are trees, and nested less deep.
LEMMA OperandsBelow ==
  ASSUME NEW t \in Parsed, t.is = "call"
  PROVE  /\ t.args \in Seq(Parsed)
         /\ \A i \in DOMAIN t.args : t.args[i] \in Parsed /\ Least(t.args[i]) < Least(t)
  <1>1. PICK e \in Expr : Parse[e] = t /\ Height[e] = Least(t)
    BY LeastHeight
  <1>2. ASSUME NEW i \in DOMAIN t.args
        PROVE  t.args[i] \in Parsed /\ Least(t.args[i]) < Least(t)
    <2>1. PICK a \in Expr : Height[a] < Height[e] /\ t.args[i] = Parse[a]
      BY <1>1, CallParsed
    <2>2. Parse[a] \in Parsed
      BY DEF Parsed
    <2>3. Least(Parse[a]) =< Height[a] /\ Least(Parse[a]) \in Nat
      BY <2>2, LeastHeight
    <2>4. Height[a] \in Nat /\ Height[e] \in Nat
      BY ExprAssumption
    <2> QED BY <1>1, <2>1, <2>2, <2>3, <2>4
  <1>3. t.args \in Seq(Parsed)
    BY <1>1, CallParsed
  <1> QED BY <1>2, <1>3

\* The comparisons of a tree are those of its operands.
CompareStep(F, t) ==
  IF t.is # "call" THEN {}
  ELSE IF t.fn \in DOMAIN KernelOp THEN {t}
  ELSE UNION {F[t.args[i]] : i \in DOMAIN t.args}

\* The comparisons of a parsed condition, by its root.
LEMMA ComparisonsDef ==
  \A e \in Expr : Comparisons[Parse[e]] = CompareStep(Comparisons, Parse[e])
  <1> DEFINE V == SUBSET Parsed
             h == [t \in Parsed |-> Least(t)]
             G == [P \in [Parsed -> V] |-> [t \in Parsed |-> CompareStep(P, t)]]
  <1>1. \A t \in Parsed : t.is = "call" =>
          \A i \in DOMAIN t.args : t.args[i] \in Parsed /\ Least(t.args[i]) < Least(t)
    BY OperandsBelow
  <1>2. ASSUME NEW P, NEW R, NEW t \in Parsed,
               \A a \in Parsed : Least(a) < Least(t) => P[a] = R[a]
        PROVE  CompareStep(P, t) = CompareStep(R, t)
    <2>1. CASE t.is = "call"
      <3>1. \A i \in DOMAIN t.args : P[t.args[i]] = R[t.args[i]]
        BY <1>1, <1>2, <2>1
      <3>2. {P[t.args[i]] : i \in DOMAIN t.args} = {R[t.args[i]] : i \in DOMAIN t.args}
        BY <3>1
      <3> QED BY <3>2 DEF CompareStep
    <2>2. CASE t.is # "call"
      BY <2>2 DEF CompareStep
    <2> QED BY <2>1, <2>2
  <1>3. ASSUME NEW P \in [Parsed -> V], NEW t \in Parsed PROVE CompareStep(P, t) \in V
    BY <1>1 DEF CompareStep
  <1>4. G \in [[Parsed -> V] -> [Parsed -> V]]
    BY <1>3
  <1>5. Recurs(G, Parsed, V, h)
    <2>1. h \in [Parsed -> Nat] /\ \A t \in Parsed : h[t] = Least(t)
      BY LeastHeight
    <2>2. \A P \in [Parsed -> V] : \A t \in Parsed : G[P][t] = CompareStep(P, t)
      OBVIOUS
    <2> HIDE DEF G, V, h
    <2> QED BY <1>2, <1>4, <2>1, <2>2 DEF Recurs
  <1>6. PICK F \in [Parsed -> V] : F = G[F]
    <2>1. V # {}
      OBVIOUS
    <2> HIDE DEF G, V, h
    <2> QED BY <1>5, <2>1, Solution
  <1>7. F = [t \in Parsed |-> CompareStep(F, t)]
    BY <1>6
  <1>8. Comparisons = CHOOSE R : R = [t \in Parsed |-> CompareStep(R, t)]
    BY DEF Comparisons, CompareStep
  <1>9. Comparisons = [t \in Parsed |-> CompareStep(Comparisons, t)]
    BY <1>7, <1>8
  <1>10. \A t \in Parsed : Comparisons[t] = CompareStep(Comparisons, t)
    BY <1>9
  <1> QED BY <1>10 DEF Parsed

-----------------------------------------------------------------------------
(* Parsing keeps what a condition means.                                    *)

\* An operand that is a name or a number after parsing is worth what it was
\* before, for any row.
LEMMA OperandParsed ==
  ASSUME NEW e \in Expr, NEW row
  PROVE  /\ Parse[e].is = "const" => Operand(e, row) = Parse[e].value
         /\ Parse[e].is = "name" =>
              Parse[e].name \in Col /\ Operand(e, row) = row[Parse[e].name]
  <1> DEFINE args == [i \in DOMAIN e.args |-> Parse[e.args[i]]]
  <1>1. Parse[e] = Rewritten(e, args)
    BY ParseDef DEF ParseStep
  <1> HIDE DEF args
  <1>2. CASE e.is = "const"
    <2>1. Parse[e] = e
      BY <1>1, <1>2 DEF Rewritten
    <2> QED BY <1>2, <2>1 DEF Operand
  <1>3. CASE e.is = "name" /\ e.name \in Col
    <2>1. Parse[e] = e
      BY <1>1, <1>3 DEF Rewritten
    <2> QED BY <1>3, <2>1 DEF Operand
  <1>4. CASE e.is = "name" /\ e.name \in DOMAIN Env \ Col
    <2>1. Parse[e] = Const(Env[e.name])
      BY <1>1, <1>4 DEF Rewritten
    <2> QED BY <1>4, <2>1 DEF Operand, Const
  <1>5. CASE e.is \notin {"const", "name"} \/ (e.is = "name" /\ e.name \notin Col \cup DOMAIN Env)
    <2>1. Parse[e].is \notin {"const", "name"}
      BY <1>1, <1>5 DEF Rewritten, CallOf, Error
    <2> QED BY <2>1
  <1> QED BY <1>2, <1>3, <1>4, <1>5

\* The ways a call comes out of the parser: with its operands in their order,
\* or the other way round.
InPlace(e, t) ==
  Len(e.args) = 2 /\ t.args[1] = Parse[e.args[1]] /\ t.args[2] = Parse[e.args[2]]

Swapped(e, t) ==
  Len(e.args) = 2 /\ t.args[1] = Parse[e.args[2]] /\ t.args[2] = Parse[e.args[1]]

CallBecomes(e, t) ==
  \/ e.fn = "&" /\ t.fn = "sindex_and" /\ InPlace(e, t)
  \/ e.fn = "|" /\ t.fn = "sindex_or" /\ InPlace(e, t)
  \/ t.fn = "(string)"
  \/ e.fn \in DOMAIN Generic /\ t.fn = Generic[e.fn] /\ InPlace(e, t)
  \/ e.fn \in DOMAIN Generic /\ t.fn = Generic[Flip(e.fn)] /\ Swapped(e, t)

\* A call is parsed to its own operands or, for a comparison that has its column
\* second, to the mirrored comparison.
LEMMA CallShape ==
  ASSUME NEW e \in Expr, Parse[e].is = "call"
  PROVE  CallBecomes(e, Parse[e])
  <1> DEFINE args == [i \in DOMAIN e.args |-> Parse[e.args[i]]]
  <1>1. Parse[e] = Rewritten(e, args)
    BY ParseDef DEF ParseStep
  <1>2. e.is = "call"
    BY CallParsed
  <1>3. /\ Len(e.args) \in Nat /\ DOMAIN e.args = 1..Len(e.args)
        /\ e.fn \in {"&", "|"} => Len(e.args) = 2
    BY <1>2, ExprAssumption, LenProperties
  <1>4. CASE e.fn \in {"&", "|"}
    <2>1. Parse[e] = CallOf(Logical[e.fn], args)
      <3>1. e.fn \notin DOMAIN Generic /\ e.fn \in DOMAIN Logical
        BY <1>4 DEF Logical, Generic
      <3> QED BY <1>1, <1>2, <3>1 DEF Rewritten
    <2>2. Parse[e].args = args /\ Parse[e].fn = Logical[e.fn]
      BY <2>1 DEF CallOf, Error
    <2>3. InPlace(e, Parse[e])
      BY <1>3, <1>4, <2>2 DEF InPlace
    <2> QED BY <1>4, <2>2, <2>3 DEF CallBecomes, Logical
  <1>5. CASE e.fn = "("
    <2>1. Parse[e] = CallOf(Logical[e.fn], args)
      <3>1. e.fn \notin DOMAIN Generic /\ e.fn \in DOMAIN Logical
        BY <1>5 DEF Logical, Generic
      <3> QED BY <1>1, <1>2, <3>1 DEF Rewritten
    <2>2. Parse[e].fn = Logical[e.fn]
      BY <2>1 DEF CallOf, Error
    <2> QED BY <1>5, <2>2 DEF CallBecomes, Logical
  <1>6. CASE e.fn \notin {"&", "|", "("}
    <2>0. e.fn \notin DOMAIN Logical
      BY <1>6 DEF Logical
    <2>1. /\ e.fn \in DOMAIN Generic /\ Len(e.args) = 2
          /\ \/ Parse[e].args = Reverse(args) /\ Parse[e].fn = Generic[Flip(e.fn)]
             \/ Parse[e].args = args /\ Parse[e].fn = Generic[e.fn]
      BY <1>1, <1>2, <2>0 DEF Rewritten, CallOf, Error
    <2>2. args = [i \in 1..2 |-> Parse[e.args[i]]]
      BY <1>3, <2>1
    <2> HIDE DEF args
    <2>3. Reverse(args) = [i \in 1..2 |-> args[3 - i]]
      BY <2>2 DEF Reverse
    <2>4. CASE Parse[e].args = Reverse(args) /\ Parse[e].fn = Generic[Flip(e.fn)]
      <3>1. Reverse(args)[1] = args[2] /\ Reverse(args)[2] = args[1]
        BY <2>3
      <3>2. Swapped(e, Parse[e])
        BY <2>1, <2>2, <2>4, <3>1 DEF Swapped
      <3> QED BY <2>1, <2>4, <3>2 DEF CallBecomes
    <2>5. CASE Parse[e].args = args /\ Parse[e].fn = Generic[e.fn]
      <3>2. InPlace(e, Parse[e])
        BY <2>1, <2>2, <2>5 DEF InPlace
      <3> QED BY <2>1, <2>5, <3>2 DEF CallBecomes
    <2> QED BY <2>1, <2>4, <2>5
  <1> QED BY <1>4, <1>5, <1>6

\* A kernel decides a row of a whole register by its operator.
LEMMA KernelDecides ==
  ASSUME NEW class \in VecClass, NEW op \in OpName, NEW n, NEW j, NEW x, NEW y,
         Decided(class, n, j, x, y)
  PROVE  KernelBit(class, op, n, j, x, Value(class, y)) <=> Holds(op, x, y)
  <1>1. Value(class, y) = y
    BY DEF Decided, Value
  <1>2. KernelBit(class, op, n, j, x, y) = LaneBit(op, x, y)
    BY DEF Decided, KernelBit
  <1>3. LaneBit(op, x, y) <=> Holds(op, x, y)
    <2> USE DEF LaneBit, Holds, LaneEq, LaneLt, LaneGt, LaneGe, LaneLe
    <2>1. CASE op = "eq"
      BY <2>1
    <2>2. CASE op = "lt"
      BY <2>2
    <2>3. CASE op = "gt"
      BY <2>3
    <2>4. CASE op = "ge"
      <3>1. CASE x \in Int /\ y \in Int
        BY <2>4, <3>1
      <3>2. CASE ~(x \in Int /\ y \in Int)
        BY <2>4, <3>2
      <3> QED BY <3>1, <3>2
    <2>5. CASE op = "le"
      <3>1. CASE x \in Int /\ y \in Int
        BY <2>5, <3>1
      <3>2. CASE ~(x \in Int /\ y \in Int)
        BY <2>5, <3>2
      <3> QED BY <3>1, <3>2
    <2> QED BY <2>1, <2>2, <2>3, <2>4, <2>5 DEF OpName
  <1> QED BY <1>1, <1>2, <1>3

\* With the operands swapped the flipped operator is the one that was written.
LEMMA FlipHolds ==
  ASSUME NEW op \in DOMAIN Generic, NEW x, NEW y
  PROVE  /\ Generic[op] \in DOMAIN KernelOp /\ Generic[Flip(op)] \in DOMAIN KernelOp
         /\ op \in DOMAIN SourceOp /\ op \notin {"&", "|", "("}
         /\ KernelOp[Generic[op]] = SourceOp[op]
         /\ KernelOp[Generic[op]] \in OpName /\ KernelOp[Generic[Flip(op)]] \in OpName
         /\ Holds(KernelOp[Generic[Flip(op)]], y, x) = Holds(SourceOp[op], x, y)
  <1>1. op \in {">", "<", "<=", ">="}
    BY DEF Generic
  <1>2. CASE op = ">"
    BY <1>2 DEF Generic, KernelOp, SourceOp, Flip, OpName, Holds
  <1>3. CASE op = "<"
    BY <1>3 DEF Generic, KernelOp, SourceOp, Flip, OpName, Holds
  <1>4. CASE op = "<="
    BY <1>4 DEF Generic, KernelOp, SourceOp, Flip, OpName, Holds
  <1>5. CASE op = ">="
    BY <1>5 DEF Generic, KernelOp, SourceOp, Flip, OpName, Holds
  <1> QED BY <1>1, <1>2, <1>3, <1>4, <1>5

-----------------------------------------------------------------------------
(* What each kind of tree gives.                                            *)

\* The value of each kind of tree.
LEMMA EvalCases ==
  ASSUME NEW frame, NEW e \in Expr
  PROVE  LET t == Parse[e]
             v1 == Eval(frame, t.args[1])
             v2 == Eval(frame, t.args[2])
         IN  /\ t.is = "const" => Eval(frame, t) = Vec("double", <<t.value>>)
             /\ t.is = "name" /\ t.name \in DOMAIN frame => Eval(frame, t) = frame[t.name]
             /\ t.is \notin {"const", "name", "call"} => Eval(frame, t) = Error
             /\ t.is = "call" =>
                  /\ t.fn \in DOMAIN KernelOp => Eval(frame, t) = Compare(t.fn, v1, v2)
                  /\ t.fn \in {"sindex_and", "sindex_or"} => Eval(frame, t) = Combine(t.fn, v1, v2)
                  /\ t.fn \notin DOMAIN KernelOp \cup {"sindex_and", "sindex_or"} =>
                       Eval(frame, t) = Error
  <1> DEFINE t == Parse[e]
             v1 == Eval(frame, t.args[1])
             v2 == Eval(frame, t.args[2])
  <1>1. PICK F : /\ Eval(frame, t) = ValueStep(frame, F, t)
                 /\ \A a \in Expr : F[Parse[a]] = Eval(frame, Parse[a])
    BY EvalDef
  <1> DEFINE args == [i \in DOMAIN t.args |-> F[t.args[i]]]
  <1>2. Eval(frame, t) = Valued(frame, t, args)
    BY <1>1 DEF ValueStep
  <1>3. ASSUME t.is = "call", t.fn \in DOMAIN KernelOp \cup {"sindex_and", "sindex_or"}
        PROVE  args[1] = v1 /\ args[2] = v2
    <2>1. Len(t.args) = 2 /\ t.args \in Seq(Parsed)
      BY <1>3, CallParsed
    <2>2. 1 \in DOMAIN t.args /\ 2 \in DOMAIN t.args
      BY <2>1, LenProperties
    <2>3. \A i \in DOMAIN t.args : \E a \in Expr : t.args[i] = Parse[a]
      BY <1>3, CallParsed
    <2> HIDE DEF t
    <2>4. \A i \in DOMAIN t.args : F[t.args[i]] = Eval(frame, t.args[i])
      BY <1>1, <2>3
    <2> QED BY <2>2, <2>4
  <1> HIDE DEF args, t, v1, v2
  <1>4. t.is = "const" => Eval(frame, t) = Vec("double", <<t.value>>)
    BY <1>2 DEF Valued
  <1>5. t.is = "name" /\ t.name \in DOMAIN frame => Eval(frame, t) = frame[t.name]
    BY <1>2 DEF Valued
  <1>6. t.is \notin {"const", "name", "call"} => Eval(frame, t) = Error
    BY <1>2 DEF Valued
  <1>7. ASSUME t.is = "call", t.fn \in DOMAIN KernelOp
        PROVE  Eval(frame, t) = Compare(t.fn, v1, v2)
    <2>1. t.fn \notin {"sindex_and", "sindex_or"}
      BY <1>7 DEF KernelOp
    <2>2. Valued(frame, t, args) = Compare(t.fn, args[1], args[2])
      BY <1>7, <2>1 DEF Valued
    <2>3. args[1] = v1 /\ args[2] = v2
      BY <1>3, <1>7
    <2> QED BY <1>2, <2>2, <2>3
  <1>8. ASSUME t.is = "call", t.fn \in {"sindex_and", "sindex_or"}
        PROVE  Eval(frame, t) = Combine(t.fn, v1, v2)
    <2>1. t.fn \notin DOMAIN KernelOp
      BY <1>8 DEF KernelOp
    <2>2. Valued(frame, t, args) = Combine(t.fn, args[1], args[2])
      BY <1>8, <2>1 DEF Valued
    <2>3. args[1] = v1 /\ args[2] = v2
      BY <1>3, <1>8
    <2> QED BY <1>2, <2>2, <2>3
  <1>9. t.is = "call" /\ t.fn \notin DOMAIN KernelOp \cup {"sindex_and", "sindex_or"} =>
          Eval(frame, t) = Error
    BY <1>2 DEF Valued
  <1>10. /\ t.is = "const" => Eval(frame, t) = Vec("double", <<t.value>>)
         /\ t.is = "name" /\ t.name \in DOMAIN frame => Eval(frame, t) = frame[t.name]
         /\ t.is \notin {"const", "name", "call"} => Eval(frame, t) = Error
         /\ t.is = "call" =>
              /\ t.fn \in DOMAIN KernelOp => Eval(frame, t) = Compare(t.fn, v1, v2)
              /\ t.fn \in {"sindex_and", "sindex_or"} => Eval(frame, t) = Combine(t.fn, v1, v2)
              /\ t.fn \notin DOMAIN KernelOp \cup {"sindex_and", "sindex_or"} =>
                   Eval(frame, t) = Error
    BY <1>4, <1>5, <1>6, <1>7, <1>8, <1>9
  <1> QED BY <1>10 DEF t, v1, v2

-----------------------------------------------------------------------------
(* Places in a sequence of runs put one after the other.                    *)

\* at[m] is where the m-th element of flat comes from: which of the first n
\* runs, and which place in it.
Origin(at, runs, n, flat) ==
  /\ at \in [1..Len(flat) -> Nat \X Nat]
  /\ \A m \in 1..Len(flat) :
       /\ at[m][1] \in 1..n /\ at[m][2] \in 1..Len(runs[at[m][1]])
       /\ flat[m] = runs[at[m][1]][at[m][2]]
  /\ \A l, m \in 1..Len(flat) :
       l < m => at[l][1] < at[m][1] \/ (at[l][1] = at[m][1] /\ at[l][2] < at[m][2])
  /\ \A i \in 1..n : \A s \in 1..Len(runs[i]) : \E m \in 1..Len(flat) : at[m] = <<i, s>>

\* One more run.
LEMMA OriginExtend ==
  ASSUME NEW S, NEW runs, NEW n \in Nat, NEW flat \in Seq(S), runs[n + 1] \in Seq(S),
         NEW at, Origin(at, runs, n, flat)
  PROVE  \E g : Origin(g, runs, n + 1, flat \o runs[n + 1])
  <1> DEFINE more == runs[n + 1]
             a    == Len(flat)
             b    == Len(more)
             long == flat \o more
             g    == [m \in 1..a + b |-> IF m =< a THEN at[m] ELSE <<n + 1, m - a>>]
  <1>1. a \in Nat /\ b \in Nat
    BY LenProperties
  <1>2. /\ Len(long) = a + b
        /\ \A m \in 1..a + b : long[m] = IF m =< a THEN flat[m] ELSE more[m - a]
    BY ConcatProperties
  <1>3. \A m \in 1..a : at[m] \in Nat \X Nat /\ at[m][1] \in 1..n
    BY DEF Origin
  <1>4. \A m \in 1..a + b : IF m =< a THEN m \in 1..a ELSE m - a \in 1..b
    BY <1>1
  <1> HIDE DEF a, b, long, more
  <1>5. \A m \in 1..a + b : g[m] = IF m =< a THEN at[m] ELSE <<n + 1, m - a>>
    OBVIOUS
  <1>6. g \in [1..a + b -> Nat \X Nat]
    <2>1. \A m \in 1..a + b : g[m] \in Nat \X Nat
      <3> SUFFICES ASSUME NEW m \in 1..a + b PROVE g[m] \in Nat \X Nat
        OBVIOUS
      <3>1. CASE m =< a
        BY <1>3, <1>4, <1>5, <3>1
      <3>2. CASE ~(m =< a)
        BY <1>1, <1>4, <1>5, <3>2
      <3> QED BY <3>1, <3>2
    <2> QED BY <2>1
  <1> HIDE DEF g
  <1>7. ASSUME NEW m \in 1..a + b
        PROVE  /\ g[m][1] \in 1..n + 1 /\ g[m][2] \in 1..Len(runs[g[m][1]])
               /\ long[m] = runs[g[m][1]][g[m][2]]
    <2>1. CASE m =< a
      <3>1. g[m] = at[m] /\ m \in 1..a
        BY <1>4, <1>5, <2>1
      <3>2. at[m][1] \in 1..n /\ at[m][2] \in 1..Len(runs[at[m][1]]) /\ flat[m] = runs[at[m][1]][at[m][2]]
        BY <3>1 DEF Origin, a
      <3> QED BY <1>2, <2>1, <3>1, <3>2
    <2>2. CASE ~(m =< a)
      <3>1. g[m] = <<n + 1, m - a>> /\ m - a \in 1..b
        BY <1>4, <1>5, <2>2
      <3>2. g[m][1] = n + 1 /\ g[m][2] = m - a
        BY <3>1
      <3> QED BY <1>2, <2>2, <3>1, <3>2 DEF b, more
    <2> QED BY <2>1, <2>2
  <1>8. ASSUME NEW l \in 1..a + b, NEW m \in 1..a + b, l < m
        PROVE  g[l][1] < g[m][1] \/ (g[l][1] = g[m][1] /\ g[l][2] < g[m][2])
    <2>1. CASE m =< a
      <3>0. l =< a
        BY <1>1, <1>8, <2>1
      <3>1. g[l] = at[l] /\ g[m] = at[m] /\ l \in 1..a /\ m \in 1..a
        BY <1>4, <1>5, <2>1, <3>0
      <3>2. at[l][1] < at[m][1] \/ (at[l][1] = at[m][1] /\ at[l][2] < at[m][2])
        BY <1>8, <3>1 DEF Origin, a
      <3> QED BY <3>1, <3>2
    <2>2. CASE ~(m =< a) /\ l =< a
      <3>1. g[l] = at[l] /\ l \in 1..a /\ g[m] = <<n + 1, m - a>>
        BY <1>4, <1>5, <2>2
      <3>2. g[l][1] \in 1..n /\ g[m][1] = n + 1
        BY <1>3, <3>1
      <3> QED BY <3>2
    <2>3. CASE ~(l =< a)
      <3>1. ~(m =< a)
        BY <1>1, <1>8, <2>3
      <3>2. g[l] = <<n + 1, l - a>> /\ g[m] = <<n + 1, m - a>>
        BY <1>5, <2>3, <3>1
      <3>3. l - a < m - a
        BY <1>1, <1>8
      <3> QED BY <3>2, <3>3
    <2> QED BY <2>1, <2>2, <2>3
  <1>9. ASSUME NEW i \in 1..n + 1, NEW s \in 1..Len(runs[i])
        PROVE  \E m \in 1..a + b : g[m] = <<i, s>>
    <2>1. CASE i = n + 1
      <3>1. s \in 1..b
        BY <2>1 DEF b, more
      <3>2. a + s \in 1..a + b /\ ~(a + s =< a) /\ (a + s) - a = s
        BY <1>1, <3>1
      <3>3. g[a + s] = <<i, s>>
        BY <1>5, <2>1, <3>2
      <3> QED BY <3>2, <3>3
    <2>2. CASE i # n + 1
      <3>1. i \in 1..n
        BY <2>2
      <3>2. PICK m \in 1..a : at[m] = <<i, s>>
        BY <3>1 DEF Origin, a
      <3>3. m \in 1..a + b /\ m =< a
        BY <1>1
      <3> QED BY <1>5, <3>2, <3>3
    <2> QED BY <2>1, <2>2
  <1>10. Origin(g, runs, n + 1, long)
    <2>1. Len(long) = a + b
      BY <1>2
    <2> DEFINE c == a + b
    <2> HIDE DEF c
    <2>2. \A m \in 1..c : /\ g[m][1] \in 1..n + 1 /\ g[m][2] \in 1..Len(runs[g[m][1]])
                          /\ long[m] = runs[g[m][1]][g[m][2]]
      BY <1>7 DEF c
    <2>3. \A l, m \in 1..c :
            l < m => g[l][1] < g[m][1] \/ (g[l][1] = g[m][1] /\ g[l][2] < g[m][2])
      BY <1>8 DEF c
    <2>4. \A i \in 1..n + 1 : \A s \in 1..Len(runs[i]) : \E m \in 1..c : g[m] = <<i, s>>
      BY <1>9 DEF c
    <2>5. g \in [1..c -> Nat \X Nat] /\ Len(long) = c
      BY <1>6, <2>1 DEF c
    <2>6. 1..Len(long) = 1..c
      BY <2>5
    <2>7. g \in [1..Len(long) -> Nat \X Nat]
      BY <2>5
    <2>8. \A m \in 1..Len(long) : /\ g[m][1] \in 1..n + 1 /\ g[m][2] \in 1..Len(runs[g[m][1]])
                          /\ long[m] = runs[g[m][1]][g[m][2]]
      BY <2>2, <2>6
    <2>9. \A l, m \in 1..Len(long) :
            l < m => g[l][1] < g[m][1] \/ (g[l][1] = g[m][1] /\ g[l][2] < g[m][2])
      BY <2>3, <2>6
    <2>10. \A i \in 1..n + 1 : \A s \in 1..Len(runs[i]) : \E m \in 1..Len(long) : g[m] = <<i, s>>
      BY <2>4, <2>6
    <2> QED BY <2>7, <2>8, <2>9, <2>10 DEF Origin
  <1> QED BY <1>10 DEF long, more

\* Every place of a flattened sequence comes from one place of one run.
LEMMA FlattenedOrigin ==
  ASSUME NEW S, NEW runs \in Seq(Seq(S))
  PROVE  \E at : Origin(at, runs, Len(runs), FlattenSeq(runs))
  <1> DEFINE len == Len(runs)
  <1>1. PICK f \in [0..len -> Seq(S)] :
          /\ f[0] = <<>>
          /\ \A i \in 1..len : f[i] = f[i - 1] \o runs[i]
          /\ FlattenSeq(runs) = f[len]
    BY Flattened
  <1>2. len \in Nat /\ \A i \in 1..len : runs[i] \in Seq(S)
    BY LenProperties, ElementOfSeq
  <1> HIDE DEF len
  <1> DEFINE T == {n \in Nat : n =< len => \E at : Origin(at, runs, n, f[n])}
  <1>3. 0 \in T
    <2>1. Origin(<<>>, runs, 0, <<>>)
      BY DEF Origin
    <2> QED BY <1>1, <2>1
  <1>4. ASSUME NEW n \in Nat, n \in T PROVE n + 1 \in T
    <2> SUFFICES ASSUME n + 1 =< len PROVE \E at : Origin(at, runs, n + 1, f[n + 1])
      OBVIOUS
    <2>1. PICK at : Origin(at, runs, n, f[n])
      BY <1>2, <1>4
    <2>2. n + 1 \in 1..len /\ n \in 0..len /\ (n + 1) - 1 = n
      BY <1>2
    <2>3. f[n] \in Seq(S) /\ runs[n + 1] \in Seq(S) /\ f[n + 1] = f[n] \o runs[n + 1]
      BY <1>1, <1>2, <2>2
    <2>4. \E g : Origin(g, runs, n + 1, f[n] \o runs[n + 1])
      BY <2>1, <2>3, OriginExtend
    <2> QED BY <2>3, <2>4
  <1>5. Nat \subseteq T
    <2> HIDE DEF T
    <2> QED BY <1>3, <1>4, NatSetInduction
  <1> QED BY <1>1, <1>2, <1>5 DEF len

-----------------------------------------------------------------------------
(* Counting.                                                                *)

\* The first n of a sequence of sets, together.
Piled(B, n) == UNION {B[m] : m \in 1..n}

\* Sets that do not meet have as many elements as their sizes add up to.
LEMMA PiledCount ==
  ASSUME NEW len \in Nat, NEW B, NEW f \in [0..len -> Nat],
         \A m \in 1..len : IsFiniteSet(B[m]),
         \A l, m \in 1..len : l < m => B[l] \cap B[m] = {},
         f[0] = 0,
         \A m \in 1..len : f[m] = f[m - 1] + Cardinality(B[m])
  PROVE  \A n \in 0..len : IsFiniteSet(Piled(B, n)) /\ Cardinality(Piled(B, n)) = f[n]
  <1> DEFINE T == {n \in Nat : n =< len =>
                     IsFiniteSet(Piled(B, n)) /\ Cardinality(Piled(B, n)) = f[n]}
  <1>1. 0 \in T
    <2>1. Piled(B, 0) = {}
      BY DEF Piled
    <2> QED BY <2>1, FS_EmptySet
  <1>2. ASSUME NEW n \in Nat, n \in T PROVE n + 1 \in T
    <2> SUFFICES ASSUME n + 1 =< len
                 PROVE  /\ IsFiniteSet(Piled(B, n + 1))
                        /\ Cardinality(Piled(B, n + 1)) = f[n + 1]
      OBVIOUS
    <2>1. n + 1 \in 1..len /\ n =< len /\ (n + 1) - 1 = n /\ n \in 0..len
      OBVIOUS
    <2>2. IsFiniteSet(Piled(B, n)) /\ Cardinality(Piled(B, n)) = f[n]
      BY <1>2, <2>1
    <2>3. Piled(B, n + 1) = Piled(B, n) \cup B[n + 1]
      <3>1. 1..n + 1 = 1..n \cup {n + 1}
        OBVIOUS
      <3> QED BY <3>1 DEF Piled
    <2>4. Piled(B, n) \cap B[n + 1] = {}
      <3> SUFFICES ASSUME NEW m \in 1..n PROVE B[m] \cap B[n + 1] = {}
        BY DEF Piled
      <3>1. m \in 1..len /\ m < n + 1
        BY <2>1
      <3> QED BY <2>1, <3>1
    <2>5. IsFiniteSet(B[n + 1]) /\ f[n + 1] = f[n] + Cardinality(B[n + 1])
      BY <2>1
    <2>6. Cardinality(B[n + 1]) \in Nat /\ f[n] \in Nat
      BY <2>1, <2>5, FS_CardinalityType
    <2> DEFINE X == Piled(B, n)
               Y == B[n + 1]
    <2>7. IsFiniteSet(X \cup Y) /\ Cardinality(X \cup Y) = Cardinality(X) + Cardinality(Y) - Cardinality(X \cap Y)
      <3> HIDE DEF X, Y
      <3>1. IsFiniteSet(X) /\ IsFiniteSet(Y)
        BY <2>2, <2>5 DEF X, Y
      <3> QED BY <3>1, FS_Union
    <2>8. Cardinality(X \cap Y) = 0
      BY <2>4, FS_EmptySet
    <2>9. Piled(B, n + 1) = X \cup Y
      BY <2>3
    <2>10. /\ Cardinality(X) = f[n] /\ f[n] \in Nat
           /\ f[n + 1] = f[n] + Cardinality(Y) /\ Cardinality(Y) \in Nat
      BY <2>2, <2>5, <2>6
    <2> HIDE DEF X, Y
    <2>11. Cardinality(X \cup Y) = f[n + 1]
      BY <2>7, <2>8, <2>10
    <2> QED BY <2>7, <2>9, <2>11
  <1>3. Nat \subseteq T
    <2> HIDE DEF T
    <2> QED BY <1>1, <1>2, NatSetInduction
  <1>4. \A n \in 0..len : n \in Nat /\ n =< len
    OBVIOUS
  <1> QED BY <1>3, <1>4

-----------------------------------------------------------------------------
(* The names of a condition.                                                *)

\* A name is added to names unless it is among them.
Added(names, x) == IF x \in ToSet(names) THEN names ELSE Append(names, x)

\* Dropping repetitions leaves the names.
LEMMA DistinctSame ==
  ASSUME NEW S, NEW s \in Seq(S)
  PROVE  Distinct(s) \in Seq(S) /\ ToSet(Distinct(s)) = ToSet(s)
  <1> DEFINE len == Len(s)
             Step(D, i) == IF i = 0 THEN <<>> ELSE Added(D[i - 1], s[i])
             I == 0..len
             V == Seq(S)
             h == [i \in I |-> i]
             G == [P \in [I -> V] |-> [i \in I |-> Step(P, i)]]
  <1>1. len \in Nat /\ \A i \in 1..len : s[i] \in S
    BY LenProperties, ElementOfSeq
  <1>2. ASSUME NEW names \in Seq(S), NEW x \in S
        PROVE  Added(names, x) \in Seq(S) /\ ToSet(Added(names, x)) = ToSet(names) \cup {x}
    <2>1. CASE x \in ToSet(names)
      BY <2>1 DEF Added
    <2>2. CASE x \notin ToSet(names)
      <3>1. Added(names, x) = Append(names, x)
        BY <2>2 DEF Added
      <3>2. /\ Append(names, x) \in Seq(S)
            /\ Len(Append(names, x)) = Len(names) + 1
            /\ \A i \in 1..Len(names) : Append(names, x)[i] = names[i]
            /\ Append(names, x)[Len(names) + 1] = x
            /\ Len(names) \in Nat
        BY AppendProperties, LenProperties
      <3>3. DOMAIN names = 1..Len(names) /\ DOMAIN Append(names, x) = 1..Len(names) + 1
        BY <3>2, LenProperties
      <3> DEFINE y == Append(names, x)
                 m == Len(names)
      <3> HIDE DEF y, m
      <3>4. m \in Nat /\ DOMAIN names = 1..m /\ DOMAIN y = 1..m + 1 /\ y[m + 1] = x
            /\ \A i \in 1..m : y[i] = names[i]
        BY <3>2, <3>3 DEF y, m
      <3>5. ToSet(y) = ToSet(names) \cup {x}
        <4>1. \A i \in 1..m + 1 : i \in 1..m \/ i = m + 1
          BY <3>4
        <4>2. \A i \in 1..m : i \in 1..m + 1
          BY <3>4
        <4>3. m + 1 \in 1..m + 1
          BY <3>4
        <4>4. ToSet(y) = {y[i] : i \in 1..m + 1} /\ ToSet(names) = {names[i] : i \in 1..m}
          BY <3>4 DEF ToSet
        <4> QED BY <3>4, <4>1, <4>2, <4>3, <4>4
      <3> QED BY <3>1, <3>2, <3>5 DEF y
    <2> QED BY <2>1, <2>2
  <1>3. ASSUME NEW P \in [I -> V], NEW i \in I PROVE Step(P, i) \in V
    <2>1. CASE i = 0
      BY <2>1, EmptySeq
    <2>2. CASE i # 0
      <3>1. i - 1 \in I /\ s[i] \in S
        BY <1>1, <2>2
      <3>2. P[i - 1] \in Seq(S)
        BY <3>1
      <3> QED BY <1>2, <2>2, <3>1, <3>2
    <2> QED BY <2>1, <2>2
  <1>4. Recurs(G, I, V, h)
    <2>1. h \in [I -> Nat]
      BY <1>1
    <2>2. \A P \in [I -> V] : \A i \in I : G[P][i] = Step(P, i)
      OBVIOUS
    <2>3. G \in [[I -> V] -> [I -> V]]
      BY <1>3
    <2>4. ASSUME NEW P, NEW R, NEW i \in I, \A j \in I : h[j] < h[i] => P[j] = R[j]
          PROVE  Step(P, i) = Step(R, i)
      <3>1. CASE i = 0
        BY <3>1
      <3>2. CASE i # 0
        <4>1. i - 1 \in I /\ h[i - 1] < h[i]
          BY <1>1, <3>2
        <4>2. P[i - 1] = R[i - 1]
          BY <2>4, <4>1
        <4> QED BY <3>2, <4>2
      <3> QED BY <3>1, <3>2
    <2> HIDE DEF G, V, I, h, Step
    <2>5. ASSUME NEW P \in [I -> V], NEW R \in [I -> V], NEW x \in I,
                 \A a \in I : h[a] < h[x] => P[a] = R[a]
          PROVE  G[P][x] = G[R][x]
      BY <2>2, <2>4, <2>5
    <2> QED BY <2>1, <2>3, <2>5 DEF Recurs
  <1>5. PICK F \in [I -> V] : F = G[F]
    <2>1. V # {}
      BY EmptySeq
    <2> HIDE DEF G, V, I, h
    <2> QED BY <1>4, <2>1, Solution
  <1>6. F = [i \in I |-> Step(F, i)]
    BY <1>5
  <1> DEFINE D == CHOOSE R : R = [i \in I |-> Step(R, i)]
  <1>7. D = [i \in I |-> Step(D, i)]
    <2> HIDE DEF Step, I
    <2> QED BY <1>6
  <1>8. Distinct(s) = D[len]
    BY DEF Distinct, Added
  <1> HIDE DEF D
  <1>9. D[0] = <<>> /\ \A i \in 1..len : D[i] = Added(D[i - 1], s[i])
    <2>1. \A i \in I : D[i] = Step(D, i)
      BY <1>7
    <2>2. 0 \in I /\ \A i \in 1..len : i \in I /\ i # 0
      BY <1>1
    <2> QED BY <2>1, <2>2
  <1> DEFINE T == {n \in Nat : n =< len => D[n] \in Seq(S) /\ ToSet(D[n]) = {s[j] : j \in 1..n}}
  <1>10. 0 \in T
    <2>1. ToSet(<<>>) = {} /\ {s[j] : j \in 1..0} = {}
      BY DEF ToSet
    <2> QED BY <1>9, <2>1, EmptySeq
  <1>11. ASSUME NEW n \in Nat, n \in T PROVE n + 1 \in T
    <2> SUFFICES ASSUME n + 1 =< len
                 PROVE  D[n + 1] \in Seq(S) /\ ToSet(D[n + 1]) = {s[j] : j \in 1..n + 1}
      OBVIOUS
    <2>1. D[n] \in Seq(S) /\ ToSet(D[n]) = {s[j] : j \in 1..n}
      BY <1>1, <1>11
    <2>2. D[n + 1] = Added(D[n], s[n + 1]) /\ s[n + 1] \in S
      <3>1. n + 1 \in 1..len /\ (n + 1) - 1 = n
        BY <1>1
      <3> QED BY <1>1, <1>9, <3>1
    <2>3. 1..n + 1 = (1..n) \cup {n + 1}
      OBVIOUS
    <2>4. {s[j] : j \in 1..n + 1} = {s[j] : j \in 1..n} \cup {s[n + 1]}
      BY <2>3
    <2> QED BY <1>2, <2>1, <2>2, <2>4
  <1>12. Nat \subseteq T
    <2> HIDE DEF T
    <2> QED BY <1>10, <1>11, NatSetInduction
  <1>13. D[len] \in Seq(S) /\ ToSet(D[len]) = {s[j] : j \in 1..len}
    <2>1. len \in T
      <3> HIDE DEF T
      <3> QED BY <1>1, <1>12
    <2> HIDE DEF D, len
    <2> QED BY <1>1, <2>1
  <1>14. ToSet(s) = {s[j] : j \in 1..len}
    BY LenProperties DEF ToSet
  <1> QED BY <1>8, <1>13, <1>14

\* What is in one of the runs is in all of them one after the other.
LEMMA RunsInFlat ==
  ASSUME NEW S, NEW runs \in Seq(Seq(S))
  PROVE  /\ FlattenSeq(runs) \in Seq(S)
         /\ \A i \in DOMAIN runs : ToSet(runs[i]) \subseteq ToSet(FlattenSeq(runs))
  <1> DEFINE flat == FlattenSeq(runs)
             len  == Len(runs)
  <1>1. len \in Nat /\ DOMAIN runs = 1..len /\ \A i \in 1..len : runs[i] \in Seq(S)
    BY LenProperties, ElementOfSeq
  <1>2. flat \in Seq(S)
    <2>1. PICK f \in [0..len -> Seq(S)] : flat = f[len]
      BY Flattened
    <2> HIDE DEF flat, len
    <2>2. len \in 0..len
      BY <1>1
    <2> QED BY <2>1, <2>2
  <1>3. PICK at : Origin(at, runs, len, flat)
    BY FlattenedOrigin
  <1> HIDE DEF flat, len
  <1>4. DOMAIN flat = 1..Len(flat)
    BY <1>2, LenProperties
  <1>5. ASSUME NEW i \in 1..len, NEW x \in ToSet(runs[i]) PROVE x \in ToSet(flat)
    <2>1. DOMAIN runs[i] = 1..Len(runs[i])
      BY <1>1, LenProperties
    <2>2. PICK s \in 1..Len(runs[i]) : x = runs[i][s]
      BY <2>1 DEF ToSet
    <2>3. PICK m \in 1..Len(flat) : at[m] = <<i, s>>
      BY <1>3 DEF Origin
    <2>4. flat[m] = runs[at[m][1]][at[m][2]]
      BY <1>3 DEF Origin
    <2>5. flat[m] = x
      BY <2>2, <2>3, <2>4
    <2> QED BY <1>4, <2>5 DEF ToSet
  <1> QED BY <1>1, <1>2, <1>5 DEF flat

\* The names of a tree are those of its operands.
NameStep(F, t) == NamesOf(t, [i \in DOMAIN t.args |-> F[t.args[i]]])

\* The names of a call contain those of its operands.
LEMMA NameStepCall ==
  ASSUME NEW F \in [Parsed -> Seq(Col)], NEW t \in Parsed, t.is = "call"
  PROVE  /\ NameStep(F, t) \in Seq(Col)
         /\ \A i \in DOMAIN t.args : ToSet(F[t.args[i]]) \subseteq ToSet(NameStep(F, t))
  <1> DEFINE runs == [i \in DOMAIN t.args |-> F[t.args[i]]]
             flat == FlattenSeq(runs)
  <1>1. t.args \in Seq(Parsed) /\ \A i \in DOMAIN t.args : t.args[i] \in Parsed
    BY OperandsBelow
  <1>2. runs \in Seq(Seq(Col))
    <2>1. Len(t.args) \in Nat /\ DOMAIN t.args = 1..Len(t.args)
      BY <1>1, LenProperties
    <2>2. \A i \in 1..Len(t.args) : F[t.args[i]] \in Seq(Col)
      BY <1>1, <2>1
    <2>3. runs = [i \in 1..Len(t.args) |-> F[t.args[i]]]
      BY <2>1
    <2> HIDE DEF runs
    <2> QED BY <2>1, <2>2, <2>3, IsASeq
  <1>3. DOMAIN runs = DOMAIN t.args /\ \A i \in DOMAIN t.args : runs[i] = F[t.args[i]]
    OBVIOUS
  <1>4. NameStep(F, t) = Distinct(StartOf(t) \o flat)
    BY DEF NameStep, NamesOf
  <1> HIDE DEF runs
  <1>5. flat \in Seq(Col) /\ \A i \in DOMAIN t.args : ToSet(F[t.args[i]]) \subseteq ToSet(flat)
    BY <1>2, <1>3, RunsInFlat
  <1> HIDE DEF flat
  <1>6. StartOf(t) \o flat = flat
    BY <1>5, ConcatEmptySeq DEF StartOf
  <1> QED BY <1>4, <1>5, <1>6, DistinctSame

\* The names of a parsed condition are columns; those of an operand are among
\* those of the condition.
LEMMA NamesDef ==
  ASSUME NEW e \in Expr
  PROVE  /\ NamesIn[Parse[e]] \in Seq(Col)
         /\ Parse[e].is = "name" => Parse[e].name \in ToSet(NamesIn[Parse[e]])
         /\ Parse[e].is = "call" => \A i \in DOMAIN Parse[e].args :
              ToSet(NamesIn[Parse[e].args[i]]) \subseteq ToSet(NamesIn[Parse[e]])
  <1> DEFINE V == Seq(Col)
             h == [t \in Parsed |-> Least(t)]
             G == [P \in [Parsed -> V] |-> [t \in Parsed |-> NameStep(P, t)]]
  <1>1. ASSUME NEW P, NEW R, NEW t \in Parsed,
               \A a \in Parsed : Least(a) < Least(t) => P[a] = R[a]
        PROVE  NameStep(P, t) = NameStep(R, t)
    <2>1. CASE t.is = "call"
      <3>1. \A i \in DOMAIN t.args : P[t.args[i]] = R[t.args[i]]
        BY <1>1, <2>1, OperandsBelow
      <3>2. [i \in DOMAIN t.args |-> P[t.args[i]]] = [i \in DOMAIN t.args |-> R[t.args[i]]]
        BY <3>1
      <3> QED BY <3>2 DEF NameStep, NamesOf
    <2>2. CASE t.is # "call"
      BY <2>2 DEF NameStep, NamesOf
    <2> QED BY <2>1, <2>2
  <1>2. \A t \in Parsed : t.is = "name" => t.name \in Col
    <2> SUFFICES ASSUME NEW a \in Expr, Parse[a].is = "name" PROVE Parse[a].name \in Col
      BY DEF Parsed
    <2> QED BY OperandParsed
  <1>3. ASSUME NEW P \in [Parsed -> V], NEW t \in Parsed PROVE NameStep(P, t) \in V
    <2>1. CASE t.is = "call"
      BY <2>1, NameStepCall
    <2>2. CASE t.is = "name"
      <3>1. NameStep(P, t) = <<t.name>> /\ t.name \in Col
        BY <1>2, <2>2 DEF NameStep, NamesOf
      <3> HIDE DEF V
      <3> QED BY <3>1 DEF V
    <2>3. CASE t.is \notin {"call", "name"}
      <3>1. NameStep(P, t) = <<>>
        BY <2>3 DEF NameStep, NamesOf
      <3> QED BY <3>1, EmptySeq
    <2> QED BY <2>1, <2>2, <2>3
  <1>4. G \in [[Parsed -> V] -> [Parsed -> V]]
    <2> HIDE DEF V
    <2> QED BY <1>3
  <1>5. Recurs(G, Parsed, V, h)
    <2>1. h \in [Parsed -> Nat] /\ \A t \in Parsed : h[t] = Least(t)
      BY LeastHeight
    <2>2. \A P \in [Parsed -> V] : \A t \in Parsed : G[P][t] = NameStep(P, t)
      OBVIOUS
    <2> HIDE DEF G, V, h
    <2> QED BY <1>1, <1>4, <2>1, <2>2 DEF Recurs
  <1>6. PICK F \in [Parsed -> V] : F = G[F]
    <2>1. V # {}
      BY EmptySeq
    <2> HIDE DEF G, V, h
    <2> QED BY <1>5, <2>1, Solution
  <1>7. F = [t \in Parsed |-> NameStep(F, t)]
    <2> HIDE DEF V
    <2> QED BY <1>6
  <1>8. NamesIn = CHOOSE R : R = [t \in Parsed |-> NameStep(R, t)]
    BY DEF NamesIn, NameStep
  <1>9. NamesIn = [t \in Parsed |-> NameStep(NamesIn, t)]
    BY <1>7, <1>8
  <1>10. NamesIn \in [Parsed -> V]
    <2>1. ASSUME NEW n \in Nat, \A t \in Parsed : Least(t) < n => NamesIn[t] = F[t],
                 NEW t \in Parsed, Least(t) < n + 1
          PROVE  NamesIn[t] = F[t]
      <3>1. \A a \in Parsed : Least(a) < Least(t) => NamesIn[a] = F[a]
        BY <2>1, LeastHeight
      <3>2. NameStep(NamesIn, t) = NameStep(F, t)
        BY <1>1, <3>1
      <3> QED BY <1>7, <1>9, <3>2
    <2> DEFINE T == {n \in Nat : \A t \in Parsed : Least(t) < n => NamesIn[t] = F[t]}
    <2>2. 0 \in T
      BY LeastHeight
    <2>3. \A n \in Nat : n \in T => n + 1 \in T
      BY <2>1
    <2>4. Nat \subseteq T
      <3> HIDE DEF T
      <3> QED BY <2>2, <2>3, NatSetInduction
    <2>5. ASSUME NEW t \in Parsed PROVE NamesIn[t] = F[t]
      <3>1. Least(t) \in Nat /\ Least(t) + 1 \in Nat /\ Least(t) < Least(t) + 1
        BY LeastHeight
      <3> QED BY <2>4, <3>1
    <2> HIDE DEF V
    <2>6. \A t \in Parsed : NamesIn[t] \in V
      BY <1>6, <2>5
    <2> QED BY <1>9, <2>6
  <1>11. Parse[e] \in Parsed
    BY DEF Parsed
  <1>12. NamesIn[Parse[e]] = NameStep(NamesIn, Parse[e])
    BY <1>9, <1>11
  <1>13. Parse[e].is = "name" => Parse[e].name \in ToSet(NamesIn[Parse[e]])
    <2> DEFINE t == Parse[e]
    <2> SUFFICES ASSUME t.is = "name" PROVE t.name \in ToSet(NamesIn[t])
      OBVIOUS
    <2>1. NamesIn[t] = <<t.name>>
      BY <1>12 DEF NameStep, NamesOf
    <2>2. \A x : x \in ToSet(<<x>>)
      BY DEF ToSet
    <2> QED BY <2>1, <2>2
  <1>14. Parse[e].is = "call" => \A i \in DOMAIN Parse[e].args :
           ToSet(NamesIn[Parse[e].args[i]]) \subseteq ToSet(NamesIn[Parse[e]])
    BY <1>10, <1>11, <1>12, NameStepCall
  <1> QED BY <1>10, <1>11, <1>13, <1>14

-----------------------------------------------------------------------------
(* When a condition gives a bitmap, and which.                              *)

\* A tree is unfit by its root or by an operand.
UnfitStep(F, t) ==
  \/ t.is # "call"
  \/ t.fn \notin DOMAIN KernelOp \cup {"sindex_and", "sindex_or"}
  \/ t.fn \in {"sindex_and", "sindex_or"} /\ \E i \in DOMAIN t.args : F[t.args[i]]

\* Whether a parsed condition is unfit, by its root.
LEMMA UnfitDef ==
  \A e \in Expr : Unfit[Parse[e]] = UnfitStep(Unfit, Parse[e])
  <1> DEFINE h == [t \in Parsed |-> Least(t)]
             G == [P \in [Parsed -> BOOLEAN] |-> [t \in Parsed |-> UnfitStep(P, t)]]
  <1>1. ASSUME NEW P, NEW R, NEW t \in Parsed,
               \A a \in Parsed : Least(a) < Least(t) => P[a] = R[a]
        PROVE  UnfitStep(P, t) = UnfitStep(R, t)
    <2>1. CASE t.is = "call"
      <3>1. \A i \in DOMAIN t.args : P[t.args[i]] = R[t.args[i]]
        BY <1>1, <2>1, OperandsBelow
      <3>2. (\E i \in DOMAIN t.args : P[t.args[i]]) <=> (\E i \in DOMAIN t.args : R[t.args[i]])
        BY <3>1
      <3> QED BY <3>2 DEF UnfitStep
    <2>2. CASE t.is # "call"
      BY <2>2 DEF UnfitStep
    <2> QED BY <2>1, <2>2
  <1>2. \A P, t : UnfitStep(P, t) \in BOOLEAN
    BY DEF UnfitStep
  <1>3. G \in [[Parsed -> BOOLEAN] -> [Parsed -> BOOLEAN]]
    BY <1>2
  <1>4. Recurs(G, Parsed, BOOLEAN, h)
    <2>1. h \in [Parsed -> Nat] /\ \A t \in Parsed : h[t] = Least(t)
      BY LeastHeight
    <2>2. \A P \in [Parsed -> BOOLEAN] : \A t \in Parsed : G[P][t] = UnfitStep(P, t)
      OBVIOUS
    <2> HIDE DEF G, h
    <2> QED BY <1>1, <1>3, <2>1, <2>2 DEF Recurs
  <1>5. PICK F \in [Parsed -> BOOLEAN] : F = G[F]
    <2>1. BOOLEAN # {}
      OBVIOUS
    <2> HIDE DEF G, h
    <2> QED BY <1>4, <2>1, Solution
  <1>6. F = [t \in Parsed |-> UnfitStep(F, t)]
    BY <1>5
  <1>7. Unfit = CHOOSE R : R = [t \in Parsed |-> UnfitStep(R, t)]
    BY DEF Unfit, UnfitStep
  <1>8. Unfit = [t \in Parsed |-> UnfitStep(Unfit, t)]
    BY <1>6, <1>7
  <1>9. \A t \in Parsed : Unfit[t] = UnfitStep(Unfit, t)
    BY <1>8
  <1> QED BY <1>9 DEF Parsed

\* The names of a condition are among those of S.
NamesWithin(t, S) == ToSet(NamesIn[t]) \subseteq S

\* In frame f the columns of S that are vectors are those of classes K and
\* cells X, and none is a bitmap.
Shows(f, K, X, S) ==
  \A c \in S : /\ c \in DOMAIN f /\ f[c].is # "bits"
               /\ f[c].is = "vec" => f[c] = Vec(K[c], X[c])

\* The frame in which every column is its vector.
Ideal(K, X) == [c \in Col |-> Vec(K[c], X[c])]

\* The operands of an operator are parsed expressions, with names of the whole.
LEMMA TwoOperands ==
  ASSUME NEW e \in Expr, Parse[e].is = "call",
         Parse[e].fn \in DOMAIN KernelOp \cup {"sindex_and", "sindex_or"}
  PROVE  \E a1, a2 \in Expr :
           /\ DOMAIN Parse[e].args = 1..2
           /\ Parse[e].args[1] = Parse[a1] /\ Parse[e].args[2] = Parse[a2]
           /\ Height[a1] < Height[e] /\ Height[a2] < Height[e]
           /\ \A S : NamesWithin(Parse[e], S) => NamesWithin(Parse[a1], S) /\ NamesWithin(Parse[a2], S)
  <1> DEFINE t == Parse[e]
  <1>1. t.args \in Seq(Parsed) /\ Len(t.args) = 2
    BY CallParsed
  <1>2. DOMAIN t.args = 1..2
    BY <1>1, LenProperties
  <1>3. 1 \in DOMAIN t.args /\ 2 \in DOMAIN t.args
    BY <1>2
  <1>4. PICK a1 \in Expr : Height[a1] < Height[e] /\ t.args[1] = Parse[a1]
    BY <1>3, CallParsed
  <1>5. PICK a2 \in Expr : Height[a2] < Height[e] /\ t.args[2] = Parse[a2]
    BY <1>3, CallParsed
  <1>6. /\ ToSet(NamesIn[t.args[1]]) \subseteq ToSet(NamesIn[t])
        /\ ToSet(NamesIn[t.args[2]]) \subseteq ToSet(NamesIn[t])
    BY <1>3, NamesDef
  <1> HIDE DEF t
  <1>7. \A S : NamesWithin(t, S) => NamesWithin(Parse[a1], S) /\ NamesWithin(Parse[a2], S)
    BY <1>4, <1>5, <1>6 DEF NamesWithin
  <1> QED BY <1>2, <1>4, <1>5, <1>7 DEF t

\* A call gives a bitmap or an error, and what is not a name, a number or a
\* call an error.
LEMMA OnlyLeavesAreVectors ==
  ASSUME NEW f, NEW e \in Expr, Parse[e].is \notin {"const", "name"}
  PROVE  Eval(f, Parse[e]).is # "vec"
  <1> DEFINE t == Parse[e]
             v1 == Eval(f, t.args[1])
             v2 == Eval(f, t.args[2])
  <1>1. CASE t.is = "call" /\ t.fn \in DOMAIN KernelOp
    <2>1. Eval(f, t) = Compare(t.fn, v1, v2)
      BY <1>1, EvalCases
    <2> HIDE DEF t, v1, v2
    <2> QED BY <2>1 DEF Compare, Error, Bits, t
  <1>2. CASE t.is = "call" /\ t.fn \in {"sindex_and", "sindex_or"}
    <2>1. Eval(f, t) = Combine(t.fn, v1, v2)
      BY <1>2, EvalCases
    <2> HIDE DEF t, v1, v2
    <2> QED BY <2>1 DEF Combine, Error, Bits, t
  <1>3. CASE t.is # "call" \/ t.fn \notin DOMAIN KernelOp \cup {"sindex_and", "sindex_or"}
    <2>1. Eval(f, t) = Error
      BY <1>3, EvalCases
    <2> HIDE DEF t
    <2> QED BY <2>1 DEF Error, t
  <1> QED BY <1>1, <1>2, <1>3

\* A frame can spoil a condition, but cannot give it another bitmap.
LEMMA EvalIdeal ==
  ASSUME NEW f, NEW K, NEW X, NEW S \in SUBSET Col, Shows(f, K, X, S), NEW cond \in Expr,
         NamesWithin(Parse[cond], S), Eval(f, Parse[cond]).is = "bits"
  PROVE  Eval(Ideal(K, X), Parse[cond]) = Eval(f, Parse[cond])
  <1> DEFINE Got(e) == Eval(f, Parse[e])
             Same(e) == NamesWithin(Parse[e], S) /\ Got(e).is \in {"vec", "bits"} =>
                          Eval(Ideal(K, X), Parse[e]) = Got(e)
             T == {n \in Nat : \A e \in Expr : Height[e] < n => Same(e)}
  <1>0. \A e \in Expr : Height[e] \in Nat
    BY ExprAssumption
  <1>1. 0 \in T
    BY <1>0
  <1>2. ASSUME NEW n \in Nat, n \in T PROVE n + 1 \in T
    <2> SUFFICES ASSUME NEW e \in Expr, Height[e] < n + 1,
                        NamesWithin(Parse[e], S), Got(e).is \in {"vec", "bits"}
                 PROVE  Eval(Ideal(K, X), Parse[e]) = Got(e)
      OBVIOUS
    <2> DEFINE t == Parse[e]
               g == Ideal(K, X)
    <2>1. \A a \in Expr : Height[a] < Height[e] => Same(a)
      BY <1>0, <1>2
    <2>2. CASE t.is = "const"
      BY <2>2, EvalCases
    <2>3. CASE t.is = "name"
      <3>1. t.name \in S
        BY <2>3, NamesDef DEF NamesWithin
      <3>2. Got(e) = f[t.name] /\ f[t.name].is # "bits"
        BY <2>3, <3>1, EvalCases DEF Shows
      <3>3. f[t.name].is = "vec"
        BY <3>2
      <3>4. f[t.name] = Vec(K[t.name], X[t.name])
        BY <3>1, <3>3 DEF Shows
      <3>5. t.name \in DOMAIN g /\ g[t.name] = Vec(K[t.name], X[t.name])
        BY <3>1 DEF Ideal
      <3>6. Eval(g, t) = g[t.name]
        BY <2>3, <3>5, EvalCases
      <3> QED BY <3>2, <3>4, <3>5, <3>6
    <2>4. CASE t.is = "call" /\ t.fn \in DOMAIN KernelOp \cup {"sindex_and", "sindex_or"}
      <3>1. PICK a1 \in Expr, a2 \in Expr :
               /\ t.args[1] = Parse[a1] /\ t.args[2] = Parse[a2]
               /\ Height[a1] < Height[e] /\ Height[a2] < Height[e]
               /\ NamesWithin(Parse[a1], S) /\ NamesWithin(Parse[a2], S)
        BY <2>4, TwoOperands
      <3> DEFINE v1 == Eval(f, t.args[1])
                 v2 == Eval(f, t.args[2])
                 w1 == Eval(g, t.args[1])
                 w2 == Eval(g, t.args[2])
      <3>2. v1.is \in {"vec", "bits"} => w1 = v1
        BY <2>1, <3>1
      <3>3. v2.is \in {"vec", "bits"} => w2 = v2
        BY <2>1, <3>1
      <3>4. CASE t.fn \in DOMAIN KernelOp
        <4>1. Got(e) = Compare(t.fn, v1, v2) /\ Eval(g, t) = Compare(t.fn, w1, w2)
          BY <2>4, <3>4, EvalCases
        <4> HIDE DEF t, g, Got, v1, v2, w1, w2
        <4>2. Comparable(t.fn, v1, v2)
          BY <4>1 DEF Compare, Error
        <4>3. v1.is = "vec" /\ v2.is = "vec"
          BY <4>2 DEF Comparable
        <4>4. Eval(g, t) = Got(e)
          BY <3>2, <3>3, <4>1, <4>3
        <4> QED BY <4>4 DEF t, g, Got
      <3>5. CASE t.fn \in {"sindex_and", "sindex_or"}
        <4>1. Got(e) = Combine(t.fn, v1, v2) /\ Eval(g, t) = Combine(t.fn, w1, w2)
          BY <2>4, <3>5, EvalCases
        <4> HIDE DEF t, g, Got, v1, v2, w1, w2
        <4>2. v1.is = "bits" /\ v2.is = "bits"
          BY <4>1 DEF Combine, Error
        <4>4. Eval(g, t) = Got(e)
          BY <3>2, <3>3, <4>1, <4>2
        <4> QED BY <4>4 DEF t, g, Got
      <3> QED BY <2>4, <3>4, <3>5
    <2>5. CASE /\ t.is \notin {"const", "name"}
               /\ t.is # "call" \/ t.fn \notin DOMAIN KernelOp \cup {"sindex_and", "sindex_or"}
      <3>1. Got(e) = Error
        BY <2>5, EvalCases
      <3> HIDE DEF Got
      <3> QED BY <3>1 DEF Error
    <2> QED BY <2>2, <2>3, <2>4, <2>5
  <1>3. Nat \subseteq T
    <2> HIDE DEF T
    <2> QED BY <1>1, <1>2, NatSetInduction
  <1>4. Height[cond] + 1 \in Nat /\ Height[cond] < Height[cond] + 1
    BY <1>0
  <1> QED BY <1>3, <1>4

-----------------------------------------------------------------------------
(* The bitmap of a condition.                                               *)

\* A comparison t is decided for row j, when the columns are of classes K and
\* have cells X.
Clear(K, X, t, j) ==
  LET c == t.args[1].name
  IN  Decided(K[c], Len(X[c]), j, X[c][j], t.args[2].value)

\* Row j.
RowAt(X, j) == [c \in Col |-> X[c][j]]

\* No comparison is of a number, and if one is of two columns all columns are
\* equally long.
Legal(X, S, t) ==
  /\ NamesWithin(t, S)
  /\ \A a \in Comparisons[t] : a.args[1].is # "const"
  /\ \/ \A a \in Comparisons[t] : a.args[2].is = "const"
     \/ \A c, d \in S : Len(X[c]) = Len(X[d])

\* A bitmap b belongs to an expression and the tree t it became.
BitsMean(K, X, e, t, b) ==
  \A j \in DOMAIN b :
    (\A a \in Comparisons[t] : Clear(K, X, a, j)) => (b[j] <=> Truth(e, RowAt(X, j)))

BitsCover(f, X, S, t, b) ==
  /\ Comparisons[t] # {}
  /\ \A a \in Comparisons[t] :
       /\ a.args[1].name \in S /\ f[a.args[1].name].is = "vec"
       /\ DOMAIN b = DOMAIN X[a.args[1].name]

Right(f, K, X, S, e) ==
  Legal(X, S, Parse[e]) /\ Eval(f, Parse[e]).is = "bits" =>
    /\ BitsMean(K, X, e, Parse[e], Eval(f, Parse[e]).bits)
    /\ BitsCover(f, X, S, Parse[e], Eval(f, Parse[e]).bits)

\* In a vector of one cell the kernels leave every row to the scalar loop.
LEMMA OneCell ==
  ASSUME NEW class, NEW n \in Nat, NEW x, NEW y, NEW j \in 1..n
  PROVE  ~Decided(class, 1, j, x, y)
  <1>1. Bulk(class, 1) = 0
    BY DEF Bulk, Lanes
  <1> QED BY <1>1 DEF Decided

\* What a comparison gives where it is decided.
LEMMA ComparisonMeans ==
  ASSUME NEW e \in Expr, NEW t, t = Parse[e], t.is = "call", t.fn \in DOMAIN KernelOp,
         t.args[1].is = "name", t.args[2].is = "const",
         NEW K, NEW X, NEW j, NEW bit, NEW c, c = t.args[1].name,
         K[c] \in VecClass, Clear(K, X, t, j),
         bit = KernelBit(K[c], KernelOp[t.fn], Len(X[c]), j, X[c][j],
                         Value(K[c], t.args[2].value))
  PROVE  bit <=> Truth(e, RowAt(X, j))
  <1> DEFINE y == t.args[2].value
             x == X[c]
             row == RowAt(X, j)
             args == [i \in DOMAIN e.args |-> Truth(e.args[i], row)]
  <1>1. PICK a1 \in Expr, a2 \in Expr : t.args[1] = Parse[a1] /\ t.args[2] = Parse[a2]
    BY TwoOperands
  <1>2. c \in Col
    BY <1>1, OperandParsed
  <1>3. row[c] = x[j]
    BY <1>2 DEF RowAt
  <1>4. CallBecomes(e, t)
    BY CallShape
  <1>5. Decided(K[c], Len(x), j, x[j], y)
    BY DEF Clear
  <1>6. bit = KernelBit(K[c], KernelOp[t.fn], Len(x), j, x[j], Value(K[c], y))
    OBVIOUS
  <1>7. ASSUME KernelOp[t.fn] \in OpName PROVE bit <=> Holds(KernelOp[t.fn], x[j], y)
    <2> HIDE DEF y, x
    <2> QED BY <1>5, <1>6, <1>7, KernelDecides
  <1>8. Truth(e, row) = Meant(e, row, args)
    BY TruthDef
  <1>9. e.is = "call" /\ e.args \in Seq(Expr)
    BY CallParsed, ExprAssumption
  <1>10. ASSUME Len(e.args) = 2 PROVE e.args[1] \in Expr /\ e.args[2] \in Expr
    BY <1>9, <1>10, LenProperties, ElementOfSeq
  <1>11. ASSUME e.fn \in DOMAIN SourceOp, e.fn \notin {"&", "|", "("}
         PROVE  Truth(e, row) <=> Holds(SourceOp[e.fn], Operand(e.args[1], row), Operand(e.args[2], row))
    <2> HIDE DEF row, args
    <2>1. e.fn # "&" /\ e.fn # "|" /\ e.fn # "("
      BY <1>11
    <2>2. Meant(e, row, args)
            <=> Holds(SourceOp[e.fn], Operand(e.args[1], row), Operand(e.args[2], row))
      BY <1>9, <1>11, <2>1 DEF Meant
    <2> QED BY <1>8, <2>2
  <1>12. /\ t.args[1].is = "name" /\ t.args[2].is = "const" /\ t.fn \in DOMAIN KernelOp
         /\ c = t.args[1].name
    OBVIOUS
  <1> HIDE DEF row
  <1>13. CASE e.fn \in DOMAIN Generic /\ t.fn = Generic[e.fn] /\ InPlace(e, t)
    <2>1. Operand(e.args[1], row) = x[j] /\ Operand(e.args[2], row) = y
      <3>1. Len(e.args) = 2 /\ t.args[1] = Parse[e.args[1]] /\ t.args[2] = Parse[e.args[2]]
        BY <1>13 DEF InPlace
      <3> QED BY <1>3, <1>10, <1>12, <3>1, OperandParsed
    <2> HIDE DEF x, y
    <2>2. Truth(e, row) <=> Holds(SourceOp[e.fn], x[j], y)
      BY <1>11, <1>13, <2>1, FlipHolds
    <2>3. bit <=> Holds(KernelOp[t.fn], x[j], y)
      BY <1>7, <1>13, FlipHolds
    <2> QED BY <1>13, <2>2, <2>3, FlipHolds DEF row
  <1>14. CASE e.fn \in DOMAIN Generic /\ t.fn = Generic[Flip(e.fn)] /\ Swapped(e, t)
    <2>1. Operand(e.args[1], row) = y /\ Operand(e.args[2], row) = x[j]
      <3>1. Len(e.args) = 2 /\ t.args[1] = Parse[e.args[2]] /\ t.args[2] = Parse[e.args[1]]
        BY <1>14 DEF Swapped
      <3> QED BY <1>3, <1>10, <1>12, <3>1, OperandParsed
    <2> HIDE DEF x, y
    <2>2. Truth(e, row) <=> Holds(SourceOp[e.fn], y, x[j])
      BY <1>11, <1>14, <2>1, FlipHolds
    <2>3. bit <=> Holds(KernelOp[t.fn], x[j], y)
      BY <1>7, <1>14, FlipHolds
    <2>4. Holds(KernelOp[t.fn], x[j], y) = Holds(SourceOp[e.fn], y, x[j])
      BY <1>14, FlipHolds
    <2> QED BY <2>2, <2>3, <2>4 DEF row
  <1>15. t.fn \notin {"sindex_and", "sindex_or", "(string)"}
    BY <1>12 DEF KernelOp
  <1> QED BY <1>4, <1>13, <1>14, <1>15 DEF CallBecomes

\* A comparison.
LEMMA ComparisonRight ==
  ASSUME NEW f, NEW K, NEW X, NEW S \in SUBSET Col, Shows(f, K, X, S),
         \A c \in DOMAIN f : ValueOK(f[c]),
         NEW e \in Expr, Parse[e].is = "call", Parse[e].fn \in DOMAIN KernelOp
  PROVE  Right(f, K, X, S, e)
  <1> DEFINE t == Parse[e]
             b == Eval(f, t)
             c == t.args[1].name
             x == X[c]
             v1 == Eval(f, t.args[1])
             v2 == Eval(f, t.args[2])
  <1> SUFFICES ASSUME Legal(X, S, t), b.is = "bits"
               PROVE  BitsMean(K, X, e, t, b.bits) /\ BitsCover(f, X, S, t, b.bits)
    BY DEF Right
  <1>1. Comparisons[t] = {t}
    BY ComparisonsDef DEF CompareStep
  <1>2. PICK a1 \in Expr, a2 \in Expr :
          /\ t.args[1] = Parse[a1] /\ t.args[2] = Parse[a2]
          /\ NamesWithin(t.args[1], S) /\ NamesWithin(t.args[2], S)
    <2>1. NamesWithin(t, S)
      BY DEF Legal
    <2> QED BY <2>1, TwoOperands
  <1>3. b = Compare(t.fn, v1, v2)
    BY EvalCases
  <1>4. Comparable(t.fn, v1, v2)
    <2> HIDE DEF b, v1, v2
    <2> QED BY <1>3 DEF Compare, Error
  <1>5. /\ v1.is = "vec" /\ v1.class \in VecClass
        /\ v2.is = "vec" /\ Len(v2.cells) = 1
    BY <1>4 DEF Comparable
  <1>6. t.args[1].is = "name"
    <2>1. t.args[1].is \in {"const", "name"}
      BY <1>2, <1>5, OnlyLeavesAreVectors
    <2> QED BY <1>1, <2>1 DEF Legal
  <1>7. t.args[2].is \in {"const", "name"}
    BY <1>2, <1>5, OnlyLeavesAreVectors
  <1>8. c \in S /\ c \in DOMAIN f
    BY <1>2, <1>6, NamesDef DEF NamesWithin, Shows
  <1>9. v1 = f[c]
    BY <1>2, <1>6, <1>8, EvalCases
  <1>10. f[c].is = "vec" /\ v1 = Vec(K[c], x) /\ K[c] \in VecClass
    <2>1. f[c] = Vec(K[c], x)
      BY <1>5, <1>8, <1>9 DEF Shows
    <2> HIDE DEF c, x, v1
    <2> QED BY <1>5, <1>9, <2>1 DEF Vec
  <1>11. Numbered(x)
    <2>1. ValueOK(f[c])
      BY <1>8
    <2> HIDE DEF c, x, v1
    <2> QED BY <1>9, <1>10, <2>1 DEF ValueOK, Vec
  <1> HIDE DEF b, v1, v2, x
  <1>12. b.bits = [j \in DOMAIN x |->
           KernelBit(K[c], KernelOp[t.fn], Len(x), j, x[j], Value(K[c], v2.cells[1]))]
    BY <1>3, <1>4, <1>10 DEF Compare, Bits, Vec
  <1>13. BitsCover(f, X, S, t, b.bits)
    BY <1>1, <1>8, <1>10, <1>12 DEF BitsCover, x
  <1>14. ASSUME NEW j \in DOMAIN x, Clear(K, X, t, j)
         PROVE  b.bits[j] <=> Truth(e, RowAt(X, j))
    <2>1. CASE t.args[2].is = "const"
      <3>1. v2 = Vec("double", <<t.args[2].value>>)
        BY <1>2, <2>1, EvalCases DEF v2
      <3>2. v2.cells[1] = t.args[2].value
        BY <3>1 DEF Vec
      <3>3. b.bits[j] = KernelBit(K[c], KernelOp[t.fn], Len(x), j, x[j], Value(K[c], t.args[2].value))
        BY <1>12, <3>2
      <3> DEFINE bit == b.bits[j]
                 d   == c
      <3>4. bit = KernelBit(K[d], KernelOp[t.fn], Len(X[d]), j, X[d][j], Value(K[d], t.args[2].value))
        BY <3>3 DEF x
      <3>5. d = t.args[1].name /\ K[d] \in VecClass
        BY <1>10
      <3> HIDE DEF bit, d
      <3>6. bit <=> Truth(e, RowAt(X, j))
        <4>1. Clear(K, X, t, j) /\ t.args[1].is = "name" /\ t.args[2].is = "const"
          BY <1>6, <1>14, <2>1
        <4>2. t = Parse[e] /\ t.is = "call" /\ t.fn \in DOMAIN KernelOp
          OBVIOUS
        <4> HIDE DEF c, v1, v2, t
        <4> QED BY <3>4, <3>5, <4>1, <4>2, ComparisonMeans
      <3> QED BY <3>6 DEF bit
    <2>2. CASE t.args[2].is = "name"
      <3> DEFINE d == t.args[2].name
      <3>1. d \in S /\ d \in DOMAIN f
        BY <1>2, <2>2, NamesDef DEF NamesWithin, Shows
      <3>2. v2 = f[d]
        BY <1>2, <2>2, <3>1, EvalCases DEF v2
      <3>3. v2 = Vec(K[d], X[d])
        BY <1>5, <3>1, <3>2 DEF Shows
      <3>4. Len(X[d]) = 1
        BY <1>5, <3>3 DEF Vec
      <3>5. Len(X[c]) = Len(X[d])
        BY <1>1, <1>8, <2>2, <3>1 DEF Legal
      <3>6. PICK n \in Nat : DOMAIN x = 1..n
        BY <1>11 DEF Numbered
      <3>7. Decided(K[c], 1, j, x[j], t.args[2].value)
        BY <1>14, <3>4, <3>5 DEF Clear, x
      <3> HIDE DEF c
      <3> QED BY <3>6, <3>7, OneCell
    <2> QED BY <1>7, <2>1, <2>2
  <1>15. DOMAIN b.bits = DOMAIN x
    BY <1>12
  <1>16. BitsMean(K, X, e, t, b.bits)
    BY <1>1, <1>14, <1>15 DEF BitsMean
  <1> QED BY <1>13, <1>16

\* Two conditions joined.
LEMMA CombinationRight ==
  ASSUME NEW f, NEW K, NEW X, NEW S \in SUBSET Col, \A c \in DOMAIN f : ValueOK(f[c]),
         NEW e \in Expr, Parse[e].is = "call", Parse[e].fn \in {"sindex_and", "sindex_or"},
         \A a \in Expr : Height[a] < Height[e] => Right(f, K, X, S, a)
  PROVE  Right(f, K, X, S, e)
  <1> DEFINE t == Parse[e]
             b == Eval(f, t)
  <1> SUFFICES ASSUME Legal(X, S, t), b.is = "bits"
               PROVE  BitsMean(K, X, e, t, b.bits) /\ BitsCover(f, X, S, t, b.bits)
    BY DEF Right
  <1>1. CallBecomes(e, t)
    BY CallShape
  <1>2. /\ (e.fn = "&" /\ t.fn = "sindex_and") \/ (e.fn = "|" /\ t.fn = "sindex_or")
        /\ InPlace(e, t)
    <2>1. \A op \in DOMAIN Generic : Generic[op] \in DOMAIN KernelOp /\ Generic[Flip(op)] \in DOMAIN KernelOp
      BY FlipHolds
    <2>2. t.fn \notin DOMAIN KernelOp
      BY DEF KernelOp
    <2> HIDE DEF t
    <2> QED BY <1>1, <2>1, <2>2 DEF CallBecomes, t
  <1> DEFINE a1 == e.args[1]
             a2 == e.args[2]
             v1 == Eval(f, Parse[a1])
             v2 == Eval(f, Parse[a2])
  <1>3. Len(e.args) = 2 /\ t.args[1] = Parse[a1] /\ t.args[2] = Parse[a2]
    BY <1>2 DEF InPlace
  <1>4. e.is = "call" /\ e.args \in Seq(Expr) /\ \A i \in DOMAIN e.args : Height[e.args[i]] < Height[e]
    BY CallParsed, ExprAssumption
  <1>5. a1 \in Expr /\ a2 \in Expr /\ Height[a1] < Height[e] /\ Height[a2] < Height[e]
    BY <1>3, <1>4, LenProperties, ElementOfSeq
  <1>6. Right(f, K, X, S, a1) /\ Right(f, K, X, S, a2)
    BY <1>5
  <1>7. b = Combine(t.fn, v1, v2)
    BY <1>3, EvalCases
  <1>8. DOMAIN t.args = 1..2
    BY CallParsed, LenProperties
  <1>9. Comparisons[t] = Comparisons[Parse[a1]] \cup Comparisons[Parse[a2]]
    <2>1. t.fn \notin DOMAIN KernelOp
      BY DEF KernelOp
    <2>2. Comparisons[t] = UNION {Comparisons[t.args[i]] : i \in DOMAIN t.args}
      BY <2>1, ComparisonsDef DEF CompareStep
    <2> HIDE DEF t, a1, a2
    <2>3. {Comparisons[t.args[i]] : i \in 1..2} = {Comparisons[t.args[1]], Comparisons[t.args[2]]}
      OBVIOUS
    <2> QED BY <1>3, <1>8, <2>2, <2>3
  <1>10. Legal(X, S, Parse[a1]) /\ Legal(X, S, Parse[a2])
    <2>1. NamesWithin(Parse[a1], S) /\ NamesWithin(Parse[a2], S)
      <3>1. NamesWithin(t, S)
        BY DEF Legal
      <3> HIDE DEF a1, a2
      <3> QED BY <1>3, <3>1, TwoOperands
    <2> HIDE DEF t, a1, a2
    <2> QED BY <1>9, <2>1 DEF Legal
  <1>11. ValueOK(v1) /\ ValueOK(v2)
    BY <1>5, EvalOK
  <1> DEFINE row(j) == RowAt(X, j)
  <1>12. \A j : Truth(e, row(j)) <=> IF e.fn = "&" THEN Truth(a1, row(j)) /\ Truth(a2, row(j))
                                                   ELSE Truth(a1, row(j)) \/ Truth(a2, row(j))
    <2> SUFFICES ASSUME NEW j
                 PROVE  Truth(e, row(j)) <=>
                          IF e.fn = "&" THEN Truth(a1, row(j)) /\ Truth(a2, row(j))
                                        ELSE Truth(a1, row(j)) \/ Truth(a2, row(j))
      OBVIOUS
    <2> DEFINE args == [i \in DOMAIN e.args |-> Truth(e.args[i], row(j))]
    <2>1. Truth(e, row(j)) = Meant(e, row(j), args)
      BY TruthDef
    <2>2. args[1] = Truth(a1, row(j)) /\ args[2] = Truth(a2, row(j))
      BY <1>3, <1>4, LenProperties
    <2> HIDE DEF args, a1, a2, row
    <2>3. e.fn = "&" => (Meant(e, row(j), args) <=> args[1] /\ args[2])
      BY <1>4 DEF Meant, SourceOp
    <2>4. e.fn = "|" => (Meant(e, row(j), args) <=> args[1] \/ args[2])
      BY <1>4 DEF Meant, SourceOp
    <2> HIDE DEF t
    <2> QED BY <1>2, <2>1, <2>2, <2>3, <2>4
  <1> HIDE DEF b, v1, v2, row, a1, a2
  <1>13. v1.is = "bits" /\ v2.is = "bits" /\ Len(v1.bits) = Len(v2.bits)
    BY <1>7 DEF Combine, Error
  <1>14. v1.bits \in Seq(BOOLEAN) /\ v2.bits \in Seq(BOOLEAN)
    BY <1>11, <1>13 DEF ValueOK
  <1>15. DOMAIN v1.bits = DOMAIN v2.bits
    BY <1>13, <1>14, LenProperties
  <1>16. /\ DOMAIN b.bits = DOMAIN v1.bits
         /\ \A j \in DOMAIN b.bits :
              b.bits[j] = IF t.fn = "sindex_and" THEN v1.bits[j] /\ v2.bits[j]
                                                 ELSE v1.bits[j] \/ v2.bits[j]
    BY <1>7, <1>13 DEF Combine, Bits
  <1>17. /\ BitsMean(K, X, a1, Parse[a1], v1.bits) /\ BitsCover(f, X, S, Parse[a1], v1.bits)
         /\ BitsMean(K, X, a2, Parse[a2], v2.bits) /\ BitsCover(f, X, S, Parse[a2], v2.bits)
    BY <1>6, <1>10, <1>13 DEF Right, v1, v2
  <1> HIDE DEF t
  <1>18. BitsCover(f, X, S, t, b.bits)
    BY <1>9, <1>15, <1>16, <1>17 DEF BitsCover
  <1>19. ASSUME NEW j \in DOMAIN b.bits, \A a \in Comparisons[t] : Clear(K, X, a, j)
         PROVE  b.bits[j] <=> Truth(e, RowAt(X, j))
    <2>1. (v1.bits[j] <=> Truth(a1, row(j))) /\ (v2.bits[j] <=> Truth(a2, row(j)))
      BY <1>9, <1>15, <1>16, <1>17, <1>19 DEF BitsMean, row
    <2>2. b.bits[j] <=> IF t.fn = "sindex_and" THEN v1.bits[j] /\ v2.bits[j]
                                               ELSE v1.bits[j] \/ v2.bits[j]
      BY <1>16
    <2>3. b.bits[j] <=> Truth(e, row(j))
      BY <1>2, <1>12, <2>1, <2>2
    <2> QED BY <2>3 DEF row
  <1> QED BY <1>18, <1>19 DEF BitsMean

\* A bitmap that a condition gives selects, among the rows it decides, those
\* that satisfy it.
THEOREM EvalRight ==
  ASSUME NEW f, NEW K, NEW X, NEW S \in SUBSET Col, Shows(f, K, X, S),
         \A c \in DOMAIN f : ValueOK(f[c]), NEW cond \in Expr
  PROVE  Right(f, K, X, S, cond)
  <1> DEFINE T == {n \in Nat : \A e \in Expr : Height[e] < n => Right(f, K, X, S, e)}
  <1>0. \A e \in Expr : Height[e] \in Nat
    BY ExprAssumption
  <1>1. 0 \in T
    BY <1>0
  <1>2. ASSUME NEW n \in Nat, n \in T PROVE n + 1 \in T
    <2> SUFFICES ASSUME NEW e \in Expr, Height[e] < n + 1 PROVE Right(f, K, X, S, e)
      OBVIOUS
    <2> DEFINE t == Parse[e]
    <2>1. \A a \in Expr : Height[a] < Height[e] => Right(f, K, X, S, a)
      BY <1>0, <1>2
    <2>2. CASE t.is = "call" /\ t.fn \in DOMAIN KernelOp
      BY <2>2, ComparisonRight
    <2>3. CASE t.is = "call" /\ t.fn \in {"sindex_and", "sindex_or"}
      BY <2>1, <2>3, CombinationRight
    <2>4. CASE t.is # "call" \/ t.fn \notin DOMAIN KernelOp \cup {"sindex_and", "sindex_or"}
      <3> SUFFICES ASSUME Legal(X, S, t) PROVE Eval(f, t).is # "bits"
        BY DEF Right
      <3> DEFINE x == Eval(f, t)
      <3>1. CASE t.is = "const"
        <4>1. x = Vec("double", <<t.value>>)
          BY <3>1, EvalCases
        <4> HIDE DEF x
        <4> QED BY <4>1 DEF Vec, x
      <3>2. CASE t.is = "name"
        <4>1. t.name \in S
          BY <3>2, NamesDef DEF Legal, NamesWithin
        <4> QED BY <3>2, <4>1, EvalCases DEF Shows
      <3>3. CASE t.is \notin {"const", "name"}
        <4>1. x = Error
          BY <2>4, <3>3, EvalCases
        <4> HIDE DEF x
        <4> QED BY <4>1 DEF Error, x
      <3> QED BY <3>1, <3>2, <3>3
    <2> QED BY <2>2, <2>3, <2>4
  <1>3. Nat \subseteq T
    <2> HIDE DEF T
    <2> QED BY <1>1, <1>2, NatSetInduction
  <1>4. Height[cond] + 1 \in Nat /\ Height[cond] < Height[cond] + 1
    BY <1>0
  <1> QED BY <1>3, <1>4

\* All comparisons of a tree are of a column with a number, by an operator the
\* column has; its columns are as long as each other.
Apt(f, S, n, t) ==
  /\ ~Unfit[t] /\ NamesWithin(t, S)
  /\ \A c \in S : /\ c \in DOMAIN f /\ f[c].is = "vec" /\ f[c].class \in VecClass
                  /\ DOMAIN f[c].cells = 1..n
  /\ \A a \in Comparisons[t] :
       /\ a.args[1].is = "name" /\ a.args[2].is = "const"
       /\ a.fn = "op_le" /\ a.args[1].name \in S => f[a.args[1].name].class = "double"

\* A condition that is apt gives a bitmap.
THEOREM EvalBits ==
  ASSUME NEW f, NEW S \in SUBSET Col, NEW n \in Nat, NEW cond \in Expr,
         Apt(f, S, n, Parse[cond])
  PROVE  Eval(f, Parse[cond]).is = "bits" /\ DOMAIN Eval(f, Parse[cond]).bits = 1..n
  <1> DEFINE Given(e) == Apt(f, S, n, Parse[e]) =>
                           /\ Eval(f, Parse[e]).is = "bits"
                           /\ DOMAIN Eval(f, Parse[e]).bits = 1..n
             T == {m \in Nat : \A e \in Expr : Height[e] < m => Given(e)}
  <1>0. \A e \in Expr : Height[e] \in Nat
    BY ExprAssumption
  <1>1. 0 \in T
    BY <1>0
  <1>2. ASSUME NEW m \in Nat, m \in T PROVE m + 1 \in T
    <2> SUFFICES ASSUME NEW e \in Expr, Height[e] < m + 1, Apt(f, S, n, Parse[e])
                 PROVE  /\ Eval(f, Parse[e]).is = "bits"
                        /\ DOMAIN Eval(f, Parse[e]).bits = 1..n
      OBVIOUS
    <2> DEFINE t  == Parse[e]
               b  == Eval(f, t)
               v1 == Eval(f, t.args[1])
               v2 == Eval(f, t.args[2])
    <2>1. \A a \in Expr : Height[a] < Height[e] => Given(a)
      BY <1>0, <1>2
    <2>2. /\ t.is = "call" /\ t.fn \in DOMAIN KernelOp \cup {"sindex_and", "sindex_or"}
          /\ t.fn \in {"sindex_and", "sindex_or"} => \A i \in DOMAIN t.args : ~Unfit[t.args[i]]
      BY UnfitDef DEF Apt, UnfitStep
    <2>3. PICK a1 \in Expr, a2 \in Expr :
             /\ DOMAIN t.args = 1..2
             /\ t.args[1] = Parse[a1] /\ t.args[2] = Parse[a2]
             /\ Height[a1] < Height[e] /\ Height[a2] < Height[e]
             /\ NamesWithin(Parse[a1], S) /\ NamesWithin(Parse[a2], S)
      <3>1. NamesWithin(t, S)
        BY DEF Apt
      <3> QED BY <2>2, <3>1, TwoOperands
    <2>4. CASE t.fn \in DOMAIN KernelOp
      <3> DEFINE c == t.args[1].name
      <3>1. Comparisons[t] = {t}
        BY <2>2, <2>4, ComparisonsDef DEF CompareStep
      <3>2. /\ t.args[1].is = "name" /\ t.args[2].is = "const"
            /\ t.fn = "op_le" /\ c \in S => f[c].class = "double"
        BY <3>1 DEF Apt
      <3>3. c \in S
        BY <2>3, <3>2, NamesDef DEF NamesWithin
      <3>4. c \in DOMAIN f /\ f[c].is = "vec" /\ f[c].class \in VecClass /\ DOMAIN f[c].cells = 1..n
        BY <3>3 DEF Apt
      <3>5. v1 = f[c]
        BY <2>3, <3>2, <3>4, EvalCases
      <3>6. v2 = Vec("double", <<t.args[2].value>>)
        BY <2>3, <3>2, EvalCases
      <3>7. b = Compare(t.fn, v1, v2)
        BY <2>2, <2>4, EvalCases
      <3>8. v2.is = "vec" /\ Len(v2.cells) = 1
        <4> DEFINE y == t.args[2].value
        <4> HIDE DEF y, v2
        <4>1. v2 = Vec("double", <<y>>)
          BY <3>6 DEF y
        <4> QED BY <4>1 DEF Vec
      <3> HIDE DEF v1, v2, c, b
      <3>9. Comparable(t.fn, v1, v2)
        BY <3>2, <3>3, <3>4, <3>5, <3>8 DEF Comparable
      <3>10. b.is = "bits" /\ DOMAIN b.bits = DOMAIN v1.cells
        BY <3>7, <3>9 DEF Compare, Bits
      <3> QED BY <3>4, <3>5, <3>10 DEF b
    <2>5. CASE t.fn \in {"sindex_and", "sindex_or"}
      <3>1. t.fn \notin DOMAIN KernelOp
        BY <2>5 DEF KernelOp
      <3>2. Comparisons[t] = UNION {Comparisons[t.args[i]] : i \in DOMAIN t.args}
        BY <2>2, <3>1, ComparisonsDef DEF CompareStep
      <3>3. Comparisons[Parse[a1]] \subseteq Comparisons[t] /\ Comparisons[Parse[a2]] \subseteq Comparisons[t]
        <4> HIDE DEF t
        <4>1. 1 \in DOMAIN t.args /\ 2 \in DOMAIN t.args
          BY <2>3
        <4> QED BY <2>3, <3>2, <4>1
      <3>4. ~Unfit[Parse[a1]] /\ ~Unfit[Parse[a2]]
        <4> HIDE DEF t
        <4>1. 1 \in DOMAIN t.args /\ 2 \in DOMAIN t.args
          BY <2>3
        <4> QED BY <2>2, <2>3, <2>5, <4>1
      <3>5. Apt(f, S, n, Parse[a1]) /\ Apt(f, S, n, Parse[a2])
        BY <2>3, <3>3, <3>4 DEF Apt
      <3>6. /\ v1.is = "bits" /\ DOMAIN v1.bits = 1..n
            /\ v2.is = "bits" /\ DOMAIN v2.bits = 1..n
        BY <2>1, <2>3, <3>5
      <3>7. b = Combine(t.fn, v1, v2)
        BY <2>2, <2>5, EvalCases
      <3> HIDE DEF v1, v2, b, t
      <3>8. Len(v1.bits) = Len(v2.bits)
        BY <3>6
      <3>9. b.is = "bits" /\ DOMAIN b.bits = DOMAIN v1.bits
        BY <3>6, <3>7, <3>8 DEF Combine, Bits
      <3> QED BY <3>6, <3>9 DEF b, t
    <2> QED BY <2>2, <2>4, <2>5
  <1>3. Nat \subseteq T
    <2> HIDE DEF T
    <2> QED BY <1>1, <1>2, NatSetInduction
  <1>4. Height[cond] + 1 \in Nat /\ Height[cond] < Height[cond] + 1
    BY <1>0
  <1> QED BY <1>3, <1>4

-----------------------------------------------------------------------------
(* The splits a loop visits.                                                *)

\* 1:b begins with 1, and stays within 1..b if it counts up.
LEMMA OneColon ==
  ASSUME NEW b \in Int
  PROVE  /\ Len(Colon(1, b)) \in Nat \ {0} /\ DOMAIN Colon(1, b) = 1..Len(Colon(1, b))
         /\ Colon(1, b)[1] = 1
         /\ \A j \in 1..Len(Colon(1, b)) :
              Colon(1, b)[j] \in Int /\ (b >= 1 => Colon(1, b)[j] \in 1..b)
  <1> DEFINE v == Colon(1, b)
  <1>1. CASE b >= 1
    <2>1. v = [j \in 1..b |-> j]
      <3>1. v = [j \in 1..(b - 1 + 1) |-> 1 + j - 1]
        BY <1>1 DEF Colon
      <3> HIDE DEF v
      <3>2. b - 1 + 1 = b /\ \A j \in 1..b : 1 + j - 1 = j
        OBVIOUS
      <3> QED BY <3>1, <3>2
    <2> HIDE DEF v
    <2>2. Len(v) = b
      BY <1>1, <2>1
    <2>3. /\ Len(v) \in Nat \ {0} /\ DOMAIN v = 1..Len(v) /\ v[1] = 1
          /\ \A j \in 1..Len(v) : v[j] \in Int /\ (b >= 1 => v[j] \in 1..b)
      BY <1>1, <2>1, <2>2
    <2> QED BY <2>3 DEF v
  <1>2. CASE ~(b >= 1)
    <2> DEFINE n == 1 - b + 1
    <2>1. n \in Nat \ {0, 1}
      BY <1>2
    <2>2. v = [j \in 1..n |-> 1 - j + 1]
      <3>1. CASE b = 1
        BY <1>2, <3>1
      <3>2. CASE b # 1
        BY <1>2, <3>2 DEF Colon
      <3> QED BY <3>1, <3>2
    <2> HIDE DEF v, n
    <2>3. Len(v) = n
      BY <2>1, <2>2
    <2>4. /\ Len(v) \in Nat \ {0} /\ DOMAIN v = 1..Len(v) /\ v[1] = 1
          /\ \A j \in 1..Len(v) : v[j] \in Int /\ (b >= 1 => v[j] \in 1..b)
      BY <1>2, <2>1, <2>2, <2>3
    <2> QED BY <2>4 DEF v
  <1> QED BY <1>1, <1>2

\* A partition with rows has splits, and each of them has rows.
LEMMA SplitHasRows ==
  ASSUME NEW n \in Nat \ {0}, n =< IntMax, NEW d \in Nat \ {0}
  PROVE  /\ PartitionInfo(n, d).splits \in Nat \ {0}
         /\ \A s \in 1..PartitionInfo(n, d).splits : FileRows(n, d, s - 1) > 0
  <1> DEFINE q == (n - 1) \div d
  <1>1. ASSUME NEW x \in Int, 0 =< x, x =< IntMax PROVE ToInt(x) = x
    <2>1. IntMax \in Nat \ {0}
      BY IntMaxAssumption
    <2>2. x + IntMax + 1 \in 0..(2 * (IntMax + 1) - 1)
      BY <1>1, <2>1
    <2>3. \A m \in Nat, y \in Nat : y < m => y % m = y
      OBVIOUS
    <2>4. (x + IntMax + 1) % (2 * (IntMax + 1)) = x + IntMax + 1
      BY <2>1, <2>2, <2>3
    <2> QED BY <2>1, <2>4 DEF ToInt
  <1>2. ToInt(n) = n /\ ToInt(n - 1) = n - 1
    <2>1. /\ n \in Int /\ 0 =< n /\ n =< IntMax
          /\ n - 1 \in Int /\ 0 =< n - 1 /\ n - 1 =< IntMax
      BY IntMaxAssumption
    <2> QED BY <1>1, <2>1
  <1>3. PartitionInfo(n, d).splits = q + 1
    BY <1>2 DEF PartitionInfo, PartitionRows, Quot
  <1>4. q \in Nat /\ d * q =< n - 1 /\ d * q \in Nat
    <2>1. \A a \in Nat : a \div d \in Nat /\ d * (a \div d) =< a /\ d * (a \div d) \in Nat
      OBVIOUS
    <2>2. n - 1 \in Nat
      OBVIOUS
    <2> QED BY <2>1, <2>2
  <1> HIDE DEF q
  <1>5. ASSUME NEW s \in 1..q + 1 PROVE FileRows(n, d, s - 1) > 0
    <2> DEFINE t == s - 1
    <2>1. t \in Nat /\ t =< q
      BY <1>4
    <2> HIDE DEF t
    <2>2. t * d =< d * q /\ t * d \in Nat
      BY <1>4, <2>1
    <2>3. FileRows(n, d, t) > 0
      BY <1>4, <2>2 DEF FileRows
    <2> QED BY <2>3 DEF t
  <1> QED BY <1>3, <1>4, <1>5

=============================================================================
