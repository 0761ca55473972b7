---------------------------- MODULE DataframeProofs ----------------------------
(***************************************************************************)
(* What a dataframe replies, for every schema and every dataset.           *)
(*                                                                         *)
(* The maps of names: a lookup may insert the name it is for, so the maps  *)
(* are not what the constructor made of the schema; what a lookup keeps is *)
(* that every name of a column is there with its last column, and that an  *)
(* index other than 0 is the right one.                                    *)
(*                                                                         *)
(* The names of partitions: what the tokenizer finds in values joined with *)
(* separators is those values (TokensOfJoin), and what is before the colon *)
(* of "p:s" is p (PiecesOfKey).  Both are by induction over the text, in   *)
(* the form of NatSetInduction: the set of the lengths for which a fact    *)
(* holds has 0 and with each number the next.                              *)
(*                                                                         *)
(* The data frame of a split: by induction over the columns, the vectors   *)
(* so far are those of the columns that can be read, each in the place of  *)
(* its column among them (AllAligned).                                     *)
(*                                                                         *)
(* The invariant joins the properties; the part that makes it inductive is *)
(* that columns_ is what the constructor makes of the schema (Made)        *)
(* whenever a call can be made or has been answered.                       *)
(***************************************************************************)
EXTENDS Dataframe, WellFoundedInduction, SequenceTheorems, FiniteSetTheorems, TLAPS

-----------------------------------------------------------------------------
(* Induction.                                                               *)

\* A set of numbers that has 0 and with each number the next has all of them.
LEMMA NatSetInduction ==
  ASSUME NEW T, T \subseteq Nat, 0 \in T, \A n \in Nat : n \in T => n + 1 \in T
  PROVE  Nat \subseteq T
  <1> DEFINE R == OpToRel(<, Nat)
             U == Nat \ T
  <1> SUFFICES ASSUME U # {} PROVE FALSE
    OBVIOUS
  <1>1. PICK m \in U : \A k \in U : ~ (<<k, m>> \in R)
    <2>1. U \subseteq Nat
      OBVIOUS
    <2> HIDE DEF R, U
    <2> QED BY <2>1, WFMin, NatLessThanWellFounded DEF R
  <1>2. m \in Nat /\ m # 0
    OBVIOUS
  <1>3. m - 1 \in Nat /\ m - 1 < m /\ (m - 1) + 1 = m
    BY <1>2
  <1>4. m - 1 \notin U
    BY <1>1, <1>2, <1>3 DEF OpToRel
  <1> QED BY <1>3, <1>4

-----------------------------------------------------------------------------
(* Functions that are defined from one number to the next.                  *)

\* f starts with b, and G gives each value from the one before.
Recursive(f, n, X, b, G) ==
  f \in [0..n -> X] /\ f[0] = b /\ \A i \in 1..n : f[i] = G[i][f[i - 1]]

\* There is one, for every step function.
LEMMA Recursion ==
  ASSUME NEW n \in Nat, NEW X, NEW b \in X, NEW G \in [1..n -> [X -> X]]
  PROVE  \E f : Recursive(f, n, X, b, G)
  <1> DEFINE Def(f, m) == f = [i \in 0..m |-> IF i = 0 THEN b ELSE G[i][f[i - 1]]]
             T == {m \in Nat : m =< n => \E f \in [0..m -> X] : Def(f, m)}
  <1>1. 0 \in T
    <2>1. Def([i \in 0..0 |-> b], 0)
      OBVIOUS
    <2> QED BY <2>1
  <1>2. ASSUME NEW m \in Nat, m \in T PROVE m + 1 \in T
    <2> SUFFICES ASSUME m + 1 =< n PROVE \E f \in [0..m + 1 -> X] : Def(f, m + 1)
      OBVIOUS
    <2>1. PICK f \in [0..m -> X] : Def(f, m)
      BY <1>2
    <2> DEFINE h == [i \in 0..m + 1 |-> IF i = 0 THEN b ELSE G[i][f[i - 1]]]
    <2>2. \A i \in 0..m : f[i] = IF i = 0 THEN b ELSE G[i][f[i - 1]]
      BY <2>1
    <2>3. \A i \in 0..m : h[i] = f[i]
      BY <2>2
    <2>4. \A i \in 0..m + 1 : i # 0 => i - 1 \in 0..m /\ i \in 1..n
      OBVIOUS
    <2>5. h \in [0..m + 1 -> X]
      BY <2>4
    <2>6. Def(h, m + 1)
      <3>1. \A i \in 0..m + 1 : (IF i = 0 THEN b ELSE G[i][f[i - 1]])
                                = (IF i = 0 THEN b ELSE G[i][h[i - 1]])
        <4> HIDE DEF h
        <4> QED BY <2>3, <2>4
      <3> QED BY <3>1
    <2> HIDE DEF h, Def
    <2> QED BY <2>5, <2>6
  <1>3. n \in T
    <2> HIDE DEF T
    <2>1. T \subseteq Nat
      BY DEF T
    <2> QED BY <1>1, <1>2, <2>1, NatSetInduction
  <1>4. PICK f \in [0..n -> X] : Def(f, n)
    BY <1>3
  <1>5. \A i \in 0..n : f[i] = IF i = 0 THEN b ELSE G[i][f[i - 1]]
    BY <1>4
  <1>6. 0 \in 0..n /\ \A i \in 1..n : i \in 0..n /\ i # 0
    OBVIOUS
  <1> QED BY <1>5, <1>6 DEF Recursive

\* What holds of the first value and is kept by every step holds of all.
LEMMA StaysIn ==
  ASSUME NEW n \in Nat, NEW f, NEW X, f[0] \in X,
         \A i \in 1..n : f[i - 1] \in X => f[i] \in X
  PROVE  \A i \in 0..n : f[i] \in X
  <1> DEFINE T == {m \in Nat : m =< n => f[m] \in X}
  <1>1. 0 \in T
    OBVIOUS
  <1>2. ASSUME NEW m \in Nat, m \in T PROVE m + 1 \in T
    <2> SUFFICES ASSUME m + 1 =< n PROVE f[m + 1] \in X
      OBVIOUS
    <2>1. m + 1 \in 1..n /\ (m + 1) - 1 = m /\ f[m] \in X
      BY <1>2
    <2> QED BY <2>1
  <1>3. Nat \subseteq T
    <2> HIDE DEF T
    <2>1. T \subseteq Nat
      BY DEF T
    <2> QED BY <1>1, <1>2, <2>1, NatSetInduction
  <1> QED BY <1>3

\* A sequence, given by its elements.
LEMMA SeqFromFunction ==
  ASSUME NEW S, NEW n \in Nat, NEW f, f = [i \in 1..n |-> f[i]], \A i \in 1..n : f[i] \in S
  PROVE  f \in Seq(S) /\ Len(f) = n /\ DOMAIN f = 1..n
  <1>1. f \in [1..n -> S]
    OBVIOUS
  <1> QED BY <1>1

\* One more symbol at the end of the last piece.
LEMMA LongerType ==
  ASSUME NEW S, NEW q \in Seq(Seq(S)), NEW x \in S
  PROVE  Longer(q, x) \in Seq(Seq(S))
  <1> DEFINE n == Len(q)
  <1>1. n \in Nat /\ DOMAIN q = 1..n /\ \A i \in 1..n : q[i] \in Seq(S)
    BY LenProperties, ElementOfSeq
  <1>2. Longer(q, x) = [i \in 1..n |-> IF i = n THEN Append(q[n], x) ELSE q[i]]
    <2> HIDE DEF n
    <2> SUFFICES q = [i \in 1..n |-> q[i]] /\ n = Len(q)
      BY <1>1 DEF Longer
    <2> QED BY <1>1 DEF n
  <1>3. \A i \in 1..n : (IF i = n THEN Append(q[n], x) ELSE q[i]) \in Seq(S)
    BY <1>1, AppendProperties
  <1> DEFINE f == Longer(q, x)
  <1> HIDE DEF n
  <1>4. f = [i \in 1..n |-> f[i]] /\ \A i \in 1..n : f[i] \in Seq(S)
    BY <1>2, <1>3
  <1> HIDE DEF f
  <1>5. f \in Seq(Seq(S))
    BY <1>1, <1>4, SeqFromFunction
  <1> QED BY <1>5 DEF f

\* What is put at the end of the last piece is put at the end of that piece.
LEMMA LongerAppend ==
  ASSUME NEW S, NEW q \in Seq(Seq(S)), NEW w \in Seq(S), NEW x \in S
  PROVE  Longer(Append(q, w), x) = Append(q, Append(w, x))
  <1> DEFINE n == Len(q)
             r == Append(q, w)
  <1>1. n \in Nat
    BY LenProperties
  <1>2. r \in Seq(Seq(S)) /\ Len(r) = n + 1 /\ DOMAIN r = 1..n + 1
        /\ r[n + 1] = w /\ \A i \in 1..n : r[i] = q[i]
    BY AppendProperties, LenProperties
  <1>3. Append(q, Append(w, x)) = [i \in 1..n + 1 |-> IF i = n + 1 THEN Append(w, x) ELSE q[i]]
    <2> DEFINE z == Append(q, Append(w, x))
    <2>1. z \in Seq(Seq(S)) /\ DOMAIN z = 1..n + 1
          /\ z[n + 1] = Append(w, x) /\ \A i \in 1..n : z[i] = q[i]
      BY AppendProperties, LenProperties
    <2> HIDE DEF z, n
    <2>2. z = [i \in 1..n + 1 |-> z[i]]
      BY <2>1, LenProperties
    <2> QED BY <1>1, <2>1, <2>2 DEF z
  <1> HIDE DEF n, r
  <1>4. Longer(r, x) = [i \in 1..n + 1 |-> IF i = n + 1 THEN Append(r[n + 1], x) ELSE r[i]]
    BY <1>2, LenProperties DEF Longer
  <1>5. \A i \in 1..n + 1 : i # n + 1 => i \in 1..n
    BY <1>1
  <1>6. Longer(r, x) = [i \in 1..n + 1 |-> IF i = n + 1 THEN Append(w, x) ELSE q[i]]
    BY <1>2, <1>4, <1>5
  <1> QED BY <1>3, <1>6 DEF r

-----------------------------------------------------------------------------
(* Names of partitions.                                                     *)

\* f has the texts of the first values with the separator between them.
Joins(f, S, values, sep) ==
  /\ f \in [0..Len(values) -> Seq(S)]
  /\ f[0] = <<>>
  /\ \A k \in 1..Len(values) :
       f[k] = IF k = 1 THEN values[1] ELSE f[k - 1] \o sep \o values[k]

\* Names of partitions are made one value after the other.
LEMMA JoinDef ==
  ASSUME NEW S, NEW values \in Seq(Seq(S)), NEW sep \in Seq(S)
  PROVE  \E f : Joins(f, S, values, sep) /\ Join(values, sep) = f[Len(values)]
  <1> DEFINE n    == Len(values)
             Def(f) == f = [k \in 0..n |-> IF k = 0 THEN <<>>
                                           ELSE IF k = 1 THEN values[1]
                                           ELSE f[k - 1] \o sep \o values[k]]
             join == CHOOSE f : Def(f)
             G    == [k \in 1..n |-> [w \in Seq(S) |->
                        IF k = 1 THEN values[1] ELSE w \o sep \o values[k]]]
  <1>1. n \in Nat /\ \A k \in 1..n : values[k] \in Seq(S)
    BY LenProperties, ElementOfSeq
  <1>2. \A k \in 1..n, w \in Seq(S) : w \o sep \o values[k] \in Seq(S)
    <2> SUFFICES ASSUME NEW k \in 1..n, NEW w \in Seq(S) PROVE w \o sep \o values[k] \in Seq(S)
      OBVIOUS
    <2>1. w \o sep \in Seq(S) /\ values[k] \in Seq(S)
      BY <1>1, ConcatProperties
    <2> QED BY <2>1, ConcatProperties
  <1>3. G \in [1..n -> [Seq(S) -> Seq(S)]]
    <2> HIDE DEF n
    <2> QED BY <1>1, <1>2
  <1>4. \E f : Def(f)
    <2>1. <<>> \in Seq(S)
      OBVIOUS
    <2>2. PICK f : Recursive(f, n, Seq(S), <<>>, G)
      <3> HIDE DEF n, G
      <3> QED BY <1>1, <1>3, <2>1, Recursion
    <2>0. f \in [0..n -> Seq(S)] /\ f[0] = <<>> /\ \A i \in 1..n : f[i] = G[i][f[i - 1]]
      BY <2>2 DEF Recursive
    <2>3. \A i \in 0..n : i # 0 => i \in 1..n /\ i - 1 \in 0..n
      BY <1>1
    <2>4. \A i \in 0..n : i # 0 =>
            G[i][f[i - 1]] = IF i = 1 THEN values[1] ELSE f[i - 1] \o sep \o values[i]
      <3> HIDE DEF n
      <3> QED BY <2>0, <2>3
    <2>5. \A i \in 0..n : f[i] = IF i = 0 THEN <<>> ELSE IF i = 1 THEN values[1]
                                                     ELSE f[i - 1] \o sep \o values[i]
      <3> HIDE DEF n, G
      <3> QED BY <2>0, <2>3, <2>4
    <2>6. f = [i \in 0..n |-> IF i = 0 THEN <<>> ELSE IF i = 1 THEN values[1]
                                                ELSE f[i - 1] \o sep \o values[i]]
      <3> HIDE DEF n, G
      <3> QED BY <2>0, <2>5
    <2> QED BY <2>6
  <1>5. Def(join)
    <2> HIDE DEF Def
    <2> QED BY <1>4
  <1>6. Join(values, sep) = join[n]
    BY DEF Join
  <1> HIDE DEF join, n
  <1>7. \A k \in 1..n : join[k] = IF k = 1 THEN values[1] ELSE join[k - 1] \o sep \o values[k]
    <2>1. \A k \in 0..n : join[k] = IF k = 0 THEN <<>>
                                    ELSE IF k = 1 THEN values[1]
                                    ELSE join[k - 1] \o sep \o values[k]
      BY <1>5, Zenon
    <2>2. \A k \in 1..n : k \in 0..n /\ k # 0
      BY <1>1
    <2> QED BY <2>1, <2>2
  <1>8. join[0] = <<>>
    BY <1>1, <1>5
  <1>9. \A k \in 0..n : join[k] \in Seq(S)
    <2>1. \A k \in 1..n : join[k - 1] \in Seq(S) => join[k] \in Seq(S)
      BY <1>1, <1>2, <1>7
    <2>2. join[0] \in Seq(S)
      BY <1>8
    <2> QED BY <1>1, <2>1, <2>2, StaysIn
  <1>10. join \in [0..n -> Seq(S)]
    BY <1>5, <1>9
  <1>11. Joins(join, S, values, sep)
    BY <1>7, <1>8, <1>10 DEF Joins, n
  <1> QED BY <1>6, <1>11 DEF n

\* t has the tokens of the beginnings of a text, up to each of its symbols.
Tokenizes(t, S, text, cuts) ==
  /\ t \in [0..Len(text) -> Seq(Seq(S))]
  /\ t[0] = <<>>
  /\ \A i \in 1..Len(text) :
       t[i] = IF text[i] \in cuts THEN t[i - 1]
              ELSE IF i > 1 /\ text[i - 1] \notin cuts THEN Longer(t[i - 1], text[i])
              ELSE Append(t[i - 1], <<text[i]>>)

\* The tokenizer goes through a text symbol by symbol.
LEMMA TokensDef ==
  ASSUME NEW S, NEW text \in Seq(S)
  PROVE  \E t : Tokenizes(t, S, text, ToSet(schema.separator)) /\ Tokens(text) = t[Len(text)]
  <1> DEFINE n    == Len(text)
             cuts == ToSet(schema.separator)
             Body(i, p) == IF text[i] \in cuts THEN p
                           ELSE IF i > 1 /\ text[i - 1] \notin cuts THEN Longer(p, text[i])
                           ELSE Append(p, <<text[i]>>)
             Def(f) == f = [i \in 0..n |-> IF i = 0 THEN <<>>
                              ELSE IF text[i] \in cuts THEN f[i - 1]
                              ELSE IF i > 1 /\ text[i - 1] \notin cuts THEN Longer(f[i - 1], text[i])
                              ELSE Append(f[i - 1], <<text[i]>>)]
             tokens == CHOOSE f : Def(f)
             G == [i \in 1..n |-> [p \in Seq(Seq(S)) |-> Body(i, p)]]
  <1>1. n \in Nat /\ \A k \in 1..n : text[k] \in S
    BY LenProperties, ElementOfSeq
  <1>2. \A i \in 1..n, p \in Seq(Seq(S)) : Body(i, p) \in Seq(Seq(S))
    <2> SUFFICES ASSUME NEW i \in 1..n, NEW p \in Seq(Seq(S)) PROVE Body(i, p) \in Seq(Seq(S))
      OBVIOUS
    <2>1. <<text[i]>> \in Seq(S) /\ text[i] \in S
      BY <1>1
    <2>2. Append(p, <<text[i]>>) \in Seq(Seq(S))
      BY <2>1, AppendProperties
    <2>3. Longer(p, text[i]) \in Seq(Seq(S))
      BY <2>1, LongerType
    <2> QED BY <2>2, <2>3
  <1>3. G \in [1..n -> [Seq(Seq(S)) -> Seq(Seq(S))]]
    <2> HIDE DEF n, Body
    <2> QED BY <1>2
  <1>4. \E f : Def(f)
    <2>1. <<>> \in Seq(Seq(S))
      OBVIOUS
    <2>2. PICK f : Recursive(f, n, Seq(Seq(S)), <<>>, G)
      <3> HIDE DEF n, G
      <3> QED BY <1>1, <1>3, <2>1, Recursion
    <2>0. f \in [0..n -> Seq(Seq(S))] /\ f[0] = <<>> /\ \A i \in 1..n : f[i] = G[i][f[i - 1]]
      BY <2>2 DEF Recursive
    <2>3. \A i \in 0..n : i # 0 => i \in 1..n /\ i - 1 \in 0..n
      BY <1>1
    <2>4. \A i \in 0..n : i # 0 => G[i][f[i - 1]] = Body(i, f[i - 1])
      <3> HIDE DEF n, Body
      <3> QED BY <2>0, <2>3
    <2>5. f = [i \in 0..n |-> IF i = 0 THEN <<>> ELSE Body(i, f[i - 1])]
      <3>1. \A i \in 0..n : f[i] = IF i = 0 THEN <<>> ELSE Body(i, f[i - 1])
        <4> HIDE DEF n, G, Body
        <4> QED BY <2>0, <2>3, <2>4
      <3> HIDE DEF n, G, Body
      <3> QED BY <2>0, <3>1
    <2> QED BY <2>5
  <1>5. Def(tokens)
    <2> HIDE DEF Def
    <2> QED BY <1>4
  <1>6. Tokens(text) = tokens[n]
    BY DEF Tokens
  <1> HIDE DEF tokens, n
  <1>7. tokens[0] = <<>> /\ \A i \in 1..n : tokens[i] = Body(i, tokens[i - 1])
    <2>1. \A i \in 0..n : tokens[i] = IF i = 0 THEN <<>> ELSE Body(i, tokens[i - 1])
      BY <1>5, Zenon
    <2>2. 0 \in 0..n /\ \A i \in 1..n : i \in 0..n /\ i # 0
      BY <1>1
    <2> HIDE DEF Body
    <2> QED BY <2>1, <2>2, Zenon
  <1>8. \A i \in 0..n : tokens[i] \in Seq(Seq(S))
    <2>1. \A i \in 1..n : tokens[i - 1] \in Seq(Seq(S)) => tokens[i] \in Seq(Seq(S))
      <3> HIDE DEF Body
      <3> QED BY <1>2, <1>7
    <2>2. tokens[0] \in Seq(Seq(S))
      BY <1>7
    <2> QED BY <1>1, <2>1, <2>2, StaysIn
  <1>9. tokens \in [0..n -> Seq(Seq(S))]
    BY <1>5, <1>8
  <1>10. Tokenizes(tokens, S, text, cuts)
    BY <1>7, <1>9 DEF Tokenizes, n
  <1> HIDE DEF Body, Def
  <1> QED BY <1>6, <1>10 DEF n

\* t has the pieces of them.
Cuts(t, S, text, cuts) ==
  /\ t \in [0..Len(text) -> Seq(Seq(S))]
  /\ t[0] = << <<>> >>
  /\ \A i \in 1..Len(text) :
       t[i] = IF text[i] \in cuts THEN Append(t[i - 1], <<>>) ELSE Longer(t[i - 1], text[i])

\* And so does strsplit.
LEMMA PiecesDef ==
  ASSUME NEW S, NEW text \in Seq(S), NEW cuts
  PROVE  \E t : Cuts(t, S, text, cuts) /\ Pieces(text, cuts) = t[Len(text)]
  <1> DEFINE n    == Len(text)
             Body(i, p) == IF text[i] \in cuts THEN Append(p, <<>>) ELSE Longer(p, text[i])
             Def(f) == f = [i \in 0..n |-> IF i = 0 THEN << <<>> >>
                              ELSE IF text[i] \in cuts THEN Append(f[i - 1], <<>>)
                              ELSE Longer(f[i - 1], text[i])]
             pieces == CHOOSE f : Def(f)
             G == [i \in 1..n |-> [p \in Seq(Seq(S)) |-> Body(i, p)]]
  <1>1. n \in Nat /\ \A k \in 1..n : text[k] \in S
    BY LenProperties, ElementOfSeq
  <1>2. \A i \in 1..n, p \in Seq(Seq(S)) : Body(i, p) \in Seq(Seq(S))
    <2> SUFFICES ASSUME NEW i \in 1..n, NEW p \in Seq(Seq(S)) PROVE Body(i, p) \in Seq(Seq(S))
      OBVIOUS
    <2>1. <<>> \in Seq(S) /\ text[i] \in S
      BY <1>1
    <2>2. Append(p, <<>>) \in Seq(Seq(S))
      BY <2>1, AppendProperties
    <2>3. Longer(p, text[i]) \in Seq(Seq(S))
      BY <2>1, LongerType
    <2> QED BY <2>2, <2>3
  <1>3. G \in [1..n -> [Seq(Seq(S)) -> Seq(Seq(S))]]
    <2> HIDE DEF n, Body
    <2> QED BY <1>2
  <1>0. << <<>> >> \in Seq(Seq(S))
    OBVIOUS
  <1>4. \E f : Def(f)
    <2>2. PICK f : Recursive(f, n, Seq(Seq(S)), << <<>> >>, G)
      <3> HIDE DEF n, G
      <3> QED BY <1>0, <1>1, <1>3, Recursion
    <2>0. f \in [0..n -> Seq(Seq(S))] /\ f[0] = << <<>> >> /\ \A i \in 1..n : f[i] = G[i][f[i - 1]]
      BY <2>2 DEF Recursive
    <2>3. \A i \in 0..n : i # 0 => i \in 1..n /\ i - 1 \in 0..n
      BY <1>1
    <2>4. \A i \in 0..n : i # 0 => G[i][f[i - 1]] = Body(i, f[i - 1])
      <3> HIDE DEF n, Body
      <3> QED BY <2>0, <2>3
    <2>5. f = [i \in 0..n |-> IF i = 0 THEN << <<>> >> ELSE Body(i, f[i - 1])]
      <3>1. \A i \in 0..n : f[i] = IF i = 0 THEN << <<>> >> ELSE Body(i, f[i - 1])
        <4> HIDE DEF n, G, Body
        <4> QED BY <2>0, <2>3, <2>4
      <3> HIDE DEF n, G, Body
      <3> QED BY <2>0, <3>1
    <2> QED BY <2>5
  <1>5. Def(pieces)
    <2> HIDE DEF Def
    <2> QED BY <1>4
  <1>6. Pieces(text, cuts) = pieces[n]
    BY DEF Pieces
  <1> HIDE DEF pieces, n
  <1>7. pieces[0] = << <<>> >> /\ \A i \in 1..n : pieces[i] = Body(i, pieces[i - 1])
    <2>1. \A i \in 0..n : pieces[i] = IF i = 0 THEN << <<>> >> ELSE Body(i, pieces[i - 1])
      BY <1>5, Zenon
    <2>2. 0 \in 0..n /\ \A i \in 1..n : i \in 0..n /\ i # 0
      BY <1>1
    <2> HIDE DEF Body
    <2> QED BY <2>1, <2>2, Zenon
  <1>8. \A i \in 0..n : pieces[i] \in Seq(Seq(S))
    <2>1. \A i \in 1..n : pieces[i - 1] \in Seq(Seq(S)) => pieces[i] \in Seq(Seq(S))
      <3> HIDE DEF Body
      <3> QED BY <1>2, <1>7
    <2>2. pieces[0] \in Seq(Seq(S))
      BY <1>0, <1>7
    <2> QED BY <1>1, <2>1, <2>2, StaysIn
  <1>9. pieces \in [0..n -> Seq(Seq(S))]
    BY <1>5, <1>8
  <1>10. Cuts(pieces, S, text, cuts)
    BY <1>7, <1>9 DEF Cuts, n
  <1> HIDE DEF Body, Def
  <1> QED BY <1>6, <1>10 DEF n

\* What has been put together stays at its place.
LEMMA JoinPrefix ==
  ASSUME NEW S, NEW values \in Seq(Seq(S)), NEW sep \in Seq(S), NEW f, Joins(f, S, values, sep)
  PROVE  \A k \in 0..Len(values) : \A j \in 0..k :
           Len(f[j]) =< Len(f[k]) /\ \A i \in 1..Len(f[j]) : f[k][i] = f[j][i]
  <1> DEFINE n == Len(values)
             Prefix(j, k) == Len(f[j]) =< Len(f[k]) /\ \A i \in 1..Len(f[j]) : f[k][i] = f[j][i]
             T == {m \in Nat : m =< n => \A j \in 0..m : Prefix(j, m)}
  <1>1. n \in Nat /\ \A k \in 1..n : values[k] \in Seq(S)
    BY LenProperties, ElementOfSeq
  <1>0. /\ f \in [0..n -> Seq(S)] /\ f[0] = <<>>
        /\ \A k \in 1..n : f[k] = IF k = 1 THEN values[1] ELSE f[k - 1] \o sep \o values[k]
    BY DEF Joins
  <1>2. \A k \in 0..n : f[k] \in Seq(S) /\ Len(f[k]) \in Nat
    BY <1>0, LenProperties
  <1>3. 0 \in T
    <2>1. \A j \in 0..0 : j = 0
      OBVIOUS
    <2>2. Prefix(0, 0)
      BY <1>2
    <2> HIDE DEF Prefix
    <2> QED BY <2>1, <2>2
  <1>4. ASSUME NEW m \in Nat, m \in T PROVE m + 1 \in T
    <2> SUFFICES ASSUME m + 1 =< n, NEW j \in 0..m + 1 PROVE Prefix(j, m + 1)
      OBVIOUS
    <2>1. m \in 0..n /\ m + 1 \in 1..n /\ m + 1 \in 0..n /\ (m + 1) - 1 = m
      BY <1>1
    <2>2. f[m + 1] \in Seq(S) /\ f[m] \in Seq(S) /\ Len(f[m]) \in Nat /\ Len(f[m + 1]) \in Nat
      BY <1>2, <2>1
    <2>3. Prefix(m, m + 1)
      <3>1. CASE m = 0
        <4>1. Len(f[m]) = 0
          BY <1>0, <3>1
        <4> QED BY <2>2, <4>1
      <3>2. CASE m # 0
        <4> DEFINE u == f[m] \o sep
                   v == values[m + 1]
        <4>1. f[m + 1] = u \o v
          <5>1. f[m + 1] = IF m + 1 = 1 THEN values[1]
                           ELSE f[(m + 1) - 1] \o sep \o values[m + 1]
            BY <1>0, <2>1, Zenon
          <5>2. m + 1 # 1
            BY <3>2
          <5> QED BY <2>1, <5>1, <5>2
        <4>2. /\ u \in Seq(S) /\ Len(u) = Len(f[m]) + Len(sep) /\ Len(sep) \in Nat
              /\ \A i \in 1..Len(f[m]) : u[i] = f[m][i]
          BY <2>2, ConcatProperties, LenProperties
        <4>3. v \in Seq(S) /\ Len(v) \in Nat
          BY <1>1, <2>1, LenProperties
        <4> HIDE DEF u, v
        <4>4. Len(f[m + 1]) = Len(u) + Len(v) /\ \A i \in 1..Len(u) : f[m + 1][i] = u[i]
          <5>1. Len(u \o v) = Len(u) + Len(v) /\ \A i \in 1..Len(u) : (u \o v)[i] = u[i]
            <6>1. u \in Seq(S) /\ v \in Seq(S)
              BY <4>2, <4>3
            <6> QED BY <6>1, ConcatProperties
          <5> QED BY <4>1, <5>1
        <4>5. \A i \in 1..Len(f[m]) : i \in 1..Len(u)
          BY <2>2, <4>2
        <4>6. Len(f[m]) =< Len(f[m + 1])
          BY <2>2, <4>2, <4>3, <4>4
        <4> QED BY <4>2, <4>4, <4>5, <4>6
      <3> QED BY <3>1, <3>2
    <2>4. CASE j = m + 1
      BY <2>2, <2>4
    <2>5. CASE j # m + 1
      <3>1. j \in 0..m /\ j \in 0..n
        BY <2>1, <2>5
      <3>2. Prefix(j, m)
        <4> HIDE DEF Prefix
        <4> QED BY <1>4, <2>1, <3>1
      <3>3. Len(f[j]) \in Nat
        BY <1>2, <3>1
      <3> QED BY <2>2, <2>3, <3>2, <3>3
    <2> QED BY <2>4, <2>5
  <1>5. Nat \subseteq T
    <2> HIDE DEF T
    <2>1. T \subseteq Nat
      BY DEF T
    <2> QED BY <1>3, <1>4, <2>1, NatSetInduction
  <1>6. \A k \in 0..n : \A j \in 0..k : Prefix(j, k)
    <2> HIDE DEF Prefix
    <2>1. \A k \in 0..n : k \in T
      BY <1>5
    <2> QED BY <2>1
  <1> QED BY <1>6

\* After a symbols of a text there are m that separate; and there are those of
\* v, none of which does, after one that does or at the beginning.
CutsAt(text, cuts, a, m) ==
  a + m =< Len(text) /\ \A i \in 1..m : text[a + i] \in cuts

TokenAt(text, cuts, a, v) ==
  /\ a + Len(v) =< Len(text)
  /\ \A i \in 1..Len(v) : text[a + i] = v[i] /\ v[i] \notin cuts
  /\ a = 0 \/ text[a] \in cuts

\* Symbols that separate add nothing.
LEMMA CutRun ==
  ASSUME NEW S, NEW text \in Seq(S), NEW t, NEW cuts, Tokenizes(t, S, text, cuts),
         NEW a \in Nat, NEW m \in Nat, CutsAt(text, cuts, a, m)
  PROVE  t[a + m] = t[a]
  <1> DEFINE T == {k \in Nat : k =< m => t[a + k] = t[a]}
  <1>0. Len(text) \in Nat
    BY LenProperties
  <1>4. a + m =< Len(text) /\ \A i \in 1..m : text[a + i] \in cuts
    BY DEF CutsAt
  <1>1. 0 \in T
    OBVIOUS
  <1>2. ASSUME NEW k \in Nat, k \in T PROVE k + 1 \in T
    <2> SUFFICES ASSUME k + 1 =< m PROVE t[a + (k + 1)] = t[a]
      OBVIOUS
    <2>1. k + 1 \in 1..m /\ a + (k + 1) \in 1..Len(text) /\ (a + (k + 1)) - 1 = a + k
      BY <1>0, <1>4
    <2>2. t[a + (k + 1)] = t[a + k]
      <3>1. text[a + (k + 1)] \in cuts
        BY <1>4, <2>1
      <3> QED BY <2>1, <3>1 DEF Tokenizes
    <2> QED BY <1>2, <2>2
  <1>3. Nat \subseteq T
    <2> HIDE DEF T
    <2>1. T \subseteq Nat
      BY DEF T
    <2> QED BY <1>1, <1>2, <2>1, NatSetInduction
  <1> QED BY <1>3

\* Symbols that do not are a token.
LEMMA TokenRun ==
  ASSUME NEW S, NEW text \in Seq(S), NEW t, NEW cuts, Tokenizes(t, S, text, cuts),
         NEW a \in Nat, NEW v \in Seq(S), v # <<>>, TokenAt(text, cuts, a, v)
  PROVE  t[a + Len(v)] = Append(t[a], v)
  <1> DEFINE n == Len(v)
             Cut(k) == [i \in 1..k |-> v[i]]
             T == {k \in Nat : k + 1 =< n => t[a + (k + 1)] = Append(t[a], Cut(k + 1))}
  <1>9. /\ a + n =< Len(text)
        /\ \A i \in 1..n : text[a + i] = v[i] /\ v[i] \notin cuts
        /\ a = 0 \/ text[a] \in cuts
    BY DEF TokenAt
  <1>1. n \in Nat \ {0} /\ Len(text) \in Nat /\ \A i \in 1..n : v[i] \in S
    <2>1. n # 0
      BY EmptySeq
    <2> QED BY <2>1, LenProperties, ElementOfSeq
  <1>0. t[a] \in Seq(Seq(S))
    <2>1. a \in 0..Len(text)
      BY <1>1, <1>9
    <2> QED BY <2>1 DEF Tokenizes
  <1>2. \A k \in 0..n : Cut(k) \in Seq(S) /\ Len(Cut(k)) = k /\ DOMAIN Cut(k) = 1..k
    <2> SUFFICES ASSUME NEW k \in 0..n PROVE Cut(k) \in Seq(S) /\ Len(Cut(k)) = k /\ DOMAIN Cut(k) = 1..k
      OBVIOUS
    <2> DEFINE f == Cut(k)
    <2>1. f = [i \in 1..k |-> f[i]] /\ \A i \in 1..k : f[i] \in S
      BY <1>1
    <2> HIDE DEF f
    <2> QED BY <2>1, SeqFromFunction DEF f
  <1>3. 0 \in T
    <2> SUFFICES ASSUME 1 =< n PROVE t[a + 1] = Append(t[a], Cut(1))
      OBVIOUS
    <2>1. 1 \in 1..n /\ a + 1 \in 1..Len(text) /\ (a + 1) - 1 = a
      BY <1>1, <1>9
    <2>2. text[a + 1] = v[1] /\ text[a + 1] \notin cuts
      BY <1>9, <2>1
    <2>3. a + 1 > 1 <=> a # 0
      OBVIOUS
    <2>4. t[a + 1] = Append(t[a], <<v[1]>>)
      <3> DEFINE j == a + 1
      <3>1. a = 0 => ~(j > 1)
        OBVIOUS
      <3>2. a # 0 => text[j - 1] \in cuts
        BY <1>9, <2>1
      <3> HIDE DEF j
      <3>3. t[j] = Append(t[j - 1], <<text[j]>>)
        BY <2>1, <2>2, <3>1, <3>2 DEF Tokenizes, j
      <3> QED BY <2>1, <2>2, <3>3 DEF j
    <2>5. <<v[1]>> = Cut(1)
      OBVIOUS
    <2> QED BY <2>4, <2>5
  <1>4. ASSUME NEW k \in Nat, k \in T PROVE k + 1 \in T
    <2> SUFFICES ASSUME (k + 1) + 1 =< n PROVE t[a + ((k + 1) + 1)] = Append(t[a], Cut((k + 1) + 1))
      OBVIOUS
    <2> DEFINE m == k + 1
               j == a + (m + 1)
    <2>1. /\ m \in 1..n /\ m \in 0..n /\ m + 1 \in 1..n /\ j \in 1..Len(text)
          /\ j - 1 = a + m /\ j > 1
      BY <1>1, <1>9
    <2>2. text[j] = v[m + 1] /\ text[j] \notin cuts /\ text[j - 1] \notin cuts /\ v[m + 1] \in S
      <3>1. text[a + m] = v[m] /\ v[m] \notin cuts
        BY <1>9, <2>1
      <3>2. text[a + (m + 1)] = v[m + 1] /\ v[m + 1] \notin cuts
        BY <1>9, <2>1
      <3> QED BY <1>1, <2>1, <3>1, <3>2
    <2>3. t[j] = Longer(t[j - 1], text[j])
      <3> HIDE DEF j
      <3> QED BY <2>1, <2>2 DEF Tokenizes
    <2>4. t[j - 1] = Append(t[a], Cut(m))
      <3>1. k + 1 =< n
        BY <2>1
      <3>2. t[a + (k + 1)] = Append(t[a], Cut(k + 1))
        BY <1>4, <3>1
      <3> QED BY <2>1, <3>2
    <2>5. t[j] = Append(t[a], Append(Cut(m), v[m + 1]))
      <3>1. Cut(m) \in Seq(S)
        BY <1>2, <2>1
      <3> DEFINE c == Cut(m)
                 x == v[m + 1]
                 q == t[a]
      <3>2. x \in S /\ c \in Seq(S) /\ text[j] = x /\ q \in Seq(Seq(S))
        BY <1>0, <2>2, <3>1
      <3>3. t[j - 1] = Append(q, c)
        BY <2>4
      <3> HIDE DEF c, x, q
      <3>4. Longer(Append(q, c), x) = Append(q, Append(c, x))
        BY <3>2, LongerAppend
      <3>5. t[j] = Append(q, Append(c, x))
        <4> HIDE DEF j
        <4> QED BY <2>3, <3>2, <3>3, <3>4
      <3> QED BY <3>5 DEF c, x, q
    <2>6. Append(Cut(m), v[m + 1]) = Cut(m + 1)
      <3> DEFINE c == Cut(m)
                 x == v[m + 1]
                 d == Append(c, x)
      <3>1. c \in Seq(S) /\ Len(c) = m /\ \A i \in 1..m : c[i] = v[i]
        BY <1>2, <2>1
      <3>2. m \in Nat /\ x \in S
        BY <2>2
      <3> HIDE DEF c, m, x
      <3>3. d \in Seq(S) /\ DOMAIN d = 1..m + 1 /\ d[m + 1] = x /\ \A i \in 1..m : d[i] = v[i]
        <4>1. d \in Seq(S) /\ Len(d) = Len(c) + 1 /\ d[Len(c) + 1] = x /\ \A i \in 1..Len(c) : d[i] = c[i]
          BY <3>1, <3>2, AppendProperties
        <4>2. DOMAIN d = 1..Len(d)
          BY <4>1, LenProperties
        <4> HIDE DEF d
        <4> QED BY <3>1, <4>1, <4>2
      <3> HIDE DEF d
      <3>4. d = [i \in 1..m + 1 |-> d[i]]
        BY <3>3, LenProperties
      <3>5. \A i \in 1..m + 1 : d[i] = v[i]
        BY <3>2, <3>3 DEF x
      <3>6. d = Cut(m + 1)
        BY <3>4, <3>5
      <3> QED BY <3>6 DEF d, c, x
    <2> QED BY <2>5, <2>6
  <1>5. Nat \subseteq T
    <2> HIDE DEF T
    <2>1. T \subseteq Nat
      BY DEF T
    <2> QED BY <1>3, <1>4, <2>1, NatSetInduction
  <1>6. n - 1 \in Nat /\ (n - 1) + 1 = n
    BY <1>1
  <1>7. t[a + n] = Append(t[a], Cut(n))
    <2>1. n - 1 \in T
      BY <1>5, <1>6
    <2>2. (n - 1) + 1 =< n => t[a + ((n - 1) + 1)] = Append(t[a], Cut((n - 1) + 1))
      BY <2>1
    <2> HIDE DEF n, Cut
    <2> QED BY <1>1, <1>6, <2>2
  <1>8. Cut(n) = v
    BY <1>1, LenProperties
  <1> QED BY <1>7, <1>8

\* Two symbols are one and one more.
LEMMA AppendToOne ==
  ASSUME NEW S, NEW x \in S, NEW y \in S
  PROVE  Append(<<x>>, y) = <<x, y>>
  <1> DEFINE o == <<x>>
             d == Append(o, y)
  <1>1. o \in Seq(S) /\ Len(o) = 1 /\ o[1] = x
    OBVIOUS
  <1> HIDE DEF o
  <1>7. d \in Seq(S) /\ Len(d) = Len(o) + 1 /\ d[Len(o) + 1] = y /\ \A i \in 1..Len(o) : d[i] = o[i]
    <2>1. o \in Seq(S) /\ y \in S
      BY <1>1
    <2> QED BY <2>1, AppendProperties
  <1>2. d \in Seq(S) /\ Len(d) = 2 /\ d[2] = y /\ d[1] = x
    BY <1>1, <1>7
  <1> HIDE DEF d
  <1>3. DOMAIN d = 1..2 /\ d = [i \in 1..2 |-> d[i]]
    BY <1>2, LenProperties
  <1>4. \A i \in 1..2 : d[i] = <<x, y>>[i]
    BY <1>2
  <1>5. <<x, y>> = [i \in 1..2 |-> <<x, y>>[i]]
    OBVIOUS
  <1>6. d = <<x, y>>
    BY <1>3, <1>4, <1>5
  <1> QED BY <1>6 DEF d, o

\* The tokens of a name are the values it was made from, when none of them is
\* empty or has a symbol of the separator in it.
LEMMA TokensOfJoin ==
  ASSUME NEW S, schema.separator \in Seq(S), schema.separator # <<>>,
         NEW values \in Seq(Seq(S)), \A value \in Range(values) : Plain(value)
  PROVE  Tokens(Join(values, schema.separator)) = values
  <1> DEFINE n    == Len(values)
             sep  == schema.separator
             text == Join(values, sep)
             cuts == ToSet(sep)
             Cut(k) == [j \in 1..k |-> values[j]]
  <1>1. n \in Nat /\ DOMAIN values = 1..n /\ \A k \in 1..n : values[k] \in Seq(S)
    BY LenProperties, ElementOfSeq
  <1>0. PICK f : Joins(f, S, values, sep) /\ text = f[n]
    BY JoinDef
  <1>2. /\ f \in [0..n -> Seq(S)] /\ f[0] = <<>>
        /\ \A k \in 1..n : f[k] = IF k = 1 THEN values[1] ELSE f[k - 1] \o sep \o values[k]
    BY <1>0 DEF Joins
  <1>3. text \in Seq(S) /\ n \in 0..n
    <2> HIDE DEF text
    <2> QED BY <1>0, <1>1, <1>2
  <1>4. PICK t : Tokenizes(t, S, text, cuts) /\ Tokens(text) = t[Len(text)]
    <2> HIDE DEF text
    <2> QED BY <1>3, TokensDef
  <1>16. t \in [0..Len(text) -> Seq(Seq(S))] /\ t[0] = <<>>
    BY <1>4 DEF Tokenizes
  <1> HIDE DEF text
  <1>5. \A k \in 0..n : f[k] \in Seq(S) /\ Len(f[k]) \in Nat
    BY <1>2, LenProperties
  <1>6. Len(text) \in Nat /\ \A k \in 0..n : Len(f[k]) =< Len(text)
                             /\ \A i \in 1..Len(f[k]) : text[i] = f[k][i]
    <2>1. \A k \in 0..n : \A j \in 0..k :
            Len(f[j]) =< Len(f[k]) /\ \A i \in 1..Len(f[j]) : f[k][i] = f[j][i]
      BY <1>0, JoinPrefix
    <2>2. \A j \in 0..n : Len(f[j]) =< Len(f[n]) /\ \A i \in 1..Len(f[j]) : f[n][i] = f[j][i]
      BY <1>3, <2>1
    <2> QED BY <1>0, <1>3, <1>5, <2>2
  <1>7. \A k \in 1..n : /\ values[k] # <<>> /\ Len(values[k]) \in Nat
                        /\ \A i \in 1..Len(values[k]) : values[k][i] \notin cuts
    <2> SUFFICES ASSUME NEW k \in 1..n
                 PROVE  /\ values[k] # <<>> /\ Len(values[k]) \in Nat
                        /\ \A i \in 1..Len(values[k]) : values[k][i] \notin cuts
      OBVIOUS
    <2>1. Plain(values[k])
      BY <1>1 DEF Range
    <2>2. values[k] \in Seq(S) /\ Len(values[k]) \in Nat /\ DOMAIN values[k] = 1..Len(values[k])
      BY <1>1, LenProperties
    <2>3. \A i \in 1..Len(values[k]) : values[k][i] \in ToSet(values[k])
      BY <2>2 DEF ToSet
    <2>4. ToSet(values[k]) \cap cuts = {}
      BY <2>1 DEF Plain
    <2> QED BY <2>1, <2>2, <2>3, <2>4 DEF Plain
  <1>8. \A k \in 0..n : Cut(k) \in Seq(Seq(S)) /\ Len(Cut(k)) = k
    <2> SUFFICES ASSUME NEW k \in 0..n PROVE Cut(k) \in Seq(Seq(S)) /\ Len(Cut(k)) = k
      OBVIOUS
    <2> DEFINE c == Cut(k)
    <2>1. c = [i \in 1..k |-> c[i]] /\ \A i \in 1..k : c[i] \in Seq(S)
      BY <1>1
    <2> HIDE DEF c
    <2>2. k \in Nat
      BY <1>0
    <2>3. c \in Seq(Seq(S)) /\ Len(c) = k
      BY <2>1, <2>2, SeqFromFunction
    <2> QED BY <2>3 DEF c
  <1>9. \A k \in 1..n : Append(Cut(k - 1), values[k]) = Cut(k)
    <2> SUFFICES ASSUME NEW k \in 1..n PROVE Append(Cut(k - 1), values[k]) = Cut(k)
      OBVIOUS
    <2> DEFINE c == Cut(k - 1)
               x == values[k]
               d == Append(c, x)
    <2>1. c \in Seq(Seq(S)) /\ Len(c) = k - 1 /\ \A i \in 1..k - 1 : c[i] = values[i]
      BY <1>1, <1>8
    <2>2. x \in Seq(S)
      BY <1>1
    <2> HIDE DEF c, x
    <2>3. d \in Seq(Seq(S)) /\ Len(d) = Len(c) + 1 /\ d[Len(c) + 1] = x /\ \A i \in 1..Len(c) : d[i] = c[i]
      BY <2>1, <2>2, AppendProperties
    <2>4. DOMAIN d = 1..Len(d) /\ d = [i \in 1..Len(d) |-> d[i]]
      BY <2>3, LenProperties
    <2> HIDE DEF d
    <2>5. Len(d) = k /\ \A i \in 1..k : d[i] = values[i]
      <3>1. Len(d) = k /\ d[k] = x
        BY <1>1, <2>1, <2>3
      <3>2. \A i \in 1..k - 1 : d[i] = values[i]
        BY <2>1, <2>3
      <3>3. \A i \in 1..k : i = k \/ i \in 1..k - 1
        BY <1>1
      <3> QED BY <3>1, <3>2, <3>3 DEF x
    <2>6. d = Cut(k)
      BY <2>4, <2>5
    <2> QED BY <2>6 DEF d, c, x
  <1>10. cuts = {sep[i] : i \in 1..Len(sep)} /\ Len(sep) \in Nat \ {0}
    <2>1. Len(sep) # 0
      BY EmptySeq
    <2> QED BY <2>1, LenProperties DEF ToSet
  <1> DEFINE T == {k \in Nat : k =< n => t[Len(f[k])] = Cut(k)}
  <1> HIDE DEF cuts
  <1>17. \A a, m \in Nat : CutsAt(text, cuts, a, m) => t[a + m] = t[a]
    BY <1>3, <1>4, CutRun
  <1>18. \A a \in Nat, v \in Seq(S) :
           v # <<>> /\ TokenAt(text, cuts, a, v) => t[a + Len(v)] = Append(t[a], v)
    BY <1>3, <1>4, TokenRun
  <1>11. 0 \in T
    <2>1. Len(f[0]) = 0
      BY <1>2
    <2>2. Cut(0) = <<>>
      OBVIOUS
    <2> QED BY <1>16, <2>1, <2>2
  <1>12. ASSUME NEW m \in Nat, m \in T PROVE m + 1 \in T
    <2> SUFFICES ASSUME m + 1 =< n PROVE t[Len(f[m + 1])] = Cut(m + 1)
      OBVIOUS
    <2> DEFINE k == m + 1
               v == values[k]
               w == f[m]
    <2>1. k \in 1..n /\ m \in 0..n /\ k \in 0..n /\ k - 1 = m
      BY <1>1
    <2>2. t[Len(w)] = Cut(m) /\ Cut(m) \in Seq(Seq(S))
      <3>1. m =< n => t[Len(f[m])] = Cut(m)
        BY <1>12
      <3> HIDE DEF Cut
      <3> QED BY <1>1, <1>8, <2>1, <3>1
    <2>3. v \in Seq(S) /\ v # <<>> /\ Len(v) \in Nat /\ \A i \in 1..Len(v) : v[i] \notin cuts
      BY <1>1, <1>7, <2>1
    <2>4. w \in Seq(S) /\ Len(w) \in Nat
      BY <1>5, <2>1
    <2>5. /\ f[k] \in Seq(S) /\ Len(f[k]) \in Nat /\ Len(f[k]) =< Len(text)
          /\ \A i \in 1..Len(f[k]) : text[i] = f[k][i]
      BY <1>5, <1>6, <2>1
    <2>6. f[k] = IF k = 1 THEN values[1] ELSE f[k - 1] \o sep \o values[k]
      BY <1>2, <2>1, Zenon
    <2>7. CASE k = 1
      <3>1. f[k] = v /\ Len(w) = 0
        BY <1>2, <2>1, <2>6, <2>7
      <3>2. t[0 + Len(v)] = Append(t[0], v)
        <4> DEFINE z == 0
        <4>1. z \in Nat /\ v \in Seq(S) /\ v # <<>> /\ text \in Seq(S)
          BY <1>3, <2>3
        <4>3. TokenAt(text, cuts, z, v)
          BY <2>3, <2>5, <3>1 DEF TokenAt
        <4> HIDE DEF v, z
        <4>2. t[z + Len(v)] = Append(t[z], v)
          BY <1>18, <4>1, <4>3
        <4> QED BY <4>2 DEF z
      <3>3. t[Len(f[k])] = Append(Cut(m), v)
        <4>1. 0 + Len(v) = Len(v)
          BY <2>3
        <4> QED BY <2>2, <3>1, <3>2, <4>1
      <3> QED BY <1>9, <2>1, <3>3
    <2>8. CASE k # 1
      <3> DEFINE u == w \o sep
                 a == Len(w) + Len(sep)
      <3>1. f[k] = u \o v
        BY <2>1, <2>6, <2>8
      <3>2. /\ u \in Seq(S) /\ Len(u) = a
            /\ \A i \in 1..Len(w) + Len(sep) : u[i] = IF i <= Len(w) THEN w[i] ELSE sep[i - Len(w)]
        <4> HIDE DEF w
        <4> QED BY <2>4, ConcatProperties
      <3> HIDE DEF u, v, w
      <3>3. /\ Len(f[k]) = a + Len(v)
            /\ \A i \in 1..a + Len(v) : f[k][i] = IF i <= a THEN u[i] ELSE v[i - a]
        <4>1. /\ Len(u \o v) = Len(u) + Len(v)
              /\ \A i \in 1..Len(u) + Len(v) : (u \o v)[i] = IF i <= Len(u) THEN u[i] ELSE v[i - Len(u)]
          <5>1. u \in Seq(S) /\ v \in Seq(S)
            BY <2>3, <3>2
          <5> QED BY <5>1, ConcatProperties
        <4> HIDE DEF a
        <4> QED BY <3>1, <3>2, <4>1
      <3>4. a \in Nat /\ a # 0 /\ a + Len(v) =< Len(text)
        BY <1>10, <2>4, <2>5, <3>3
      <3>5. \A i \in 1..Len(sep) : text[Len(w) + i] \in cuts
        <4> SUFFICES ASSUME NEW i \in 1..Len(sep) PROVE text[Len(w) + i] \in cuts
          OBVIOUS
        <4>1. Len(w) + i \in 1..a /\ Len(w) + i \in 1..a + Len(v) /\ ~(Len(w) + i <= Len(w))
              /\ (Len(w) + i) - Len(w) = i /\ Len(w) + i <= a
          BY <1>10, <2>3, <2>4
        <4>2. text[Len(w) + i] = f[k][Len(w) + i]
          BY <2>5, <3>3, <4>1
        <4>3. f[k][Len(w) + i] = u[Len(w) + i]
          BY <3>3, <4>1
        <4>4. u[Len(w) + i] = sep[i]
          BY <3>2, <4>1
        <4> QED BY <1>10, <4>2, <4>3, <4>4
      <3>6. t[a] = t[Len(w)]
        <4>1. Len(w) + Len(sep) =< Len(text) /\ Len(w) \in Nat /\ Len(sep) \in Nat
          BY <1>6, <1>10, <2>3, <2>4, <3>4
        <4> DEFINE b == Len(w)
                   m1 == Len(sep)
        <4>2. b \in Nat /\ m1 \in Nat /\ text \in Seq(S)
          BY <1>3, <4>1
        <4>4. CutsAt(text, cuts, b, m1)
          BY <3>5, <4>1 DEF CutsAt
        <4> HIDE DEF b, m1
        <4>3. t[b + m1] = t[b]
          BY <1>17, <4>2, <4>4
        <4> QED BY <4>3 DEF b, m1, a
      <3>7. text[a] \in cuts
        <4>1. Len(sep) \in 1..Len(sep)
          BY <1>10
        <4> QED BY <3>5, <4>1
      <3>8. \A i \in 1..Len(v) : text[a + i] = v[i] /\ v[i] \notin cuts
        <4> SUFFICES ASSUME NEW i \in 1..Len(v) PROVE text[a + i] = v[i]
          BY <2>3
        <4>1. a + i \in 1..a + Len(v) /\ ~(a + i <= a) /\ (a + i) - a = i
          BY <2>3, <3>4
        <4> HIDE DEF a
        <4> QED BY <2>5, <3>3, <4>1
      <3>9. t[a + Len(v)] = Append(t[a], v)
        <4>1. a \in Nat /\ v \in Seq(S) /\ v # <<>> /\ text \in Seq(S)
          BY <1>3, <2>3, <3>4
        <4>2. TokenAt(text, cuts, a, v)
          BY <3>4, <3>7, <3>8 DEF TokenAt
        <4> HIDE DEF a
        <4> QED BY <1>18, <4>1, <4>2
      <3>10. t[Len(f[k])] = Append(Cut(m), v)
        BY <2>2, <3>3, <3>6, <3>9
      <3> QED BY <1>9, <2>1, <3>10 DEF v
    <2> QED BY <2>7, <2>8
  <1>13. Nat \subseteq T
    <2> HIDE DEF T
    <2>1. T \subseteq Nat
      BY DEF T
    <2> QED BY <1>11, <1>12, <2>1, NatSetInduction
  <1>14. t[Len(f[n])] = Cut(n)
    BY <1>1, <1>13
  <1>15. Cut(n) = values
    BY <1>1, LenProperties
  <1> QED BY <1>0, <1>4, <1>14, <1>15 DEF text

\* strsplit at the colon that sdataframe_key has put in.
LEMMA PiecesOfKey ==
  ASSUME NEW S, NEW text \in Seq(S), NEW colon \in S, NEW s \in S, s # colon, colon \notin ToSet(text)
  PROVE  Pieces(text \o <<colon, s>>, {colon}) = <<text, <<s>> >>
  <1> DEFINE n   == Len(text)
             all == text \o <<colon, s>>
             Cut(k) == [j \in 1..k |-> text[j]]
  <1>1. n \in Nat /\ DOMAIN text = 1..n /\ \A i \in 1..n : text[i] \in S
    BY LenProperties, ElementOfSeq
  <1>2. all \in Seq(S) /\ Len(all) = n + 2 /\ all[n + 1] = colon /\ all[n + 2] = s
        /\ \A i \in 1..n : all[i] = text[i] /\ all[i] # colon
    <2> DEFINE w == <<colon, s>>
    <2>1. w \in Seq(S) /\ Len(w) = 2 /\ w[1] = colon /\ w[2] = s
      OBVIOUS
    <2> HIDE DEF w
    <2>2. text \o w \in Seq(S) /\ Len(text \o w) = Len(text) + Len(w)
          /\ \A i \in 1..Len(text) + Len(w) : (text \o w)[i] = IF i <= Len(text) THEN text[i] ELSE w[i - Len(text)]
      BY <2>1, ConcatProperties
    <2> DEFINE u == text \o w
    <2>3. all = u
      BY DEF w
    <2> HIDE DEF all, u
    <2>4. u \in Seq(S) /\ Len(u) = n + 2
          /\ \A i \in 1..n + 2 : u[i] = IF i <= n THEN text[i] ELSE w[i - n]
      BY <2>1, <2>2 DEF u
    <2> HIDE DEF n
    <2>5. u[n + 1] = colon /\ u[n + 2] = s /\ \A i \in 1..n : u[i] = text[i]
      <3>1. n + 1 \in 1..n + 2 /\ n + 2 \in 1..n + 2 /\ (n + 1) - n = 1 /\ (n + 2) - n = 2
            /\ ~(n + 1 <= n) /\ ~(n + 2 <= n) /\ \A i \in 1..n : i \in 1..n + 2 /\ i <= n
        BY <1>1
      <3> QED BY <2>1, <2>4, <3>1
    <2>6. \A i \in 1..n : text[i] # colon
      BY <1>1 DEF ToSet
    <2> QED BY <2>3, <2>4, <2>5, <2>6
  <1> HIDE DEF all
  <1>0. PICK t : Cuts(t, S, all, {colon}) /\ Pieces(all, {colon}) = t[Len(all)]
    BY <1>2, PiecesDef
  <1>3. /\ t[0] = << <<>> >>
        /\ \A i \in 1..Len(all) :
             t[i] = IF all[i] = colon THEN Append(t[i - 1], <<>>) ELSE Longer(t[i - 1], all[i])
    BY <1>0 DEF Cuts
  <1>4. \A k \in 0..n : Cut(k) \in Seq(S) /\ Len(Cut(k)) = k
    <2> SUFFICES ASSUME NEW k \in 0..n PROVE Cut(k) \in Seq(S) /\ Len(Cut(k)) = k
      OBVIOUS
    <2> DEFINE c == Cut(k)
    <2>1. c = [i \in 1..k |-> c[i]] /\ \A i \in 1..k : c[i] \in S
      BY <1>1
    <2> HIDE DEF c
    <2> QED BY <2>1, SeqFromFunction DEF c
  <1>5. \A w, x : w \in Seq(S) /\ x \in S => Longer(<<w>>, x) = <<Append(w, x)>>
    <2> SUFFICES ASSUME NEW w \in Seq(S), NEW x \in S PROVE Longer(<<w>>, x) = <<Append(w, x)>>
      OBVIOUS
    <2>1. <<>> \in Seq(Seq(S)) /\ Append(<<>>, w) = <<w>> /\ Append(<<>>, Append(w, x)) = <<Append(w, x)>>
      OBVIOUS
    <2> DEFINE q == <<>>
    <2>3. q \in Seq(Seq(S))
      BY <2>1
    <2> HIDE DEF q
    <2>4. Longer(Append(q, w), x) = Append(q, Append(w, x))
      BY <2>3, LongerAppend
    <2>2. Longer(Append(<<>>, w), x) = Append(<<>>, Append(w, x))
      BY <2>4 DEF q
    <2> QED BY <2>1, <2>2
  <1>6. \A k \in 0..n - 1 : Append(Cut(k), text[k + 1]) = Cut(k + 1)
    <2> SUFFICES ASSUME NEW k \in 0..n - 1 PROVE Append(Cut(k), text[k + 1]) = Cut(k + 1)
      OBVIOUS
    <2> DEFINE c == Cut(k)
               x == text[k + 1]
               d == Append(c, x)
    <2>1. c \in Seq(S) /\ Len(c) = k /\ \A i \in 1..k : c[i] = text[i]
      BY <1>1, <1>4
    <2>2. x \in S
      BY <1>1
    <2> HIDE DEF c, x
    <2>3. d \in Seq(S) /\ Len(d) = Len(c) + 1 /\ d[Len(c) + 1] = x /\ \A i \in 1..Len(c) : d[i] = c[i]
      BY <2>1, <2>2, AppendProperties
    <2>4. DOMAIN d = 1..Len(d) /\ d = [i \in 1..Len(d) |-> d[i]]
      BY <2>3, LenProperties
    <2> HIDE DEF d
    <2>5. Len(d) = k + 1 /\ \A i \in 1..k + 1 : d[i] = text[i]
      BY <1>1, <2>1, <2>3 DEF x
    <2>6. d = Cut(k + 1)
      BY <2>4, <2>5
    <2> QED BY <2>6 DEF d, c, x
  <1> DEFINE T == {k \in Nat : k =< n => t[k] = <<Cut(k)>>}
  <1>7. 0 \in T
    BY <1>3
  <1>8. ASSUME NEW k \in Nat, k \in T PROVE k + 1 \in T
    <2> SUFFICES ASSUME k + 1 =< n PROVE t[k + 1] = <<Cut(k + 1)>>
      OBVIOUS
    <2>1. k + 1 \in 1..n /\ k + 1 \in 1..Len(all) /\ (k + 1) - 1 = k /\ k \in 0..n - 1 /\ k \in 0..n
      BY <1>1, <1>2
    <2>2. t[k + 1] = Longer(t[k], all[k + 1]) /\ all[k + 1] = text[k + 1]
      BY <1>2, <1>3, <2>1
    <2>3. t[k] = <<Cut(k)>> /\ Cut(k) \in Seq(S) /\ text[k + 1] \in S
      BY <1>1, <1>4, <1>8, <2>1
    <2>4. Append(Cut(k), text[k + 1]) = Cut(k + 1)
      BY <1>6, <2>1
    <2> HIDE DEF Cut
    <2> QED BY <1>5, <2>2, <2>3, <2>4
  <1>9. Nat \subseteq T
    <2> HIDE DEF T
    <2>1. T \subseteq Nat
      BY DEF T
    <2> QED BY <1>7, <1>8, <2>1, NatSetInduction
  <1>10. t[n] = <<text>>
    <2>1. t[n] = <<Cut(n)>>
      BY <1>1, <1>9
    <2>2. Cut(n) = text
      BY <1>1, LenProperties
    <2> QED BY <2>1, <2>2
  <1>11. t[n + 1] = <<text, <<>> >>
    <2>1. n + 1 \in 1..Len(all) /\ (n + 1) - 1 = n
      BY <1>1, <1>2
    <2>2. t[n + 1] = Append(t[n], <<>>)
      BY <1>2, <1>3, <2>1
    <2>3. Append(<<text>>, <<>>) = <<text, <<>> >>
      <3> DEFINE e == <<>>
      <3>1. text \in Seq(S) /\ e \in Seq(S)
        OBVIOUS
      <3> HIDE DEF e
      <3>2. Append(<<text>>, e) = <<text, e>>
        BY <3>1, AppendToOne
      <3> QED BY <3>2 DEF e
    <2> QED BY <1>10, <2>2, <2>3
  <1>12. t[n + 2] = <<text, <<s>> >>
    <2>1. n + 2 \in 1..Len(all) /\ (n + 2) - 1 = n + 1
      BY <1>1, <1>2
    <2>2. t[n + 2] = Longer(t[n + 1], s)
      BY <1>2, <1>3, <2>1
    <2> DEFINE q == <<text>>
               e == <<>>
               o == <<s>>
    <2>3. q \in Seq(Seq(S)) /\ e \in Seq(S) /\ o \in Seq(S) /\ text \in Seq(S)
      OBVIOUS
    <2>5. Append(e, s) = <<s>>
      OBVIOUS
    <2> HIDE DEF e, o
    <2>4. Append(q, e) = <<text, e>>
      BY <2>3, AppendToOne
    <2>6. Append(q, o) = <<text, o>>
      BY <2>3, AppendToOne
    <2> HIDE DEF q
    <2>7. Longer(Append(q, e), s) = Append(q, Append(e, s))
      BY <2>3, LongerAppend
    <2> QED BY <1>11, <2>2, <2>4, <2>5, <2>6, <2>7 DEF e, o
  <1> QED BY <1>0, <1>2, <1>12 DEF all

-----------------------------------------------------------------------------
(* Rows of splits.                                                          *)

\* What is divided is the quotient times the divisor and a rest.
LEMMA Division ==
  ASSUME NEW a \in Nat, NEW d \in Nat \ {0}
  PROVE  /\ a \div d \in Nat
         /\ d * (a \div d) =< a
         /\ a < d * (a \div d) + d
         /\ d * (a \div d) \in Nat
OBVIOUS

\* A count that fits is not changed by the conversion.
LEMMA ToIntFits ==
  ASSUME NEW x \in Int, -IntMax =< x, x =< IntMax
  PROVE  ToInt(x) = x
  <1>1. IntMax \in Nat \ {0}
    BY IntMaxAssumption
  <1>2. x + IntMax + 1 \in 0..(2 * (IntMax + 1) - 1)
    BY <1>1
  <1>3. \A m \in Nat, y \in Nat : y < m => y % m = y
    OBVIOUS
  <1>4. (x + IntMax + 1) % (2 * (IntMax + 1)) = x + IntMax + 1
    BY <1>1, <1>2, <1>3
  <1>5. QED
    BY <1>1, <1>4 DEF ToInt

\* Split numbers on either side of a row count.
LEMMA Multiples ==
  ASSUME NEW d \in Nat \ {0}, NEW s \in Nat, NEW t \in Nat
  PROVE  /\ s < t => d * s + d =< d * t
         /\ s =< t => d * s =< d * t
         /\ d * (s + 1) = d * s + d
         /\ d * s \in Nat
         /\ s * d = d * s
OBVIOUS

\* The rows of a split that are counted are those of its file, if rows fit an int.
LEMMA RowsInSplitIsFile ==
  ASSUME NEW m \in Nat, m =< IntMax, NEW d \in Nat \ {0}, NEW s \in Nat
  PROVE  RowsInSplit(m, d, s) = FileRows(m, d, s)
  <1> DEFINE q == m \div d
  <1>1. /\ q \in Nat /\ d * q =< m /\ m < d * q + d /\ d * q \in Nat
    BY Division
  <1>2. ToInt(m) = m
    BY ToIntFits, IntMaxAssumption
  <1>3. Quot(m, d) = q /\ Rem(m, d) = m - d * q
    BY DEF Quot, Rem
  <1>4. RowsInSplit(m, d, s) = IF s > q THEN 0 ELSE IF s = q THEN m - d * q ELSE d
    BY <1>2, <1>3 DEF RowsInSplit
  <1> HIDE DEF q
  <1>5. s * d = d * s /\ (s + 1) * d = d * s + d /\ d * s \in Nat
    BY Multiples
  <1>6. FileRows(m, d, s) = IF m =< d * s THEN 0
                            ELSE IF m >= d * s + d THEN d ELSE m - d * s
    BY <1>5 DEF FileRows
  <1>7. CASE s > q
    <2>1. d * q + d =< d * s
      BY <1>1, <1>7, Multiples
    <2>2. m =< d * s
      BY <1>1, <1>5, <2>1
    <2>3. QED
      BY <1>4, <1>6, <1>7, <2>2
  <1>8. CASE s = q
    BY <1>1, <1>4, <1>6, <1>8
  <1>9. CASE s < q
    <2>1. d * s + d =< d * q
      BY <1>1, <1>9, Multiples
    <2>2. m >= d * s + d /\ ~(m =< d * s)
      BY <1>1, <1>5, <2>1
    <2>3. QED
      BY <1>1, <1>4, <1>6, <1>9, <2>2
  <1>10. QED
    BY <1>1, <1>7, <1>8, <1>9

-----------------------------------------------------------------------------
(* The last of several.                                                     *)

\* A set of column numbers has a largest one.
LEMMA MaxOfColumns ==
  ASSUME NEW n \in Nat, NEW S, S \subseteq 1..n, S # {}
  PROVE  Max(S) \in S /\ \A x \in S : Max(S) >= x
  <1> DEFINE R == OpToRel(<, Nat)
             T == {m \in Nat : n - m \in S}
  <1>1. T \subseteq Nat /\ T # {}
    <2>1. PICK x \in S : TRUE
      OBVIOUS
    <2>2. x \in 1..n /\ n - x \in Nat /\ n - (n - x) = x
      BY <2>1
    <2> QED BY <2>2
  <1>2. PICK m \in T : \A k \in T : ~ (<<k, m>> \in R)
    <2> HIDE DEF R, T
    <2> QED BY <1>1, WFMin, NatLessThanWellFounded DEF R
  <1>3. \A k \in T : ~ (k < m)
    BY <1>1, <1>2 DEF OpToRel
  <1>4. ASSUME NEW x \in S PROVE n - m >= x
    <2>1. x \in 1..n /\ n - x \in Nat /\ n - (n - x) = x
      BY <1>4
    <2>2. n - x \in T
      BY <2>1
    <2> QED BY <1>3, <2>1, <2>2
  <1>5. n - m \in S
    BY <1>2
  <1> QED BY <1>4, <1>5 DEF Max

\* The last of some columns that have a name.
LEMMA LastOfName ==
  ASSUME NEW n \in Nat, NEW cols, NEW ids, ids \subseteq 1..n,
         NEW name \in NamesOf(cols, ids)
  PROVE  /\ LastOf(cols, ids, name) \in ids
         /\ cols[LastOf(cols, ids, name)].colname = name
         /\ \A i \in ids : cols[i].colname = name => LastOf(cols, ids, name) >= i
  <1> DEFINE S == {i \in ids : cols[i].colname = name}
  <1>1. S \subseteq 1..n /\ S # {}
    BY DEF NamesOf
  <1>2. Max(S) \in S /\ \A x \in S : Max(S) >= x
    <2> HIDE DEF S
    <2> QED BY <1>1, MaxOfColumns
  <1> QED BY <1>2 DEF LastOf

-----------------------------------------------------------------------------
(* The columns of a dataset that has been opened.                           *)

\* columns_ is what the constructor makes of the schema.
Made ==
  /\ Len(schema.columns) =< schema.ncols
  /\ columns = [i \in 1..schema.ncols |->
                  IF i \in DOMAIN schema.columns THEN schema.columns[i] ELSE NoColumn]

\* The maps of names: what IndexExact says of them.
ExactNames(map) ==
  /\ \A i \in DOMAIN columns :
       columns[i].colname \in DOMAIN map /\ map[columns[i].colname] >= i
  /\ \A n \in DOMAIN map : map[n] # 0 => columns[map[n]].colname = n

ExactKeys(map) ==
  /\ \A n \in NamesOf(columns, KeyColumns) : n \in DOMAIN map /\ map[n] = KeyRank(n)
  /\ \A n \in DOMAIN map : map[n] # 0 => n \in NamesOf(columns, KeyColumns)

\* There are as many columns as the schema says, and as many keys as in it.
LEMMA MadeFacts ==
  ASSUME schema \in Schemas, Made
  PROVE  /\ schema.ncols \in Nat
         /\ DOMAIN columns = 1..schema.ncols /\ Len(columns) = schema.ncols
         /\ KeyColumns \subseteq 1..schema.ncols /\ IsFiniteSet(KeyColumns)
         /\ Keys = Cardinality(KeyColumns) /\ Keys \in Nat
  <1> DEFINE n == schema.ncols
             C == [colname : STRING, coltype : STRING, attributes : STRING]
             sc == schema.columns
  <1>1. sc \in Seq(C) /\ n \in Int /\ Len(sc) \in Nat /\ DOMAIN sc = 1..Len(sc)
        /\ \A i \in 1..Len(sc) : sc[i] \in C
    <2>1. sc \in Seq(C)
      BY DataframeAssumption
    <2>2. n \in Int
      BY DataframeAssumption
    <2> HIDE DEF sc, n, C
    <2> QED BY <2>1, <2>2, LenProperties, ElementOfSeq
  <1>2. n \in Nat /\ Len(sc) =< n
    BY <1>1 DEF Made
  <1>3. columns = [i \in 1..n |-> IF i \in DOMAIN sc THEN sc[i] ELSE NoColumn]
    BY DEF Made
  <1>4. ~IsKeyColumn(NoColumn)
    <2>2. NoColumn.attributes = ""
      BY DEF NoColumn
    <2>3. "" # "pkey" /\ "" # "pkey0p2"
      OBVIOUS
    <2> QED BY <2>2, <2>3 DEF IsKeyColumn, PKey
  <1> HIDE DEF n, sc, C
  <1>6. Len(columns) = n /\ DOMAIN columns = 1..n
    <2> DEFINE S == {columns[i] : i \in 1..n}
    <2>1. columns = [i \in 1..n |-> columns[i]] /\ \A i \in 1..n : columns[i] \in S
      BY <1>3
    <2> HIDE DEF S
    <2> QED BY <1>2, <2>1, SeqFromFunction
  <1>7. KeyColumns \subseteq 1..n
    BY <1>6 DEF KeyColumns
  <1>8. IsFiniteSet(KeyColumns)
    <2>1. IsFiniteSet(1..n)
      BY <1>2, FS_Interval
    <2> QED BY <1>7, <2>1, FS_Subset
  <1>9. {i \in DOMAIN sc : IsKeyColumn(sc[i])} = KeyColumns
    <2>1. \A i \in DOMAIN sc : i \in 1..n /\ columns[i] = sc[i]
      BY <1>1, <1>2, <1>3
    <2>2. \A i \in 1..n : i \notin DOMAIN sc => columns[i] = NoColumn
      BY <1>3
    <2> QED BY <1>4, <1>6, <2>1, <2>2 DEF KeyColumns
  <1>10. Keys = Cardinality(KeyColumns) /\ Keys \in Nat
    <2>1. Keys = Cardinality(KeyColumns)
      BY <1>9 DEF Keys, sc
    <2> QED BY <1>8, <2>1, FS_CardinalityType
  <1> QED BY <1>2, <1>6, <1>7, <1>8, <1>10 DEF n

\* The place of a key among the keys is one of the places of its values.
LEMMA KeyRankType ==
  ASSUME schema \in Schemas, Made, NEW name \in NamesOf(columns, KeyColumns)
  PROVE  KeyRank(name) \in 1..Keys
  <1> DEFINE n == schema.ncols
             last == LastOf(columns, KeyColumns, name)
             R == {j \in KeyColumns : j =< last}
  <1>1. n \in Nat /\ KeyColumns \subseteq 1..n /\ IsFiniteSet(KeyColumns)
        /\ Keys = Cardinality(KeyColumns) /\ Keys \in Nat
    BY MadeFacts
  <1>2. last \in KeyColumns
    <2> HIDE DEF n
    <2> QED BY <1>1, LastOfName
  <1> HIDE DEF last
  <1>3. last \in R
    BY <1>1, <1>2
  <1>4. IsFiniteSet(R) /\ Cardinality(R) =< Keys /\ Cardinality(R) \in Nat
    <2>1. R \subseteq KeyColumns
      OBVIOUS
    <2> HIDE DEF R
    <2> QED BY <1>1, <2>1, FS_Subset, FS_CardinalityType
  <1>5. Cardinality(R) # 0
    <2> HIDE DEF R
    <2> QED BY <1>3, <1>4, FS_EmptySet
  <1> QED BY <1>1, <1>4, <1>5 DEF KeyRank, last

\* A partition of a dataset with keys has a value for each.
LEMMA ValuesOfMine ==
  ASSUME schema \in Schemas, Made, NEW p \in Mine
  PROVE  /\ p \in Partitions /\ p.values \in Seq(Seq(Symbol)) /\ p.rows \in Nat
         /\ Keys > 0 => Len(p.values) = Keys
         /\ p # NoPartition
  <1>1. p \in Partitions /\ p.values \in Seq(Seq(Symbol)) /\ p.rows \in Nat /\ Len(p.values) = Max({1, Keys})
    BY DataframeAssumption DEF Mine
  <1>2. Keys \in Nat
    BY MadeFacts
  <1>3. Keys > 0 => Max({1, Keys}) = Keys
    <2> SUFFICES ASSUME Keys > 0 PROVE Max({1, Keys}) = Keys
      OBVIOUS
    <2> DEFINE M == {1, Keys}
    <2>1. M \subseteq 1..Keys /\ M # {} /\ Keys \in M /\ \A x \in M : x \in Nat /\ x =< Keys
      BY <1>2
    <2> HIDE DEF M
    <2>2. Max(M) \in M /\ \A x \in M : Max(M) >= x
      BY <1>2, <2>1, MaxOfColumns
    <2>3. Max(M) >= Keys /\ Max(M) =< Keys /\ Max(M) \in Nat
      BY <2>1, <2>2
    <2>4. Max(M) = Keys
      BY <1>2, <2>3
    <2> QED BY <2>4 DEF M
  <1>4. Max({1, Keys}) # 0
    <2>1. CASE Keys > 0
      BY <1>3, <2>1
    <2>2. CASE ~(Keys > 0)
      <3> DEFINE M == {1, Keys}
      <3>1. M \subseteq {0, 1} /\ 1 \in M /\ M = {0, 1}
        BY <1>2, <2>2
      <3>2. Max({0, 1}) = 1
        BY DEF Max
      <3> QED BY <3>1, <3>2
    <2> QED BY <2>1, <2>2
  <1>5. Len(NoPartition.values) = 0
    BY DEF NoPartition
  <1> QED BY <1>1, <1>3, <1>4, <1>5

\* The value of a name: of the key column of that name.
LEMMA ValueOfName ==
  ASSUME schema \in Schemas, Made, NEW p \in Mine, \A value \in Range(p.values) : Plain(value),
         NEW map, ExactKeys(map), NEW name \in DOMAIN map
  PROVE  ColumnValue(map, Text(p), name) =
           IF name \in NamesOf(columns, KeyColumns) THEN p.values[KeyRank(name)] ELSE <<>>
  <1>1. p.values \in Seq(Seq(Symbol)) /\ schema.separator \in Seq(Symbol) /\ schema.separator # <<>>
    BY DataframeAssumption, ValuesOfMine
  <1>2. Tokens(Text(p)) = p.values
    BY <1>1, TokensOfJoin DEF Text
  <1>3. DOMAIN p.values = 1..Len(p.values) /\ Len(p.values) \in Nat
    BY <1>1, LenProperties
  <1>4. CASE name \in NamesOf(columns, KeyColumns)
    <2>1. map[name] = KeyRank(name)
      BY <1>4 DEF ExactKeys
    <2>2. KeyRank(name) \in 1..Keys /\ Keys \in Nat
      BY <1>4, KeyRankType, MadeFacts
    <2>3. Len(p.values) = Keys
      BY <2>2, ValuesOfMine
    <2>4. KeyRank(name) \in DOMAIN p.values
      BY <1>3, <2>2, <2>3
    <2> QED BY <1>2, <1>4, <2>1, <2>4 DEF ColumnValue
  <1>5. CASE name \notin NamesOf(columns, KeyColumns)
    <2>1. map[name] = 0
      BY <1>5 DEF ExactKeys
    <2>2. 0 \notin DOMAIN p.values
      BY <1>3
    <2> QED BY <1>2, <1>5, <2>1, <2>2 DEF ColumnValue
  <1> QED BY <1>4, <1>5

-----------------------------------------------------------------------------
(* A split of a column.                                                     *)

\* What a (one-based) split of a column may be.
Judged(v, col, p, s) ==
  \/ v.is = "mapped" /\ ~IsKeyColumn(col) /\ IsMapped(v, col, p, s) /\ Readable(col, p, s)
  \/ v.is = "key" /\ IsKeyColumn(col) /\ IsKeyVector(v, col, p, s) /\ Readable(col, p, s)
  \/ v = Null /\ MayBeMissing(col, p, s) /\ ~Readable(col, p, s)
  \/ v = Error /\ MayBeMissing(col, p, s)

\* SdsPartitionCols::split of a column there is, by its type and whether it is a key.
LEMMA ColumnOfSplit ==
  ASSUME schema \in Schemas, Made, ExactKeys(keyindex), NEW p \in Mine, NEW s \in Nat,
         NEW i \in DOMAIN columns
  PROVE  Judged(ColumnSplit(p, s, columns[i]), columns[i], p, s + 1)
  <1> DEFINE col == columns[i]
             v   == ColumnSplit(p, s, col)
  <1>1. p \in Partitions /\ p.values \in Seq(Seq(Symbol)) /\ p.rows \in Nat /\ p # NoPartition
    BY ValuesOfMine
  <1>2. (s + 1) - 1 = s /\ s + 1 >= 1 /\ ~(s + 1 < 1)
    OBVIOUS
  <1>3. RowsOf(p, s + 1) = FileRows(p.rows, Rps, s)
    BY <1>2 DEF RowsOf
  <1>4. p.rows =< IntMax => Rows(p, s) = RowsOf(p, s + 1)
    BY <1>1, <1>3, RowsInSplitIsFile, DataframeAssumption DEF Rows
  <1>5. RowsOf(p, s + 1) \in Int
    <2>1. \A x \in Int : s * x \in Int /\ (s + 1) * x \in Int
      OBVIOUS
    <2> QED BY <1>1, <1>3, <2>1, DataframeAssumption DEF FileRows
  <1>6. CASE IsKeyColumn(col)
    <2> DEFINE value == ColumnValue(keyindex, Text(p), col.colname)
    <2>1. v = KeyColumn(p, s, col)
      BY <1>6 DEF ColumnSplit
    <2>2. col.colname \in NamesOf(columns, KeyColumns) /\ col.colname \in DOMAIN keyindex
      <3>1. i \in KeyColumns
        BY <1>6 DEF KeyColumns
      <3>2. col.colname \in NamesOf(columns, KeyColumns)
        BY <3>1 DEF NamesOf
      <3> QED BY <3>2 DEF ExactKeys
    <2>3. (\A x \in Range(p.values) : Plain(x)) =>
            /\ value = p.values[KeyRank(col.colname)]
            /\ value \in Range(p.values)
      <3> SUFFICES ASSUME \A x \in Range(p.values) : Plain(x)
                   PROVE  /\ value = p.values[KeyRank(col.colname)]
                          /\ value \in Range(p.values)
        OBVIOUS
      <3>1. value = p.values[KeyRank(col.colname)]
        <4> DEFINE name == col.colname
        <4>1. name \in DOMAIN keyindex /\ name \in NamesOf(columns, KeyColumns)
          BY <2>2
        <4> HIDE DEF name
        <4>2. ColumnValue(keyindex, Text(p), name) = p.values[KeyRank(name)]
          BY <4>1, ValueOfName
        <4> QED BY <4>2 DEF name
      <3>2. KeyRank(col.colname) \in 1..Keys /\ Keys \in Nat
        BY <2>2, KeyRankType, MadeFacts
      <3>3. Len(p.values) = Keys /\ DOMAIN p.values = 1..Len(p.values)
        BY <1>1, <3>2, ValuesOfMine, LenProperties
      <3> QED BY <3>1, <3>2, <3>3 DEF Range
    <2> HIDE DEF value
    <2>4. CASE col.coltype # "int32"
      <3>1. v = Null
        BY <2>1, <2>4 DEF KeyColumn
      <3>2. MayBeMissing(col, p, s + 1)
        BY <1>6, <2>4 DEF MayBeMissing
      <3>3. ~Readable(col, p, s + 1)
        BY <1>6, <2>4 DEF Readable
      <3> QED BY <3>1, <3>2, <3>3 DEF Judged
    <2>5. CASE col.coltype = "int32" /\ value # <<>> /\ value[1] \in DOMAIN NumberOf
      <3>1. v = [is |-> "key", value |-> NumberOf[value[1]], len |-> Rows(p, s)]
        BY <2>1, <2>5 DEF KeyColumn, value
      <3>2. v.is = "key" /\ v.value = NumberOf[value[1]] /\ v.len = Rows(p, s)
        BY <3>1
      <3>3. FullLength(v, p, s + 1)
        BY <1>4, <3>2 DEF FullLength
      <3>4. IsKeyVector(v, col, p, s + 1)
        BY <1>6, <2>3, <2>5, <3>2, <3>3 DEF IsKeyVector
      <3>5. Readable(col, p, s + 1)
        BY <1>2, <1>6, <2>5 DEF Readable, VectorType
      <3> QED BY <1>6, <3>2, <3>4, <3>5 DEF Judged
    <2>6. CASE col.coltype = "int32" /\ ~(value # <<>> /\ value[1] \in DOMAIN NumberOf)
      <3>1. v = Error
        BY <2>1, <2>6 DEF KeyColumn, value
      <3>2. \E x \in Range(p.values) : ~Plain(x) \/ x[1] \notin DOMAIN NumberOf
        <4>1. CASE \A x \in Range(p.values) : Plain(x)
          <5>1. value \in Range(p.values) /\ value # <<>>
            BY <2>3, <4>1 DEF Plain
          <5> QED BY <2>6, <5>1
        <4> QED BY <4>1
      <3>3. MayBeMissing(col, p, s + 1)
        BY <1>6, <3>2 DEF MayBeMissing
      <3> QED BY <3>1, <3>3 DEF Judged
    <2> QED BY <2>4, <2>5, <2>6
  <1>7. CASE ~IsKeyColumn(col) /\ col.coltype \notin VectorType
    <2>1. v = Null
      BY <1>7 DEF ColumnSplit
    <2>2. MayBeMissing(col, p, s + 1) /\ ~Readable(col, p, s + 1)
      BY <1>7 DEF MayBeMissing, Readable
    <2> QED BY <2>1, <2>2 DEF Judged
  <1>8. CASE ~IsKeyColumn(col) /\ col.coltype \in VectorType
    <2> DEFINE has == HasFile(p, s, col) /\ ~(col.coltype = "factor" /\ col.colname \in NoLevels)
    <2>1. v = IF has
              THEN [is |-> "mapped", file |-> <<p, col.colname, s>>, class |-> col.coltype,
                    len |-> Rows(p, s)]
              ELSE IF col.coltype \in {"int32", "double"} THEN Null ELSE Error
      BY <1>8 DEF ColumnSplit
    <2> HIDE DEF v
    <2>2. HasFile(p, s, col) <=> col.colname \notin Lost /\ RowsOf(p, s + 1) > 0
      BY <1>3 DEF HasFile
    <2>3. Readable(col, p, s + 1) <=> HasFile(p, s, col)
      BY <1>2, <1>8, <2>2 DEF Readable
    <2>4. CASE has
      <3>1. v.is = "mapped" /\ v.file = <<p, col.colname, s>> /\ v.class = col.coltype /\ v.len = Rows(p, s)
        BY <2>1, <2>4
      <3>2. IsMapped(v, col, p, s + 1)
        BY <1>2, <1>4, <3>1 DEF IsMapped, FullLength
      <3> QED BY <1>8, <2>3, <2>4, <3>1, <3>2 DEF Judged, v
    <2>5. CASE ~has
      <3>1. MayBeMissing(col, p, s + 1)
        <4>1. CASE ~HasFile(p, s, col)
          <5>1. FileRows(p.rows, Rps, s) >= 0
            <6>1. Rps \in Nat \ {0} /\ \A x \in Nat : s * x \in Nat /\ (s + 1) * x \in Nat
              BY DataframeAssumption
            <6> QED BY <1>1, <6>1 DEF FileRows
          <5> QED BY <1>3, <1>5, <2>2, <4>1, <5>1 DEF MayBeMissing
        <4> QED BY <2>5, <4>1 DEF MayBeMissing
      <3>2. CASE col.coltype \in {"int32", "double"}
        <4>1. v = Null /\ ~HasFile(p, s, col)
          BY <2>1, <2>5, <3>2
        <4> QED BY <2>3, <3>1, <4>1 DEF Judged, v
      <3>3. CASE col.coltype \notin {"int32", "double"}
        <4>1. v = Error
          BY <2>1, <2>5, <3>3
        <4> QED BY <3>1, <4>1 DEF Judged, v
      <3> QED BY <3>2, <3>3
    <2> QED BY <2>4, <2>5
  <1> QED BY <1>6, <1>7, <1>8

\* SDataframe::split of a column there is.
LEMMA SplitOfColumn ==
  ASSUME schema \in Schemas, Made, ExactKeys(keyindex), NEW p \in Mine \cup {NoPartition},
         NEW s \in Int \ {NA}, NEW i \in DOMAIN columns
  PROVE  Judged(SplitAt(p, s, i), columns[i], p, s)
  <1>1. i \in Nat /\ i >= 1 /\ i =< Len(columns) /\ Len(columns) \in Nat
    BY MadeFacts
  <1>2. Down(i) = i - 1 /\ Down(s) = s - 1 /\ Down(i) + 1 = i /\ ~(Down(i) < 0) /\ ~(Down(i) >= Len(columns))
    BY <1>1 DEF Down
  <1>0. NA \notin {s, i}
    BY <1>1, IntMaxAssumption DEF NA
  <1>3. CASE p \notin Mine
    <2>1. SplitAt(p, s, i) = Error
      BY <1>3 DEF SplitAt
    <2>2. MayBeMissing(columns[i], p, s)
      BY <1>3 DEF MayBeMissing
    <2> QED BY <2>1, <2>2 DEF Judged
  <1>4. CASE p \in Mine /\ s < 1
    <2>1. SplitAt(p, s, i) = Null
      BY <1>0, <1>2, <1>4 DEF SplitAt
    <2>2. MayBeMissing(columns[i], p, s) /\ ~Readable(columns[i], p, s)
      BY <1>4 DEF MayBeMissing, RowsOf, Readable
    <2> QED BY <2>1, <2>2 DEF Judged
  <1>5. CASE p \in Mine /\ ~(s < 1)
    <2> DEFINE t == s - 1
    <2>1. t \in Nat /\ t + 1 = s /\ ~(t < 0)
      BY <1>5
    <2>2. SplitAt(p, s, i) = ColumnSplit(p, t, columns[i])
      BY <1>0, <1>2, <1>5, <2>1 DEF SplitAt
    <2> HIDE DEF t
    <2>3. Judged(ColumnSplit(p, t, columns[i]), columns[i], p, t + 1)
      BY <1>5, <2>1, ColumnOfSplit
    <2> QED BY <2>1, <2>2, <2>3
  <1> QED BY <1>3, <1>4, <1>5

\* A split of a column there is is never undefined.
LEMMA JudgedIs ==
  ASSUME NEW v, NEW col, NEW p, NEW s, Judged(v, col, p, s)
  PROVE  v # Undefined
BY DEF Judged, Undefined, Null, Error

-----------------------------------------------------------------------------
(* The maps of names.                                                       *)

\* A map with some more names in it, none of which has an index.
Extends(map, more) ==
  /\ DOMAIN map \subseteq DOMAIN more
  /\ \A x \in DOMAIN map : more[x] = map[x]
  /\ \A x \in DOMAIN more : more[x] # 0 => x \in DOMAIN map

\* A lookup that inserts a name gives it the index 0, which is no column.
LEMMA LookedExtends ==
  ASSUME NEW map, NEW name
  PROVE  Extends(map, Looked(map, name)) /\ name \in DOMAIN Looked(map, name)
BY DEF Looked, Extends

\* Whatever is looked up, the names of columns still have their own index.
LEMMA ExactExtends ==
  ASSUME NEW map, NEW more, Extends(map, more)
  PROVE  /\ ExactNames(map) => ExactNames(more)
         /\ ExactKeys(map) => ExactKeys(more)
BY DEF Extends, ExactNames, ExactKeys

\* Indexes are columns.
Bounded(map) == \A n \in DOMAIN map : map[n] \in 0..Len(columns)

\* A lookup inserts no index that is no column.
LEMMA LookedBounded ==
  ASSUME Len(columns) \in Nat, NEW map, Bounded(map), NEW name
  PROVE  Bounded(Looked(map, name))
BY DEF Looked, Bounded

\* The index of a name is the last column of that name.
LEMMA NameIsLast ==
  ASSUME schema \in Schemas, Made, NEW map, ExactNames(map), Bounded(map), NEW name \in DOMAIN map
  PROVE  /\ map[name] # 0 => /\ map[name] \in DOMAIN columns
                             /\ name \in NamesOf(columns, DOMAIN columns)
                             /\ map[name] = LastOf(columns, DOMAIN columns, name)
         /\ map[name] = 0 => name \notin NamesOf(columns, DOMAIN columns)
         /\ map[name] \in Nat
  <1> DEFINE n == schema.ncols
             ids == DOMAIN columns
  <1>1. n \in Nat /\ ids = 1..n /\ Len(columns) = n
    BY MadeFacts
  <1>2. map[name] \in 0..n
    BY <1>1 DEF Bounded
  <1>3. ASSUME map[name] # 0
        PROVE  /\ map[name] \in ids /\ name \in NamesOf(columns, ids)
               /\ map[name] = LastOf(columns, ids, name)
    <2>1. map[name] \in ids /\ columns[map[name]].colname = name
      BY <1>1, <1>2, <1>3 DEF ExactNames
    <2>2. name \in NamesOf(columns, ids)
      BY <2>1 DEF NamesOf
    <2> DEFINE last == LastOf(columns, ids, name)
    <2>3. last \in ids /\ columns[last].colname = name /\ last >= map[name]
      <3> HIDE DEF n
      <3>1. ids \subseteq 1..n
        BY <1>1
      <3> HIDE DEF ids
      <3> QED BY <1>1, <2>1, <2>2, <3>1, LastOfName
    <2> HIDE DEF last
    <2>4. map[name] >= last
      BY <2>3 DEF ExactNames
    <2>5. last = map[name]
      BY <1>1, <1>2, <2>3, <2>4
    <2> QED BY <2>1, <2>2, <2>5 DEF last
  <1>4. ASSUME map[name] = 0 PROVE name \notin NamesOf(columns, ids)
    <2> SUFFICES ASSUME NEW i \in ids, columns[i].colname = name PROVE FALSE
      BY DEF NamesOf
    <2>1. map[name] >= i
      BY DEF ExactNames
    <2> QED BY <1>1, <1>4, <2>1
  <1> QED BY <1>1, <1>2, <1>3, <1>4

\* Nothing but the constructor changes what is said of the columns.
LEMMA Frozen ==
  ASSUME schema' = schema, columns' = columns
  PROVE  /\ KeyColumns' = KeyColumns
         /\ \A name : KeyRank(name)' = KeyRank(name)
         /\ \A map : ExactNames(map)' <=> ExactNames(map)
         /\ \A map : ExactKeys(map)' <=> ExactKeys(map)
         /\ \A map : Bounded(map)' <=> Bounded(map)
         /\ \A x : Plain(x)' <=> Plain(x)
         /\ \A p : Text(p)' = Text(p)
         /\ Mine' = Mine
         /\ Made' <=> Made
  <1>1. KeyColumns' = KeyColumns
    BY DEF KeyColumns
  <1>2. \A name : KeyRank(name)' = KeyRank(name)
    BY <1>1 DEF KeyRank
  <1>3. \A map : ExactNames(map)' <=> ExactNames(map)
    BY DEF ExactNames
  <1>4. \A map : ExactKeys(map)' <=> ExactKeys(map)
    BY <1>1, <1>2 DEF ExactKeys
  <1>5. \A map : Bounded(map)' <=> Bounded(map)
    BY DEF Bounded
  <1>6. \A x : Plain(x)' <=> Plain(x)
    BY DEF Plain
  <1>7. \A p : Text(p)' = Text(p)
    BY DEF Text
  <1>8. Mine' = Mine
    BY DEF Mine, Keys
  <1>9. Made' <=> Made
    BY DEF Made
  <1> QED BY <1>1, <1>2, <1>3, <1>4, <1>5, <1>6, <1>7, <1>8, <1>9

-----------------------------------------------------------------------------
(* What is said of a reply.                                                 *)

KeyValueOf(call, res) ==
  call.op = "value" /\ (\A value \in Range(call.p.values) : Plain(value)) =>
    res.value = IF call.name \in NamesOf(columns, KeyColumns)
                THEN call.p.values[KeyRank(call.name)] ELSE <<>>

VectorOf(call, v) ==
  LET ids == DOMAIN columns
  IN  /\ call.op \in {"splitn", "["} /\ (call.op = "[" => ":" \notin ToSet(Text(call.p))) =>
           IF call.name \in NamesOf(columns, ids)
           THEN IsTheirs(v, columns[LastOf(columns, ids, call.name)], call.p, call.s)
           ELSE v.is \in {"null", "error"}
      /\ call.op = "split" /\ call.column =< Len(columns) =>
           IF call.column \in ids
           THEN IsTheirs(v, columns[call.column], call.p, call.s)
           ELSE v.is \in {"null", "error"}

FrameOf(call, df) ==
  LET read == {i \in DOMAIN columns : Readable(columns[i], call.p, call.s)}
      place(i) == Cardinality({k \in read : k =< i})
  IN  call.op = "frame" /\ df.is = "frame" =>
        /\ DOMAIN df.vectors = 1..Cardinality(read)
        /\ DOMAIN df.names = DOMAIN df.vectors
        /\ \A i \in read :
             /\ df.names[place(i)] = columns[i].colname
             /\ LET v == df.vectors[place(i)]
                IN  IF IsKeyColumn(columns[i])
                    THEN v.is = "key" /\ IsKeyVector(v, columns[i], call.p, call.s)
                    ELSE v.is = "mapped" /\ IsMapped(v, columns[i], call.p, call.s)

\* Nor what is said of vectors.
LEMMA FrozenVectors ==
  ASSUME schema' = schema, columns' = columns
  PROVE  /\ \A v, col, p, s : IsKeyVector(v, col, p, s)' <=> IsKeyVector(v, col, p, s)
         /\ \A v, col, p, s : IsMapped(v, col, p, s)' <=> IsMapped(v, col, p, s)
         /\ \A col, p, s : MayBeMissing(col, p, s)' <=> MayBeMissing(col, p, s)
         /\ \A col, p, s : Readable(col, p, s)' <=> Readable(col, p, s)
         /\ \A v, col, p, s : IsTheirs(v, col, p, s)' <=> IsTheirs(v, col, p, s)
  <1>1. /\ \A name : KeyRank(name)' = KeyRank(name)
        /\ \A x : Plain(x)' <=> Plain(x)
    BY Frozen
  <1>2. \A v, col, p, s : IsKeyVector(v, col, p, s)' <=> IsKeyVector(v, col, p, s)
    BY <1>1 DEF IsKeyVector
  <1>3. \A col, p, s : MayBeMissing(col, p, s)' <=> MayBeMissing(col, p, s)
    BY <1>1 DEF MayBeMissing
  <1>4. \A v, col, p, s : IsTheirs(v, col, p, s)' <=> IsTheirs(v, col, p, s)
    BY <1>2, <1>3 DEF IsTheirs
  <1> QED BY <1>2, <1>3, <1>4

\* The properties hold after an answer if what they say of it is true.
LEMMA Answered ==
  ASSUME NEW call, NEW res, reply' = [call |-> call, res |-> res],
         schema' = schema, columns' = columns,
         KeyValueOf(call, res), VectorOf(call, res), FrameOf(call, res)
  PROVE  KeyValueExact' /\ VectorsAreTheirs' /\ FrameAligned'
  <1>1. reply'.call = call /\ reply'.res = res
    OBVIOUS
  <1>2. /\ KeyColumns' = KeyColumns
        /\ \A name : KeyRank(name)' = KeyRank(name)
        /\ \A x : Plain(x)' <=> Plain(x)
        /\ \A p : Text(p)' = Text(p)
    BY Frozen
  <1>3. KeyValueExact'
    BY <1>1, <1>2 DEF KeyValueExact, KeyValueOf
  <1>4. VectorsAreTheirs'
    BY <1>1, <1>2, FrozenVectors DEF VectorsAreTheirs, VectorOf
  <1>5. FrameAligned'
    BY <1>1, <1>2, FrozenVectors DEF FrameAligned, FrameOf
  <1> QED BY <1>3, <1>4, <1>5

-----------------------------------------------------------------------------
(* The invariant.                                                           *)

IInv ==
  /\ TypeOK /\ IndexExact
  /\ status = "new" => reply = NoReply
  /\ status = "open" \/ reply # NoReply => Made
  /\ KeyValueExact /\ VectorsAreTheirs /\ FrameAligned

\* Without a reply nothing is said of one.
LEMMA NothingSaid ==
  ASSUME reply = NoReply
  PROVE  KeyValueExact /\ VectorsAreTheirs /\ FrameAligned
  <1>1. reply.call.op = "none"
    BY DEF NoReply
  <1> QED BY <1>1 DEF KeyValueExact, VectorsAreTheirs, FrameAligned

\* At first nothing has been opened.
LEMMA InitIInv == Init => IInv
  <1> SUFFICES ASSUME Init PROVE IInv
    OBVIOUS
  <1>1. TypeOK
    BY DEF Init, TypeOK
  <1>2. KeyValueExact /\ VectorsAreTheirs /\ FrameAligned
    BY NothingSaid DEF Init
  <1> QED BY <1>1, <1>2 DEF Init, IInv, IndexExact

\* There are no more keys than columns.
LEMMA KeyOffsetBound ==
  ASSUME NEW n \in Nat, NEW cols
  PROVE  KeyOffset(cols, n) \in 0..n
  <1> DEFINE S == {j \in 1..n : IsKeyColumn(cols[j])}
  <1>1. IsFiniteSet(1..n) /\ Cardinality(1..n) = n
    <2>1. n >= 1 \/ n = 0
      OBVIOUS
    <2>2. CASE n = 0
      <3>1. 1..n = {}
        BY <2>2
      <3> QED BY <2>2, <3>1, FS_EmptySet
    <2>3. CASE n >= 1
      <3>1. IsFiniteSet(1..n) /\ Cardinality(1..n) = n - 1 + 1
        BY <2>3, FS_Interval
      <3> QED BY <3>1
    <2> QED BY <2>1, <2>2, <2>3
  <1>2. S \subseteq 1..n
    OBVIOUS
  <1> HIDE DEF S
  <1>3. Cardinality(S) \in Nat /\ Cardinality(S) =< n
    BY <1>1, <1>2, FS_Subset, FS_CardinalityType
  <1> QED BY <1>3 DEF KeyOffset, S

\* The constructor: ++offset and ++keyOffset meet every column once, in order.
LEMMA OpenMaps ==
  ASSUME schema \in Schemas, Open, status' = "open"
  PROVE  /\ Made' /\ IndexExact'
         /\ Bounded(colnameindex)' /\ Bounded(keyindex)'
  <1> DEFINE n == schema.ncols
             cols == [i \in 1..n |->
                        IF i \in DOMAIN schema.columns THEN schema.columns[i] ELSE NoColumn]
             keys == {i \in 1..n : IsKeyColumn(cols[i])}
  <1>0. ~(n < 0) /\ ~(n < Len(schema.columns)) /\ schema' = schema
    BY DEF Open
  <1>1. Construct(cols)
    BY DEF Open
  <1>2. /\ columns' = cols
        /\ DOMAIN cols = 1..n
        /\ KeyColumns' = keys
        /\ keys \subseteq 1..n
    BY <1>1 DEF Construct, KeyColumns
  <1>3. /\ colnameindex' = [x \in NamesOf(cols, 1..n) |-> LastOf(cols, 1..n, x)]
        /\ keyindex' = [x \in NamesOf(cols, keys) |-> KeyOffset(cols, LastOf(cols, keys, x))]
    BY <1>1, <1>2 DEF Construct, Offset
  <1>4. n \in Nat /\ Len(schema.columns) \in Nat
    <2>1. n \in Int /\ schema.columns \in Seq([colname : STRING, coltype : STRING, attributes : STRING])
      BY DataframeAssumption
    <2> QED BY <1>0, <2>1, LenProperties
  <1>5. Made'
    BY <1>0, <1>2, <1>4 DEF Made
  <1>6. Len(cols) = n
    <2> DEFINE S == {cols[i] : i \in 1..n}
    <2>1. \A i \in 1..n : cols[i] \in S
      OBVIOUS
    <2>2. cols = [i \in 1..n |-> cols[i]]
      OBVIOUS
    <2> HIDE DEF S, cols
    <2> QED BY <1>4, <2>1, <2>2, SeqFromFunction
  <1>7. ASSUME NEW i \in 1..n
        PROVE  cols[i].colname \in DOMAIN colnameindex' /\ colnameindex'[cols[i].colname] >= i
    <2>1. cols[i].colname \in NamesOf(cols, 1..n)
      BY DEF NamesOf
    <2> HIDE DEF cols
    <2> QED BY <1>3, <1>4, <2>1, LastOfName
  <1>8. ASSUME NEW x \in DOMAIN colnameindex'
        PROVE  cols[colnameindex'[x]].colname = x /\ colnameindex'[x] \in 1..n
    <2>1. x \in NamesOf(cols, 1..n) /\ colnameindex'[x] = LastOf(cols, 1..n, x)
      BY <1>3
    <2> HIDE DEF n, cols
    <2> QED BY <1>4, <2>1, LastOfName
  <1>9. DOMAIN keyindex' = NamesOf(cols, keys)
    BY <1>3
  <1>10. ASSUME NEW x \in NamesOf(cols, keys)
         PROVE  keyindex'[x] = KeyRank(x)' /\ keyindex'[x] \in 0..n
    <2>1. keyindex'[x] = KeyOffset(cols, LastOf(cols, keys, x))
      BY <1>3
    <2> DEFINE last == LastOf(cols, keys, x)
    <2>2. last \in keys /\ last \in 1..n
      <3> HIDE DEF cols, keys
      <3> QED BY <1>2, <1>4, <1>10, LastOfName
    <2>3. KeyRank(x)' = Cardinality({j \in keys : j =< last})
      BY <1>2 DEF KeyRank
    <2>4. {j \in keys : j =< last} = {j \in 1..last : IsKeyColumn(cols[j])}
      <3> HIDE DEF cols, last
      <3> QED BY <1>4, <2>2
    <2>5. KeyOffset(cols, last) \in 0..last /\ last \in Nat
      <3> HIDE DEF cols, last
      <3>1. last \in Nat
        BY <1>4, <2>2
      <3> QED BY <3>1, KeyOffsetBound
    <2> HIDE DEF cols, keys, last
    <2>6. keyindex'[x] \in 0..n
      BY <1>4, <2>1, <2>2, <2>5 DEF last
    <2> QED BY <2>1, <2>3, <2>4, <2>6 DEF KeyOffset, last
  <1> HIDE DEF n, cols, keys
  <1>11. IndexExact'
    BY <1>2, <1>7, <1>8, <1>9, <1>10 DEF IndexExact
  <1>12. Bounded(colnameindex)' /\ Bounded(keyindex)'
    <2>1. \A x \in DOMAIN colnameindex' : colnameindex'[x] \in 0..Len(columns')
      BY <1>2, <1>4, <1>6, <1>8
    <2>2. \A x \in DOMAIN keyindex' : keyindex'[x] \in 0..Len(columns')
      BY <1>2, <1>6, <1>9, <1>10
    <2> QED BY <2>1, <2>2 DEF Bounded
  <1> QED BY <1>5, <1>11, <1>12

\* The constructor, whether it fails or not.
LEMMA OpenIInv ==
  ASSUME IInv, Open
  PROVE  IInv'
  <1>1. schema \in Schemas /\ schema' = schema /\ reply = NoReply /\ reply' = NoReply
    BY DEF Open, IInv, TypeOK
  <1>2. KeyValueExact' /\ VectorsAreTheirs' /\ FrameAligned'
    <2>1. reply'.call.op = "none"
      BY <1>1 DEF NoReply
    <2> QED BY <2>1 DEF KeyValueExact, VectorsAreTheirs, FrameAligned
  <1>3. CASE status' = "open"
    <2>1. /\ Made' /\ IndexExact'
          /\ Bounded(colnameindex)' /\ Bounded(keyindex)'
      BY <1>1, <1>3, OpenMaps
    <2>2. TypeOK'
      BY <1>1, <1>3, <2>1 DEF TypeOK, Bounded
    <2> QED BY <1>1, <1>2, <1>3, <2>1, <2>2 DEF IInv
  <1>4. CASE status' # "open"
    <2>1. /\ status' \in {"error", "undefined"}
          /\ UNCHANGED <<columns, colnameindex, keyindex>>
      BY <1>4 DEF Open
    <2>2. TypeOK' /\ IndexExact'
      BY <1>1, <2>1 DEF TypeOK, IInv, IndexExact
    <2> QED BY <1>1, <1>2, <2>1, <2>2 DEF IInv
  <1> QED BY <1>3, <1>4

\* Whatever is replied keeps the invariant, if what is said of it is true.
LEMMA Replied ==
  ASSUME IInv, Ready, NEW call, NEW res, Answer(call, res),
         \/ colnameindex' = colnameindex
         \/ \E name : colnameindex' = Looked(colnameindex, name),
         \/ keyindex' = keyindex
         \/ \E name : keyindex' = Looked(keyindex, name),
         KeyValueOf(call, res), VectorOf(call, res), FrameOf(call, res)
  PROVE  IInv'
  <1>1. /\ reply' = [call |-> call, res |-> res]
        /\ schema' = schema /\ columns' = columns
        /\ status' \in {"open", "undefined"}
    BY DEF Answer, Ready
  <1>2. KeyValueExact' /\ VectorsAreTheirs' /\ FrameAligned'
    BY <1>1, Answered
  <1>3. Made /\ Made' /\ schema \in Schemas /\ Len(columns) \in Nat
    BY <1>1, Frozen, MadeFacts DEF IInv, Ready, TypeOK
  <1>4. /\ Bounded(colnameindex) /\ Bounded(keyindex)
        /\ ExactNames(colnameindex) /\ ExactKeys(keyindex)
    BY DEF IInv, TypeOK, Bounded, IndexExact, ExactNames, ExactKeys, Ready
  <1>5. Bounded(colnameindex') /\ ExactNames(colnameindex')
    BY <1>3, <1>4, LookedBounded, LookedExtends, ExactExtends
  <1>6. Bounded(keyindex') /\ ExactKeys(keyindex')
    BY <1>3, <1>4, LookedBounded, LookedExtends, ExactExtends
  <1>7. TypeOK'
    BY <1>1, <1>3, <1>5, <1>6 DEF TypeOK, Bounded
  <1>8. IndexExact'
    <2>1. KeyColumns' = KeyColumns /\ \A name : KeyRank(name)' = KeyRank(name)
      BY <1>1, Frozen
    <2> QED BY <1>1, <1>5, <1>6, <2>1 DEF IndexExact, ExactNames, ExactKeys
  <1> QED BY <1>1, <1>2, <1>3, <1>7, <1>8 DEF IInv

-----------------------------------------------------------------------------
(* The calls.                                                               *)

\* What a call can rely on.
LEMMA ReadyFacts ==
  ASSUME IInv, Ready
  PROVE  /\ schema \in Schemas /\ Made
         /\ Bounded(colnameindex) /\ Bounded(keyindex)
         /\ ExactNames(colnameindex) /\ ExactKeys(keyindex)
BY DEF IInv, TypeOK, Bounded, IndexExact, ExactNames, ExactKeys, Ready

\* Of a call that none of the properties is about nothing has to be shown.
LEMMA Unjudged ==
  ASSUME NEW call, NEW res, call.op \notin {"value", "split", "splitn", "[", "frame"}
  PROVE  KeyValueOf(call, res) /\ VectorOf(call, res) /\ FrameOf(call, res)
BY DEF KeyValueOf, VectorOf, FrameOf

\* The value of a key is found by the place of the key.
LEMMA ValueIInv ==
  ASSUME IInv, NEW p \in Mine, NEW name, PartitionsColumnValue(p, name)
  PROVE  IInv'
  <1> DEFINE call == [op |-> "value", p |-> p, name |-> name]
             map  == Looked(keyindex, name)
             res  == Got(ColumnValue(map, Text(p), name))
  <1>1. /\ Ready /\ Answer(call, res)
        /\ colnameindex' = colnameindex /\ keyindex' = map
    BY DEF PartitionsColumnValue
  <1>2. schema \in Schemas /\ Made /\ ExactKeys(map) /\ name \in DOMAIN map
    BY <1>1, ReadyFacts, LookedExtends, ExactExtends
  <1>3. KeyValueOf(call, res)
    <2> SUFFICES ASSUME \A value \in Range(p.values) : Plain(value)
                 PROVE  res.value = IF name \in NamesOf(columns, KeyColumns)
                                    THEN p.values[KeyRank(name)] ELSE <<>>
      BY DEF KeyValueOf
    <2>1. res.value = ColumnValue(map, Text(p), name)
      BY DEF Got
    <2> HIDE DEF map, res
    <2> QED BY <1>2, <2>1, ValueOfName
  <1>4. VectorOf(call, res) /\ FrameOf(call, res)
    BY DEF VectorOf, FrameOf
  <1> HIDE DEF call, res
  <1> QED BY <1>1, <1>3, <1>4, Replied DEF map

\* A name that is a column finds its last column, and the split of that.
LEMMA SplitnIInv ==
  ASSUME IInv, NEW asked, NEW p \in Mine \cup {NoPartition}, NEW s \in Int, NEW name,
         Splitn(asked, p, s, name), asked.op \in {"splitn", "["}, asked.name = name,
         (asked.op = "[" => ":" \notin ToSet(Text(asked.p))) =>
           asked.p = p /\ asked.s = s /\ s # NA
  PROVE  IInv'
  <1> DEFINE map == Looked(colnameindex, name)
             i   == map[name]
             ids == DOMAIN columns
             v   == IF i > 0 THEN SplitAt(p, s, i) ELSE Null
  <1>1. /\ Ready /\ Answer(asked, v)
        /\ colnameindex' = map /\ keyindex' = keyindex
    BY DEF Splitn
  <1>2. /\ schema \in Schemas /\ Made /\ ExactKeys(keyindex)
        /\ ExactNames(map) /\ Bounded(map) /\ name \in DOMAIN map
    <2>1. Len(columns) \in Nat
      BY <1>1, ReadyFacts, MadeFacts
    <2> QED BY <1>1, <2>1, ReadyFacts, LookedExtends, LookedBounded, ExactExtends
  <1>3. /\ i # 0 => /\ i \in ids
                    /\ name \in NamesOf(columns, ids)
                    /\ i = LastOf(columns, ids, name)
        /\ i = 0 => name \notin NamesOf(columns, ids)
        /\ i \in Nat
    <2> HIDE DEF map
    <2> QED BY <1>2, NameIsLast
  <1>4. VectorOf(asked, v)
    <2> DEFINE col == columns[LastOf(columns, ids, name)]
    <2> SUFFICES ASSUME asked.p = p, asked.s = s, s # NA
                 PROVE  IF name \in NamesOf(columns, ids) THEN IsTheirs(v, col, p, s)
                        ELSE v.is \in {"null", "error"}
      BY DEF VectorOf
    <2>1. CASE i = 0
      <3>1. v = Null
        BY <2>1
      <3> QED BY <1>3, <2>1, <3>1 DEF Null
    <2>2. CASE i # 0
      <3>1. /\ i > 0 /\ v = SplitAt(p, s, i) /\ col = columns[i] /\ i \in ids
            /\ name \in NamesOf(columns, ids) /\ s \in Int \ {NA}
        BY <1>3, <2>2
      <3> HIDE DEF i, v, col
      <3>2. Judged(v, col, p, s)
        BY <1>2, <3>1, SplitOfColumn
      <3>3. Null.is = "null" /\ Error.is = "error"
        BY DEF Null, Error
      <3> QED BY <3>1, <3>2, <3>3 DEF Judged, IsTheirs
    <2> QED BY <2>1, <2>2
  <1>5. KeyValueOf(asked, v) /\ FrameOf(asked, v)
    BY DEF KeyValueOf, FrameOf
  <1> HIDE DEF v
  <1> QED BY <1>1, <1>4, <1>5, Replied DEF map

\* An index up to the last column finds the column with that index, or none.
LEMMA SplitTheirs ==
  ASSUME IInv, Ready, NEW p \in Mine \cup {NoPartition}, NEW s \in Int \ {NA},
         NEW column \in Int \ {NA}
  PROVE  VectorOf([op |-> "split", p |-> p, s |-> s, column |-> column], SplitAt(p, s, column))
  <1> DEFINE v == SplitAt(p, s, column)
  <1>1. schema \in Schemas /\ Made /\ ExactKeys(keyindex)
    BY ReadyFacts
  <1>2. Len(columns) \in Nat /\ DOMAIN columns = 1..Len(columns)
    BY <1>1, MadeFacts
  <1>3. Null.is = "null" /\ Error.is = "error"
    BY DEF Null, Error
  <1> SUFFICES ASSUME column =< Len(columns)
               PROVE  IF column \in DOMAIN columns THEN IsTheirs(v, columns[column], p, s)
                      ELSE v.is \in {"null", "error"}
    BY DEF VectorOf
  <1>4. CASE column \in DOMAIN columns
    <2>1. Judged(v, columns[column], p, s)
      BY <1>1, <1>4, SplitOfColumn
    <2> HIDE DEF v
    <2> QED BY <1>3, <1>4, <2>1 DEF Judged, IsTheirs
  <1>5. CASE column \notin DOMAIN columns
    <2>1. column < 1
      BY <1>2, <1>5
    <2>2. v \in {Null, Error}
      BY <2>1 DEF SplitAt, Down
    <2> HIDE DEF v
    <2> QED BY <1>3, <1>5, <2>2
  <1> QED BY <1>4, <1>5

\* x["p:s", name]: the text before the colon is the name of one partition.
LEMMA BracketIInv ==
  ASSUME IInv, NEW p \in Mine, NEW t \in DOMAIN NumberOf, NEW name, Bracket(p, t, name)
  PROVE  IInv'
  <1> DEFINE parts == Pieces(Text(p) \o <<":", t>>, {":"})
             named == {q \in Mine : Text(q) = parts[1]}
             asked == [op |-> "[", p |-> p, s |-> NumberOf[t], name |-> name]
             other == IF named = {} THEN NoPartition ELSE CHOOSE q \in named : TRUE
             numeric == Len(parts[2]) = 1 /\ parts[2][1] \in DOMAIN NumberOf
             n == IF numeric THEN NumberOf[parts[2][1]] ELSE NA
             whole == ":" \notin ToSet(Text(p))
  <1>1. Splitn(asked, other, n, name)
    BY DEF Bracket
  <1>2. Ready
    BY <1>1 DEF Splitn
  <1>3. schema \in Schemas /\ Made
    BY <1>2, ReadyFacts
  <1>4. asked.op = "[" /\ asked.p = p /\ asked.s = NumberOf[t] /\ asked.name = name
    OBVIOUS
  <1>5. whole => parts = <<Text(p), <<t>> >>
    <2> SUFFICES ASSUME whole PROVE parts = <<Text(p), <<t>> >>
      OBVIOUS
    <2>1. Text(p) \in Seq(Symbol) /\ t \in Symbol /\ ":" \in Symbol /\ t # ":"
      <3>1. t \in Symbol /\ ":" \in Symbol /\ t # ":"
        BY DataframeAssumption
      <3>2. p.values \in Seq(Seq(Symbol)) /\ schema.separator \in Seq(Symbol)
        BY <1>3, ValuesOfMine, DataframeAssumption
      <3>3. Text(p) \in Seq(Symbol)
        <4>1. PICK f : Joins(f, Symbol, p.values, schema.separator) /\ Text(p) = f[Len(p.values)]
          BY <3>2, JoinDef DEF Text
        <4>2. Len(p.values) \in 0..Len(p.values)
          BY <3>2, LenProperties
        <4> QED BY <4>1, <4>2 DEF Joins
      <3> QED BY <3>1, <3>3
    <2> DEFINE text == Text(p)
               colon == ":"
    <2>2. text \in Seq(Symbol) /\ t \in Symbol /\ colon \in Symbol /\ t # colon /\ colon \notin ToSet(text)
      BY <2>1
    <2> HIDE DEF text, colon
    <2>3. Pieces(text \o <<colon, t>>, {colon}) = <<text, <<t>> >>
      BY <2>2, PiecesOfKey
    <2> QED BY <2>3 DEF text, colon
  <1>6. ASSUME whole PROVE other = p
    <2>1. parts[1] = Text(p)
      BY <1>5, <1>6
    <2>2. p \in named
      BY <2>1
    <2>3. \A q \in named : q = p
      <3> SUFFICES ASSUME NEW q \in Mine, Text(q) = Text(p) PROVE q = p
        BY <2>1
      <3>1. Len(q.values) = Len(p.values) /\ q \in Partitions /\ p \in Partitions
        BY DEF Mine
      <3> QED BY <1>3, <3>1, OneDirectory DEF Text
    <2> QED BY <2>2, <2>3
  <1>7. other \in Mine \cup {NoPartition}
    OBVIOUS
  <1>8. n \in Int
    BY DataframeAssumption, IntMaxAssumption DEF NA
  <1>9. whole => n = NumberOf[t] /\ n # NA
    <2> SUFFICES ASSUME whole PROVE n = NumberOf[t] /\ n # NA
      OBVIOUS
    <2>1. parts = <<Text(p), <<t>> >>
      BY <1>5
    <2> HIDE DEF parts
    <2>2. numeric /\ n = NumberOf[t]
      BY <2>1
    <2> QED BY <2>2, DataframeAssumption
  <1> HIDE DEF asked, n, other
  <1> QED BY <1>1, <1>4, <1>6, <1>7, <1>8, <1>9, SplitnIInv

-----------------------------------------------------------------------------
(* The data frame of a split.                                               *)

\* A data frame of vectors in V under names in N, and where the next name goes.
FrameSet(V, N) ==
  {r \in [vectors : Seq(V), names : Seq(N), o : Nat] :
     Len(r.names) = Len(r.vectors) /\ r.o = Len(r.vectors) + 1}

Empty == [vectors |-> <<>>, names |-> <<>>, o |-> 1]

\* The next name goes after the others.
LEMMA NamedAppends ==
  ASSUME NEW N, NEW names \in Seq(N), NEW o, o = Len(names) + 1, NEW name \in N
  PROVE  Named(names, o, name) = Append(names, name)
  <1> DEFINE n == Len(names)
             z == Append(names, name)
  <1>1. n \in Nat /\ DOMAIN names = 1..n
    BY LenProperties
  <1>2. z \in Seq(N) /\ Len(z) = n + 1 /\ z[n + 1] = name /\ \A i \in 1..n : z[i] = names[i]
    BY AppendProperties
  <1>3. z = [i \in 1..n + 1 |-> z[i]]
    <2> HIDE DEF z, n
    <2> QED BY <1>2, LenProperties
  <1>4. DOMAIN names \cup {o} = 1..n + 1
    BY <1>1
  <1> HIDE DEF z, n
  <1>5. \A i \in 1..n + 1 : i # n + 1 => i \in 1..n
    BY <1>1
  <1>6. z = [i \in 1..n + 1 |-> IF i = n + 1 THEN name ELSE names[i]]
    BY <1>2, <1>3, <1>5
  <1>7. Named(names, o, name) = [i \in 1..n + 1 |-> IF i = n + 1 THEN name ELSE names[i]]
    BY <1>4 DEF Named, n
  <1> QED BY <1>6, <1>7 DEF z

\* One more column, or the same as before.
LEMMA AddColumnFrame ==
  ASSUME NEW V, NEW N, NEW r \in FrameSet(V, N), NEW name \in N, NEW v \in V
  PROVE  LET d == AddColumn(r, name, v)
         IN  /\ d \in FrameSet(V, N)
             /\ v = Null => d = r
             /\ v # Null => /\ d.vectors = Append(r.vectors, v)
                            /\ d.names = Append(r.names, name)
  <1>1. CASE v = Null
    BY <1>1 DEF AddColumn
  <1>2. CASE v # Null
    <2> DEFINE d == AddColumn(r, name, v)
    <2>1. /\ r.vectors \in Seq(V) /\ r.names \in Seq(N) /\ r.o \in Nat
          /\ Len(r.names) = Len(r.vectors) /\ r.o = Len(r.vectors) + 1
      BY DEF FrameSet
    <2>2. Named(r.names, r.o, name) = Append(r.names, name)
      BY <2>1, NamedAppends
    <2>3. d = [vectors |-> Append(r.vectors, v), names |-> Append(r.names, name), o |-> r.o + 1]
      BY <1>2, <2>2 DEF AddColumn
    <2>4. /\ Append(r.vectors, v) \in Seq(V) /\ Len(Append(r.vectors, v)) = Len(r.vectors) + 1
          /\ Append(r.names, name) \in Seq(N) /\ Len(Append(r.names, name)) = Len(r.names) + 1
          /\ Len(r.vectors) \in Nat
      BY <2>1, AppendProperties, LenProperties
    <2> HIDE DEF d
    <2>5. d.vectors = Append(r.vectors, v) /\ d.names = Append(r.names, name) /\ d.o = r.o + 1
      BY <2>3
    <2>6. d \in [vectors : Seq(V), names : Seq(N), o : Nat]
      BY <2>1, <2>3, <2>4
    <2>7. d \in FrameSet(V, N)
      BY <2>1, <2>4, <2>5, <2>6 DEF FrameSet
    <2> QED BY <1>2, <2>5, <2>7 DEF d
  <1> QED BY <1>1, <1>2

\* f has the data frames of the first columns.
Frames(f, n, V, N, p, s) ==
  /\ f \in [0..n -> FrameSet(V, N)]
  /\ f[0] = Empty
  /\ \A i \in 1..n : f[i] = AddColumn(f[i - 1], columns[i].colname, SplitAt(p, s, i))

\* The recursion of as_data_frame_split defines them.
LEMMA FramesDef ==
  ASSUME NEW n \in Nat, NEW p, NEW s, NEW V, NEW N,
         \A i \in 1..n : SplitAt(p, s, i) \in V /\ columns[i].colname \in N,
         NEW df, df = CHOOSE f : f = [i \in 0..n |->
                        IF i = 0 THEN Empty
                        ELSE AddColumn(f[i - 1], columns[i].colname, SplitAt(p, s, i))]
  PROVE  Frames(df, n, V, N, p, s)
  <1> DEFINE X == FrameSet(V, N)
             Body(i, r) == AddColumn(r, columns[i].colname, SplitAt(p, s, i))
             Def(f) == f = [i \in 0..n |-> IF i = 0 THEN Empty ELSE Body(i, f[i - 1])]
             G == [i \in 1..n |-> [r \in X |-> Body(i, r)]]
  <1>1. \A i \in 1..n, r \in X : Body(i, r) \in X
    BY AddColumnFrame
  <1>2. G \in [1..n -> [X -> X]]
    <2> HIDE DEF X, Body
    <2> QED BY <1>1
  <1>3. Empty \in X
    BY DEF Empty, FrameSet
  <1>4. \E f : Def(f)
    <2>1. PICK f : Recursive(f, n, X, Empty, G)
      <3> HIDE DEF G, X
      <3> QED BY <1>2, <1>3, Recursion
    <2>2. f \in [0..n -> X] /\ f[0] = Empty /\ \A i \in 1..n : f[i] = G[i][f[i - 1]]
      BY <2>1 DEF Recursive
    <2>3. \A i \in 0..n : i # 0 => i \in 1..n /\ i - 1 \in 0..n
      OBVIOUS
    <2> HIDE DEF X, Body
    <2>4. \A i \in 0..n : i # 0 => G[i][f[i - 1]] = Body(i, f[i - 1])
      BY <2>2, <2>3
    <2> HIDE DEF G
    <2>5. \A i \in 0..n : f[i] = IF i = 0 THEN Empty ELSE Body(i, f[i - 1])
      BY <2>2, <2>3, <2>4
    <2>6. f = [i \in 0..n |-> IF i = 0 THEN Empty ELSE Body(i, f[i - 1])]
      BY <2>2, <2>5
    <2> QED BY <2>6
  <1>5. Def(df)
    <2>1. df = CHOOSE f : Def(f)
      OBVIOUS
    <2> HIDE DEF Def
    <2> QED BY <1>4, <2>1
  <1> HIDE DEF X, Body
  <1>6. \A i \in 0..n : df[i] = IF i = 0 THEN Empty ELSE Body(i, df[i - 1])
    BY <1>5, Zenon
  <1>7. \A i \in 1..n : df[i] = Body(i, df[i - 1])
    <2>1. \A i \in 1..n : i \in 0..n /\ i # 0
      OBVIOUS
    <2> QED BY <1>6, <2>1
  <1>8. df[0] = Empty
    <2>1. 0 \in 0..n
      OBVIOUS
    <2> QED BY <1>6, <2>1
  <1>9. \A i \in 0..n : df[i] \in X
    <2>1. \A i \in 1..n : df[i - 1] \in X => df[i] \in X
      BY <1>1, <1>7
    <2> QED BY <1>3, <1>8, <2>1, StaysIn
  <1>10. df \in [0..n -> X]
    BY <1>5, <1>9
  <1> QED BY <1>7, <1>8, <1>10 DEF Frames, X, Body

\* The place of a column among some columns.
PlaceIn(read, i) == Cardinality({k \in read : k =< i})

\* Places are counted from one, without gaps.
LEMMA Places ==
  ASSUME NEW n \in Nat, NEW read, read \subseteq 1..n
  PROVE  /\ PlaceIn(read, 0) = 0
         /\ PlaceIn(read, n) = Cardinality(read)
         /\ \A i \in Nat :
              /\ PlaceIn(read, i) \in Nat
              /\ i + 1 \in read => PlaceIn(read, i + 1) = PlaceIn(read, i) + 1
              /\ i + 1 \notin read => PlaceIn(read, i + 1) = PlaceIn(read, i)
              /\ \A k \in read : k =< i => PlaceIn(read, k) \in 1..PlaceIn(read, i)
  <1> DEFINE Up(i) == {k \in read : k =< i}
  <1>1. IsFiniteSet(read)
    <2>1. IsFiniteSet(1..n)
      BY FS_Interval
    <2> QED BY <2>1, FS_Subset
  <1>2. \A i : PlaceIn(read, i) = Cardinality(Up(i))
    BY DEF PlaceIn
  <1>3. \A i : IsFiniteSet(Up(i)) /\ Cardinality(Up(i)) \in Nat
    <2>1. \A i : Up(i) \subseteq read
      OBVIOUS
    <2> HIDE DEF Up
    <2> QED BY <1>1, <2>1, FS_Subset, FS_CardinalityType
  <1>4. \A k \in read : k \in Nat /\ k >= 1 /\ k =< n
    OBVIOUS
  <1>5. \A i, k : k \in Up(i) <=> k \in read /\ k =< i
    OBVIOUS
  <1> HIDE DEF Up
  <1>6. Up(0) = {} /\ Up(n) = read
    <2>1. ASSUME NEW k \in Up(0) PROVE FALSE
      <3>1. k \in read /\ k =< 0
        BY <1>5
      <3>2. k \in Nat /\ k >= 1
        BY <1>4, <3>1
      <3> QED BY <3>1, <3>2
    <2>2. \A k : k \in Up(n) <=> k \in read
      BY <1>4, <1>5
    <2> QED BY <2>1, <2>2, Zenon
  <1>7. ASSUME NEW i \in Nat, i + 1 \in read
        PROVE  Cardinality(Up(i + 1)) = Cardinality(Up(i)) + 1
    <2>1. Up(i + 1) = Up(i) \cup {i + 1} /\ i + 1 \notin Up(i)
      <3>1. \A k \in Nat : k =< i + 1 <=> k =< i \/ k = i + 1
        OBVIOUS
      <3>2. i + 1 \notin Up(i)
        BY <1>5
      <3>3. \A k : k \in Up(i + 1) <=> k \in Up(i) \/ k = i + 1
        BY <1>4, <1>5, <1>7, <3>1
      <3> QED BY <3>2, <3>3, Zenon
    <2> QED BY <1>3, <2>1, FS_AddElement
  <1>8. ASSUME NEW i \in Nat, i + 1 \notin read PROVE Up(i + 1) = Up(i)
    <2>1. \A k \in Nat : k # i + 1 => (k =< i + 1 <=> k =< i)
      OBVIOUS
    <2>2. \A k : k \in Up(i + 1) <=> k \in Up(i)
      BY <1>4, <1>5, <1>8, <2>1
    <2> QED BY <2>2, Zenon
  <1>9. ASSUME NEW i \in Nat, NEW k \in read, k =< i
        PROVE  Cardinality(Up(k)) \in 1..Cardinality(Up(i))
    <2>1. Up(k) \subseteq Up(i) /\ k \in Up(k)
      <3>1. k \in Nat
        BY <1>4, <1>9
      <3>2. \A j \in Nat : j =< k => j =< i
        BY <1>9, <3>1
      <3>3. \A j : j \in Up(k) => j \in Up(i)
        BY <1>4, <1>5, <3>2
      <3>4. k =< k
        BY <3>1
      <3>5. k \in Up(k)
        BY <1>5, <1>9, <3>4, Zenon
      <3> QED BY <3>3, <3>5, Zenon
    <2>2. Cardinality(Up(k)) =< Cardinality(Up(i))
      <3> HIDE DEF Up
      <3> QED BY <1>3, <2>1, FS_Subset
    <2>3. Cardinality(Up(k)) # 0
      <3> HIDE DEF Up
      <3> QED BY <1>3, <2>1, FS_EmptySet
    <2> HIDE DEF Up
    <2> QED BY <1>3, <2>2, <2>3
  <1>10. Cardinality(Up(0)) = 0
    <2> HIDE DEF Up
    <2> QED BY <1>6, FS_EmptySet
  <1> HIDE DEF Up
  <1> QED BY <1>2, <1>3, <1>6, <1>7, <1>8, <1>9, <1>10

\* A data frame of the first columns has what could be read of them, in order.
Aligned(r, read, i, V, N, p, s) ==
  /\ r \in FrameSet(V, N)
  /\ Len(r.vectors) = PlaceIn(read, i)
  /\ \A k \in read : k =< i =>
       /\ r.vectors[PlaceIn(read, k)] = SplitAt(p, s, k)
       /\ r.names[PlaceIn(read, k)] = columns[k].colname

\* One more column: it is put in its place, or it has none.
LEMMA AlignedStep ==
  ASSUME NEW V, NEW N, NEW p, NEW s, NEW n \in Nat, NEW read, read \subseteq 1..n,
         NEW i \in Nat, i + 1 =< n, NEW r, Aligned(r, read, i, V, N, p, s),
         SplitAt(p, s, i + 1) \in V, columns[i + 1].colname \in N,
         SplitAt(p, s, i + 1) # Null <=> i + 1 \in read
  PROVE  Aligned(AddColumn(r, columns[i + 1].colname, SplitAt(p, s, i + 1)), read, i + 1, V, N, p, s)
  <1> DEFINE v == SplitAt(p, s, i + 1)
             name == columns[i + 1].colname
             d == AddColumn(r, name, v)
             P(k) == PlaceIn(read, k)
  <1>1. /\ r \in FrameSet(V, N) /\ Len(r.vectors) = P(i) /\ Len(r.names) = P(i)
        /\ r.vectors \in Seq(V) /\ r.names \in Seq(N)
    BY DEF Aligned, FrameSet
  <1>2. /\ d \in FrameSet(V, N)
        /\ v = Null => d = r
        /\ v # Null => /\ d.vectors = Append(r.vectors, v)
                       /\ d.names = Append(r.names, name)
    <2> HIDE DEF v, name
    <2>1. v \in V /\ name \in N
      BY DEF v, name
    <2> QED BY <1>1, <2>1, AddColumnFrame
  <1>3. \A k \in read : k =< i => /\ P(k) \in 1..P(i)
                                  /\ r.vectors[P(k)] = SplitAt(p, s, k)
                                  /\ r.names[P(k)] = columns[k].colname
    BY Places DEF Aligned
  <1>4. \A k \in read : k =< i + 1 /\ k # i + 1 => k =< i
    OBVIOUS
  <1>5. P(i) \in Nat
    BY Places
  <1> HIDE DEF v, name
  <1>6. CASE i + 1 \in read
    <2>1. P(i + 1) = P(i) + 1
      BY <1>6, Places
    <2>2. v # Null
      BY <1>6 DEF v
    <2>3. d.vectors = Append(r.vectors, v) /\ d.names = Append(r.names, name)
      BY <1>2, <2>2
    <2>4. /\ Len(d.vectors) = P(i) + 1 /\ d.vectors[P(i) + 1] = v
          /\ \A k \in 1..P(i) : d.vectors[k] = r.vectors[k]
      BY <1>1, <2>3, AppendProperties
    <2>5. /\ d.names[P(i) + 1] = name
          /\ \A k \in 1..P(i) : d.names[k] = r.names[k]
      BY <1>1, <2>3, AppendProperties
    <2>6. ASSUME NEW k \in read, k =< i + 1
          PROVE  d.vectors[P(k)] = SplitAt(p, s, k) /\ d.names[P(k)] = columns[k].colname
      <3>1. CASE k = i + 1
        <4>1. P(k) = P(i) + 1
          BY <2>1, <3>1
        <4> HIDE DEF P, d
        <4> QED BY <2>4, <2>5, <3>1, <4>1 DEF v, name
      <3>2. CASE k # i + 1
        <4>1. k =< i
          BY <1>4, <2>6, <3>2
        <4> HIDE DEF P, d
        <4> QED BY <1>3, <2>4, <2>5, <4>1
      <3> QED BY <3>1, <3>2
    <2>7. AddColumn(r, columns[i + 1].colname, SplitAt(p, s, i + 1)) = d
      BY DEF v, name
    <2> HIDE DEF d
    <2> QED BY <1>2, <2>1, <2>4, <2>7, <2>6 DEF Aligned, v, name
  <1>7. CASE i + 1 \notin read
    <2>1. P(i + 1) = P(i) /\ d = r
      BY <1>2, <1>7, Places DEF v
    <2>2. \A k \in read : k =< i + 1 => k =< i
      BY <1>4, <1>7
    <2>7. AddColumn(r, columns[i + 1].colname, SplitAt(p, s, i + 1)) = d
      BY DEF v, name
    <2> HIDE DEF d
    <2> QED BY <1>1, <1>2, <1>3, <2>7, <2>1, <2>2 DEF Aligned
  <1> QED BY <1>6, <1>7

\* And so for all columns, by induction over them.
LEMMA AllAligned ==
  ASSUME NEW V, NEW N, NEW p, NEW s, NEW n \in Nat, NEW read, read \subseteq 1..n,
         NEW df, Frames(df, n, V, N, p, s),
         \A i \in 1..n : /\ SplitAt(p, s, i) \in V /\ columns[i].colname \in N
                         /\ SplitAt(p, s, i) # Null <=> i \in read
  PROVE  Aligned(df[n], read, n, V, N, p, s)
  <1> DEFINE T == {m \in Nat : m =< n => Aligned(df[m], read, m, V, N, p, s)}
  <1>1. 0 \in T
    <2>1. df[0] = Empty /\ 0 \in 0..n /\ df[0] \in FrameSet(V, N)
      BY DEF Frames
    <2>2. Len(df[0].vectors) = 0
      BY <2>1 DEF Empty
    <2>3. PlaceIn(read, 0) = 0
      BY Places
    <2>4. \A k \in read : ~(k =< 0)
      OBVIOUS
    <2> QED BY <2>1, <2>2, <2>3, <2>4 DEF Aligned
  <1>2. ASSUME NEW m \in Nat, m \in T PROVE m + 1 \in T
    <2> SUFFICES ASSUME m + 1 =< n PROVE Aligned(df[m + 1], read, m + 1, V, N, p, s)
      OBVIOUS
    <2> DEFINE i == m + 1
    <2>1. Aligned(df[m], read, m, V, N, p, s) /\ i \in 1..n /\ i - 1 = m
      BY <1>2
    <2>2. df[i] = AddColumn(df[m], columns[i].colname, SplitAt(p, s, i))
      <3> HIDE DEF i
      <3> QED BY <2>1 DEF Frames
    <2>3. /\ SplitAt(p, s, i) \in V /\ columns[i].colname \in N
          /\ SplitAt(p, s, i) # Null <=> i \in read
      BY <2>1
    <2> QED BY <2>1, <2>2, <2>3, AlignedStep
  <1>3. Nat \subseteq T
    <2> HIDE DEF T
    <2>1. T \subseteq Nat
      BY DEF T
    <2> QED BY <1>1, <1>2, <2>1, NatSetInduction
  <1> QED BY <1>3

\* as_data_frame_split: without an error in it, every column that is read is in
\* the data frame, in its place.
LEMMA FrameIInv ==
  ASSUME IInv, NEW p \in Mine \cup {NoPartition}, NEW s \in Int \ {NA}, AsDataFrameSplit(p, s)
  PROVE  IInv'
  <1> DEFINE n    == Len(columns)
             vs   == {SplitAt(p, s, i) : i \in ToSet(Colon(1, n))}
             df   == CHOOSE f : f = [i \in 0..n |->
                       IF i = 0 THEN Empty
                       ELSE AddColumn(f[i - 1], columns[i].colname, SplitAt(p, s, i))]
             all  == df[n]
             call == [op |-> "frame", p |-> p, s |-> s]
             res  == IF Undefined \in vs THEN Undefined
                     ELSE IF Error \in vs THEN Error
                     ELSE [is |-> "frame", vectors |-> all.vectors, names |-> all.names]
             read == {i \in DOMAIN columns : Readable(columns[i], p, s)}
             P(i) == PlaceIn(read, i)
  <1>1. /\ Ready /\ Answer(call, res)
        /\ colnameindex' = colnameindex /\ keyindex' = keyindex
    BY DEF AsDataFrameSplit, Empty
  <1>2. schema \in Schemas /\ Made /\ ExactKeys(keyindex)
    BY <1>1, ReadyFacts
  <1>3. n \in Nat /\ DOMAIN columns = 1..n
    BY <1>2, MadeFacts
  <1>4. FrameOf(call, res)
    <2> SUFFICES ASSUME res.is = "frame"
                 PROVE  /\ DOMAIN res.vectors = 1..Cardinality(read)
                        /\ DOMAIN res.names = DOMAIN res.vectors
                        /\ \A i \in read :
                             /\ res.names[P(i)] = columns[i].colname
                             /\ IF IsKeyColumn(columns[i])
                                THEN res.vectors[P(i)].is = "key"
                                     /\ IsKeyVector(res.vectors[P(i)], columns[i], p, s)
                                ELSE res.vectors[P(i)].is = "mapped"
                                     /\ IsMapped(res.vectors[P(i)], columns[i], p, s)
      <3>1. call.op = "frame" /\ call.p = p /\ call.s = s
        OBVIOUS
      <3> HIDE DEF res, call
      <3> QED BY <3>1 DEF FrameOf, PlaceIn
    <2>1. Undefined.is = "undefined" /\ Error.is = "error"
      BY DEF Undefined, Error
    <2>2. Error \notin vs /\ res = [is |-> "frame", vectors |-> all.vectors, names |-> all.names]
      <3> HIDE DEF vs, all
      <3> QED BY <2>1
    <2>3. res.vectors = all.vectors /\ res.names = all.names
      <3> HIDE DEF res, all
      <3> QED BY <2>2
    <2>4. \A i \in 1..n : SplitAt(p, s, i) # Error
      <3> SUFFICES ASSUME NEW i \in 1..n PROVE SplitAt(p, s, i) \in vs
        BY <2>2
      <3>1. n >= 1 /\ 1 + i - 1 = i /\ n - 1 + 1 = n
        BY <1>3
      <3>2. Colon(1, n) = [k \in 1..n |-> 1 + k - 1]
        BY <3>1 DEF Colon
      <3>3. i \in DOMAIN Colon(1, n) /\ Colon(1, n)[i] = i
        <4> HIDE DEF n
        <4> QED BY <3>1, <3>2
      <3>4. i \in ToSet(Colon(1, n))
        <4> HIDE DEF n
        <4> QED BY <3>3 DEF ToSet
      <3> QED BY <3>4
    <2> HIDE DEF res, vs, n
    <2>5. \A i \in 1..n : Judged(SplitAt(p, s, i), columns[i], p, s)
      BY <1>2, <1>3, SplitOfColumn
    <2>6. /\ \A i \in 1..n : SplitAt(p, s, i) # Null <=> i \in read
          /\ \A i \in read : IF IsKeyColumn(columns[i])
                             THEN SplitAt(p, s, i).is = "key"
                                  /\ IsKeyVector(SplitAt(p, s, i), columns[i], p, s)
                             ELSE SplitAt(p, s, i).is = "mapped"
                                  /\ IsMapped(SplitAt(p, s, i), columns[i], p, s)
      <3> SUFFICES ASSUME NEW i \in 1..n
                   PROVE  /\ SplitAt(p, s, i) # Null <=> Readable(columns[i], p, s)
                          /\ Readable(columns[i], p, s) =>
                               IF IsKeyColumn(columns[i])
                               THEN SplitAt(p, s, i).is = "key"
                                    /\ IsKeyVector(SplitAt(p, s, i), columns[i], p, s)
                               ELSE SplitAt(p, s, i).is = "mapped"
                                    /\ IsMapped(SplitAt(p, s, i), columns[i], p, s)
        BY <1>3
      <3>1. Null.is = "null"
        BY DEF Null
      <3>2. Judged(SplitAt(p, s, i), columns[i], p, s) /\ SplitAt(p, s, i) # Error
        BY <2>4, <2>5
      <3> QED BY <3>1, <3>2 DEF Judged
    <2> DEFINE V == {SplitAt(p, s, i) : i \in 1..n}
               N == {columns[i].colname : i \in 1..n}
    <2>7. \A i \in 1..n : SplitAt(p, s, i) \in V /\ columns[i].colname \in N
      OBVIOUS
    <2>8. read \subseteq 1..n
      BY <1>3
    <2> HIDE DEF V, N, read
    <2>9. Frames(df, n, V, N, p, s)
      BY <1>3, <2>7, FramesDef
    <2> HIDE DEF df
    <2>10. Aligned(all, read, n, V, N, p, s)
      BY <1>3, <2>6, <2>7, <2>8, <2>9, AllAligned
    <2> HIDE DEF all
    <2>11. /\ Len(all.vectors) = Cardinality(read) /\ Len(all.names) = Len(all.vectors)
           /\ all.vectors \in Seq(V) /\ all.names \in Seq(N)
           /\ \A i \in read : i =< n => /\ all.vectors[P(i)] = SplitAt(p, s, i)
                                        /\ all.names[P(i)] = columns[i].colname
      <3>1. PlaceIn(read, n) = Cardinality(read)
        BY <1>3, <2>8, Places
      <3> QED BY <2>10, <3>1 DEF Aligned, FrameSet
    <2>12. DOMAIN all.vectors = 1..Cardinality(read) /\ DOMAIN all.names = DOMAIN all.vectors
      <3>1. DOMAIN all.vectors = 1..Len(all.vectors) /\ DOMAIN all.names = 1..Len(all.names)
        BY <2>11, LenProperties
      <3> QED BY <2>11, <3>1
    <2>13. \A i \in read : i =< n
      BY <2>8
    <2> QED BY <2>3, <2>6, <2>11, <2>12, <2>13
  <1>5. KeyValueOf(call, res) /\ VectorOf(call, res)
    <2>1. call.op = "frame"
      OBVIOUS
    <2> HIDE DEF call, res
    <2> QED BY <2>1 DEF KeyValueOf, VectorOf
  <1> HIDE DEF call, res
  <1> QED BY <1>1, <1>4, <1>5, Replied

\* A reply that is taken leaves nothing to be said.
LEMMA TakeIInv ==
  ASSUME IInv, Take
  PROVE  IInv'
  <1>1. /\ reply' = NoReply /\ reply # NoReply
        /\ schema' = schema /\ columns' = columns /\ status' = status
        /\ colnameindex' = colnameindex /\ keyindex' = keyindex
    BY DEF Take
  <1>2. KeyValueExact' /\ VectorsAreTheirs' /\ FrameAligned'
    <2>1. reply'.call.op = "none"
      BY <1>1 DEF NoReply
    <2> QED BY <2>1 DEF KeyValueExact, VectorsAreTheirs, FrameAligned
  <1>3. TypeOK'
    BY <1>1 DEF IInv, TypeOK
  <1>4. KeyColumns' = KeyColumns /\ (\A name : KeyRank(name)' = KeyRank(name)) /\ (Made' <=> Made)
    BY <1>1, Frozen
  <1>5. IndexExact'
    BY <1>1, <1>4 DEF IInv, IndexExact
  <1> QED BY <1>1, <1>2, <1>3, <1>4, <1>5 DEF IInv

\* Nothing happens.
LEMMA StutterIInv ==
  ASSUME IInv, UNCHANGED vars
  PROVE  IInv'
  <1>1. /\ reply' = reply /\ schema' = schema /\ columns' = columns /\ status' = status
        /\ colnameindex' = colnameindex /\ keyindex' = keyindex
    BY DEF vars
  <1>2. /\ KeyColumns' = KeyColumns /\ (\A name : KeyRank(name)' = KeyRank(name))
        /\ (\A x : Plain(x)' <=> Plain(x)) /\ (\A p : Text(p)' = Text(p)) /\ (Made' <=> Made)
    BY <1>1, Frozen
  <1>3. TypeOK' /\ IndexExact'
    BY <1>1, <1>2 DEF IInv, TypeOK, IndexExact
  <1>4. KeyValueExact'
    BY <1>1, <1>2 DEF IInv, KeyValueExact
  <1>5. VectorsAreTheirs'
    BY <1>1, <1>2, FrozenVectors DEF IInv, VectorsAreTheirs
  <1>6. FrameAligned'
    BY <1>1, FrozenVectors DEF IInv, FrameAligned
  <1> QED BY <1>1, <1>2, <1>3, <1>4, <1>5, <1>6 DEF IInv

\* Every step.
LEMMA NextIInv == IInv /\ [Next]_vars => IInv'
  <1> SUFFICES ASSUME IInv, [Next]_vars PROVE IInv'
    OBVIOUS
  <1>1. CASE Open
    BY <1>1, OpenIInv
  <1>2. CASE Take
    BY <1>2, TakeIInv
  <1>3. ASSUME NEW name, ColIndex(name) PROVE IInv'
    <2> DEFINE call == [op |-> "col_index", name |-> name]
               res  == Got(Looked(colnameindex, name)[name])
    <2>1. /\ Ready /\ Answer(call, res)
          /\ colnameindex' = Looked(colnameindex, name) /\ keyindex' = keyindex
      BY <1>3 DEF ColIndex
    <2>2. call.op \notin {"value", "split", "splitn", "[", "frame"}
      OBVIOUS
    <2> HIDE DEF call, res
    <2> QED BY <2>1, <2>2, Unjudged, Replied
  <1>4. ASSUME NEW name, KeyIndex(name) PROVE IInv'
    <2> DEFINE call == [op |-> "key_index", name |-> name]
               res  == Got(Looked(keyindex, name)[name])
    <2>1. /\ Ready /\ Answer(call, res)
          /\ colnameindex' = colnameindex /\ keyindex' = Looked(keyindex, name)
      BY <1>4 DEF KeyIndex
    <2>2. call.op \notin {"value", "split", "splitn", "[", "frame"}
      OBVIOUS
    <2> HIDE DEF call, res
    <2> QED BY <2>1, <2>2, Unjudged, Replied
  <1>5. ASSUME NEW p \in Mine, NEW name, PartitionsColumnValue(p, name) PROVE IInv'
    BY <1>5, ValueIInv
  <1>6. ASSUME NEW p \in Mine \cup {NoPartition}, NEW s \in Asked, NEW column \in Asked,
               Split(p, s, column)
        PROVE  IInv'
    <2> DEFINE call == [op |-> "split", p |-> p, s |-> s, column |-> column]
               res  == SplitAt(p, s, column)
    <2>1. /\ Ready /\ Answer(call, res)
          /\ colnameindex' = colnameindex /\ keyindex' = keyindex
      BY <1>6 DEF Split
    <2>2. s \in Int \ {NA} /\ column \in Int \ {NA}
      BY DataframeAssumption
    <2>3. VectorOf(call, res)
      BY <2>1, <2>2, SplitTheirs
    <2>4. KeyValueOf(call, res) /\ FrameOf(call, res)
      BY DEF KeyValueOf, FrameOf
    <2> HIDE DEF call, res
    <2> QED BY <2>1, <2>3, <2>4, Replied
  <1>7. ASSUME NEW p \in Mine \cup {NoPartition}, NEW s \in Asked, NEW name, SplitByName(p, s, name)
        PROVE  IInv'
    <2> DEFINE asked == [op |-> "splitn", p |-> p, s |-> s, name |-> name]
    <2>1. Splitn(asked, p, s, name)
      BY <1>7 DEF SplitByName
    <2>2. asked.op = "splitn" /\ asked.p = p /\ asked.s = s /\ asked.name = name
      OBVIOUS
    <2>3. s \in Int /\ s # NA
      BY DataframeAssumption
    <2> HIDE DEF asked
    <2> QED BY <2>1, <2>2, <2>3, SplitnIInv
  <1>8. ASSUME NEW p \in Mine \cup {NoPartition}, NEW s \in Asked, AsDataFrameSplit(p, s)
        PROVE  IInv'
    <2>1. s \in Int \ {NA}
      BY DataframeAssumption
    <2> QED BY <1>8, <2>1, FrameIInv
  <1>9. ASSUME NEW p \in Mine, NEW t \in DOMAIN NumberOf, NEW name, Bracket(p, t, name)
        PROVE  IInv'
    BY <1>9, BracketIInv
  <1>10. CASE UNCHANGED vars
    BY <1>10, StutterIInv
  <1> QED BY <1>1, <1>2, <1>3, <1>4, <1>5, <1>6, <1>7, <1>8, <1>9, <1>10 DEF Next

\* The invariant holds in every state.
LEMMA Invariant == Spec => []IInv
  <1> QED BY InitIInv, NextIInv, PTL DEF Spec

\* The maps never have an index that is no column, whatever is looked up.
THEOREM TypeCorrect == Spec => []TypeOK
  <1>1. IInv => TypeOK
    BY DEF IInv
  <1> QED BY <1>1, Invariant, PTL

\* For every schema and every sequence of lookups, of names it has and names it
\* has not: a name finds its last column and its place among the keys, and no
\* lookup makes a stranger find one (the constructor, col_index, key_index,
\* splitn and columnValueFromPartitionKey, SDataframe.cpp).
THEOREM LookupsAreExact == Spec => []IndexExact
  <1>1. IInv => IndexExact
    BY DEF IInv
  <1> QED BY <1>1, Invariant, PTL

\* For every schema, every separator of one character or several and every
\* partition whose values are not empty and have no character of the separator
\* in them: the value of a key column is the one the name of the partition was
\* made from, and a name that is no key has none (partitions_column_value).
THEOREM KeysHaveTheirValues == Spec => []KeyValueExact
  <1>1. IInv => KeyValueExact
    BY DEF IInv
  <1> QED BY <1>1, Invariant, PTL

\* For every schema and dataset: a column asked for by index, by name or as
\* x["p:s", name] is that column, of that partition and split, with all of its
\* rows; it is NULL or an error only for the reasons MayBeMissing names, and
\* undefined only for an index past the last column (split, splitn, [,
\* sdataframe_key and SdsPartitionCols::split).
THEOREM VectorsAreTheirOwn == Spec => []VectorsAreTheirs
  <1>1. IInv => VectorsAreTheirs
    BY DEF IInv
  <1> QED BY <1>1, Invariant, PTL

\* For every schema and dataset: the data frame of a split has the columns that
\* can be read, in their order, each under its own name, also after columns
\* that are left out (as_data_frame_split).
THEOREM FramesAreAligned == Spec => []FrameAligned
  <1>1. IInv => FrameAligned
    BY DEF IInv
  <1> QED BY <1>1, Invariant, PTL

=============================================================================
