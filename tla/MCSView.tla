------------------------------- MODULE MCSView -------------------------------
(* Partitions of six, four and no rows in splits of five: a split with bulk *)
(* and tail, a split that is all tail, one that is all bulk for ints, and   *)
(* one that has no file.                                                    *)
EXTENDS SView

CONSTANTS Distance, Price, Dest, Day, Year, Carrier
          \* columns: an int, a double, a factor, a date, an int and a factor
          \* partition key

MCPart == {1, 2, 3}
MCKind == Distance :> "int32" @@ Price :> "double" @@ Dest :> "factor"
            @@ Day :> "date" @@ Year :> "intkey" @@ Carrier :> "factorkey"

\* Ints and doubles around the value 1 conditions compare with, in steps of a
\* half; the factor is the number of the row, so that rows cannot be confused.
Contents(dist, dbl) ==
  [q \in MCPart |-> [c \in DOMAIN MCKind |->
     LET n == <<6, 4, 0>>[q]
     IN  [j \in 1..n |-> CASE c = Distance -> 2 * dist[q][j]
                           [] c = Price -> dbl[q][j]
                           [] c = Dest -> 20 * q + 2 * j
                           [] c = Year -> 2 * q
                           [] OTHER -> 14]]]

MCDatasets ==
  {Contents(<< <<0, 1, 2, 2, 1, 2>>, <<2, 0, 1, 2>> >>,
            << <<4, NaN, 2, 0, 3, 2>>, <<2, 4, 0, 4>> >>),
   Contents(<< <<2, 2, 0, 0, 2, 1>>, <<0, 0, 1, 0>> >>,
            << <<0, 0, 4, 4, 4, 4>>, <<3, 4, 4, NaN>> >>)}

MCCol        == DOMAIN MCKind
MCLists      == {<<2, 1>>, <<2, 2>>, <<2, 3>>, <<1, 4>>, <<>>}
MCSelections == {<<Price>>, <<Dest, Carrier>>, <<Distance, Price, Day>>}

MCEnv == <<>>
Is(n, op, x)  == [is |-> "call", fn |-> op, args |-> <<[is |-> "name", name |-> n], Const(x)>>]
Of(x, op, n)  == [is |-> "call", fn |-> op, args |-> <<Const(x), [is |-> "name", name |-> n]>>]
And(a, b)     == [is |-> "call", fn |-> "&", args |-> <<a, b>>]
Or(a, b)      == [is |-> "call", fn |-> "|", args |-> <<a, b>>]

\* Among them an operator that is not known, a comparison that always fails,
\* and columns that are no vector or one that may be refused.
MCConditions ==
  {Is(Distance, ">", 2), Is(Distance, "==", 2), Is(Distance, "<=", 2),
   Is(Year, ">=", 2), Is(Carrier, ">", 2), Is(Day, ">", 2),
   And(Of(2, "<=", Distance), Is(Price, "<=", 2)),
   Or(Is(Distance, "<", 2), And(Is(Price, ">", 2), Of(24, "<", Dest)))}

RECURSIVE Subs(_)
Subs(e) == {e} \cup (IF e.is = "call" THEN UNION {Subs(e.args[i]) : i \in DOMAIN e.args} ELSE {})
MCExpr == UNION {Subs(e) : e \in MCConditions}

\* How deep an expression is nested.
MCHeight[e \in MCExpr] ==
  IF e.is = "call" THEN 1 + Max({0} \cup {MCHeight[e.args[i]] : i \in DOMAIN e.args}) ELSE 0
=============================================================================
