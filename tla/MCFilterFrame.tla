---------------------------- MODULE MCFilterFrame ----------------------------
(* Partitions of a full split and one more row, of two rows, of one row and *)
(* of none; the columns are an int, a double, one for every name filter     *)
(* uses, and a factor, a date and a string.  Two files are gone.            *)
EXTENDS FilterFrame

Used == {"rows", "s", "p", "vec", "col", "cols", "parsed", ".v", "b"}

Other   == "f" :> "factor" @@ "d" :> "Date" @@ "t" :> "character"
MCCol   == {"x", "y"} \cup Used \cup DOMAIN Other
MCClass == Other @@ [c \in MCCol |-> IF c \in {"y", "vec"} THEN "double" ELSE "integer"]
MCLost  == {<<3, "f">>, <<3, "b">>}

\* Cells are ints -1, 0, 1, 2 and NA in steps of a half; one double is 1/2.
MCData ==
  << [c \in MCCol |-> CASE c = "x" -> <<0, NAInt, 4, 2, 2>>
                        [] c = "y" -> <<1, NaN, 2, 0, 1>>
                        [] OTHER -> <<4, 2, -2, 0, 2>>],
     [c \in MCCol |-> CASE c = "x" -> <<2, 0>>
                        [] c = "y" -> <<2, 1>>
                        [] OTHER -> <<0, 4>>],
     [c \in MCCol |-> IF c = "x" THEN <<2>> ELSE <<4>>],
     [c \in MCCol |-> <<>>] >>

\* y and u are bound too, but y is a column; w is bound to nothing.
MCLists == {<<>>, <<1, 2>>, <<3, 3>>, <<2, 4>>}

MCEnv == "u" :> 2 @@ "y" :> 7

Name(n)      == [is |-> "name", name |-> n]
Call(f, a)   == [is |-> "call", fn |-> f, args |-> a]
Sides        == {Name(n) : n \in {"x", "y", "u", "w"}} \cup {Const(v) : v \in {-1, 1, 2, 800}}

\* Every comparison of two simple operands, some with a parenthesis, an
\* operator that is not known or the wrong number of operands.
MCComparisons ==
  {Call(f, <<a, b>>) : f \in DOMAIN Generic, a \in Sides, b \in Sides}
    \cup {Call("==", <<Name("x"), Const(2)>>), Call("(", <<Call(">", <<Name("x"), Const(2)>>)>>),
          Call(">", <<Name("x")>>), Call(">", <<Name("x"), Call("-", <<Const(2)>>)>>)}

\* Two of them, and a third.
Left  == {Call(">", <<Name("x"), Const(2)>>), Call(">=", <<Const(1), Name("y")>>),
          Call("(", <<Call("<", <<Const(2), Name("x")>>)>>), Call("<", <<Name("u"), Const(4)>>)}
Right == {Call("<=", <<Name("y"), Name("u")>>), Call("<", <<Const(0), Name("x")>>)}
MCPairs == {Call(f, <<a, b>>) : f \in {"&", "|"}, a \in Left, b \in Right}
MCTrips == {Call(f, <<a, b>>) : f \in {"&", "|"}, a \in MCPairs,
              b \in {Call(">", <<Name("x"), Const(0)>>), Name("x")}}

\* A column with a name that filter uses, or of another class, alone, before
\* and after x and y.
MCUsed ==
  LET is(n) == Call(">", <<Name(n), Const(0)>>)
      le(n) == Call("<=", <<Name(n), Const(0)>>)
  IN  {is(n) : n \in Used \cup DOMAIN Other} \cup {le("f")}
        \cup {Call("&", <<is("x"), is(n)>>) : n \in DOMAIN Other}
        \cup {Call("&", <<is(n), is(m)>>) : n, m \in Used \cup {"x", "y"}}
        \cup {Call("&", <<le(n), is(m)>>) : n \in {"y", "vec"}, m \in Used \cup {"x", "y"}}

MCFilters == MCComparisons \cup MCPairs \cup MCTrips \cup MCUsed \cup {Name("x"), Const(2)}

MCExpr == MCFilters \cup UNION {{e.args[i] : i \in DOMAIN e.args} :
            e \in {f \in MCFilters \cup Left \cup Right : f.is = "call"}} \cup Left \cup Right
             \cup {Const(0), Const(2), Const(4), Call("<", <<Const(2), Name("x")>>)}

\* How deep an expression is nested.
MCHeight[e \in MCExpr] ==
  IF e.is = "call" THEN 1 + Max({0} \cup {MCHeight[e.args[i]] : i \in DOMAIN e.args}) ELSE 0
=============================================================================
