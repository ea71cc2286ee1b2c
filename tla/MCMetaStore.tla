---------------------------- MODULE MCMetaStore ----------------------------
(* Values of the constants of MetaStore for TLC. *)
EXTENDS MetaStore

Text(t) == [text |-> t, num |-> 0, int |-> FALSE]
Digits(t, n) == [text |-> t, num |-> n, int |-> TRUE]

Minus == Digits("-1", -1)
One == Digits("1", 1)
Lines(t, n, subs) == [whole |-> [text |-> t, num |-> n, int |-> FALSE], subs |-> subs]
Alone(s) == [whole |-> s, subs |-> <<s>>]

\* In strcmp order.
MCValues == << Alone(Minus), Alone(One), Lines("1\n-1", 1, <<One, Minus>>),
               Lines("a\nb\na", 0, <<Text("a"), Text("b"), Text("a")>>) >>

\* Numbers and lists of text under key 1; key 2 is "Comments".
MCTakes == << {1, 2, 4}, {4} >>
MCTakesLists == << {1, 2, 3}, {4} >>

\* No put and no query looks at an index on strings.
MCUserIndexes == {<<1, "numeric">>}
MCMinNum == -3

Filter(k, op, operand) == [key |-> k, op |-> op, low |-> operand, high |-> operand + 1,
                           strings |-> {Text("a")}, negate |-> FALSE, group |-> 0]
Not(f) == [f EXCEPT !.negate = TRUE]
Second(f) == [f EXCEPT !.group = 1]
Query(fs, c0, c1, g) == [filters |-> fs, combine |-> <<c0, c1>>, group_combine |-> g]
Other(c) == IF c = "and" THEN "or" ELSE "and"
Single(f) == Query(<<f>>, "and", "and", "and")

\* Text reads as the number 0: the numeric filters leave 0 out.
TextOps == {"exists", "matches", "notequal"}

MCQueries ==
    {Single(Filter(1, op, 0)) : op \in {"num>", "num<", "num!="}} \cup
    {Single(Filter(1, op, 1)) : op \in {"num=", "num>=", "numbetween"}} \cup
    {Single(Filter(1, "num<=", -1))} \cup
    {Single(Filter(k, op, 1)) : k \in {0, 2}, op \in TextOps} \cup
    {Single(Not(Filter(1, op, 1))) : op \in TextOps} \cup
    {Query(<<Filter(1, "num>=", 1), Not(Filter(1, "matches", 1)), Second(Filter(2, "notequal", 1)),
             Second(Filter(1, "num=", 1))>>, c, Other(c), c) : c \in {"and", "or"}}

MCListQueries == {Single(Filter(1, "num=", -1))}

\* Lists of numbers are what the indexes leave out.
ASSUME SuitedAssumption == Takes = MCTakes => \A q \in Queries : QuerySuited(q)
=============================================================================
