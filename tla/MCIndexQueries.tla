-------------------------- MODULE MCIndexQueries ---------------------------
(* Small repositories for IndexQueries: a file of one or two top-level items,
   and a second file that may call back. *)
EXTENDS IndexQueries

\* A tree as it is nested, and its nodes in the order of the text.
N(kind, name, kids) == [kind |-> kind, name |-> name, kids |-> kids]

RECURSIVE Laid(_, _, _)
Laid(nested, parent, line) ==
  LET below == FoldLeft(LAMBDA laid, kid : laid \o Laid(kid, line, line + Len(laid) + 1), <<>>, nested.kids)
  IN <<[kind |-> nested.kind, name |-> nested.name, parent |-> parent, end |-> line + Len(below)]>>
       \o below

Call(name) == N("call", name, <<>>)
\* x.get(): the call has the qualified name, and a reference to x inside.
Method == N("call", "x.get", <<N("reference", "x", <<>>)>>)
Function(name, body) == N("function", name, body)
Root(items) == Laid(N("other", "", items), 0, 1)

Bodies == {<<>>, <<Call("get")>>, <<Call("list")>>, <<Call("is")>>, <<Call("list"), Call("is")>>,
           <<Call("is"), Call("get")>>, <<Call("list"), Call("list")>>}
Special == {Function("list", <<Function("", <<Call("get")>>)>>),
            N("type", "list", <<N("method", "get", <<Call("is")>>), Call("list")>>),
            Function("get", <<N("variable", "list", <<Call("get")>>), Call("is")>>),
            Call("get"), Function("is", <<Method>>), Function("list?", <<Call("get")>>)}
Items == {Function(n, b) : n \in {"get", "list"}, b \in Bodies}
SecondItems == {Function("list", <<Call("get")>>), N("variable", "get", <<>>), Call("list")}
First == {Root(<<>>)} \cup {Root(<<i>>) : i \in Items \cup Special}
           \cup {Root(<<i, j>>) : i \in Items, j \in SecondItems}
Second == {Root(<<>>), Root(<<Function("is", <<Call("list")>>)>>),
           Root(<<Function("get", <<Call("is")>>)>>)}

MCFiles == <<"f", "g">>
MCSources == {[file \in {"f", "g"} |-> IF file = "f" THEN t ELSE u] : t \in First, u \in Second}
MCEdits == {Missing, Root(<<Call("is"), Function("get", <<Call("list")>>)>>)}
MCNames == {"get", "list", "is", "list?"}
\* "is" is a word of no weight to the search, and "list?" a wildcard.
MCStopWords == {"is"}
MCExpressions == {"list?"}
MCContained == {<<"is", "list">>, <<"is", "list?">>, <<"list", "list?">>}
MCEntryPoints == {"is"}
MCBudgets == {1, 6, 12}
MCDepths == {0, 1, 2}
\* No such file, or one whose second line was added.
MCStrays == {<<>>, <<"=", "+">>}
=============================================================================
