----------------------------- MODULE SourceWalk -----------------------------
(***************************************************************************)
(* What the parser gives of a file and what the indexer makes of it        *)
(* (app/indexer_languages.go).  A syntax tree is the sequence of its nodes *)
(* in the order of the text.  A node is a record of its kind (what         *)
(* SymbolKinds or RefKinds make of the type, "other" when neither has it), *)
(* its name (that of the definition, or the text of what is called; ""     *)
(* when there is none), the node it is a child of, 0 for a root, and the   *)
(* last node that is in it.  Every node begins a line of its own and all   *)
(* lines are of one length, so that the number of a node is its line and   *)
(* its byte offset too.                                                    *)
(***************************************************************************)
EXTENDS Naturals, SequencesExt

\* "variable" stands for all kinds that are not the scope of what is inside:
\* constant, interface, constructor, namespace, template, impl, trait, module
\* and property.
SymbolKinds == {"function", "method", "class", "type", "variable"}
RefKinds == {"call", "reference"}
Kinds == SymbolKinds \cup RefKinds \cup {"other"}

\* The nodes that the i-th node is in, itself included.
Around(tree, i) == {j \in 1 .. i : i <= tree[j].end}

\* What a parser makes: a node is within each node it begins in, and a child
\* of the innermost of them.
IsTree(tree) ==
  /\ tree \in Seq([kind : Kinds, name : STRING, parent : Nat, end : Nat])
  /\ \A i \in 1 .. Len(tree) :
       /\ tree[i].end \in i .. Len(tree)
       /\ \A j \in Around(tree, i) : tree[i].end <= tree[j].end
       /\ tree[i].parent = Max({0} \cup (Around(tree, i) \ {i}))

\* The text, a line for each node.
Text(tree) == [i \in DOMAIN tree |-> [kind |-> tree[i].kind, name |-> tree[i].name]]

\* The text of a node.
Listing(tree, i) == SubSeq(Text(tree), i, tree[i].end)

-----------------------------------------------------------------------------
\* extractSymbolFromNode: nothing when no name is found.
ExtractedSymbol(node, file, line, scope) ==
  IF node.kind \in SymbolKinds /\ node.name # ""
    THEN <<[name |-> node.name, kind |-> node.kind, file |-> file, line |-> line,
            end |-> node.end, scope |-> scope]>>
    ELSE <<>>

\* extractRefFromNode.
ExtractedRef(node, file, line, caller) ==
  IF node.kind \in RefKinds /\ node.name # ""
    THEN <<[symbol |-> node.name, kind |-> node.kind, file |-> file, line |-> line,
            caller |-> caller]>>
    ELSE <<>>

\* Mutant of ScopingKinds: every symbol is a scope.
ScopingKindsAll == SymbolKinds

\* The kinds of symbol that become the scope of what is inside.
ScopingKinds == {"class", "type", "function", "method"}

\* One call of walkNode: the scope it is called with is the one its parent,
\* which a root has not, has come to and passes down to all its children.
VisitNode(walked, tree, file, i) ==
  LET node == tree[i]
      scope == IF node.parent \in DOMAIN walked.scopes THEN walked.scopes[node.parent] ELSE ""
      symbol == ExtractedSymbol(node, file, i, scope)
      inner == IF symbol # <<>> /\ node.kind \in ScopingKinds THEN node.name ELSE scope
  IN [symbols |-> walked.symbols \o symbol,
      refs |-> walked.refs \o ExtractedRef(node, file, i, inner),
      scopes |-> Append(walked.scopes, inner)]

\* walkNode calls itself for the nodes in the order of the text.
WalkNode(tree, file) ==
  FoldLeftDomain(LAMBDA walked, i : VisitNode(walked, tree, file, i),
                 [symbols |-> <<>>, refs |-> <<>>, scopes |-> <<>>], tree)

-----------------------------------------------------------------------------
\* The same without a walk, to compare with: the name of the innermost class,
\* type, function or method around a node.
EnclosingName(tree, i) ==
  LET around == {j \in Around(tree, i) :
                   tree[j].kind \in {"class", "type", "function", "method"} /\ tree[j].name # ""}
  IN IF around = {} THEN "" ELSE tree[Max(around)].name
=============================================================================
