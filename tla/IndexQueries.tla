---------------------------- MODULE IndexQueries ----------------------------
(***************************************************************************)
(* What the index answers: the tools of the MCP server (app/mcp_server.go) *)
(* and the queries of the indexer (app/indexer_treesitter.go,              *)
(* app/indexer_search.go, app/indexer_git.go) over the symbols and the     *)
(* references that SourceWalk extracts, and CallGraph.  The files may      *)
(* change once after they were indexed.  How the index follows them is the *)
(* subject of TreeSitterIndexer; here the tables stay as built.            *)
(***************************************************************************)
EXTENDS SourceWalk, CallGraph

CONSTANTS
  Files,       \* the files, in the order git lists them
  Sources,     \* bound: the repositories looked at, file -> syntax tree
  Edits,       \* bound: the trees, or Missing, an edit makes of a file
  Names,       \* the names asked for
  StopWords,   \* those that have no term in the search index (is, all, not, ...)
  Expressions, \* those that are not a word to the query parser (empty?)
  Contained,   \* pairs of a name and a longer one that contains it
  EntryPoints, \* the names isLikelyEntryPoint knows
  Budgets,     \* bound: the token budgets asked for
  Depths,      \* bound: the depths asked for
  DiffLines,   \* bound: the lines of the largest file that is compared
  Strays,      \* bound: the changes of a file whose name git quotes
  NodeBytes,   \* bytes in a line
  Missing, None

ASSUME ConstantsAssumption ==
  /\ \A i, j \in 1 .. Len(Files) : i # j => Files[i] # Files[j]
  /\ Files \in Seq(STRING \ {""}) /\ Names \subseteq STRING /\ EntryPoints \subseteq Names
  /\ StopWords \subseteq Names /\ Expressions \subseteq Names /\ Contained \subseteq Names \X Names
  /\ \A s \in Sources : DOMAIN s = ToSet(Files) /\ \A f \in ToSet(Files) : IsTree(s[f])
  /\ \A tree \in Edits \ {Missing} : IsTree(tree)
  /\ Budgets \subseteq Nat /\ Depths \subseteq Int
  /\ Strays \subseteq Seq({"=", "+", "-"})
  /\ DiffLines \in Nat /\ NodeBytes \in Nat \ {0}

\* None is no hunk of a diff.
ASSUME NoneAssumption == None \notin [file : STRING \cup {""}, added : Seq(Int), removed : Seq(Int)]

VARIABLES
  registered,  \* whether SessionAPI.indexers has an indexer of the session
  source,      \* what was indexed
  disk,        \* what the files hold now
  symbols,     \* TreeSitterIndexer.symbols, of all names in one sequence
  refs,        \* TreeSitterIndexer.callgraph
  answer       \* the call answered last: its tool, arguments and result

vars == <<registered, source, disk, symbols, refs, answer>>

-----------------------------------------------------------------------------
Walked(s, file) == WalkNode(s[file], file)

\* A build takes the symbols of the files in any order.
SymbolsOf(s, order) == FlattenSeq([i \in DOMAIN order |-> Walked(s, order[i]).symbols])
RefsOf(s) == FlattenSeq([i \in DOMAIN Files |-> Walked(s, Files[i]).refs])

LookupSymbol(name) == Only(symbols, {s \in ToSet(symbols) : s.name = name})

Content(file) == IF disk[file] = Missing THEN <<>> ELSE Text(disk[file])

\* Mutant of EndOffset: the last line is left out.
EndOffsetEarly(symbol) == symbol.end - 1

\* The byte offset a symbol ends at.
EndOffset(symbol) == symbol.end

\* GetSymbolContent fails when the file is gone, or too short by now.
Readable(symbol) == disk[symbol.file] # Missing /\ symbol.end <= Len(Content(symbol.file))
SymbolContent(symbol) == SubSeq(Content(symbol.file), symbol.line, EndOffset(symbol))

EstimateTokens(length) == (length + 3) \div 4
ContentTokens(symbol) == EstimateTokens(NodeBytes * Len(SymbolContent(symbol)))

-----------------------------------------------------------------------------
\* The search index has one document for each file and name.
DocID(symbol) == <<symbol.file, symbol.name>>

\* The documents of an indexed batch: the later of two replaces the earlier.
Documents ==
  {symbols[i] : i \in {j \in DOMAIN symbols :
                         \A k \in DOMAIN symbols : k > j => DocID(symbols[k]) # DocID(symbols[j])}}

\* A word is looked for in names and scopes, whose stop words the analyzer has
\* dropped, as it drops one that is asked for.  (Signatures are searched too:
\* the trees have no parameters.)
Matching(query) == {s \in Documents : query \notin StopWords \cup {""} /\ query \in {s.name, s.scope}}

\* Of a word found nowhere the terms that contain it, by a wildcard.
Containing(query) == {s \in Documents : s.name \notin StopWords /\ (query = "" \/ <<query, s.name>> \in Contained)}

\* The sets bleve may find: for what the query parser takes for an expression,
\* any.
Found(query) ==
  IF query \in Expressions THEN SUBSET Documents
  ELSE {IF Matching(query) # {} THEN Matching(query) ELSE Containing(query)}

\* What Search may return, as long as bleve does not fail: its ranking is not
\* modelled.
Rankings(query) == UNION {SetToSeqs(hits) : hits \in Found(query)}

\* When bleve fails, Search finds nothing.
NoHits == <<>>

-----------------------------------------------------------------------------
\* SearchWithBudget takes a symbol that fits.  The first that does not ends
\* the search, and is taken when there is nothing yet.
Pack(packed, symbol, tokens, budget) ==
  IF packed.full THEN packed
  ELSE IF packed.used + tokens > budget
    THEN [packed EXCEPT !.results = IF @ = <<>> THEN <<[symbol |-> symbol, tokens |-> tokens]>> ELSE @,
                        !.full = TRUE]
  ELSE [packed EXCEPT !.results = Append(@, [symbol |-> symbol, tokens |-> tokens]),
                      !.used = @ + tokens]

\* Of the hits, with their content, those that can be read.
SearchWithBudget(hits, budget) ==
  FoldLeft(LAMBDA packed, s : IF Readable(s) THEN Pack(packed, s, ContentTokens(s), budget) ELSE packed,
           [results |-> <<>>, used |-> 0, full |-> FALSE], hits).results

-----------------------------------------------------------------------------
\* Mutant of RelatedBudget: half of what was left before the symbol itself.
RelatedBudgetGross(budget, used, primary) == (budget - used) \div 2

\* Half of what is left, rounded towards zero.
RelatedBudget(budget, used, primary) ==
  LET left == budget - used - primary IN IF left < 0 THEN -((-left) \div 2) ELSE left \div 2

\* The definitions of what a symbol calls, each name once and its first
\* definition only, as far as they fit.
Related(symbol, budget) ==
  LET callees == FindCallees(refs, symbol.name)
      first == Only([i \in DOMAIN callees |-> i],
                    {i \in DOMAIN callees : \A j \in 1 .. i - 1 : callees[j].symbol # callees[i].symbol})
      Add(related, i) ==
        LET defs == LookupSymbol(callees[i].symbol) IN
        IF defs = <<>> \/ ~Readable(defs[1]) \/ related.tokens + ContentTokens(defs[1]) > budget
          THEN related
          ELSE [symbols |-> Append(related.symbols, defs[1]),
                tokens |-> related.tokens + ContentTokens(defs[1])]
  IN FoldLeft(Add, [symbols |-> <<>>, tokens |-> 0], first)

\* The symbol with its related ones.
Bundle(symbol, budget, used) ==
  LET primary == ContentTokens(symbol)
      related == Related(symbol, RelatedBudget(budget, used, primary))
  IN [primary |-> symbol, related |-> related.symbols, tokens |-> primary + related.tokens]

\* SearchWithContext: the first symbol always gets a bundle.
SearchWithContext(hits, budget) ==
  LET Add(packed, s) ==
        IF packed.full \/ ~Readable(s) THEN packed
        ELSE IF packed.used + ContentTokens(s) > budget /\ packed.bundles # <<>>
          THEN [packed EXCEPT !.full = TRUE]
        ELSE LET bundle == Bundle(s, budget, packed.used)
             IN [bundles |-> Append(packed.bundles, bundle), used |-> packed.used + bundle.tokens,
                 full |-> packed.used + bundle.tokens >= budget]
  IN FoldLeft(Add, [bundles |-> <<>>, used |-> 0, full |-> FALSE], hits).bundles

-----------------------------------------------------------------------------
(***************************************************************************)
(* The changes since a commit.  A script says how a file came from the old *)
(* one: which lines were added, and before which of them one was removed.  *)
(* Script spells it out: whether each line of either was kept, removed or  *)
(* added, in order.  (A line of 64 KB would end the parsing of the diff,   *)
(* unnoticed: here the lines are shorter.)                                 *)
(***************************************************************************)
Scripts == [removed : 0 .. DiffLines + 1, added : SUBSET (1 .. DiffLines)]

Script(script, lines) ==
  FlattenSeq([i \in 1 .. lines + 1 |->
     (IF i = script.removed THEN <<"-">> ELSE <<>>)
       \o (IF i > lines THEN <<>> ELSE IF i \in script.added THEN <<"+">> ELSE <<"=">>)])

\* A run of changed lines: git's hunk header and the lines.
HunkText(run) ==
  IF run.removed + run.added = 0 THEN <<>>
  ELSE <<[type |-> "@", old |-> IF run.removed = 0 THEN run.old ELSE run.old - run.removed + 1,
          new |-> IF run.added = 0 THEN run.new ELSE run.new - run.added + 1]>>
         \o [i \in 1 .. run.removed |-> [type |-> "-"]] \o [i \in 1 .. run.added |-> [type |-> "+"]]

\* A changed line belongs to the run; the next that was kept ends it.
Compare(run, op) ==
  CASE op = "-" -> [run EXCEPT !.old = @ + 1, !.removed = @ + 1]
    [] op = "+" -> [run EXCEPT !.new = @ + 1, !.added = @ + 1]
    [] op = "=" -> [old |-> run.old + 1, new |-> run.new + 1, removed |-> 0, added |-> 0,
                    text |-> run.text \o HunkText(run)]

\* git diff --unified=0 of one file.
FileDiff(header, script) ==
  LET all == FoldLeft(Compare, [old |-> 0, new |-> 0, removed |-> 0, added |-> 0, text |-> <<>>],
                      Append(script, "=")).text
  IN IF all = <<>> THEN <<>>
     ELSE <<header, [type |-> "-"], [type |-> "+"]>> \o all

Header(file) == [type |-> "diff", file |-> file]

\* A header diffFilePattern does not match: git quotes names that are not plain
\* ASCII, here and to the index, which has no such file.
QuotedHeader == [type |-> "quoted"]

\* The files in git's order, each perhaps followed by one with a quoted name.
DiffOf(script, stray) ==
  FlattenSeq([i \in DOMAIN Files |->
                FileDiff(Header(Files[i]), script[Files[i]]) \o FileDiff(QuotedHeader, stray[Files[i]])])

\* Mutant of AllHunks: the last hunk is forgotten.
AllHunksButLast(parsed) == parsed.hunks

\* The hunk in hand at the end of the output, too.
AllHunks(parsed) ==
  IF parsed.hunk = None THEN parsed.hunks ELSE Append(parsed.hunks, parsed.hunk)

\* One line of the output; the headers of the next file, --- and +++, count as
\* lines of the hunk before.
ParseLine(parsed, line) ==
  CASE line.type = "diff" -> [parsed EXCEPT !.file = line.file]
    [] line.type = "@" ->
         [parsed EXCEPT !.hunks = AllHunks(parsed), !.added = line.new, !.removed = line.old,
                        !.hunk = [file |-> parsed.file, added |-> <<>>, removed |-> <<>>]]
    [] line.type = "+" /\ parsed.hunk # None ->
         [parsed EXCEPT !.hunk.added = Append(@, parsed.added), !.added = @ + 1]
    [] line.type = "-" /\ parsed.hunk # None ->
         [parsed EXCEPT !.hunk.removed = Append(@, parsed.removed), !.removed = @ + 1]
    [] OTHER -> parsed

\* parseDiffOutput.
ParseDiffOutput(diff) ==
  AllHunks(FoldLeft(ParseLine, [file |-> "", hunks |-> <<>>, hunk |-> None, added |-> 0, removed |-> 0],
                    diff))

\* getChangeType, which calls every change a modification.
Touches(hunk, symbol) ==
  \E line \in ToSet(hunk.added) \cup ToSet(hunk.removed) : line \in symbol.line .. symbol.end

\* GetChangedSymbols: each name once in a file.
GetChangedSymbols(diff) ==
  LET hunks == ToSet(ParseDiffOutput(diff))
  IN {<<s.file, s.name>> : s \in {t \in ToSet(symbols) : \E hunk \in hunks : hunk.file = t.file /\ Touches(hunk, t)}}

-----------------------------------------------------------------------------
Init ==
  /\ source \in Sources /\ disk = source
  /\ \E order \in SetToSeqs(ToSet(Files)) : symbols = SymbolsOf(source, order)
  /\ refs = RefsOf(source)
  /\ registered = TRUE /\ answer = None

\* An edit the index has not seen.
Edit(file) ==
  /\ answer = None /\ disk = source
  /\ \E tree \in Edits : disk' = [disk EXCEPT ![file] = tree]
  /\ UNCHANGED <<registered, source, symbols, refs, answer>>

\* The session ends, and its indexer goes.
StopIndexer ==
  /\ answer = None
  /\ registered' = FALSE
  /\ UNCHANGED <<source, disk, symbols, refs, answer>>

Answer(tool, argument, status, result) ==
  /\ answer = None
  /\ answer' = [tool |-> tool, argument |-> argument, status |-> status, result |-> result]
  /\ UNCHANGED <<registered, source, disk, symbols, refs>>

\* An answer of the session's indexer.
Answers(tool, argument, result) == registered /\ Answer(tool, argument, "ok", result)

\* getIndexer fails, and with it every tool.
Refused == ~registered /\ Answer("any", None, "no_indexer", <<>>)

\* handleCodeSearch.  History: whether bleve failed, which the caller is not
\* told.
CodeSearch ==
  \E query \in Names \cup {""} : \E limit \in 1 .. 2 :
    \/ \E hits \in Rankings(query) :
         Answers("code_search", <<query, limit, FALSE>>, SubSeq(hits, 1, Min({limit, Len(hits)})))
    \/ Answers("code_search", <<query, limit, TRUE>>, NoHits)

\* handleGetSymbolSource: the first definition, by its byte offsets, or else
\* by its lines.
GetSymbolSource ==
  \E name \in Names :
    LET defs == LookupSymbol(name) IN
    /\ registered
    /\ IF defs = <<>> THEN Answer("get_symbol_source", name, "not_found", <<>>)
       ELSE IF disk[defs[1].file] = Missing THEN Answer("get_symbol_source", name, "failed", <<>>)
       ELSE Answer("get_symbol_source", name, "ok",
                   IF Readable(defs[1]) THEN SymbolContent(defs[1])
                   ELSE SubSeq(Content(defs[1].file), defs[1].line, Len(Content(defs[1].file))))

\* handleGetFileOutline: by line.
GetFileSymbols ==
  \E file \in ToSet(Files) :
    Answers("get_file_symbols", file,
            SortSeq(Only(symbols, {s \in ToSet(symbols) : s.file = file}), LAMBDA s, t : s.line < t.line))

\* handleFindCallers.
FindReferences == \E name \in Names : Answers("find_references", name, FindCallers(refs, name))

\* handleFindCallees.
GetCallGraph == \E name \in Names : Answers("get_call_graph", name, FindCallees(refs, name))

\* handleSmartLookup.
SmartLookup ==
  \E query \in Names \cup {""} : \E hits \in Rankings(query) \cup {NoHits} : \E budget \in Budgets :
    Answers("smart_lookup", budget, SearchWithContext(hits, budget))

\* TreeSitterIndexer.SearchWithBudget, with the content.
BudgetSearch ==
  \E query \in Names \cup {""} : \E hits \in Rankings(query) \cup {NoHits} : \E budget \in Budgets :
    Answers("budget_search", <<hits, budget>>, SearchWithBudget(hits, budget))

\* TreeSitterIndexer.GetBlastRadius.
BlastRadius ==
  \E name \in Names : \E depth \in Depths :
    Answers("blast_radius", <<name, depth>>, GetBlastRadius(refs, name, depth))

\* TreeSitterIndexer.FindDeadCode.
DeadCode == Answers("dead_code", None, FindDeadCode(refs, symbols, EntryPoints))

\* TreeSitterIndexer.GetPageRank.
Ranks == Answers("page_rank", None, PageRank(refs))

\* TreeSitterIndexer.GetCentrality.
SymbolCentrality == \E name \in Names : Answers("centrality", name, Centrality(refs, name))

\* TreeSitterIndexer.GetChangedSymbols, from an old commit to a worktree that
\* is as indexed.  History: whether git diff failed.
ChangedSymbols ==
  /\ registered /\ answer = None /\ disk = source
  /\ \A f \in ToSet(Files) : Len(disk[f]) <= DiffLines
  /\ \E scripts \in [ToSet(Files) -> Scripts] :
       /\ \A f \in ToSet(Files) :
            scripts[f].removed <= Len(disk[f]) + 1 /\ scripts[f].added \subseteq 1 .. Len(disk[f])
       /\ \E stray \in [ToSet(Files) -> Strays] :
            LET script == [f \in ToSet(Files) |-> Script(scripts[f], Len(disk[f]))]
            IN Answers("changed_symbols", [script |-> script, failed |-> FALSE],
                       GetChangedSymbols(DiffOf(script, stray)))

\* getGitDiffHunks takes a failure without output for an empty diff, and
\* reports one with output.
DiffFails ==
  LET argument == [script |-> <<>>, failed |-> TRUE]
  IN \/ Answers("changed_symbols", argument, {})
     \/ registered /\ Answer("changed_symbols", argument, "failed", <<>>)

\* The caller has its answer.
Answered ==
  /\ answer # None
  /\ answer' = None
  /\ UNCHANGED <<registered, source, disk, symbols, refs>>

Next ==
  \/ \E f \in ToSet(Files) : Edit(f)
  \/ StopIndexer \/ Refused
  \/ CodeSearch \/ GetSymbolSource \/ GetFileSymbols \/ FindReferences \/ GetCallGraph
  \/ SmartLookup \/ BudgetSearch \/ BlastRadius \/ DeadCode \/ Ranks \/ SymbolCentrality
  \/ ChangedSymbols \/ DiffFails \/ Answered

Spec == Init /\ [][Next]_vars

-----------------------------------------------------------------------------
(***************************************************************************)
(* Properties.  They compare an answer with the syntax trees themselves,   *)
(* not with the tables.                                                    *)
(***************************************************************************)
Is(tool) == answer # None /\ answer.tool = tool /\ answer.status = "ok"

\* The nodes of all files; a node is its place, its file and its line.
Node == {n \in ToSet(Files) \X UNION {DOMAIN source[f] : f \in ToSet(Files)} : n[2] \in DOMAIN source[n[1]]}
At(n) == source[n[1]][n[2]]
Enclosing(n) == EnclosingName(source[n[1]], n[2])

Definitions == {n \in Node : At(n).kind \in SymbolKinds /\ At(n).name # ""}
References == {n \in Node : At(n).kind \in RefKinds /\ At(n).name # ""}

\* find_references gives each place where the name is called, once, with the
\* innermost named function or type around it, and get_call_graph each call
\* whose innermost such function has the name: walkNode's scope, passed down
\* through anonymous functions and variables, is that function.  What is
\* reported as dead code is called nowhere by its name.
ReferencesExact ==
  /\ Is("find_references") =>
       LET there == {n \in References : At(n).name = answer.argument}
       IN /\ Len(answer.result) = Cardinality(there)
          /\ {<<<<r.file, r.line>>, r.caller>> : r \in ToSet(answer.result)}
               = {<<n, Enclosing(n)>> : n \in there}
  /\ Is("get_call_graph") =>
       LET there == {n \in References : Enclosing(n) = answer.argument}
       IN /\ Len(answer.result) = Cardinality(there)
          /\ {<<<<r.file, r.line>>, r.symbol>> : r \in ToSet(answer.result)}
               = {<<n, At(n).name>> : n \in there}
  /\ Is("dead_code") =>
       \A s \in answer.result : s.name \notin EntryPoints /\ \A n \in References : At(n).name # s.name

\* code_search finds a name in every file that defines it, as far as the
\* limit goes: of several definitions in one file, only one.  That does not
\* hold of the names the analyzer drops, of those the query parser takes for an
\* expression, nor when bleve fails, of which the answer says nothing.  And
\* get_symbol_source, of a file that is still as it was indexed, gives the
\* text of a definition of any such name, and all of it.
DefinitionsFound ==
  /\ Is("code_search") =>
       LET query == answer.argument[1]
           limit == answer.argument[2]
           failed == answer.argument[3]
       IN query \notin StopWords \cup Expressions /\ ~failed /\ Len(answer.result) < limit =>
            {n[1] : n \in {m \in Definitions : At(m).name = query}} \subseteq {s.file : s \in ToSet(answer.result)}
  /\ Is("get_symbol_source") /\ disk = source =>
       \E n \in Definitions : At(n).name = answer.argument /\ answer.result = Listing(source[n[1]], n[2])

Total(sizes) == FoldLeft(LAMBDA sum, size : sum + size, 0, sizes)

\* What the code keeps of the budget that smart_lookup's description promises
\* for the response (mcp_server.go:305, 312, 327): the content of the symbols
\* stays within it, unless the first alone is larger, which then comes all the
\* same, without its callees.  (The headings around them are not counted.)  And
\* a search with a budget returns the best of its readable hits without a gap,
\* and stops only where the next does not fit.
BudgetKept ==
  /\ Is("smart_lookup") =>
       \/ Total([i \in DOMAIN answer.result |-> answer.result[i].tokens]) <= answer.argument
       \/ Len(answer.result) = 1 /\ answer.result[1].related = <<>>
  /\ Is("budget_search") =>
       LET readable == Only(answer.argument[1], {s \in ToSet(symbols) : Readable(s)})
           Tokens(n) == Total([i \in 1 .. n |-> ContentTokens(readable[i])])
           taken == Len(answer.result)
       IN /\ [i \in 1 .. taken |-> answer.result[i].symbol] = SubSeq(readable, 1, taken)
          /\ Tokens(taken) <= answer.argument[2] \/ taken = 1
          /\ taken < Len(readable) => taken >= 1 /\ Tokens(taken + 1) > answer.argument[2]

\* The named functions that call one of the names.
CallersOf(names) == {Enclosing(n) : n \in {m \in References : At(m).name \in names}} \ {""}

\* The blast radius has every function from which the symbol is reached
\* within the depth, once and with its distance, the nearest first, though
\* the calls may go in circles.  And as long as nobody calls a function twice
\* the ranks are a distribution, up to rounding: none is below its share of
\* the random jumps, and their sum is not above 1.  A second call is counted,
\* but not divided for.
DependentsExact ==
  /\ Is("blast_radius") =>
       LET depth == IF answer.argument[2] <= 0 THEN 5 ELSE answer.argument[2]
           steps[k \in 0 .. depth] == IF k = 0 THEN {answer.argument[1]} ELSE CallersOf(steps[k - 1])
           found == answer.result
       IN /\ {d.symbol : d \in ToSet(found)} = UNION {steps[k] : k \in 1 .. depth}
          /\ \A i \in DOMAIN found :
               /\ found[i].depth = Min({k \in 1 .. depth : found[i].symbol \in steps[k]})
               /\ \A j \in 1 .. i - 1 : found[j].symbol # found[i].symbol /\ found[j].depth <= found[i].depth
  /\ Is("page_rank") /\ (\A i, j \in DOMAIN refs :
                            i # j => <<refs[i].caller, refs[i].symbol>> # <<refs[j].caller, refs[j].symbol>>) =>
       /\ MapThenSumSet(LAMBDA r : r.score, answer.result) <= Scale
       /\ \A r \in answer.result : r.score >= (3 * Scale) \div (20 * Cardinality(answer.result))

\* Unless git diff failed, which may look like a commit without changes, a
\* symbol with a line that was added is among the changed ones.  And no symbol
\* is of a file that has not changed, though a symbol may be there for a hunk
\* of the next file, if that one's name is quoted.
ChangesFound ==
  Is("changed_symbols") /\ ~answer.argument.failed =>
    LET script == answer.argument.script
        Now(file) == Only(script[file], {"=", "+"})
    IN /\ \A n \in Definitions :
            (\E i \in n[2] .. At(n).end : Now(n[1])[i] = "+") => <<n[1], At(n).name>> \in answer.result
       /\ \A key \in answer.result : ToSet(script[key[1]]) # {"="}
=============================================================================
