------------------------------- MODULE Script -------------------------------
(* The parser of the scripting language (pirc-scripting/src/parser).         *)
(*                                                                           *)
(* A token is a string; names and literals are one or two samples of each    *)
(* kind, since the parser tells only kinds apart.  Trees are tuples headed   *)
(* by the kind of node.  A parsing operator takes the tokens and a position  *)
(* and returns the tree and the position after it, or Bad.  A Grouped node,  *)
(* which evaluates to what it encloses, is left out of the trees.  The       *)
(* reference is a printer that writes a tree down with the parentheses the   *)
(* table of grammar.rs asks for and no others.                               *)
EXTENDS Naturals, Sequences, FiniteSets, SequencesExt

CONSTANTS
    Nil,
    MaxRaw          \* bound: length of a string literal

VARIABLES
    program,        \* a script, as a tree
    raw             \* the characters of a string literal
parserVars == <<program, raw>>

Ints == {"1"}
Names == {"id", "TEXT"}
Builtins == {"$b"}
Locals == {"%v"}
Globals == {"%%g"}
Infix == {"||", "&&", "==", "!=", "<", ">", "<=", ">=", "+", "-", "*", "/", "%"}
EventTypes == {"TEXT"}
Trivia == {"newline", "comment"}
-----------------------------------------------------------------------------
Bad == [ok |-> FALSE, tree |-> <<>>, pos |-> 0]
Good(tree, pos) == [ok |-> TRUE, tree |-> tree, pos |-> pos]

\* "?": what follows is parsed only after r was
Then(r, next(_)) == IF r.ok THEN next(r) ELSE Bad

\* the last token is Eof, and is never passed
Peek(ts, i) == ts[i]
Advance(ts, i) == IF i + 1 <= Len(ts) THEN i + 1 ELSE i
AtEnd(ts, i) == ts[i] = "eof"

Expect(ts, i, tokens) == IF ts[i] \in tokens THEN Good(ts[i], Advance(ts, i)) ELSE Bad

RECURSIVE SkipTrivia(_, _)
SkipTrivia(ts, i) == IF ts[i] \in Trivia THEN SkipTrivia(ts, i + 1) ELSE i

PREFIX_BP == 13

FaultInfixBindingPower(op) ==
    CASE op = "||" -> <<1, 2>> [] op = "&&" -> <<3, 4>> [] op \in {"==", "!="} -> <<5, 6>>
      [] op \in {"<", ">", "<=", ">="} -> <<7, 8>> [] op \in {"+", "-"} -> <<9, 9>>
      [] op \in {"*", "/", "%"} -> <<11, 12>>
InfixBindingPower(op) ==
    CASE op = "||" -> <<1, 2>> [] op = "&&" -> <<3, 4>> [] op \in {"==", "!="} -> <<5, 6>>
      [] op \in {"<", ">", "<=", ">="} -> <<7, 8>> [] op \in {"+", "-"} -> <<9, 10>>
      [] op \in {"*", "/", "%"} -> <<11, 12>>

RECURSIVE ParseExpressionBp(_, _, _), ParseInfix(_, _, _), ParseArguments(_, _, _)

ParseExpression(ts, i) == ParseExpressionBp(ts, i, 0)

\* $name(arg, arg): i is the place after "("
ParseFunctionCall(ts, i, name) ==
    Then(IF ts[i] = ")" THEN Good(<<>>, i) ELSE ParseArguments(ts, i, <<>>),
         LAMBDA args : Then(Expect(ts, args.pos, {")"}),
         LAMBDA close : Good(<<"call", name, args.tree>>, close.pos)))

ParseArguments(ts, i, args) ==
    Then(ParseExpression(ts, i),
         LAMBDA e : IF ts[e.pos] = "," THEN ParseArguments(ts, Advance(ts, e.pos), Append(args, e.tree))
                    ELSE Good(Append(args, e.tree), e.pos))

ParsePrimaryExpression(ts, i) ==
    CASE ts[i] \in Builtins /\ ts[i + 1] = "(" -> ParseFunctionCall(ts, i + 2, ts[i])
      [] ts[i] \in Ints \cup Names \cup Locals \cup Globals \cup {"true", "false"}
           \/ (ts[i] \in Builtins /\ ts[i + 1] # "(") -> Good(<<"atom", ts[i]>>, Advance(ts, i))
      [] ts[i] = "(" -> Then(ParseExpression(ts, Advance(ts, i)),
                             LAMBDA inner : Then(Expect(ts, inner.pos, {")"}),
                             LAMBDA close : Good(inner.tree, close.pos)))
      [] OTHER -> Bad

ParsePrefix(ts, i) ==
    IF ts[i] \notin {"!", "-"} THEN ParsePrimaryExpression(ts, i)
    ELSE Then(ParseExpressionBp(ts, Advance(ts, i), PREFIX_BP),
              LAMBDA operand : Good(<<"unary", ts[i], operand.tree>>, operand.pos))

\* takes operators that bind at least as strongly as minBp
ParseInfix(ts, lhs, minBp) ==
    LET op == ts[lhs.pos]
    IN IF op \notin Infix THEN lhs
       ELSE IF InfixBindingPower(op)[1] < minBp THEN lhs
       ELSE Then(ParseExpressionBp(ts, Advance(ts, lhs.pos), InfixBindingPower(op)[2]),
                 LAMBDA rhs : ParseInfix(ts, Good(<<"binary", op, lhs.tree, rhs.tree>>, rhs.pos), minBp))

ParseExpressionBp(ts, i, minBp) == Then(ParsePrefix(ts, i), LAMBDA lhs : ParseInfix(ts, lhs, minBp))
-----------------------------------------------------------------------------
RECURSIVE ParseBlock(_, _), ParseStatements(_, _, _), ParseBranches(_, _, _), ParseCommandArgs(_, _, _)

\* "(" expression ")" and the block after it
ParseGuarded(ts, i) ==
    Then(Expect(ts, i, {"("}),
         LAMBDA open : Then(ParseExpression(ts, open.pos),
         LAMBDA cond : Then(Expect(ts, cond.pos, {")"}),
         LAMBDA close : Then(ParseBlock(ts, SkipTrivia(ts, close.pos)),
         LAMBDA body : Good(<<cond.tree, body.tree>>, body.pos)))))

\* elseif branches, then at most one else; j is the place after the trivia
BranchAt(ts, j, branches) ==
    CASE ts[j] = "elseif" -> Then(ParseGuarded(ts, Advance(ts, j)),
                                  LAMBDA b : ParseBranches(ts, b.pos, Append(branches, b.tree)))
      [] ts[j] = "else"   -> Then(ParseBlock(ts, SkipTrivia(ts, Advance(ts, j))),
                                  LAMBDA last : Good(<<branches, <<last.tree>>>>, last.pos))
      [] OTHER            -> Good(<<branches, <<>>>>, j)
ParseBranches(ts, i, branches) == BranchAt(ts, SkipTrivia(ts, i), branches)

ParseIfStatement(ts, i) ==
    Then(ParseGuarded(ts, Advance(ts, i)),
         LAMBDA first : Then(ParseBranches(ts, first.pos, <<>>),
         LAMBDA rest : Good(<<"if", first.tree, rest.tree[1], rest.tree[2]>>, rest.pos)))

ParseWhileStatement(ts, i) ==
    Then(ParseGuarded(ts, Advance(ts, i)), LAMBDA loop : Good(<<"while", loop.tree>>, loop.pos))

ParseVarStatement(ts, i) ==
    Then(Expect(ts, Advance(ts, i), Locals \cup Globals),
         LAMBDA name : Then(Expect(ts, name.pos, {"="}),
         LAMBDA equal : Then(ParseExpression(ts, equal.pos),
         LAMBDA value : Good(<<"var", name.tree, value.tree>>, value.pos))))

ParseSetStatement(ts, i) ==
    Then(Expect(ts, Advance(ts, i), Locals \cup Globals),
         LAMBDA name : Then(ParseExpression(ts, name.pos),
         LAMBDA value : Good(<<"set", name.tree, value.tree>>, value.pos)))

ParseReturnStatement(ts, i) ==
    IF ts[Advance(ts, i)] \in Trivia \cup {"}", "eof"} THEN Good(<<"return", <<>>>>, Advance(ts, i))
    ELSE Then(ParseExpression(ts, Advance(ts, i)), LAMBDA value : Good(<<"return", <<value.tree>>>>, value.pos))

ParseCommandArgs(ts, i, args) ==
    IF ts[i] \in Trivia \cup {"}", "eof"} THEN Good(args, i)
    ELSE Then(ParsePrimaryExpression(ts, i), LAMBDA e : ParseCommandArgs(ts, e.pos, Append(args, e.tree)))

ParseCommandStatement(ts, i) ==
    Then(Expect(ts, IF ts[i] = "/" THEN Advance(ts, i) ELSE i, Names),
         LAMBDA name : Then(ParseCommandArgs(ts, name.pos, <<>>),
         LAMBDA args : Good(<<"command", name.tree, args.tree>>, args.pos)))

ParseStatement(ts, i) ==
    CASE ts[i] = "if"     -> ParseIfStatement(ts, i)
      [] ts[i] = "while"  -> ParseWhileStatement(ts, i)
      [] ts[i] = "var"    -> ParseVarStatement(ts, i)
      [] ts[i] = "set"    -> ParseSetStatement(ts, i)
      [] ts[i] = "return" -> ParseReturnStatement(ts, i)
      [] ts[i] \in {"break", "continue"} -> Good(<<ts[i]>>, Advance(ts, i))
      [] ts[i] \in Names \cup {"/"} -> ParseCommandStatement(ts, i)
      [] OTHER -> Bad

ParseStatements(ts, i, stmts) ==
    IF ts[i] = "}" \/ AtEnd(ts, i) THEN Good(stmts, i)
    ELSE Then(ParseStatement(ts, i),
              LAMBDA s : ParseStatements(ts, SkipTrivia(ts, s.pos), Append(stmts, s.tree)))

ParseBlock(ts, i) ==
    Then(Expect(ts, i, {"{"}),
         LAMBDA open : Then(ParseStatements(ts, SkipTrivia(ts, open.pos), <<>>),
         LAMBDA stmts : Then(Expect(ts, stmts.pos, {"}"}),
         LAMBDA close : Good(stmts.tree, close.pos))))

\* the block, or the one statement, of an alias
AliasBody(ts, j) ==
    IF ts[j] = "{" THEN Then(ParseBlock(ts, j), LAMBDA block : Good(<<"alias", block.tree>>, block.pos))
    ELSE Then(ParseStatement(ts, j), LAMBDA stmt : Good(<<"alias", <<stmt.tree>>>>, stmt.pos))
ParseAlias(ts, i) ==
    Then(Expect(ts, Advance(ts, i), Names), LAMBDA name : AliasBody(ts, SkipTrivia(ts, name.pos)))

ParseEventType(name) == name \in EventTypes

\* everything up to the block or the end of the line; nothing stands for "*"
ParsePattern(ts, i) ==
    LET stop == CHOOSE j \in i..Len(ts) : /\ ts[j] \in {"{", "newline", "eof"}
                                          /\ \A k \in i..(j - 1) : ts[k] \notin {"{", "newline", "eof"}
    IN Good(IF stop = i THEN <<"*">> ELSE SubSeq(ts, i, stop - 1), stop)

ParseEvent(ts, i) ==
    Then(Expect(ts, Advance(ts, i), Names),
         LAMBDA type : IF ~ParseEventType(type.tree) THEN Bad ELSE
         Then(IF ts[type.pos] = ":" THEN ParsePattern(ts, Advance(ts, type.pos)) ELSE Good(<<"*">>, type.pos),
         LAMBDA pattern : Then(ParseBlock(ts, SkipTrivia(ts, pattern.pos)),
         LAMBDA body : Good(<<"on", type.tree, pattern.tree, body.tree>>, body.pos))))

ParseTimer(ts, i) ==
    Then(Expect(ts, Advance(ts, i), Names),
         LAMBDA name : Then(ParsePrimaryExpression(ts, name.pos),
         LAMBDA interval : Then(ParsePrimaryExpression(ts, interval.pos),
         LAMBDA repetitions : Then(ParseBlock(ts, SkipTrivia(ts, repetitions.pos)),
         LAMBDA body : Good(<<"timer", interval.tree, repetitions.tree, body.tree>>, body.pos)))))

ParseTopLevelItem(ts, i) ==
    CASE ts[i] = "alias" -> ParseAlias(ts, i)
      [] ts[i] = "on"    -> ParseEvent(ts, i)
      [] ts[i] = "timer" -> ParseTimer(ts, i)
      [] OTHER           -> Bad

RECURSIVE ParseItems(_, _, _)
ParseItems(ts, i, items) ==
    IF AtEnd(ts, i) THEN Good(items, i)
    ELSE Then(ParseTopLevelItem(ts, i),
              LAMBDA item : ParseItems(ts, SkipTrivia(ts, item.pos), Append(items, item.tree)))

Parse(ts) == ParseItems(ts, SkipTrivia(ts, 1), <<>>)
-----------------------------------------------------------------------------
(* References inside a string literal.                                       *)
IsInterpStart(c) == c = "a"
IsInterpContinue(c) == c \in {"a", "-"}

\* the place after the name that starts at i
NameEnd(cs, i) ==
    CHOOSE j \in i..(Len(cs) + 1) : /\ \A k \in i..(j - 1) : IsInterpContinue(cs[k])
                                    /\ j > Len(cs) \/ ~IsInterpContinue(cs[j])

Flushed(parts, literal) == IF literal = <<>> THEN parts ELSE Append(parts, <<"literal", literal>>)

RECURSIVE InterpLoop(_, _, _, _), FaultInterpLoop(_, _, _, _)
FaultInterpLoop(cs, i, parts, literal) ==
    IF i > Len(cs) THEN IF parts = <<>> THEN <<<<"literal", cs>>>> ELSE parts
    ELSE IF cs[i] \in {"$", "%"} /\ i < Len(cs) /\ IsInterpStart(cs[i + 1])
    THEN FaultInterpLoop(cs, NameEnd(cs, i + 1),
            Append(Flushed(parts, literal), <<cs[i], SubSeq(cs, i + 1, NameEnd(cs, i + 1) - 1)>>), <<>>)
    ELSE FaultInterpLoop(cs, i + 1, parts, Append(literal, cs[i]))
InterpLoop(cs, i, parts, literal) ==
    IF i > Len(cs) THEN IF parts = <<>> THEN <<<<"literal", cs>>>> ELSE Flushed(parts, literal)
    ELSE IF cs[i] \in {"$", "%"} /\ i < Len(cs) /\ IsInterpStart(cs[i + 1])
    THEN InterpLoop(cs, NameEnd(cs, i + 1),
            Append(Flushed(parts, literal), <<cs[i], SubSeq(cs, i + 1, NameEnd(cs, i + 1) - 1)>>), <<>>)
    ELSE InterpLoop(cs, i + 1, parts, Append(literal, cs[i]))

\* parts of kind "literal", "$" (a builtin) and "%" (a local variable)
ParseStringInterpolation(cs) == InterpLoop(cs, 1, <<>>, <<>>)
-----------------------------------------------------------------------------
(* The reference: a printer with the precedence table of grammar.rs.         *)
Level(op) ==
    CASE op = "||" -> 1 [] op = "&&" -> 2 [] op \in {"==", "!="} -> 3
      [] op \in {"<", ">", "<=", ">="} -> 4 [] op \in {"+", "-"} -> 5 [] OTHER -> 6

RECURSIVE Printed(_, _), Args(_), Stmts(_), Branches(_)
Parens(needed, ts) == IF needed THEN <<"(">> \o ts \o <<")">> ELSE ts

\* parenthesised when the tree binds less than its place asks for
Printed(e, min) ==
    CASE e[1] = "atom"   -> <<e[2]>>
      [] e[1] = "call"   -> <<e[2]>> \o Parens(TRUE, Args(e[3]))
      [] e[1] = "unary"  -> Parens(min > 7, <<e[2]>> \o Printed(e[3], 7))
      [] e[1] = "binary" -> Parens(Level(e[2]) < min,
                                   Printed(e[3], Level(e[2])) \o <<e[2]>> \o Printed(e[4], Level(e[2]) + 1))

Args(es) == IF es = <<>> THEN <<>>
            ELSE IF Len(es) = 1 THEN Printed(es[1], 0) ELSE Printed(es[1], 0) \o <<",">> \o Args(Tail(es))

Block(stmts) == <<"{", "newline">> \o Stmts(stmts) \o <<"}">>

Guarded(g) == Parens(TRUE, Printed(g[1], 0)) \o <<"newline">> \o Block(g[2])

Branches(bs) == IF bs = <<>> THEN <<>> ELSE <<"comment", "newline", "elseif">> \o Guarded(bs[1]) \o Branches(Tail(bs))

\* argMin: how an argument of a command is written
Stmt(s, argMin) ==
    CASE s[1] = "if"    -> <<"if">> \o Guarded(s[2]) \o Branches(s[3])
                             \o (IF s[4] = <<>> THEN <<>> ELSE <<"newline", "else">> \o Block(s[4][1]))
      [] s[1] = "while" -> <<"while">> \o Guarded(s[2])
      [] s[1] = "var"   -> <<"var", s[2], "=">> \o Printed(s[3], 0)
      [] s[1] = "set"   -> <<"set", s[2]>> \o Printed(s[3], 0)
      [] s[1] = "return" -> <<"return">> \o (IF s[2] = <<>> THEN <<>> ELSE Printed(s[2][1], 0))
      [] s[1] = "command" -> <<"/", s[2]>> \o FlattenSeq([k \in DOMAIN s[3] |-> Printed(s[3][k], argMin)])
      [] OTHER -> s

Stmts(ss) == IF ss = <<>> THEN <<>> ELSE Stmt(ss[1], 8) \o <<"comment", "newline">> \o Stmts(Tail(ss))

Item(it) ==
    CASE it[1] = "alias" -> <<"alias", "id">> \o (IF Len(it[2]) = 1 THEN Stmt(it[2][1], 8) ELSE Block(it[2]))
      [] it[1] = "on"    -> <<"on", it[2]>> \o (IF it[3] = <<"*">> THEN <<>> ELSE <<":">> \o it[3]) \o Block(it[4])
      [] it[1] = "timer" -> <<"timer", "id">> \o Printed(it[2], 8) \o Printed(it[3], 8) \o Block(it[4])

Written(items) == FlattenSeq([k \in DOMAIN items |-> Item(items[k]) \o <<"newline">>]) \o <<"eof">>

-----------------------------------------------------------------------------
Atoms == {<<"atom", t>> : t \in {"1", "%v", "%%g", "$b", "id", "true"}}
One == <<"atom", "1">>
Some == {One, <<"atom", "%v">>}
Unaries(es) == {<<"unary", op, e>> : op \in {"!", "-"}, e \in es}
Binaries(ops, ls, rs) == {<<"binary", op, l, r>> : op \in ops, l \in ls, r \in rs}
Calls(es) == {<<"call", "$b", <<>>>>} \cup {<<"call", "$b", <<e>>>> : e \in es}
                \cup {<<"call", "$b", <<e, One>>>> : e \in es}

\* two levels below the root; one operator of each level of the table
Ops == {"||", "&&", "==", "<", "+", "-", "*"}
Shallow == Binaries(Ops, {One}, {<<"atom", "%v">>}) \cup Unaries({One}) \cup {One, <<"call", "$b", <<One>>>>}
Exprs == Atoms \cup Binaries(Infix, Some, Some) \cup Unaries(Shallow) \cup Calls(Shallow)
            \cup Binaries(Ops, Shallow, Shallow) \cup Unaries(Unaries(Shallow))

Simple == {<<"break">>, <<"continue">>, <<"return", <<>>>>, <<"command", "id", <<>>>>}
Bodies == {<<>>} \cup {<<s>> : s \in Simple} \cup {<<s, t>> : s \in Simple, t \in Simple}
Conds == {<<"binary", "<", <<"atom", "%v">>, One>>}
Guards == {<<c, b>> : c \in Conds, b \in {<<>>, <<<<"break">>>>, <<<<"return", <<>>>>, <<"continue">>>>}}
Compound ==
    {<<"while", g>> : g \in Guards}
    \cup {<<"if", g, bs, l>> : g \in Guards, bs \in {<<>>} \cup {<<b>> : b \in Guards} \cup {<<b, b>> : b \in Guards},
                              l \in {<<>>} \cup {<<b[2]>> : b \in Guards}}
Nested == {<<"if", <<One, <<s>>>>, <<>>, l>> : s \in Compound, l \in {<<>>, <<<<<<"break">>>>>>}}
Statements ==
    Simple \cup Compound \cup Nested
    \cup {<<"set", v, e>> : v \in Locals \cup Globals, e \in Exprs} \cup {<<"var", "%v", e>> : e \in Shallow}
    \cup {<<"return", <<e>>>> : e \in Shallow}
    \cup {<<"command", "id", <<e, f>>>> : e \in Shallow, f \in Shallow}
Items ==
    {<<"alias", b>> : b \in Bodies} \cup {<<"alias", <<s, <<"break">>>>>> : s \in Compound}
    \cup {<<"on", "TEXT", p, b>> : p \in {<<"*">>, <<"id">>, <<"id", "*">>}, b \in Bodies}
    \cup {<<"timer", e, f, b>> : e \in Shallow, f \in {One, <<"unary", "-", One>>}, b \in {<<>>, <<<<"break">>>>}}
Programs ==
    {<<>>} \cup {<<i>> : i \in Items} \cup {<<<<"alias", <<s>>>>>> : s \in Statements}
    \cup {<<<<"alias", <<s>>>>, i>> : s \in Simple \cup Compound, i \in {<<"alias", <<>>>>, <<"on", "TEXT", <<"*">>, <<>>>>}}

ParserInit == program = <<>> /\ raw = <<>>

PickProgram == /\ program = <<>> /\ raw = <<>>
               /\ program' \in Programs
               /\ UNCHANGED raw

PickString == /\ program = <<>> /\ raw = <<>>
              /\ raw' \in UNION {[1..n -> {"$", "%", "a", "-", " "}] : n \in 0..MaxRaw}
              /\ UNCHANGED program

ParserNext == PickProgram \/ PickString
-----------------------------------------------------------------------------
\* A script means what the grammar says: written down with only the
\* parentheses that the table of operators calls for, every script is read
\* back as the tree it was (left association, unary operators above binary
\* ones, else and elseif with the nearest if, the end of a command's
\* arguments); and a string literal is cut into references and literals that
\* say all of its characters in their order, with no two literals in a row
\* (parser/mod.rs, grammar.rs "Operator Precedence").
ParsesBack ==
    /\ Parse(Written(program)) = Good(program, Len(Written(program)))
    /\ LET parts == ParseStringInterpolation(raw)
           text(p) == IF p[1] = "literal" THEN p[2] ELSE <<p[1]>> \o p[2]
       IN /\ FlattenSeq([k \in DOMAIN parts |-> text(parts[k])]) = raw
          /\ \A k \in 1..(Len(parts) - 1) : parts[k][1] = "literal" => parts[k + 1][1] # "literal"
          /\ \A k \in DOMAIN parts : parts[k][1] # "literal" => parts[k][2] # <<>>

\* grammar.rs gives a command's arguments as expressions:
\* `command_stmt = [ "/" ] IDENT { expression } ;` -- so a command
\* whose last argument is an expression is read as that command.
CommandTakesExpressions ==
    \A e \in Shallow :
        LET s == <<"command", "id", <<e>>>>
        IN Parse(<<"alias", "id">> \o Stmt(s, 0) \o <<"newline", "eof">>).tree = <<<<"alias", <<s>>>>>>
=============================================================================
