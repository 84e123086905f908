----------------------------- MODULE ScriptRun -----------------------------
(* The scripting engine (pirc-scripting): loading and unloading scripts,     *)
(* their aliases, event handlers and timers, and the tree-walking            *)
(* interpreter that runs them.                                               *)
(*                                                                           *)
(* A script is a sequence of items with bodies out of a small menu that      *)
(* reaches every statement and every way a body can end.  Running a body is  *)
(* one step, as in the engine: an operator from the interpreter's state to   *)
(* that state and the signal (Ok, a control signal, an error) it ends with.  *)
EXTENDS Integers, Sequences, FiniteSets, SequencesExt

CONSTANTS
    File,           \* script file names
    Nil,
    IntBits,        \* width of an integer (64 in the code)
    MaxLoop,        \* MAX_LOOP_ITERATIONS
    MaxAliasDepth,  \* MAX_ALIAS_DEPTH
    MaxTime         \* bound on the clock

VARIABLES
    engine,         \* [scopes, globals, aliases, handlers, timers, scripts]
    scriptNow,      \* the time passed to load_script and tick_timers
    reported,       \* signals reported by the last operation
    fires           \* times each timer has fired since it was registered
scriptVars == <<engine, scriptNow, reported, fires>>

AliasName == {"x", "y"}
TimerName == {"t", "u"}
VarName   == {"v", "g"}
-----------------------------------------------------------------------------
(* interpreter/value.rs; floating-point numbers are left out *)

Val(t, v) == [t |-> t, v |-> v]
IntV(n)  == Val("int", n)
Null     == Val("null", Nil)
Bool(b)  == Val("bool", b)

Ok(v)    == [sig |-> "ok", val |-> v]
Raise(s) == [sig |-> s, val |-> Null]

MinInt == 0 - 2^(IntBits - 1)
Wrap(n) == ((n - MinInt) % (2^IntBits)) + MinInt

IsTruthy(v) ==
    CASE v.t = "null" -> FALSE
      [] v.t = "bool" -> v.v
      [] v.t = "int"  -> v.v # 0
      [] v.t = "str"  -> v.v # <<>>

Equals(a, b) == a.t = b.t /\ a.v = b.v

Display(v) ==
    CASE v.t = "str" -> v.v [] v.t = "null" -> <<>> [] OTHER -> <<ToString(v.v)>>

Add(a, b) ==
    IF a.t = "int" /\ b.t = "int" THEN Ok(IntV(Wrap(a.v + b.v)))
    ELSE IF a.t = "str" /\ b.t = "str" THEN Ok(Val("str", a.v \o b.v))
    ELSE Raise("type")

Sub(a, b) == IF a.t = "int" /\ b.t = "int" THEN Ok(IntV(Wrap(a.v - b.v))) ELSE Raise("type")
Mul(a, b) == IF a.t = "int" /\ b.t = "int" THEN Ok(IntV(Wrap(a.v * b.v))) ELSE Raise("type")

Abs(n) == IF n < 0 THEN 0 - n ELSE n

\* rounds toward zero; the one quotient that does not fit panics
Div(a, b) ==
    IF ~(a.t = "int" /\ b.t = "int") THEN Raise("type")
    ELSE IF b.v = 0 THEN Raise("zero")
    ELSE IF a.v = MinInt /\ b.v = -1 THEN Raise("panic")
    ELSE Ok(IntV(IF (a.v < 0) = (b.v < 0) THEN Abs(a.v) \div Abs(b.v) ELSE 0 - (Abs(a.v) \div Abs(b.v))))

\* an error, or what is made of the value
Then(r, next(_)) == IF r.sig = "ok" THEN next(r.val) ELSE r

Modulo(a, b) == Then(Div(a, b), LAMBDA q : Ok(IntV(a.v - b.v * q.v)))

\* a difference below, at or above 0
PartialCmpValues(a, b) == IF a.t = "int" /\ b.t = "int" THEN Ok(IntV(a.v - b.v)) ELSE Raise("type")

Compare(a, b, expected) ==
    Then(PartialCmpValues(a, b), LAMBDA c : Ok(Bool(IF expected = "Less" THEN c.v < 0 ELSE c.v > 0)))
CompareLte(a, b) == Then(PartialCmpValues(a, b), LAMBDA c : Ok(Bool(c.v <= 0)))
CompareGte(a, b) == Then(PartialCmpValues(a, b), LAMBDA c : Ok(Bool(c.v >= 0)))

Negate(a) ==
    IF a.t # "int" THEN Raise("type")
    ELSE IF a.v = MinInt THEN Raise("panic") ELSE Ok(IntV(0 - a.v))
-----------------------------------------------------------------------------
(* interpreter/environment.rs *)

NoScope == [x \in VarName |-> Nil]

PushScope(m) == [m EXCEPT !.scopes = Append(@, NoScope)]
PopScope(m)  == [m EXCEPT !.scopes = Front(@)]

\* index of the innermost scope that has the variable, 0 when none has
Where(m, n) == SelectLastInSeq(m.scopes, LAMBDA s : s[n] # Nil)

GetLocal(m, n) == IF Where(m, n) = 0 THEN Nil ELSE m.scopes[Where(m, n)][n]
SetLocal(m, n, v) == [m EXCEPT !.scopes[Len(m.scopes)][n] = v]
UpdateLocal(m, n, v) ==
    IF Where(m, n) = 0 THEN SetLocal(m, n, v) ELSE [m EXCEPT !.scopes[Where(m, n)][n] = v]
GetGlobal(m, n) == m.globals[n]
SetGlobal(m, n, v) == [m EXCEPT !.globals[n] = v]
-----------------------------------------------------------------------------
(* The menu of bodies, items and scripts *)

Lit(v)      == [k |-> "lit", v |-> v]
Local(n)    == [k |-> "local", n |-> n]
Global(n)   == [k |-> "global", n |-> n]
Builtin(n)  == [k |-> "builtin", n |-> n]
Bin(op, l, r) == [k |-> "binary", op |-> op, l |-> l, r |-> r]
Cmd(n, args)  == [k |-> "command", n |-> n, args |-> args]
Set(n, global, e) == [k |-> "set", n |-> n, global |-> global, e |-> e]
While(e, body) == [k |-> "while", e |-> e, body |-> body]
If(e, then, else) == [k |-> "if", e |-> e, then |-> then, else |-> else]

\* calls another alias from a loop over a local variable
Looper == << [k |-> "var", n |-> "v", global |-> FALSE, e |-> Lit(IntV(1))],
             While(Bin("<", Local("v"), Lit(IntV(3))),
                   <<Cmd("y", <<Local("v")>>), Set("v", FALSE, Bin("+", Local("v"), Lit(IntV(1))))>>) >>
\* calls itself
Recursive == <<Cmd("x", <<>>)>>
\* ends early inside nested blocks
Early == <<While(Builtin("true"), <<If([k |-> "unary", op |-> "!", l |-> Builtin("0")], <<Cmd("halt", <<>>)>>,
                                       <<[k |-> "return", e |-> Builtin("0")]>>)>>)>>
\* never leaves its loop
Endless == <<While(Bin("||", Lit(IntV(1)), Local("v")), <<If(Builtin("true"), <<[k |-> "continue"]>>, <<>>)>>)>>
\* counts in a global variable, which starts as null
Counter == <<If([k |-> "unary", op |-> "!", l |-> Global("g")], <<Set("g", TRUE, Lit(IntV(0)))>>, <<>>),
             Set("g", TRUE, Bin("%", Bin("+", Global("g"), Lit(IntV(1))), Lit(IntV(2)))),
             Cmd("y", <<Bin("/", Lit(IntV(1)), Global("g"))>>)>>
\* stops the other timer; leaves a loop
Stopper == <<Cmd("timeoff", <<Lit(Val("str", <<"t">>))>>), While(Builtin("true"), <<[k |-> "break"]>>),
             If(Bin("==", Global("g"), Lit(IntV(1))), <<Cmd("echo", <<Bin("-", Lit(Val("str", <<"t">>)), Lit(IntV(1)))>>)>>,
                                                   <<Cmd("echo", <<Local("v")>>)>>)>>
\* break outside a loop
Stray == <<If(Builtin("true"), <<[k |-> "break"]>>, <<>>)>>

Alias(n, body) == [k |-> "alias", n |-> n, body |-> body]
OnEvent(pattern, body) == [k |-> "event", pattern |-> pattern, body |-> body]
TimerDef(n, interval, reps, body) == [k |-> "timer", n |-> n, interval |-> interval, reps |-> reps, body |-> body]

Body == [looper |-> Looper, recursive |-> Recursive, early |-> Early, endless |-> Endless,
         counter |-> Counter, stopper |-> Stopper, stray |-> Stray]

Item == {Alias("x", "looper"), Alias("x", "recursive"), Alias("y", "early"), Alias("y", "stray"),
         OnEvent("*", "counter"), OnEvent("p", "endless"),
         TimerDef("t", 1, 2, "counter"), TimerDef("u", 2, 0, "stopper")}

\* Nil stands for a source that does not lex or parse
Source == {Nil} \cup {<<i>> : i \in Item}
            \cup {<<i, j>> : i \in {Alias("x", "looper")},
                                j \in {Alias("y", "early"), OnEvent("*", "counter"), TimerDef("t", 1, 2, "counter"), TimerDef("u", 2, 0, "stopper")}}
-----------------------------------------------------------------------------
(* interpreter/mod.rs.  m is the part of the engine the interpreter changes: *)
(* scopes, globals, timers, how many lines were echoed or sent, the depth of *)
(* alias calls and the text behind $0.                                       *)

\* static constants, numeric parameters, then context identifiers
Resolve(m, name) ==
    CASE name = "null" -> Null
      [] name = "true" -> Bool(TRUE)
      [] name = "0"    -> Val("str", m.text)
      [] OTHER         -> Null

RECURSIVE EvalExpr(_, _)
EvalUnaryOp(m, e) ==
    Then(EvalExpr(m, e.l), LAMBDA v : IF e.op = "!" THEN Ok(Bool(~IsTruthy(v))) ELSE Negate(v))

Applied(op, l, r) ==
    CASE op \in {"&&", "||"} -> Ok(Bool(IsTruthy(r)))
      [] op = "+"  -> Add(l, r)
      [] op = "-"  -> Sub(l, r)
      [] op = "*"  -> Mul(l, r)
      [] op = "/"  -> Div(l, r)
      [] op = "%"  -> Modulo(l, r)
      [] op = "==" -> Ok(Bool(Equals(l, r)))
      [] op = "!=" -> Ok(Bool(~Equals(l, r)))
      [] op = "<"  -> Compare(l, r, "Less")
      [] op = ">"  -> Compare(l, r, "Greater")
      [] op = "<=" -> CompareLte(l, r)
      [] op = ">=" -> CompareGte(l, r)

\* && and || may leave the right operand alone
EvalBinaryOp(m, e) ==
    Then(EvalExpr(m, e.l),
         LAMBDA l : IF (e.op = "&&" /\ ~IsTruthy(l)) \/ (e.op = "||" /\ IsTruthy(l)) THEN Ok(Bool(e.op = "||"))
                    ELSE Then(EvalExpr(m, e.r), LAMBDA r : Applied(e.op, l, r)))

EvalExpr(m, e) ==
    CASE e.k = "lit"     -> Ok(e.v)
      [] e.k = "local"   -> IF GetLocal(m, e.n) = Nil THEN Raise("undefined") ELSE Ok(GetLocal(m, e.n))
      [] e.k = "global"  -> Ok(IF GetGlobal(m, e.n) = Nil THEN Null ELSE GetGlobal(m, e.n))
      [] e.k = "builtin" -> Ok(Resolve(m, e.n))
      [] e.k = "unary"   -> EvalUnaryOp(m, e)
      [] e.k = "binary"  -> EvalBinaryOp(m, e)

\* how a statement, or a list of them, ends
Ends(m, sig) == [m |-> m, sig |-> sig]

\* the statement goes on with the value of its expression
With(m, e, next(_)) ==
    LET checked(r) == IF r.sig = "ok" THEN next(r.val) ELSE Ends(m, r.sig) IN checked(EvalExpr(m, e))

ExecVarDecl(m, s) ==
    With(m, s.e, LAMBDA v : Ends(IF s.global THEN SetGlobal(m, s.n, v) ELSE SetLocal(m, s.n, v), "ok"))

ExecSet(m, s) ==
    With(m, s.e, LAMBDA v : Ends(IF s.global THEN SetGlobal(m, s.n, v) ELSE UpdateLocal(m, s.n, v), "ok"))

ExecReturn(m, s) == With(m, s.e, LAMBDA v : Ends(m, "return"))

\* Nil when the name is not that of a built-in command
TryBuiltinCommand(m, name, args) ==
    CASE name = "echo" -> Ends([m EXCEPT !.out = @ + 1], "ok")
      [] name = "noop" -> Ends(m, "ok")
      [] name = "halt" -> Ends(m, "halt")
      [] name = "timeoff" -> Ends([m EXCEPT !.timers[args[1].v[1]] = Nil], "ok")
      [] OTHER -> Nil

\* external: the client's command handler knows msg and nothing else
HandleCommand(m, name, args) ==
    IF name = "msg" THEN Ends([m EXCEPT !.out = @ + 1], "ok") ELSE Ends(m, "unknown")

RECURSIVE ExecStmts(_, _, _), ExecWhile(_, _, _, _)

Scoped(aliases, m, stmts) ==
    LET left(r) == Ends(PopScope(r.m), r.sig) IN left(ExecStmts(aliases, PushScope(m), stmts))

ExecIf(aliases, m, s) ==
    With(m, s.e, LAMBDA v : IF IsTruthy(v) \/ s.else # <<>>
                            THEN Scoped(aliases, m, IF IsTruthy(v) THEN s.then ELSE s.else) ELSE Ends(m, "ok"))

ExecWhile(aliases, m, s, iterations) ==
    LET after(r) == IF r.sig \in {"ok", "continue"} THEN ExecWhile(aliases, r.m, s, iterations + 1)
                    ELSE IF r.sig = "break" THEN Ends(r.m, "ok") ELSE r
    IN With(m, s.e, LAMBDA v : IF ~IsTruthy(v) THEN Ends(m, "ok")
                               ELSE IF iterations + 1 > MaxLoop THEN Ends(m, "looplimit")
                               ELSE after(Scoped(aliases, m, s.body)))

\* Return ends the alias; the caller's depth and text come back
ExecAliasCall(aliases, m, body, args) ==
    LET back(r) == Ends([r.m EXCEPT !.depth = m.depth, !.text = m.text],
                        IF r.sig = "return" THEN "ok" ELSE r.sig)
        text == FlattenSeq([i \in DOMAIN args |-> Display(args[i])])
    IN IF m.depth >= MaxAliasDepth THEN Ends(m, "recursion")
       ELSE back(Scoped(aliases, [m EXCEPT !.depth = @ + 1, !.text = text], body))

\* built-in commands first, then aliases and the client
Called(aliases, m, name, args) ==
    LET other(builtin) ==
          IF builtin # Nil THEN builtin
          ELSE IF name \in AliasName /\ aliases[name] # Nil
          THEN ExecAliasCall(aliases, m, Body[aliases[name]], args)
          ELSE HandleCommand(m, name, args)
    IN other(TryBuiltinCommand(m, name, args))

\* the arguments come before the command; the first error is reported
ExecCommand(aliases, m, s) ==
    LET called(r, wrong) == IF wrong # 0 THEN Ends(m, r[wrong].sig)
                            ELSE Called(aliases, m, s.n, [i \in DOMAIN r |-> r[i].val])
        first(r) == called(r, SelectInSeq(r, LAMBDA x : x.sig # "ok"))
    IN first([i \in DOMAIN s.args |-> EvalExpr(m, s.args[i])])

ExecStmt(aliases, m, s) ==
    CASE s.k = "var"      -> ExecVarDecl(m, s)
      [] s.k = "set"      -> ExecSet(m, s)
      [] s.k = "if"       -> ExecIf(aliases, m, s)
      [] s.k = "while"    -> ExecWhile(aliases, m, s, 0)
      [] s.k = "return"   -> ExecReturn(m, s)
      [] s.k = "break"    -> Ends(m, "break")
      [] s.k = "continue" -> Ends(m, "continue")
      [] s.k = "command"  -> ExecCommand(aliases, m, s)

\* the first statement that does not end well ends the list
ExecStmts(aliases, m, stmts) ==
    LET rest(r) == IF r.sig = "ok" THEN ExecStmts(aliases, r.m, Tail(stmts)) ELSE r
    IN IF stmts = <<>> THEN Ends(m, "ok") ELSE rest(ExecStmt(aliases, m, Head(stmts)))
-----------------------------------------------------------------------------
(* semantic.rs: break and continue only inside a loop of the same body *)

RECURSIVE AnalyzeBody(_, _)
AnalyzeStatement(s, inLoop) ==
    CASE s.k = "if"    -> AnalyzeBody(s.then, inLoop) /\ AnalyzeBody(s.else, inLoop)
      [] s.k = "while" -> AnalyzeBody(s.body, TRUE)
      [] s.k \in {"break", "continue"} -> inLoop
      [] OTHER -> TRUE

FaultAnalyzeBody(stmts, inLoop) == \A i \in DOMAIN stmts : AnalyzeStatement(stmts[i], TRUE)
AnalyzeBody(stmts, inLoop) == \A i \in DOMAIN stmts : AnalyzeStatement(stmts[i], inLoop)

Analyze(src) == \A i \in DOMAIN src : AnalyzeBody(Body[src[i].body], FALSE)
-----------------------------------------------------------------------------
(* engine/mod.rs, interpreter/event.rs, interpreter/timer.rs *)

FaultRemoveBySource(e, f) == e
RemoveBySource(e, f) == [e EXCEPT !.handlers = SelectSeq(@, LAMBDA h : h.source # f)]

UnloadScript(e, f) ==
    IF e.scripts[f] = Nil THEN e
    ELSE LET s == e.scripts[f]
             d == RemoveBySource(e, f)
         IN [d EXCEPT !.aliases = [n \in AliasName |-> IF n \in s.aliases THEN Nil ELSE @[n]],
                      !.timers  = [n \in TimerName |-> IF n \in s.timers THEN Nil ELSE @[n]],
                      !.scripts[f] = Nil]

RegisterTimer(e, i) ==
    [e EXCEPT !.timers[i.n] = [interval |-> i.interval, remaining |-> i.reps, body |-> i.body,
                               next |-> scriptNow + i.interval]]

RegisterItem(e, f, i) ==
    CASE i.k = "alias" -> [e EXCEPT !.aliases[i.n] = i.body, !.scripts[f].aliases = @ \cup {i.n}]
      [] i.k = "event" -> [e EXCEPT !.handlers = Append(@, [pattern |-> i.pattern, body |-> i.body, source |-> f])]
      [] i.k = "timer" -> [RegisterTimer(e, i) EXCEPT !.scripts[f].timers = @ \cup {i.n}]

\* the version loaded before is gone even when the new one does not load
Loaded(e, f, src) ==
    LET d == UnloadScript(e, f)
    IN IF src = Nil THEN d
       ELSE IF ~Analyze(src) THEN d
       ELSE FoldLeft(LAMBDA c, i : RegisterItem(c, f, i),
                     [d EXCEPT !.scripts[f] = [source |-> src, aliases |-> {}, timers |-> {}]], src)

\* a timer registered anew starts to count anew
Registered(src) == IF src = Nil THEN {} ELSE {src[i].n : i \in {j \in DOMAIN src : src[j].k = "timer"}}

\* no count is kept for a timer that is gone
NeverFired == [count |-> 0, since |-> 0]
Fired(n, times) ==
    IF engine'.timers[n] = Nil THEN NeverFired ELSE [fires[n] EXCEPT !.count = @ + times]

LoadScript(f, src) ==
    /\ engine' = Loaded(engine, f, src)
    /\ fires' = [n \in TimerName |-> IF n \in Registered(src) /\ engine'.scripts[f] # Nil
                                     THEN [count |-> 0, since |-> scriptNow] ELSE Fired(n, 0)]
    /\ reported' = {} /\ UNCHANGED scriptNow

ReloadScript(f) ==
    /\ engine.scripts[f] # Nil
    /\ LoadScript(f, engine.scripts[f].source)

Unload(f) ==
    /\ engine' = UnloadScript(engine, f)
    /\ fires' = [n \in TimerName |-> Fired(n, 0)]
    /\ reported' = {} /\ UNCHANGED scriptNow

\* what the interpreter is given, and what it leaves behind
Machine(e, text) == [scopes |-> e.scopes, globals |-> e.globals, timers |-> e.timers, out |-> 0,
                     depth |-> 0, text |-> text]
Kept(e, m) == [e EXCEPT !.scopes = m.scopes, !.globals = m.globals, !.timers = m.timers]

\* a body in a scope of its own; what is reported when it does not end well
RunBody(e, body, text) ==
    LET left(r) == [e |-> Kept(e, r.m), errors |-> IF r.sig \in {"ok", "return"} THEN {} ELSE {r.sig}]
    IN left(Scoped(e.aliases, Machine(e, text), body))

\* an error of one handler keeps the event from those after it
RECURSIVE DispatchFull(_, _, _)
DispatchFull(e, handlers, text) ==
    LET rest(r) == IF r.errors # {} THEN r ELSE DispatchFull(r.e, Tail(handlers), text)
    IN IF handlers = <<>> THEN [e |-> e, errors |-> {}]
       ELSE rest(IF Head(handlers).pattern \notin {"*", text} THEN [e |-> e, errors |-> {}]
                 ELSE RunBody(e, Body[Head(handlers).body], <<text>>))

\* what an operation that runs bodies leaves
Ran(r) == engine' = r.e /\ reported' = r.errors

DispatchEvent(text) ==
    /\ Ran(DispatchFull(engine, engine.handlers, text))
    /\ fires' = [n \in TimerName |-> Fired(n, 0)] /\ UNCHANGED scriptNow

ExecuteAlias(n, args) ==
    /\ engine.aliases[n] # Nil
    /\ Ran(RunBody(engine, Body[engine.aliases[n]], args))
    /\ fires' = [t \in TimerName |-> Fired(t, 0)] /\ UNCHANGED scriptNow

FaultDue(e, now) == {n \in TimerName : e.timers[n] # Nil /\ e.timers[n].next <= now + 1}
Due(e, now) == {n \in TimerName : e.timers[n] # Nil /\ e.timers[n].next <= now}

\* counts down first; bodies run after every due timer was advanced
Tick(e, now) ==
    [e EXCEPT !.timers = [n \in TimerName |->
        IF n \notin Due(e, now) THEN @[n]
        ELSE IF @[n].remaining = 1 THEN Nil
        ELSE [@[n] EXCEPT !.remaining = IF @ = 0 THEN 0 ELSE @ - 1, !.next = @ + e.timers[n].interval]]]

Joined(acc, r) == [e |-> r.e, errors |-> acc.errors \cup r.errors]
TickTimers(d) ==
    LET now == scriptNow + d
        due == Due(engine, now)
    IN /\ now <= MaxTime
       /\ scriptNow' = now
       /\ \E order \in SetToSeqs(due) :
             Ran(FoldLeft(LAMBDA acc, n : Joined(acc, RunBody(acc.e, Body[engine.timers[n].body], <<>>)),
                          [e |-> Tick(engine, now), errors |-> {}], order))
       /\ fires' = [n \in TimerName |-> Fired(n, IF n \in due THEN 1 ELSE 0)]

ScriptInit ==
    /\ engine = [scopes |-> <<NoScope>>, globals |-> NoScope, aliases |-> [n \in AliasName |-> Nil],
                 handlers |-> <<>>, timers |-> [n \in TimerName |-> Nil], scripts |-> [f \in File |-> Nil]]
    /\ scriptNow = 0 /\ reported = {}
    /\ fires = [n \in TimerName |-> NeverFired]

ScriptNext ==
    \/ \E f \in File, src \in Source : LoadScript(f, src)
    \/ \E f \in File : ReloadScript(f)
    \/ \E f \in File : Unload(f)
    \/ \E text \in {"p", "q"} : DispatchEvent(text)
    \/ \E n \in AliasName, args \in {<<>>, <<"p">>} : ExecuteAlias(n, args)
    \/ \E d \in 1..2 : TickTimers(d)

ScriptSpec == ScriptInit /\ [][ScriptNext]_scriptVars
-----------------------------------------------------------------------------
(* However bodies end (an error in a nested block, an alias call deep in a   *)
(* loop, /halt): every scope pushed was popped, so no local variable is left *)
(* for the next body; no break, continue or return of a script that loaded   *)
(* reaches the user as an error; every alias, handler and timer there is     *)
(* belongs to a loaded script; and a timer fires at most once per interval   *)
(* since it was registered and, when finite, as often as it was asked to.    *)
EngineExact ==
    /\ engine.scopes = <<NoScope>>
    /\ reported \cap {"break", "continue", "return", "panic"} = {}
    /\ \A n \in AliasName : engine.aliases[n] # Nil =>
          \E f \in File : engine.scripts[f] # Nil /\ n \in engine.scripts[f].aliases
    /\ \A n \in TimerName : engine.timers[n] # Nil =>
          \E f \in File : engine.scripts[f] # Nil /\ n \in engine.scripts[f].timers
    /\ \A i \in DOMAIN engine.handlers : engine.scripts[engine.handlers[i].source] # Nil
    /\ \A n \in TimerName : engine.timers[n] # Nil =>
          LET t == engine.timers[n]
          IN /\ fires[n].count * t.interval <= scriptNow - fires[n].since
             /\ t.remaining # 0 => fires[n].count + t.remaining = 2

(* engine/mod.rs: "Unloads a script, removing all its registered aliases,    *)
(* events, and timers": those of the scripts still loaded stay.              *)
AliasesKept ==
    \A f \in File : engine.scripts[f] # Nil => \A n \in engine.scripts[f].aliases : engine.aliases[n] # Nil
=============================================================================
