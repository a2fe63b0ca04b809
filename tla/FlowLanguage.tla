---------------------------- MODULE FlowLanguage ----------------------------
\* The Flow language (services/flow/src/interpreter.rs): the parser that fills a
\* bounded arena of nodes and statements, the type checker, the evaluator, and
\* the fixed table of promises that a session's variables refer to.
\*
\* A source is a sequence of tokens; lexing is left out, and every literal of one
\* kind is the same token.  Values carry their type and, for a promise, the slot;
\* their bytes are left out.  Node and slot numbers start at 1.
EXTENDS Integers, Sequences, SequencesExt, TLC

CONSTANTS Sources,     \* the programs a session submits
          Alphabet,    \* the tokens of the sources explored token by token
          MaxTokens,   \* bound: tokens of an explored source
          MaxRuns,     \* bound: programs run in one history
          MAX_EXPR_NODES, MAX_STATEMENTS, MAX_ARGUMENTS, MAX_CALLBACK_DEPTH,
          MAX_VARIABLES, MAX_PROMISES

VARIABLES tokens,      \* the source typed so far
          rt,          \* the FlowRuntime
          last,        \* the checked type and the outcome of the last evaluation
          loose,       \* history: variables assigned from a promise still pending, or
                       \* left with a slot that another promise has
          taken,       \* history: promises whose result was taken
          runs         \* history: programs run, which also numbers the promises

vars == <<tokens, rt, last, loose, taken, runs>>

Names == {"p", "q", "r", "net", "fs", "fetch", "open", "status", "body", "then",
          "cancel", "echo", "clear", "help", "read", "write"}
Literals == {"str", "num", "true"}

-----------------------------------------------------------------------------
\* Parser state: the tokens, the position, the arena, and the callback depth.
Tok(st) == IF st.pos <= Len(st.ts) THEN st.ts[st.pos] ELSE "eof"
Adv(st, n) == [st EXCEPT !.pos = @ + n]
Ok(st, id) == [ok |-> TRUE, st |-> st, id |-> id]
Fail(st) == [ok |-> FALSE, st |-> st, id |-> 0]
Node(k, name, kids) == [k |-> k, name |-> name, kids |-> kids, body |-> <<>>]

expect(r, t) == IF r.ok /\ Tok(r.st) = t THEN Ok(Adv(r.st, 1), r.id) ELSE Fail(r.st)

addNode(st, node) ==
  IF Len(st.ex) = MAX_EXPR_NODES THEN Fail(st)
  ELSE Ok([st EXCEPT !.ex = Append(@, node)], Len(st.ex) + 1)

\* What follows a rule that succeeded, and what a computed value is used for.
after(r, F(_)) == IF r.ok THEN F(r) ELSE r
with(x, F(_)) == F(x)

RECURSIVE parse_expression(_), parse_postfix(_, _), parse_args(_, _, _),
          parse_statement(_), parse_body(_)

\* A block body: statements separated by semicolons, up to the closing brace.
parse_body(st) ==
  IF Tok(st) \in {"}", "eof"} THEN Ok(st, 0)
  ELSE after(parse_statement(st), LAMBDA s :
         IF Tok(s.st) = ";" THEN parse_body(Adv(s.st, 1))
         ELSE IF Tok(s.st) = "}" THEN Ok(s.st, 0) ELSE Fail(s.st))

parse_arrow(st0, parameter) ==
  IF st0.depth >= MAX_CALLBACK_DEPTH THEN Fail(st0)
  ELSE LET st == [st0 EXCEPT !.depth = @ + 1]
           out(s) == [s EXCEPT !.depth = @ - 1]
       IN  IF Tok(st) = "{"
           THEN after(after(parse_body(Adv(st, 1)), LAMBDA b : expect(Ok(out(b.st), 0), "}")),
                  LAMBDA c : addNode(c.st, [Node("arrow", parameter, <<>>) EXCEPT !.body =
                                              <<Len(st.sm) + 1, Len(c.st.sm)>>]))
           ELSE after(parse_expression(st), LAMBDA e :
                  addNode(out(e.st), Node("arrow", parameter, <<e.id>>)))

\* "(name) =>" starts a callback; anything else in parentheses is an expression,
\* parsed again from where the parenthesis opened.
parse_parenthesized(st) ==
  IF Tok(st) \in Names /\ Tok(Adv(st, 1)) = ")" /\ Tok(Adv(st, 2)) = "=>"
  THEN parse_arrow(Adv(st, 3), Tok(st))
  ELSE expect(parse_expression(st), ")")

parse_primary(st) ==
  CASE Tok(st) \in Literals -> addNode(Adv(st, 1), Node(Tok(st), "", <<>>))
    [] Tok(st) \in Names    -> addNode(Adv(st, 1), Node("name", Tok(st), <<>>))
    [] Tok(st) = "("        -> parse_parenthesized(Adv(st, 1))
    [] OTHER                -> Fail(st)

parse_expression(st) ==
  IF Tok(st) = "await"
  THEN after(parse_expression(Adv(st, 1)), LAMBDA e : addNode(e.st, Node("await", "", <<e.id>>)))
  ELSE after(parse_primary(st), LAMBDA p : parse_postfix(p.st, p.id))

parse_args(st, callee, args) ==
  IF Len(args) = MAX_ARGUMENTS THEN Fail(st)
  ELSE after(parse_expression(st), LAMBDA e :
         IF Tok(e.st) = "," THEN parse_args(Adv(e.st, 1), callee, Append(args, e.id))
         ELSE after(expect(e, ")"), LAMBDA c :
                addNode(c.st, Node("call", "", <<callee>> \o Append(args, c.id)))))

parse_postfix(st, id) ==
  LET on(r) == after(r, LAMBDA p : parse_postfix(p.st, p.id))
  IN  CASE Tok(st) = "." ->
             IF Tok(Adv(st, 1)) \in Names
             THEN on(addNode(Adv(st, 2), Node("member", Tok(Adv(st, 1)), <<id>>)))
             ELSE Fail(Adv(st, 1))
        [] Tok(st) = "[" ->
             after(expect(parse_expression(Adv(st, 1)), "]"), LAMBDA k :
               on(addNode(k.st, Node("index", "", <<id, k.id>>))))
        [] Tok(st) = "(" ->
             IF Tok(Adv(st, 1)) = ")"
             THEN on(addNode(Adv(st, 2), Node("call", "", <<id>>)))
             ELSE on(parse_args(Adv(st, 1), id, <<>>))
        [] OTHER -> Ok(st, id)

\* A statement is stored after the statements of the callbacks inside it.
parse_statement(st) ==
  LET from == CASE Tok(st) = "var" -> 3
                [] Tok(st) = "return" -> 1
                [] Tok(st) \in Names /\ Tok(Adv(st, 1)) = "=" -> 2
                [] OTHER -> 0
      kind == CASE from = 3 -> "var" [] from = 2 -> "assign" [] from = 1 -> "return"
                [] OTHER -> "expr"
      name == CASE from = 3 -> Tok(Adv(st, 1)) [] from = 2 -> Tok(st) [] OTHER -> ""
  IN  IF from = 3 /\ Tok(Adv(st, 1)) \notin Names THEN Fail(Adv(st, 1))
      ELSE IF from = 3 /\ Tok(Adv(st, 2)) # "=" THEN Fail(Adv(st, 2))
      ELSE after(parse_expression(Adv(st, from)), LAMBDA e :
             IF Len(e.st.sm) = MAX_STATEMENTS THEN Fail(e.st)
             ELSE Ok([e.st EXCEPT !.sm = Append(@, [k |-> kind, name |-> name, init |-> e.id,
                                                     cb |-> st.depth # 0])], 0))

RECURSIVE parse_from(_)
parse_from(st) ==
  IF Tok(st) = "eof" THEN Ok(st, 0)
  ELSE after(parse_statement(st), LAMBDA s :
         IF Tok(s.st) = ";" THEN parse_from(Adv(s.st, 1))
         ELSE IF Tok(s.st) \in {"eof", "}"} THEN parse_from(s.st) ELSE Fail(s.st))

parse(ts) == parse_from([ts |-> ts, pos |-> 1, ex |-> <<>>, sm |-> <<>>, depth |-> 0])

-----------------------------------------------------------------------------
\* Types are sequences: a promise's type is <<"Promise", kind>>, a namespace's
\* <<"Namespace", name>>.  A type error is <<"error">>.
Error == <<"error">>
Promise(k) == <<"Promise", k>>
IsPromise(t) == t[1] = "Promise"
value_type(t) == <<t[2]>>

\* The entries of the operation registry for the namespaces used here, with the
\* argument types the checker asks for.
Sig(args, min, result) == [args |-> args, min |-> min, result |-> result]
lookup(ns, name) ==
  CASE ns = "fs" /\ name = "open" -> <<Sig(<<"String">>, 1, <<"FileHandle">>)>>
    [] ns = "net" /\ name = "fetch" -> <<Sig(<<"String", "String">>, 1, Promise("Response"))>>
    [] ns = "net" /\ name = "status" -> <<Sig(<<>>, 0, Promise("String"))>>
    [] OTHER -> <<>>

find(V, name) ==
  LET i == SelectInSeq(V, LAMBDA v : v.name = name) IN IF i = 0 THEN Error ELSE V[i].t

\* Variables::declare: a name keeps the type it was first given.
declareMutant(V, name, t) ==
  LET i == SelectInSeq(V, LAMBDA v : v.name = name)
  IN  IF i # 0 THEN [ok |-> TRUE, V |-> [V EXCEPT ![i].t = t]]
      ELSE [ok |-> Len(V) < MAX_VARIABLES, V |-> Append(V, [name |-> name, t |-> t])]

assign(V, name, t) == [ok |-> find(V, name) = t, V |-> V]

declare(V, name, t) ==
  IF find(V, name) # Error THEN assign(V, name, t)
  ELSE [ok |-> Len(V) < MAX_VARIABLES, V |-> Append(V, [name |-> name, t |-> t])]

RECURSIVE expr_type(_, _, _), check_statements(_, _, _, _, _, _)

\* The type of a call on a member: registry operations of a namespace, methods of
\* a file handle, and then and cancel of a promise.
method_type(P, V, base, name, args) ==
  LET arg(i) == expr_type(P, V, args[i])
  IN  with(expr_type(P, V, base), LAMBDA b :
      CASE b = Error -> Error
        [] b[1] = "Namespace" ->
             with(lookup(b[2], name), LAMBDA sig :
               IF sig # <<>> /\ Len(args) \in sig[1].min..Len(sig[1].args)
                  /\ \A i \in 1..Len(args) : arg(i) = <<sig[1].args[i]>>
               THEN sig[1].result ELSE Error)
        [] b = <<"FileHandle">> /\ name = "read" ->
             IF args = <<>> THEN Promise("Bytes") ELSE Error
        [] b = <<"FileHandle">> /\ name = "write" ->
             IF Len(args) = 1 /\ arg(1) \in {<<"String">>, <<"Bytes">>}
             THEN Promise("Void") ELSE Error
        [] IsPromise(b) /\ name = "cancel" ->
             IF args = <<>> THEN Promise("Void") ELSE Error
        [] IsPromise(b) /\ name = "then" ->
             IF Len(args) # 1 \/ P.ex[args[1]].k # "arrow" THEN Error
             ELSE LET cb == P.ex[args[1]]
                      d == declare(V, cb.name, value_type(b))
                  IN  with(IF ~d.ok THEN Error
                           ELSE IF cb.kids # <<>> THEN expr_type(P, d.V, cb.kids[1])
                           ELSE check_statements(P, d.V, cb.body[1], cb.body[2], TRUE, <<"Void">>).t,
                        LAMBDA t :
                          IF IsPromise(t) THEN t
                          ELSE IF t[1] \in {"Namespace", "Callback", "Service", "error"} THEN Error
                          ELSE Promise(t[1]))
        [] OTHER -> Error)

call_type(P, V, callee, args) ==
  LET c == P.ex[callee]
      string(i) == expr_type(P, V, args[i]) = <<"String">>
  IN  CASE c.k = "member" -> method_type(P, V, c.kids[1], c.name, args)
        [] c.k = "name" /\ c.name = "clear" -> IF args = <<>> THEN <<"Void">> ELSE Error
        [] c.k = "name" /\ c.name = "echo" ->
             IF Len(args) = 1 /\ string(1) THEN <<"String">> ELSE Error
        [] c.k = "name" /\ c.name = "help" ->
             IF Len(args) = 0 \/ (Len(args) = 1 /\ string(1)) THEN <<"String">> ELSE Error
        [] OTHER -> Error

expr_type(P, V, id) ==
  LET n == P.ex[id]
      kid == expr_type(P, V, n.kids[1])
  IN  CASE n.k = "str" -> <<"String">>
        [] n.k = "num" -> <<"Number">>
        [] n.k = "true" -> <<"Bool">>
        [] n.k = "name" ->
             IF find(V, n.name) # Error THEN find(V, n.name)
             ELSE IF n.name \in {"net", "fs"} THEN <<"Namespace", n.name>> ELSE Error
        [] n.k = "index" -> Error
        [] n.k = "member" ->
             CASE kid = <<"Response">> /\ n.name = "body" -> <<"Bytes">>
               [] kid = <<"Response">> /\ n.name = "status" -> <<"Number">>
               [] kid = <<"Namespace", "net">> /\ n.name = "status" -> <<"Callback">>
               [] IsPromise(kid) /\ n.name \in {"then", "cancel"} -> <<"Callback">>
               [] kid = <<"FileHandle">> /\ n.name \in {"read", "write"} -> <<"Callback">>
               [] OTHER -> Error
        [] n.k = "call" -> call_type(P, V, n.kids[1], Tail(n.kids))
        [] n.k = "await" -> IF IsPromise(kid) THEN value_type(kid) ELSE Error
        [] n.k = "arrow" -> <<"Callback">>

\* Statements from..to that are, or are not, part of a callback, in order.  The
\* type is the last one's.
check_statements(P, V, from, to, callback, result) ==
  IF from > to THEN [t |-> result, V |-> V]
  ELSE LET s == P.sm[from]
       IN  IF s.cb # callback THEN check_statements(P, V, from + 1, to, callback, result)
           ELSE with(expr_type(P, V, s.init), LAMBDA t :
             LET d == IF s.k = "var" THEN declare(V, s.name, t)
                      ELSE IF s.k = "assign" THEN assign(V, s.name, t) ELSE [ok |-> TRUE, V |-> V]
             IN  IF t = Error \/ ~d.ok \/ (s.k = "return" /\ ~callback)
                 THEN [t |-> Error, V |-> V]
                 ELSE check_statements(P, d.V, from + 1, to, callback,
                                       IF s.k \in {"var", "assign"} THEN <<"Void">> ELSE t))

type_check(P, V) == check_statements(P, V, 1, Len(P.sm), FALSE, <<"Void">>)

-----------------------------------------------------------------------------
\* The promise table.  pid tells promises apart for the properties.
VacantSlot == [state |-> "vacant", kind |-> "Void", pid |-> 0]
Value(t, h, pid) == [t |-> t, h |-> h, pid |-> pid]
Void == Value(<<"Void">>, 0, 0)

allocate(R, kind) ==
  LET i == SelectInSeq(R.slots, LAMBDA s : s.state = "vacant")
  IN  [ok |-> i # 0, h |-> i,
       R |-> IF i = 0 THEN R
             ELSE [R EXCEPT !.slots[i] = [state |-> "pending", kind |-> kind, pid |-> R.next],
                            !.next = @ + 1]]

settle(R, h, state) == [R EXCEPT !.slots[h].state = state]

\* reclaim_temporary_promises: a slot no variable refers to is emptied.
Referenced(R) == {R.vals[i].h : i \in {j \in 1..Len(R.vals) : IsPromise(R.vals[j].t)}}
ReferencedMutant(R) == {R.vals[i].h : i \in {j \in 1..Len(R.vals) : IsPromise(R.vals[j].t) /\ j = Len(R.vals)}}

reclaim_temporary_promisesMutant(R) ==
  [R EXCEPT !.slots = [h \in 1..Len(R.slots) |->
                         IF h \in ReferencedMutant(R) THEN R.slots[h] ELSE VacantSlot]]

reclaim_temporary_promises(R) ==
  [R EXCEPT !.slots = [h \in 1..Len(R.slots) |->
                         IF h \in Referenced(R) THEN R.slots[h] ELSE VacantSlot]]

Slot(R, name) == SelectInSeq(R.vars, LAMBDA v : v.name = name)
NoValue == Value(<<"none">>, 0, 0)
SetValue(R, i, v) ==
  [R EXCEPT !.vals = [j \in 1..Len(R.vars) |->
                        IF j = i THEN v ELSE IF j <= Len(R.vals) THEN R.vals[j] ELSE NoValue]]
ValueAt(R, name) ==
  IF Slot(R, name) \in 1..Len(R.vals) THEN R.vals[Slot(R, name)] ELSE NoValue

\* What evaluating an expression gives: a ready value, a promise to wait for, or
\* an error; and the runtime after it.
Ready(R, v) == [r |-> "ready", v |-> v, R |-> R]
Pending(R, h) == [r |-> "pending", v |-> Value(Promise(R.slots[h].kind), h, R.slots[h].pid), R |-> R]
Failed(R) == [r |-> "failed", v |-> Void, R |-> R]

NewPromise(R, kind, state) ==
  LET a == allocate(R, kind)
  IN  IF a.ok THEN Ready(settle(a.R, a.h, state), Value(Promise(kind), a.h, R.next)) ELSE Failed(R)

RECURSIVE expression(_, _, _)

FirstReturn(P, body) ==
  LET rs == {i \in body[1]..body[2] : P.sm[i].k = "return"}
  IN  IF rs = {} THEN 0 ELSE P.sm[CHOOSE i \in rs : \A j \in rs : i <= j].init

\* then on a ready promise runs the callback with the promise's value; a promise
\* from the callback is returned as it is, any other value as a ready promise.
thenMutant(P, R, b, arrow) == NewPromise(R, "Void", "ready")

then(P, R, b, arrow) ==
  LET cb == P.ex[arrow]
      value == Value(<<R.slots[b.v.h].kind>>, 0, 0)
      S == [R EXCEPT !.cb = <<[name |-> cb.name, v |-> value]>>]
      id == IF cb.kids # <<>> THEN cb.kids[1] ELSE FirstReturn(P, cb.body)
  IN  with(IF id = 0 THEN Ready(S, Void) ELSE expression(P, S, id), LAMBDA e :
        LET T == [e.R EXCEPT !.cb = <<>>]
        IN  CASE e.r = "failed" -> e
              [] e.r = "pending" -> Ready(T, e.v)
              [] e.r = "ready" -> IF IsPromise(e.v.t) THEN Ready(T, e.v)
                                  ELSE NewPromise(T, e.v.t[1], "ready"))

\* A call node id of type t.
callExpression(P, R, id, t) ==
  LET n == P.ex[id]
      c == P.ex[n.kids[1]]
      arg == expression(P, R, n.kids[2])
      b == expression(P, R, c.kids[1])
      promised == b.r = "ready" /\ IsPromise(b.v.t)
      default == IF IsPromise(t) THEN NewPromise(R, t[2], "pending") ELSE Failed(R)
  IN  IF c.k = "name"
      THEN CASE t = Error -> Failed(R)
             [] c.name = "clear" -> Ready(R, Void)
             [] Len(n.kids) = 1 -> Ready(R, Value(<<"String">>, 0, 0))
             [] OTHER -> IF arg.r = "ready" /\ arg.v.t = <<"String">>
                         THEN Ready(arg.R, Value(<<"String">>, 0, 0)) ELSE Failed(R)
      ELSE CASE c.name = "open" ->
                  IF t = Error THEN Failed(R)
                  ELSE IF arg.r = "ready" /\ arg.v.t = <<"String">>
                  THEN Ready(arg.R, Value(<<"FileHandle">>, 0, 0)) ELSE Failed(R)
             [] c.name = "cancel" ->
                  IF b.r = "failed" THEN b
                  ELSE IF ~promised THEN default
                  ELSE IF b.R.slots[b.v.h].state # "pending" THEN Failed(b.R)
                  ELSE NewPromise(settle(b.R, b.v.h, "cancelled"), "Void", "ready")
             [] c.name = "then" /\ Len(n.kids) = 2 ->
                  IF b.r = "failed" THEN b
                  ELSE IF promised /\ b.R.slots[b.v.h].state = "ready"
                  THEN then(P, b.R, b, n.kids[2]) ELSE [default EXCEPT !.R =
                    IF IsPromise(t) THEN NewPromise(b.R, t[2], "pending").R ELSE b.R]
             [] OTHER -> default

\* The variables in scope: inside a callback its parameter too.
Scope(R) ==
  IF R.cb = <<>> THEN R.vars
  ELSE LET d == declare(R.vars, R.cb[1].name, R.cb[1].v.t) IN IF d.ok THEN d.V ELSE R.vars

expression(P, R, id) ==
  LET n == P.ex[id]
      e == expression(P, R, n.kids[1])
  IN  CASE n.k = "str" -> Ready(R, Value(<<"String">>, 0, 0))
        [] n.k = "num" -> Ready(R, Value(<<"Number">>, 0, 0))
        [] n.k = "true" -> Ready(R, Value(<<"Bool">>, 0, 0))
        [] n.k = "name" ->
             IF R.cb # <<>> /\ R.cb[1].name = n.name THEN Ready(R, R.cb[1].v)
             ELSE IF ValueAt(R, n.name) = NoValue THEN Failed(R) ELSE Ready(R, ValueAt(R, n.name))
        [] n.k = "await" ->
             IF e.r # "ready" \/ ~IsPromise(e.v.t) THEN Failed(e.R)
             ELSE CASE e.R.slots[e.v.h].state = "ready" ->
                         Ready(e.R, Value(<<e.R.slots[e.v.h].kind>>, 0, 0))
                    [] e.R.slots[e.v.h].state = "pending" -> Pending(e.R, e.v.h)
                    [] OTHER -> Failed(e.R)
        [] n.k = "call" -> callExpression(P, R, id, expr_type(P, Scope(R), id))
        [] n.k = "member" ->
             IF e.r = "ready" /\ e.v.t = <<"Response">> /\ n.name \in {"status", "body"}
             THEN Ready(e.R, Value(<<IF n.name = "status" THEN "Number" ELSE "Bytes">>, 0, 0))
             ELSE Failed(e.R)
        [] OTHER -> Failed(R)

\* The statements of a program outside callbacks, in order, until one fails.
RECURSIVE evaluate_from(_, _, _, _, _)
evaluate_from(P, R, i, prior, lax) ==
  IF i > Len(P.sm) THEN [prior EXCEPT !.R = R] @@ [lax |-> lax]
  ELSE LET s == P.sm[i]
       IN  IF s.cb THEN evaluate_from(P, R, i + 1, prior, lax)
           ELSE with(IF s.k = "return" THEN Ready(R, Void) ELSE expression(P, R, s.init), LAMBDA e :
             IF e.r = "failed" THEN e @@ [lax |-> lax]
             ELSE IF s.k \in {"var", "assign"}
             THEN evaluate_from(P, SetValue(e.R, Slot(e.R, s.name), e.v), i + 1, Ready(R, Void),
                                IF e.r = "pending" THEN lax \cup {s.name} ELSE lax)
             ELSE evaluate_from(P, e.R, i + 1, e, lax))

-----------------------------------------------------------------------------
NothingRun == [t |-> <<"Void">>, r |-> "none", v |-> Void, tidy |-> TRUE]

Init ==
  /\ tokens = <<>>
  /\ rt = [vars |-> <<>>, vals |-> <<>>, slots |-> [h \in 1..MAX_PROMISES |-> VacantSlot],
           cb |-> <<>>, next |-> 1]
  /\ last = NothingRun /\ loose = {} /\ taken = {} /\ runs = 0

\* Sources are explored a token at a time, keeping those that can still become a
\* program: the parser accepts them or fails only for want of more tokens.
Viable(ts) == with(parse(ts), LAMBDA r : r.ok \/ r.st.pos > Len(ts))

Type ==
  /\ Len(tokens) < MaxTokens
  /\ \E t \in Alphabet : Viable(Append(tokens, t)) /\ tokens' = Append(tokens, t)
  /\ UNCHANGED <<rt, last, loose, taken, runs>>

\* A callback body is tidy when its only return is its last statement; a body
\* with statements of an inner callback in it is not.
Tidy(P) ==
  \A i \in 1..Len(P.ex) :
    P.ex[i].body # <<>> =>
      LET b == P.ex[i].body
      IN  b[1] <= b[2] => {j \in b[1]..b[2] : P.sm[j].k = "return"} = {b[2]}

\* The variables whose promise was taken and whose slot another promise has now.
Aliased(R) ==
  {i \in 1..Len(R.vals) : IsPromise(R.vals[i].t) /\ R.slots[R.vals[i].h].pid # R.vals[i].pid}

\* Program::evaluate, then FlowService::operation's reclaim.  A failed check
\* leaves the runtime as it was; a failed evaluation leaves what it had done.
Evaluate(src) ==
  /\ runs < MaxRuns
  /\ \E P \in {parse(src).st} : \E c \in {type_check(P, rt.vars)} :
       IF c.t = Error
       THEN last' = [NothingRun EXCEPT !.t = Error] /\ UNCHANGED <<rt, loose>>
       ELSE \E e \in {evaluate_from(P, [rt EXCEPT !.vars = c.V, !.cb = <<>>], 1, Ready(rt, Void), {})} :
              /\ rt' = reclaim_temporary_promises([e.R EXCEPT !.cb = <<>>])
              /\ last' = [t |-> c.t, r |-> e.r, v |-> e.v, tidy |-> Tidy(P)]
              /\ loose' = loose \cup e.lax \cup {rt'.vars[i].name : i \in Aliased(rt')}
  /\ runs' = runs + 1
  /\ UNCHANGED <<tokens, taken>>

\* resolve_variable, take_variable: what a finished fetch and an await of a ready
\* promise do through the variable's name.
VariablePromises == {i \in 1..Len(rt.vals) : IsPromise(rt.vals[i].t)}

Resolve(i) ==
  /\ rt.slots[rt.vals[i].h].state = "pending"
  /\ rt.slots[rt.vals[i].h].kind = "Response"
  /\ rt' = settle(rt, rt.vals[i].h, "ready")
  /\ UNCHANGED <<tokens, last, loose, taken, runs>>

Take(i) ==
  LET h == rt.vals[i].h
  IN  /\ rt.slots[h].state = "ready"
      /\ taken' = taken \cup {rt.slots[h].pid}
      /\ rt' = [rt EXCEPT !.slots[h].state = "vacant", !.slots[h].kind = "Void"]
      /\ UNCHANGED <<tokens, last, loose, runs>>

Next ==
  \/ Type
  \/ \E src \in Sources : Evaluate(src)
  \/ \E i \in VariablePromises : Resolve(i) \/ Take(i)

Spec == Init /\ [][Next]_vars

-----------------------------------------------------------------------------
TypeOK ==
  /\ Len(tokens) <= MaxTokens /\ Len(rt.slots) = MAX_PROMISES
  /\ Len(rt.vars) <= MAX_VARIABLES /\ runs <= MaxRuns

\* The names and literals of a tree, in source order.
RECURSIVE Leaves(_, _), BodyLeaves(_, _, _)
Own(P, i) ==   \* callbacks of the tree of statement i: their bodies precede it
  LET RECURSIVE Under(_)
      Under(id) == {id} \cup UNION {Under(P.ex[id].kids[j]) : j \in 1..Len(P.ex[id].kids)}
  IN  {P.ex[id].body : id \in {j \in Under(P.sm[i].init) : P.ex[j].body # <<>>}}

Leaves(P, id) ==
  LET n == P.ex[id]
      below == FlattenSeq([j \in 1..Len(n.kids) |-> Leaves(P, n.kids[j])])
  IN  CASE n.k \in Literals -> <<n.k>>
        [] n.k = "name" -> <<n.name>>
        [] n.k = "member" -> Append(below, n.name)
        [] n.k = "arrow" -> <<n.name>> \o (IF n.body = <<>> THEN below
                                            ELSE BodyLeaves(P, n.body[1], n.body[2]))
        [] OTHER -> below

\* Statements from..to less those inside their callbacks.
BodyLeaves(P, from, to) ==
  LET inner == UNION {UNION {b[1]..b[2] : b \in Own(P, i)} : i \in from..to}
      one(i) == (IF P.sm[i].k \in {"var", "assign"} THEN <<P.sm[i].name>> ELSE <<>>)
                  \o Leaves(P, P.sm[i].init)
  IN  FlattenSeq([i \in 1..(to - from + 1) |->
                    IF (i + from - 1) \in inner THEN <<>> ELSE one(i + from - 1)])

\* What the parser accepts it keeps: every name and literal of the source is in the
\* tree exactly once and in order (the trial parse of a parenthesis leaves nothing
\* behind), children come before their parents in the arena, so that checking and
\* evaluating end, and the fixed limits hold.
Exact(P) ==
  /\ BodyLeaves(P, 1, Len(P.sm)) = SelectSeq(tokens, LAMBDA t : t \in Names \cup Literals)
  /\ \A i \in 1..Len(P.ex) : \A j \in 1..Len(P.ex[i].kids) : P.ex[i].kids[j] < i
  /\ Len(P.ex) <= MAX_EXPR_NODES /\ Len(P.sm) <= MAX_STATEMENTS /\ P.depth = 0

ParserExact == with(parse(tokens), LAMBDA r : r.ok => Exact(r.st))

\* A program that passes the checker evaluates to a value of the type it was given,
\* and a variable holds a value of its declared type, however promises were
\* resolved, cancelled and taken in between.  Three cases are outside it: a variable
\* assigned from an await still pending, one whose taken promise's slot was reused,
\* and a callback whose return is not last.
TypesSound ==
  (loose = {} /\ last.tidy) =>
    /\ last.r = "ready" => last.v.t = last.t
    /\ last.r = "pending" => value_type(last.v.t) = last.t
    /\ \A i \in 1..Len(rt.vals) : rt.vals[i] # NoValue => rt.vals[i].t = rt.vars[i].t

\* "Promise results remain in up to four fixed slots after assignment": no
\* evaluation, failed or not, empties or reuses the slot of a promise a variable
\* holds, until its result is taken.
PromisesKeepTheirSlot ==
  \A i \in VariablePromises :
    \/ rt.slots[rt.vals[i].h].pid = rt.vals[i].pid
    \/ rt.vals[i].pid \in taken
=============================================================================
