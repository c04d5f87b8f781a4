------------------------------- MODULE Operators -------------------------------
(***************************************************************************)
(* How a line of operators is read (src/src/parser.rs), after the lexer    *)
(* has made a semicolon of each newline that may be one, and before the    *)
(* REPL has decided whether to wait for more.  A text is typed a token at  *)
(* a time; `x` stands for any name, one token for `is` and its type, and   *)
(* one for each family of operators the rules tell apart.                  *)
(***************************************************************************)
EXTENDS Naturals, FiniteSets, Sequences, SequencesExt

CONSTANTS Words,      \* the tokens that are typed
          MaxTokens,  \* bound: how many, and two less when one is of
          Costly,     \* these
          Signed      \* may a sign, a power and a bit operator meet in one text?

VARIABLES tokens,     \* what was typed, newlines included
          parsed      \* what the parser made of it

Logical == {"and", "nand"}
Associative == {"and"}
Bit == {"band", "shl"}
Arithmetic == {"-", "*", "**"}
Prefix == {"-", "not"}
Infix == Logical \cup Bit \cup Arithmetic \cup {"==", "in", "?:", ".."}
RightToLeft == {"?:", "**"}
Level(op) == CASE op \in Logical -> 1 [] op = "==" -> 2 [] op \in {"in", "isT"} -> 3 [] op = "?:" -> 4
               [] op = ".." -> 5 [] op \in Bit -> 6 [] op = "-" -> 7 [] op = "*" -> 8 [] op = "**" -> 9
PrefixLevel == 9

-----------------------------------------------------------------------------
(* The lexer and the REPL.                                                 *)

EndsStatement(tok) == tok \in {"x", "isT", ")", "!!"}
Bracketed(toks) == FoldLeft(LAMBDA d, tok : IF tok = "(" THEN d + 1 ELSE IF tok = ")" /\ d > 0 THEN d - 1 ELSE d, 0, toks)
MaybeSemi(toks) == IF Bracketed(toks) = 0 /\ toks # <<>> /\ EndsStatement(Last(toks)) THEN Append(toks, ";") ELSE toks
Lexed(typed) == MaybeSemi(FoldLeft(LAMBDA toks, w : IF w = "nl" THEN MaybeSemi(toks) ELSE Append(toks, w), <<>>, typed))

HowMany(toks, tok) == Len(SelectSeq(toks, LAMBDA u : u = tok))
IsIncomplete(toks) == \/ HowMany(toks, "(") > HowMany(toks, ")")
                      \/ toks # <<>> /\ ~EndsStatement(Last(toks)) /\ Last(toks) # ";"

-----------------------------------------------------------------------------
(* The parser.  It has read up to a token and has an expression, or it     *)
(* stopped: at a token that cannot stand there, or at the end.             *)

Tok(t, p) == IF p <= Len(t) THEN t[p] ELSE "eof"
Got(p, e) == [st |-> "ok", pos |-> p, e |-> e]
Refused(t, p) == [st |-> IF Tok(t, p) = "eof" THEN "eof" ELSE "error", pos |-> p, e |-> <<>>]
X == <<"x">>

\* Two operators of which neither is to be read first.
Mixing(prev, next) ==
    /\ prev # "none" /\ next \in Bit \cup Arithmetic
    /\ ~(prev \in Arithmetic /\ next \in Arithmetic) /\ prev # next

\* An expression none of whose operators has less than a level.
RECURSIVE Binary(_, _, _)

\* What is inside brackets, after the closing one.
Closed(t, r) == IF r.st = "ok" /\ Tok(t, r.pos) # ")" THEN Refused(t, r.pos) ELSE [r EXCEPT !.pos = @ + 1]
Primary(t, p) ==
    CASE Tok(t, p) = "x" -> Got(p + 1, X)
      [] Tok(t, p) = "(" -> Closed(t, Binary(t, p + 1, 0))
      [] OTHER -> Refused(t, p)

ArgList(t, p) ==
    IF Tok(t, p) = ")" THEN Got(p + 1, <<>>)
    ELSE LET r == Closed(t, Binary(t, p, 0)) IN [r EXCEPT !.e = <<@>>]

RECURSIVE Postfix(_, _)
Postfix(t, e) ==
    IF e.st # "ok" THEN e
    ELSE CASE Tok(t, e.pos) = "!!" -> Postfix(t, Got(e.pos + 1, <<"!!", e.e>>))
           [] Tok(t, e.pos) = "(" -> LET args == ArgList(t, e.pos + 1) IN
                                     IF args.st # "ok" THEN args ELSE Postfix(t, Got(args.pos, <<"call", e.e, args.e>>))
           [] OTHER -> e

Unary(t, p) ==
    IF Tok(t, p) \notin Prefix THEN Postfix(t, Primary(t, p))
    ELSE LET rhs == Binary(t, p + 1, PrefixLevel) IN
         IF rhs.st # "ok" THEN rhs ELSE Got(rhs.pos, <<Tok(t, p), rhs.e>>)

\* A connective and a bit operator have levels of their own kind: what may
\* follow the one is looked at once it is applied, and the other takes no more
\* than a unary operand.
NoStepUp(t, op, p) == IF op \in Bit THEN Unary(t, p) ELSE Binary(t, p, Level(op))  \* mutant
RightOperand(t, op, p) ==
    CASE op \in Bit -> Unary(t, p)
      [] op \in RightToLeft -> Binary(t, p, Level(op))
      [] OTHER -> Binary(t, p, Level(op) + 1)

RECURSIVE Loop(_, _, _, _)
\* An operator with both its sides.
Applied(t, op, lhs, rhs, least) ==
    CASE rhs.st # "ok" -> rhs
      [] op \in Logical /\ Tok(t, rhs.pos) \in Logical /\ ~(Tok(t, rhs.pos) = op /\ op \in Associative) -> Refused(t, rhs.pos)
      [] OTHER -> Loop(t, Got(rhs.pos, <<op, lhs.e, rhs.e>>), IF op \in Bit \cup Arithmetic THEN op ELSE "none", least)
Loop(t, lhs, prev, least) ==
    LET op == Tok(t, lhs.pos)
    IN CASE lhs.st # "ok" \/ op \notin Infix \cup {"isT"} -> lhs
         [] op \in Bit /\ Tok(t, lhs.pos + 1) = "=" -> lhs
         [] Level(op) < least -> lhs
         [] op = "isT" -> Loop(t, Got(lhs.pos + 1, <<op, lhs.e>>), "none", least)
         [] Mixing(prev, op) -> [Refused(t, lhs.pos) EXCEPT !.st = "error"]
         [] OTHER -> Applied(t, op, lhs, RightOperand(t, op, lhs.pos + 1), least)
Binary(t, p, least) == Loop(t, Unary(t, p), "none", least)

\* The operator of an assignment: `band =` is two tokens.
CompoundOp(t, p) == CASE Tok(t, p) = "=" -> <<"=">>
                      [] Tok(t, p) \in Bit /\ Tok(t, p + 1) = "=" -> <<t[p], "=">>
                      [] OTHER -> <<>>
Assigned(target, op, value) == IF value.st # "ok" THEN value ELSE Got(value.pos, <<op, target.e, value.e>>)
Assign(t, target) ==
    LET op == CompoundOp(t, target.pos)
    IN CASE target.st # "ok" \/ op = <<>> -> target
         [] target.e # X -> [Refused(t, target.pos) EXCEPT !.st = "error"]
         [] OTHER -> Assigned(target, op, Binary(t, target.pos + Len(op), 0))
Stmt(t, p) == Assign(t, Binary(t, p, 0))

RECURSIVE Program(_, _, _)
Items(t, s, items) == IF s.st # "ok" THEN s ELSE Program(t, s.pos, Append(items, s.e))
Program(t, p, items) ==
    CASE Tok(t, p) = ";" -> Program(t, p + 1, items)
      [] Tok(t, p) = "eof" -> Got(p, items)
      [] OTHER -> Items(t, Stmt(t, p), items)
Parse(typed) == Program(Lexed(typed), 1, <<>>)

-----------------------------------------------------------------------------
Among(S) == S \cap {tokens[i] : i \in DOMAIN tokens}

OInit == tokens = <<>> /\ parsed = Parse(<<>>)
\* Another token, also after one the parser refused, but not after two.
Type(w) ==
    /\ Len(tokens) < IF Among(Costly) = {} THEN MaxTokens ELSE MaxTokens - 2
    /\ parsed.st = "error" => Parse(Front(tokens)).st # "error"
    /\ tokens' = Append(tokens, w)
    /\ w \in Costly => Len(tokens) < MaxTokens - 2
    /\ {} \notin {Among(Prefix)', Among({"**"})', Among(Bit)'} => Signed
    /\ parsed' = Parse(tokens')
ONext == \E w \in Words : Type(w)

-----------------------------------------------------------------------------
(* What the rules of docs/language.md make of it: the trees a text may be, *)
(* brackets kept.  Each side of an operator shows operators of some level. *)

Binaries(e) == Len(e) = 3 /\ e[1] \in Infix
RECURSIVE OnLeft(_), OnRight(_), FirstOp(_), LastOp(_)
OnLeft(e) == IF Binaries(e) \/ e[1] = "isT" THEN {Level(e[1])} \cup OnLeft(e[2]) ELSE {}
OnRight(e) == CASE Binaries(e) -> {Level(e[1])} \cup OnRight(e[3])
                [] Len(e) = 2 /\ e[1] \in Prefix -> {PrefixLevel} \cup OnRight(e[2])
                [] OTHER -> {}
FirstOp(e) == CASE Binaries(e) \/ e[1] = "isT" -> IF FirstOp(e[2]) # "none" THEN FirstOp(e[2]) ELSE e[1]
                [] Len(e) = 2 /\ e[1] \in Prefix -> FirstOp(e[2])
                [] OTHER -> "none"
LastOp(e) == CASE Binaries(e) -> IF LastOp(e[3]) # "none" THEN LastOp(e[3]) ELSE e[1]
               [] Len(e) = 2 /\ e[1] \in Prefix -> LastOp(e[2])
               [] OTHER -> "none"

Unordered(one, other) ==
    /\ {one, other} \subseteq Bit \cup Arithmetic
    /\ one # other /\ ~({one, other} \subseteq Arithmetic)
Fits(op, l, r) ==
    /\ \A level \in OnLeft(r) : level > Level(op) \/ (level = Level(op) /\ op \in RightToLeft)
    /\ \A level \in OnRight(l) : level > Level(op) \/ (level = Level(op) /\ op \notin RightToLeft)
    /\ ~Unordered(LastOp(l), op) /\ ~Unordered(op, FirstOp(r))
    /\ op \in Logical /\ Binaries(l) /\ l[1] \in Logical => l[1] = op /\ op \in Associative
IsTerm(e) == e[1] \in {"x", "(", "!!", "call"}

RECURSIVE Readings(_, _, _)
Readings(t, i, j) ==
    LET Inner == Readings(t, i + 1, j - 1)
        Rest == Readings(t, i + 1, j)
        Most == Readings(t, i, j - 1)
    IN  IF i > j THEN {}
        ELSE {X : k \in {k \in {i} : i = j /\ t[i] = "x"}}
             \cup (IF t[i] = "(" /\ t[j] = ")" THEN {<<"(", e>> : e \in Inner} ELSE {})
             \cup (IF t[i] \in Prefix
                   THEN {<<t[i], e>> : e \in {e \in Rest : \A level \in OnLeft(e) : level >= PrefixLevel}} ELSE {})
             \cup (IF t[j] = "!!" THEN {<<"!!", e>> : e \in {e \in Most : IsTerm(e)}} ELSE {})
             \cup (IF t[j] = "isT"
                   THEN {<<"isT", e>> : e \in {e \in Most : \A level \in OnRight(e) : level >= Level("isT")}} ELSE {})
             \cup UNION {LET f == {e \in Readings(t, i, k - 1) : IsTerm(e)} IN
                         IF f = {} THEN {}
                         ELSE {<<"call", e, <<>>>> : e \in IF k = j - 1 THEN f ELSE {}}
                              \cup {<<"call", e, <<a>>>> : e \in f, a \in Readings(t, k + 1, j - 1)} :
                            k \in {k \in i + 1 .. j - 1 : t[k] = "(" /\ t[j] = ")"}}
             \cup UNION {LET L == Readings(t, i, k - 1) IN
                         IF L = {} THEN {}
                         ELSE {<<t[k], e[1], e[2]>> :
                                 e \in {e \in L \X Readings(t, k + 1, j) : Fits(t[k], e[1], e[2])}} :
                            k \in {k \in i + 1 .. j - 1 : t[k] \in Infix}}

\* Without the brackets, as the parser's tree is.
RECURSIVE Bare(_)
Bare(e) == CASE e[1] = "(" -> Bare(e[2])
             [] e[1] = "call" -> <<"call", Bare(e[2]), IF e[3] = <<>> THEN <<>> ELSE <<Bare(e[3][1])>> >>
             [] Len(e) = 2 -> <<e[1], Bare(e[2])>>
             [] Len(e) = 3 -> <<e[1], Bare(e[2]), Bare(e[3])>>
             [] OTHER -> e
Trees(t, i, j) == {Bare(e) : e \in Readings(t, i, j)}

\* A statement ends at a semicolon, and where the next token can only begin one.
Statements(t) ==
    LET Begins(k) == k = 1 \/ t[k - 1] = ";" \/ (EndsStatement(t[k - 1]) /\ t[k] \in {"x", "not"})
                     \/ (t[k - 1] = "isT" /\ t[k] = "(")
        Starts == {k \in DOMAIN t : Begins(k) /\ t[k] # ";"}
        End(k) == CHOOSE n \in k .. Len(t) : /\ n = Len(t) \/ t[n + 1] = ";" \/ Begins(n + 1)
                                            /\ \A m \in k .. n - 1 : ~(t[m + 1] = ";" \/ Begins(m + 1))
    IN  {<<k, End(k)>> : k \in Starts}
StatementTrees(t, i, j) ==
    Trees(t, i, j)
    \cup UNION {LET op == IF k > i + 1 /\ t[k - 1] \in Bit THEN <<t[k - 1], "=">> ELSE <<"=">> IN
                IF Trees(t, i, k - Len(op)) # {X} THEN {} ELSE {<<op, X, v>> : v \in Trees(t, k + 1, j)} :
                   k \in {k \in i + 1 .. j : t[k] = "="}}

(* A text the parser accepts has one reading by the rules, statement for    *)
(* statement, and that is the parser's; one it refuses has none; and the    *)
(* REPL waits for more of what may still become one, and of nothing it may  *)
(* read (parser.rs `binary`, repl.rs `is_incomplete`).                      *)
TextsReadOneWay ==
    LET t == Lexed(tokens)
        trees(s) == StatementTrees(t, s[1], s[2])
    IN /\ parsed.st = "ok" =>
            /\ Len(parsed.e) = Cardinality(Statements(t))
            /\ \A s \in Statements(t) :
                  trees(s) = {parsed.e[Cardinality({u \in Statements(t) : u[1] <= s[1]})]}
            /\ ~IsIncomplete(t)
       /\ parsed.st # "ok" => \E s \in Statements(t) : trees(s) = {}
       /\ parsed.st = "eof" => IsIncomplete(t)
================================================================================
