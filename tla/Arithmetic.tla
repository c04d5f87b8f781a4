------------------------------- MODULE Arithmetic ------------------------------
(* Int arithmetic in the four places the code does it: the tree-walker        *)
(* (src/src/interp.rs, binary), the bytecode VM (vm.rs, arith), compile-time  *)
(* folding (constfold.rs, binary) and compiled programs (runtime.c, keal_add  *)
(* and its neighbours).  The first three call one set of Rust helpers, so a   *)
(* difference between them is in the arms written three times.                *)
EXTENDS Integers

CONSTANTS
    Width,     \* of an Int: 64 in the code
    PowCap,    \* where int_pow caps an exponent: u32::MAX in the code
    FloatGap,  \* how far an Int is from the float nearest to it: 512 in the code
    AtEdges    \* whether programs use the inputs the engines differ on

\* x to the y-th, for y a natural number.
Power(x, y) == LET p[i \in Nat] == IF i = 0 THEN 1 ELSE p[i - 1] * x IN p[y]
Half == Power(2, Width - 1)
Ints == -Half .. Half - 1
Engine == {"interp", "vm", "constfold", "native"}

VARIABLES
    op, a, b,   \* the expression; b is not used by the unary operators
    answer      \* [Engine -> its answer, or Pending]

vars == <<op, a, b, answer>>

Value(n) == [fails |-> "no", value |-> n]
Fails(why) == [fails |-> why, value |-> 0]
Pending == Fails("pending")

\* The 64 bits of an Int, and the Int of 64 bits.
Bits(n) == n % Power(2, Width)
Signed(u) == IF u >= Half THEN u - Power(2, Width) ELSE u
Wrapped(n) == Signed(Bits(n))

Abs(n) == IF n < 0 THEN -n ELSE n
\* Division towards zero, as in Rust and in C.
Quotient(x, y) == IF (x < 0) = (y < 0) THEN Abs(x) \div Abs(y) ELSE -(Abs(x) \div Abs(y))
Remainder(x, y) == x - y * Quotient(x, y)

Overflow == Fails("integer overflow")
Checked(n) == IF n \in Ints THEN Value(n) ELSE Overflow
--------------------------------------------------------------------------------
(* The arms.  MIN / -1 overflows; of the two remainders only Rust's does.     *)

Div(x, y) == IF y = 0 THEN Fails("division by zero") ELSE Checked(Quotient(x, y))
NativeDiv(x, y) ==
    IF y = 0 THEN Fails("division by zero")
    ELSE IF x = -Half /\ y = -1 THEN Overflow ELSE Value(Quotient(x, y))

Rem(x, y) ==
    IF y = 0 THEN Fails("remainder by zero")
    ELSE IF x = -Half /\ y = -1 THEN Overflow ELSE Value(Remainder(x, y))
NativeRem(x, y) ==
    IF y = 0 THEN Fails("remainder by zero")
    ELSE IF x = -Half /\ y = -1 THEN Value(0) ELSE Value(Remainder(x, y))
\* What constexpr says of `n % 0` is what it says of `n / 0`.
FoldRem(x, y) == IF y = 0 THEN Fails("division by zero") ELSE Rem(x, y)

\* checked_neg, and C's `-x`, which wraps in the programs compilers make of it.
Neg(x) == IF x = -Half THEN Fails("integer overflow while negating") ELSE Value(-x)
FoldNeg(x) == Checked(-x)
NativeNeg(x) == Value(Wrapped(-x))

\* abs wraps, in Rust's release builds and through unsigned arithmetic in C.
AbsOf(x) == Value(Wrapped(Abs(x)))
NarrowAbs(x) == Value(IF Abs(x) \in Ints THEN Abs(x) ELSE 0)        \* a mutant of NativeAbs
NativeAbs(x) == Value(IF x < 0 THEN Signed(Bits(Power(2, Width) - Bits(x))) ELSE x)

\* The shifts go through the unsigned 64 bits; the count is checked.
Count(y) == IF y < 0 \/ y > Width - 1 THEN Fails("shift count") ELSE Value(y)
Shl(x, y) == IF Count(y).fails = "no" THEN Value(Signed(Bits(Bits(x) * Power(2, y)))) ELSE Count(y)
\* `!((!u) >> by)` for a negative operand: the sign is carried in.
Inverse(u) == Power(2, Width) - 1 - u
SignedShr(x, y) == IF x < 0 THEN Inverse(Inverse(Bits(x)) \div Power(2, y)) ELSE Bits(x) \div Power(2, y)
Shr(x, y) == IF Count(y).fails = "no" THEN Value(Signed(SignedShr(x, y))) ELSE Count(y)
Ushr(x, y) == IF Count(y).fails = "no" THEN Value(Signed(Bits(x) \div Power(2, y))) ELSE Count(y)
BNot(x) == Value(Signed(Inverse(Bits(x))))

NegativePower == Fails("negative exponent")
\* checked_pow of an exponent cut to 32 bits; the loop of keal_int_pow, which
\* stops at the first product that does not fit.
IntPow(x, y) ==
    IF y < 0 THEN NegativePower
    ELSE Checked(Power(x, IF y > PowCap THEN PowCap ELSE y))
NativePow(x, y) ==
    LET r[i \in 0 .. y] == IF i = 0 THEN Value(1)
                           ELSE IF r[i - 1].fails # "no" THEN r[i - 1]
                           ELSE Checked(r[i - 1].value * x)
    IN IF y < 0 THEN NegativePower ELSE r[y]

\* The integer root: a float's estimate, climbed while the next number fits and
\* come down from while it does not.  The float may be off by one either way, and
\* a first root is as far off as the float that holds the number.
Fits(r, n, d) == Power(r, d) <= n
Root(n, d) == CHOOSE r \in 0 .. n : Fits(r, n, d) /\ ~Fits(r + 1, n, d)
Estimates(n, d) == IF d = 1 THEN {r \in n - FloatGap .. n + FloatGap : r >= 1} ELSE {r \in Root(n, d) - 1 .. Root(n, d) + 1 : r >= 1} \union {1}
ClimbTo(n, d, r) ==
    LET up[i \in r .. n + FloatGap + 1] == IF Fits(i + 1, n, d) THEN up[i + 1] ELSE i IN up[r]
DownFrom(n, d, r) ==
    LET down[i \in 0 .. r] == IF i > 0 /\ ~Fits(i, n, d) THEN down[i - 1] ELSE i IN down[r]
IntRoot(n, d, estimate) ==
    IF d <= 0 THEN Fails("degree") ELSE IF n < 0 THEN Fails("negative root")
    ELSE IF n = 0 THEN Value(0) ELSE Value(DownFrom(n, d, ClimbTo(n, d, estimate)))
--------------------------------------------------------------------------------
Binary == {"add", "sub", "mul", "div", "rem", "pow", "root", "shl", "shr", "ushr"}
Unary == {"neg", "abs", "bnot"}

Apply(e, estimate) ==
    CASE op = "add" -> Checked(a + b)
      [] op = "sub" -> Checked(a - b)
      [] op = "mul" -> Checked(a * b)
      [] op = "div" -> IF e = "native" THEN NativeDiv(a, b) ELSE Div(a, b)
      [] op = "rem" -> (CASE e = "native" -> NativeRem(a, b)
                          [] e = "constfold" -> FoldRem(a, b)
                          [] OTHER -> Rem(a, b))
      [] op = "pow" -> IF e = "native" THEN NativePow(a, b) ELSE IntPow(a, b)
      [] op = "root" -> IntRoot(a, b, estimate)
      [] op = "shl" -> Shl(a, b)
      [] op = "shr" -> Shr(a, b)
      [] op = "ushr" -> Ushr(a, b)
      [] op = "neg" -> (CASE e = "native" -> NativeNeg(a)
                          [] e = "constfold" -> FoldNeg(a)
                          [] OTHER -> Neg(a))
      [] op = "abs" -> IF e = "native" THEN NativeAbs(a) ELSE AbsOf(a)
      [] op = "bnot" -> BNot(a)

\* The inputs on which the engines differ.
Edge == \/ op = "neg" /\ a = -Half
        \/ op = "rem" /\ a = -Half /\ b = -1
        \/ op = "pow" /\ b > PowCap

\* The first root of a number whose float is past the Ints: the code counts from
\* there for years. Not asked for.
BeyondFloats == op = "root" /\ a >= Half - FloatGap /\ b = 1

Init ==
    /\ op \in Binary \union Unary
    /\ a \in Ints /\ b \in Ints
    /\ op \in Unary => b = 0
    /\ AtEdges \/ ~Edge
    /\ ~BeyondFloats
    /\ answer = [e \in Engine |-> Pending]

\* A constexpr calls no methods.
Runs == IF op = "abs" THEN Engine \ {"constfold"} ELSE Engine
Evaluate(e) ==
    /\ e \in Runs /\ answer[e] = Pending
    /\ \E r \in (IF op = "root" /\ a > 0 /\ b > 0 THEN Estimates(a, b) ELSE {1}) :
           answer' = [answer EXCEPT ![e] = Apply(e, r)]
    /\ UNCHANGED <<op, a, b>>

Answered == {e \in Engine : answer[e] # Pending}
\* The program has been run on every engine.
Over == Answered = Runs /\ UNCHANGED vars

Next == Over \/ \E e \in Engine : Evaluate(e)
Spec == Init /\ [][Next]_vars
--------------------------------------------------------------------------------
\* An answer is an Int, whatever the engine did to get it.
TypeOK ==
    /\ a \in Ints /\ b \in Ints
    /\ \A e \in Engine : answer[e].value \in Ints

\* One program, one answer: what an engine computes the others compute, and
\* where one stops the others do.  ("A program that overflows should fail the
\* same way whichever engine runs it.")
EnginesAgree ==
    \A e, f \in Answered :
        /\ answer[e].value = answer[f].value
        /\ answer[e].fails = "no" <=> answer[f].fails = "no"

\* "Overflow is an error, not a wrap": an answer is the number it should be, and
\* what is not an Int is no answer.  The shifts are on the bits: shl loses the
\* top ones, shr divides by a power of two downwards (-8 shr 1 is -4 as -8 / 2
\* is), ushr reads a word without sign.  The b-th root is the largest number
\* whose b-th power fits in a, wherever the float's estimate began.  (abs is not
\* held to it: that of the least Int wraps on every engine.)
IsRoot(r) == Fits(r, a, b) /\ ~Fits(r + 1, a, b)
Defined ==
    CASE op \in {"div", "rem"} -> b # 0
      [] op = "pow" -> b >= 0
      [] op = "root" -> a >= 0 /\ b > 0
      [] op \in {"shl", "shr", "ushr"} -> b \in 0 .. Width - 1
      [] OTHER -> TRUE
Exact == CASE op = "add" -> a + b [] op = "sub" -> a - b [] op = "mul" -> a * b
           [] op = "neg" -> -a [] op = "bnot" -> -a - 1
           [] op = "div" -> Quotient(a, b) [] op = "rem" -> Remainder(a, b)
           [] op = "pow" -> Power(a, b)
           [] op = "root" -> (CHOOSE r \in 0 .. a : IsRoot(r))
           [] op = "shl" -> Wrapped(a * Power(2, b))
           [] op = "shr" -> a \div Power(2, b)
           [] op = "ushr" -> Wrapped(Bits(a) \div Power(2, b))
AnswersAreExact ==
    op # "abs" => \A e \in Answered :
        IF Defined /\ Exact \in Ints THEN answer[e] = Value(Exact) ELSE answer[e].fails # "no"
================================================================================
