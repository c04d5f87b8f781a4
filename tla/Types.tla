-------------------------------- MODULE Types --------------------------------
(***************************************************************************)
(* The lattice the checker types expressions in (src/src/types.rs): which  *)
(* values may go where.  A type is a tuple: its name, and what it is made  *)
(* of.  The type an erroneous expression gets, which stops one mistake     *)
(* from being reported twice, is left out: a body is refused at its first. *)
(***************************************************************************)
EXTENDS Naturals, Sequences

TStr == <<"Str">>
TInt == <<"Int">>
TBool == <<"Bool">>
TSuit == <<"Suit">>
TBox == <<"Box">>
TUnit == <<"Unit">>
TNull == <<"Null">>
TNever == <<"Never">>
TAny == <<"Any">>
TList(t) == <<"List", t>>
TFun(params, ret) == <<"Fun", params, ret>>

\* `t?`: a type that admits null already stays as it is.
Nullable(t) == IF t[1] \in {"opt", "Any", "Null", "Never"} THEN t ELSE <<"opt", t>>
\* What is left of a type after a check for null.
WithoutNull(t) == IF t[1] = "opt" THEN t[2] ELSE IF t = TNull THEN TNever ELSE t
IsNullable(t) == t[1] \in {"opt", "Null", "Any"}

\* May a value of type s be used where t is asked for?  Lists are invariant,
\* because they can be changed; only the empty literal's fits anywhere.
RECURSIVE AssignableTo(_, _)
AssignableTo(s, t) ==
    CASE s = t \/ s = TNever \/ t = TAny -> TRUE
      [] s = TAny -> FALSE
      [] s = TNull -> IsNullable(t)
      [] t[1] = "opt" -> AssignableTo(WithoutNull(s), t[2])
      [] s[1] = "List" /\ t[1] = "List" -> s[2] = TNever
      [] s[1] = "Fun" /\ t[1] = "Fun" ->
            /\ Len(s[2]) = Len(t[2])
            /\ \A i \in DOMAIN s[2] : AssignableTo(t[2][i], s[2][i])
            /\ AssignableTo(s[3], t[3])
      [] OTHER -> FALSE

\* A type both fit: for the branches of an expression, the elements of a list.
RECURSIVE Joined(_, _)
Joined(s, t) ==
    CASE s = t \/ s = TNever -> t
      [] t = TNever -> s
      [] s = TNull -> Nullable(t)
      [] t = TNull -> Nullable(s)
      [] s[1] = "opt" \/ t[1] = "opt" -> Nullable(Joined(WithoutNull(s), WithoutNull(t)))
      [] AssignableTo(s, t) -> t
      [] AssignableTo(t, s) -> s
      [] OTHER -> TAny
=============================================================================
