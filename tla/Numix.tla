---------------------------------- MODULE Numix ----------------------------------
(***************************************************************************)
(* The calculator: the recursive descent of numix over a line of           *)
(* characters, with integers of Bits bits and nested calls bounded, and    *)
(* what the line means, defined without a parser.                          *)
(***************************************************************************)
EXTENDS Integers, SequencesExt, FiniteSetsExt

CONSTANTS
  Bits,      \* of an int (32)
  MaxDepth   \* NX_MAXDEPTH (64)

ASSUME NumixAssumption == Bits \in Nat \ {0} /\ MaxDepth \in Nat

Digits == <<"0", "1", "2", "3", "4", "5", "6", "7", "8", "9">>
Digit == [c \in ToSet(Digits) |-> CHOOSE d \in 0 .. 9 : Digits[d + 1] = c]
InRange(v) == -(2 ^ (Bits - 1)) <= v /\ v < 2 ^ (Bits - 1)

\* What every function returns: a value and the place after it, or an error.
Ok(v, p) == [v |-> v, p |-> p, err |-> ""]
Fail(why) == [v |-> 0, p |-> 0, err |-> why]
Good(r) == r.err = ""
Checked(v, p) == IF InRange(v) THEN Ok(v, p) ELSE Fail("overflow")

At(s, p) == IF p <= Len(s) THEN s[p] ELSE "end"
Skip(s, p) == Min({q \in p .. Len(s) + 1 : At(s, q) # " "} \cup {Len(s) + 1})
Numeral(s) == FoldLeft(LAMBDA v, c : 10 * v + Digit[c], 0, s)

\* C's division goes towards zero.
Sign(v) == IF v < 0 THEN -1 ELSE 1
Abs(v) == Sign(v) * v
Quotient(a, b) == Sign(a) * Sign(b) * (Abs(a) \div Abs(b))
Remainder(a, b) == a - b * Quotient(a, b)
Unlike(r, b) == r # 0 /\ Sign(r) # Sign(b)

-----------------------------------------------------------------------------
(* The functions of numix.c, d calls deep.                                 *)

Number(s, p) ==
  LET q == Min({r \in p .. Len(s) + 1 : At(s, r) \notin DOMAIN Digit})
  IN  IF q = p THEN Fail("invalid operation")
      ELSE IF ~InRange(Numeral(SubSeq(s, p, q - 1))) THEN Fail("overflow")
      ELSE IF At(s, q) \in {".", ","} THEN Fail("integers only")
      ELSE Ok(Numeral(SubSeq(s, p, q - 1)), q)

\* b ^ e by squaring; b is squared only while it is needed.
RECURSIVE Squared(_, _, _, _)
Squared(r, b, e, p) ==
  IF e = 0 THEN Ok(r, p)
  ELSE LET m == IF e % 2 = 1 THEN r * b ELSE r
       IN  IF ~InRange(m) \/ (e > 1 /\ ~InRange(b * b)) THEN Fail("overflow")
           ELSE Squared(m, b * b, e \div 2, p)

ipow(b, e, p) == IF e < 0 THEN Fail("negative exponent") ELSE Squared(1, b, e, p)

\* A slip: a remainder with the sign of the dividend.
DivideLikeC(op, a, b, p) ==
  IF b = 0 THEN Fail("division by zero")
  ELSE Checked(IF op = "%" THEN Remainder(a, b) ELSE Quotient(a, b), p)

\* "%" takes the sign of the divisor, "//" rounds down, "/" towards zero.
Divide(op, a, b, p) ==
  LET q == Quotient(a, b)
      r == Remainder(a, b)
  IN  CASE b = 0 -> Fail("division by zero")
        [] b = -1 -> IF op = "%" THEN Ok(0, p) ELSE Checked(-a, p)
        [] op = "%" -> Ok(IF Unlike(r, b) THEN r + b ELSE r, p)
        [] OTHER -> Ok(IF op = "//" /\ Unlike(r, b) THEN q - 1 ELSE q, p)

RECURSIVE Expr(_, _, _), Unary(_, _, _), TermRest(_, _, _), ExprRest(_, _, _)

Primary(s, p, d) ==
  LET at == Skip(s, p)
      e == Expr(s, at + 1, d + 1)
      close == Skip(s, e.p)
  IN  CASE At(s, at) # "(" -> Number(s, at)
        [] d = MaxDepth -> Fail("too deep")
        [] ~Good(e) -> e
        [] At(s, close) # ")" -> Fail("missing )")
        [] OTHER -> Ok(e.v, close + 1)

Power(s, p, d) ==
  LET b == Primary(s, p, d)
      at == Skip(s, b.p)
      width == CASE At(s, at) = "^" -> 1
                 [] At(s, at) = "*" /\ At(s, at + 1) = "*" -> 2
                 [] OTHER -> 0
      e == Unary(s, at + width, d + 1)
  IN  CASE ~Good(b) \/ width = 0 -> b
        [] d = MaxDepth -> Fail("too deep")
        [] ~Good(e) -> e
        [] OTHER -> ipow(b.v, e.v, e.p)

Unary(s, p, d) ==
  LET at == Skip(s, p)
      v == Unary(s, at + 1, d + 1)
  IN  CASE At(s, at) \notin {"-", "+"} -> Power(s, p, d)
        [] d = MaxDepth -> Fail("too deep")
        [] ~Good(v) \/ At(s, at) = "+" -> v
        [] OTHER -> Checked(-v.v, v.p)

\* The operator of a term at a place, "" when there is none.
Factor(s, p) ==
  CASE At(s, p) = "*" /\ At(s, p + 1) # "*" -> "*"
    [] At(s, p) = "/" /\ At(s, p + 1) = "/" -> "//"
    [] At(s, p) \in {"/", "%"} -> At(s, p)
    [] OTHER -> ""

\* The loop of term, with a read so far.
TermRest(s, a, d) ==
  LET at == Skip(s, a.p)
      op == Factor(s, at)
      b == Unary(s, at + (IF op = "//" THEN 2 ELSE 1), d)
  IN  CASE ~Good(a) \/ op = "" -> a
        [] ~Good(b) -> b
        [] op = "*" -> TermRest(s, Checked(a.v * b.v, b.p), d)
        [] OTHER -> TermRest(s, Divide(op, a.v, b.v, b.p), d)

Term(s, p, d) == TermRest(s, Unary(s, p, d), d)

ExprRest(s, a, d) ==
  LET at == Skip(s, a.p)
      b == Term(s, at + 1, d)
  IN  CASE ~Good(a) \/ At(s, at) \notin {"+", "-"} -> a
        [] ~Good(b) -> b
        [] OTHER -> ExprRest(s, Checked(IF At(s, at) = "+" THEN a.v + b.v ELSE a.v - b.v, b.p), d)

Expr(s, p, d) == ExprRest(s, Term(s, p, d), d)

\* cmd_numix: the value, or the error; blanks alone show the usage.
cmd_numix(s) ==
  LET r == Expr(s, 1, 0)
  IN  CASE Skip(s, 1) > Len(s) -> Fail("usage")
        [] Good(r) /\ Skip(s, r.p) <= Len(s) -> Fail("invalid operation")
        [] OTHER -> r

-----------------------------------------------------------------------------
(* What a line means.  Its tokens are numbers, operators and brackets; an  *)
(* operator outside brackets splits them: the last + or -, else the last   *)
(* of * / // and %, else a sign in front, else the first power.            *)

Token(k, v) == [kind |-> k, v |-> v]
Pairs == {<<"*", "*">>, <<"/", "/">>}

RECURSIVE Tokens(_)
Tokens(s) ==
  IF s = <<>> THEN <<>>
  ELSE LET c == Head(s)
           n == CASE c \in DOMAIN Digit -> Min({q \in 1 .. Len(s) : At(s, q + 1) \notin DOMAIN Digit})
                  [] Len(s) > 1 /\ SubSeq(s, 1, 2) \in Pairs -> 2
                  [] OTHER -> 1
           t == CASE c \in DOMAIN Digit -> <<Token("number", Numeral(SubSeq(s, 1, n)))>>
                  [] c = " " -> <<>>
                  [] n = 2 -> <<Token(IF c = "*" THEN "^" ELSE "//", 0)>>
                  [] OTHER -> <<Token(c, 0)>>
       IN  t \o Tokens(SubSeq(s, n + 1, Len(s)))

\* Brackets open at i, those of its own operand not counted.
Open(ts, i) ==
  LET count(k) == Cardinality({j \in 1 .. i : ts[j].kind = k}) IN count("(") - count(")")

\* The places outside brackets, after an operand, that hold one of kinds.
Binary(ts, kinds) ==
  {i \in 2 .. Len(ts) :
     ts[i].kind \in kinds /\ Open(ts, i) = 0 /\ ts[i - 1].kind \in {"number", ")"}}

\* b ^ e by multiplying, which stops outside the range.
RECURSIVE ToThe(_, _)
ToThe(b, e) ==
  IF e = 0 THEN 1
  ELSE LET v == ToThe(b, e - 1) IN IF InRange(v) THEN v * b ELSE v

Residues(b) == IF b > 0 THEN 0 .. b - 1 ELSE b + 1 .. 0

\* The results an operation may have, none when it is not defined.
Results(op, a, b) ==
  CASE op = "+" -> {a + b}
    [] op = "-" -> {a - b}
    [] op = "*" -> {a * b}
    [] op = "^" -> {ToThe(a, e) : e \in {b} \cap Nat}
    [] op = "/" -> {q \in -Abs(a) .. Abs(a) : \E r \in 0 .. Abs(b) - 1 : a = q * b + Sign(a) * r}
    [] op = "//" -> {q \in -Abs(a) .. Abs(a) : \E r \in Residues(b) : a = q * b + r}
    [] op = "%" -> {r \in Residues(b) : \E q \in -Abs(a) .. Abs(a) : a = q * b + r}

\* The values of the tokens: one, or none when they mean nothing or leave the integers.
RECURSIVE Values(_)
Values(ts) ==
  LET sums == Binary(ts, {"+", "-"})
      products == Binary(ts, {"*", "/", "//", "%"})
      powers == Binary(ts, {"^"})
      at(i) == UNION {Results(ts[i].kind, a, b) : a \in Values(SubSeq(ts, 1, i - 1)),
                                                  b \in Values(SubSeq(ts, i + 1, Len(ts)))}
      all == CASE ts = <<>> -> {}
               [] sums # {} -> at(Max(sums))
               [] products # {} -> at(Max(products))
               [] ts[1].kind = "+" -> Values(Tail(ts))
               [] ts[1].kind = "-" -> {-v : v \in Values(Tail(ts))}
               [] powers # {} -> at(Min(powers))
               [] ts[1].kind = "(" /\ Last(ts).kind = ")" -> Values(SubSeq(ts, 2, Len(ts) - 1))
               [] Len(ts) = 1 /\ ts[1].kind = "number" -> {ts[1].v}
               [] OTHER -> {}
  IN  {v \in all : InRange(v)}

\* An answer is the value of the line, an error means that it has none.
Correct(s, r) ==
  r.err = "too deep" \/ Values(Tokens(s)) = IF Good(r) THEN {r.v} ELSE {}
=============================================================================
