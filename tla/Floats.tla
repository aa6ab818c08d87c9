------------------------------- MODULE Floats -------------------------------
(***************************************************************************)
(* What of float matters where the code compares without computing: NaN    *)
(* compares false with everything, itself included, and there are two      *)
(* zeros.  A float is its kind and its value in tenths.                    *)
(***************************************************************************)
EXTENDS Integers

Number(tenths) == [kind |-> "number", tenths |-> tenths]

NegativeZero == [kind |-> "negative zero", tenths |-> 0]

NaN == [kind |-> "nan", tenths |-> 0]

Float ==
  {x \in [kind : {"number", "negative zero", "nan"}, tenths : Int] :
     x.kind # "number" => x.tenths = 0}

Ordered(x, y) == x # NaN /\ y # NaN

x \prec y == Ordered(x, y) /\ x.tenths < y.tenths

x \preceq y == Ordered(x, y) /\ x.tenths <= y.tenths

=============================================================================
