------------------------------- MODULE MCLaunch -------------------------------
(***************************************************************************)
(* Instances of Launch for TLC.  Server types 1 and 2 are x86, 3 and 4     *)
(* arm.  The catalogues hold ties on price between types, monthly prices   *)
(* that are cheaper or dearer than an hourly one, unusable prices, prices  *)
(* without a location, and the same types in another order.                *)
(***************************************************************************)
EXTENDS Launch, TLC

CONSTANTS w1, w2, nbg, fsn

Hourly(z, h) == [zone |-> z, hourly |-> h, monthly |-> 730 * h]
Monthly(z, m) == [zone |-> z, hourly |-> NoFigure, monthly |-> m]
Unpriced(z) == [zone |-> z, hourly |-> 0, monthly |-> NoFigure]
Type(n, ps) == [name |-> n, arch |-> IF n <= 2 THEN "x86" ELSE "arm", pricings |-> ps]

\* Two zones, two types tied on price in one of them, an arm type cheaper than both.
Plain == << Type(2, <<Hourly(nbg, 2), Hourly(fsn, 3)>>),
            Type(1, <<Hourly(fsn, 2)>>),
            Type(3, <<Hourly(nbg, 1)>>) >>

\* The same server types in another order.
Shuffled == << Plain[3], Plain[2], Plain[1] >>

\* Type 1 lost its price and has one without a location; type 3 is billed by
\* the month, a little dearer than type 2 in one zone and as cheap in another.
Odd == << Type(1, <<Unpriced(nbg), Hourly(NoZone, 1), Unpriced(fsn)>>),
          Type(3, <<Monthly(nbg, 1461), Monthly(fsn, 1460)>>),
          Type(2, <<Hourly(fsn, 2), Hourly(nbg, 2)>>),
          Type(4, <<Hourly(nbg, 1), Unpriced(fsn)>>) >>

OneClass == [images: {{}}, locations: {{}}]
SomeClasses == [images: {{}, {"x86"}, {"arm"}}, locations: {{}, {fsn}}]

BothZones == {nbg, fsn}
WideClaims == {[fits |-> 1..4, zones |-> BothZones], [fits |-> {1, 3}, zones |-> {nbg}],
               [fits |-> {3, 4}, zones |-> BothZones]}
OneClaim == {[fits |-> 1..4, zones |-> BothZones]}

TwoPriceLists == {Plain, Odd}
TwoOrders == {Plain, Shuffled}

\* Create calls are interchangeable.
Symmetry == Permutations(Callers)

=============================================================================
