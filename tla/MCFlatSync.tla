----------------------------- MODULE MCFlatSync -----------------------------
(* Two sibling directories and one below the first, three videos, one of which may
   come later; two have one title and one modification time, that of the third is unknown. *)
EXTENDS FlatSync, TLC

CONSTANTS f1, f2, f3, a, b, c, x, y, v, w

Tree == a :> <<a>> @@ b :> <<a, b>> @@ c :> <<c>>
Titles == f1 :> v @@ f2 :> v @@ f3 :> w
Times == f1 :> 1 @@ f2 :> 1 @@ f3 :> 0
Drive == [orders |-> {<<f1, f2, f3>>, <<f1, f3>>},
          home |-> f1 :> b @@ f2 :> c @@ f3 :> Root,
          name |-> a :> x @@ b :> x @@ c :> y]
=============================================================================
