---------------------------- MODULE MCGraphStore ----------------------------
(* Three files: 1 imports the module of 2, or mentions it; 2 imports that of 3   *)
(* once 3 is there and shares an environment variable with it; the moved version *)
(* of 3 has the same texts at other positions.                                   *)
EXTENDS GraphStore, TLC

CONSTANTS v, w, m1, m2, m3, route, symbol, env

Says3(defines, uses, refs, guesses) ==
  [defines |-> defines, env |-> uses, refs |-> refs, guesses |-> guesses]

MCPath == 1..3
MCVersion == {v, w}
MCModule == {m1, m2, m3}
MCRoute == {route}
MCSymbol == {symbol}
MCEnv == {env}
MCText ==
  (<<1, v>> :> Says3({m1}, {}, {<<m2>>}, {})) @@
  (<<1, w>> :> Says3({}, {}, {<<3, route, symbol>>}, {2, 3})) @@
  (<<2, v>> :> Says3({m2, route}, {env}, {<<m3>>}, {})) @@
  (<<3, v>> :> Says3({m3, symbol, route}, {env}, {}, {})) @@
  (<<3, w>> :> Says3({m3, symbol, route}, {env}, {}, {}))
MCRank == [n \in Name |-> [x \in DOMAIN MCText |-> x[1]]]
MCDigest == [x \in DOMAIN MCText |-> IF x[1] = 3 THEN 3 ELSE x]
MCRequests ==
  {[asked |-> {}, large |-> FALSE, keyed |-> TRUE], [asked |-> {1}, large |-> FALSE, keyed |-> TRUE],
   [asked |-> {}, large |-> TRUE, keyed |-> FALSE]}
MCLegacy == {[p \in MCPath |-> v]}
=============================================================================
