-------------------------- MODULE MCHeaderExchange --------------------------
(* Model values for HeaderExchange: a trusted archival peer with every       *)
(* header, a trusted peer with the recent ones, and one with none.           *)
EXTENDS HeaderExchange

CONSTANTS full, pruned, fresh, c1, c2

MCHeld == [p \in Peers |-> CASE p = full -> Heights
                             [] p = pruned -> {h \in Heights : h > MaxHeight \div 2}
                             [] OTHER -> {}]

MCHeads == {[height |-> 1, hash |-> "a"], [height |-> 2, hash |-> "b"],
            [height |-> 2, hash |-> "fork"]}

MCWorkloads == {[range |-> Heights, callers |-> {}],
                [range |-> {}, callers |-> {c1, c2}]}

=============================================================================
