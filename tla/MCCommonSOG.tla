---------------------------- MODULE MCCommonSOG ----------------------------
(* Small nets for TLC: all those of three places and three transitions of  *)
(* one token, those with synchronisations, and some larger ones.           *)
EXTENDS CommonSOG, TLC

Tokens(v) == FoldLeft(+, 0, v)
Vectors == [1 .. 3 -> 0 .. 1]
(* Transitions that give at most what they take: the nets are bounded.     *)
Moves(arcs) == {m \in [pre : Vectors, post : Vectors] :
                  Tokens(m.pre) \in 1 .. arcs /\ Tokens(m.post) <= Tokens(m.pre)}
Arcs(p, q) == [pre |-> p, post |-> q]

Net(initial, transitions, f_trans, f_places) ==
  [initial |-> initial, transitions |-> transitions, f_trans |-> f_trans, f_places |-> f_places]

OneToken == {Net(<<2, 1, 0>>, <<a, b, c>>, f[1], f[2]) :
               a, b, c \in Moves(1), f \in {<<{3}, {}>>, <<{}, {3}>>}}
Synchronised == {Net(<<1, 1, 1>>, <<a, b, Arcs(<<0, 1, 0>>, <<1, 0, 0>>)>>, {3}, f) :
                   a, b \in Moves(2), f \in {{}, {1}}}

(* 165 markings in one aggregate: their number takes two bytes. *)
Wide == Net(<<8, 0, 0, 0>>,
            <<Arcs(<<1, 0, 0, 0>>, <<0, 1, 0, 0>>), Arcs(<<0, 1, 0, 0>>, <<0, 0, 1, 0>>),
              Arcs(<<0, 0, 1, 0>>, <<0, 0, 0, 1>>), Arcs(<<0, 0, 0, 8>>, <<8, 0, 0, 0>>)>>, {4}, {})
(* Weights, and a cycle of unobservable transitions that needs two tokens. *)
Weighted == Net(<<3, 0, 0, 1>>,
                <<Arcs(<<2, 0, 0, 0>>, <<0, 2, 0, 0>>), Arcs(<<0, 2, 0, 1>>, <<2, 0, 0, 1>>),
                  Arcs(<<1, 0, 0, 0>>, <<0, 0, 1, 0>>), Arcs(<<0, 0, 1, 1>>, <<1, 0, 0, 0>>)>>, {3}, {4})
(* No formula: every transition is observable. *)
Observed == Net(<<1, 0, 0>>, <<Arcs(<<1, 0, 0>>, <<0, 1, 0>>), Arcs(<<0, 1, 0>>, <<1, 0, 0>>)>>, {}, {})

SmallNets == OneToken \cup Synchronised \cup {Wide, Weighted, Observed}
=============================================================================
