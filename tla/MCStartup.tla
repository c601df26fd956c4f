------------------------------ MODULE MCStartup -----------------------------
(***************************************************************************)
(* Two pairs; bytes of three values, so that a length takes both digits of *)
(* its header; messages shorter, as long as, and longer than a chunk.      *)
(***************************************************************************)
EXTENDS Startup

MCLinks ==
    {IpLink} \cup UNION {{Link(Gen(r), Evl(q), Port(r)), Link(Evl(q), Gen(r), Port(r))}
                            : r, q \in Rank}

MCClaws == {<<0, 1, 2, 2, 1>>}

MCTraffic ==
    [r \in Rank |-> IF r = 0 THEN <<[by |-> "gen", bytes |-> <<>>],
                                    [by |-> "evl", bytes |-> <<2, 0, 1, 1>>]>>
                             ELSE <<[by |-> "gen", bytes |-> <<1, 2>>]>>]
=============================================================================
