----------------------------- MODULE MCPollers ------------------------------
(* Pollers for TLC: an Acceptor's channel c1, whose descriptor c4 reuses. *)
EXTENDS Pollers, TLC

CONSTANTS c1, c2, c3, c4, f1, f2, f3

MCFd == (c1 :> f1) @@ (c2 :> f2) @@ (c3 :> f3) @@ (c4 :> f1)

\* Exchanging c2 and c3 with their descriptors; the properties are safety properties.
MCSymmetry ==
    {(c2 :> c) @@ (c3 :> d) @@ (f2 :> MCFd[c]) @@ (f3 :> MCFd[d]) :
        <<c, d>> \in {<<c2, c3>>, <<c3, c2>>}}
=============================================================================
