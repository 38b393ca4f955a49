----------------------------- MODULE MCMcrServer -----------------------------
(* McrServer on small sets, for TLC. *)
EXTENDS McrServer, TLC

\* Connections are alike, and so are descriptors: no action compares them.
Symmetry == Permutations(Conns) \union Permutations(Fds)

\* Nothing is promised once the hand-over of cargs has gone wrong: a run whose
\* properties all say so need not look further than the first such state.
HandedOver == ~clobbered

\* Two messages in all: one from each client, or two of one, sent ahead.
TwoMessages == asked \in {f \in [Conns -> 0..2] : \A c, d \in Conns : c # d => f[c] + f[d] <= 2}
=============================================================================
