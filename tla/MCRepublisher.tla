---------------------------- MODULE MCRepublisher ----------------------------
(* Small instances of Republisher for TLC.                                  *)
EXTENDS Republisher

TwoIds == 1 .. 2
ThreeIds == 1 .. 3
FourIds == 1 .. 4

NoIds == {}
FirstId == {1}

\* A third of the nodes is just enough, a quarter is not; no node at all, and an
\* error, pass for a success.
SomePutResults ==
    [err : {FALSE}, tried : {3, 4}, responded : {1}]
    \union [err : BOOLEAN, tried : {0}, responded : {0}]

==============================================================================
