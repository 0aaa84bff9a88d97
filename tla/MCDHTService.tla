---------------------------- MODULE MCDHTService ----------------------------
(* Small instances of DHTService for TLC.                                  *)
EXTENDS DHTService, TLC

CONSTANTS id1, id2, alias

NoIds == {}
OneId == {id1}
TwoIds == {id1, id2}
OnlyId2 == {id2}

\* Another spelling of id1.
OneUrl == {id1}
ThreeUrls == {id1, id2, alias}
Decode == [url \in Urls |-> IF url = alias THEN id1 ELSE url]

OneSeq == {1}
TwoSeqs == 1 .. 2

NoFaults == {}
OnlyRead == {"read"}
NotRead == {"write", "set"}

\* Slots of one kind are interchangeable; ids are not when one is foreign.
Slots == Permutations(Putters) \union Permutations(Getters) \union Permutations(Workers)

=============================================================================
