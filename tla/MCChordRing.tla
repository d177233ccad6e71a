---------------------------- MODULE MCChordRing ----------------------------
EXTENDS ChordRing

MCNodes == {10, 20, 30}
MCFiles == {15, 25}

\* 30 creates the ring; the others join it or each other, also at once.
MCContacts == 10 :> {30} @@ 20 :> {10, 30} @@ 30 :> {}
=============================================================================
