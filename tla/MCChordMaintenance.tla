------------------------- MODULE MCChordMaintenance -------------------------
EXTENDS ChordMaintenance

MCNodes == {10, 20, 30}
MCFiles == {15}

\* 30 creates the ring and the others join it.
MCContacts == 10 :> {30} @@ 20 :> {30} @@ 30 :> {}
=============================================================================
