------------------------------ MODULE MCRdows ------------------------------
(* A client and its session: instances for TLC.                             *)
EXTENDS Rdows, TLC

MCAccesses == {{"REMOTE_READ"}, {"REMOTE_READ", "REMOTE_WRITE", "REMOTE_ATOMIC"}}
MCPayloads == UNION {[1 .. n -> Cell] : n \in 0 .. 3}

Sg(lkey, offset, length) == [lkey |-> lkey, offset |-> offset, length |-> length]

\* Either region; part of one, and a list longer than a message may be.
SgMemory == {<<Sg(1, 0, 1)>>, <<Sg(2, 0, 1)>>}
SgReturns == {<<Sg(1, 0, 1)>>, <<Sg(1, 0, 2), Sg(1, 1, 1)>>}

OneWrite == {[offset |-> 0, data |-> <<1>>]}

CONSTANTS k1, k2
MCRKeys == {k1, k2}
Symmetry == Permutations(MCRKeys)
=============================================================================
