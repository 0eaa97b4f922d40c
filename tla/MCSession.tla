----------------------------- MODULE MCSession -----------------------------
(* One session facing an arbitrary peer.                                    *)
EXTENDS Session

MCAccesses == {{"REMOTE_READ"}, {"REMOTE_WRITE", "REMOTE_ATOMIC"}}
MCPayloads == {<<1>>, <<1, 1>>}
=============================================================================
