----------------------------- MODULE MCKvStore -----------------------------
(***************************************************************************)
(* Instances of KvStore for TLC.  Keys have at most two symbols, one of   *)
(* them is another with padding, and a key of three is too long to store.  *)
(* With MCHash two keys share a slot and the third belongs in the slot the *)
(* second of them is pushed to, so that every search may cross another     *)
(* key's slot.                                                             *)
(***************************************************************************)
EXTENDS KvStore

CONSTANTS h1, h2

MCHandlers == {h1, h2}

Request(ops, keys, values) ==
    [op : ops \cap {"put"}, key : keys, value : values]
        \cup [op : ops \ {"put"}, key : keys, value : {<<>>}]

Key(i) == <<i>>

\* The first key is stored with either value, so that an update shows.
PutGet ==
    Request({"put", "get"}, {Key(0), <<0, 0>>, Key(2)}, {<<5>>})
        \cup Request({"put"}, {Key(0)}, {<<>>})
        \cup Request({"put"}, {<<0, 0, 0>>}, {<<5>>})

\* Only the key that ends every search that reaches it is deleted.
DeleteLast == PutGet \cup Request({"delete"}, {Key(2)}, {})

Service == DeleteLast \cup Request({"slots", "stats"}, {<<>>}, {})

All ==
    Request({"put", "get", "delete"}, {Key(0), Key(1)}, {<<5>>})
        \cup Request({"put"}, {Key(0)}, {<<>>})

MCHash == [k \in Keys |-> IF k = Key(2) THEN 1 ELSE 0]

=============================================================================
