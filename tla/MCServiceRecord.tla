--------------------------- MODULE MCServiceRecord ---------------------------
(* Bodies that meet each other in every field: with and without each. *)
EXTENDS ServiceRecord, TLC

NoFields(names) == [f \in names |-> None]

Provider(id, schema, base_url, name) ==
    [NoFields(ProviderFields) EXCEPT
        !.id = id, !.schema = schema, !.base_url = base_url, !.name = name]

Body(peer_id, name, is_deleted, providers) ==
    [fields |-> [NoFields(ServiceFields) EXCEPT
                    !.peer_id = peer_id, !.name = name, !.is_deleted = is_deleted],
     providers |-> providers]

MCValues ==
    {"", "local", "other", "a", "b", "n1", "n2", "one", "two", "true", "false",
     "http", "https", "ws", "wss", "h1", "h2", "h3", "h4", "h5"}

\* Two ids and no id; http and ws; with and without an address.
A1 == Provider("a", "http", "h1", "one")
A2 == Provider("a", "ws", None, None)
A3 == Provider("a", None, "h2", "two")
A4 == Provider("a", None, None, "two")
B1 == Provider("b", "wss", "h3", None)
B2 == Provider("b", "https", "h4", "two")
N1 == Provider(None, "ws", "h5", None)

\* The first is the body of README.md, whose peer_id is the empty string.
MCBodies ==
    {Body("", "n1", "false", <<A1>>),
     Body(None, "n1", None, <<A1, B1>>),
     Body(None, None, "true", None),
     Body("other", "n2", None, None),
     Body(None, "n2", "false", <<>>),
     Body(None, None, None, <<A2>>),
     Body(None, None, None, <<B2, A3>>),
     Body(None, None, None, <<N1>>),
     Body(None, None, None, <<A4>>),
     Body(None, None, None, <<A1, A3, N1>>),
     Body(None, None, None, <<B1, B2>>)}
=============================================================================
