----------------------------- MODULE MCProtocol -----------------------------
(* Messages of every form, with values of one byte and of two, empty and   *)
(* non-empty strings, data and lists.                                      *)
EXTENDS Protocol, Functions

ValuesOf(t) ==
    CASE t = "string" -> {<< >>, <<1, 2>>}
      [] t = "bool" -> BOOLEAN
      [] t = "time" -> {7, 25}
      [] t = "u8" -> {0, 3}
      [] OTHER -> {1, 17}

Tuples(types) ==
    LET tuples[i \in 0..Len(types)] ==
            IF i = 0 THEN {<< >>}
            ELSE {Append(s, v) : s \in tuples[i - 1], v \in ValuesOf(types[i])}
    IN  tuples[Len(types)]

TailsOf(tail) ==
    CASE tail = "end" -> {<< >>}
      [] tail = "data" -> {<< >>, <<0, 5>>}
      [] tail = "list" -> {<< >>, <<<< <<1>>, TRUE>>, << <<2, 1>>, FALSE>> >>}

\* A long layout gets few values, a short one all combinations.
MessagesOf(type, job, kind) ==
    LET l == encode(type, job, kind)
        all == Tuples(l.fields)
        fields == IF Len(l.fields) <= 3 THEN all
                  ELSE {f \in all : f[2] = f[4] /\ f[4] = f[5] /\ f[5] = f[6]}
    IN  {Rpc(type, job, kind, id, f, t) : id \in IF kind = "Response" THEN {1, 16} ELSE {16}, f \in fields, t \in TailsOf(l.tail)}

Heartbeat == [type |-> "STORAGE_HEARTBEAT"]

Hellos == {Hello(role, id, endpoint) : role \in Range(Roles), id \in {<<1>>, <<2, 3>>},
                                       endpoint \in {<< >>, << <<4>>, 17>>}}

AllMessages ==
    [form \in ({"CLIENT_RPC"} \X Range(ClientJob) \X Range(RpcKind))
              \cup ({"STORAGE_RPC"} \X Range(StorageJob) \X Range(RpcKind))
              \cup {<<"HELLO">>, <<"STORAGE_HEARTBEAT">>} |->
        CASE form[1] = "HELLO" -> Hellos
          [] form[1] = "STORAGE_HEARTBEAT" -> {Heartbeat}
          [] OTHER -> MessagesOf(form[1], form[2], form[3])]

SomeMessages ==
    [form \in {<<"STORAGE_RPC", "PUT", "Request">>, <<"STORAGE_HEARTBEAT">>} |->
        IF form = <<"STORAGE_HEARTBEAT">> THEN {Heartbeat}
        ELSE {Rpc(form[1], form[2], form[3], 1, << <<1, 2>>, 17, TRUE>>, <<0, 5>>)}]

Files == Tuples(MetadataFields)
=============================================================================
