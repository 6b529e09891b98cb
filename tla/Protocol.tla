------------------------------ MODULE Protocol ------------------------------
(***************************************************************************)
(* From messages to bytes and back: the layouts of ClientProtocol and      *)
(* StorageProtocol, the RPC header, the predicates of receive_if, the      *)
(* HELLO of the handshake, frames on a byte stream, and the metadata file. *)
(* The bytes of a connection arrive in any number of pieces; the reader    *)
(* waits for a whole header, then for as many bytes as it announces.       *)
(*                                                                         *)
(* A message has a form (type, job, kind), a request id, values for the    *)
(* fields of its form and a tail: nothing, the data of a chunk, the        *)
(* entries of a listing, or the endpoint in a HELLO.  Jobs and kinds are   *)
(* written as their numbers.                                               *)
(***************************************************************************)
EXTENDS Serializer, FiniteSets

CONSTANTS HEADER_MAGIC, METADATA_MAGIC, METADATA_VERSION,
          MAX_MESSAGE_SIZE,
          Messages,       \* for each form, the messages sent first
          Followers,      \* the same for those sent after them
          Metadata,       \* the contents of metadata files, as values
          MaxSent         \* bound on the messages sent

ASSUME ProtocolAssumption ==
    /\ {HEADER_MAGIC, METADATA_MAGIC, METADATA_VERSION} \subseteq 0..Base - 1
    /\ MAX_MESSAGE_SIZE < Base^4

VARIABLES sent,           \* messages written to the connection so far
          wire,           \* their bytes that have not arrived yet
          buffer,         \* the bytes read for the current header or payload
          header,         \* the header read before the payload, or NoHeader
          failed,         \* the connection was closed because of an error
          got,            \* the messages read
          file,           \* the bytes of a metadata file
          stored          \* the metadata written to it last

connection == <<sent, wire, buffer, header, failed, got>>
vars == <<sent, wire, buffer, header, failed, got, file, stored>>

Last(s) == s[Len(s)]
Front(s) == SubSeq(s, 1, Len(s) - 1)

NoHeader == [length |-> -1, type |-> 0]

-----------------------------------------------------------------------------
(* Layouts *)

ClientJob == <<"CREATE_FILE", "READ_FILE", "WRITE_FILE", "REMOVE", "LIST", "MKDIR",
               "RENAME", "STAT", "READ_CHUNK", "WRITE_CHUNK">>
StorageJob == <<"PUT", "GET", "DELETE">>
RpcKind == <<"Response", "Request">>
MessageType == <<"HELLO", "CLIENT_RPC", "STORAGE_RPC", "STORAGE_HEARTBEAT">>

JobsOf(type) == IF type = "CLIENT_RPC" THEN ClientJob ELSE StorageJob

\* The number an enumerator stands for.
Number(enum, name) == (CHOOSE i \in 1..Len(enum) : enum[i] = name) - 1

Layout(fields, tail) == [fields |-> fields, tail |-> tail]

\* The encode_ functions of ClientProtocol ...
encode_client(job, kind) ==
    CASE kind = "Request" -> (
            CASE job \in {"CREATE_FILE", "READ_FILE", "REMOVE", "LIST", "MKDIR", "STAT"} ->
                    Layout(<<"string">>, "end")
              [] job = "RENAME" -> Layout(<<"string", "string">>, "end")
              [] job = "WRITE_FILE" -> Layout(<<"u64", "u32", "string">>, "end")
              [] job = "READ_CHUNK" -> Layout(<<"u32">>, "end")
              [] job = "WRITE_CHUNK" -> Layout(<<"u32">>, "data"))
      [] kind = "Response" -> (
            CASE job \in {"CREATE_FILE", "WRITE_FILE", "REMOVE", "MKDIR", "RENAME"} ->
                    Layout(<<"u8">>, "end")
              [] job = "READ_FILE" -> Layout(<<"u8", "u64", "u32">>, "end")
              [] job = "READ_CHUNK" -> Layout(<<"u32", "u8">>, "data")
              [] job = "WRITE_CHUNK" -> Layout(<<"u32", "u8">>, "end")
              [] job = "LIST" -> Layout(<<"u8">>, "list")
              [] job = "STAT" -> Layout(<<"u8", "string", "bool", "string", "string", "string",
                                          "u64", "time", "time">>, "end"))

\* ... and of StorageProtocol.
encode_storage(job, kind) ==
    CASE kind = "Request" -> (
            CASE job = "PUT" -> Layout(<<"string", "u32", "bool">>, "data")
              [] job = "GET" -> Layout(<<"string", "u32", "u32">>, "end")
              [] job = "DELETE" -> Layout(<<"string">>, "end"))
      [] kind = "Response" -> (
            CASE job = "PUT" -> Layout(<<"u32", "u64", "u8">>, "end")
              [] job = "GET" -> Layout(<<"u32", "u8">>, "data")
              [] job = "DELETE" -> Layout(<<"u8">>, "end"))

\* The decode_ functions, job by job.
decode_client(job, kind) ==
    LET request == kind = "Request" IN
    CASE job \in {"CREATE_FILE", "REMOVE", "MKDIR"} ->
            Layout(IF request THEN <<"string">> ELSE <<"u8">>, "end")
      [] job = "LIST" -> IF request THEN Layout(<<"string">>, "end") ELSE Layout(<<"u8">>, "list")
      [] job = "READ_FILE" ->
            Layout(IF request THEN <<"string">> ELSE <<"u8", "u64", "u32">>, "end")
      [] job = "READ_CHUNK" -> IF request THEN Layout(<<"u32">>, "end")
                               ELSE Layout(<<"u32", "u8">>, "data")
      [] job = "WRITE_FILE" ->
            Layout(IF request THEN <<"u64", "u32", "string">> ELSE <<"u8">>, "end")
      [] job = "WRITE_CHUNK" -> IF request THEN Layout(<<"u32">>, "data")
                                ELSE Layout(<<"u32", "u8">>, "end")
      [] job = "RENAME" ->
            Layout(IF request THEN <<"string", "string">> ELSE <<"u8">>, "end")
      [] job = "STAT" ->
            Layout(IF request THEN <<"string">>
                   ELSE <<"u8", "string", "bool", "string", "string", "string", "u64",
                          "time", "time">>, "end")

decode_storage(job, kind) ==
    LET request == kind = "Request" IN
    CASE job = "PUT" -> IF request THEN Layout(<<"string", "u32", "bool">>, "data")
                        ELSE Layout(<<"u32", "u64", "u8">>, "end")
      [] job = "GET" -> IF request THEN Layout(<<"string", "u32", "u32">>, "end")
                        ELSE Layout(<<"u32", "u8">>, "data")
      [] job = "DELETE" -> Layout(IF request THEN <<"string">> ELSE <<"u8">>, "end")

encode(type, job, kind) ==
    IF type = "CLIENT_RPC" THEN encode_client(job, kind) ELSE encode_storage(job, kind)

decode(type, job, kind) ==
    IF type = "CLIENT_RPC" THEN decode_client(job, kind) ELSE decode_storage(job, kind)

Entry == <<"string", "bool">>
Address == <<"string", "u16">>

\* What follows the fields.
WriteTail(tail, value) ==
    CASE tail = "end" -> << >>
      [] tail = "data" -> value
      [] tail = "list" ->
           LET entries[i \in 0..Len(value)] ==
                   IF i = 0 THEN << >> ELSE entries[i - 1] \o WriteAll(Entry, value[i])
           IN  write("u32", Len(value)) \o entries[Len(value)]

\* Entries are read one by one, as many as were announced.
ReadEntries(r, n) ==
    LET entries[i \in 0..n] ==
            IF i = 0 THEN r
            ELSE LET e == ReadAll([entries[i - 1] EXCEPT !.values = << >>], Entry)
                 IN  [e EXCEPT !.values = Append(entries[i - 1].values, @)]
    IN  entries[n]

\* The values of the fields, and the tail as the last value.
ReadTail(r, tail) ==
    IF ~r.ok THEN r
    ELSE CASE tail = "end" -> [assert_at_end(r) EXCEPT !.values = Append(@, << >>)]
           [] tail = "data" -> Advance(r, Len(r.data), r.data)
           [] tail = "list" ->
                LET counted == read(r, "u32")
                    list == ReadEntries([counted EXCEPT !.values = << >>], Last(counted.values))
                IN  IF ~counted.ok THEN counted
                    ELSE [assert_at_end(list) EXCEPT !.values = Append(r.values, @)]

-----------------------------------------------------------------------------
(* RPC messages and HELLO *)

RpcHeader == <<"u64", "u8", "u8">>

Rpc(type, job, kind, id, fields, tail) ==
    [type |-> type, job |-> job, kind |-> kind, id |-> id, fields |-> fields, tail |-> tail]

\* The payload of Rpc::make_frame.
make_frame(m) ==
    LET layout == encode(m.type, m.job, m.kind) IN
    WriteAll(RpcHeader, <<m.id, Number(JobsOf(m.type), m.job), Number(RpcKind, m.kind)>>)
        \o WriteAll(layout.fields, m.fields) \o WriteTail(layout.tail, m.tail)

Bad == [type |-> "BAD"]

\* Rpc::read_message and the decode_ function of the job, in push_worker_job
\* or at the end of a receive_if.
read_message(type, payload) ==
    LET r == ReadAll(Reader(payload), RpcHeader)
        jobs == JobsOf(type)
    IN  IF ~r.ok \/ r.values[2] >= Len(jobs) \/ r.values[3] >= Len(RpcKind) THEN Bad
        ELSE LET job == jobs[r.values[2] + 1]
                 kind == RpcKind[r.values[3] + 1]
                 layout == decode(type, job, kind)
                 body == ReadTail(ReadAll(Reader(r.data), layout.fields), layout.tail)
             IN  IF body.ok THEN Rpc(type, job, kind, r.values[1], Front(body.values), Last(body.values))
                 ELSE Bad

Roles == <<"CLIENT", "METADATA", "STORAGE">>

\* handshake: role, id, and host and port unless the node has none.
Hello(role, id, endpoint) ==
    [type |-> "HELLO", role |-> role, id |-> id, endpoint |-> endpoint]

hello_payload(m) ==
    WriteAll(<<"u8", "string", "u8">>,
             <<Number(Roles, m.role), m.id, IF m.endpoint = << >> THEN 0 ELSE 1>>)
        \o (IF m.endpoint = << >> THEN << >> ELSE WriteAll(Address, m.endpoint))

read_hello(payload) ==
    LET r == ReadAll(Reader(payload), <<"u8", "string", "bool">>)
        a == ReadAll([r EXCEPT !.values = << >>], Address)
        end == IF r.values[3] THEN a ELSE r
        endpoint == IF r.values[3] THEN a.values ELSE << >>
    IN  IF \/ ~r.ok
           \/ r.values[1] >= Len(Roles) \/ r.values[2] = << >>
           \/ ~end.ok \/ ~at_end(end)
           \/ r.values[3] /\ (a.values[1] = << >> \/ a.values[2] = 0)
        THEN Bad ELSE Hello(Roles[r.values[1] + 1], r.values[2], endpoint)

-----------------------------------------------------------------------------
(* Frames *)

payload(m) ==
    CASE m.type = "HELLO" -> hello_payload(m)
      [] m.type = "STORAGE_HEARTBEAT" -> << >>
      [] OTHER -> make_frame(m)

FrameHeader == <<"u8", "u32", "u8">>
MESSAGE_HEADER_SIZE == 6

\* encode_frame throws for a payload that is too long.
Encodable(m) == Len(payload(m)) <= MAX_MESSAGE_SIZE

encode_frame(m) ==
    WriteAll(FrameHeader, <<HEADER_MAGIC, Len(payload(m)), Number(MessageType, m.type)>>)
        \o payload(m)

TooLongStrictly(n) == n >= MAX_MESSAGE_SIZE

TooLong(n) == n > MAX_MESSAGE_SIZE

\* The header, or NoHeader where the code throws.
decode_header(bytes) ==
    LET r == ReadAll(Reader(bytes), FrameHeader) IN
    IF r.values[1] # HEADER_MAGIC \/ TooLong(r.values[2]) THEN NoHeader
    ELSE [length |-> r.values[2], type |-> r.values[3]]

\* What the reader makes of a whole frame.
Decoded(type, bytes) ==
    CASE type = "HELLO" -> read_hello(bytes)
      [] type = "STORAGE_HEARTBEAT" -> [type |-> type]
      [] OTHER -> read_message(type, bytes)

-----------------------------------------------------------------------------
(* A connection *)

Init ==
    /\ sent = << >> /\ wire = << >> /\ buffer = << >> /\ header = NoHeader
    /\ failed = FALSE /\ got = << >>
    /\ file = << >> /\ stored = << >>

async_write_frame(m) ==
    /\ Len(sent) < MaxSent /\ Encodable(m)
    /\ stored = << >>
    /\ sent' = Append(sent, m)
    /\ wire' = wire \o encode_frame(m)
    /\ UNCHANGED <<buffer, header, failed, got, file, stored>>

\* The bytes that the present read waits for.
Needed == IF header = NoHeader THEN MESSAGE_HEADER_SIZE ELSE header.length

\* Some bytes arrive; a read that has what it needs ends.
async_read_some(n) ==
    /\ ~failed /\ Len(buffer) + n <= Needed
    /\ LET bytes == buffer \o SubSeq(wire, 1, n)
           complete == Len(bytes) = Needed
           h == decode_header(bytes)
           frame(hd, p) == Decoded(MessageType[hd.type + 1], p)
       IN  /\ wire' = SubSeq(wire, n + 1, Len(wire))
           /\ buffer' = IF complete THEN << >> ELSE bytes
           /\ \/ ~complete /\ UNCHANGED <<header, failed, got>>
              \/ /\ complete /\ header = NoHeader
                 /\ failed' = (h = NoHeader)
                 /\ header' = IF h.length = 0 THEN NoHeader ELSE h
                 /\ got' = IF h # NoHeader /\ h.length = 0 THEN Append(got, frame(h, << >>)) ELSE got
              \/ /\ complete /\ header # NoHeader
                 /\ header' = NoHeader
                 /\ got' = Append(got, frame(header, bytes))
                 /\ UNCHANGED failed
    /\ UNCHANGED <<sent, file, stored>>

-----------------------------------------------------------------------------
(* The predicates of receive_if *)

NoChunk == -1

make_message_is_u16(bytes, type, id, job, kind, chunk) ==
    LET r == ReadAll(Reader(bytes), RpcHeader)
    IN  /\ r.ok /\ r.values = <<id, Number(JobsOf(type), job), Number(RpcKind, kind)>>
        /\ chunk # NoChunk => read(r, "u16").ok /\ Last(read(r, "u16").values) = chunk

\* Rpc::make_message_is, with the chunk index as body predicate where there
\* is one: matched on the bytes, before anything is decoded.
make_message_is(bytes, type, id, job, kind, chunk) ==
    LET r == ReadAll(Reader(bytes), RpcHeader)
        i == read(r, "u32")
    IN  /\ r.ok
        /\ r.values = <<id, Number(JobsOf(type), job), Number(RpcKind, kind)>>
        /\ chunk # NoChunk => i.ok /\ Last(i.values) = chunk

\* Rpc::message_is, by which requests are told from responses.
message_is(bytes, kind) ==
    LET r == ReadAll(Reader(bytes), RpcHeader)
    IN  r.ok /\ r.values[3] = Number(RpcKind, kind)

-----------------------------------------------------------------------------
(* Metadata files *)

MetadataFields == <<"u64", "string", "string", "string", "time", "time">>

MetadataBytes(m) ==
    WriteAll(<<"u8", "u8">> \o MetadataFields, <<METADATA_MAGIC, METADATA_VERSION>> \o m)

\* A file and a connection have nothing in common: behaviours have one of them.
write_metadata_file(m) ==
    /\ stored = << >> /\ sent = << >>
    /\ file' = MetadataBytes(m)
    /\ stored' = m
    /\ UNCHANGED connection

\* Only the beginning of the file reaches the disk.
Tear(n) ==
    /\ n < Len(file)
    /\ file' = SubSeq(file, 1, n)
    /\ UNCHANGED <<connection, stored>>

\* The metadata, or << >> where the code returns an error.
read_metadata_file(bytes) ==
    LET r == ReadAll(Reader(bytes), <<"u8", "u8">> \o MetadataFields) IN
    IF r.ok /\ r.values[1] = METADATA_MAGIC /\ r.values[2] = METADATA_VERSION /\ at_end(r)
    THEN SubSeq(r.values, 3, Len(r.values)) ELSE << >>

Next ==
    \/ LET messages == IF sent = << >> THEN Messages ELSE Followers
       IN  \E form \in DOMAIN messages : \E m \in messages[form] : async_write_frame(m)
    \/ \E n \in 1..Len(wire) : async_read_some(n)
    \/ \E m \in Metadata : write_metadata_file(m)
    \/ \E n \in 0..Len(file) - 1 : Tear(n)

Spec == Init /\ [][Next]_vars

-----------------------------------------------------------------------------
(* Properties *)

KeptAll(types, values) == [i \in 1..Len(types) |-> Kept(types[i], values[i])]

\* The message as its receiver should see it.
Expected(m) ==
    IF m.type \in {"CLIENT_RPC", "STORAGE_RPC"}
    THEN [m EXCEPT !.fields = KeptAll(encode(m.type, m.job, m.kind).fields, @)] ELSE m

\* However the bytes of a connection are cut into pieces, the receiver reads
\* the messages that were sent, in order, with all their values, and no frame
\* that could be written is refused; once all bytes have come, it has them all.
Faithful ==
    /\ ~failed
    /\ Len(got) <= Len(sent)
    /\ \A i \in 1..Len(got) : got[i] = Expected(sent[i])
    /\ wire = << >> /\ buffer = << >> /\ header = NoHeader => Len(got) = Len(sent)

ChunkOf(m) ==
    IF m.job \in {"READ_CHUNK", "WRITE_CHUNK", "PUT", "GET"} THEN m.fields[1] ELSE NoChunk

\* A thread that waits for a response takes that response and no other: the
\* predicate, which looks at a few bytes, holds of exactly the messages of the
\* awaited job and kind that have its request id and its chunk index.
PredicatesExact ==
    Len(sent) = 1 /\ wire = encode_frame(sent[1]) /\ sent[1].type \in {"CLIENT_RPC", "STORAGE_RPC"} =>
        LET m == sent[1] IN
        /\ \A kind \in {"Request", "Response"} : message_is(payload(m), kind) <=> m.kind = kind
        /\ \A form \in DOMAIN Messages : \A e \in Messages[form] :
              e.type = m.type /\ e.kind = "Response" =>
              (make_message_is(payload(m), m.type, e.id, e.job, e.kind, ChunkOf(e))
                 <=> m.id = e.id /\ m.job = e.job /\ m.kind = e.kind /\ ChunkOf(m) = ChunkOf(e))

\* A metadata file is read as it was written, but for fractions of a
\* millisecond, and one of which only a part reached the disk is never taken
\* for metadata: a torn file has no end.
TornFileRejected ==
    stored # << >> => read_metadata_file(file) =
        IF file = MetadataBytes(stored) THEN KeptAll(MetadataFields, stored) ELSE << >>
=============================================================================
