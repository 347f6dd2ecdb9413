-------------------------- MODULE ContractDocument --------------------------
(***************************************************************************)
(* The OpenRPC document between a service and the code generator: what is  *)
(* written into it (src/rpckit/contract.py, schema/openrpc.py,             *)
(* schema/components.py) and how the generator reads it back               *)
(* (codegen/ir.py).                                                        *)
(***************************************************************************)
EXTENDS Declarations

(***************************************************************************)
(* Writing.  An operation of the document; params, payload: names of       *)
(* types, or NoType; direction, input and output of a stream, or empty.    *)
(***************************************************************************)

\* _method, _client_method, the notification and subscription entries
RpcOperation(d, name, server) ==
    [kind |-> d.kind, name |-> name, server |-> server,
     params |-> ParamsType(d.fn), payload |-> Function[d.fn].of,
     direction |-> "", input |-> "", output |-> ""]

\* A stream entry: contentType unless the client alone sends
StreamOperation(d, name, server) ==
    [kind |-> "stream", name |-> name, server |-> server,
     params |-> NoType, payload |-> NoType,
     direction |-> StreamDirection(d), input |-> InputContentType(d),
     output |-> IF StreamDirection(d) = "client-to-server" THEN "" ELSE Octets]

RawSocketOperation(d, name, server) ==
    [kind |-> "raw", name |-> name, server |-> server,
     params |-> NoType, payload |-> NoType, direction |-> "", input |-> "", output |-> ""]

WriteOperation(d, name, server) ==
    CASE d.kind = "stream" -> StreamOperation(d, name, server)
      [] d.kind = "raw"    -> RawSocketOperation(d, name, server)
      [] OTHER             -> RpcOperation(d, name, server)

\* _add_result_types: only models and aliases of a result have a component
HasComponent(t) == t \in DOMAIN Type /\ Type[t].is \in {"model", "alias"}

\* A type is named itself, or through the members of a union.
NamedTypes(t) ==
    IF t = NoType THEN {} ELSE IF Type[t].is = "union" THEN Type[t].refs ELSE {t}

\* Streaming operations name their payload whatever it is.
Streams(op) == op.kind \in {"event", "subscription"}

\* _annotations
Annotations(ops) ==
    {op.params : op \in {o \in ops : o.params # NoType}}
    \cup {op.payload : op \in {o \in ops : Streams(o)}}
    \cup UNION {{t \in NamedTypes(op.payload) : HasComponent(t)} : op \in ops}

\* All the types reached from some types through their fields (pydantic's $defs): the
\* least set that has the types its members refer to
Closed == {s \in SUBSET DOMAIN Type : \A t \in s : Type[t].refs \subseteq s}
Closure(types) == {t \in DOMAIN Type : \A s \in Closed : types \subseteq s => t \in s}

Components(ops) == {t \in Closure(Annotations(ops)) : HasComponent(t)}

\* The socket endpoints an operation may refer to are listed as servers.
UndeclaredServer(doc) ==
    \E op \in doc.ops : op.kind \notin {"stream", "raw"} /\ op.server \notin doc.servers

\* render_openrpc raises: two types of one name, a payload without a name, no server
Unwritable(doc) ==
    \/ \E t, u \in Annotations(doc.ops) : t # u /\ Type[t].name = Type[u].name
    \/ \E t \in Annotations(doc.ops) : Type[t].is = "union"
    \/ UndeclaredServer(doc)

(***************************************************************************)
(* Reading                                                                 *)
(***************************************************************************)

Directions == {"server-to-client", "client-to-server", "bidirectional"}

\* _binary_streams
StreamReadable(op) ==
    /\ op.direction \in Directions
    /\ op.direction = "client-to-server" => op.output = ""
    /\ (op.input = "") = (op.direction = "server-to-client")

OneName(ops, kind) ==
    \A o, p \in {op \in ops : op.kind = kind} : o.name = p.name => o = p

\* _raw_sockets and build_ir: a name is one stream or one raw socket
NamesReadable(ops) ==
    /\ OneName(ops, "stream") /\ OneName(ops, "raw")
    /\ \A o, p \in ops : o.kind = "stream" /\ p.kind = "raw" => o.name # p.name

\* build_ir raises UnsupportedSchemaError
Unreadable(doc) ==
    \/ \E op \in doc.ops : op.kind = "stream" /\ ~StreamReadable(op)
    \/ ~NamesReadable(doc.ops)
    \/ UndeclaredServer(doc)

\* _roots: the declarations the API of the client names; errors have no details here
IrRoots(ops) ==
    UNION {NamedTypes(op.params) \cup NamedTypes(op.payload) : op \in ops}

\* _dependencies and _reachable: of the declarations of the document, those a worklist
\* started with the roots gets to
Reachable(declarations, roots) ==
    LET keep[n \in 0..Cardinality(declarations)] ==
            IF n = 0 THEN roots \cap declarations
            ELSE keep[n - 1] \cup ((UNION {NamedTypes(u) : u \in
                     UNION {Type[t].refs : t \in keep[n - 1]}}) \cap declarations)
    IN  keep[Cardinality(declarations)]

ClientTypes(doc) == Reachable(Components(doc.ops), IrRoots(doc.ops))
=============================================================================
