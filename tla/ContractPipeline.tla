-------------------------- MODULE ContractPipeline --------------------------
(***************************************************************************)
(* From definitions to a client on disk: `rpckit generate` imports the     *)
(* application, freezes its service, renders its contract and writes the   *)
(* client; later generations into the same directory read the documents of *)
(* other revisions.                                                        *)
(***************************************************************************)
EXTENDS ServiceDefinition, ContractDocument, ClientGeneration

CONSTANTS
    Documents,      \* OpenRPC documents of other revisions
    MaxGenerations  \* bound: generations into the directory

\* The segments of names and namespaces have identifiers.
ASSUME PipelineAssumption ==
    /\ \A c \in Channels : Namespace[c] \in Seq(DOMAIN Identifier)
    /\ \A d \in Decls : d.local \in Seq(DOMAIN Identifier)
    /\ \A doc \in Documents : \A op \in doc.ops :
           op.name \in Seq(DOMAIN Identifier) /\ op.name # <<>>

VARIABLE generations

pipelineVars == <<definitionVars, generationVars, generations>>

Init == DefinitionInit /\ GenerationInit /\ generations = 0

\* contract_from_service: the operations of the protocol, without the functions behind
\* them, and the socket endpoints as servers
Contract == {WriteOperation(x.decl, WireName(x.decl), x.server) : x \in protocol.ops}
Servers == {EndpointName(m) : m \in {e \in ToSet(endpoints) : e.kind = "socket"}}
Document == [ops |-> Contract, servers |-> Servers]

\* load_contract_source imports a module that ends with rpc.contract(...).  Only the
\* rendered document is used from here on: the definitions are gone with the process.
LoadContract ==
    /\ generations = 0 /\ protocol.frozen /\ generations' = 1
    /\ ~Unwritable(Document) /\ ~Unreadable(Document)
    /\ \E opts \in Options : Generate(opts, Contract)
    /\ DefinitionReset

\* rpckit generate document.json
LoadDocument ==
    /\ generations \in 1..(MaxGenerations - 1) /\ generations' = generations + 1
    /\ \E opts \in Options, doc \in {d \in Documents : ~Unreadable(d)} :
           Generate(opts, doc.ops)
    /\ UNCHANGED definitionVars

Define == generations = 0 /\ DefinitionNext /\ UNCHANGED <<generationVars, generations>>
Write == WriterNext /\ UNCHANGED <<definitionVars, generations>>

Next == Define \/ LoadContract \/ LoadDocument \/ Write

Spec == Init /\ [][Next]_pipelineVars

\* What a frozen service promises its clients can be read back: the generator refuses
\* neither the servers nor the streams and raw sockets of a document a service wrote,
\* and the client declares every model and alias its operations name, directly or
\* through the fields of others.
ContractReadable ==
    protocol.frozen =>
        /\ ~Unreadable(Document)
        /\ ~Unwritable(Document) =>
               {t \in Closure(IrRoots(Contract)) : HasComponent(t)} = ClientTypes(Document)

\* What a user finds in a namespace of the client (in the client itself, for <<>>):
\* namespaces, each with the namespace of the contract it stands for, and operations.
Namespaces(operations, view, node) ==
    LET inside == {op \in operations : IsPrefix(node, view[op]) /\ Len(node) < Len(view[op])}
        at(op) == SubSeq(view[op], 1, Len(node) + 1)
    IN  {[source |-> Source(view, op, Len(node) + 1), as |-> Identifier[Last(at(op))],
          of |-> at(op), is |-> "namespace"] : op \in inside}
Attributes(view, node) ==
    Namespaces(DOMAIN view, view, node)
    \cup {[source |-> op.name, as |-> Identifier[Last(op.name)], of |-> op.name,
           is |-> "operation"] : op \in {op \in DOMAIN view : view[op] = node}}

\* api_view looks at methods only: what else api_root and aliases bring to one path is
\* joined there.
Joined(view, node, x, y) ==
    /\ x.is = "namespace" /\ y.is = "namespace" /\ x.of = y.of
    /\ ~({x, y} \subseteq Namespaces({op \in DOMAIN view : IsRoute(op)}, view, node))

\* assert_unique_names compares a namespace of the client by the last segment of its
\* source only: an operation without a namespace passes for a namespace that api_root
\* brought to the top.  And what comes from one source passes for one: an alias renames
\* a namespace for its methods and events and not for its streams, and the new name may
\* be another spelling of the old identifier.
OnlyStreams(view, node) == \A op \in DOMAIN view : IsPrefix(node, view[op]) => IsStream(op)
Overlooked(opts, view, x, y) ==
    \/ /\ x.is # y.is /\ opts.root # <<>>
       /\ \E a \in {x, y} : a.is = "operation" /\ Len(a.source) = 1
    \/ /\ x.is = "namespace" /\ y.is = "namespace"
       /\ NodeSource(view, x.of) = NodeSource(view, y.of)
       /\ OnlyStreams(view, x.of) # OnlyStreams(view, y.of)

\* In a client that is rendered no attribute stands for two namespaces of the contract
\* that both have methods, for two operations, or for an operation and a namespace,
\* whatever api_root and aliases make of their names, but for the two overlooked cases.
PublicNamesDistinct ==
    protocol.frozen =>
        \A opts \in {o \in Options : ~Refused(o, Contract)} :
            LET view == View(opts, Contract)
            IN  \A node \in Nodes(view) \cup {<<>>} :
                    \A x, y \in Attributes(view, node) :
                        x.as = y.as =>
                            \/ x = y \/ Joined(view, node, x, y)
                            \/ node = <<>> /\ Overlooked(opts, view, x, y)
=============================================================================
