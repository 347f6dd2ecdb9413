---------------------------- MODULE Declarations ----------------------------
(***************************************************************************)
(* What makes one declaration of a channel acceptable: the shape of the    *)
(* decorated function, its parameters and annotations, and the errors it   *)
(* declares (src/rpckit/channel.py, protocol.py, errors.py).  A type and a *)
(* function are names; Type and Function say what the code can tell of     *)
(* them.  The functions decorated are never called here.                   *)
(***************************************************************************)
EXTENDS Naturals, Sequences, FiniteSets, SequencesExt

CONSTANTS
    Type,      \* [types -> TypeInfo]
    Function,  \* [functions -> FunctionInfo]
    Exception  \* [error classes -> the exception a binding maps, or NoException]

NoType == "no type"
NoException == "no exception"

\* A model or alias has a schema of its own; a union is an alias without a name.
\* tag: the literal its type field is pinned to, or empty.  refs: the types its fields name.
TypeInfo == [is : {"model", "alias", "union", "scalar", "bytes", "opaque"},
             tag : STRING, name : STRING, refs : SUBSET STRING]

\* A parameter: without annotation, Inject[type], or read from the wire or the path;
\* how it can be passed; whether it has a default.
Parameter == [name : STRING, is : {"bare", "inject", "wire"}, type : STRING,
              pass : {"any", "keyword", "positional"}, default : BOOLEAN]

\* A function: no method or closure of a class; coroutine, async generator or neither;
\* its return annotation (iterator: AsyncIterator[of]); its parameters.
FunctionInfo == [free : BOOLEAN, async : {"coroutine", "generator", "plain"},
                 returns : {"missing", "none", "value", "iterator"}, of : STRING,
                 params : Seq(Parameter)]

IsModel(t) == t \in DOMAIN Type /\ Type[t].is = "model"

(***************************************************************************)
(* Parameters                                                              *)
(***************************************************************************)

Injected(f) == SelectSeq(Function[f].params, LAMBDA x : x.is = "inject")
Wire(f) == SelectSeq(Function[f].params, LAMBDA x : x.is = "wire")
Injects(f, dependency) == Len(SelectSeq(Injected(f), LAMBDA x : x.type = dependency))

\* _split_parameters
SplitParameters(f) ==
    /\ \A x \in ToSet(Function[f].params) : x.is # "bare"
    /\ \A x \in ToSet(Injected(f)) : x.pass # "positional" /\ ~x.default

\* _router_params_model: at most one parameter from the wire, a positional model
RouterParams(f) ==
    /\ SplitParameters(f)
    /\ \/ Wire(f) = <<>>
       \/ Len(Wire(f)) = 1 /\ Wire(f)[1].pass = "any" /\ IsModel(Wire(f)[1].type)

ParamsType(f) == IF Wire(f) = <<>> THEN NoType ELSE Wire(f)[1].type

\* A type refers to types; only models, aliases and unions have parts, and the members
\* of a union are no unions (Python flattens them).
ASSUME DeclarationAssumption ==
    /\ IsFiniteSet(DOMAIN Type) /\ NoType \notin DOMAIN Type
    /\ \A t \in DOMAIN Type :
           /\ Type[t] \in TypeInfo /\ Type[t].refs \subseteq DOMAIN Type
           /\ Type[t].is \in {"scalar", "bytes", "opaque"} => Type[t].refs = {}
           /\ Type[t].is = "union" => \A u \in Type[t].refs : Type[u].is # "union"
    /\ \A f \in DOMAIN Function :
           /\ Function[f].of \in DOMAIN Type \cup {NoType}
           /\ ParamsType(f) \in DOMAIN Type \cup {NoType}

\* _path_model: path variables are passed by name and are scalars
PathModel(f) ==
    \A x \in ToSet(Wire(f)) :
        x.pass # "positional" /\ Type[x.type].is \notin {"model", "opaque"}

(***************************************************************************)
(* The definitions.  A declaration is [kind, fn, payload, input, raises],  *)
(* see ServiceDefinition.                                                  *)
(***************************************************************************)

\* method_definition
MethodDefinition(d) == RouterParams(d.fn) /\ Function[d.fn].returns # "missing"

\* client_method_definition: fn stands for params= and result=
ClientMethodDefinition(d) ==
    /\ \A x \in ToSet(Wire(d.fn)) : IsModel(x.type)
    /\ Function[d.fn].returns = "value" => Type[Function[d.fn].of].is # "opaque"

\* notification_definition: a generator of the payload, with injected parameters only
NotificationDefinition(d) ==
    LET f == Function[d.fn]
    IN  /\ f.async = "generator" /\ f.returns = "iterator"
        /\ d.payload \in {NoType, f.of}
        /\ RouterParams(d.fn) /\ Wire(d.fn) = <<>>

\* _notification_message_types: the messages of an event, the members of a union
Messages(payload) ==
    IF Type[payload].is \in {"alias", "union"} THEN Type[payload].refs ELSE {payload}

\* notification_type_definitions: models, told apart by their type if there are several
NotificationTypes(payload) ==
    /\ \A t \in Messages(payload) : IsModel(t)
    /\ Cardinality(Messages(payload)) > 1 => \A t \in Messages(payload) : Type[t].tag # ""

\* subscription_definition
SubscriptionDefinition(d) ==
    LET f == Function[d.fn]
    IN  /\ f.async = "generator" /\ f.returns = "iterator"
        /\ Type[f.of].is # "opaque"
        /\ RouterParams(d.fn)

HasInput(f) == Injects(f, "input") > 0
HasOutput(f) == Injects(f, "output") > 0

\* stream_definition: a generator of bytes, or a coroutine that injects its ends
StreamDefinition(d) ==
    LET f == Function[d.fn]
    IN  /\ SplitParameters(d.fn)
        /\ Injects(d.fn, "input") <= 1 /\ Injects(d.fn, "output") <= 1
        /\ \/ /\ f.async = "generator" /\ f.returns = "iterator"
              /\ Type[f.of].is = "bytes" /\ ~HasInput(d.fn) /\ ~HasOutput(d.fn)
           \/ /\ f.async = "coroutine" /\ f.returns \in {"missing", "none"}
              /\ HasInput(d.fn) \/ HasOutput(d.fn)
        /\ d.input # "" => HasInput(d.fn)
        /\ PathModel(d.fn)

StreamDirection(d) ==
    IF ~HasInput(d.fn) THEN "server-to-client"
    ELSE IF HasOutput(d.fn) THEN "bidirectional" ELSE "client-to-server"

Octets == "application/octet-stream"

\* The content type of what the client sends, whatever the direction
InputOrContentType(d) == IF d.input # "" THEN d.input ELSE Octets

\* ... and only when there is an input
InputContentType(d) ==
    IF ~HasInput(d.fn) THEN "" ELSE IF d.input # "" THEN d.input ELSE Octets

\* raw_socket_definition
RawSocketDefinition(d) ==
    LET f == Function[d.fn]
    IN  /\ f.async = "coroutine" /\ f.returns \in {"missing", "none"}
        /\ SplitParameters(d.fn) /\ Injects(d.fn, "raw") = 1
        /\ PathModel(d.fn)

(***************************************************************************)
(* Errors                                                                  *)
(***************************************************************************)

\* error_declarations, bind_contracts: an exception is bound once
ErrorDeclarations(raises) ==
    \A e, f \in raises : Exception[e] = Exception[f] /\ Exception[e] # NoException => e = f

\* merge_error_declarations: what a channel hands down, less the exceptions bound anew
MergeErrors(inherited, local) ==
    local \cup {e \in inherited : Exception[e] = NoException \/
                                  \A l \in local : Exception[l] # Exception[e]}

(***************************************************************************)
(* What the decorators check once they meet the function, and what only    *)
(* freeze() looks at                                                       *)
(***************************************************************************)

MethodDeclared(d) == d.kind = "method" /\ Function[d.fn].async = "coroutine"
EventDeclared(d) == d.kind = "event" /\ NotificationDefinition(d)
SubscriptionDeclared(d) == d.kind = "subscription" /\ SubscriptionDefinition(d)
StreamDeclared(d) == d.kind = "stream" /\ StreamDefinition(d)
RawSocketDeclared(d) == d.kind = "raw" /\ RawSocketDefinition(d)

ClientMethodDeclared(d) ==
    /\ d.kind = "client" /\ \A e \in d.raises : Exception[e] = NoException
    /\ ClientMethodDefinition(d)

\* A method's signature and an event's payload wait for freeze().
Sound(d) ==
    /\ d.kind = "method" => MethodDefinition(d)
    /\ d.kind = "event" => NotificationTypes(Function[d.fn].of)
=============================================================================
