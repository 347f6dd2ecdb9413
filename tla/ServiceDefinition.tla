------------------------- MODULE ServiceDefinition -------------------------
(***************************************************************************)
(* How an application defines a service: channels collect declarations     *)
(* through decorators, endpoints mount channels, streams and raw sockets,  *)
(* and the first use of the protocol freezes everything                    *)
(* (src/rpckit/channel.py, protocol.py, service.py).  A call the code      *)
(* refuses with ProtocolDefinitionError changes nothing and is a disabled  *)
(* action, except freeze(), which may fail halfway.                        *)
(***************************************************************************)
EXTENDS Declarations

CONSTANTS
    Channels,   \* the channels the application creates
    Parent,     \* [Channels -> Channels \cup {NoChannel}]: child() makes the others
    NoChannel,
    Namespace,  \* [Channels -> Seq of segments]; also the channel's name
    Decls,      \* uses of a decorator, records of Decl
    Mounts,     \* uses of socket(), stream() and raw_socket(), records of Mount
    Variables,  \* the path segments that are {variables}
    ErrorCode,  \* [error classes -> codes]
    ChannelRaises, \* [Channels -> sets of error classes]: raises= of a channel
    MaxOpen,    \* bound: decorators made and not yet applied
    MaxDecls,   \* bound: declarations
    MaxMounts   \* bound: endpoints

JsonKinds == {"method", "event", "subscription", "client"}
SocketKinds == {"stream", "raw"}

\* A declaration: its channel, kind, name relative to the channel's namespace, function,
\* payload= of an event, input_content_type= of a stream (empty: not given) and raises=.
Decl == [ch : Channels, kind : JsonKinds \cup SocketKinds, local : Seq(STRING),
         fn : DOMAIN Function, payload : DOMAIN Type \cup {NoType}, input : STRING,
         raises : SUBSET DOMAIN ErrorCode]

\* An endpoint: what it mounts (channels, or one stream or raw socket), its path
\* template, its name (empty: derived), and close_when_events_complete.
Mount == [kind : {"socket"} \cup SocketKinds, path : Seq(STRING), name : STRING,
          channels : Seq(Channels), decls : SUBSET Decls, completes : BOOLEAN]

ASSUME DefinitionAssumption ==
    /\ IsFiniteSet(Channels) /\ NoChannel \notin Channels
    /\ Parent \in [Channels -> Channels \cup {NoChannel}]
    /\ Namespace \in [Channels -> Seq(STRING)]
    /\ \A c \in Channels :
           Parent[c] # NoChannel => IsStrictPrefix(Namespace[Parent[c]], Namespace[c])
    /\ Decls \subseteq Decl /\ \A d \in Decls : d.local # <<>>
    /\ Mounts \subseteq Mount
    /\ \A m \in Mounts :
           m.kind \in SocketKinds => (\E d \in Decls : m.decls = {d}) /\ ~m.completes

VARIABLES
    children,   \* each channel's _children, in the order they were made
    opened,     \* decorators made and not yet applied to their function
    declared,   \* declarations the channels hold
    late,       \* declarations a channel accepted after it was frozen
    protocolOf, \* each channel's _protocol
    endpoints,  \* the service's _endpoints
    mounted,    \* the service's _channels
    functions,  \* _mounted_streams and _mounted_raw_sockets
    protocol,   \* the service's _protocol
    failed      \* some RpcService.freeze has raised

definitionVars == <<children, opened, declared, late, protocolOf, endpoints, mounted,
                    functions, protocol, failed>>

Mutable == [frozen |-> FALSE, ops |-> {}]
Frozen(ops) == [frozen |-> TRUE, ops |-> ops]

DefinitionInit ==
    /\ children = [c \in Channels |-> <<>>]
    /\ opened = {} /\ declared = {} /\ late = {}
    /\ protocolOf = [c \in Channels |-> Mutable]
    /\ endpoints = <<>> /\ mounted = {} /\ functions = {}
    /\ protocol = Mutable /\ failed = FALSE

\* A process that ends leaves nothing of its definitions.
DefinitionReset ==
    /\ children' = [c \in Channels |-> <<>>]
    /\ opened' = {} /\ declared' = {} /\ late' = {}
    /\ protocolOf' = [c \in Channels |-> Mutable]
    /\ endpoints' = <<>> /\ mounted' = {} /\ functions' = {}
    /\ protocol' = Mutable /\ failed' = FALSE

(***************************************************************************)
(* Channels                                                                *)
(***************************************************************************)

Exists(c) == Parent[c] # NoChannel => c \in ToSet(children[Parent[c]])
EnsureMutable(c) == Exists(c) /\ ~protocolOf[c].frozen

WireName(d) == Namespace[d.ch] \o d.local
Reserved(c) == {WireName(d) : d \in {e \in declared : e.ch = c}}

\* RpcChannel.child
Child(c) ==
    /\ ~Exists(c) /\ Parent[c] # NoChannel /\ EnsureMutable(Parent[c])
    /\ children' = [children EXCEPT ![Parent[c]] = Append(@, c)]
    /\ UNCHANGED <<opened, declared, late, protocolOf, endpoints, mounted, functions,
                   protocol, failed>>

\* channel.method(...), event(...), subscription(...), stream(...), raw_socket(...):
\* the call that makes the decorator is the one that looks at _protocol.
OpenDecorator(d) ==
    /\ d.kind # "client" /\ d \notin opened \cup declared /\ EnsureMutable(d.ch)
    /\ Cardinality(opened) < MaxOpen /\ Cardinality(opened \cup declared) < MaxDecls
    /\ opened' = opened \cup {d}
    /\ UNCHANGED <<children, declared, late, protocolOf, endpoints, mounted, functions,
                   protocol, failed>>

\* What a channel raises: its own errors and those its parent hands down
ChannelErrors[c \in Channels] ==
    IF Parent[c] = NoChannel THEN ChannelRaises[c]
    ELSE MergeErrors(ChannelErrors[Parent[c]], ChannelRaises[c])

\* Streams and raw sockets declare no errors.
Raises(d) ==
    IF d.kind \in SocketKinds THEN {}
    ELSE IF d.kind = "client" THEN d.raises
    ELSE MergeErrors(ChannelErrors[d.ch], d.raises)

\* _validate_function, the definition of its kind, _reserve
Decorates(d) ==
    /\ Function[d.fn].free /\ ErrorDeclarations(d.raises)
    /\ \/ MethodDeclared(d) \/ EventDeclared(d) \/ SubscriptionDeclared(d)
       \/ StreamDeclared(d) \/ RawSocketDeclared(d)
    /\ WireName(d) \notin Reserved(d.ch)

\* The decorator meets its function; a refused one is gone.
Decorate(d) ==
    /\ d \in opened /\ opened' = opened \ {d}
    /\ IF Decorates(d)
       THEN /\ declared' = declared \cup {d}
            /\ late' = IF protocolOf[d.ch].frozen THEN late \cup {d} ELSE late
       ELSE UNCHANGED <<declared, late>>
    /\ UNCHANGED <<children, protocolOf, endpoints, mounted, functions, protocol, failed>>

\* channel.client.method() checks and declares in one call.
DeclareClientMethod(d) ==
    /\ d.kind = "client" /\ d \notin declared /\ EnsureMutable(d.ch)
    /\ Cardinality(opened \cup declared) < MaxDecls
    /\ ClientMethodDeclared(d) /\ WireName(d) \notin Reserved(d.ch)
    /\ declared' = declared \cup {d}
    /\ UNCHANGED <<children, opened, late, protocolOf, endpoints, mounted, functions,
                   protocol, failed>>

\* RpcProtocol: names are unique within each kind, and so are the notification types, the
\* literals that the messages of all events are pinned to.
SameName(d, e) == d # e /\ d.kind = e.kind /\ WireName(d) = WireName(e)
SameType(d, e) ==
    /\ d.kind = "event" /\ e.kind = "event"
    /\ \E t \in Messages(Function[d.fn].of), u \in Messages(Function[e.fn].of) :
           <<d, t>> # <<e, u>> /\ Type[t].tag = Type[u].tag /\ Type[t].tag # ""
Clashes(ops) == \E d, e \in ops : SameName(d, e) \/ SameType(d, e)

\* What freezing works on: whether it has raised, and the protocols of the channels
Protocols == [Channels -> [frozen : BOOLEAN, ops : SUBSET Decls]]
FreezeState == [ok : BOOLEAN, of : Protocols]

\* RpcChannel.freeze, a function on those states: the channel's own definitions, then its
\* children in order, then the protocol.  An exception leaves the children done so far.
ChannelFreeze[c \in Channels] == [st \in FreezeState |->
    LET own == {d \in declared : d.ch = c}
        down[n \in 0..Len(children[c])] ==
            IF n = 0 THEN st ELSE ChannelFreeze[children[c][n]][down[n - 1]]
        after == down[Len(children[c])]
        ops == own \cup UNION {after.of[k].ops : k \in ToSet(children[c])}
    IN  IF ~st.ok \/ st.of[c].frozen THEN st
        ELSE IF \E d \in own : ~Sound(d) THEN [st EXCEPT !.ok = FALSE]
        ELSE IF ~after.ok \/ Clashes(ops) THEN [after EXCEPT !.ok = FALSE]
        ELSE [after EXCEPT !.of[c] = Frozen(ops)]]

\* channel.protocol and channel.create_server()
FreezeChannel(c) ==
    /\ EnsureMutable(c)
    /\ protocolOf' = ChannelFreeze[c][[ok |-> TRUE, of |-> protocolOf]].of
    /\ UNCHANGED <<children, opened, declared, late, endpoints, mounted, functions,
                   protocol, failed>>

(***************************************************************************)
(* Endpoints                                                               *)
(***************************************************************************)

Static(path) == SelectSeq(path, LAMBDA s : s \notin Variables)
Normalized(path) == [i \in DOMAIN path |-> IF path[i] \in Variables THEN "{}" ELSE path[i]]

\* name=..., or the last static segment of the path (_endpoint_name)
EndpointName(m) == IF m.name # "" THEN m.name ELSE Last(Static(m.path))

NameTaken(m) == \E i \in DOMAIN endpoints : EndpointName(endpoints[i]) = EndpointName(m)
PathTaken(m) == \E i \in DOMAIN endpoints :
                    Normalized(endpoints[i].path) = Normalized(m.path)

PathValid(m) == (m.name # "" \/ Static(m.path) # <<>>) /\ ~PathTaken(m)

\* _validate_endpoint
ValidEndpoint(m) ==
    /\ m.name # "" \/ Static(m.path) # <<>>
    /\ ~NameTaken(m) /\ ~PathTaken(m)

\* RpcService.socket: no channel twice, and no two channels of one name.
Mountable(m) ==
    LET cs == ToSet(m.channels)
    IN  /\ m.channels # <<>> /\ \A c \in cs : Exists(c)
        /\ cs \cap mounted = {} /\ Cardinality(cs) = Len(m.channels)
        /\ \A c, k \in mounted \cup cs : c # k => Namespace[c] # Namespace[k]

MountSocket(m) ==
    /\ m.kind = "socket" /\ Len(endpoints) < MaxMounts
    /\ ~protocol.frozen /\ ValidEndpoint(m) /\ Mountable(m)
    /\ endpoints' = Append(endpoints, m)
    /\ mounted' = mounted \cup ToSet(m.channels)
    /\ UNCHANGED <<children, opened, declared, late, protocolOf, functions, protocol, failed>>

\* What stream() and raw_socket() have in common: the function is mounted once, and its
\* path parameters are variables of the path.
MountFunction(m) ==
    /\ Len(endpoints) < MaxMounts /\ ~protocol.frozen /\ ValidEndpoint(m)
    /\ m.decls \subseteq declared \ functions
    /\ \A d \in m.decls : {x.name : x \in ToSet(Wire(d.fn))} \subseteq ToSet(m.path)
    /\ endpoints' = Append(endpoints, m)
    /\ mounted' = mounted \cup {d.ch : d \in m.decls}
    /\ functions' = functions \cup m.decls
    /\ UNCHANGED <<children, opened, declared, late, protocolOf, protocol, failed>>

\* RpcService.stream takes a function a stream decorator marked, raw_socket one of its own.
MountStream(m) == m.kind = "stream" /\ (\A d \in m.decls : d.kind = "stream") /\ MountFunction(m)
MountRawSocket(m) == m.kind = "raw" /\ (\A d \in m.decls : d.kind = "raw") /\ MountFunction(m)

\* RpcService.match: static templates first, then the order of mounting.
Matches(template, path) ==
    /\ Len(template) = Len(path)
    /\ \A i \in DOMAIN path : template[i] \in Variables \/ template[i] = path[i]
IsStatic(i) == ToSet(endpoints[i].path) \cap Variables = {}
Before(i, j) ==
    IF IsStatic(i) = IsStatic(j) THEN i < j ELSE IsStatic(i)
Match(path) ==
    {i \in DOMAIN endpoints :
        /\ Matches(endpoints[i].path, path)
        /\ \A j \in DOMAIN endpoints \ {i} : Matches(endpoints[j].path, path) => Before(i, j)}

\* RpcService.serve: the endpoint a connection is handed to; none: rejected, not found
Serve(path) == {endpoints[i] : i \in Match(path)}

(***************************************************************************)
(* RpcService.freeze                                                       *)
(***************************************************************************)

Served(d, m) == [decl |-> d, server |-> EndpointName(m)]
Names(entries) == {WireName(x.decl) : x \in entries}

\* _unique_name, and one class for each error code
Admits(entries, new) ==
    /\ \A x, y \in entries \cup new : x # y => WireName(x.decl) # WireName(y.decl)
    /\ \A x, y \in entries \cup new : \A e \in Raises(x.decl), f \in Raises(y.decl) :
           ErrorCode[e] = ErrorCode[f] => e = f

HasEvents(protocolRecord) == \E d \in protocolRecord.ops : d.kind = "event"

NobodyAsked(m) == <<>>

\* close_when_events_complete: the channels are asked for events, in order
Asked(m) == IF m.completes THEN m.channels ELSE <<>>

\* What freeze() does with one endpoint: it freezes a channel to learn of its events, or
\* to claim the names the endpoint serves.
Steps(m) ==
    IF m.kind = "socket"
    THEN [i \in DOMAIN Asked(m) |-> [do |-> "ask", at |-> i, ch |-> m.channels[i], m |-> m]]
         \o [i \in DOMAIN m.channels |->
                [do |-> "claim", at |-> i, ch |-> m.channels[i], m |-> m]]
    ELSE <<[do |-> "claim", at |-> 1, ch |-> (CHOOSE d \in m.decls : TRUE).ch, m |-> m]>>

\* any(channel.freeze().notifications for channel in endpoint.channels)
AnyEvents(of, m, n) == \E i \in 1..n : HasEvents(of[m.channels[i]])

\* What a step adds to the protocol
Claimed(of, step) ==
    {Served(d, step.m) : d \in IF step.m.kind = "socket"
                               THEN {e \in of[step.ch].ops : e.kind \in JsonKinds}
                               ELSE step.m.decls}

Perform(acc, step) ==
    LET m   == step.m
        st  == ChannelFreeze[step.ch][[ok |-> acc.ok, of |-> acc.of]]
        new == Claimed(st.of, step)
    IN  IF ~acc.ok \/ (step.do = "ask" /\ AnyEvents(acc.of, m, step.at - 1)) THEN acc
        ELSE IF m.completes /\ step.do = "claim" /\ step.at = 1
                /\ ~AnyEvents(acc.of, m, Len(m.channels)) THEN [acc EXCEPT !.ok = FALSE]
        ELSE IF ~st.ok \/ step.do = "ask" THEN [acc EXCEPT !.ok = st.ok, !.of = st.of]
        ELSE IF new \cap acc.entries = {} /\ Admits(acc.entries, new)
             THEN [ok |-> TRUE, of |-> st.of, entries |-> acc.entries \cup new]
        ELSE [acc EXCEPT !.ok = FALSE, !.of = st.of]

\* The endpoint's steps, one after the other
FreezeEndpoint(acc, m) ==
    LET done[n \in 0..Len(Steps(m))] ==
            IF n = 0 THEN acc ELSE Perform(done[n - 1], Steps(m)[n])
    IN  done[Len(Steps(m))]

\* A name is an operation or a namespace, never both.
Nested(entries) ==
    \E n, o \in Names(entries) : IsStrictPrefix(n, o)

\* What freeze() looks at when everything is claimed: the names, and in RpcProtocol the
\* notification types of all channels
Unservable(entries) ==
    Nested(entries) \/ \E x, y \in entries : SameType(x.decl, y.decl)

ServiceFreeze ==
    LET done[n \in 0..Len(endpoints)] ==
            IF n = 0 THEN [ok |-> TRUE, of |-> protocolOf, entries |-> {}]
            ELSE FreezeEndpoint(done[n - 1], endpoints[n])
        all == done[Len(endpoints)]
    IN  [all EXCEPT !.ok = all.ok /\ ~Unservable(all.entries)]

\* freeze(), protocol, contract(), an endpoint's protocol and the first connection to a
\* JSON-RPC endpoint.  Channels stay frozen and the service mutable when it raises.
Freeze ==
    /\ ~protocol.frozen
    /\ LET result == ServiceFreeze
       IN  /\ protocolOf' = result.of
           /\ protocol' = IF result.ok THEN Frozen(result.entries) ELSE protocol
           /\ failed' = (failed \/ ~result.ok)
    /\ UNCHANGED <<children, opened, declared, late, endpoints, mounted, functions>>

\* RpcEndpoint.protocol: the operations of the service whose server is this endpoint.
Slice(m) == {x \in protocol.ops : x.server = EndpointName(m) /\ x.decl.kind \in JsonKinds}

DefinitionNext ==
    \/ \E c \in Channels : Child(c) \/ FreezeChannel(c)
    \/ \E d \in Decls : OpenDecorator(d) \/ Decorate(d) \/ DeclareClientMethod(d)
    \/ \E m \in Mounts : MountSocket(m) \/ MountStream(m) \/ MountRawSocket(m)
    \/ Freeze

(***************************************************************************)
(* Properties                                                              *)
(***************************************************************************)

\* c is root or below it: in every set that has root and, with a channel, its children
InSubtree(c, root) ==
    \A T \in SUBSET Channels :
        root \in T /\ (\A k \in Channels : Parent[k] \in T => k \in T) => c \in T

\* A frozen service serves every operation declared in time on a mounted channel or on
\* a channel below it, at the endpoint that mounts it and at no other, under a name no
\* other operation has; every mounted stream and raw socket is in the protocol; and a
\* connection to a path without variables gets to the endpoint mounted there, whatever
\* templates match the path too and in whatever order they were mounted.
OperationsServedOnce ==
    protocol.frozen =>
        \A i \in DOMAIN endpoints :
            LET m == endpoints[i]
                due == IF m.kind = "socket"
                       THEN {d \in declared \ late : d.kind \in JsonKinds /\
                                \E c \in ToSet(m.channels) : InSubtree(d.ch, c)}
                       ELSE m.decls
            IN  /\ \A d \in due :
                       /\ {x \in protocol.ops : WireName(x.decl) = WireName(d)} = {Served(d, m)}
                       /\ m.kind = "socket" =>
                              {j \in DOMAIN endpoints : Served(d, m) \in Slice(endpoints[j])} = {i}
                /\ Cardinality(Serve(m.path)) = 1
                /\ IsStatic(i) => Serve(m.path) = {m}

\* A freeze() that raised is final: the channels it froze hold what made it fail, so no
\* later declaration, mount or connection turns the definition into a served protocol.
FailureIsFinal == failed => ~protocol.frozen
=============================================================================
