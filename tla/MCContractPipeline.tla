------------------------- MODULE MCContractPipeline -------------------------
(* Two channels with a child, names that clash across channels, kinds and      *)
(* levels, templates that overlap, and a client under an api_root or an alias. *)
EXTENDS ContractPipeline

CONSTANTS p, c, q, none

MCParent == (p :> none) @@ (c :> p) @@ (q :> none)
MCNamespace == (p :> <<"p">>) @@ (c :> <<"p", "c">>) @@ (q :> <<>>)

\* p hands Gone down to c, which binds its exception anew.
MCErrorCode == ("Gone" :> "gone") @@ ("GoneToo" :> "gone") @@ ("Lost" :> "lost")
MCException ==
    ("Gone" :> "LookupError") @@ ("GoneToo" :> NoException) @@ ("Lost" :> "LookupError")
MCChannelRaises == (p :> {"Gone"}) @@ (c :> {"Lost"}) @@ (q :> {})

T(is, name, refs) ==
    [is |-> is, tag |-> IF name = "Tick" THEN "tick" ELSE "", name |-> name, refs |-> refs]
MCType == ("item" :> T("model", "Item", {"leaf"})) @@ ("leaf" :> T("model", "Leaf", {}))
          @@ ("tick" :> T("model", "Tick", {})) @@ ("bytes" :> T("bytes", "bytes", {}))
          @@ ("ticks" :> T("alias", "Ticks", {"tick"})) @@ ("id" :> T("scalar", "str", {}))
          @@ ("either" :> T("union", "", {"tick", "item"}))

X(name, is, type) ==
    [name |-> name, is |-> is, type |-> type, pass |-> "any", default |-> FALSE]
F(async, returns, of, params) ==
    [free |-> TRUE, async |-> async, returns |-> returns, of |-> of, params |-> params]
MCFunction ==
    ("get" :> F("coroutine", "value", "either", <<X("params", "wire", "item")>>))
    @@ ("unannotated" :> F("coroutine", "missing", NoType, <<>>))
    @@ ("upload" :> F("coroutine", "none", NoType, <<X("frames", "inject", "input")>>))
    @@ ("ticks" :> F("generator", "iterator", "ticks", <<X("s", "inject", "service")>>))
    @@ ("download" :> F("generator", "iterator", "bytes", <<X("{id}", "wire", "id")>>))
    @@ ("talk" :> F("coroutine", "none", NoType, <<X("socket", "inject", "raw")>>))

D(ch, kind, local, fn) ==
    [ch |-> ch, kind |-> kind, local |-> local, fn |-> fn, payload |-> NoType,
     input |-> "", raises |-> {}]

Px == D(p, "method", <<"x">>, "unannotated")
Cx == D(c, "subscription", <<"x">>, "ticks")
PCx == D(p, "client", <<"c", "x">>, "get")
Qc == [D(q, "method", <<"c", "u">>, "get") EXCEPT !.raises = {"GoneToo"}]
Qe == D(q, "event", <<"c">>, "ticks")
Ps == D(p, "stream", <<"s">>, "download")
Qs == D(q, "raw", <<"p", "s">>, "talk")
Ce == D(c, "event", <<"x">>, "ticks")
Pt == D(p, "event", <<"x">>, "ticks")
Pu == D(p, "stream", <<"u">>, "upload")
Cs == D(c, "method", <<"s">>, "get")

MCDecls == {Px, Cx, PCx, Qc, Qe, Ps, Qs, Ce, Pt, Pu, Cs}

M(kind, path, name, channels, decls) ==
    [kind |-> kind, path |-> path, name |-> name, channels |-> channels, decls |-> decls,
     completes |-> FALSE]
MCMounts ==
    {M("socket", <<"rpc">>, "", <<p>>, {}),
     [M("socket", <<"{room}">>, "rooms", <<q>>, {}) EXCEPT !.completes = TRUE],
     M("socket", <<"rpc", "{room}">>, "", <<c, q>>, {}),
     M("stream", <<"{id}">>, "s", <<>>, {Ps}),
     M("stream", <<"{room}", "up">>, "", <<>>, {Pu}),
     M("raw", <<"talk">>, "", <<>>, {Qs})}
MCVariables == {"{id}", "{room}"}

MCOptions == {[root |-> <<>>, names |-> <<>>], [root |-> <<"p">>, names |-> <<>>],
              [root |-> <<>>, names |-> <<"p", "c">> :> "x"],
              [root |-> <<>>, names |-> <<"p">> :> "P"]}
MCIdentifier == [s \in {"p", "c", "x", "s", "u", "P"} |-> IF s = "P" THEN "p" ELSE s]
MCApiClass == [s \in {"p", "c", "x", "s", "u", "P"} |-> IF s = "p" THEN "P" ELSE s]
MCFiles == <<"client", "c", "p", "s", "u", "x">>
MCDocuments == {[servers |-> {"rpc"}, ops |-> {RpcOperation(Px, name, "rpc")}] :
                    name \in {<<"c", "x">>, <<"p", "x">>}}
=============================================================================
