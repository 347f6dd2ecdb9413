-------------------------- MODULE ClientGeneration --------------------------
(***************************************************************************)
(* `rpckit generate --config`: the contract is lowered to a tree of public *)
(* names (src/rpckit/codegen/ir.py, names.py, python.py) and the rendered  *)
(* files replace those of the last generation in the output directory      *)
(* (codegen/writer.py, cli.py).  The process may be killed at any write.   *)
(***************************************************************************)
EXTENDS Naturals, Sequences, FiniteSets, SequencesExt

CONSTANTS
    Options,     \* [root : api_root, names : api_names]; names maps paths to a segment
    Identifier,  \* [segments -> Python identifiers]: snake_case, keywords, symbols
    ApiClass,    \* [segments -> class names]: pascal_case of the same words
    Files,       \* the order in which files are rendered and written
    ContractFile \* the document of [contract], in a directory of its own

\* Files has room for the files of the client and of each namespace it may have.
ASSUME GenerationAssumption ==
    /\ Files \in Seq(STRING) /\ Files # <<>> /\ ContractFile \notin ToSet(Files)
    /\ \A s \in DOMAIN Identifier : Identifier[s] \in ToSet(Files)
    /\ \A s, t \in DOMAIN Identifier : Identifier[s] = Identifier[t] => ApiClass[s] = ApiClass[t]
    /\ \A opts \in Options :
           /\ opts.root \in Seq(DOMAIN Identifier)
           /\ \A k \in DOMAIN opts.names : opts.names[k] \in DOMAIN Identifier

(***************************************************************************)
(* The public names.  An operation is [kind, name, server]; a name is the  *)
(* sequence of its segments.                                               *)
(***************************************************************************)

Path(op) == Front(op.name)
IsRoute(op) == op.kind = "method"
IsStream(op) == op.kind \in {"stream", "raw"}
IsEvent(op) == op.kind \in {"event", "subscription"}

\* Client methods become handlers; everything else is an attribute of the client.
Exposed(contract) == {op \in contract : op.kind # "client"}

Stripped(root, path) ==
    IF root # <<>> /\ IsPrefix(root, path)
    THEN SubSeq(path, Len(root) + 1, Len(path)) ELSE path

\* The keys _api_name tries for segment i of what is left of a path.
AliasKeys(root, path, i) ==
    LET visible == Stripped(root, path)
        cut == Len(path) - Len(visible)
    IN  <<SubSeq(path, 1, cut + i), SubSeq(visible, 1, i), <<visible[i]>>>>

\* The first of them that is an alias applies, if any is.
Applied(opts, path, i) ==
    LET keys == AliasKeys(opts.root, path, i)
        known == {j \in DOMAIN keys : keys[j] \in DOMAIN opts.names}
    IN  IF known = {} THEN {} ELSE {keys[Min(known)]}

ApiName(opts, path, i) ==
    IF Applied(opts, path, i) = {} THEN Stripped(opts.root, path)[i]
    ELSE opts.names[CHOOSE k \in Applied(opts, path, i) : TRUE]

\* Where the client shows the namespace of an operation; streams keep their names.
Visible(opts, op) ==
    LET visible == Stripped(opts.root, Path(op))
    IN  IF IsStream(op) THEN visible
        ELSE [i \in DOMAIN visible |-> ApiName(opts, Path(op), i)]

View(opts, contract) == [op \in Exposed(contract) |-> Visible(opts, op)]

\* The source of the first n visible segments of an operation
Source(view, op, n) == SubSeq(Path(op), 1, Len(Path(op)) - Len(view[op]) + n)

\* The aliases that apply somewhere; one that never comes first does not.
MatchedAliases(opts, contract) ==
    {k \in DOMAIN opts.names :
        \E op \in Exposed(contract) : ~IsStream(op) /\
            \E i \in DOMAIN Stripped(opts.root, Path(op)) : k \in Applied(opts, Path(op), i)}

MergedByName(view) ==
    \E o, p \in {op \in DOMAIN view : IsRoute(op)} :
        \E n \in 1..Len(view[o]) :
            /\ n <= Len(view[p]) /\ SubSeq(view[o], 1, n) = SubSeq(view[p], 1, n)
            /\ Last(Source(view, o, n)) # Last(Source(view, p, n))

\* api_view: no two namespaces of methods are shown as one.  Events and streams are not
\* asked: event_view and client_view have no such check.
Merged(view) ==
    \E o, p \in {op \in DOMAIN view : IsRoute(op)} :
        \E n \in 1..Len(view[o]) :
            /\ n <= Len(view[p]) /\ SubSeq(view[o], 1, n) = SubSeq(view[p], 1, n)
            /\ Source(view, o, n) # Source(view, p, n)

\* api_root names a namespace, and every alias is used.
ViewRefused(opts, contract) ==
    \/ opts.root # <<>> /\ \A op \in Exposed(contract) : ~IsPrefix(opts.root, Path(op))
    \/ MatchedAliases(opts, contract) # DOMAIN opts.names

\* The namespaces of the client: every prefix of a visible path.
Nodes(view) == UNION {{SubSeq(view[op], 1, n) : n \in 1..Len(view[op])} : op \in DOMAIN view}
Top(view) == {<<view[op][1]>> : op \in {o \in DOMAIN view : view[o] # <<>>}}

\* _merge_nodes joins what is shown under one path, whatever namespaces of the contract it
\* comes from.  The source of the result is that of a method in it, else of an event, else
\* of a stream (the first of them in the document; which one is not told apart here).
NodeSource(view, node) ==
    LET in == {op \in DOMAIN view : IsPrefix(node, view[op])}
        routes == {op \in in : IsRoute(op)}
        events == {op \in in : IsEvent(op)}
        op == CHOOSE o \in (IF routes # {} THEN routes ELSE IF events # {} THEN events
                             ELSE in) : TRUE
    IN  Source(view, op, Len(node))

\* The attributes of a node (of the client, for <<>>): namespaces below it and the
\* operations in it, each with the source assert_unique_names compares.
Members(view, node) ==
    {[source |-> IF node = <<>> THEN <<Last(NodeSource(view, n))>> ELSE <<Last(n)>>,
      as |-> Identifier[Last(n)], of |-> n, is |-> "namespace"] :
        n \in {n \in Nodes(view) : Len(n) = Len(node) + 1 /\ IsPrefix(node, n)}}
    \cup
    {[source |-> op.name, as |-> Identifier[Last(op.name)], of |-> op.name,
      is |-> "operation"] : op \in {op \in DOMAIN view : view[op] = node}}

Ambiguous(members) == \E x, y \in members : x.as = y.as /\ x.source # y.source

\* _assert_unique_package_exports: the class of each namespace of the client
ExportsRefused(view) ==
    \E n, m \in Top(view) : /\ ApiClass[n[1]] = ApiClass[m[1]]
                            /\ NodeSource(view, n) # NodeSource(view, m)

\* _validate: the client, its namespaces and the package
NamesRefused(view) ==
    \/ \E node \in Nodes(view) \cup {<<>>} : Ambiguous(Members(view, node))
    \/ ExportsRefused(view)

\* render_files raises UnsupportedSchemaError and nothing is written.
Refused(opts, contract) ==
    \/ ViewRefused(opts, contract)
    \/ LET view == View(opts, contract) IN Merged(view) \/ NamesRefused(view)

\* Content: what a file says of the contract.  A namespace's file holds its operations,
\* the others the contract as a whole.
Made(ops) == [by |-> "generator", ops |-> ops]
Partial == [by |-> "partial", ops |-> {}]
Edited == [by |-> "user", ops |-> {}]
Absent == [by |-> "none", ops |-> {}]

Render(opts, contract) ==
    LET view == View(opts, contract)
        below(f) == {op \in DOMAIN view : view[op] # <<>> /\ Identifier[view[op][1]] = f}
        names == {Head(Files)} \cup {Identifier[n[1]] : n \in Top(view)}
    IN  [f \in names |-> Made(IF f = Head(Files) THEN contract ELSE below(f))]

(***************************************************************************)
(* The writer                                                              *)
(***************************************************************************)

VARIABLES
    disk,      \* the output directory: [files -> content]
    manifest,  \* .rpcgen/manifest.json: what it lists and the contract it was made from
    job,       \* the running generator
    disturbed  \* some generation was killed with files on disk its manifest does not list

generationVars == <<disk, manifest, job, disturbed>>

NoManifest == [is |-> "none", files |-> {}, ops |-> {}]
TornManifest == [is |-> "torn", files |-> {}, ops |-> {}]
ManifestOf(files, contract) ==
    [is |-> "whole", files |-> DOMAIN files, ops |-> contract]

Idle == [st |-> "idle", files |-> <<>>, contract |-> {}, stale |-> {}, at |-> 0]

Everything == <<ContractFile>> \o Files

GenerationInit ==
    /\ disk = [f \in ToSet(Everything) |-> Absent]
    /\ manifest = NoManifest /\ job = Idle /\ disturbed = FALSE

NothingStale(files) == {}

\* Paths of the last manifest that are no longer rendered; a torn manifest lists nothing.
Stale(files) == manifest.files \ DOMAIN files

\* The files that differ: with --check, the ones reported.
OutOfDate(files, contract) ==
    {f \in DOMAIN files : disk[f] # files[f]}
    \cup {f \in {ContractFile} : disk[f] # Made(contract)}
    \cup {f \in Stale(files) : disk[f] # Absent}
    \cup {f \in {"manifest"} : manifest # ManifestOf(files, contract)}

\* Rendering is complete before the first file is touched.
Generate(opts, contract) ==
    /\ job.st \in {"idle", "finished"} /\ ~Refused(opts, contract)
    /\ LET files == Render(opts, contract)
       IN  job' = [st |-> "writing", files |-> files, contract |-> contract,
                   stale |-> Stale(files), at |-> 1]
    /\ UNCHANGED <<disk, manifest, disturbed>>

\* What the file at job.at should hold
Wanted ==
    LET f == Everything[job.at]
    IN  IF f = ContractFile THEN Made(job.contract)
        ELSE IF f \in DOMAIN job.files THEN job.files[f] ELSE disk[f]

\* write_files: a file with the right content is left alone, another one is truncated...
OpenFile ==
    /\ job.st = "writing" /\ job.at <= Len(Everything)
    /\ IF disk[Everything[job.at]] = Wanted
       THEN job' = [job EXCEPT !.at = @ + 1] /\ UNCHANGED disk
       ELSE /\ job' = [job EXCEPT !.st = "open"]
            /\ disk' = [disk EXCEPT ![Everything[job.at]] = Partial]
    /\ UNCHANGED <<manifest, disturbed>>

\* ... and written.
WriteFile ==
    /\ job.st = "open"
    /\ disk' = [disk EXCEPT ![Everything[job.at]] = Wanted]
    /\ job' = [job EXCEPT !.st = "writing", !.at = @ + 1]
    /\ UNCHANGED <<manifest, disturbed>>

\* The manifest is the last of the rendered files.
OpenManifest ==
    /\ job.st = "writing" /\ job.at = Len(Everything) + 1
    /\ IF manifest = ManifestOf(job.files, job.contract)
       THEN job' = [job EXCEPT !.st = "removing"] /\ UNCHANGED manifest
       ELSE job' = [job EXCEPT !.st = "listing"] /\ manifest' = TornManifest
    /\ UNCHANGED <<disk, disturbed>>

WriteManifest ==
    /\ job.st = "listing"
    /\ manifest' = ManifestOf(job.files, job.contract)
    /\ job' = [job EXCEPT !.st = "removing"]
    /\ UNCHANGED <<disk, disturbed>>

\* The files of the old manifest that are not rendered any more, in order
RemoveStale ==
    /\ job.st = "removing" /\ job.stale # {}
    /\ LET f == Files[Min({i \in DOMAIN Files : Files[i] \in job.stale})]
       IN  /\ disk' = [disk EXCEPT ![f] = Absent]
           /\ job' = [job EXCEPT !.stale = @ \ {f}]
    /\ UNCHANGED <<manifest, disturbed>>

Finish ==
    /\ job.st = "removing" /\ job.stale = {}
    /\ job' = [job EXCEPT !.st = "finished", !.at = 0]
    /\ UNCHANGED <<disk, manifest, disturbed>>

\* Files no later generation will know for files of this client
Forgotten == {f \in ToSet(Files) : disk[f] # Absent} \ manifest.files

\* Ctrl-C, a full disk, a cancelled CI job
Kill ==
    /\ job.st \notin {"idle", "finished"}
    /\ job' = Idle /\ disturbed' = (disturbed \/ Forgotten # {})
    /\ UNCHANGED <<disk, manifest>>

\* Between two generations somebody edits or deletes a file.
Touch(f) ==
    /\ job.st \in {"idle", "finished"} /\ disk[f] # Absent
    /\ disk' \in {[disk EXCEPT ![f] = c] : c \in {Edited, Absent}}
    /\ job' = Idle /\ UNCHANGED <<manifest, disturbed>>

WriterNext ==
    \/ OpenFile \/ WriteFile \/ OpenManifest \/ WriteManifest \/ RemoveStale \/ Finish
    \/ Kill \/ \E f \in ToSet(Everything) : Touch(f)

(***************************************************************************)
(* Properties                                                              *)
(***************************************************************************)

\* However many generations were killed and whatever was edited in between, one that
\* ends leaves every file of the client as rendered and nothing for --check to report;
\* and no file of an earlier client remains, unless some generation was killed when there
\* were files its manifest did not list: new ones before the manifest was whole, or stale
\* ones after the old manifest was gone.
RegenerationExact ==
    job.st = "finished" =>
        /\ OutOfDate(job.files, job.contract) = {}
        /\ ~disturbed => \A f \in ToSet(Files) \ DOMAIN job.files : disk[f] = Absent
=============================================================================
