---------------------------- MODULE GraphBuffer ----------------------------
(***************************************************************************)
(* The in-memory graph a run works on (graph_buffer.c), as operators.  A   *)
(* buffer is [nodes, edges, next]: the live nodes in the order of their    *)
(* array, edges between ids, and the next id.  A qualified name names at   *)
(* most one live node.  Nodes and edges draw their ids from one counter.   *)
(***************************************************************************)
EXTENDS Integers, FiniteSets, SequencesExt

\* The elements of a sequence that are in S, in their order.
KeepStep(acc, x) ==
    IF x \in acc.of THEN [acc EXCEPT !.kept = Append(@, x)] ELSE acc
Keeping == INSTANCE Loop WITH Step <- KeepStep
Keep(seq, S) == Keeping!Fold([kept |-> <<>>, of |-> S], seq).kept

EmptyBuffer == [nodes |-> <<>>, edges |-> {}, next |-> 1]

Names(buf) == {n.qn : n \in ToSet(buf.nodes)}
Has(buf, qn) == qn \in Names(buf)
Node(buf, qn) == CHOOSE n \in ToSet(buf.nodes) : n.qn = qn

\* A Module does not take the label of a directory it shares its name with.
KeepLabel(old, new) ==
    IF new = "Module" /\ old \in {"Project", "Folder"} THEN old ELSE new

\* A new node takes the next id.
AppendNode(buf, node) ==
    [buf EXCEPT !.nodes = Append(@, [id |-> buf.next, qn |-> node.qn,
                                     label |-> node.label, file |-> node.file]),
                !.next = @ + 1]

\* Faulty variant: the name is not looked up.
UpsertBlind(buf, node) == AppendNode(buf, node)

\* cbm_gbuf_upsert_node: the last writer owns the node, its id stays.
Upsert(buf, node) ==
    LET Updated(n) == [n EXCEPT !.label = KeepLabel(n.label, node.label),
                                !.file = node.file]
    IN  IF Has(buf, node.qn)
        THEN [buf EXCEPT !.nodes =
                [i \in DOMAIN buf.nodes |->
                    IF buf.nodes[i].qn = node.qn THEN Updated(buf.nodes[i])
                    ELSE buf.nodes[i]]]
        ELSE AppendNode(buf, node)

Upserting == INSTANCE Loop WITH Step <- Upsert
UpsertAll(buf, nodes) == Upserting!Fold(buf, nodes)

\* cbm_gbuf_insert_edge, for a set: an edge that exists costs no id.
Insert(buf, edges) ==
    [buf EXCEPT !.edges = @ \cup edges,
                !.next = @ + Cardinality(edges \ buf.edges)]

\* Edges between names, where both have a node.
LinkAll(buf, edges) ==
    Insert(buf, {[src |-> Node(buf, e.src).id, tgt |-> Node(buf, e.tgt).id,
                  type |-> e.type] :
                   e \in {d \in edges : Has(buf, d.src) /\ Has(buf, d.tgt)}})

\* cbm_gbuf_delete_by_file, for every file of a set, with the edges at the
\* nodes that go.
DeleteByFile(buf, files) ==
    LET gone == {n.id : n \in {m \in ToSet(buf.nodes) : m.file \in files}}
    IN  [buf EXCEPT !.nodes = Keep(@, {n \in ToSet(@) : n.file \notin files}),
                    !.edges = {e \in @ : {e.src, e.tgt} \cap gone = {}}]

\* The nodes of src whose names dst does not have.
Fresh(dst, src) ==
    Keep(src.nodes, {n \in ToSet(src.nodes) : ~Has(dst, n.qn)})

\* The later of an id and the ones that follow ids.
AfterAll(id, ids) ==
    CHOOSE k \in {id} \cup {i + 1 : i \in ids} : id <= k /\ \A i \in ids : i < k

\* Faulty variant: edges keep the ids of the source buffer.
MergeKeepsIds(dst, src) ==
    LET fresh == Fresh(dst, src)
        ids == {n.id : n \in ToSet(fresh)}
    IN  Insert([dst EXCEPT
                  !.nodes = @ \o fresh,
                  !.next = AfterAll(dst.next, ids)],
               src.edges)

\* cbm_gbuf_merge: a node of src whose name dst has takes the id of dst and
\* gives its label and file; the others move over with their ids.
Merge(dst, src) ==
    LET fresh == Fresh(dst, src)
        ids == {n.id : n \in ToSet(fresh)}
        Remap(id) ==
            LET same == {n \in ToSet(src.nodes) : n.id = id /\ Has(dst, n.qn)}
            IN  IF same = {} THEN id
                ELSE Node(dst, (CHOOSE n \in same : TRUE).qn).id
        Updated(n) ==
            IF Has(src, n.qn)
            THEN [n EXCEPT !.label = Node(src, n.qn).label,
                           !.file = Node(src, n.qn).file]
            ELSE n
    IN  Insert([dst EXCEPT
                  !.nodes = [i \in DOMAIN dst.nodes |-> Updated(dst.nodes[i])]
                              \o fresh,
                  !.next = AfterAll(dst.next, ids)],
               {[src |-> Remap(e.src), tgt |-> Remap(e.tgt), type |-> e.type] :
                  e \in src.edges})

\* cbm_gbuf_dump_to_sqlite: nodes in their order, edges between the last
\* nodes with their ids; an edge is left out when an id is not below next.
Dump(buf) ==
    LET At(id) == {i \in DOMAIN buf.nodes :
                     id < buf.next /\ buf.nodes[i].id = id}
        Named(id) == buf.nodes[Max(At(id))].qn
    IN  [nodes |-> [i \in DOMAIN buf.nodes |->
                      [qn |-> buf.nodes[i].qn, label |-> buf.nodes[i].label,
                       file |-> buf.nodes[i].file]],
         edges |-> {[src |-> Named(e.src), tgt |-> Named(e.tgt),
                     type |-> e.type] :
                      e \in {d \in buf.edges :
                               At(d.src) # {} /\ At(d.tgt) # {}}}]

\* cbm_gbuf_load_from_db: ids are dealt again, in the order of the rows.
Load(db) ==
    LET Id(qn) == CHOOSE i \in DOMAIN db.nodes : db.nodes[i].qn = qn
    IN  [nodes |-> [i \in DOMAIN db.nodes |->
                      [id |-> i, qn |-> db.nodes[i].qn,
                       label |-> db.nodes[i].label, file |-> db.nodes[i].file]],
         edges |-> {[src |-> Id(e.src), tgt |-> Id(e.tgt), type |-> e.type] :
                      e \in db.edges},
         next |-> Len(db.nodes) + Cardinality(db.edges) + 1]
=============================================================================
