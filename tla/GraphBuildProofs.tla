-------------------------- MODULE GraphBuildProofs --------------------------
(***************************************************************************)
(* Theorems about GraphBuild.                                              *)
(***************************************************************************)
EXTENDS GraphBuild, FiniteSetTheorems, TLAPS

----------------------------------------------------------------------------
(* Sequences.                                                              *)

\* What Keep has kept of the first k elements: some of them, each in S, in
\* their order, and all that are in S.
Kept(s, S, T, k) ==
    {acc \in [kept : Seq(T), of : {S}] :
        /\ Len(acc.kept) <= k
        /\ \A i \in 1..Len(acc.kept) : acc.kept[i] \in S
        /\ \A j \in 1..k : s[j] \in S =>
              \E i \in 1..Len(acc.kept) : acc.kept[i] = s[j]
        /\ \E h \in [1..Len(acc.kept) -> 1..k] :
              /\ \A i \in 1..Len(acc.kept) : acc.kept[i] = s[h[i]]
              /\ \A i, j \in 1..Len(acc.kept) : i < j => h[i] < h[j]}

\* The step of Keep takes each stage to the next.
LEMMA KeepStepKept ==
    ASSUME NEW T, NEW s \in Seq(T), NEW S, NEW k \in 1..Len(s),
           NEW acc \in Kept(s, S, T, k - 1)
    PROVE  KeepStep(acc, s[k]) \in Kept(s, S, T, k)
<1> DEFINE n == Len(acc.kept)
<1>0. acc \in [kept : Seq(T), of : {S}] /\ n \in Nat /\ n <= k - 1
      /\ s[k] \in T /\ k - 1 \in 0..Len(s)
  BY DEF Kept
<1>1. PICK h \in [1..n -> 1..(k - 1)] :
        /\ \A i \in 1..n : acc.kept[i] = s[h[i]]
        /\ \A i, j \in 1..n : i < j => h[i] < h[j]
  BY DEF Kept
<1>2. CASE s[k] \notin S
  <2>1. KeepStep(acc, s[k]) = acc
    BY <1>0, <1>2 DEF KeepStep
  <2>2. h \in [1..n -> 1..k]
    BY <1>0
  <2>3. \A j \in 1..k : s[j] \in S => j \in 1..(k - 1)
    BY <1>2
  <2> QED
    BY <1>0, <1>1, <2>1, <2>2, <2>3 DEF Kept
<1>3. CASE s[k] \in S
  <2> DEFINE new == Append(acc.kept, s[k])
             g == [i \in 1..(n + 1) |-> IF i = n + 1 THEN k ELSE h[i]]
  <2>1. KeepStep(acc, s[k]) = [kept |-> new, of |-> S]
    BY <1>0, <1>3 DEF KeepStep
  <2>2. /\ new \in Seq(T) /\ Len(new) = n + 1 /\ new[n + 1] = s[k]
        /\ \A i \in 1..n : new[i] = acc.kept[i]
    BY <1>0
  <2>3. g \in [1..(n + 1) -> 1..k]
    BY <1>0, <1>1
  <2>4. \A i \in 1..(n + 1) : new[i] = s[g[i]]
    BY <1>0, <1>1, <2>2
  <2>5. \A i, j \in 1..(n + 1) : i < j => g[i] < g[j]
    <3> SUFFICES ASSUME NEW i \in 1..(n + 1), NEW j \in 1..(n + 1), i < j
                 PROVE  g[i] < g[j]
      OBVIOUS
    <3>0. n \in Nat
      BY <1>0
    <3>4. i \in 1..n
      <4> HIDE DEF n
      <4> QED
        BY <3>0
    <3>1. i \in 1..n /\ g[i] = h[i] /\ h[i] \in 1..(k - 1)
      <4>1. i # n + 1
        <5> HIDE DEF n
        <5> QED
          BY <3>0, <3>4
      <4>2. g[i] = h[i]
        BY <4>1
      <4> HIDE DEF g, n
      <4> QED
        BY <3>4, <4>2, <1>1
    <3>2. CASE j = n + 1
      BY <3>1, <3>2, <1>0
    <3>3. CASE j # n + 1
      <4>0. n \in Nat
        BY <1>0
      <4>1. j \in 1..n
        <5> HIDE DEF n
        <5> QED
          BY <4>0, <3>3
      <4>2. g[j] = h[j]
        BY <3>3
      <4> QED
        BY <3>1, <4>1, <4>2, <1>1
    <3> QED
      BY <3>2, <3>3
  <2>6. \A i \in 1..(n + 1) : new[i] \in S
    <3>1. \A i \in 1..n : acc.kept[i] \in S
      BY DEF Kept
    <3>2. n \in Nat /\ new[n + 1] \in S
      BY <1>0, <1>3, <2>2
    <3>3. \A i \in 1..n : new[i] \in S
      BY <3>1, <2>2
    <3>4. \A i \in 1..(n + 1) : i \in 1..n \/ i = n + 1
      BY <3>2
    <3> HIDE DEF new, n
    <3> QED
      BY <3>2, <3>3, <3>4
  <2>7. \A j \in 1..k : s[j] \in S => \E i \in 1..(n + 1) : new[i] = s[j]
    <3> SUFFICES ASSUME NEW j \in 1..k, s[j] \in S
                 PROVE  \E i \in 1..(n + 1) : new[i] = s[j]
      OBVIOUS
    <3>1. CASE j = k
      BY <3>1, <2>2, <1>0
    <3>2. CASE j # k
      <4>1. j \in 1..(k - 1)
        BY <3>2, <1>0
      <4>2. PICK i \in 1..n : acc.kept[i] = s[j]
        BY <4>1 DEF Kept
      <4> QED
        BY <4>2, <2>2, <1>0
    <3> QED
      BY <3>1, <3>2
  <2> DEFINE acc2 == KeepStep(acc, s[k])
  <2>8. acc2 \in [kept : Seq(T), of : {S}] /\ acc2.kept = new
    BY <2>1, <2>2
  <2>9. Len(new) <= k
    BY <2>2, <1>0
  <2> HIDE DEF new, g, acc2
  <2>10. \E f \in [1..Len(new) -> 1..k] :
            /\ \A i \in 1..Len(new) : new[i] = s[f[i]]
            /\ \A i, j \in 1..Len(new) : i < j => f[i] < f[j]
    BY <2>2, <2>3, <2>4, <2>5
  <2>11. acc2 \in Kept(s, S, T, k)
    BY <2>2, <2>6, <2>7, <2>8, <2>9, <2>10 DEF Kept
  <2> QED
    BY <2>11 DEF acc2
<1> QED
  BY <1>2, <1>3

\* Keep keeps exactly the elements in S, and their order.
LEMMA KeepFacts ==
    ASSUME NEW T, NEW s \in Seq(T), NEW S
    PROVE  /\ Keep(s, S) \in Seq(T)
           /\ Len(Keep(s, S)) <= Len(s)
           /\ \A i \in 1..Len(Keep(s, S)) : Keep(s, S)[i] \in S
           /\ \A j \in 1..Len(s) : s[j] \in S =>
                 \E i \in 1..Len(Keep(s, S)) : Keep(s, S)[i] = s[j]
           /\ \E h \in [1..Len(Keep(s, S)) -> 1..Len(s)] :
                 /\ \A i \in 1..Len(Keep(s, S)) : Keep(s, S)[i] = s[h[i]]
                 /\ \A i, j \in 1..Len(Keep(s, S)) : i < j => h[i] < h[j]
<1> DEFINE base == [kept |-> <<>>, of |-> S]
           Stage == [k \in 0..Len(s) |-> Kept(s, S, T, k)]
<1>1. base \in Stage[0]
  <2>1. base.kept = <<>> /\ Len(base.kept) = 0
    OBVIOUS
  <2>2. base \in [kept : Seq(T), of : {S}]
    OBVIOUS
  <2>3. \E h \in [1..0 -> 1..0] : TRUE
    <3>1. [i \in 1..0 |-> i] \in [1..0 -> 1..0]
      OBVIOUS
    <3> QED
      BY <3>1
  <2> HIDE DEF base
  <2> QED
    BY <2>1, <2>2, <2>3 DEF Kept
<1>2. \A k \in 1..Len(s) : \A b \in Stage[k - 1] : KeepStep(b, s[k]) \in Stage[k]
  BY KeepStepKept
<1>3. Keeping!Fold(base, s) \in Stage[Len(s)]
  <2> HIDE DEF Stage
  <2> QED
    BY <1>1, <1>2, Keeping!FoldStages
<1>4. Keeping!Fold(base, s) \in Kept(s, S, T, Len(s))
  BY <1>3
<1>5. Keep(s, S) = Keeping!Fold(base, s).kept
  BY DEF Keep
<1> HIDE DEF base
<1> QED
  BY <1>4, <1>5 DEF Kept

\* Elements, length and repetitions of what is kept.
LEMMA KeepCorrect ==
    ASSUME NEW T, NEW s \in Seq(T), NEW S
    PROVE  /\ Keep(s, S) \in Seq(T)
           /\ Keep(s, S) \in Seq(S)
           /\ Len(Keep(s, S)) <= Len(s)
           /\ ToSet(Keep(s, S)) = ToSet(s) \cap S
           /\ IsInjective(s) => IsInjective(Keep(s, S))
<1> DEFINE k == Keep(s, S)
<1>1. /\ k \in Seq(T) /\ Len(k) <= Len(s)
      /\ \A i \in 1..Len(k) : k[i] \in S
      /\ \A j \in 1..Len(s) : s[j] \in S => \E i \in 1..Len(k) : k[i] = s[j]
  BY KeepFacts
<1>2. PICK h \in [1..Len(k) -> 1..Len(s)] :
         /\ \A i \in 1..Len(k) : k[i] = s[h[i]]
         /\ \A i, j \in 1..Len(k) : i < j => h[i] < h[j]
  BY KeepFacts
<1> HIDE DEF k
<1>3. k \in Seq(S)
  BY <1>1
<1>4. ToSet(k) = ToSet(s) \cap S
  <2>1. DOMAIN k = 1..Len(k) /\ DOMAIN s = 1..Len(s)
    BY <1>1
  <2>2. ASSUME NEW i \in 1..Len(k) PROVE k[i] \in ToSet(s) \cap S
    BY <1>1, <1>2, <2>1 DEF ToSet
  <2>3. ASSUME NEW j \in 1..Len(s), s[j] \in S PROVE s[j] \in ToSet(k)
    BY <1>1, <2>1, <2>3 DEF ToSet
  <2> QED
    BY <2>1, <2>2, <2>3 DEF ToSet
<1>5. ASSUME IsInjective(s) PROVE IsInjective(k)
  <2> SUFFICES ASSUME NEW i \in 1..Len(k), NEW j \in 1..Len(k), i < j
               PROVE  k[i] # k[j]
    BY <1>1 DEF IsInjective
  <2>1. h[i] \in 1..Len(s) /\ h[j] \in 1..Len(s) /\ h[i] < h[j]
    BY <1>2
  <2> QED
    BY <2>1, <1>2, <1>5 DEF IsInjective
<1> QED
  BY <1>1, <1>3, <1>4, <1>5 DEF k

\* Sequences without repetitions and with the same elements are as long.
LEMMA SameLength ==
    ASSUME NEW T, NEW s \in Seq(T), NEW t \in Seq(T),
           IsInjective(s), IsInjective(t), ToSet(s) = ToSet(t)
    PROVE  Len(s) = Len(t)
<1>1. ASSUME NEW u \in Seq(T), IsInjective(u)
      PROVE  Cardinality(ToSet(u)) = Len(u)
  <2>1. u \in Bijection(1..Len(u), ToSet(u))
    <3>1. u \in [1..Len(u) -> ToSet(u)]
      BY DEF ToSet
    <3> QED
      BY <3>1, <1>1 DEF Bijection, Injection, Surjection, IsInjective, ToSet
  <2>2. ExistsBijection(1..Len(u), ToSet(u))
    BY <2>1 DEF ExistsBijection
  <2> QED
    BY <2>2, FS_CountingElements
<1> QED
  BY <1>1

\* Images of finite sets, and the elements of sequences.
LEMMA FiniteImage ==
    ASSUME NEW S, IsFiniteSet(S), NEW f, f = [x \in S |-> f[x]]
    PROVE  IsFiniteSet({f[x] : x \in S})
<1> DEFINE T == {f[x] : x \in S}
<1>1. f \in Surjection(S, T)
  BY DEF Surjection
<1> QED
  BY <1>1, FS_Surjection

\* The elements of a sequence are finitely many.
LEMMA FiniteRange ==
    ASSUME NEW T, NEW s \in Seq(T)
    PROVE  IsFiniteSet(ToSet(s))
<1>1. s \in Surjection(1..Len(s), ToSet(s))
  BY DEF Surjection, ToSet
<1>2. ExistsSurjection(1..Len(s), ToSet(s))
  BY <1>1 DEF ExistsSurjection
<1> QED
  BY <1>2, FS_NatSurjection

----------------------------------------------------------------------------
(* Buffers: what the calls of the graph buffer keep.                       *)

NodeRecords == [id : Nat, qn : QNames, label : Labels, file : Places]
Unnumbered  == [qn : QNames, label : Labels, file : Places]

\* What is in a file is the file, its module or one of its definitions, and
\* the file is there.
Placed(n, texts) ==
    /\ n.file \in Files => /\ texts[n.file] # Absent
                           /\ n.qn[1] \in {"file", "module", "def"}
    /\ n.qn[1] = "file" => n.file \in Files /\ n.qn = FileName(n.file)
    /\ n.qn[1] = "module" =>
          n.qn = IF n.file \in Files THEN ModuleName(n.file)
                 ELSE FolderName(Directory)
    /\ n.qn[1] = "def" => n.label = "Function"

\* A Function is in a file that declares it, and every node in its place.
Proper(n, texts) == Owned(n, texts) /\ Placed(n, texts)
Pure(b, texts) == \A i \in DOMAIN b.nodes : Proper(b.nodes[i], texts)

\* Ids are given once, and below the next one.
Compact(b) ==
    /\ \A i \in DOMAIN b.nodes : b.nodes[i].id < b.next
    /\ \A i, j \in DOMAIN b.nodes : b.nodes[i].id = b.nodes[j].id => i = j

\* c has the nodes and edges of b and new ones with later ids.
Grows(b, c) ==
    /\ Len(b.nodes) <= Len(c.nodes)
    /\ \A i \in DOMAIN b.nodes :
          c.nodes[i].id = b.nodes[i].id /\ c.nodes[i].qn = b.nodes[i].qn
    /\ \A i \in DOMAIN c.nodes : i \notin DOMAIN b.nodes => c.nodes[i].id >= b.next
    /\ b.edges \subseteq c.edges
    /\ b.next <= c.next

\* The new names are of some kinds only.
Adds(b, c, kinds) ==
    \A i \in DOMAIN c.nodes :
        i \notin DOMAIN b.nodes => c.nodes[i].qn[1] \in kinds

\* What every pass makes of a buffer.
Leads(b, c, kinds, texts) ==
    /\ c \in Buffers
    /\ Grows(b, c)
    /\ Adds(b, c, kinds)
    /\ Compact(b) => Compact(c)
    /\ Pure(b, texts) => Pure(c, texts)

\* A buffer after an assignment to its fields.
IsBuffer(c, N, n, E, e, k) ==
    /\ c \in [nodes : N, edges : E, next : Nat]
    /\ c.nodes = n /\ c.edges = e /\ c.next = k

\* What EXCEPT makes of a buffer, for the provers.
LEMMA RecordUpdate ==
    ASSUME NEW N, NEW E, NEW b \in [nodes : N, edges : E, next : Nat],
           NEW n \in N, NEW e \in E, NEW k \in Nat
    PROVE  /\ IsBuffer([b EXCEPT !.nodes = n, !.next = k], N, n, E, b.edges, k)
           /\ IsBuffer([b EXCEPT !.edges = e, !.next = k], N, b.nodes, E, e, k)
           /\ IsBuffer([b EXCEPT !.nodes = n], N, n, E, b.edges, b.next)
           /\ IsBuffer([b EXCEPT !.next = k], N, b.nodes, E, b.edges, k)
           /\ IsBuffer([b EXCEPT !.nodes = n, !.edges = e], N, n, E, e, b.next)
<1>1. IsBuffer([b EXCEPT !.nodes = n, !.next = k], N, n, E, b.edges, k)
  BY DEF IsBuffer
<1>2. IsBuffer([b EXCEPT !.edges = e, !.next = k], N, b.nodes, E, e, k)
  BY DEF IsBuffer
<1>3. IsBuffer([b EXCEPT !.nodes = n], N, n, E, b.edges, b.next)
  BY DEF IsBuffer
<1>4. IsBuffer([b EXCEPT !.next = k], N, b.nodes, E, b.edges, k)
  BY DEF IsBuffer
<1>5. IsBuffer([b EXCEPT !.nodes = n, !.edges = e], N, n, E, e, b.next)
  BY DEF IsBuffer
<1> QED
  BY <1>1, <1>2, <1>3, <1>4, <1>5

\* What membership in Buffers says, part by part.
LEMMA BufferShape ==
    ASSUME NEW b \in Buffers
    PROVE  /\ b \in [nodes : Seq(NodeRecords), edges : SUBSET Edges(Nat), next : Nat]
           /\ DOMAIN b.nodes = 1..Len(b.nodes)
           /\ Len(b.nodes) \in Nat
           /\ \A i \in DOMAIN b.nodes : b.nodes[i] \in NodeRecords
           /\ OneNodePerName(b.nodes) /\ IsFiniteSet(b.edges)
<1>1. /\ b \in [nodes : Seq(NodeRecords), edges : SUBSET Edges(Nat), next : Nat]
      /\ OneNodePerName(b.nodes) /\ IsFiniteSet(b.edges)
  BY DEF Buffers, NodeRecords
<1>2. b.nodes \in Seq(NodeRecords)
  BY <1>1
<1> QED
  BY <1>1, <1>2

\* A pass that does nothing.
LEMMA LeadsReflexive ==
    ASSUME NEW b \in Buffers, NEW kinds, NEW texts
    PROVE  Leads(b, b, kinds, texts)
BY BufferShape DEF Leads, Grows, Adds

\* Passes one after the other only add.
LEMMA GrowsTransitive ==
    ASSUME NEW b \in Buffers, NEW c \in Buffers, NEW d \in Buffers,
           Grows(b, c), Grows(c, d)
    PROVE  Grows(b, d)
<1>1. /\ DOMAIN b.nodes = 1..Len(b.nodes) /\ Len(b.nodes) \in Nat
      /\ DOMAIN c.nodes = 1..Len(c.nodes) /\ Len(c.nodes) \in Nat
      /\ DOMAIN d.nodes = 1..Len(d.nodes) /\ Len(d.nodes) \in Nat
      /\ b.next \in Nat /\ c.next \in Nat /\ d.next \in Nat
  BY BufferShape
<1>2. Len(b.nodes) <= Len(c.nodes) /\ Len(c.nodes) <= Len(d.nodes)
  BY DEF Grows
<1>3. DOMAIN b.nodes \subseteq DOMAIN c.nodes
  BY <1>1, <1>2
<1>4. \A i \in DOMAIN d.nodes : d.nodes[i].id \in Nat
  BY BufferShape DEF NodeRecords
<1>5. \A i \in DOMAIN b.nodes :
         d.nodes[i].id = b.nodes[i].id /\ d.nodes[i].qn = b.nodes[i].qn
  BY <1>3 DEF Grows
<1>6. ASSUME NEW i \in DOMAIN d.nodes, i \notin DOMAIN b.nodes
      PROVE  d.nodes[i].id >= b.next
  <2>1. CASE i \in DOMAIN c.nodes
    BY <1>6, <2>1 DEF Grows
  <2>2. CASE i \notin DOMAIN c.nodes
    <3>1. d.nodes[i].id >= c.next /\ b.next <= c.next
      BY <2>2 DEF Grows
    <3> QED
      BY <3>1, <1>1, <1>4
  <2> QED
    BY <2>1, <2>2
<1>7. b.edges \subseteq d.edges /\ b.next <= d.next
  BY <1>1 DEF Grows
<1> QED
  BY <1>1, <1>2, <1>5, <1>6, <1>7 DEF Grows

\* Two passes of the given kinds of names are one.
LEMMA LeadsTransitive ==
    ASSUME NEW b \in Buffers, NEW c, NEW d, NEW A, NEW B, NEW kinds, NEW texts,
           A \subseteq kinds, B \subseteq kinds,
           Leads(b, c, A, texts), Leads(c, d, B, texts)
    PROVE  Leads(b, d, kinds, texts)
<1>1. c \in Buffers /\ d \in Buffers /\ Grows(b, c) /\ Grows(c, d)
  BY DEF Leads
<1>2. Adds(b, d, kinds)
  <2> SUFFICES ASSUME NEW i \in DOMAIN d.nodes, i \notin DOMAIN b.nodes
               PROVE  d.nodes[i].qn[1] \in kinds
    BY DEF Adds
  <2>1. CASE i \in DOMAIN c.nodes
    BY <2>1 DEF Leads, Adds, Grows
  <2>2. CASE i \notin DOMAIN c.nodes
    BY <2>2 DEF Leads, Adds
  <2> QED
    BY <2>1, <2>2
<1> QED
  BY <1>1, <1>2, GrowsTransitive DEF Leads

\* A name leads to the one node that has it.
LEMMA NodeOfName ==
    ASSUME NEW b \in Buffers
    PROVE  /\ \A i \in DOMAIN b.nodes :
                 Has(b, b.nodes[i].qn) /\ Node(b, b.nodes[i].qn) = b.nodes[i]
           /\ \A qn : Has(b, qn) =>
                 \E i \in DOMAIN b.nodes :
                    b.nodes[i].qn = qn /\ Node(b, qn) = b.nodes[i]
<1>1. \A qn : Has(b, qn) <=> \E i \in DOMAIN b.nodes : b.nodes[i].qn = qn
  BY DEF Has, Names, ToSet
<1>2. ASSUME NEW i \in DOMAIN b.nodes
      PROVE  Node(b, b.nodes[i].qn) = b.nodes[i]
  <2>1. b.nodes[i] \in ToSet(b.nodes)
    BY DEF ToSet
  <2>2. \A n \in ToSet(b.nodes) : n.qn = b.nodes[i].qn => n = b.nodes[i]
    BY BufferShape DEF ToSet, OneNodePerName
  <2> QED
    BY <2>1, <2>2 DEF Node
<1> QED
  BY <1>1, <1>2

\* A buffer that grows loses no name, and a name keeps its id.
LEMMA GrowsKeepsNames ==
    ASSUME NEW b \in Buffers, NEW c \in Buffers, Grows(b, c)
    PROVE  \A qn : Has(b, qn) => Has(c, qn) /\ Node(c, qn).id = Node(b, qn).id
<1> SUFFICES ASSUME NEW qn, Has(b, qn)
             PROVE  Has(c, qn) /\ Node(c, qn).id = Node(b, qn).id
  OBVIOUS
<1>1. PICK i \in DOMAIN b.nodes : b.nodes[i].qn = qn /\ Node(b, qn) = b.nodes[i]
  BY NodeOfName
<1>2. i \in DOMAIN c.nodes
  BY BufferShape DEF Grows
<1>3. c.nodes[i].id = b.nodes[i].id /\ c.nodes[i].qn = qn
  BY <1>1 DEF Grows
<1> QED
  BY <1>1, <1>2, <1>3, NodeOfName

\* Upsert makes a Function of what is offered as one, and of nothing else.
LEMMA LabelKept ==
    ASSUME NEW old \in Labels, NEW new \in Labels
    PROVE  /\ KeepLabel(old, new) \in Labels
           /\ KeepLabel(old, new) = "Function" <=> new = "Function"
BY DEF KeepLabel, Labels

\* A new node, with the next id.
LEMMA AppendNodeLeads ==
    ASSUME NEW b \in Buffers, NEW node \in Unnumbered, ~Has(b, node.qn), NEW texts,
           Proper(node, texts)
    PROVE  /\ Leads(b, AppendNode(b, node), {node.qn[1]}, texts)
           /\ Has(AppendNode(b, node), node.qn)
           /\ AppendNode(b, node).edges = b.edges
<1> DEFINE new == [id |-> b.next, qn |-> node.qn, label |-> node.label,
                   file |-> node.file]
           c == AppendNode(b, node)
           k == Len(b.nodes)
<1>0. /\ b \in [nodes : Seq(NodeRecords), edges : SUBSET Edges(Nat), next : Nat]
      /\ DOMAIN b.nodes = 1..k /\ k \in Nat /\ b.next \in Nat
      /\ \A i \in DOMAIN b.nodes : b.nodes[i] \in NodeRecords
      /\ OneNodePerName(b.nodes) /\ IsFiniteSet(b.edges)
  BY BufferShape
<1>1. new \in NodeRecords
  BY <1>0 DEF NodeRecords, Unnumbered
<1>2. c.nodes = Append(b.nodes, new) /\ c.edges = b.edges /\ c.next = b.next + 1
      /\ c \in [nodes : Seq(NodeRecords), edges : SUBSET Edges(Nat), next : Nat]
  <2>1. Append(b.nodes, new) \in Seq(NodeRecords)
    BY <1>0, <1>1
  <2>2. c = [b EXCEPT !.nodes = Append(b.nodes, new), !.next = b.next + 1]
    BY DEF AppendNode
  <2>3. b.next + 1 \in Nat
    BY <1>0
  <2> HIDE DEF new, c
  <2> QED
    BY <1>0, <2>1, <2>2, <2>3, RecordUpdate DEF IsBuffer
<1> HIDE DEF c
<1>3. /\ DOMAIN c.nodes = 1..(k + 1) /\ Len(c.nodes) = k + 1
      /\ c.nodes[k + 1] = new
      /\ \A i \in 1..k : c.nodes[i] = b.nodes[i]
  BY <1>0, <1>1, <1>2
<1>4. \A i \in DOMAIN c.nodes : i \notin 1..k => i = k + 1
  BY <1>0, <1>3
<1>5. \A i \in 1..k : b.nodes[i].qn # node.qn
  BY <1>0 DEF Has, Names, ToSet
<1>6. OneNodePerName(c.nodes)
  <2> SUFFICES ASSUME NEW i \in DOMAIN c.nodes, NEW j \in DOMAIN c.nodes,
                      c.nodes[i].qn = c.nodes[j].qn
               PROVE  i = j
    BY DEF OneNodePerName
  <2> QED
    BY <1>0, <1>3, <1>4, <1>5 DEF OneNodePerName
<1>7. c \in Buffers
  BY <1>0, <1>2, <1>6 DEF Buffers, NodeRecords
<1>8. Grows(b, c) /\ Adds(b, c, {node.qn[1]})
  BY <1>0, <1>2, <1>3, <1>4 DEF Grows, Adds
<1>9. ASSUME Compact(b) PROVE Compact(c)
  <2>1. \A i \in 1..k : b.nodes[i].id \in Nat /\ b.nodes[i].id < b.next
    BY <1>0, <1>9 DEF Compact, NodeRecords
  <2>2. \A i \in DOMAIN c.nodes : c.nodes[i].id < c.next
    BY <1>0, <1>2, <1>3, <1>4, <2>1
  <2>3. ASSUME NEW i \in DOMAIN c.nodes, NEW j \in DOMAIN c.nodes,
               c.nodes[i].id = c.nodes[j].id
        PROVE  i = j
    BY <1>0, <1>2, <1>3, <1>4, <1>9, <2>1, <2>3 DEF Compact
  <2> QED
    BY <2>2, <2>3 DEF Compact
<1>10. Proper(new, texts)
  BY DEF Proper, Owned, Placed
<1>11. Pure(b, texts) => Pure(c, texts)
  BY <1>0, <1>3, <1>4, <1>10 DEF Pure
<1>12. Has(c, node.qn)
  BY <1>3, <1>0 DEF Has, Names, ToSet
<1> QED
  BY <1>2, <1>7, <1>8, <1>9, <1>11, <1>12 DEF Leads, c

\* cbm_gbuf_upsert_node keeps every node and its id; the name has one.
LEMMA UpsertLeads ==
    ASSUME NEW b \in Buffers, NEW node \in Unnumbered, NEW texts,
           Proper(node, texts)
    PROVE  /\ Leads(b, Upsert(b, node), {node.qn[1]}, texts)
           /\ Has(Upsert(b, node), node.qn)
           /\ Upsert(b, node).edges = b.edges
<1> DEFINE c == Upsert(b, node)
           k == Len(b.nodes)
           upd(n) == [n EXCEPT !.label = KeepLabel(n.label, node.label),
                               !.file = node.file]
<1>1. CASE ~Has(b, node.qn)
  BY <1>1, AppendNodeLeads DEF Upsert
<1>2. CASE Has(b, node.qn)
  <2>0. /\ b \in [nodes : Seq(NodeRecords), edges : SUBSET Edges(Nat), next : Nat]
        /\ DOMAIN b.nodes = 1..k /\ k \in Nat /\ b.next \in Nat
        /\ \A i \in DOMAIN b.nodes : b.nodes[i] \in NodeRecords
        /\ OneNodePerName(b.nodes) /\ IsFiniteSet(b.edges)
    BY BufferShape
  <2>1. ASSUME NEW n \in NodeRecords
        PROVE  /\ upd(n) \in NodeRecords
               /\ upd(n).id = n.id /\ upd(n).qn = n.qn
               /\ upd(n).file = node.file
               /\ upd(n).label = KeepLabel(n.label, node.label)
    <3>1. KeepLabel(n.label, node.label) \in Labels /\ node.file \in Places
      BY LabelKept DEF NodeRecords, Unnumbered
    <3> QED
      BY <3>1 DEF NodeRecords
  <2> DEFINE nodes == [i \in DOMAIN b.nodes |->
                          IF b.nodes[i].qn = node.qn THEN upd(b.nodes[i])
                          ELSE b.nodes[i]]
  <2>2. c = [b EXCEPT !.nodes = nodes]
    BY <1>2 DEF Upsert
  <2>3. \A i \in 1..k : nodes[i] = IF b.nodes[i].qn = node.qn THEN upd(b.nodes[i])
                                   ELSE b.nodes[i]
    BY <2>0
  <2>4. \A i \in 1..k : nodes[i] \in NodeRecords
    BY <2>0, <2>1, <2>3
  <2>5. nodes \in Seq(NodeRecords) /\ Len(nodes) = k /\ DOMAIN nodes = 1..k
    <3>1. DOMAIN nodes = 1..k /\ nodes = [i \in 1..k |-> nodes[i]]
      BY <2>0
    <3> HIDE DEF nodes
    <3>2. nodes \in [1..k -> NodeRecords]
      BY <2>4, <3>1
    <3> QED
      BY <3>2, <2>0
  <2>6. \A i \in 1..k : nodes[i].id = b.nodes[i].id /\ nodes[i].qn = b.nodes[i].qn
    BY <2>0, <2>1, <2>3
  <2> HIDE DEF nodes, upd
  <2>7. /\ c.nodes = nodes /\ c.edges = b.edges /\ c.next = b.next
        /\ c \in [nodes : Seq(NodeRecords), edges : SUBSET Edges(Nat), next : Nat]
    BY <2>0, <2>2, <2>5
  <2> HIDE DEF c
  <2>8. OneNodePerName(c.nodes)
    BY <2>0, <2>5, <2>6, <2>7 DEF OneNodePerName
  <2>9. c \in Buffers
    BY <2>0, <2>7, <2>8 DEF Buffers, NodeRecords
  <2>10. Grows(b, c) /\ Adds(b, c, {node.qn[1]}) /\ (Compact(b) => Compact(c))
    BY <2>0, <2>5, <2>6, <2>7 DEF Grows, Adds, Compact
  <2>11. ASSUME Pure(b, texts) PROVE Pure(c, texts)
    <3> SUFFICES ASSUME NEW i \in 1..k PROVE Proper(nodes[i], texts)
      BY <2>5, <2>7 DEF Pure
    <3>1. CASE b.nodes[i].qn # node.qn
      BY <3>1, <2>3, <2>0, <2>11 DEF Pure
    <3>2. CASE b.nodes[i].qn = node.qn
      <4>1. b.nodes[i] \in NodeRecords /\ nodes[i] = upd(b.nodes[i])
        BY <3>2, <2>3, <2>0
      <4>2. /\ nodes[i].qn = node.qn /\ nodes[i].file = node.file
            /\ nodes[i].label = KeepLabel(b.nodes[i].label, node.label)
        BY <4>1, <2>1, <3>2
      <4>3. nodes[i].label = "Function" <=> node.label = "Function"
        BY <4>1, <4>2, LabelKept DEF NodeRecords, Unnumbered
      <4> QED
        BY <4>2, <4>3 DEF Proper, Owned, Placed
    <3> QED
      BY <3>1, <3>2
  <2>12. Has(c, node.qn)
    <3>1. PICK i \in DOMAIN b.nodes : b.nodes[i].qn = node.qn
      BY <1>2 DEF Has, Names, ToSet
    <3>2. i \in DOMAIN c.nodes /\ c.nodes[i].qn = node.qn
      BY <3>1, <2>0, <2>5, <2>6, <2>7
    <3> QED
      BY <3>2 DEF Has, Names, ToSet
  <2> QED
    BY <2>7, <2>9, <2>10, <2>11, <2>12 DEF Leads, c
<1> QED
  BY <1>1, <1>2

\* cbm_gbuf_insert_edge leaves the nodes alone.
LEMMA InsertLeads ==
    ASSUME NEW b \in Buffers, NEW E \in SUBSET Edges(Nat), IsFiniteSet(E),
           NEW texts
    PROVE  /\ Leads(b, Insert(b, E), {}, texts)
           /\ Insert(b, E).nodes = b.nodes
           /\ Insert(b, E).edges = b.edges \cup E
<1> DEFINE c == Insert(b, E)
<1>0. /\ b \in [nodes : Seq(NodeRecords), edges : SUBSET Edges(Nat), next : Nat]
      /\ OneNodePerName(b.nodes) /\ IsFiniteSet(b.edges)
      /\ \A i \in DOMAIN b.nodes : b.nodes[i].id \in Nat
      /\ b.next \in Nat
  BY BufferShape DEF NodeRecords
<1>1. Cardinality(E \ b.edges) \in Nat
  <2>1. IsFiniteSet(E \ b.edges)
    BY FS_Subset
  <2> QED
    BY <2>1, FS_CardinalityType
<1>2. IsFiniteSet(b.edges \cup E)
  BY <1>0, FS_Union
<1>3. c = [b EXCEPT !.edges = b.edges \cup E,
                    !.next = b.next + Cardinality(E \ b.edges)]
  BY DEF Insert
<1> HIDE DEF c
<1>4. /\ c.nodes = b.nodes /\ c.edges = b.edges \cup E
      /\ c.next = b.next + Cardinality(E \ b.edges)
      /\ c \in [nodes : Seq(NodeRecords), edges : SUBSET Edges(Nat), next : Nat]
  <2>1. b.edges \cup E \in SUBSET Edges(Nat)
        /\ b.next + Cardinality(E \ b.edges) \in Nat
    BY <1>0, <1>1
  <2> QED
    BY <1>0, <1>3, <2>1, RecordUpdate DEF IsBuffer
<1>5. c \in Buffers
  BY <1>0, <1>2, <1>4 DEF Buffers, NodeRecords
<1>6. c.next \in Nat /\ b.next <= c.next
  BY <1>0, <1>1, <1>4
<1>7. Len(b.nodes) \in Nat
  BY <1>0
<1>8. Grows(b, c) /\ Adds(b, c, {}) /\ (Pure(b, texts) => Pure(c, texts))
  BY <1>4, <1>6, <1>7 DEF Grows, Adds, Pure
<1>9. ASSUME Compact(b) PROVE Compact(c)
  <2>1. \A i \in DOMAIN b.nodes : b.nodes[i].id < c.next
    BY <1>0, <1>6, <1>9 DEF Compact
  <2> QED
    BY <2>1, <1>4, <1>9 DEF Compact
<1> QED
  BY <1>4, <1>5, <1>8, <1>9 DEF Leads, c

\* The edge an edge between names stands for.
EdgeIn(b, e) == [src |-> Node(b, e.src).id, tgt |-> Node(b, e.tgt).id,
                 type |-> e.type]

\* Linking by names adds the edges whose ends have nodes.
LEMMA LinkAllLeads ==
    ASSUME NEW b \in Buffers, NEW E \in SUBSET Edges(QNames), IsFiniteSet(E),
           NEW texts
    PROVE  /\ Leads(b, LinkAll(b, E), {}, texts)
           /\ LinkAll(b, E).nodes = b.nodes
           /\ LinkAll(b, E).edges = b.edges \cup
                {EdgeIn(b, e) : e \in {d \in E : Has(b, d.src) /\ Has(b, d.tgt)}}
<1> DEFINE D == {d \in E : Has(b, d.src) /\ Has(b, d.tgt)}
           F == {EdgeIn(b, e) : e \in D}
<1>1. IsFiniteSet(F)
  <2> DEFINE f == [e \in D |-> EdgeIn(b, e)]
  <2>1. IsFiniteSet(D)
    BY FS_Subset
  <2>2. F = {f[e] : e \in D}
    OBVIOUS
  <2>3. f = [e \in D |-> f[e]]
    OBVIOUS
  <2> HIDE DEF f, F, D
  <2> QED
    BY <2>1, <2>2, <2>3, FiniteImage
<1>2. F \in SUBSET Edges(Nat)
  <2> SUFFICES ASSUME NEW e \in D PROVE EdgeIn(b, e) \in Edges(Nat)
    OBVIOUS
  <2>1. e.type \in Types
    BY DEF Edges
  <2>2. \A qn : Has(b, qn) => Node(b, qn).id \in Nat
    BY NodeOfName, BufferShape DEF NodeRecords
  <2> QED
    BY <2>1, <2>2 DEF EdgeIn, Edges
<1>3. LinkAll(b, E) = Insert(b, F)
  BY DEF LinkAll, EdgeIn
<1> HIDE DEF F
<1>4. /\ Leads(b, Insert(b, F), {}, texts)
      /\ Insert(b, F).nodes = b.nodes
      /\ Insert(b, F).edges = b.edges \cup F
  BY <1>1, <1>2, InsertLeads
<1> QED
  BY <1>3, <1>4 DEF F

\* The same for a loop of upserts, which leaves every name it is given.
LEMMA UpsertAllLeads ==
    ASSUME NEW b \in Buffers, NEW nodes \in Seq(Unnumbered), NEW kinds, NEW texts,
           \A i \in DOMAIN nodes : Proper(nodes[i], texts) /\ nodes[i].qn[1] \in kinds
    PROVE  /\ Leads(b, UpsertAll(b, nodes), kinds, texts)
           /\ \A i \in DOMAIN nodes : Has(UpsertAll(b, nodes), nodes[i].qn)
           /\ UpsertAll(b, nodes).edges = b.edges
<1> DEFINE Good(k) == {c \in Buffers : /\ Leads(b, c, kinds, texts)
                                       /\ \A i \in 1..k : Has(c, nodes[i].qn)
                                       /\ c.edges = b.edges}
           Stage == [k \in 0..Len(nodes) |-> Good(k)]
<1>1. b \in Stage[0]
  BY LeadsReflexive
<1>2. ASSUME NEW k \in 1..Len(nodes), NEW c \in Stage[k - 1]
      PROVE  Upsert(c, nodes[k]) \in Stage[k]
  <2>1. c \in Good(k - 1) /\ k \in DOMAIN nodes
    OBVIOUS
  <2>2. nodes[k] \in Unnumbered /\ Proper(nodes[k], texts)
        /\ {nodes[k].qn[1]} \subseteq kinds
    BY <2>1
  <2> DEFINE d == Upsert(c, nodes[k])
  <2>3. Leads(c, d, {nodes[k].qn[1]}, texts) /\ Has(d, nodes[k].qn)
        /\ d.edges = c.edges
    BY <2>1, <2>2, UpsertLeads
  <2> HIDE DEF d
  <2>4. Leads(b, d, kinds, texts)
    BY <2>1, <2>2, <2>3, LeadsTransitive
  <2>5. d \in Buffers /\ Grows(c, d)
    BY <2>3 DEF Leads
  <2>6. \A i \in 1..(k - 1) : Has(d, nodes[i].qn)
    BY <2>1, <2>5, GrowsKeepsNames
  <2>7. \A i \in 1..k : i = k \/ i \in 1..(k - 1)
    OBVIOUS
  <2>8. d \in Good(k)
    BY <2>1, <2>3, <2>4, <2>5, <2>6, <2>7
  <2> QED
    BY <2>8 DEF d
<1>3. Upserting!Fold(b, nodes) \in Stage[Len(nodes)]
  <2> HIDE DEF Stage
  <2> QED
    BY <1>1, <1>2, Upserting!FoldStages
<1>4. UpsertAll(b, nodes) \in Good(Len(nodes))
  BY <1>3 DEF UpsertAll
<1> QED
  BY <1>4

----------------------------------------------------------------------------
(* The passes, on a buffer.                                                *)

Present == {f \in Files : text[f] # Absent}
TextOK  == text \in [Files -> Texts \cup {Absent}]

\* The text of a file that exists is one of Texts.
LEMMA TextFacts ==
    ASSUME TextOK, NEW f \in Present
    PROVE  /\ f \in Files /\ text[f] \in Texts
           /\ text[f].defs \in Seq(Symbols)
           /\ text[f].channels \in Seq(Channels)
           /\ text[f].routes \in Seq(Routes)
<1>1. f \in Files /\ text[f] \in Texts
  BY DEF Present, TextOK
<1>2. /\ text[f].channels \in Seq(Range(text[f].channels))
      /\ text[f].routes \in Seq(Range(text[f].routes))
      /\ text[f].defs \in Seq(Range(text[f].defs))
  BY <1>1, TextsAssumption
<1>3. /\ Range(text[f].channels) \subseteq Channels
      /\ Range(text[f].routes) \subseteq Routes
      /\ Range(text[f].defs) \subseteq Symbols
  BY <1>1 DEF Channels, Routes, Symbols
<1>4. ASSUME NEW A, NEW B, NEW s \in Seq(A), A \subseteq B
      PROVE  s \in Seq(B)
  BY <1>4
<1> QED
  BY <1>1, <1>2, <1>3, <1>4

\* The names the passes make are qualified names.
LEMMA NamesTyped ==
    /\ ProjectName \in QNames /\ FolderName(Directory) \in QNames
    /\ \A f \in Files : ModuleName(f) \in QNames /\ FileName(f) \in QNames
    /\ \A f \in Files, d \in Symbols : DefName(f, d) \in QNames
    /\ \A r \in Routes : RouteName(r) \in QNames
    /\ \A c \in Channels : ChannelName(c) \in QNames
BY DEF QNames

\* The first component tells the kinds of names apart.
LEMMA Kinds ==
    /\ ProjectName[1] = "project"
    /\ \A m : FolderName(m)[1] = "module"
    /\ \A f : ModuleName(f)[1] = "module" /\ FileName(f)[1] = "file"
    /\ \A f, d : DefName(f, d)[1] = "def"
    /\ \A r : RouteName(r)[1] = "route"
    /\ \A c : ChannelName(c)[1] = "channel"
BY DEF ProjectName, FolderName, ModuleName, FileName, DefName, RouteName,
       ChannelName

\* The nodes of files and of the folder.
LEMMA StructureTyped ==
    /\ \A f \in Present :
          /\ FileNode(f) \in Unnumbered /\ Proper(FileNode(f), text)
          /\ FileNode(f).qn = FileName(f) /\ FileName(f)[1] = "file"
          /\ FileName(f) \in QNames
    /\ FolderNode \in Unnumbered /\ Proper(FolderNode, text)
    /\ FolderNode.qn = FolderName(Directory) /\ FolderNode.qn[1] = "module"
    /\ FolderName(Directory) \in QNames
<1>1. ASSUME NEW f \in Present
      PROVE  /\ FileNode(f) \in Unnumbered /\ Proper(FileNode(f), text)
             /\ FileNode(f).qn = FileName(f) /\ FileName(f)[1] = "file"
             /\ FileName(f) \in QNames
  <2>1. f \in Files /\ f \in Places /\ text[f] # Absent
    BY DEF Present, Places
  <2>2. FileNode(f) \in Unnumbered /\ FileName(f) \in QNames
    BY <2>1, NamesTyped DEF FileNode, Unnumbered, Labels
  <2>3. /\ FileNode(f).qn = FileName(f) /\ FileNode(f).file = f
        /\ FileNode(f).label = "File" /\ FileName(f)[1] = "file"
    BY Kinds DEF FileNode
  <2>4. Proper(FileNode(f), text)
    BY <2>1, <2>3 DEF Proper, Owned, Placed
  <2> QED
    BY <2>2, <2>3, <2>4
<1>2. /\ FolderNode \in Unnumbered /\ Proper(FolderNode, text)
      /\ FolderNode.qn = FolderName(Directory) /\ FolderNode.qn[1] = "module"
      /\ FolderName(Directory) \in QNames
  <2>1. Directory \in Places /\ Directory \notin Files
    BY FilesAssumption DEF Places
  <2>2. FolderNode \in Unnumbered /\ FolderName(Directory) \in QNames
    BY <2>1, NamesTyped DEF FolderNode, Unnumbered, Labels
  <2>3. /\ FolderNode.qn = FolderName(Directory) /\ FolderNode.file = Directory
        /\ FolderNode.label = "Folder" /\ FolderNode.qn[1] = "module"
    BY Kinds DEF FolderNode
  <2>4. Proper(FolderNode, text)
    BY <2>1, <2>3 DEF Proper, Owned, Placed
  <2> QED
    BY <2>2, <2>3, <2>4
<1> QED
  BY <1>1, <1>2

\* A file declares the names of its definitions.
LEMMA DeclaredTyped ==
    ASSUME TextOK, NEW f \in Present
    PROVE  /\ Declared(f, text[f]) \in Seq(QNames)
           /\ Len(Declared(f, text[f])) = Len(text[f].defs)
           /\ DOMAIN Declared(f, text[f]) = DOMAIN text[f].defs
           /\ \A i \in DOMAIN text[f].defs :
                 /\ text[f].defs[i] \in ToSet(text[f].defs)
                 /\ Declared(f, text[f])[i] = DefName(f, text[f].defs[i])
<1> DEFINE s == text[f].defs
<1>1. /\ f \in Files /\ text[f] \in Texts /\ s \in Seq(Symbols)
      /\ DOMAIN s = 1..Len(s) /\ Len(s) \in Nat
  BY TextFacts
<1>2. \A i \in DOMAIN s : s[i] \in ToSet(s) /\ s[i] \in Symbols
  BY <1>1 DEF ToSet
<1>3. \A i \in DOMAIN s : DefName(f, s[i]) \in QNames
  BY <1>1, <1>2, NamesTyped
<1>4. Declared(f, text[f]) = [i \in 1..Len(s) |-> DefName(f, s[i])]
  BY <1>1 DEF Declared
<1>5. Declared(f, text[f]) \in Seq(QNames) /\ Len(Declared(f, text[f])) = Len(s)
  <2> HIDE DEF s
  <2>1. Declared(f, text[f]) \in [1..Len(s) -> QNames]
    BY <1>1, <1>3, <1>4
  <2> QED
    BY <2>1, <1>1
<1> QED
  BY <1>1, <1>2, <1>4, <1>5

\* The definitions of a file are nodes of its own, modules and functions.
LEMMA DefsTyped ==
    ASSUME TextOK, NEW f \in Present
    PROVE  /\ Defs(f, text[f]) \in Seq(Unnumbered)
           /\ \A i \in DOMAIN Defs(f, text[f]) : /\ Proper(Defs(f, text[f])[i], text)
                                        /\ Defs(f, text[f])[i].qn[1] \in {"module", "def"}
<1> DEFINE first == [label |-> "Module", qn |-> ModuleName(f), file |-> f]
           rest == [i \in DOMAIN text[f].defs |->
                      [label |-> "Function", qn |-> Declared(f, text[f])[i], file |-> f]]
           n == Len(text[f].defs)
<1>1. f \in Files /\ f \in Places /\ text[f] # Absent
  BY DEF Present, Places
<1>2. first \in Unnumbered /\ Proper(first, text) /\ first.qn[1] = "module"
  BY <1>1, NamesTyped, Kinds DEF Unnumbered, Labels, Proper, Owned, Placed
<1>3. DOMAIN text[f].defs = 1..n /\ n \in Nat
  BY TextFacts
<1>4. ASSUME NEW i \in 1..n
      PROVE  /\ rest[i] \in Unnumbered /\ Proper(rest[i], text)
             /\ rest[i].qn[1] = "def"
  <2>1. /\ rest[i] = [label |-> "Function", qn |-> Declared(f, text[f])[i], file |-> f]
        /\ Declared(f, text[f])[i] = DefName(f, text[f].defs[i])
        /\ Declared(f, text[f])[i] \in QNames
        /\ text[f].defs[i] \in ToSet(text[f].defs)
    BY <1>3, DeclaredTyped
  <2>2. rest[i] \in Unnumbered
    BY <1>1, <2>1 DEF Unnumbered, Labels
  <2> HIDE DEF rest
  <2>3. rest[i].qn = DefName(f, text[f].defs[i]) /\ rest[i].file = f
    BY <2>1
  <2>4. rest[i].qn[1] = "def" /\ Owned(rest[i], text)
    BY <1>1, <2>1, <2>3, Kinds DEF Owned
  <2>5. Placed(rest[i], text)
    BY <1>1, <2>1, <2>3, <2>4 DEF Placed
  <2> QED
    BY <2>2, <2>4, <2>5 DEF Proper
<1>5. rest \in [1..n -> Unnumbered]
  <2>1. rest = [i \in 1..n |-> rest[i]]
    BY <1>3
  <2> HIDE DEF rest
  <2> QED
    BY <1>4, <2>1
<1> HIDE DEF first, rest
<1>6. rest \in Seq(Unnumbered) /\ Len(rest) = n /\ DOMAIN rest = 1..n
  BY <1>3, <1>5
<1>7. Defs(f, text[f]) = <<first>> \o rest
  BY DEF Defs, first, rest
<1> DEFINE all == Defs(f, text[f])
<1>8. /\ all \in Seq(Unnumbered)
      /\ DOMAIN all = 1..(n + 1)
      /\ all[1] = first
      /\ \A i \in 2..(n + 1) : all[i] = rest[i - 1] /\ i - 1 \in 1..n
  <2> HIDE DEF all, n
  <2>1. all = <<first>> \o rest
    BY <1>7 DEF all
  <2>2. <<first>> \in Seq(Unnumbered) /\ Len(<<first>>) = 1 /\ <<first>>[1] = first
    BY <1>2
  <2>3. all \in Seq(Unnumbered) /\ Len(all) = n + 1 /\ all[1] = first
    BY <1>3, <1>6, <2>1, <2>2
  <2>4. \A i \in 2..(n + 1) : all[i] = rest[i - 1] /\ i - 1 \in 1..n
    BY <1>3, <1>6, <2>1, <2>2
  <2> QED
    BY <1>3, <2>3, <2>4
<1>9. \A i \in 1..(n + 1) : i = 1 \/ i \in 2..(n + 1)
  BY <1>3
<1> QED
  BY <1>2, <1>4, <1>8, <1>9

\* Adding definitions gives each a node, and no edge.
LEMMA AddDefsLeads ==
    ASSUME TextOK, NEW f \in Present, NEW b \in Buffers
    PROVE  /\ Leads(b, AddDefs(b, f), {"module", "def"}, text)
           /\ \A i \in DOMAIN Defs(f, text[f]) : Has(AddDefs(b, f), Defs(f, text[f])[i].qn)
           /\ AddDefs(b, f).edges = b.edges
BY DefsTyped, UpsertAllLeads DEF AddDefs

\* Linking definitions leaves the nodes alone.
LEMMA LinkDefsLeads ==
    ASSUME TextOK, NEW f \in Present, NEW b \in Buffers
    PROVE  /\ Leads(b, LinkDefs(b, f), {}, text)
           /\ LinkDefs(b, f).nodes = b.nodes
<1> DEFINE g == [d \in ToSet(Defs(f, text[f])) |->
                   [src |-> FileName(f), tgt |-> d.qn, type |-> "DEFINES"]]
           E == {g[d] : d \in ToSet(Defs(f, text[f]))}
<1>1. IsFiniteSet(ToSet(Defs(f, text[f]))) /\ \A d \in ToSet(Defs(f, text[f])) : d.qn \in QNames
  <2>1. Defs(f, text[f]) \in Seq(Unnumbered)
    BY DefsTyped
  <2>2. \A d \in ToSet(Defs(f, text[f])) : d \in Unnumbered
    BY <2>1 DEF ToSet
  <2> QED
    BY <2>1, <2>2, FiniteRange DEF Unnumbered
<1>2. g = [d \in ToSet(Defs(f, text[f])) |-> g[d]]
  OBVIOUS
<1>3. IsFiniteSet(E)
  <2> HIDE DEF g
  <2> QED
    BY <1>1, <1>2, FiniteImage
<1>4. E \in SUBSET Edges(QNames)
  <2>1. FileName(f) \in QNames
    BY TextFacts, NamesTyped
  <2> QED
    BY <1>1, <2>1 DEF Edges, Types
<1>5. LinkDefs(b, f) = LinkAll(b, E)
  BY DEF LinkDefs
<1> HIDE DEF E
<1> QED
  BY <1>3, <1>4, <1>5, LinkAllLeads

\* One edge between names.
LEMMA LinkOneLeads ==
    ASSUME NEW b \in Buffers, NEW src \in QNames, NEW tgt \in QNames,
           NEW type \in Types, NEW texts
    PROVE  LET E == {[src |-> src, tgt |-> tgt, type |-> type]}
           IN  /\ Leads(b, LinkAll(b, E), {}, texts)
               /\ LinkAll(b, E).nodes = b.nodes
<1> DEFINE E == {[src |-> src, tgt |-> tgt, type |-> type]}
<1>1. E \in SUBSET Edges(QNames)
  BY DEF Edges
<1>2. IsFiniteSet(E)
  BY FS_Singleton
<1> QED
  BY <1>1, <1>2, LinkAllLeads

\* One channel brings a channel node.
LEMMA AddChannelLeads ==
    ASSUME NEW b \in Buffers, NEW use \in [file : Files, channel : Channels],
           NEW texts
    PROVE  Leads(b, AddChannel(b, use), {"channel"}, texts)
<1> DEFINE node == [label |-> "Channel", qn |-> ChannelName(use.channel),
                    file |-> ""]
           c == Upsert(b, node)
           E == {[src |-> FileName(use.file), tgt |-> ChannelName(use.channel),
                  type |-> "EMITS"]}
<1>1. /\ FileName(use.file) \in QNames /\ ChannelName(use.channel) \in QNames
      /\ ChannelName(use.channel)[1] = "channel"
  BY NamesTyped, Kinds
<1>2. node \in Unnumbered /\ Proper(node, texts) /\ node.qn[1] = "channel"
  BY <1>1, FilesAssumption DEF Unnumbered, Labels, Places, Proper, Owned, Placed
<1>3. Leads(b, c, {"channel"}, texts)
  <2> HIDE DEF node
  <2> QED
    BY <1>2, UpsertLeads
<1> HIDE DEF c
<1>4. c \in Buffers
  BY <1>3 DEF Leads
<1>5. Leads(c, LinkAll(c, E), {}, texts)
  BY <1>1, <1>4, LinkOneLeads DEF Types
<1>6. AddChannel(b, use) = LinkAll(c, E)
  BY DEF AddChannel, c
<1> HIDE DEF E
<1> QED
  BY <1>3, <1>5, <1>6, LeadsTransitive

\* The channels of a file bring channel nodes only.
LEMMA AddChannelsLeads ==
    ASSUME TextOK, NEW f \in Present, NEW b \in Buffers
    PROVE  Leads(b, AddChannels(b, f), {"channel"}, text)
<1> DEFINE Uses == [file : Files, channel : Channels]
           uses == [i \in DOMAIN text[f].channels |->
                      [file |-> f, channel |-> text[f].channels[i]]]
           S == {c \in Buffers : Leads(b, c, {"channel"}, text)}
           n == Len(text[f].channels)
<1>1. f \in Files /\ text[f].channels \in Seq(Channels)
  BY TextFacts
<1>2. uses \in Seq(Uses)
  <2>1. /\ DOMAIN text[f].channels = 1..n /\ n \in Nat
        /\ \A i \in 1..n : text[f].channels[i] \in Channels
    BY <1>1
  <2>2. \A i \in 1..n : [file |-> f, channel |-> text[f].channels[i]] \in Uses
    BY <1>1, <2>1
  <2>3. uses = [i \in 1..n |-> [file |-> f, channel |-> text[f].channels[i]]]
    BY <2>1
  <2> HIDE DEF Uses, uses
  <2>4. uses \in [1..n -> Uses]
    BY <2>2, <2>3
  <2> QED
    BY <2>1, <2>4
<1>3. b \in S
  BY LeadsReflexive
<1>4. ASSUME NEW c \in S, NEW use \in Uses PROVE AddChannel(c, use) \in S
  <2>1. Leads(c, AddChannel(c, use), {"channel"}, text)
    BY AddChannelLeads
  <2>2. Leads(b, AddChannel(c, use), {"channel"}, text)
    BY <2>1, LeadsTransitive
  <2> QED
    BY <2>1, <2>2 DEF Leads
<1>5. AddingChannels!Fold(b, uses) \in S
  <2> HIDE DEF S, Uses, uses
  <2> QED
    BY <1>2, <1>3, <1>4, AddingChannels!FoldStays
<1> QED
  BY <1>5 DEF AddChannels

\* One request brings a route node.
LEMMA AddRequestLeads ==
    ASSUME NEW b \in Buffers, NEW use \in [source : Nat, route : Routes],
           NEW texts
    PROVE  Leads(b, AddRequest(b, use), {"route"}, texts)
<1> DEFINE node == [label |-> "Route", qn |-> RouteName(use.route), file |-> ""]
           c == Upsert(b, node)
           e == [src |-> use.source, tgt |-> Node(c, RouteName(use.route)).id,
                 type |-> "HTTP_CALLS"]
<1>1. RouteName(use.route) \in QNames /\ RouteName(use.route)[1] = "route"
  BY NamesTyped, Kinds
<1>2. node \in Unnumbered /\ Proper(node, texts) /\ node.qn[1] = "route"
  BY <1>1, FilesAssumption DEF Unnumbered, Labels, Places, Proper, Owned, Placed
<1>3. Leads(b, c, {"route"}, texts) /\ Has(c, RouteName(use.route))
  <2>1. node.qn = RouteName(use.route)
    OBVIOUS
  <2> HIDE DEF node
  <2> QED
    BY <1>2, <2>1, UpsertLeads
<1>4. AddRequest(b, use) = Insert(c, {e})
  BY DEF AddRequest
<1> HIDE DEF c
<1>5. c \in Buffers
  BY <1>3 DEF Leads
<1>6. Node(c, RouteName(use.route)).id \in Nat
  BY <1>3, <1>5, NodeOfName, BufferShape DEF NodeRecords
<1>7. {e} \in SUBSET Edges(Nat) /\ IsFiniteSet({e})
  <2>1. e \in Edges(Nat)
    BY <1>6 DEF Edges, Types
  <2>2. IsFiniteSet({e})
    BY FS_Singleton
  <2> QED
    BY <2>1, <2>2
<1>8. Leads(c, Insert(c, {e}), {}, texts)
  BY <1>5, <1>7, InsertLeads
<1> HIDE DEF e
<1> QED
  BY <1>3, <1>4, <1>8, LeadsTransitive

\* Resolving a file brings routes only.
LEMMA ResolveCallsLeads ==
    ASSUME TextOK, NEW f \in Present, NEW b \in Buffers, NEW main \in Buffers,
           Has(main, FileName(f)), registry \in Seq(QNames)
    PROVE  Leads(b, ResolveCalls(b, main, f), {"route"}, text)
<1> DEFINE source == Node(main, FileName(f)).id
           callees == UNION {Resolve(registry, f, name) : name \in text[f].calls}
           D == {q \in callees : Has(main, q)}
           g == [qn \in D |-> [src |-> source, tgt |-> Node(main, qn).id,
                               type |-> "CALLS"]]
           E == {g[qn] : qn \in D}
           c == Insert(b, E)
           Uses == [source : Nat, route : Routes]
           uses == [i \in DOMAIN text[f].routes |->
                      [source |-> source, route |-> text[f].routes[i]]]
           n == Len(text[f].routes)
           S == {d \in Buffers : Leads(b, d, {"route"}, text)}
<1>1. \A qn : Has(main, qn) => Node(main, qn).id \in Nat
  BY NodeOfName, BufferShape DEF NodeRecords
<1>2. source \in Nat
  BY <1>1
<1>3. E \in SUBSET Edges(Nat)
  <2> SUFFICES ASSUME NEW qn \in D PROVE g[qn] \in Edges(Nat)
    OBVIOUS
  <2>1. Node(main, qn).id \in Nat
    BY <1>1
  <2> QED
    BY <1>2, <2>1 DEF Edges, Types
<1>4. IsFiniteSet(D)
  <2>1. ASSUME NEW name PROVE Resolve(registry, f, name) \subseteq ToSet(registry)
    BY DEF Resolve, Contains, ToSet
  <2>2. D \in SUBSET ToSet(registry)
    BY <2>1
  <2> QED
    BY <2>2, FiniteRange, FS_Subset
<1>5. IsFiniteSet(E)
  <2>1. g = [qn \in D |-> g[qn]]
    OBVIOUS
  <2> HIDE DEF D, g
  <2> QED
    BY <1>4, <2>1, FiniteImage
<1>6. ResolveCalls(b, main, f) = AddingRequests!Fold(c, uses)
  <2>1. E = {[src |-> source, tgt |-> Node(main, qn).id, type |-> "CALLS"] :
               qn \in D}
    OBVIOUS
  <2> HIDE DEF E
  <2> QED
    BY <2>1 DEF ResolveCalls
<1>7. c \in S
  <2> HIDE DEF E
  <2>1. Leads(b, c, {}, text)
    BY <1>3, <1>5, InsertLeads
  <2>2. Leads(b, c, {"route"}, text)
    BY <2>1, LeadsReflexive, LeadsTransitive
  <2> QED
    BY <2>2 DEF Leads
<1>8. uses \in Seq(Uses)
  <2> HIDE DEF source
  <2>1. /\ DOMAIN text[f].routes = 1..n /\ n \in Nat
        /\ \A i \in 1..n : text[f].routes[i] \in Routes
    BY TextFacts
  <2>2. \A i \in 1..n : [source |-> source, route |-> text[f].routes[i]] \in Uses
    BY <1>2, <2>1
  <2>3. uses = [i \in 1..n |-> [source |-> source, route |-> text[f].routes[i]]]
    BY <2>1
  <2> HIDE DEF Uses, uses
  <2>4. uses \in [1..n -> Uses]
    BY <2>2, <2>3
  <2> QED
    BY <2>1, <2>4
<1>9. ASSUME NEW d \in S, NEW use \in Uses PROVE AddRequest(d, use) \in S
  <2>1. Leads(d, AddRequest(d, use), {"route"}, text)
    BY AddRequestLeads
  <2>2. Leads(b, AddRequest(d, use), {"route"}, text)
    BY <2>1, LeadsTransitive
  <2> QED
    BY <2>1, <2>2 DEF Leads
<1>10. AddingRequests!Fold(c, uses) \in S
  <2> HIDE DEF S, Uses, uses, c
  <2> QED
    BY <1>7, <1>8, <1>9, AddingRequests!FoldStays
<1> QED
  BY <1>6, <1>10

\* The registry holds qualified names.
LEMMA RegisterTyped ==
    ASSUME TextOK, NEW reg \in Seq(QNames)
    PROVE  \A files \in Seq(Present) :
               RegisterAll(reg, files, text) \in Seq(QNames)
<1>1. ASSUME NEW r \in Seq(QNames), NEW qns \in Seq(QNames)
      PROVE  Register(r, qns) \in Seq(QNames)
  <2>1. \A q \in Seq(QNames), qn \in QNames : Enter(q, qn) \in Seq(QNames)
    BY DEF Enter
  <2>2. Entering!Fold(r, qns) \in Seq(QNames)
    BY <2>1, Entering!FoldStays
  <2> QED
    BY <2>2 DEF Register
<1>2. ASSUME NEW files \in Seq(Present)
      PROVE  RegisterAll(reg, files, text) \in Seq(QNames)
  <2> DEFINE all == [i \in DOMAIN files |-> Declared(files[i], text[files[i]])]
  <2>1. all \in Seq(Seq(QNames))
    <3>1. DOMAIN files = 1..Len(files) /\ Len(files) \in Nat
      OBVIOUS
    <3>2. \A i \in 1..Len(files) :
             Declared(files[i], text[files[i]]) \in Seq(QNames)
      BY DeclaredTyped
    <3>3. all \in [1..Len(files) -> Seq(QNames)]
      BY <3>1, <3>2
    <3> QED
      BY <3>1, <3>3
  <2> HIDE DEF all
  <2>2. Registering!Fold(reg, all) \in Seq(QNames)
    BY <1>1, <2>1, Registering!FoldStays
  <2> QED
    BY <2>2 DEF RegisterAll, all
<1> QED
  BY <1>2

\* pass_structure gives a file its node.
LEMMA AddFileLeads ==
    ASSUME TextOK, NEW f \in Present, NEW b \in Buffers
    PROVE  /\ Leads(b, AddFile(b, f), {"module", "file"}, text)
           /\ Has(AddFile(b, f), FileName(f))
<1> DEFINE c1 == Upsert(b, FileNode(f))
           c2 == Upsert(c1, FolderNode)
           c3 == LinkAll(c2, {[src |-> ProjectName, tgt |-> FolderName(Directory),
                               type |-> "CONTAINS_FOLDER"]})
           c4 == LinkAll(c3, {[src |-> FolderName(Directory), tgt |-> FileName(f),
                               type |-> "CONTAINS_FILE"]})
           kinds == {"module", "file"}
<1>1. f \in Files /\ f \in Places /\ Directory \in Places /\ Directory \notin Files
  BY FilesAssumption DEF Present, Places
<1>2. /\ FileNode(f) \in Unnumbered /\ Proper(FileNode(f), text)
      /\ FileNode(f).qn = FileName(f) /\ FileName(f)[1] = "file"
  BY StructureTyped
<1>3. /\ FolderNode \in Unnumbered /\ Proper(FolderNode, text)
      /\ FolderNode.qn[1] = "module"
  BY StructureTyped
<1>4. Leads(b, c1, {"file"}, text) /\ Has(c1, FileName(f)) /\ c1 \in Buffers
  <2>1. Leads(b, c1, {"file"}, text) /\ Has(c1, FileName(f))
    BY <1>2, UpsertLeads
  <2> QED
    BY <2>1 DEF Leads
<1> HIDE DEF c1
<1>5. Leads(c1, c2, {"module"}, text) /\ c2 \in Buffers
  <2>1. Leads(c1, c2, {"module"}, text)
    BY <1>3, <1>4, UpsertLeads
  <2> QED
    BY <2>1 DEF Leads
<1> HIDE DEF c2
<1>6. Leads(c2, c3, {}, text) /\ c3 \in Buffers
  <2>1. Leads(c2, c3, {}, text)
    BY <1>5, NamesTyped, LinkOneLeads DEF Types
  <2> QED
    BY <2>1 DEF Leads
<1> HIDE DEF c3
<1>7. Leads(c3, c4, {}, text)
  BY <1>1, <1>6, NamesTyped, LinkOneLeads DEF Types
<1>8. AddFile(b, f) = c4
  BY DEF AddFile, c1, c2, c3
<1> HIDE DEF c4
<1>9. Leads(b, c2, kinds, text)
  BY <1>4, <1>5, LeadsTransitive
<1>10. Leads(c2, c4, kinds, text)
  BY <1>5, <1>6, <1>7, LeadsTransitive
<1>11. Leads(b, c4, kinds, text)
  BY <1>9, <1>10, LeadsTransitive
<1>12. Leads(c1, c4, kinds, text)
  BY <1>4, <1>5, <1>10, LeadsTransitive
<1>13. Has(c4, FileName(f))
  BY <1>4, <1>12, GrowsKeepsNames DEF Leads
<1> QED
  BY <1>8, <1>11, <1>13

\* A buffer that was just made.
LEMMA EmptyBufferTyped ==
    /\ EmptyBuffer \in Buffers /\ Compact(EmptyBuffer)
    /\ \A texts : Pure(EmptyBuffer, texts)
    /\ EmptyBuffer.nodes = <<>> /\ EmptyBuffer.edges = {}
<1>1. /\ EmptyBuffer.nodes = <<>> /\ EmptyBuffer.edges = {}
      /\ EmptyBuffer.next = 1
      /\ EmptyBuffer \in [nodes : Seq(NodeRecords), edges : SUBSET Edges(Nat),
                          next : Nat]
  BY DEF EmptyBuffer
<1>2. DOMAIN EmptyBuffer.nodes = {} /\ IsFiniteSet(EmptyBuffer.edges)
  BY <1>1, FS_EmptySet
<1>3. EmptyBuffer \in Buffers
  BY <1>1, <1>2 DEF Buffers, NodeRecords, OneNodePerName
<1> QED
  BY <1>1, <1>2, <1>3 DEF Compact, Pure

\* pass_structure gives every file its node.
LEMMA StructureLeads ==
    ASSUME TextOK, NEW files \in Seq(Present)
    PROVE  /\ Leads(EmptyBuffer, Structure(files), {"project", "module", "file"},
                    text)
           /\ \A i \in DOMAIN files : Has(Structure(files), FileName(files[i]))
<1> DEFINE kinds == {"project", "module", "file"}
           b == Upsert(EmptyBuffer, ProjectNode)
           Good(k) == {c \in Buffers : /\ Leads(EmptyBuffer, c, kinds, text)
                                       /\ \A i \in 1..k : Has(c, FileName(files[i]))}
           Stage == [k \in 0..Len(files) |-> Good(k)]
<1>1. ProjectNode \in Unnumbered /\ Proper(ProjectNode, text)
      /\ ProjectNode.qn[1] = "project"
  BY NamesTyped, Kinds, FilesAssumption
     DEF ProjectNode, Unnumbered, Labels, Places, Proper, Owned, Placed
<1>2. b \in Stage[0]
  <2>1. Leads(EmptyBuffer, b, {"project"}, text)
    BY <1>1, EmptyBufferTyped, UpsertLeads
  <2> HIDE DEF b
  <2>2. b \in Buffers
    BY <2>1 DEF Leads
  <2>3. Leads(EmptyBuffer, b, kinds, text)
    BY <2>1, <2>2, EmptyBufferTyped, LeadsReflexive, LeadsTransitive
  <2> QED
    BY <2>2, <2>3
<1>3. ASSUME NEW k \in 1..Len(files), NEW c \in Stage[k - 1]
      PROVE  AddFile(c, files[k]) \in Stage[k]
  <2>1. c \in Good(k - 1) /\ files[k] \in Present
    OBVIOUS
  <2> DEFINE d == AddFile(c, files[k])
  <2>2. Leads(c, d, {"module", "file"}, text) /\ Has(d, FileName(files[k]))
    BY <2>1, AddFileLeads
  <2> HIDE DEF d
  <2>3. Leads(EmptyBuffer, d, kinds, text)
    BY <2>1, <2>2, EmptyBufferTyped, LeadsTransitive
  <2>4. d \in Buffers /\ \A i \in 1..(k - 1) : Has(d, FileName(files[i]))
    BY <2>1, <2>2, GrowsKeepsNames DEF Leads
  <2>5. \A i \in 1..k : i = k \/ i \in 1..(k - 1)
    OBVIOUS
  <2>6. d \in Good(k)
    BY <2>2, <2>3, <2>4, <2>5
  <2> QED
    BY <2>6 DEF d
<1>4. Structuring!Fold(b, files) \in Stage[Len(files)]
  <2> HIDE DEF Stage, b
  <2> QED
    BY <1>2, <1>3, Structuring!FoldStages
<1>5. Structure(files) \in Good(Len(files))
  BY <1>4 DEF Structure
<1> QED
  BY <1>5

\* The loops of the passes over the files of a run.
LEMMA DefineFileLeads ==
    ASSUME TextOK, NEW f \in Present, NEW b \in Buffers
    PROVE  Leads(b, DefineFile(b, f), {"module", "def"}, text)
<1> DEFINE c == AddDefs(b, f)
<1>1. Leads(b, c, {"module", "def"}, text)
  BY AddDefsLeads
<1> HIDE DEF c
<1>2. c \in Buffers
  BY <1>1 DEF Leads
<1>3. Leads(c, LinkDefs(c, f), {}, text)
  BY <1>2, LinkDefsLeads
<1> QED
  BY <1>1, <1>3, LeadsTransitive DEF DefineFile, c

\* A file entered from the cache of a parallel run brings channels only.
LEMMA EnterFileLeads ==
    ASSUME TextOK, NEW f \in Present, NEW b \in Buffers
    PROVE  Leads(b, EnterFile(b, f), {"channel"}, text)
<1> DEFINE c == LinkDefs(b, f)
<1>1. Leads(b, c, {}, text)
  BY LinkDefsLeads
<1> HIDE DEF c
<1>2. c \in Buffers
  BY <1>1 DEF Leads
<1>3. Leads(c, AddChannels(c, f), {"channel"}, text)
  BY <1>2, AddChannelsLeads
<1> QED
  BY <1>1, <1>3, LeadsTransitive DEF EnterFile, c

\* The loops over the files bring what their step brings.
LEMMA LoopsLead ==
    ASSUME TextOK, NEW files \in Seq(Present), NEW b \in Buffers
    PROVE  /\ Leads(b, Defining!Fold(b, files), {"module", "def"}, text)
           /\ Leads(b, Emitting!Fold(b, files), {"channel"}, text)
           /\ Leads(b, EnteringFiles!Fold(b, files), {"channel"}, text)
<1> DEFINE S(kinds) == {c \in Buffers : Leads(b, c, kinds, text)}
<1>1. \A kinds : b \in S(kinds)
  BY LeadsReflexive
<1>2. ASSUME NEW kinds, NEW c \in S(kinds), NEW d, Leads(c, d, kinds, text)
      PROVE  d \in S(kinds)
  <2>1. Leads(b, d, kinds, text)
    BY <1>2, LeadsTransitive
  <2> QED
    BY <2>1 DEF Leads
<1>3. /\ \A c \in S({"module", "def"}), f \in Present :
            DefineFile(c, f) \in S({"module", "def"})
      /\ \A c \in S({"channel"}), f \in Present :
            /\ AddChannels(c, f) \in S({"channel"})
            /\ EnterFile(c, f) \in S({"channel"})
  <2>1. \A kinds : S(kinds) \subseteq Buffers
    OBVIOUS
  <2> HIDE DEF S
  <2> QED
    BY <1>2, <2>1, DefineFileLeads, AddChannelsLeads, EnterFileLeads
<1>4. /\ Defining!Fold(b, files) \in S({"module", "def"})
      /\ Emitting!Fold(b, files) \in S({"channel"})
      /\ EnteringFiles!Fold(b, files) \in S({"channel"})
  <2> HIDE DEF S
  <2>1. Defining!Fold(b, files) \in S({"module", "def"})
    BY <1>1, <1>3, Defining!FoldStays
  <2>2. Emitting!Fold(b, files) \in S({"channel"})
    BY <1>1, <1>3, Emitting!FoldStays
  <2>3. EnteringFiles!Fold(b, files) \in S({"channel"})
    BY <1>1, <1>3, EnteringFiles!FoldStays
  <2> QED
    BY <2>1, <2>2, <2>3
<1> QED
  BY <1>4

\* Resolving all files brings routes only.
LEMMA ResolvingLeads ==
    ASSUME TextOK, NEW b \in Buffers, registry \in Seq(QNames),
           NEW files \in Seq({f \in Present : Has(b, FileName(f))})
    PROVE  Leads(b, Resolving!Fold(b, files), {"route"}, text)
<1> DEFINE S == {c \in Buffers : Leads(b, c, {"route"}, text)}
           F == {f \in Present : Has(b, FileName(f))}
<1>1. b \in S
  BY LeadsReflexive
<1>2. ASSUME NEW c \in S, NEW f \in F PROVE ResolveHere(c, f) \in S
  <2>1. Has(c, FileName(f))
    BY GrowsKeepsNames DEF Leads
  <2>2. Leads(c, ResolveHere(c, f), {"route"}, text)
    BY <2>1, ResolveCallsLeads DEF ResolveHere
  <2>3. Leads(b, ResolveHere(c, f), {"route"}, text)
    BY <2>2, LeadsTransitive
  <2> QED
    BY <2>2, <2>3 DEF Leads
<1>3. Resolving!Fold(b, files) \in S
  <2> HIDE DEF S, F
  <2> QED
    BY <1>1, <1>2, Resolving!FoldStays DEF F
<1> QED
  BY <1>3

----------------------------------------------------------------------------
(* Greatest elements, which the merge and the dump look for.               *)

\* The largest of some of the first numbers.
LEMMA MaxOfNats ==
    ASSUME NEW n \in Nat, NEW S \in SUBSET (1..n), S # {}
    PROVE  Max(S) \in S /\ \A x \in S : Max(S) >= x
<1> DEFINE T == {k \in Nat : \E x \in S : k = n - x}
<1>1. T \in SUBSET Nat /\ T # {}
  <2>1. PICK x \in S : TRUE
    OBVIOUS
  <2>2. n - x \in Nat
    BY <2>1
  <2> QED
    BY <2>1, <2>2
<1>2. PICK k \in T : \A y \in T : k <= y
  <2> HIDE DEF T
  <2> QED
    BY <1>1, Keeping!LeastNat
<1>3. PICK m \in S : k = n - m
  BY <1>2
<1>4. ASSUME NEW x \in S PROVE m >= x
  <2>1. n - x \in T
    OBVIOUS
  <2> QED
    BY <2>1, <1>2, <1>3
<1> QED
  BY <1>3, <1>4 DEF Max

\* Finitely many naturals have a bound.
LEMMA NatsBounded ==
    ASSUME NEW s \in Seq(Nat)
    PROVE  \E m \in Nat : \A i \in 1..Len(s) : s[i] < m
<1> DEFINE Q(k) == \E m \in Nat : \A i \in 1..k : s[i] < m
           T == {k \in 0..Len(s) : ~Q(k)}
<1>1. SUFFICES ASSUME T # {} PROVE FALSE
  <2>1. Q(Len(s)) => \E m \in Nat : \A i \in 1..Len(s) : s[i] < m
    OBVIOUS
  <2> HIDE DEF Q
  <2>2. Len(s) \in 0..Len(s)
    OBVIOUS
  <2> QED
    BY <2>1, <2>2
<1>2. PICK k \in T : \A y \in T : k <= y
  <2>1. T \in SUBSET Nat
    OBVIOUS
  <2> HIDE DEF T
  <2> QED
    BY <1>1, <2>1, Keeping!LeastNat
<1>3. k # 0
  <2>1. \A i \in 1..0 : s[i] < 0
    OBVIOUS
  <2>2. Q(0)
    BY <2>1
  <2> HIDE DEF Q
  <2> QED
    BY <2>2
<1>4. k - 1 \in 0..Len(s) /\ Q(k - 1) /\ k \in 1..Len(s)
  <2> HIDE DEF Q
  <2> QED
    BY <1>2, <1>3
<1>5. PICK m \in Nat : \A i \in 1..(k - 1) : s[i] < m
  BY <1>4
<1> HIDE DEF T, Q
<1>9. \A i \in 1..Len(s) : s[i] \in Nat
  OBVIOUS
<1> DEFINE b == m + s[k] + 1
<1>6. b \in Nat /\ s[k] < b /\ m < b
  <2>1. s[k] \in Nat /\ m \in Nat
    BY <1>4, <1>5, <1>9
  <2> QED
    BY <2>1
<1>7. \A i \in 1..k : s[i] < b
  <2> SUFFICES ASSUME NEW i \in 1..k PROVE s[i] < b
    OBVIOUS
  <2>1. s[i] \in Nat /\ m \in Nat
    <3>1. i \in 1..Len(s)
      BY <1>4
    <3> QED
      BY <3>1, <1>5, <1>9
  <2>2. CASE i = k
    BY <2>2, <1>6
  <2>3. CASE i # k
    <3>1. i \in 1..(k - 1)
      BY <2>3, <1>4
    <3>2. s[i] < m
      BY <3>1, <1>5
    <3> HIDE DEF b
    <3>3. b \in Nat /\ m < b
      BY <1>6
    <3> QED
      BY <3>2, <3>3, <2>1
  <2> QED
    BY <2>2, <2>3
<1>8. Q(k)
  <2> HIDE DEF b
  <2> QED
    BY <1>6, <1>7 DEF Q
<1> QED
  BY <1>8, <1>2 DEF T

\* The counter after a merge is past the ids of what moved over.
LEMMA AfterAllFacts ==
    ASSUME NEW id \in Nat, NEW s \in Seq(NodeRecords)
    PROVE  LET k == AfterAll(id, {n.id : n \in ToSet(s)})
           IN  k \in Nat /\ id <= k /\ \A i \in DOMAIN s : s[i].id < k
<1> DEFINE ids == {n.id : n \in ToSet(s)}
           Above(k) == id <= k /\ \A i \in ids : i < k
           U == {k \in Nat : Above(k)}
<1>1. /\ DOMAIN s = 1..Len(s) /\ Len(s) \in Nat
      /\ \A i \in 1..Len(s) : s[i].id \in Nat
  <2>1. \A i \in 1..Len(s) : s[i] \in NodeRecords
    OBVIOUS
  <2> QED
    BY <2>1 DEF NodeRecords
<1>2. ids \subseteq Nat /\ \A i \in DOMAIN s : s[i].id \in ids
  BY <1>1 DEF ToSet
<1>3. U # {}
  <2> DEFINE t == [i \in 1..Len(s) |-> s[i].id]
  <2>1. t \in Seq(Nat) /\ Len(t) = Len(s)
    BY <1>1
  <2>2. PICK m \in Nat : \A i \in 1..Len(t) : t[i] < m
    <3> HIDE DEF t
    <3> QED
      BY <2>1, NatsBounded
  <2>3. \A i \in ids : i < m
    BY <2>1, <2>2, <1>1 DEF ToSet
  <2>4. m + id \in Nat /\ id <= m + id /\ m <= m + id
    OBVIOUS
  <2>5. Above(m + id)
    <3> HIDE DEF ids
    <3> QED
      BY <1>2, <2>3, <2>4
  <2> QED
    BY <2>4, <2>5
<1>4. PICK k \in U : \A y \in U : k <= y
  <2>1. U \in SUBSET Nat
    OBVIOUS
  <2> HIDE DEF U
  <2> QED
    BY <1>3, <2>1, Keeping!LeastNat
<1> HIDE DEF ids
<1>5. k \in {id} \cup {i + 1 : i \in ids}
  <2> SUFFICES ASSUME k # id, \A i \in ids : k # i + 1 PROVE FALSE
    OBVIOUS
  <2>1. k \in Nat /\ id <= k /\ \A i \in ids : i < k
    BY <1>4
  <2>2. k - 1 \in Nat /\ id <= k - 1
    BY <2>1
  <2>3. \A i \in ids : i < k - 1
    BY <2>1, <1>2
  <2>4. k - 1 \in U
    BY <2>2, <2>3
  <2> HIDE DEF U
  <2> QED
    BY <2>4, <1>4, <2>1
<1>6. Above(k)
  BY <1>4
<1> DEFINE m == AfterAll(id, ids)
<1>7. m \in {id} \cup {i + 1 : i \in ids} /\ Above(m)
  <2> HIDE DEF m
  <2>1. m = CHOOSE x \in {id} \cup {i + 1 : i \in ids} : Above(x)
    BY DEF m, AfterAll
  <2> HIDE DEF Above
  <2> QED
    BY <1>5, <1>6, <2>1
<1> HIDE DEF m
<1>8. m \in Nat
  BY <1>7, <1>2
<1> QED
  BY <1>2, <1>7, <1>8 DEF m, ids

----------------------------------------------------------------------------
(* The database: loading, purging, merging and storing a graph.            *)

\* What membership in Graphs says, part by part.
LEMMA GraphShape ==
    ASSUME NEW g \in Graphs
    PROVE  /\ g.nodes \in Seq(Unnumbered) /\ g.edges \in SUBSET Edges(QNames)
           /\ DOMAIN g.nodes = 1..Len(g.nodes) /\ Len(g.nodes) \in Nat
           /\ \A i \in DOMAIN g.nodes : g.nodes[i] \in Unnumbered
           /\ OneNodePerName(g.nodes) /\ IsFiniteSet(g.edges)
           /\ \A e \in g.edges :
                 /\ \E i \in DOMAIN g.nodes : g.nodes[i].qn = e.src
                 /\ \E i \in DOMAIN g.nodes : g.nodes[i].qn = e.tgt
<1>1. /\ g \in [nodes : Seq(Unnumbered), edges : SUBSET Edges(QNames)]
      /\ OneNodePerName(g.nodes) /\ IsFiniteSet(g.edges)
      /\ \A e \in g.edges : {e.src, e.tgt} \subseteq Names(g)
  BY DEF Graphs, Unnumbered
<1>2. g.nodes \in Seq(Unnumbered) /\ g.edges \in SUBSET Edges(QNames)
  BY <1>1
<1>3. \A qn \in Names(g) : \E i \in DOMAIN g.nodes : g.nodes[i].qn = qn
  BY DEF Names, ToSet
<1> QED
  BY <1>1, <1>2, <1>3

\* The row of a name.
RowOf(g, qn) == CHOOSE i \in DOMAIN g.nodes : g.nodes[i].qn = qn

\* cbm_gbuf_load_from_db: the id of a node is the number of its row.
LEMMA LoadFacts ==
    ASSUME NEW g \in Graphs
    PROVE  /\ Load(g) \in Buffers /\ Compact(Load(g))
           /\ DOMAIN Load(g).nodes = DOMAIN g.nodes
           /\ \A i \in DOMAIN g.nodes :
                 /\ Load(g).nodes[i].id = i
                 /\ Load(g).nodes[i].qn = g.nodes[i].qn
                 /\ Load(g).nodes[i].label = g.nodes[i].label
                 /\ Load(g).nodes[i].file = g.nodes[i].file
           /\ Load(g).edges = {[src |-> RowOf(g, e.src), tgt |-> RowOf(g, e.tgt),
                                type |-> e.type] : e \in g.edges}
<1> DEFINE n == Len(g.nodes)
           row(i) == [id |-> i, qn |-> g.nodes[i].qn,
                      label |-> g.nodes[i].label, file |-> g.nodes[i].file]
           rows == [i \in DOMAIN g.nodes |-> row(i)]
           f == [e \in g.edges |-> [src |-> RowOf(g, e.src),
                                    tgt |-> RowOf(g, e.tgt), type |-> e.type]]
           E == {f[e] : e \in g.edges}
           k == n + Cardinality(g.edges) + 1
           b == Load(g)
<1>1. /\ g.nodes \in Seq(Unnumbered) /\ g.edges \in SUBSET Edges(QNames)
      /\ DOMAIN g.nodes = 1..n /\ n \in Nat
      /\ \A i \in DOMAIN g.nodes : g.nodes[i] \in Unnumbered
      /\ OneNodePerName(g.nodes) /\ IsFiniteSet(g.edges)
      /\ \A e \in g.edges :
            /\ \E i \in DOMAIN g.nodes : g.nodes[i].qn = e.src
            /\ \E i \in DOMAIN g.nodes : g.nodes[i].qn = e.tgt
  BY GraphShape
<1>2. \A i \in 1..n : row(i) \in NodeRecords
  BY <1>1 DEF Unnumbered, NodeRecords
<1>3. \A i \in 1..n : rows[i] = row(i)
  BY <1>1
<1>4. rows \in Seq(NodeRecords) /\ DOMAIN rows = 1..n
  <2>1. rows = [i \in 1..n |-> row(i)]
    BY <1>1
  <2> HIDE DEF rows, row
  <2>2. rows \in [1..n -> NodeRecords]
    BY <1>2, <2>1
  <2> QED
    BY <2>1, <2>2, <1>1
<1>5. \A e \in g.edges : f[e] \in Edges(Nat)
  <2> SUFFICES ASSUME NEW e \in g.edges PROVE f[e] \in Edges(Nat)
    OBVIOUS
  <2>1. RowOf(g, e.src) \in 1..n /\ RowOf(g, e.tgt) \in 1..n
    BY <1>1 DEF RowOf
  <2>2. e.type \in Types
    BY <1>1 DEF Edges
  <2> QED
    BY <2>1, <2>2, <1>1 DEF Edges
<1>6. E \in SUBSET Edges(Nat) /\ IsFiniteSet(E)
  <2>1. f = [e \in g.edges |-> f[e]]
    OBVIOUS
  <2> HIDE DEF f
  <2>2. IsFiniteSet(E)
    BY <1>1, <2>1, FiniteImage
  <2> QED
    BY <1>5, <2>2
<1>7. k \in Nat /\ n < k
  <2>1. Cardinality(g.edges) \in Nat
    BY <1>1, FS_CardinalityType
  <2> QED
    BY <2>1, <1>1
<1>8. b = [nodes |-> rows, edges |-> E, next |-> k]
  BY DEF Load, RowOf
<1>9. E = {[src |-> RowOf(g, e.src), tgt |-> RowOf(g, e.tgt),
            type |-> e.type] : e \in g.edges}
  OBVIOUS
<1>10. \A i \in 1..n : /\ rows[i].id = i /\ rows[i].qn = g.nodes[i].qn
                       /\ rows[i].label = g.nodes[i].label
                       /\ rows[i].file = g.nodes[i].file
  BY <1>3
<1> HIDE DEF b, rows, row, k, E, f
<1>11. b.nodes = rows /\ b.edges = E /\ b.next = k
       /\ b \in [nodes : Seq(NodeRecords), edges : SUBSET Edges(Nat), next : Nat]
  BY <1>4, <1>6, <1>7, <1>8
<1>12. OneNodePerName(b.nodes)
  BY <1>1, <1>4, <1>10, <1>11 DEF OneNodePerName
<1>13. b \in Buffers
  BY <1>6, <1>11, <1>12 DEF Buffers, NodeRecords
<1>14. Compact(b)
  <2>1. \A i \in 1..n : i < k
    BY <1>1, <1>7
  <2> QED
    BY <1>4, <1>10, <1>11, <2>1 DEF Compact
<1> QED
  BY <1>1, <1>4, <1>9, <1>10, <1>11, <1>13, <1>14 DEF b

\* What a purge leaves: the nodes in other files, and the edges between them.
LEMMA DeleteFacts ==
    ASSUME NEW b \in Buffers, NEW files
    PROVE  LET c == DeleteByFile(b, files)
           IN  /\ c \in Buffers /\ c.next = b.next
               /\ Compact(b) => Compact(c)
               /\ ToSet(c.nodes) = {n \in ToSet(b.nodes) : n.file \notin files}
               /\ c.edges = {e \in b.edges :
                     {e.src, e.tgt} \cap
                       {n.id : n \in {m \in ToSet(b.nodes) : m.file \in files}}
                         = {}}
<1> DEFINE S == {n \in ToSet(b.nodes) : n.file \notin files}
           nodes == Keep(b.nodes, S)
           gone == {n.id : n \in {m \in ToSet(b.nodes) : m.file \in files}}
           E == {e \in b.edges : {e.src, e.tgt} \cap gone = {}}
           c == DeleteByFile(b, files)
<1>1. /\ b \in [nodes : Seq(NodeRecords), edges : SUBSET Edges(Nat), next : Nat]
      /\ OneNodePerName(b.nodes) /\ IsFiniteSet(b.edges)
      /\ b.nodes \in Seq(NodeRecords)
      /\ DOMAIN b.nodes = 1..Len(b.nodes)
  BY BufferShape
<1>2. /\ nodes \in Seq(NodeRecords) /\ Len(nodes) \in Nat
      /\ DOMAIN nodes = 1..Len(nodes)
      /\ ToSet(nodes) = ToSet(b.nodes) \cap S
  <2>1. nodes \in Seq(NodeRecords) /\ ToSet(nodes) = ToSet(b.nodes) \cap S
    BY <1>1, KeepCorrect
  <2> HIDE DEF nodes
  <2> QED
    BY <2>1
<1>3. PICK h \in [1..Len(nodes) -> 1..Len(b.nodes)] :
         /\ \A i \in 1..Len(nodes) : nodes[i] = b.nodes[h[i]]
         /\ \A i, j \in 1..Len(nodes) : i < j => h[i] < h[j]
  <2> HIDE DEF S
  <2>1. \E h \in [1..Len(nodes) -> 1..Len(b.nodes)] :
           /\ \A i \in 1..Len(nodes) : nodes[i] = b.nodes[h[i]]
           /\ \A i, j \in 1..Len(nodes) : i < j => h[i] < h[j]
    BY <1>1, KeepFacts
  <2> QED
    BY <2>1
<1>4. c = [b EXCEPT !.nodes = nodes, !.edges = E]
  BY DEF DeleteByFile
<1>5. E \in SUBSET Edges(Nat) /\ IsFiniteSet(E)
  <2>1. E \in SUBSET b.edges
    OBVIOUS
  <2> HIDE DEF E
  <2> QED
    BY <1>1, <2>1, FS_Subset
<1>6. ToSet(nodes) = S
  BY <1>2
<1> HIDE DEF c, nodes, E, S, gone
<1>7. /\ c.nodes = nodes /\ c.edges = E /\ c.next = b.next
      /\ c \in [nodes : Seq(NodeRecords), edges : SUBSET Edges(Nat), next : Nat]
  BY <1>1, <1>2, <1>4, <1>5, RecordUpdate DEF IsBuffer
<1>8. ASSUME NEW i \in DOMAIN nodes, NEW j \in DOMAIN nodes, i # j
      PROVE  /\ nodes[i] = b.nodes[h[i]] /\ nodes[j] = b.nodes[h[j]]
             /\ h[i] \in DOMAIN b.nodes /\ h[j] \in DOMAIN b.nodes
             /\ h[i] # h[j]
  <2>1. i \in 1..Len(nodes) /\ j \in 1..Len(nodes) /\ (i < j \/ j < i)
    BY <1>2, <1>8
  <2>2. h[i] \in 1..Len(b.nodes) /\ h[j] \in 1..Len(b.nodes)
    BY <2>1
  <2>3. h[i] < h[j] \/ h[j] < h[i]
    BY <1>3, <2>1
  <2> QED
    BY <1>1, <1>3, <2>1, <2>2, <2>3
<1>9. OneNodePerName(c.nodes)
  <2>1. \A x, y \in DOMAIN b.nodes : b.nodes[x].qn = b.nodes[y].qn => x = y
    BY <1>1 DEF OneNodePerName
  <2>2. ASSUME NEW i \in DOMAIN nodes, NEW j \in DOMAIN nodes,
               nodes[i].qn = nodes[j].qn
        PROVE  i = j
    BY <2>1, <2>2, <1>8
  <2> QED
    BY <2>2, <1>7 DEF OneNodePerName
<1>10. c \in Buffers
  BY <1>5, <1>7, <1>9 DEF Buffers, NodeRecords
<1>11. Compact(b) => Compact(c)
  <2> SUFFICES ASSUME Compact(b) PROVE Compact(c)
    OBVIOUS
  <2>1. \A i \in DOMAIN nodes : h[i] \in DOMAIN b.nodes /\ nodes[i] = b.nodes[h[i]]
    BY <1>1, <1>2, <1>3
  <2>2. \A i \in DOMAIN nodes : nodes[i].id < b.next
    BY <2>1 DEF Compact
  <2>3. \A i, j \in DOMAIN nodes : nodes[i].id = nodes[j].id => i = j
    BY <1>8 DEF Compact
  <2> QED
    BY <2>2, <2>3, <1>7 DEF Compact
<1> QED
  BY <1>6, <1>7, <1>10, <1>11 DEF c, E, S, gone

\* Where the merge of src into dst takes an id, and an edge, of src.
Remapped(dst, src, id) ==
    LET same == {n \in ToSet(src.nodes) : n.id = id /\ Has(dst, n.qn)}
    IN  IF same = {} THEN id ELSE Node(dst, (CHOOSE n \in same : TRUE).qn).id
Moved(dst, src, e) == [src |-> Remapped(dst, src, e.src),
                       tgt |-> Remapped(dst, src, e.tgt), type |-> e.type]

\* What a merge makes: the nodes and edges of the first buffer, under their
\* ids, and the nodes of the second one whose names were new, under theirs.
LEMMA MergeFacts ==
    ASSUME NEW dst \in Buffers, NEW src \in Buffers
    PROVE  LET c == Merge(dst, src)
           IN  /\ c \in Buffers
               /\ Len(dst.nodes) <= Len(c.nodes)
               /\ \A i \in DOMAIN dst.nodes : /\ c.nodes[i].id = dst.nodes[i].id
                                              /\ c.nodes[i].qn = dst.nodes[i].qn
               /\ \A i \in DOMAIN c.nodes : i \notin DOMAIN dst.nodes =>
                     \E j \in DOMAIN src.nodes : c.nodes[i] = src.nodes[j]
               /\ \A j \in DOMAIN src.nodes : ~Has(dst, src.nodes[j].qn) =>
                     \E i \in DOMAIN c.nodes : c.nodes[i] = src.nodes[j]
               /\ c.edges = dst.edges \cup {Moved(dst, src, e) : e \in src.edges}
               /\ dst.next <= c.next
               /\ \A texts : Pure(dst, texts) /\ Pure(src, texts) => Pure(c, texts)
<1> DEFINE S == {n \in ToSet(src.nodes) : ~Has(dst, n.qn)}
           fresh == Fresh(dst, src)
           ids == {n.id : n \in ToSet(fresh)}
           k == AfterAll(dst.next, ids)
           d == Len(dst.nodes)
           m == Len(fresh)
           Same(id) == {n \in ToSet(src.nodes) : n.id = id /\ Has(dst, n.qn)}
           Remap(id) == IF Same(id) = {} THEN id
                        ELSE Node(dst, (CHOOSE n \in Same(id) : TRUE).qn).id
           upd(n) == IF Has(src, n.qn)
                     THEN [n EXCEPT !.label = Node(src, n.qn).label,
                                    !.file = Node(src, n.qn).file]
                     ELSE n
           old == [i \in DOMAIN dst.nodes |-> upd(dst.nodes[i])]
           f == [e \in src.edges |-> [src |-> Remap(e.src), tgt |-> Remap(e.tgt),
                                      type |-> e.type]]
           E == {f[e] : e \in src.edges}
           base == [dst EXCEPT !.nodes = old \o fresh, !.next = k]
           c == Merge(dst, src)
<1>1. /\ dst \in [nodes : Seq(NodeRecords), edges : SUBSET Edges(Nat), next : Nat]
      /\ OneNodePerName(dst.nodes) /\ IsFiniteSet(dst.edges)
      /\ DOMAIN dst.nodes = 1..d /\ d \in Nat
      /\ \A i \in DOMAIN dst.nodes : dst.nodes[i] \in NodeRecords
  BY BufferShape
<1>2. /\ src \in [nodes : Seq(NodeRecords), edges : SUBSET Edges(Nat), next : Nat]
      /\ OneNodePerName(src.nodes) /\ IsFiniteSet(src.edges)
      /\ DOMAIN src.nodes = 1..Len(src.nodes)
      /\ src.nodes \in Seq(NodeRecords)
      /\ \A i \in DOMAIN src.nodes : src.nodes[i] \in NodeRecords
  BY BufferShape
<1>3. /\ fresh \in Seq(NodeRecords) /\ m \in Nat /\ DOMAIN fresh = 1..m
      /\ \A i \in 1..m : fresh[i] \in S /\ fresh[i] \in NodeRecords
      /\ \A n \in S : \E i \in 1..m : fresh[i] = n
  <2>1. Keep(src.nodes, S) \in Seq(NodeRecords)
        /\ ToSet(Keep(src.nodes, S)) = ToSet(src.nodes) \cap S
    BY <1>2, KeepCorrect
  <2>2. fresh = Keep(src.nodes, S)
    BY DEF Fresh
  <2> HIDE DEF fresh, S
  <2>3. fresh \in Seq(NodeRecords) /\ \A i \in DOMAIN fresh : fresh[i] \in S
    BY <2>1, <2>2 DEF ToSet
  <2>4. \A n \in S : n \in ToSet(fresh)
    BY <2>1, <2>2 DEF S
  <2>5. \A n \in S : \E i \in DOMAIN fresh : fresh[i] = n
    BY <2>4 DEF ToSet
  <2> QED
    BY <2>3, <2>5
<1>4. PICK h \in [1..m -> 1..Len(src.nodes)] :
         /\ \A i \in 1..m : fresh[i] = src.nodes[h[i]]
         /\ \A i, j \in 1..m : i < j => h[i] < h[j]
  <2> HIDE DEF S
  <2>1. fresh = Keep(src.nodes, S)
    BY DEF Fresh, S
  <2> DEFINE kept == Keep(src.nodes, S)
  <2>2. \E h \in [1..Len(kept) -> 1..Len(src.nodes)] :
           /\ \A i \in 1..Len(kept) : kept[i] = src.nodes[h[i]]
           /\ \A i, j \in 1..Len(kept) : i < j => h[i] < h[j]
    <3>1. src.nodes \in Seq(NodeRecords)
      BY <1>2
    <3> HIDE DEF NodeRecords
    <3> QED
      BY <3>1, KeepFacts
  <2> HIDE DEF fresh, kept
  <2>3. fresh = kept
    BY <2>1 DEF kept
  <2> QED
    BY <2>2, <2>3
<1>5. k \in Nat /\ dst.next <= k
  <2>1. dst.next \in Nat
    BY <1>1
  <2> HIDE DEF fresh
  <2> QED
    BY <1>3, <2>1, AfterAllFacts
<1>6. ASSUME NEW n \in NodeRecords
      PROVE  /\ upd(n) \in NodeRecords /\ upd(n).id = n.id /\ upd(n).qn = n.qn
             /\ Has(src, n.qn) => /\ upd(n).label = Node(src, n.qn).label
                                  /\ upd(n).file = Node(src, n.qn).file
             /\ ~Has(src, n.qn) => upd(n) = n
  <2>1. CASE ~Has(src, n.qn)
    BY <2>1
  <2>2. CASE Has(src, n.qn)
    <3>1. Node(src, n.qn) \in NodeRecords
      BY <2>2, <1>2, NodeOfName
    <3> QED
      BY <2>2, <3>1 DEF NodeRecords
  <2> QED
    BY <2>1, <2>2
<1>7. /\ old \in Seq(NodeRecords) /\ Len(old) = d /\ DOMAIN old = 1..d
      /\ \A i \in 1..d : old[i] = upd(dst.nodes[i])
  <2>1. \A i \in 1..d : old[i] = upd(dst.nodes[i]) /\ old[i] \in NodeRecords
    BY <1>1, <1>6
  <2>2. old = [i \in 1..d |-> old[i]]
    BY <1>1
  <2> HIDE DEF old, d, upd
  <2>3. old \in [1..d -> NodeRecords]
    BY <2>1, <2>2
  <2>4. d \in Nat
    BY <1>1
  <2>5. old \in Seq(NodeRecords) /\ Len(old) = d /\ DOMAIN old = 1..d
    BY <2>3, <2>4
  <2> QED
    BY <2>1, <2>5
<1>8. \A i \in 1..d : old[i].id = dst.nodes[i].id /\ old[i].qn = dst.nodes[i].qn
  BY <1>1, <1>6, <1>7
<1>9. E \in SUBSET Edges(Nat) /\ IsFiniteSet(E)
  <2>1. ASSUME NEW id \in Nat PROVE Remap(id) \in Nat
    <3>1. CASE Same(id) = {}
      BY <3>1
    <3>2. CASE Same(id) # {}
      <4>1. Has(dst, (CHOOSE n \in Same(id) : TRUE).qn)
        BY <3>2
      <4>2. Node(dst, (CHOOSE n \in Same(id) : TRUE).qn) \in NodeRecords
        BY <4>1, <1>1, NodeOfName
      <4> QED
        BY <3>2, <4>2 DEF NodeRecords
    <3> QED
      BY <3>1, <3>2
  <2> HIDE DEF Remap
  <2>2. \A e \in src.edges : f[e] \in Edges(Nat)
    BY <1>2, <2>1 DEF Edges
  <2>3. f = [e \in src.edges |-> f[e]]
    OBVIOUS
  <2> HIDE DEF f
  <2> QED
    BY <1>2, <2>2, <2>3, FiniteImage
<1>10. c = Insert(base, E)
  BY DEF Merge
<1>22. E = {Moved(dst, src, e) : e \in src.edges}
  BY DEF Moved, Remapped
<1>23. \A j \in DOMAIN src.nodes : ~Has(dst, src.nodes[j].qn) =>
          \E i \in 1..m : fresh[i] = src.nodes[j]
  <2>1. \A j \in DOMAIN src.nodes : src.nodes[j] \in ToSet(src.nodes)
    BY DEF ToSet
  <2> HIDE DEF fresh, m
  <2> QED
    BY <2>1, <1>3
<1> DEFINE nodes == old \o fresh
<1> HIDE DEF c, E, f, Remap, Same, k, ids, fresh, old, upd, m
<1>11. /\ nodes \in Seq(NodeRecords) /\ Len(nodes) = d + m
       /\ DOMAIN nodes = 1..(d + m)
       /\ \A i \in 1..d : nodes[i] = old[i]
       /\ \A i \in 1..(d + m) : i \notin 1..d =>
             i - d \in 1..m /\ nodes[i] = fresh[i - d]
  <2>1. Len(fresh) = m
    BY DEF m
  <2> HIDE DEF d
  <2>2. d \in Nat /\ m \in Nat
    BY <1>1, <1>3
  <2>3. /\ old \in Seq(NodeRecords) /\ Len(old) = d
        /\ fresh \in Seq(NodeRecords)
    BY <1>3, <1>7
  <2>4. nodes \in Seq(NodeRecords) /\ Len(nodes) = d + m
    <3> HIDE DEF NodeRecords, d
    <3>1. nodes \in Seq(NodeRecords)
      BY <2>3
    <3>2. Len(nodes) = Len(old) + Len(fresh)
      BY <2>3
    <3> QED
      BY <2>1, <2>3, <3>1, <3>2
  <2>5. \A i \in 1..(d + m) : nodes[i] = IF i <= d THEN old[i] ELSE fresh[i - d]
    BY <2>1, <2>2, <2>3
  <2> HIDE DEF nodes
  <2> QED
    BY <2>2, <2>4, <2>5
<1> HIDE DEF nodes
<1>12. /\ base.nodes = nodes /\ base.edges = dst.edges /\ base.next = k
       /\ base \in [nodes : Seq(NodeRecords), edges : SUBSET Edges(Nat),
                    next : Nat]
  BY <1>1, <1>5, <1>11, RecordUpdate DEF IsBuffer, nodes
<1>13. \A i \in 1..m : fresh[i] \in ToSet(src.nodes) /\ ~Has(dst, fresh[i].qn)
  BY <1>3
<1>14. OneNodePerName(nodes)
  <2> SUFFICES ASSUME NEW i \in 1..(d + m), NEW j \in 1..(d + m),
                      nodes[i].qn = nodes[j].qn, i < j
               PROVE  FALSE
    BY <1>1, <1>3, <1>11 DEF OneNodePerName
  <2>1. CASE j \in 1..d
    <3>1. i \in 1..d
      BY <2>1, <1>1
    <3> QED
      BY <2>1, <3>1, <1>1, <1>8, <1>11 DEF OneNodePerName
  <2>2. CASE i \in 1..d /\ j \notin 1..d
    <3>1. Has(dst, nodes[i].qn)
      <4>1. i \in DOMAIN dst.nodes /\ nodes[i].qn = dst.nodes[i].qn
        BY <2>2, <1>1, <1>8, <1>11
      <4> QED
        BY <4>1 DEF Has, Names, ToSet
    <3>2. ~Has(dst, nodes[j].qn)
      BY <2>2, <1>11, <1>13
    <3> QED
      BY <3>1, <3>2
  <2>3. CASE i \notin 1..d /\ j \notin 1..d
    <3>1. /\ i - d \in 1..m /\ j - d \in 1..m /\ i - d < j - d
          /\ nodes[i] = fresh[i - d] /\ nodes[j] = fresh[j - d]
      BY <2>3, <1>11, <1>1, <1>3
    <3> DEFINE x == i - d
               y == j - d
    <3>2. x \in 1..m /\ y \in 1..m /\ x < y
      BY <3>1
    <3>3. nodes[i] = fresh[x] /\ nodes[j] = fresh[y]
      BY <3>1
    <3> HIDE DEF x, y
    <3>4. nodes[i] = src.nodes[h[x]] /\ nodes[j] = src.nodes[h[y]]
          /\ h[x] < h[y]
      BY <1>4, <3>2, <3>3
    <3>5. h[x] \in 1..Len(src.nodes) /\ h[y] \in 1..Len(src.nodes)
      BY <1>4, <3>2
    <3>6. h[x] = h[y]
      BY <3>4, <3>5, <1>2 DEF OneNodePerName
    <3> QED
      BY <3>4, <3>5, <3>6
  <2>4. i \in 1..d \/ j \notin 1..d
    BY <1>1, <1>3
  <2> QED
    BY <2>1, <2>2, <2>3, <2>4
<1>15. base \in Buffers
  BY <1>1, <1>12, <1>14 DEF Buffers, NodeRecords
<1>16. /\ c.nodes = nodes /\ c.edges = dst.edges \cup E
       /\ c \in Buffers /\ k <= c.next
  <2>1. /\ Leads(base, Insert(base, E), {}, text)
        /\ Insert(base, E).nodes = base.nodes
        /\ Insert(base, E).edges = base.edges \cup E
    BY <1>9, <1>15, InsertLeads
  <2> QED
    BY <1>10, <1>12, <2>1 DEF Leads, Grows
<1>17. dst.next <= c.next
  <2>1. dst.next \in Nat /\ c.next \in Nat
    BY <1>1, <1>16, BufferShape
  <2> QED
    BY <2>1, <1>5, <1>16
<1>18. \A i \in DOMAIN nodes : i \notin DOMAIN dst.nodes =>
          \E j \in DOMAIN src.nodes : nodes[i] = src.nodes[j]
  <2>1. \A i \in 1..m : \E j \in DOMAIN src.nodes : fresh[i] = src.nodes[j]
    BY <1>2, <1>4
  <2> SUFFICES ASSUME NEW i \in DOMAIN nodes, i \notin DOMAIN dst.nodes
               PROVE  \E j \in DOMAIN src.nodes : nodes[i] = src.nodes[j]
    OBVIOUS
  <2>2. i - d \in 1..m /\ nodes[i] = fresh[i - d]
    BY <1>1, <1>11
  <2> QED
    BY <2>1, <2>2
<1>19. ASSUME NEW texts, Pure(dst, texts), Pure(src, texts)
       PROVE  Pure(c, texts)
  <2> SUFFICES ASSUME NEW i \in DOMAIN nodes PROVE Proper(nodes[i], texts)
    BY <1>16 DEF Pure
  <2>1. CASE i \notin DOMAIN dst.nodes
    BY <2>1, <1>18, <1>19 DEF Pure
  <2>2. CASE i \in DOMAIN dst.nodes
    <3> DEFINE n == dst.nodes[i]
    <3>1. nodes[i] = upd(n) /\ n \in NodeRecords /\ Proper(n, texts)
      BY <2>2, <1>1, <1>7, <1>11, <1>19 DEF Pure
    <3>2. CASE ~Has(src, n.qn)
      BY <3>1, <3>2, <1>6
    <3>3. CASE Has(src, n.qn)
      <4>1. PICK j \in DOMAIN src.nodes :
               src.nodes[j].qn = n.qn /\ Node(src, n.qn) = src.nodes[j]
        BY <3>3, NodeOfName
      <4>2. /\ nodes[i].label = src.nodes[j].label
            /\ nodes[i].file = src.nodes[j].file
            /\ nodes[i].qn = src.nodes[j].qn
        BY <3>1, <3>3, <4>1, <1>6
      <4>3. Proper(src.nodes[j], texts)
        BY <1>19 DEF Pure
      <4> QED
        BY <4>2, <4>3 DEF Proper, Owned, Placed
    <3> QED
      BY <3>2, <3>3
  <2> QED
    BY <2>1, <2>2
<1>20. Len(dst.nodes) <= Len(nodes)
  BY <1>1, <1>3, <1>11
<1>21. \A i \in DOMAIN dst.nodes : /\ nodes[i].id = dst.nodes[i].id
                                   /\ nodes[i].qn = dst.nodes[i].qn
  BY <1>1, <1>8, <1>11
<1>24. \A j \in DOMAIN src.nodes : ~Has(dst, src.nodes[j].qn) =>
          \E i \in DOMAIN nodes : nodes[i] = src.nodes[j]
  <2>1. \A i \in 1..m : d + i \in 1..(d + m) /\ nodes[d + i] = fresh[i]
    <3> SUFFICES ASSUME NEW i \in 1..m
                 PROVE  d + i \in 1..(d + m) /\ nodes[d + i] = fresh[i]
      OBVIOUS
    <3> HIDE DEF d
    <3>1. /\ d + i \in 1..(d + m) /\ d + i \notin 1..d /\ (d + i) - d = i
      BY <1>1, <1>3
    <3> QED
      BY <3>1, <1>11
  <2> HIDE DEF d
  <2> QED
    BY <2>1, <1>11, <1>23
<1>25. c.edges = dst.edges \cup {Moved(dst, src, e) : e \in src.edges}
  BY <1>16, <1>22
<1> QED
  BY <1>16, <1>17, <1>18, <1>19, <1>20, <1>21, <1>24, <1>25 DEF c

\* n came from one of the first k buffers of locals.
From(locals, k, n) ==
    \E w \in 1..k : \E j \in DOMAIN locals[w].nodes :
        locals[w].nodes[j].id = n.id /\ locals[w].nodes[j].qn = n.qn

OneNodePerId(b) ==
    \A i, j \in DOMAIN b.nodes : b.nodes[i].id = b.nodes[j].id => i = j

\* No id is given twice, within a buffer or across them.
Distinct(b, locals) ==
    /\ OneNodePerId(b)
    /\ \A w \in Pool : \A j \in DOMAIN locals[w].nodes :
          /\ \A i \in DOMAIN b.nodes : b.nodes[i].id # locals[w].nodes[j].id
          /\ \A v \in Pool : \A i \in DOMAIN locals[v].nodes :
                locals[v].nodes[i].id = locals[w].nodes[j].id => v = w /\ i = j

\* b after the first k merges.
Merged(b, locals, k) ==
    {c \in Buffers :
        /\ Len(b.nodes) <= Len(c.nodes)
        /\ \A i \in DOMAIN b.nodes : /\ c.nodes[i].id = b.nodes[i].id
                                     /\ c.nodes[i].qn = b.nodes[i].qn
        /\ \A i \in DOMAIN c.nodes : i \notin DOMAIN b.nodes =>
              From(locals, k, c.nodes[i])
        /\ b.edges \subseteq c.edges
        /\ b.next <= c.next
        /\ Distinct(b, locals) => OneNodePerId(c)
        /\ Pure(b, text) /\ (\A w \in Pool : Pure(locals[w], text)) => Pure(c, text)}

\* Merging the next worker's buffer goes from one stage to the next.
LEMMA MergeMerges ==
    ASSUME NEW b \in Buffers, NEW locals \in [Pool -> Buffers], NEW k \in Pool,
           NEW c \in Merged(b, locals, k - 1)
    PROVE  Merge(c, locals[k]) \in Merged(b, locals, k)
<1> DEFINE d == Merge(c, locals[k])
           src == locals[k]
<1>0. /\ c \in Buffers /\ src \in Buffers
      /\ k \in Nat /\ 1..k \subseteq Pool /\ k \in 1..k
      /\ 1..(k - 1) \subseteq 1..k /\ k \notin 1..(k - 1)
  BY NumbersAssumption DEF Merged, Pool
<1>1. /\ d \in Buffers
      /\ Len(c.nodes) <= Len(d.nodes)
      /\ \A i \in DOMAIN c.nodes : /\ d.nodes[i].id = c.nodes[i].id
                                   /\ d.nodes[i].qn = c.nodes[i].qn
      /\ \A i \in DOMAIN d.nodes : i \notin DOMAIN c.nodes =>
            \E j \in DOMAIN src.nodes : d.nodes[i] = src.nodes[j]
      /\ c.edges \subseteq d.edges
      /\ c.next <= d.next
      /\ Pure(c, text) /\ Pure(src, text) => Pure(d, text)
  BY <1>0, MergeFacts
<1> HIDE DEF d
<1>2. /\ DOMAIN b.nodes = 1..Len(b.nodes) /\ Len(b.nodes) \in Nat
      /\ DOMAIN c.nodes = 1..Len(c.nodes) /\ Len(c.nodes) \in Nat
      /\ DOMAIN d.nodes = 1..Len(d.nodes) /\ Len(d.nodes) \in Nat
      /\ b.next \in Nat /\ c.next \in Nat /\ d.next \in Nat
      /\ OneNodePerName(d.nodes)
  BY <1>0, <1>1, BufferShape
<1>3. /\ Len(b.nodes) <= Len(c.nodes)
      /\ DOMAIN b.nodes \subseteq DOMAIN c.nodes
      /\ DOMAIN c.nodes \subseteq DOMAIN d.nodes
  BY <1>1, <1>2 DEF Merged
<1>4. Len(b.nodes) <= Len(d.nodes) /\ b.next <= d.next
  BY <1>1, <1>2 DEF Merged
<1>5. \A i \in DOMAIN b.nodes : /\ d.nodes[i].id = b.nodes[i].id
                                /\ d.nodes[i].qn = b.nodes[i].qn
  BY <1>1, <1>3 DEF Merged
<1>6. ASSUME NEW i \in DOMAIN d.nodes, i \notin DOMAIN b.nodes
      PROVE  From(locals, k, d.nodes[i])
  <2>1. CASE i \in DOMAIN c.nodes
    <3>1. From(locals, k - 1, c.nodes[i])
      BY <1>6, <2>1 DEF Merged
    <3> QED
      BY <3>1, <2>1, <1>0, <1>1 DEF From
  <2>2. CASE i \notin DOMAIN c.nodes
    BY <2>2, <1>0, <1>1 DEF From
  <2> QED
    BY <2>1, <2>2
<1>7. ASSUME Distinct(b, locals) PROVE OneNodePerId(d)
  <2>1. OneNodePerId(c)
    BY <1>7 DEF Merged
  <2>2. ASSUME NEW i \in DOMAIN c.nodes, NEW j \in DOMAIN d.nodes,
               j \notin DOMAIN c.nodes, d.nodes[i].id = d.nodes[j].id
        PROVE  FALSE
    <3>1. PICK y \in DOMAIN src.nodes : d.nodes[j] = src.nodes[y]
      BY <1>1, <2>2
    <3>2. CASE i \in DOMAIN b.nodes
      BY <3>1, <3>2, <2>2, <1>0, <1>5, <1>7 DEF Distinct
    <3>3. CASE i \notin DOMAIN b.nodes
      <4>1. From(locals, k - 1, c.nodes[i])
        BY <3>3 DEF Merged
      <4>2. PICK w \in 1..(k - 1) : \E x \in DOMAIN locals[w].nodes :
                    locals[w].nodes[x].id = c.nodes[i].id
        BY <4>1 DEF From
      <4>3. w \in Pool /\ w # k
        BY <1>0
      <4> QED
        BY <4>2, <4>3, <3>1, <2>2, <1>0, <1>1, <1>7 DEF Distinct
    <3> QED
      BY <3>2, <3>3
  <2>3. ASSUME NEW i \in DOMAIN d.nodes, NEW j \in DOMAIN d.nodes,
               i \notin DOMAIN c.nodes, j \notin DOMAIN c.nodes,
               d.nodes[i].id = d.nodes[j].id
        PROVE  i = j
    <3>1. PICK x \in DOMAIN src.nodes : d.nodes[i] = src.nodes[x]
      BY <1>1, <2>3
    <3>2. PICK y \in DOMAIN src.nodes : d.nodes[j] = src.nodes[y]
      BY <1>1, <2>3
    <3>3. x = y
      BY <3>1, <3>2, <2>3, <1>7 DEF Distinct
    <3> QED
      BY <3>1, <3>2, <3>3, <1>2 DEF OneNodePerName
  <2>4. \A i, j \in DOMAIN c.nodes : d.nodes[i].id = d.nodes[j].id => i = j
    BY <2>1, <1>1 DEF OneNodePerId
  <2> SUFFICES ASSUME NEW i \in DOMAIN d.nodes, NEW j \in DOMAIN d.nodes,
                      d.nodes[i].id = d.nodes[j].id
               PROVE  i = j
    BY DEF OneNodePerId
  <2> QED
    BY <2>2, <2>3, <2>4
<1>8. Pure(b, text) /\ (\A w \in Pool : Pure(locals[w], text)) => Pure(d, text)
  BY <1>1 DEF Merged
<1>9. b.edges \subseteq d.edges
  BY <1>1 DEF Merged
<1> QED
  BY <1>1, <1>4, <1>5, <1>6, <1>7, <1>8, <1>9 DEF Merged, d

\* All workers' buffers in the main one.
LEMMA MergingMerges ==
    ASSUME NEW b \in Buffers, NEW locals \in [Pool -> Buffers]
    PROVE  Merging!Fold(b, locals) \in Merged(b, locals, Workers)
<1> DEFINE Stage == [k \in 0..Workers |-> Merged(b, locals, k)]
<1>1. locals \in Seq(Buffers) /\ Len(locals) = Workers /\ Workers \in Nat
  BY NumbersAssumption DEF Pool
<1>2. b \in Merged(b, locals, 0)
  <2>1. Len(b.nodes) \in Nat /\ b.next \in Nat
    BY BufferShape
  <2>2. Distinct(b, locals) => OneNodePerId(b)
    BY DEF Distinct
  <2> QED
    BY <2>1, <2>2 DEF Merged
<1>3. b \in Stage[0]
  BY <1>1, <1>2
<1>4. ASSUME NEW k \in 1..Len(locals), NEW c \in Stage[k - 1]
      PROVE  Merge(c, locals[k]) \in Stage[k]
  <2>1. k \in Pool /\ c \in Merged(b, locals, k - 1) /\ k \in 0..Workers
    BY <1>1 DEF Pool
  <2>2. Merge(c, locals[k]) \in Merged(b, locals, k)
    BY <2>1, MergeMerges
  <2> QED
    BY <2>1, <2>2
<1>5. Merging!Fold(b, locals) \in Stage[Workers]
  <2> HIDE DEF Stage
  <2> QED
    BY <1>1, <1>3, <1>4, Merging!FoldStages
<1> QED
  BY <1>1, <1>5

\* The nodes with an id that the dump counts.
At(b, id) == {i \in DOMAIN b.nodes : id < b.next /\ b.nodes[i].id = id}

\* cbm_gbuf_dump_to_sqlite: rows in the order of the nodes; an edge whose ends
\* are the only nodes with their ids is stored between their names.
LEMMA DumpFacts ==
    ASSUME NEW b \in Buffers
    PROVE  /\ Dump(b) \in Graphs
           /\ DOMAIN Dump(b).nodes = DOMAIN b.nodes
           /\ \A i \in DOMAIN b.nodes :
                 /\ Dump(b).nodes[i].qn = b.nodes[i].qn
                 /\ Dump(b).nodes[i].label = b.nodes[i].label
                 /\ Dump(b).nodes[i].file = b.nodes[i].file
           /\ \A e \in b.edges : \A i, j \in DOMAIN b.nodes :
                 At(b, e.src) = {i} /\ At(b, e.tgt) = {j} =>
                    [src |-> b.nodes[i].qn, tgt |-> b.nodes[j].qn,
                     type |-> e.type] \in Dump(b).edges
<1> DEFINE n == Len(b.nodes)
           row(i) == [qn |-> b.nodes[i].qn, label |-> b.nodes[i].label,
                      file |-> b.nodes[i].file]
           rows == [i \in DOMAIN b.nodes |-> row(i)]
           Named(id) == b.nodes[Max(At(b, id))].qn
           D == {e \in b.edges : At(b, e.src) # {} /\ At(b, e.tgt) # {}}
           f == [e \in D |-> [src |-> Named(e.src), tgt |-> Named(e.tgt),
                              type |-> e.type]]
           E == {f[e] : e \in D}
           g == Dump(b)
<1>1. /\ b \in [nodes : Seq(NodeRecords), edges : SUBSET Edges(Nat), next : Nat]
      /\ OneNodePerName(b.nodes) /\ IsFiniteSet(b.edges)
      /\ DOMAIN b.nodes = 1..n /\ n \in Nat
      /\ \A i \in DOMAIN b.nodes : b.nodes[i] \in NodeRecords
  BY BufferShape
<1>2. \A i \in 1..n : row(i) \in Unnumbered
  BY <1>1 DEF Unnumbered, NodeRecords
<1>3. /\ rows \in Seq(Unnumbered) /\ DOMAIN rows = 1..n
      /\ \A i \in 1..n : rows[i] = row(i)
  <2>1. rows = [i \in 1..n |-> row(i)]
    BY <1>1
  <2> HIDE DEF rows, row, n
  <2>2. rows \in [1..n -> Unnumbered]
    BY <1>2, <2>1
  <2> QED
    BY <2>1, <2>2, <1>1
<1>4. ASSUME NEW id, At(b, id) # {}
      PROVE  Max(At(b, id)) \in 1..n
  <2>1. At(b, id) \in SUBSET (1..n)
    BY <1>1 DEF At
  <2> QED
    BY <2>1, <1>1, <1>4, MaxOfNats
<1>5. ASSUME NEW e \in D
      PROVE  /\ f[e] \in Edges(QNames)
             /\ \E i \in 1..n : f[e].src = b.nodes[i].qn
             /\ \E i \in 1..n : f[e].tgt = b.nodes[i].qn
  <2>1. Max(At(b, e.src)) \in 1..n /\ Max(At(b, e.tgt)) \in 1..n
    BY <1>4
  <2>2. f[e].src = b.nodes[Max(At(b, e.src))].qn
        /\ f[e].tgt = b.nodes[Max(At(b, e.tgt))].qn /\ f[e].type = e.type
    OBVIOUS
  <2>3. f[e] = [src |-> f[e].src, tgt |-> f[e].tgt, type |-> f[e].type]
    OBVIOUS
  <2>4. e.type \in Types
    BY <1>1 DEF Edges
  <2> HIDE DEF f
  <2>5. f[e].src \in QNames /\ f[e].tgt \in QNames
    BY <2>1, <2>2, <1>1 DEF NodeRecords
  <2> QED
    BY <2>1, <2>2, <2>3, <2>4, <2>5 DEF Edges
<1>6. E \in SUBSET Edges(QNames) /\ IsFiniteSet(E)
  <2>1. f = [e \in D |-> f[e]]
    OBVIOUS
  <2>2. IsFiniteSet(D)
    BY <1>1, FS_Subset
  <2> HIDE DEF f, D
  <2>3. IsFiniteSet(E)
    BY <2>1, <2>2, FiniteImage
  <2> QED
    BY <1>5, <2>3
<1>7. g = [nodes |-> rows, edges |-> E]
  BY DEF Dump, At
<1>8. \A i \in 1..n : /\ rows[i].qn = b.nodes[i].qn
                      /\ rows[i].label = b.nodes[i].label
                      /\ rows[i].file = b.nodes[i].file
  BY <1>3
<1>9. \A e \in b.edges : \A i, j \in DOMAIN b.nodes :
         At(b, e.src) = {i} /\ At(b, e.tgt) = {j} =>
            [src |-> b.nodes[i].qn, tgt |-> b.nodes[j].qn, type |-> e.type] \in E
  <2> SUFFICES ASSUME NEW e \in b.edges, NEW i \in DOMAIN b.nodes,
                      NEW j \in DOMAIN b.nodes,
                      At(b, e.src) = {i}, At(b, e.tgt) = {j}
               PROVE  [src |-> b.nodes[i].qn, tgt |-> b.nodes[j].qn,
                       type |-> e.type] \in E
    OBVIOUS
  <2>1. \A x \in 1..n : Max({x}) = x
    <3> SUFFICES ASSUME NEW x \in 1..n PROVE Max({x}) = x
      OBVIOUS
    <3>1. Max({x}) \in {x}
      BY <1>1, MaxOfNats
    <3> QED
      BY <3>1
  <2>2. Max(At(b, e.src)) = i /\ Max(At(b, e.tgt)) = j
    BY <2>1, <1>1
  <2>3. e \in D
    OBVIOUS
  <2>4. f[e] = [src |-> b.nodes[i].qn, tgt |-> b.nodes[j].qn, type |-> e.type]
    BY <2>2, <2>3
  <2> HIDE DEF f, D
  <2> QED
    BY <2>3, <2>4
<1>10. \A e \in E : /\ \E i \in 1..n : e.src = b.nodes[i].qn
                    /\ \E i \in 1..n : e.tgt = b.nodes[i].qn
  BY <1>5
<1> HIDE DEF g, rows, row, E, f, D
<1>11. /\ g.nodes = rows /\ g.edges = E
       /\ g \in [nodes : Seq(Unnumbered), edges : SUBSET Edges(QNames)]
  BY <1>3, <1>6, <1>7
<1>12. OneNodePerName(g.nodes)
  BY <1>1, <1>3, <1>8, <1>11 DEF OneNodePerName
<1>13. \A e \in g.edges : {e.src, e.tgt} \subseteq Names(g)
  <2>1. \A i \in 1..n : b.nodes[i].qn \in Names(g)
    BY <1>3, <1>8, <1>11 DEF Names, ToSet
  <2> QED
    BY <2>1, <1>10, <1>11
<1>14. g \in Graphs
  BY <1>6, <1>11, <1>12, <1>13 DEF Graphs, Unnumbered
<1> QED
  BY <1>1, <1>3, <1>8, <1>9, <1>11, <1>14 DEF g

\* incr_capture_inbound_edge keeps what points from outside into files.
LEMMA CaptureFacts ==
    ASSUME NEW b \in Buffers, NEW files
    PROVE  /\ Capture(b, files) \in SUBSET Edges(QNames)
           /\ IsFiniteSet(Capture(b, files))
           /\ \A e \in b.edges : \A m, n \in ToSet(b.nodes) :
                 m.id = e.src /\ n.id = e.tgt
                   /\ n.file \in files /\ m.file \notin files =>
                 [src |-> m.qn, tgt |-> n.qn, type |-> e.type]
                    \in Capture(b, files)
<1> DEFINE N == ToSet(b.nodes)
           W == b.edges \X N \X N
           D == {x \in W : /\ x[2].id = x[1].src /\ x[3].id = x[1].tgt
                           /\ x[3].file \in files /\ x[2].file \notin files}
           f == [y \in D |-> [src |-> y[2].qn, tgt |-> y[3].qn,
                              type |-> y[1].type]]
           E == {f[y] : y \in D}
<1>1. /\ IsFiniteSet(b.edges) /\ b.edges \in SUBSET Edges(Nat)
      /\ b.nodes \in Seq(NodeRecords)
      /\ \A n \in N : n \in NodeRecords
  BY BufferShape DEF ToSet
<1>2. IsFiniteSet(N)
  BY <1>1, FiniteRange
<1>3. IsFiniteSet(D)
  <2>1. IsFiniteSet(W)
    <3> DEFINE P == N \X N
               Q == b.edges \X P
               g == [z \in Q |-> <<z[1], z[2][1], z[2][2]>>]
    <3>1. IsFiniteSet(Q)
      <4>1. IsFiniteSet(P)
        BY <1>2, FS_Product
      <4> HIDE DEF P
      <4> QED
        BY <4>1, <1>1, FS_Product
    <3>2. \A x \in W : \E z \in Q : x = g[z]
      <4> SUFFICES ASSUME NEW x \in W PROVE \E z \in Q : x = g[z]
        OBVIOUS
      <4>1. <<x[1], <<x[2], x[3]>>>> \in Q
        OBVIOUS
      <4>2. g[<<x[1], <<x[2], x[3]>>>>] = <<x[1], x[2], x[3]>>
        BY <4>1
      <4>3. x = <<x[1], x[2], x[3]>>
        OBVIOUS
      <4> QED
        BY <4>1, <4>2, <4>3
    <3>3. g = [z \in Q |-> g[z]]
      OBVIOUS
    <3> HIDE DEF g, Q, W
    <3>4. IsFiniteSet({g[z] : z \in Q})
      BY <3>1, <3>3, FiniteImage
    <3>5. W \in SUBSET {g[z] : z \in Q}
      BY <3>2
    <3> QED
      BY <3>4, <3>5, FS_Subset
  <2>2. D \in SUBSET W
    OBVIOUS
  <2> HIDE DEF D, W
  <2> QED
    BY <2>1, <2>2, FS_Subset
<1>4. Capture(b, files) = E
  BY DEF Capture
<1>5. IsFiniteSet(E)
  <2>1. f = [y \in D |-> f[y]]
    OBVIOUS
  <2> HIDE DEF f, D
  <2> QED
    BY <1>3, <2>1, FiniteImage
<1>6. \A y \in D : f[y] \in Edges(QNames)
  <2> SUFFICES ASSUME NEW y \in D PROVE f[y] \in Edges(QNames)
    OBVIOUS
  <2>1. y[1] \in b.edges /\ y[2] \in N /\ y[3] \in N
    OBVIOUS
  <2>2. y[1].type \in Types
    BY <2>1, <1>1 DEF Edges
  <2>3. y[2].qn \in QNames /\ y[3].qn \in QNames
    BY <2>1, <1>1 DEF NodeRecords
  <2>4. f[y] = [src |-> y[2].qn, tgt |-> y[3].qn, type |-> y[1].type]
    OBVIOUS
  <2> HIDE DEF f
  <2> QED
    BY <2>2, <2>3, <2>4 DEF Edges
<1>7. ASSUME NEW e \in b.edges, NEW m \in N, NEW n \in N,
             m.id = e.src, n.id = e.tgt, n.file \in files, m.file \notin files
      PROVE  [src |-> m.qn, tgt |-> n.qn, type |-> e.type] \in E
  <2>1. <<e, m, n>> \in D
    BY <1>7
  <2>2. f[<<e, m, n>>] = [src |-> m.qn, tgt |-> n.qn, type |-> e.type]
    BY <2>1
  <2> HIDE DEF f, D
  <2> QED
    BY <2>1, <2>2
<1> QED
  BY <1>4, <1>5, <1>6, <1>7

\* The seeded registry holds names.
LEMMA SeedTyped ==
    ASSUME NEW b \in Buffers
    PROVE  Seed(b) \in Seq(QNames)
<1> DEFINE S == {n \in ToSet(b.nodes) : n.label = "Function"}
           symbols == Keep(b.nodes, S)
<1>1. symbols \in Seq(NodeRecords)
  BY BufferShape, KeepCorrect
<1>2. Seed(b) = [i \in DOMAIN symbols |-> symbols[i].qn]
  BY DEF Seed
<1> HIDE DEF symbols
<1>3. \A i \in DOMAIN symbols : symbols[i].qn \in QNames
  <2>1. \A i \in DOMAIN symbols : symbols[i] \in NodeRecords
    BY <1>1
  <2> QED
    BY <2>1 DEF NodeRecords
<1> QED
  BY <1>1, <1>2, <1>3

----------------------------------------------------------------------------
(* The invariant of types and owners, action by action.                    *)

Running == phase \notin {"none", "idle"}

\* The files of a run are there, once each, and have a node; workers hold
\* positions of files, in the two phases that have workers.
RunOK ==
    /\ todo \in Seq(Present) /\ IsInjective(todo) /\ Len(todo) <= Len(Order)
    /\ ~Running => todo = <<>>
    /\ Running => \A i \in DOMAIN todo : Has(gbuf, FileName(todo[i]))
    /\ phase \notin {"extract", "resolve"} =>
          local = NoLocals /\ at = [w \in Pool |-> None]
    /\ \A w \in Pool : at[w] \in 0..Len(todo)

\* What is in a file belongs to it, in the database and in every buffer.
OwnersOK ==
    /\ \A i \in DOMAIN db.nodes : Proper(db.nodes[i], indexed)
    /\ Running => Pure(gbuf, text) /\ \A w \in Pool : Pure(local[w], text)

Owns == TypeOK /\ RunOK /\ OwnersOK

\* The files in the order of their discovery are all files, each once.
LEMMA OrderTyped ==
    /\ Order \in Seq(Files) /\ IsInjective(Order) /\ ToSet(Order) = Files
    /\ Len(Order) \in Nat
<1>1. Order \in Seq(Files) /\ IsInjective(Order)
  BY FilesAssumption
<1>2. Len(Order) \in Nat
  BY <1>1
<1> QED
  BY <1>1, <1>2 DEF Files

\* Some of the files in the order of their discovery are each there once.
LEMMA KeptFiles ==
    ASSUME NEW S \in SUBSET Files
    PROVE  /\ Keep(Order, S) \in Seq(S) /\ IsInjective(Keep(Order, S))
           /\ Len(Keep(Order, S)) <= Len(Order)
           /\ ToSet(Keep(Order, S)) = S
<1> DEFINE k == Keep(Order, S)
<1>1. k \in Seq(S) /\ Len(k) <= Len(Order) /\ IsInjective(k)
      /\ ToSet(k) = ToSet(Order) \cap S
  BY OrderTyped, KeepCorrect
<1> HIDE DEF k
<1>2. ToSet(k) = S
  BY <1>1, OrderTyped
<1> QED
  BY <1>1, <1>2 DEF k

\* The workers' buffers before a run.
LEMMA NoLocalsTyped ==
    /\ NoLocals \in [Pool -> Buffers]
    /\ \A w \in Pool : NoLocals[w].nodes = <<>> /\ Pure(NoLocals[w], text)
BY EmptyBufferTyped DEF NoLocals

\* Owns holds at first.
LEMMA InitOwns == Init => Owns
<1> SUFFICES ASSUME Init PROVE Owns
  OBVIOUS
<1>1. text \in [Files -> Texts \cup {Absent}]
      /\ indexed \in [Files -> Texts \cup {Absent}]
  BY TextsAssumption DEF Init
<1>2. db.nodes = <<>> /\ db.edges = {} /\ db \in Graphs
  <2>1. /\ db = [nodes |-> <<>>, edges |-> {}]
        /\ db \in [nodes : Seq(Unnumbered), edges : SUBSET Edges(QNames)]
    BY DEF Init
  <2>2. IsFiniteSet(db.edges) /\ DOMAIN db.nodes = {}
    BY <2>1, FS_EmptySet
  <2> QED
    BY <2>1, <2>2 DEF Graphs, Unnumbered, OneNodePerName
<1>3. Len(Order) \in Nat
  BY OrderTyped
<1>4. saved \in SUBSET Edges(QNames) /\ IsFiniteSet(saved)
  BY FS_EmptySet DEF Init
<1>5. todo \in Seq(Present) /\ Len(todo) = 0 /\ IsInjective(todo)
      /\ todo \in Seq(Files)
  BY DEF Init, IsInjective
<1>6. TypeOK
  <2>1. next \in 1..(Len(Order) + 1) /\ at \in [Pool -> 0..Len(Order)]
    BY <1>3 DEF Init, None
  <2>2. local \in [Pool -> Buffers] /\ gbuf \in Buffers
    BY EmptyBufferTyped, NoLocalsTyped DEF Init
  <2>3. runs \in 0..MaxRuns /\ edits \in 0..MaxEdits
    BY NumbersAssumption DEF Init
  <2>4. registry \in Seq(QNames) /\ shared \in Nat /\ phase = "none"
    BY DEF Init
  <2>5. full \in BOOLEAN /\ calm \in BOOLEAN /\ exact \in BOOLEAN
    BY DEF Init
  <2> QED
    BY <1>1, <1>2, <1>4, <1>5, <2>1, <2>2, <2>3, <2>4, <2>5 DEF TypeOK
<1>7. RunOK
  BY <1>3, <1>5 DEF Init, RunOK, Running, None
<1>8. OwnersOK
  BY <1>2 DEF Init, OwnersOK, Running
<1> QED
  BY <1>6, <1>7, <1>8 DEF Owns

\* An edit leaves the database and its texts alone.
LEMMA EditOwns ==
    ASSUME Owns, NEW f \in Files, NEW t \in Texts \cup {Absent}, Edit(f, t)
    PROVE  Owns'
<1>1. /\ text' \in [Files -> Texts \cup {Absent}]
      /\ edits' \in 0..MaxEdits /\ calm' \in BOOLEAN
  BY NumbersAssumption DEF Edit, Owns, TypeOK
<1>2. TypeOK'
  BY <1>1 DEF Edit, run, Owns, TypeOK
<1>3. phase = "idle" /\ phase' = phase /\ todo = <<>> /\ todo' = <<>>
  BY DEF Edit, run, Owns, RunOK, Running
<1>4. RunOK'
  <2>1. todo' \in Seq(Present')
    BY <1>3
  <2> QED
    BY <1>3, <2>1 DEF Edit, run, Owns, RunOK, Running, NoLocals
<1>5. OwnersOK'
  BY <1>3 DEF Edit, run, Owns, OwnersOK, Running
<1> QED
  BY <1>2, <1>4, <1>5 DEF Owns

\* The beginning of a run, on a buffer that has a node for its files.
LEMMA BeginOwns ==
    ASSUME Owns, NEW files \in Seq(Present), IsInjective(files),
           Len(files) <= Len(Order), NEW buf \in Buffers, Pure(buf, text),
           \A i \in DOMAIN files : Has(buf, FileName(files[i])),
           full' \in BOOLEAN, calm' \in BOOLEAN, registry' \in Seq(QNames),
           saved' \in SUBSET Edges(QNames), IsFiniteSet(saved'),
           Begin(files, buf)
    PROVE  Owns'
<1>1. Len(Order) \in Nat /\ Len(files) \in Nat
  BY OrderTyped
<1>2. /\ phase' \in {"extract", "passes"}
      /\ todo' = files /\ gbuf' = buf /\ next' = 1
      /\ at' = [w \in Pool |-> None] /\ local' = NoLocals
      /\ shared' = buf.next /\ UNCHANGED <<text, indexed, db, edits>>
  BY DEF Begin
<1>3. exact' \in BOOLEAN /\ runs' \in 0..MaxRuns
  BY NumbersAssumption DEF Begin, Owns, TypeOK
<1>4. files \in Seq(Files)
  BY DEF Present
<1>5. TypeOK'
  <2>1. next' \in 1..(Len(Order) + 1) /\ at' \in [Pool -> 0..Len(Order)]
    BY <1>1, <1>2 DEF None
  <2>2. local' \in [Pool -> Buffers] /\ gbuf' \in Buffers /\ shared' \in Nat
    BY <1>2, NoLocalsTyped, BufferShape
  <2> QED
    BY <1>2, <1>3, <1>4, <2>1, <2>2 DEF Owns, TypeOK
<1>6. RunOK'
  <2>1. Present' = Present
    BY <1>2 DEF Present
  <2>2. \A w \in Pool : at'[w] \in 0..Len(files)
    BY <1>1, <1>2 DEF None
  <2> QED
    BY <1>2, <2>1, <2>2 DEF RunOK, Running, NoLocals, FileName, Has, Names
<1>7. OwnersOK'
  BY <1>2, NoLocalsTyped DEF Owns, OwnersOK
<1> QED
  BY <1>5, <1>6, <1>7 DEF Owns

\* A full run begins with the structure of all files.
LEMMA StartFullOwns ==
    ASSUME Owns, StartFull
    PROVE  Owns'
<1>1. Present \in SUBSET Files /\ Existing = Keep(Order, Present)
  BY DEF Present, Existing, FilesOf
<1>2. /\ Existing \in Seq(Present) /\ IsInjective(Existing)
      /\ Len(Existing) <= Len(Order)
  BY <1>1, KeptFiles
<1>3. TextOK
  BY DEF TextOK, Owns, TypeOK
<1>4. /\ Leads(EmptyBuffer, Structure(Existing), {"project", "module", "file"},
               text)
      /\ \A i \in DOMAIN Existing : Has(Structure(Existing), FileName(Existing[i]))
  BY <1>2, <1>3, StructureLeads
<1>5. Structure(Existing) \in Buffers /\ Pure(Structure(Existing), text)
  BY <1>4, EmptyBufferTyped DEF Leads
<1>6. /\ full' \in BOOLEAN /\ calm' \in BOOLEAN /\ registry' \in Seq(QNames)
      /\ saved' \in SUBSET Edges(QNames) /\ IsFiniteSet(saved')
      /\ Begin(Existing, Structure(Existing))
  <2>1. full' = TRUE /\ calm' = TRUE /\ registry' = <<>> /\ saved' = {}
        /\ Begin(Existing, Structure(Existing))
    BY DEF StartFull
  <2>2. registry' \in Seq(QNames) /\ saved' \in SUBSET Edges(QNames)
    BY <2>1
  <2> QED
    BY <2>1, <2>2, FS_EmptySet
<1> QED
  BY <1>2, <1>4, <1>5, <1>6, BeginOwns

\* What is left of the stored graph belongs to the files as they are now.
LEMMA RestOwned ==
    ASSUME Owns
    PROVE  /\ Load(db) \in Buffers
           /\ Purge(Load(db)) \in Buffers /\ Compact(Purge(Load(db)))
           /\ Pure(Purge(Load(db)), text)
<1> DEFINE b == Load(db)
           c == Purge(b)
<1>1. /\ b \in Buffers /\ Compact(b) /\ DOMAIN b.nodes = DOMAIN db.nodes
      /\ \A i \in DOMAIN db.nodes :
            /\ b.nodes[i].qn = db.nodes[i].qn
            /\ b.nodes[i].label = db.nodes[i].label
            /\ b.nodes[i].file = db.nodes[i].file
  BY LoadFacts DEF Owns, TypeOK
<1> HIDE DEF b
<1>2. /\ c \in Buffers /\ Compact(c)
      /\ ToSet(c.nodes) = {n \in ToSet(b.nodes) : n.file \notin Changed \cup Deleted}
  BY <1>1, DeleteFacts DEF Purge
<1> HIDE DEF c
<1>3. ASSUME NEW i \in DOMAIN c.nodes PROVE Proper(c.nodes[i], text)
  <2>1. c.nodes[i] \in ToSet(b.nodes) /\ c.nodes[i].file \notin Changed \cup Deleted
    BY <1>2 DEF ToSet
  <2>2. PICK j \in DOMAIN b.nodes : b.nodes[j] = c.nodes[i]
    BY <2>1 DEF ToSet
  <2>3. Proper(db.nodes[j], indexed)
    BY <2>2, <1>1 DEF Owns, OwnersOK
  <2>4. Proper(c.nodes[i], indexed)
    BY <2>2, <2>3, <1>1 DEF Proper, Owned, Placed
  <2>5. ASSUME NEW f \in Files, f \notin Changed \cup Deleted
        PROVE  text[f] = indexed[f]
    BY <2>5 DEF Changed, Deleted
  <2> QED
    BY <2>1, <2>4, <2>5 DEF Proper, Owned, Placed
<1>4. Pure(c, text)
  BY <1>3 DEF Pure
<1> QED
  BY <1>1, <1>2, <1>4 DEF b, c

\* The buffer an incremental run begins with.
LEMMA PreparedLeads ==
    ASSUME Owns, NEW files \in Seq(Present)
    PROVE  LET rest == Purge(Load(db))
               buf == UpsertAll(rest, [i \in DOMAIN files |-> FileNode(files[i])])
           IN  /\ Leads(rest, buf, {"file"}, text)
               /\ \A i \in DOMAIN files : Has(buf, FileName(files[i]))
               /\ buf.edges = rest.edges
<1> DEFINE rest == Purge(Load(db))
           nodes == [i \in DOMAIN files |-> FileNode(files[i])]
<1>1. \A f \in Present : /\ FileNode(f) \in Unnumbered /\ Proper(FileNode(f), text)
                         /\ FileNode(f).qn = FileName(f)
                         /\ FileName(f)[1] = "file"
  BY StructureTyped
<1>2. /\ DOMAIN nodes = 1..Len(files) /\ Len(files) \in Nat
      /\ \A i \in 1..Len(files) : nodes[i] = FileNode(files[i])
                                  /\ files[i] \in Present
  OBVIOUS
<1>3. nodes \in Seq(Unnumbered)
  <2>1. nodes = [i \in 1..Len(files) |-> nodes[i]]
    BY <1>2
  <2> HIDE DEF nodes
  <2>2. nodes \in [1..Len(files) -> Unnumbered]
    BY <1>1, <1>2, <2>1
  <2> QED
    BY <1>2, <2>2
<1> HIDE DEF nodes, rest
<1>4. \A i \in DOMAIN nodes : /\ Proper(nodes[i], text)
                              /\ nodes[i].qn[1] \in {"file"}
                              /\ nodes[i].qn = FileName(files[i])
  BY <1>1, <1>2
<1>5. rest \in Buffers
  BY RestOwned DEF rest
<1>6. /\ Leads(rest, UpsertAll(rest, nodes), {"file"}, text)
      /\ \A i \in DOMAIN nodes : Has(UpsertAll(rest, nodes), nodes[i].qn)
      /\ UpsertAll(rest, nodes).edges = rest.edges
  BY <1>3, <1>4, <1>5, UpsertAllLeads
<1>7. \A i \in DOMAIN files : Has(UpsertAll(rest, nodes), FileName(files[i]))
  BY <1>2, <1>4, <1>6
<1> QED
  BY <1>6, <1>7 DEF rest, nodes

\* An incremental run begins with what no edit touched.
LEMMA StartIncrementalOwns ==
    ASSUME Owns, StartIncremental
    PROVE  Owns'
<1> DEFINE rest == Purge(Load(db))
           files == Keep(Order, Changed)
           buf == UpsertAll(rest, [i \in DOMAIN files |-> FileNode(files[i])])
<1>1. files \in Seq(Present) /\ IsInjective(files) /\ Len(files) <= Len(Order)
  <2>1. Changed \in SUBSET Files /\ Changed \subseteq Present
    BY DEF Changed, Present
  <2>2. files \in Seq(Changed) /\ IsInjective(files) /\ Len(files) <= Len(Order)
    BY <2>1, KeptFiles
  <2> HIDE DEF files
  <2> QED
    BY <2>1, <2>2
<1>2. rest \in Buffers /\ Pure(rest, text) /\ Load(db) \in Buffers
  BY RestOwned
<1>3. /\ full' = FALSE /\ saved' = Capture(Load(db), Changed)
      /\ registry' = Seed(rest) /\ calm' = calm /\ Begin(files, buf)
  BY DEF StartIncremental
<1> HIDE DEF files
<1>4. /\ Leads(rest, buf, {"file"}, text)
      /\ \A i \in DOMAIN files : Has(buf, FileName(files[i]))
  BY <1>1, PreparedLeads
<1> HIDE DEF rest, buf
<1>5. buf \in Buffers /\ Pure(buf, text)
  BY <1>2, <1>4 DEF Leads
<1>6. saved' \in SUBSET Edges(QNames) /\ IsFiniteSet(saved')
  BY <1>2, <1>3, CaptureFacts
<1>7. registry' \in Seq(QNames) /\ full' \in BOOLEAN /\ calm' \in BOOLEAN
  BY <1>2, <1>3, SeedTyped DEF Owns, TypeOK
<1> QED
  BY <1>1, <1>3, <1>4, <1>5, <1>6, <1>7, BeginOwns

\* A pass that works on the main buffer.
LEMMA PassOwns ==
    ASSUME Owns, Running, NEW kinds, Leads(gbuf, gbuf', kinds, text),
           registry' \in Seq(QNames), phase \notin {"extract", "resolve"},
           phase' \in {"calls", "finish", "resolve"},
           UNCHANGED <<text, indexed, db, full, todo, saved, next, at, local,
                       shared, hist>>
    PROVE  Owns'
<1>1. gbuf \in Buffers /\ gbuf' \in Buffers /\ Grows(gbuf, gbuf')
  BY DEF Owns, TypeOK, Leads
<1>2. TypeOK'
  BY <1>1 DEF hist, Owns, TypeOK
<1>3. Running'
  BY DEF Running
<1>4. \A i \in DOMAIN todo : Has(gbuf', FileName(todo[i]))
  BY <1>1, GrowsKeepsNames DEF Owns, RunOK
<1>5. RunOK'
  <2>1. Present' = Present
    BY DEF Present
  <2>2. \A i \in DOMAIN todo' : Has(gbuf, FileName(todo[i]))'
    BY <1>4 DEF Has, Names, FileName
  <2> QED
    BY <1>3, <2>1, <2>2 DEF Owns, RunOK, NoLocals
<1>6. OwnersOK'
  BY DEF Owns, OwnersOK, Leads
<1> QED
  BY <1>2, <1>5, <1>6 DEF Owns

\* The sequential passes over definitions and channels.
LEMMA DefinePassesLeads ==
    ASSUME Owns, DefinePasses
    PROVE  Leads(gbuf, gbuf', {"module", "def", "channel"}, text)
<1>1. TextOK /\ gbuf \in Buffers /\ todo \in Seq(Present)
  BY DEF TextOK, Owns, TypeOK, RunOK
<1> DEFINE b == Defining!Fold(gbuf, todo)
<1>2. Leads(gbuf, b, {"module", "def"}, text)
  BY <1>1, LoopsLead
<1> HIDE DEF b
<1>3. b \in Buffers
  BY <1>2 DEF Leads
<1>4. Leads(b, Emitting!Fold(b, todo), {"channel"}, text)
  BY <1>1, <1>3, LoopsLead
<1>5. gbuf' = Emitting!Fold(b, todo)
  BY DEF DefinePasses, b
<1> QED
  BY <1>1, <1>2, <1>4, <1>5, LeadsTransitive

\* The sequential pass over calls.
LEMMA CallPassesLeads ==
    ASSUME Owns, CallPasses
    PROVE  Leads(gbuf, gbuf', {"route"}, text)
<1> DEFINE F == {f \in Present : Has(gbuf, FileName(f))}
<1>1. TextOK /\ gbuf \in Buffers /\ todo \in Seq(Present)
      /\ registry \in Seq(QNames)
      /\ \A i \in DOMAIN todo : Has(gbuf, FileName(todo[i]))
  BY DEF TextOK, Owns, TypeOK, RunOK, Running, CallPasses
<1>2. todo \in Seq(F)
  <2>1. \A i \in 1..Len(todo) : todo[i] \in F
    BY <1>1
  <2> HIDE DEF F
  <2> QED
    BY <1>1, <2>1
<1>3. Leads(gbuf, Resolving!Fold(gbuf, todo), {"route"}, text)
  BY <1>1, <1>2, ResolvingLeads
<1> QED
  BY <1>3 DEF CallPasses

\* The registry pass of a parallel run.
LEMMA BuildRegistryLeads ==
    ASSUME Owns, BuildRegistry
    PROVE  Leads(gbuf, gbuf', {"channel"}, text)
<1>1. TextOK /\ gbuf \in Buffers /\ todo \in Seq(Present)
  BY DEF TextOK, Owns, TypeOK, RunOK
<1> QED
  BY <1>1, LoopsLead DEF BuildRegistry

\* The passes on the main buffer.
LEMMA PassesOwn ==
    ASSUME Owns, DefinePasses \/ CallPasses \/ BuildRegistry
    PROVE  Owns'
<1>1. TextOK /\ todo \in Seq(Present) /\ registry \in Seq(QNames)
  BY DEF TextOK, Owns, TypeOK, RunOK
<1>2. RegisterAll(registry, todo, text) \in Seq(QNames)
  BY <1>1, RegisterTyped
<1>3. CASE DefinePasses
  <2>1. Leads(gbuf, gbuf', {"module", "def", "channel"}, text)
    BY <1>3, DefinePassesLeads
  <2>2. /\ Running /\ registry' \in Seq(QNames) /\ phase = "passes"
        /\ phase' = "calls"
        /\ UNCHANGED <<text, indexed, db, full, todo, saved, next, at, local,
                       shared, hist>>
    BY <1>2, <1>3 DEF DefinePasses, Running
  <2> QED
    BY <2>1, <2>2, PassOwns
<1>4. CASE CallPasses
  <2>1. Leads(gbuf, gbuf', {"route"}, text)
    BY <1>4, CallPassesLeads
  <2>2. /\ Running /\ registry' \in Seq(QNames) /\ phase = "calls"
        /\ phase' = "finish"
        /\ UNCHANGED <<text, indexed, db, full, todo, saved, next, at, local,
                       shared, hist>>
    BY <1>1, <1>4 DEF CallPasses, Running
  <2> QED
    BY <2>1, <2>2, PassOwns
<1>5. CASE BuildRegistry
  <2>1. Leads(gbuf, gbuf', {"channel"}, text)
    BY <1>5, BuildRegistryLeads
  <2>2. /\ Running /\ registry' \in Seq(QNames) /\ phase = "registry"
        /\ phase' = "resolve"
        /\ UNCHANGED <<text, indexed, db, full, todo, saved, next, at, local,
                       shared, hist>>
    BY <1>2, <1>5 DEF BuildRegistry, Running
  <2> QED
    BY <2>1, <2>2, PassOwns
<1> QED
  BY <1>3, <1>4, <1>5

\* A worker takes a file.
LEMMA TakeOwns ==
    ASSUME Owns, NEW w \in Pool, Take(w)
    PROVE  Owns'
<1>1. /\ next \in 1..Len(todo) /\ Len(todo) \in Nat /\ Len(Order) \in Nat
      /\ Len(todo) <= Len(Order)
  <2>1. next \in 1..(Len(Order) + 1) /\ todo \in Seq(Files)
        /\ next <= Len(todo) /\ Len(todo) <= Len(Order)
    BY DEF Take, Owns, TypeOK, RunOK
  <2> QED
    BY <2>1, OrderTyped
<1>2. /\ next' \in 1..(Len(Order) + 1)
      /\ at' \in [Pool -> 0..Len(Order)]
      /\ \A v \in Pool : at'[v] \in 0..Len(todo)
  BY <1>1 DEF Take, Owns, TypeOK, RunOK
<1>3. TypeOK'
  BY <1>2 DEF Take, hist, Owns, TypeOK
<1>4. RunOK'
  <2>1. Present' = Present /\ Running' = Running
    BY DEF Take, Present, Running
  <2>2. \A i : Has(gbuf, FileName(todo[i]))' <=> Has(gbuf, FileName(todo[i]))
    BY DEF Take, Has, Names, FileName
  <2> QED
    BY <1>2, <2>1, <2>2 DEF Take, Owns, RunOK, NoLocals
<1>5. OwnersOK'
  BY DEF Take, Running, Owns, OwnersOK
<1> QED
  BY <1>3, <1>4, <1>5 DEF Owns

\* The buffer of a worker, with the shared counter.
LEMMA MineTyped ==
    ASSUME Owns, Running, NEW w \in Pool
    PROVE  /\ Mine(w) \in Buffers /\ Mine(w).nodes = local[w].nodes
           /\ Mine(w).edges = local[w].edges /\ Mine(w).next = shared
           /\ Pure(Mine(w), text)
<1>1. local[w] \in Buffers /\ shared \in Nat /\ Pure(local[w], text)
  BY DEF Owns, TypeOK, OwnersOK
<1>2. /\ local[w] \in [nodes : Seq(NodeRecords), edges : SUBSET Edges(Nat),
                       next : Nat]
      /\ OneNodePerName(local[w].nodes) /\ IsFiniteSet(local[w].edges)
  BY <1>1, BufferShape
<1>3. /\ Mine(w) \in [nodes : Seq(NodeRecords), edges : SUBSET Edges(Nat),
                      next : Nat]
      /\ Mine(w).nodes = local[w].nodes /\ Mine(w).edges = local[w].edges
      /\ Mine(w).next = shared
  BY <1>1, <1>2, RecordUpdate DEF IsBuffer, Mine
<1> QED
  BY <1>1, <1>2, <1>3 DEF Buffers, NodeRecords, Pure

\* A worker's buffer goes on from the shared ids.
LEMMA WorkOwns ==
    ASSUME Owns, Running, phase \in {"extract", "resolve"}, NEW w \in Pool,
           NEW buf, NEW kinds, Leads(Mine(w), buf, kinds, text), Work(w, buf)
    PROVE  Owns'
<1>1. buf \in Buffers /\ Pure(buf, text) /\ buf.next \in Nat
  <2>1. buf \in Buffers /\ Pure(buf, text)
    BY MineTyped DEF Leads
  <2> QED
    BY <2>1, BufferShape
<1>2. /\ local' \in [Pool -> Buffers]
      /\ \A v \in Pool : local'[v] = IF v = w THEN buf ELSE local[v]
      /\ at' \in [Pool -> 0..Len(Order)]
      /\ \A v \in Pool : at'[v] \in 0..Len(todo)
  <2>1. local \in [Pool -> Buffers] /\ local' = [local EXCEPT ![w] = buf]
    BY DEF Work, Owns, TypeOK
  <2>2. /\ at \in [Pool -> 0..Len(Order)] /\ at' = [at EXCEPT ![w] = 0]
        /\ \A v \in Pool : at[v] \in 0..Len(todo)
        /\ Len(Order) \in Nat /\ Len(todo) \in Nat
    BY OrderTyped DEF Work, None, Owns, TypeOK, RunOK
  <2> QED
    BY <1>1, <2>1, <2>2
<1>3. TypeOK'
  BY <1>1, <1>2 DEF Work, hist, Owns, TypeOK
<1>4. RunOK'
  <2>1. Present' = Present /\ Running' = Running
    BY DEF Work, Present, Running
  <2>2. \A i : Has(gbuf, FileName(todo[i]))' <=> Has(gbuf, FileName(todo[i]))
    BY DEF Work, Has, Names, FileName
  <2> QED
    BY <1>2, <2>1, <2>2 DEF Work, Owns, RunOK
<1>5. OwnersOK'
  BY <1>1, <1>2 DEF Work, Running, Owns, OwnersOK
<1> QED
  BY <1>3, <1>4, <1>5 DEF Owns

\* The order by size has the same files.
LEMMA SortedFacts ==
    ASSUME Owns
    PROVE  Sorted \in Seq(Present) /\ Len(Sorted) = Len(todo)
<1>1. todo \in Seq(Present) /\ IsInjective(todo) /\ todo \in Seq(Files)
  BY DEF Owns, RunOK, TypeOK
<1>2. /\ BySize \in Seq(Files) /\ IsInjective(BySize) /\ ToSet(BySize) = Files
  BY FilesAssumption
<1>3. /\ Sorted \in Seq(Files) /\ Sorted \in Seq(ToSet(todo))
      /\ ToSet(Sorted) = ToSet(BySize) \cap ToSet(todo)
      /\ IsInjective(Sorted)
  <2> DEFINE S == ToSet(todo)
             k == Keep(BySize, S)
  <2>1. k \in Seq(Files) /\ k \in Seq(S) /\ ToSet(k) = ToSet(BySize) \cap S
        /\ IsInjective(k)
    <3> HIDE DEF S
    <3> QED
      BY <1>2, KeepCorrect
  <2>2. Sorted = k
    BY DEF Sorted
  <2> HIDE DEF k
  <2> QED
    BY <2>1, <2>2
<1>4. ToSet(todo) \subseteq Present /\ ToSet(todo) \subseteq Files
  BY <1>1 DEF ToSet
<1>5. Len(Sorted) = Len(todo)
  <2>1. ToSet(Sorted) = ToSet(todo)
    BY <1>2, <1>3, <1>4
  <2> QED
    BY <1>1, <1>3, <2>1, SameLength
<1> HIDE DEF Sorted
<1>6. Sorted \in Seq(Present)
  BY <1>3, <1>4
<1> QED
  BY <1>5, <1>6

\* extract_worker, on the worker's own buffer.
LEMMA ExtractLeads ==
    ASSUME Owns, NEW w \in Pool, Extract(w)
    PROVE  /\ Leads(Mine(w), AddDefs(Mine(w), Sorted[at[w]]), {"module", "def"},
                    text)
           /\ Work(w, AddDefs(Mine(w), Sorted[at[w]])) /\ Running
<1>1. Running /\ at[w] # 0 /\ at[w] \in 0..Len(todo) /\ TextOK
      /\ Work(w, AddDefs(Mine(w), Sorted[at[w]])) /\ todo \in Seq(Files)
  BY DEF Extract, None, Running, TextOK, Owns, TypeOK, RunOK
<1>2. Sorted[at[w]] \in Present
  <2>1. at[w] \in 1..Len(Sorted)
    BY <1>1, SortedFacts
  <2> QED
    BY <2>1, SortedFacts
<1>3. Mine(w) \in Buffers
  BY <1>1, MineTyped
<1> QED
  BY <1>1, <1>2, <1>3, AddDefsLeads

\* resolve_worker, on the worker's own buffer.
LEMMA ResolveFileLeads ==
    ASSUME Owns, NEW w \in Pool, ResolveFile(w)
    PROVE  /\ Leads(Mine(w), ResolveCalls(Mine(w), gbuf, todo[at[w]]), {"route"},
                    text)
           /\ Work(w, ResolveCalls(Mine(w), gbuf, todo[at[w]])) /\ Running
<1>1. /\ Running /\ at[w] # 0 /\ at[w] \in 0..Len(todo) /\ TextOK
      /\ Work(w, ResolveCalls(Mine(w), gbuf, todo[at[w]]))
      /\ todo \in Seq(Present) /\ gbuf \in Buffers /\ registry \in Seq(QNames)
      /\ \A i \in DOMAIN todo : Has(gbuf, FileName(todo[i]))
  BY DEF ResolveFile, None, Running, TextOK, Owns, TypeOK, RunOK
<1>2. todo[at[w]] \in Present /\ Has(gbuf, FileName(todo[at[w]]))
  BY <1>1
<1>3. Mine(w) \in Buffers
  BY <1>1, MineTyped
<1> QED
  BY <1>1, <1>2, <1>3, ResolveCallsLeads

\* What the workers find belongs to the file they are at.
LEMMA WorkersOwn ==
    ASSUME Owns, NEW w \in Pool, Extract(w) \/ ResolveFile(w)
    PROVE  Owns'
<1>1. CASE Extract(w)
  BY <1>1, ExtractLeads, WorkOwns DEF Extract
<1>2. CASE ResolveFile(w)
  BY <1>2, ResolveFileLeads, WorkOwns DEF ResolveFile
<1> QED
  BY <1>1, <1>2

\* The main buffer after the merge of all local ones.
LEMMA MergeLocalsGives ==
    ASSUME Owns, Running, NEW then, MergeLocals(then)
    PROVE  \E c \in Merged(gbuf, local, Workers) :
              /\ gbuf' \in Buffers /\ gbuf'.nodes = c.nodes
              /\ gbuf'.edges = c.edges /\ gbuf'.next = shared
<1> DEFINE c == Merging!Fold(gbuf, local)
<1>1. gbuf \in Buffers /\ local \in [Pool -> Buffers] /\ shared \in Nat
  BY DEF Owns, TypeOK
<1>2. c \in Merged(gbuf, local, Workers)
  BY <1>1, MergingMerges
<1>3. gbuf' = [c EXCEPT !.next = shared]
  BY DEF MergeLocals
<1> HIDE DEF c
<1>4. c \in Buffers
  BY <1>2 DEF Merged
<1>5. /\ c \in [nodes : Seq(NodeRecords), edges : SUBSET Edges(Nat), next : Nat]
      /\ OneNodePerName(c.nodes) /\ IsFiniteSet(c.edges)
  BY <1>4, BufferShape
<1>6. /\ gbuf' \in [nodes : Seq(NodeRecords), edges : SUBSET Edges(Nat),
                    next : Nat]
      /\ gbuf'.nodes = c.nodes /\ gbuf'.edges = c.edges /\ gbuf'.next = shared
  BY <1>1, <1>3, <1>5, RecordUpdate DEF IsBuffer
<1>7. gbuf' \in Buffers
  BY <1>5, <1>6 DEF Buffers, NodeRecords
<1> QED
  BY <1>2, <1>6, <1>7

\* Merging the workers' buffers leaves owners correct.
LEMMA MergeOwns ==
    ASSUME Owns, Running, NEW then \in {"registry", "finish"}, MergeLocals(then)
    PROVE  Owns'
<1>1. PICK c \in Merged(gbuf, local, Workers) :
         /\ gbuf' \in Buffers /\ gbuf'.nodes = c.nodes
         /\ gbuf'.edges = c.edges /\ gbuf'.next = shared
  BY MergeLocalsGives
<1>2. /\ local' = NoLocals /\ next' = 1 /\ phase' = then
      /\ \A w \in Pool : at[w] = None
      /\ UNCHANGED <<text, indexed, db, full, todo, registry, saved, at, shared,
                     hist>>
  BY DEF MergeLocals
<1>3. gbuf \in Buffers
  BY DEF Owns, TypeOK
<1>4. TypeOK'
  <2>1. next' \in 1..(Len(Order) + 1)
    BY <1>2, OrderTyped
  <2>2. local' \in [Pool -> Buffers]
    BY <1>2, NoLocalsTyped
  <2>3. phase' \in {"none", "idle", "passes", "calls", "extract", "registry",
                    "resolve", "finish"}
    BY <1>2
  <2> QED
    BY <1>1, <1>2, <2>1, <2>2, <2>3 DEF hist, Owns, TypeOK
<1>6. \A i \in DOMAIN todo : Has(gbuf', FileName(todo[i]))
  <2> SUFFICES ASSUME NEW i \in DOMAIN todo
               PROVE  Has(gbuf', FileName(todo[i]))
    OBVIOUS
  <2>1. Has(gbuf, FileName(todo[i]))
    BY DEF Owns, RunOK
  <2>2. PICK x \in DOMAIN gbuf.nodes : gbuf.nodes[x].qn = FileName(todo[i])
    BY <2>1 DEF Has, Names, ToSet
  <2>3. x \in DOMAIN c.nodes /\ c.nodes[x].qn = FileName(todo[i])
    BY <2>2, <1>3, BufferShape DEF Merged
  <2> QED
    BY <2>3, <1>1 DEF Has, Names, ToSet
<1>7. RunOK'
  <2>1. Present' = Present /\ Running'
    BY <1>2 DEF Present, Running
  <2>2. \A i \in DOMAIN todo' : Has(gbuf, FileName(todo[i]))'
    BY <1>2, <1>6 DEF Has, Names, FileName
  <2>3. at' = [w \in Pool |-> None]
    <3>1. at = [w \in Pool |-> at[w]]
      BY DEF Owns, TypeOK
    <3> QED
      BY <1>2, <3>1
  <2> QED
    BY <1>2, <2>1, <2>2, <2>3 DEF Owns, RunOK, NoLocals
<1>8. OwnersOK'
  <2>1. Pure(c, text)
    BY DEF Merged, Owns, OwnersOK
  <2>2. Pure(gbuf', text')
    BY <2>1, <1>1, <1>2 DEF Pure
  <2>3. \A w \in Pool : Pure(local'[w], text')
    BY <1>2, NoLocalsTyped
  <2> QED
    BY <1>2, <2>2, <2>3 DEF Owns, OwnersOK
<1> QED
  BY <1>4, <1>7, <1>8 DEF Owns

\* incr_restore_inbound_edges adds the saved edges whose ends are there.
LEMMA RestoreLeads ==
    ASSUME Owns
    PROVE  /\ Leads(gbuf, Restore(gbuf), {}, text)
           /\ Restore(gbuf) \in Buffers
           /\ Restore(gbuf).nodes = gbuf.nodes
           /\ Restore(gbuf).edges = gbuf.edges \cup
                {EdgeIn(gbuf, e) :
                   e \in {d \in saved : Has(gbuf, d.src) /\ Has(gbuf, d.tgt)}}
<1>1. gbuf \in Buffers /\ saved \in SUBSET Edges(QNames) /\ IsFiniteSet(saved)
  BY DEF Owns, TypeOK
<1>2. /\ Leads(gbuf, LinkAll(gbuf, saved), {}, text)
      /\ LinkAll(gbuf, saved).nodes = gbuf.nodes
      /\ LinkAll(gbuf, saved).edges = gbuf.edges \cup
            {EdgeIn(gbuf, e) :
               e \in {d \in saved : Has(gbuf, d.src) /\ Has(gbuf, d.tgt)}}
  BY <1>1, LinkAllLeads
<1> QED
  BY <1>2 DEF Restore, Leads

\* Storing: the owners of the buffer become those of the database.
LEMMA FinishOwns ==
    ASSUME Owns, Finish
    PROVE  Owns'
<1>0. /\ phase = "finish" /\ phase' = "idle"
      /\ db' = Dump(Restore(gbuf)) /\ indexed' = text
      /\ gbuf' = EmptyBuffer /\ registry' = <<>> /\ saved' = {} /\ todo' = <<>>
      /\ next' = 1 /\ local' = NoLocals /\ shared' = 1
      /\ UNCHANGED <<text, full, at, hist>>
  BY DEF Finish
<1> DEFINE r == Restore(gbuf)
<1>1. r \in Buffers /\ Pure(r, text)
  <2>1. r \in Buffers /\ r.nodes = gbuf.nodes
    BY RestoreLeads
  <2> HIDE DEF r
  <2> QED
    BY <2>1, <1>0 DEF Pure, Owns, OwnersOK, Running
<1> HIDE DEF r
<1>2. /\ Dump(r) \in Graphs /\ DOMAIN Dump(r).nodes = DOMAIN r.nodes
      /\ \A i \in DOMAIN r.nodes :
            /\ Dump(r).nodes[i].qn = r.nodes[i].qn
            /\ Dump(r).nodes[i].label = r.nodes[i].label
            /\ Dump(r).nodes[i].file = r.nodes[i].file
  BY <1>1, DumpFacts
<1>3. db' \in Graphs /\ \A i \in DOMAIN db'.nodes : Proper(db'.nodes[i], text)
  BY <1>0, <1>1, <1>2 DEF r, Pure, Proper, Owned, Placed
<1>4. at' = [w \in Pool |-> None]
  BY <1>0 DEF Owns, RunOK
<1>5. Len(Order) \in Nat
  BY OrderTyped
<1>6. TypeOK'
  <2>1. saved' \in SUBSET Edges(QNames) /\ IsFiniteSet(saved')
    BY <1>0, FS_EmptySet
  <2>2. gbuf' \in Buffers /\ local' \in [Pool -> Buffers]
    BY <1>0, EmptyBufferTyped, NoLocalsTyped
  <2>3. next' \in 1..(Len(Order) + 1) /\ shared' \in Nat
        /\ registry' \in Seq(QNames) /\ todo' \in Seq(Files)
    BY <1>0, <1>5
  <2>4. phase' \in {"none", "idle", "passes", "calls", "extract", "registry",
                    "resolve", "finish"}
    BY <1>0
  <2> QED
    BY <1>0, <1>3, <2>1, <2>2, <2>3, <2>4 DEF hist, Owns, TypeOK
<1>7. RunOK'
  <2>1. todo' \in Seq(Present') /\ IsInjective(todo') /\ Len(todo') = 0
    BY <1>0 DEF IsInjective
  <2>2. \A w \in Pool : at'[w] \in 0..Len(todo')
    BY <1>4, <2>1 DEF None
  <2>3. ~Running'
    BY <1>0 DEF Running
  <2> QED
    BY <1>0, <1>4, <1>5, <2>1, <2>2, <2>3 DEF RunOK, NoLocals
<1>8. OwnersOK'
  BY <1>0, <1>3 DEF OwnersOK, Running
<1> QED
  BY <1>6, <1>7, <1>8 DEF Owns

\* Owns is inductive.
LEMMA NextOwns ==
    ASSUME Owns, [Next]_vars
    PROVE  Owns'
<1>1. CASE \E f \in Files, t \in Texts \cup {Absent} : Edit(f, t)
  BY <1>1, EditOwns
<1>2. CASE StartFull
  BY <1>2, StartFullOwns
<1>3. CASE StartIncremental
  BY <1>3, StartIncrementalOwns
<1>4. CASE DefinePasses \/ CallPasses \/ BuildRegistry
  BY <1>4, PassesOwn
<1>5. CASE \E w \in Pool : Take(w)
  BY <1>5, TakeOwns
<1>6. CASE \E w \in Pool : Extract(w) \/ ResolveFile(w)
  BY <1>6, WorkersOwn
<1>7. CASE MergeExtracted
  BY <1>7, MergeOwns DEF MergeExtracted, Running
<1>8. CASE MergeResolved
  BY <1>8, MergeOwns DEF MergeResolved, Running
<1>9. CASE Finish
  BY <1>9, FinishOwns
<1>10. CASE UNCHANGED vars
  <2>1. TypeOK'
    BY <1>10 DEF vars, run, hist, Owns, TypeOK
  <2>2. RunOK'
    BY <1>10 DEF vars, run, hist, Owns, RunOK, Running, Present, NoLocals,
                 Has, Names, FileName
  <2>3. OwnersOK'
    BY <1>10 DEF vars, run, hist, Owns, OwnersOK, Running
  <2> QED
    BY <2>1, <2>2, <2>3 DEF Owns
<1> QED
  BY <1>1, <1>2, <1>3, <1>4, <1>5, <1>6, <1>7, <1>8, <1>9, <1>10 DEF Next

\* Owns is an invariant.
LEMMA SpecOwns == Spec => []Owns
<1>1. Init => Owns
  BY InitOwns
<1>2. Owns /\ [Next]_vars => Owns'
  BY NextOwns
<1> QED
  BY <1>1, <1>2, PTL DEF Spec

\* Whatever files, texts and workers there are, every buffer and every stored
\* graph has one node per name and edges of known ends: the loops of the
\* passes, the purge, the merges and the dump keep it.
THEOREM TypeCorrect == Spec => []TypeOK
<1>1. Owns => TypeOK
  BY DEF Owns
<1> QED
  BY <1>1, SpecOwns, PTL

\* A definition in the database belongs to a file that contains it, through
\* any number of edits and runs, with any number of workers.
THEOREM OwnersCorrect == Spec => []OwnerDefines
<1>1. Owns => OwnerDefines
  BY DEF Owns, OwnersOK, OwnerDefines, Proper, ToSet
<1> QED
  BY <1>1, SpecOwns, PTL

----------------------------------------------------------------------------
(* The edges that survive an incremental run: the invariant.               *)

\* What the run has left of the stored graph.
Rest == Purge(Load(db))

\* The run only adds to what was left of the stored graph, with later ids.
RestKept ==
    Running /\ ~full =>
        /\ saved = Capture(Load(db), Changed)
        /\ Grows(Rest, gbuf) /\ Rest.next <= shared
        /\ \A w \in Pool : \A i \in DOMAIN local[w].nodes :
              local[w].nodes[i].id >= Rest.next

\* A node that comes with a file.  Routes and channels may share their ids
\* with one another: the workers' counter does not know the main buffer's.
Solid(n) == n.qn[1] \notin {"route", "channel"}
SolidBelow(b, id) ==
    \A i \in DOMAIN b.nodes : Solid(b.nodes[i]) => b.nodes[i].id < id
SolidAlone(b) ==
    \A i, j \in DOMAIN b.nodes :
        Solid(b.nodes[i]) /\ b.nodes[i].id = b.nodes[j].id => i = j

\* Which ids are given once, phase by phase.
IdsOK ==
    /\ phase \in {"passes", "calls"} => Compact(gbuf)
    /\ phase = "extract" =>
          /\ Compact(gbuf) /\ gbuf.next <= shared /\ Distinct(gbuf, local)
          /\ \A w \in Pool : \A i \in DOMAIN local[w].nodes :
                local[w].nodes[i].id < shared
    /\ phase = "registry" => Compact(gbuf) /\ gbuf.next = shared
    /\ phase = "resolve" =>
          /\ Compact(gbuf) /\ SolidBelow(gbuf, shared)
          /\ \A w \in Pool : \A j \in DOMAIN local[w].nodes :
                /\ local[w].nodes[j].qn[1] = "route"
                /\ \A i \in DOMAIN gbuf.nodes : Solid(gbuf.nodes[i]) =>
                      gbuf.nodes[i].id < local[w].nodes[j].id
    /\ phase = "finish" => SolidBelow(gbuf, gbuf.next) /\ SolidAlone(gbuf)

\* What was loaded depends on the database and the texts alone.
LEMMA RestSame ==
    ASSUME UNCHANGED <<text, indexed, db>>
    PROVE  Rest' = Rest /\ Capture(Load(db), Changed)' = Capture(Load(db), Changed)
BY DEF Rest, Purge, Changed, Deleted

\* Begin, on a compact buffer without anything in the local ones.
LEMMA BeginIds ==
    ASSUME NEW files, NEW buf \in Buffers, Compact(buf), Begin(files, buf)
    PROVE  IdsOK'
<1>1. /\ phase' \in {"extract", "passes"} /\ gbuf' = buf /\ local' = NoLocals
      /\ shared' = buf.next /\ buf.next \in Nat
  BY BufferShape DEF Begin
<1>2. \A w \in Pool : DOMAIN local'[w].nodes = {}
  BY <1>1, NoLocalsTyped
<1>3. Distinct(buf, local')
  BY <1>2 DEF Distinct, Compact, OneNodePerId
<1> QED
  BY <1>1, <1>2, <1>3 DEF IdsOK

\* A full run keeps no node of the database.
LEMMA StartFullIds ==
    ASSUME Owns, StartFull
    PROVE  IdsOK' /\ RestKept'
<1>1. Existing \in Seq(Present)
  <2>1. Present \in SUBSET Files /\ Existing = Keep(Order, Present)
    BY DEF Present, Existing, FilesOf
  <2> QED
    BY <2>1, KeptFiles
<1>2. Leads(EmptyBuffer, Structure(Existing), {"project", "module", "file"}, text)
  BY <1>1, StructureLeads DEF TextOK, Owns, TypeOK
<1>3. Structure(Existing) \in Buffers /\ Compact(Structure(Existing))
  BY <1>2, EmptyBufferTyped DEF Leads
<1>4. full' = TRUE /\ Begin(Existing, Structure(Existing))
  BY DEF StartFull
<1> QED
  BY <1>3, <1>4, BeginIds DEF RestKept

\* The load and the purge leave the rest, with ids of its own.
LEMMA StartIncrementalIds ==
    ASSUME Owns, StartIncremental
    PROVE  IdsOK' /\ RestKept'
<1> DEFINE files == Keep(Order, Changed)
           buf == UpsertAll(Rest, [i \in DOMAIN files |-> FileNode(files[i])])
<1>1. files \in Seq(Present)
  <2>1. Changed \in SUBSET Files /\ Changed \subseteq Present
    BY DEF Changed, Present
  <2>2. files \in Seq(Changed)
    BY <2>1, KeptFiles
  <2> HIDE DEF files
  <2> QED
    BY <2>1, <2>2
<1>2. saved' = Capture(Load(db), Changed) /\ Begin(files, buf)
  BY DEF StartIncremental, Rest
<1> HIDE DEF files
<1>3. Rest \in Buffers /\ Compact(Rest)
  BY RestOwned DEF Rest
<1>4. Leads(Rest, buf, {"file"}, text)
  BY <1>1, PreparedLeads DEF Rest
<1> HIDE DEF buf
<1>5. buf \in Buffers /\ Compact(buf) /\ Grows(Rest, buf) /\ Rest.next <= buf.next
  BY <1>3, <1>4 DEF Leads, Grows
<1>6. /\ gbuf' = buf /\ local' = NoLocals /\ shared' = buf.next
      /\ UNCHANGED <<text, indexed, db>>
  BY <1>2 DEF Begin
<1>7. Rest' = Rest /\ saved' = Capture(Load(db), Changed)'
  BY <1>2, <1>6, RestSame
<1>8. \A w \in Pool : DOMAIN local'[w].nodes = {}
  BY <1>6, NoLocalsTyped
<1>9. RestKept'
  BY <1>5, <1>6, <1>7, <1>8 DEF RestKept
<1>10. IdsOK'
  BY <1>2, <1>5, BeginIds
<1> QED
  BY <1>9, <1>10

\* The passes on the main buffer.
LEMMA PassRest ==
    ASSUME Owns, Running, RestKept, NEW kinds, Leads(gbuf, gbuf', kinds, text),
           UNCHANGED <<text, indexed, db, full, saved, local, shared>>
    PROVE  RestKept'
<1> SUFFICES ASSUME ~full' PROVE RestKept'
  BY DEF RestKept
<1>1. Rest' = Rest /\ Capture(Load(db), Changed)' = Capture(Load(db), Changed)
  BY RestSame
<1>2. /\ saved = Capture(Load(db), Changed) /\ Grows(Rest, gbuf)
      /\ Rest.next <= shared
      /\ \A w \in Pool : \A i \in DOMAIN local[w].nodes :
            local[w].nodes[i].id >= Rest.next
  BY DEF RestKept
<1>3. Grows(Rest, gbuf')
  <2>1. Rest \in Buffers /\ gbuf \in Buffers /\ gbuf' \in Buffers
        /\ Grows(gbuf, gbuf')
    BY RestOwned DEF Rest, Leads, Owns, TypeOK
  <2> QED
    BY <2>1, <1>2, GrowsTransitive
<1> QED
  BY <1>1, <1>2, <1>3 DEF RestKept

\* The passes on the main buffer keep the rest and its ids.
LEMMA PassesIds ==
    ASSUME Owns, RestKept, IdsOK, DefinePasses \/ CallPasses \/ BuildRegistry
    PROVE  IdsOK' /\ RestKept'
<1>1. CASE DefinePasses
  <2>1. Leads(gbuf, gbuf', {"module", "def", "channel"}, text)
    BY <1>1, DefinePassesLeads
  <2>2. /\ phase = "passes" /\ phase' = "calls" /\ Running
        /\ UNCHANGED <<text, indexed, db, full, saved, local, shared>>
    BY <1>1 DEF DefinePasses, Running
  <2>3. RestKept'
    BY <2>1, <2>2, PassRest
  <2>4. IdsOK'
    BY <2>1, <2>2 DEF IdsOK, Leads
  <2> QED
    BY <2>3, <2>4
<1>2. CASE CallPasses
  <2>1. Leads(gbuf, gbuf', {"route"}, text)
    BY <1>2, CallPassesLeads
  <2>2. /\ phase = "calls" /\ phase' = "finish" /\ Running
        /\ UNCHANGED <<text, indexed, db, full, saved, local, shared>>
    BY <1>2 DEF CallPasses, Running
  <2>3. RestKept'
    BY <2>1, <2>2, PassRest
  <2>4. Compact(gbuf')
    BY <2>1, <2>2 DEF IdsOK, Leads
  <2>5. IdsOK'
    BY <2>2, <2>4 DEF IdsOK, Compact, SolidBelow, SolidAlone
  <2> QED
    BY <2>3, <2>5
<1>3. CASE BuildRegistry
  <2>1. Leads(gbuf, gbuf', {"channel"}, text)
    BY <1>3, BuildRegistryLeads
  <2>2. /\ phase = "registry" /\ phase' = "resolve" /\ Running
        /\ UNCHANGED <<text, indexed, db, full, saved, local, shared>>
    BY <1>3 DEF BuildRegistry, Running
  <2>3. RestKept'
    BY <2>1, <2>2, PassRest
  <2>4. Compact(gbuf) /\ gbuf.next = shared /\ Compact(gbuf')
    BY <2>1, <2>2 DEF IdsOK, Leads
  <2>5. SolidBelow(gbuf', shared)
    <3> SUFFICES ASSUME NEW i \in DOMAIN gbuf'.nodes, Solid(gbuf'.nodes[i])
                 PROVE  gbuf'.nodes[i].id < shared
      BY DEF SolidBelow
    <3>1. i \in DOMAIN gbuf.nodes
      BY <2>1 DEF Leads, Adds, Solid
    <3> QED
      BY <3>1, <2>1, <2>4 DEF Leads, Grows, Compact
  <2>6. \A w \in Pool : DOMAIN local'[w].nodes = {}
    BY <2>2, NoLocalsTyped DEF Owns, RunOK
  <2>7. IdsOK'
    BY <2>2, <2>4, <2>5, <2>6 DEF IdsOK
  <2> QED
    BY <2>3, <2>7
<1> QED
  BY <1>1, <1>2, <1>3

\* A worker's step, which takes new ids from the shared counter.
LEMMA WorkRest ==
    ASSUME Owns, Running, RestKept, NEW w \in Pool, NEW buf, NEW kinds,
           Leads(Mine(w), buf, kinds, text), Work(w, buf)
    PROVE  /\ RestKept'
           /\ local' \in [Pool -> Buffers] /\ local'[w] = buf
           /\ \A v \in Pool : v # w => local'[v] = local[v]
           /\ shared \in Nat /\ shared' \in Nat /\ shared <= shared'
           /\ \A v \in Pool : \A i \in DOMAIN local'[v].nodes :
                 /\ local'[v].nodes[i].id \in Nat
                 /\ \/ /\ i \in DOMAIN local[v].nodes
                       /\ local'[v].nodes[i].id = local[v].nodes[i].id
                       /\ local'[v].nodes[i].qn = local[v].nodes[i].qn
                    \/ /\ v = w /\ i \notin DOMAIN local[w].nodes
                       /\ local'[v].nodes[i].id >= shared
                       /\ local'[v].nodes[i].qn[1] \in kinds
<1>1. /\ UNCHANGED <<text, indexed, db, phase, full, gbuf, saved>>
      /\ local' = [local EXCEPT ![w] = buf] /\ shared' = buf.next
  BY DEF Work
<1>2. /\ buf \in Buffers /\ buf.next \in Nat /\ shared \in Nat
      /\ Mine(w).nodes = local[w].nodes /\ Mine(w).next = shared
  <2>1. buf \in Buffers
    BY DEF Leads
  <2> QED
    BY <2>1, MineTyped, BufferShape DEF Owns, TypeOK
<1>3. /\ local' \in [Pool -> Buffers] /\ local'[w] = buf
      /\ \A v \in Pool : v # w => local'[v] = local[v]
  BY <1>1, <1>2 DEF Owns, TypeOK
<1>4. /\ shared <= buf.next
      /\ \A i \in DOMAIN local[w].nodes : /\ buf.nodes[i].id = local[w].nodes[i].id
                                          /\ buf.nodes[i].qn = local[w].nodes[i].qn
      /\ \A i \in DOMAIN buf.nodes : i \notin DOMAIN local[w].nodes =>
            buf.nodes[i].id >= shared /\ buf.nodes[i].qn[1] \in kinds
  BY <1>2 DEF Leads, Grows, Adds
<1>5. ASSUME NEW v \in Pool, NEW i \in DOMAIN local'[v].nodes
      PROVE  /\ local'[v].nodes[i].id \in Nat
             /\ \/ /\ i \in DOMAIN local[v].nodes
                   /\ local'[v].nodes[i].id = local[v].nodes[i].id
                   /\ local'[v].nodes[i].qn = local[v].nodes[i].qn
                \/ /\ v = w /\ i \notin DOMAIN local[w].nodes
                   /\ local'[v].nodes[i].id >= shared
                   /\ local'[v].nodes[i].qn[1] \in kinds
  <2>1. local'[v].nodes[i].id \in Nat
    <3>1. local'[v] \in Buffers
      BY <1>3
    <3> QED
      BY <3>1, BufferShape DEF NodeRecords
  <2>2. CASE v = w
    BY <2>1, <2>2, <1>3, <1>4
  <2>3. CASE v # w
    BY <2>1, <2>3, <1>3
  <2> QED
    BY <2>2, <2>3
<1>6. RestKept'
  <2> SUFFICES ASSUME ~full' PROVE RestKept'
    BY DEF RestKept
  <2>1. Rest' = Rest /\ Capture(Load(db), Changed)' = Capture(Load(db), Changed)
    BY <1>1, RestSame
  <2>2. /\ saved = Capture(Load(db), Changed) /\ Grows(Rest, gbuf)
        /\ Rest.next <= shared
        /\ \A v \in Pool : \A i \in DOMAIN local[v].nodes :
              local[v].nodes[i].id >= Rest.next
    BY <1>1 DEF RestKept
  <2>3. Rest.next \in Nat
    <3>1. Rest \in Buffers
      BY RestOwned DEF Rest
    <3> QED
      BY <3>1, BufferShape
  <2>4. Rest.next <= shared'
    BY <1>1, <1>2, <1>4, <2>2, <2>3
  <2>5. \A v \in Pool : \A i \in DOMAIN local'[v].nodes :
            local'[v].nodes[i].id >= Rest.next
    <3> SUFFICES ASSUME NEW v \in Pool, NEW i \in DOMAIN local'[v].nodes
                 PROVE  local'[v].nodes[i].id >= Rest.next
      OBVIOUS
    <3> DEFINE id == local'[v].nodes[i].id
    <3>1. id \in Nat /\ (id >= shared \/ id >= Rest.next)
      BY <1>5, <2>2
    <3> HIDE DEF id
    <3>2. id >= Rest.next
      BY <3>1, <1>2, <2>2, <2>3
    <3> QED
      BY <3>2 DEF id
  <2> QED
    BY <1>1, <2>1, <2>2, <2>4, <2>5 DEF RestKept
<1> QED
  BY <1>1, <1>2, <1>3, <1>4, <1>5, <1>6

\* What a worker extracts has ids that no other buffer has.
LEMMA ExtractIds ==
    ASSUME Owns, RestKept, IdsOK, NEW w \in Pool, Extract(w)
    PROVE  IdsOK' /\ RestKept'
<1> DEFINE buf == AddDefs(Mine(w), Sorted[at[w]])
           kinds == {"module", "def"}
<1>1. Leads(Mine(w), buf, kinds, text) /\ Work(w, buf) /\ Running
  BY ExtractLeads
<1>2. /\ phase = "extract" /\ phase' = "extract" /\ gbuf' = gbuf
      /\ shared' = buf.next
  BY DEF Extract, Work
<1> HIDE DEF buf
<1>3. /\ RestKept'
      /\ local' \in [Pool -> Buffers] /\ local'[w] = buf
      /\ \A v \in Pool : v # w => local'[v] = local[v]
      /\ shared \in Nat /\ shared' \in Nat /\ shared <= shared'
      /\ \A v \in Pool : \A i \in DOMAIN local'[v].nodes :
            /\ local'[v].nodes[i].id \in Nat
            /\ \/ /\ i \in DOMAIN local[v].nodes
                  /\ local'[v].nodes[i].id = local[v].nodes[i].id
               \/ /\ v = w /\ i \notin DOMAIN local[w].nodes
                  /\ local'[v].nodes[i].id >= shared
  BY <1>1, WorkRest
<1>4. /\ Compact(gbuf) /\ gbuf.next <= shared /\ Distinct(gbuf, local)
      /\ \A v \in Pool : \A i \in DOMAIN local[v].nodes :
            local[v].nodes[i].id < shared
  BY <1>2 DEF IdsOK
<1>5. Compact(buf)
  <2>1. Compact(Mine(w))
    BY <1>1, <1>4, MineTyped DEF Compact, Distinct
  <2> QED
    BY <2>1, <1>1 DEF Leads
<1>6. gbuf.next \in Nat /\ \A i \in DOMAIN gbuf.nodes : gbuf.nodes[i].id \in Nat
  BY BufferShape DEF Owns, TypeOK, NodeRecords
<1>7. ASSUME NEW v \in Pool, NEW i \in DOMAIN local'[v].nodes
      PROVE  local'[v].nodes[i].id < shared'
  <2>1. CASE v = w
    BY <2>1, <1>2, <1>3, <1>5 DEF Compact
  <2>2. CASE v # w
    <3> DEFINE id == local'[v].nodes[i].id
    <3>1. id \in Nat /\ id < shared
      BY <2>2, <1>3, <1>4
    <3> HIDE DEF id
    <3>2. id < shared'
      BY <3>1, <1>3
    <3> QED
      BY <3>2 DEF id
  <2> QED
    BY <2>1, <2>2
<1>8. ASSUME NEW v \in Pool, NEW j \in DOMAIN local'[v].nodes,
             NEW i \in DOMAIN gbuf.nodes
      PROVE  gbuf.nodes[i].id # local'[v].nodes[j].id
  <2> DEFINE id == local'[v].nodes[j].id
             old == gbuf.nodes[i].id
  <2>1. old \in Nat /\ old < gbuf.next
    BY <1>4, <1>6 DEF Compact
  <2>2. id \in Nat /\ (id >= shared \/ id # old)
    BY <1>3, <1>4 DEF Distinct
  <2> HIDE DEF id, old
  <2>3. id # old
    BY <2>1, <2>2, <1>3, <1>4, <1>6
  <2> QED
    BY <2>3 DEF id, old
<1>9. ASSUME NEW u \in Pool, NEW i \in DOMAIN local'[u].nodes, NEW v \in Pool,
             NEW j \in DOMAIN local'[v].nodes, u # v
      PROVE  local'[u].nodes[i].id # local'[v].nodes[j].id
  <2>1. ASSUME NEW x \in Pool, x # w, NEW y \in DOMAIN local'[x].nodes,
               NEW z \in DOMAIN local'[w].nodes
        PROVE  local'[x].nodes[y].id # local'[w].nodes[z].id
    <3> DEFINE id == local'[w].nodes[z].id
               other == local'[x].nodes[y].id
    <3>1. other \in Nat /\ other < shared /\ local'[x] = local[x]
      BY <2>1, <1>3, <1>4
    <3>2. id \in Nat /\ (id >= shared \/ id # other)
      BY <2>1, <3>1, <1>3, <1>4 DEF Distinct
    <3> HIDE DEF id, other
    <3>3. id # other
      BY <3>1, <3>2, <1>3
    <3> QED
      BY <3>3 DEF id, other
  <2>2. CASE u = w
    BY <2>1, <2>2, <1>9
  <2>3. CASE v = w
    BY <2>1, <2>3, <1>9
  <2>4. CASE u # w /\ v # w
    BY <2>4, <1>3, <1>4, <1>9 DEF Distinct
  <2> QED
    BY <2>2, <2>3, <2>4
<1>10. ASSUME NEW v \in Pool, NEW i \in DOMAIN local'[v].nodes,
              NEW j \in DOMAIN local'[v].nodes,
              local'[v].nodes[i].id = local'[v].nodes[j].id
       PROVE  i = j
  <2>1. CASE v = w
    BY <2>1, <1>3, <1>5, <1>10 DEF Compact
  <2>2. CASE v # w
    BY <2>2, <1>3, <1>4, <1>10 DEF Distinct
  <2> QED
    BY <2>1, <2>2
<1>11. Distinct(gbuf, local')
  <2>1. OneNodePerId(gbuf)
    BY <1>4 DEF Distinct
  <2> QED
    BY <2>1, <1>8, <1>9, <1>10 DEF Distinct
<1>12. gbuf.next <= shared'
  BY <1>3, <1>4, <1>6
<1>13. IdsOK'
  BY <1>2, <1>4, <1>7, <1>11, <1>12 DEF IdsOK
<1> QED
  BY <1>3, <1>13

\* What a worker resolves touches no id of a file or definition.
LEMMA ResolveIds ==
    ASSUME Owns, RestKept, IdsOK, NEW w \in Pool, ResolveFile(w)
    PROVE  IdsOK' /\ RestKept'
<1> DEFINE buf == ResolveCalls(Mine(w), gbuf, todo[at[w]])
<1>1. Leads(Mine(w), buf, {"route"}, text) /\ Work(w, buf) /\ Running
  BY ResolveFileLeads
<1>2. phase = "resolve" /\ phase' = "resolve" /\ gbuf' = gbuf
  BY DEF ResolveFile, Work
<1> HIDE DEF buf
<1>3. /\ RestKept' /\ shared \in Nat /\ shared' \in Nat /\ shared <= shared'
      /\ \A v \in Pool : \A i \in DOMAIN local'[v].nodes :
            /\ local'[v].nodes[i].id \in Nat
            /\ \/ /\ i \in DOMAIN local[v].nodes
                  /\ local'[v].nodes[i].id = local[v].nodes[i].id
                  /\ local'[v].nodes[i].qn = local[v].nodes[i].qn
               \/ /\ local'[v].nodes[i].id >= shared
                  /\ local'[v].nodes[i].qn[1] \in {"route"}
  BY <1>1, WorkRest
<1>4. /\ Compact(gbuf) /\ SolidBelow(gbuf, shared)
      /\ \A v \in Pool : \A j \in DOMAIN local[v].nodes :
            /\ local[v].nodes[j].qn[1] = "route"
            /\ \A i \in DOMAIN gbuf.nodes : Solid(gbuf.nodes[i]) =>
                  gbuf.nodes[i].id < local[v].nodes[j].id
  BY <1>2 DEF IdsOK
<1>5. \A i \in DOMAIN gbuf.nodes : gbuf.nodes[i].id \in Nat
  BY BufferShape DEF Owns, TypeOK, NodeRecords
<1>6. SolidBelow(gbuf, shared')
  <2> SUFFICES ASSUME NEW i \in DOMAIN gbuf.nodes, Solid(gbuf.nodes[i])
               PROVE  gbuf.nodes[i].id < shared'
    BY DEF SolidBelow
  <2>1. gbuf.nodes[i].id < shared /\ gbuf.nodes[i].id \in Nat
    BY <1>4, <1>5 DEF SolidBelow
  <2> QED
    BY <2>1, <1>3
<1>7. ASSUME NEW v \in Pool, NEW j \in DOMAIN local'[v].nodes
      PROVE  local'[v].nodes[j].qn[1] = "route"
  BY <1>3, <1>4
<1>8. ASSUME NEW v \in Pool, NEW j \in DOMAIN local'[v].nodes,
             NEW i \in DOMAIN gbuf.nodes, Solid(gbuf.nodes[i])
      PROVE  gbuf.nodes[i].id < local'[v].nodes[j].id
  <2> DEFINE id == local'[v].nodes[j].id
             old == gbuf.nodes[i].id
  <2>1. old \in Nat /\ old < shared
    BY <1>4, <1>5, <1>8 DEF SolidBelow
  <2>2. id \in Nat /\ (id >= shared \/ old < id)
    BY <1>3, <1>4, <1>8
  <2> HIDE DEF id, old
  <2>3. old < id
    BY <2>1, <2>2, <1>3
  <2> QED
    BY <2>3 DEF id, old
<1>9. IdsOK'
  BY <1>2, <1>4, <1>6, <1>7, <1>8 DEF IdsOK
<1> QED
  BY <1>3, <1>9

\* The rest stays through a merge.
LEMMA MergeRest ==
    ASSUME Owns, Running, RestKept, NEW then, MergeLocals(then)
    PROVE  RestKept'
<1>1. PICK c \in Merged(gbuf, local, Workers) :
         /\ gbuf' \in Buffers /\ gbuf'.nodes = c.nodes
         /\ gbuf'.edges = c.edges /\ gbuf'.next = shared
  BY MergeLocalsGives
<1>2. /\ local' = NoLocals
      /\ UNCHANGED <<text, indexed, db, full, saved, shared>>
  BY DEF MergeLocals
<1> SUFFICES ASSUME ~full' PROVE RestKept'
  BY DEF RestKept
<1>3. Rest' = Rest /\ Capture(Load(db), Changed)' = Capture(Load(db), Changed)
  BY <1>2, RestSame
<1>4. /\ saved = Capture(Load(db), Changed) /\ Grows(Rest, gbuf)
      /\ Rest.next <= shared
      /\ \A w \in Pool : \A i \in DOMAIN local[w].nodes :
            local[w].nodes[i].id >= Rest.next
  BY <1>2 DEF RestKept
<1>5. /\ DOMAIN Rest.nodes = 1..Len(Rest.nodes) /\ Len(Rest.nodes) \in Nat
      /\ DOMAIN gbuf.nodes = 1..Len(gbuf.nodes) /\ Len(gbuf.nodes) \in Nat
      /\ DOMAIN c.nodes = 1..Len(c.nodes) /\ Len(c.nodes) \in Nat
  <2>1. Rest \in Buffers /\ gbuf \in Buffers /\ c \in Buffers
    BY RestOwned DEF Rest, Owns, TypeOK, Merged
  <2> QED
    BY <2>1, BufferShape
<1>6. /\ Len(Rest.nodes) <= Len(c.nodes)
      /\ DOMAIN Rest.nodes \subseteq DOMAIN gbuf.nodes
  BY <1>4, <1>5 DEF Grows, Merged
<1>7. \A i \in DOMAIN Rest.nodes : /\ c.nodes[i].id = Rest.nodes[i].id
                                   /\ c.nodes[i].qn = Rest.nodes[i].qn
  BY <1>4, <1>6 DEF Grows, Merged
<1>8. ASSUME NEW i \in DOMAIN c.nodes, i \notin DOMAIN Rest.nodes
      PROVE  c.nodes[i].id >= Rest.next
  <2>1. CASE i \in DOMAIN gbuf.nodes
    BY <2>1, <1>4, <1>8 DEF Grows, Merged
  <2>2. CASE i \notin DOMAIN gbuf.nodes
    <3>1. From(local, Workers, c.nodes[i])
      BY <2>2 DEF Merged
    <3> QED
      BY <3>1, <1>4 DEF From, Pool
  <2> QED
    BY <2>1, <2>2
<1>9. Grows(Rest, gbuf')
  <2>1. Rest.edges \subseteq c.edges
    BY <1>4 DEF Grows, Merged
  <2> QED
    BY <2>1, <1>1, <1>4, <1>6, <1>7, <1>8 DEF Grows
<1>10. \A w \in Pool : DOMAIN local'[w].nodes = {}
  BY <1>2, NoLocalsTyped
<1> QED
  BY <1>2, <1>3, <1>4, <1>9, <1>10 DEF RestKept

\* After the first merge only channels may come to share ids.
LEMMA MergeExtractedIds ==
    ASSUME Owns, IdsOK, MergeExtracted
    PROVE  IdsOK'
<1>1. /\ phase = "extract" /\ phase' = "registry" /\ shared' = shared /\ Running
      /\ MergeLocals("registry")
  BY DEF MergeExtracted, MergeLocals, Running
<1>2. PICK c \in Merged(gbuf, local, Workers) :
         /\ gbuf' \in Buffers /\ gbuf'.nodes = c.nodes
         /\ gbuf'.edges = c.edges /\ gbuf'.next = shared
  BY <1>1, MergeLocalsGives
<1>3. /\ Compact(gbuf) /\ gbuf.next <= shared /\ Distinct(gbuf, local)
      /\ \A w \in Pool : \A i \in DOMAIN local[w].nodes :
            local[w].nodes[i].id < shared
  BY <1>1 DEF IdsOK
<1>4. /\ gbuf.next \in Nat /\ shared \in Nat
      /\ \A i \in DOMAIN gbuf.nodes : gbuf.nodes[i].id \in Nat
  BY BufferShape DEF Owns, TypeOK, NodeRecords
<1>5. ASSUME NEW i \in DOMAIN c.nodes PROVE c.nodes[i].id < shared
  <2>1. CASE i \in DOMAIN gbuf.nodes
    <3>1. c.nodes[i].id = gbuf.nodes[i].id
      BY <2>1 DEF Merged
    <3>2. gbuf.nodes[i].id \in Nat /\ gbuf.nodes[i].id < gbuf.next
      BY <2>1, <1>3, <1>4 DEF Compact
    <3> QED
      BY <3>1, <3>2, <1>3, <1>4
  <2>2. CASE i \notin DOMAIN gbuf.nodes
    <3>1. From(local, Workers, c.nodes[i])
      BY <2>2 DEF Merged
    <3> QED
      BY <3>1, <1>3 DEF From, Pool
  <2> QED
    BY <2>1, <2>2
<1>6. OneNodePerId(c)
  BY <1>3 DEF Merged
<1>7. Compact(gbuf')
  BY <1>2, <1>5, <1>6 DEF Compact, OneNodePerId
<1> QED
  BY <1>1, <1>2, <1>7 DEF IdsOK

\* After the second merge files and definitions have their ids alone.
LEMMA MergeResolvedIds ==
    ASSUME Owns, IdsOK, MergeResolved
    PROVE  IdsOK'
<1>1. /\ phase = "resolve" /\ phase' = "finish" /\ Running
      /\ MergeLocals("finish")
  BY DEF MergeResolved, MergeLocals, Running
<1>2. PICK c \in Merged(gbuf, local, Workers) :
         /\ gbuf' \in Buffers /\ gbuf'.nodes = c.nodes
         /\ gbuf'.edges = c.edges /\ gbuf'.next = shared
  BY <1>1, MergeLocalsGives
<1>3. /\ Compact(gbuf) /\ SolidBelow(gbuf, shared)
      /\ \A w \in Pool : \A j \in DOMAIN local[w].nodes :
            /\ local[w].nodes[j].qn[1] = "route"
            /\ \A i \in DOMAIN gbuf.nodes : Solid(gbuf.nodes[i]) =>
                  gbuf.nodes[i].id < local[w].nodes[j].id
  BY <1>1 DEF IdsOK
<1>4. ASSUME NEW i \in DOMAIN c.nodes, i \notin DOMAIN gbuf.nodes
      PROVE  \E w \in Pool : \E j \in DOMAIN local[w].nodes :
                local[w].nodes[j].id = c.nodes[i].id
                /\ local[w].nodes[j].qn = c.nodes[i].qn
  <2>1. From(local, Workers, c.nodes[i])
    BY <1>4 DEF Merged
  <2> QED
    BY <2>1 DEF From, Pool
<1>5. ASSUME NEW i \in DOMAIN c.nodes, Solid(c.nodes[i])
      PROVE  /\ i \in DOMAIN gbuf.nodes /\ Solid(gbuf.nodes[i])
             /\ c.nodes[i].id = gbuf.nodes[i].id
  <2>1. i \in DOMAIN gbuf.nodes
    BY <1>3, <1>4, <1>5 DEF Solid
  <2> QED
    BY <2>1, <1>5 DEF Merged, Solid
<1>6. SolidBelow(gbuf', shared)
  BY <1>2, <1>3, <1>5 DEF SolidBelow
<1>7. SolidAlone(gbuf')
  <2> SUFFICES ASSUME NEW i \in DOMAIN c.nodes, NEW j \in DOMAIN c.nodes,
                      Solid(c.nodes[i]), c.nodes[i].id = c.nodes[j].id
               PROVE  i = j
    BY <1>2 DEF SolidAlone
  <2>1. /\ i \in DOMAIN gbuf.nodes /\ Solid(gbuf.nodes[i])
        /\ c.nodes[i].id = gbuf.nodes[i].id /\ gbuf.nodes[i].id \in Nat
    BY <1>5, BufferShape DEF Owns, TypeOK, NodeRecords
  <2>2. CASE j \in DOMAIN gbuf.nodes
    BY <2>1, <2>2, <1>3 DEF Merged, Compact
  <2>3. CASE j \notin DOMAIN gbuf.nodes
    <3>1. gbuf.nodes[i].id < c.nodes[j].id
      BY <2>1, <2>3, <1>3, <1>4
    <3> QED
      BY <2>1, <3>1
  <2> QED
    BY <2>2, <2>3
<1> QED
  BY <1>1, <1>2, <1>6, <1>7 DEF IdsOK

Survives == Owns /\ RestKept /\ IdsOK

\* Survives holds at first.
LEMMA InitSurvives == Init => Survives
BY InitOwns DEF Init, Survives, RestKept, IdsOK, Running

\* Survives is inductive.
LEMMA NextSurvives ==
    ASSUME Survives, [Next]_vars
    PROVE  Survives'
<1>0. Owns /\ RestKept /\ IdsOK /\ Owns'
  BY NextOwns DEF Survives
<1> SUFFICES RestKept' /\ IdsOK'
  BY <1>0 DEF Survives
<1>1. CASE \E f \in Files, t \in Texts \cup {Absent} : Edit(f, t)
  BY <1>1 DEF Edit, RestKept, IdsOK, Running
<1>2. CASE StartFull
  BY <1>0, <1>2, StartFullIds
<1>3. CASE StartIncremental
  BY <1>0, <1>3, StartIncrementalIds
<1>4. CASE DefinePasses \/ CallPasses \/ BuildRegistry
  BY <1>0, <1>4, PassesIds
<1>5. CASE \E w \in Pool : Take(w)
  <2>1. UNCHANGED <<text, indexed, db, phase, full, gbuf, saved, local, shared>>
    BY <1>5 DEF Take
  <2>2. Rest' = Rest /\ Capture(Load(db), Changed)' = Capture(Load(db), Changed)
    BY <2>1, RestSame
  <2>3. RestKept'
    BY <1>0, <2>1, <2>2 DEF RestKept, Running
  <2>4. IdsOK'
    BY <1>0, <2>1 DEF IdsOK
  <2> QED
    BY <2>3, <2>4
<1>6. CASE \E w \in Pool : Extract(w) \/ ResolveFile(w)
  BY <1>0, <1>6, ExtractIds, ResolveIds
<1>7. CASE MergeExtracted
  BY <1>0, <1>7, MergeExtractedIds, MergeRest DEF MergeExtracted, Running
<1>8. CASE MergeResolved
  BY <1>0, <1>8, MergeResolvedIds, MergeRest DEF MergeResolved, Running
<1>9. CASE Finish
  BY <1>9 DEF Finish, RestKept, IdsOK, Running
<1>10. CASE UNCHANGED vars
  <2>1. UNCHANGED <<text, indexed, db, phase, full, gbuf, saved, local, shared>>
    BY <1>10 DEF vars, run
  <2>2. Rest' = Rest /\ Capture(Load(db), Changed)' = Capture(Load(db), Changed)
    BY <2>1, RestSame
  <2>3. RestKept'
    BY <1>0, <2>1, <2>2 DEF RestKept, Running
  <2>4. IdsOK'
    BY <1>0, <2>1 DEF IdsOK
  <2> QED
    BY <2>3, <2>4
<1> QED
  BY <1>1, <1>2, <1>3, <1>4, <1>5, <1>6, <1>7, <1>8, <1>9, <1>10 DEF Next

\* The row of a name in the database.
LEMMA RowOfName ==
    ASSUME NEW g \in Graphs
    PROVE  \A i \in DOMAIN g.nodes : /\ RowOf(g, g.nodes[i].qn) = i
                                     /\ Node(g, g.nodes[i].qn) = g.nodes[i]
<1> SUFFICES ASSUME NEW i \in DOMAIN g.nodes
             PROVE  /\ RowOf(g, g.nodes[i].qn) = i
                    /\ Node(g, g.nodes[i].qn) = g.nodes[i]
  OBVIOUS
<1>1. \A j \in DOMAIN g.nodes : g.nodes[j].qn = g.nodes[i].qn => j = i
  BY GraphShape DEF OneNodePerName
<1>2. RowOf(g, g.nodes[i].qn) = i
  BY <1>1 DEF RowOf
<1>3. g.nodes[i] \in ToSet(g.nodes)
  BY DEF ToSet
<1>4. \A n \in ToSet(g.nodes) : n.qn = g.nodes[i].qn => n = g.nodes[i]
  BY <1>1 DEF ToSet
<1> QED
  BY <1>2, <1>3, <1>4 DEF Node

\* An old node is alone with its id in whatever its buffer has grown to.
LEMMA OldAlone ==
    ASSUME NEW b \in Buffers, NEW c \in Buffers, Compact(b), Grows(b, c),
           NEW i \in DOMAIN b.nodes
    PROVE  i \in DOMAIN c.nodes /\ At(c, b.nodes[i].id) = {i}
<1>1. /\ DOMAIN b.nodes = 1..Len(b.nodes) /\ Len(b.nodes) \in Nat
      /\ DOMAIN c.nodes = 1..Len(c.nodes) /\ Len(c.nodes) \in Nat
      /\ b.next \in Nat /\ c.next \in Nat /\ b.nodes[i].id \in Nat
  BY BufferShape DEF NodeRecords
<1>2. i \in DOMAIN c.nodes
  BY <1>1 DEF Grows
<1>3. b.nodes[i].id < c.next /\ c.nodes[i].id = b.nodes[i].id
  BY <1>1 DEF Grows, Compact
<1>4. ASSUME NEW j \in DOMAIN c.nodes, c.nodes[j].id = b.nodes[i].id
      PROVE  j = i
  <2>1. CASE j \in DOMAIN b.nodes
    BY <2>1, <1>4 DEF Grows, Compact
  <2>2. CASE j \notin DOMAIN b.nodes
    <3>1. c.nodes[j].id >= b.next /\ b.nodes[i].id < b.next
      BY <2>2 DEF Grows, Compact
    <3> QED
      BY <3>1, <1>1, <1>4
  <2> QED
    BY <2>1, <2>2
<1> QED
  BY <1>2, <1>3, <1>4 DEF At

\* One edge through the end of an incremental run.
LEMMA EdgeSurvives ==
    ASSUME Survives, Finish, ~full, NEW e \in db.edges,
           OwnerIn(db, e.src) \notin Changed \cup Deleted,
           OwnerIn(db, e.tgt) \notin Deleted,
           Has(db', e.tgt)
    PROVE  e \in db'.edges
<1> DEFINE b == Load(db)
           r == Restore(gbuf)
<1>1. /\ Owns /\ gbuf \in Buffers /\ db \in Graphs
      /\ saved = Capture(b, Changed) /\ Grows(Rest, gbuf)
      /\ SolidBelow(gbuf, gbuf.next) /\ SolidAlone(gbuf)
      /\ db' = Dump(r)
  BY DEF Survives, Owns, TypeOK, RestKept, IdsOK, Finish, Running
<1>2. /\ e \in Edges(QNames) /\ e = [src |-> e.src, tgt |-> e.tgt, type |-> e.type]
  BY <1>1, GraphShape DEF Edges
<1>3. PICK i \in DOMAIN db.nodes : db.nodes[i].qn = e.src
  BY <1>1, GraphShape
<1>4. PICK j \in DOMAIN db.nodes : db.nodes[j].qn = e.tgt
  BY <1>1, GraphShape
<1>5. /\ RowOf(db, e.src) = i /\ RowOf(db, e.tgt) = j
      /\ OwnerIn(db, e.src) = db.nodes[i].file
      /\ OwnerIn(db, e.tgt) = db.nodes[j].file
  BY <1>1, <1>3, <1>4, RowOfName DEF OwnerIn
<1> DEFINE le == [src |-> i, tgt |-> j, type |-> e.type]
           m == b.nodes[i]
           n == b.nodes[j]
<1>6. /\ b \in Buffers /\ Compact(b) /\ DOMAIN b.nodes = DOMAIN db.nodes
      /\ m.id = i /\ m.qn = e.src /\ m.file = db.nodes[i].file
      /\ n.id = j /\ n.qn = e.tgt /\ n.file = db.nodes[j].file
      /\ m \in ToSet(b.nodes) /\ n \in ToSet(b.nodes)
      /\ \A x \in DOMAIN b.nodes : b.nodes[x].id = x
      /\ le \in b.edges
  <2>1. /\ b \in Buffers /\ Compact(b) /\ DOMAIN b.nodes = DOMAIN db.nodes
        /\ \A x \in DOMAIN db.nodes : /\ b.nodes[x].id = x
                                      /\ b.nodes[x].qn = db.nodes[x].qn
                                      /\ b.nodes[x].file = db.nodes[x].file
        /\ b.edges = {[src |-> RowOf(db, d.src), tgt |-> RowOf(db, d.tgt),
                       type |-> d.type] : d \in db.edges}
    BY <1>1, LoadFacts
  <2> HIDE DEF b
  <2>2. le \in b.edges
    BY <2>1, <1>5
  <2> QED
    BY <2>1, <2>2, <1>3, <1>4 DEF ToSet
<1> HIDE DEF b
<1>7. /\ Rest \in Buffers /\ Compact(Rest)
      /\ ToSet(Rest.nodes) = {x \in ToSet(b.nodes) : x.file \notin Changed \cup Deleted}
      /\ Rest.edges = {d \in b.edges :
            {d.src, d.tgt} \cap
              {x.id : x \in {y \in ToSet(b.nodes) : y.file \in Changed \cup Deleted}}
                = {}}
  BY <1>6, DeleteFacts DEF Rest, Purge, b
<1>8. /\ r \in Buffers /\ Grows(gbuf, r) /\ r.nodes = gbuf.nodes
      /\ r.edges = gbuf.edges \cup
            {EdgeIn(gbuf, d) :
               d \in {c \in saved : Has(gbuf, c.src) /\ Has(gbuf, c.tgt)}}
  BY <1>1, RestoreLeads DEF Leads
<1> HIDE DEF r
<1>9. Grows(Rest, r)
  BY <1>1, <1>7, <1>8, GrowsTransitive
<1>10. PICK x \in DOMAIN Rest.nodes : Rest.nodes[x] = m
  <2>1. m \in ToSet(Rest.nodes)
    BY <1>5, <1>6, <1>7
  <2> QED
    BY <2>1 DEF ToSet
<1>11. /\ x \in DOMAIN r.nodes /\ At(r, i) = {x}
       /\ r.nodes[x].qn = e.src /\ r.nodes[x].id = i
  <2>1. x \in DOMAIN r.nodes /\ At(r, Rest.nodes[x].id) = {x}
    BY <1>7, <1>8, <1>9, OldAlone
  <2> QED
    BY <2>1, <1>6, <1>9, <1>10 DEF Grows
<1>12. CASE db.nodes[j].file \notin Changed
  <2>1. PICK z \in DOMAIN Rest.nodes : Rest.nodes[z] = n
    <3>1. n \in ToSet(Rest.nodes)
      BY <1>5, <1>6, <1>7, <1>12
    <3> QED
      BY <3>1 DEF ToSet
  <2>2. z \in DOMAIN r.nodes /\ At(r, j) = {z} /\ r.nodes[z].qn = e.tgt
    <3>1. z \in DOMAIN r.nodes /\ At(r, Rest.nodes[z].id) = {z}
      BY <1>7, <1>8, <1>9, OldAlone
    <3> QED
      BY <3>1, <2>1, <1>6, <1>9 DEF Grows
  <2>3. le \in Rest.edges
    <3>1. ASSUME NEW y \in ToSet(b.nodes), y.file \in Changed \cup Deleted
          PROVE  y.id # i /\ y.id # j
      <4>1. y # m /\ y # n
        BY <3>1, <1>5, <1>6, <1>12
      <4> QED
        BY <4>1, <1>6 DEF ToSet
    <3> QED
      BY <3>1, <1>6, <1>7
  <2>4. le \in r.edges /\ le.src = i /\ le.tgt = j /\ le.type = e.type
    BY <2>3, <1>1, <1>8 DEF Grows
  <2> HIDE DEF le
  <2>5. [src |-> r.nodes[x].qn, tgt |-> r.nodes[z].qn, type |-> le.type]
            \in Dump(r).edges
    BY <2>2, <2>4, <1>8, <1>11, DumpFacts
  <2> QED
    BY <2>2, <2>4, <2>5, <1>1, <1>2, <1>11
<1>13. CASE db.nodes[j].file \in Changed
  <2>1. e \in saved
    <3>1. [src |-> m.qn, tgt |-> n.qn, type |-> le.type] \in Capture(b, Changed)
      BY <1>5, <1>6, <1>13, CaptureFacts
    <3> QED
      BY <3>1, <1>1, <1>2, <1>6
  <2>2. PICK z \in DOMAIN gbuf.nodes :
           gbuf.nodes[z].qn = e.tgt /\ Node(gbuf, e.tgt) = gbuf.nodes[z]
    <3>1. DOMAIN Dump(r).nodes = DOMAIN r.nodes
          /\ \A y \in DOMAIN r.nodes : Dump(r).nodes[y].qn = r.nodes[y].qn
      BY <1>8, DumpFacts
    <3>2. Has(gbuf, e.tgt)
      BY <3>1, <1>1, <1>8 DEF Has, Names, ToSet
    <3> QED
      BY <3>2, <1>1, NodeOfName
  <2>3. Has(gbuf, e.tgt) /\ Has(gbuf, e.src) /\ Node(gbuf, e.src) = gbuf.nodes[x]
    BY <2>2, <1>1, <1>8, <1>11, NodeOfName
  <2> DEFINE re == EdgeIn(gbuf, e)
  <2>4. /\ re \in r.edges /\ re.src = i /\ re.tgt = r.nodes[z].id
        /\ re.type = e.type
    <3>1. re \in r.edges
      BY <2>1, <2>3, <1>8
    <3> QED
      BY <3>1, <2>2, <2>3, <1>8, <1>11 DEF EdgeIn
  <2> HIDE DEF re
  <2>5. Solid(gbuf.nodes[z])
    <3>1. Proper(db.nodes[j], indexed) /\ db.nodes[j].file \in Files
      BY <1>1, <1>13 DEF Owns, OwnersOK, Changed
    <3>2. e.tgt[1] \in {"file", "module", "def"}
      BY <3>1, <1>4 DEF Proper, Placed
    <3> QED
      BY <3>2, <2>2 DEF Solid
  <2>6. At(r, r.nodes[z].id) = {z}
    <3>1. gbuf.nodes[z].id < gbuf.next /\ gbuf.next <= r.next
          /\ gbuf.nodes[z].id \in Nat /\ gbuf.next \in Nat /\ r.next \in Nat
      BY <2>5, <1>1, <1>8, BufferShape DEF SolidBelow, Grows, NodeRecords
    <3>2. gbuf.nodes[z].id < r.next
      BY <3>1
    <3>3. \A y \in DOMAIN gbuf.nodes : gbuf.nodes[y].id = gbuf.nodes[z].id => y = z
      BY <2>5, <1>1 DEF SolidAlone
    <3> QED
      BY <3>2, <3>3, <1>8 DEF At
  <2>7. [src |-> r.nodes[x].qn, tgt |-> r.nodes[z].qn, type |-> re.type]
            \in Dump(r).edges
    BY <2>4, <2>6, <1>8, <1>11, DumpFacts
  <2> QED
    BY <2>2, <2>4, <2>7, <1>1, <1>2, <1>8, <1>11
<1> QED
  BY <1>12, <1>13

\* An incremental run keeps the edges whose source is in no file that changed
\* and whose target, in no file that went away, is there again afterwards:
\* the ids of old nodes are never given again, and a definition that is
\* parsed anew is alone with its id, although routes and channels are not.
THEOREM EdgesSurviveTheRun == Spec => EdgesSurvive
<1>1. Init => Survives
  BY InitSurvives
<1>2. Survives /\ [Next]_vars => Survives'
  BY NextSurvives
<1>3. ASSUME Survives, [Next]_vars,
             phase = "finish", phase' = "idle", ~full, NEW e \in db.edges,
             OwnerIn(db, e.src) \notin Changed \cup Deleted,
             OwnerIn(db, e.tgt) \notin Deleted, Has(db', e.tgt)
      PROVE  e \in db'.edges
  <2>1. Finish
    BY <1>3 DEF Next, Edit, StartFull, StartIncremental, DefinePasses,
                CallPasses, Take, Extract, ResolveFile, MergeExtracted,
                BuildRegistry, MergeResolved, vars
  <2> QED
    BY <1>3, <2>1, EdgeSurvives
<1>4. Survives /\ [Next]_vars =>
        [phase = "finish" /\ phase' = "idle" /\ ~full =>
           \A e \in db.edges :
               /\ OwnerIn(db, e.src) \notin Changed \cup Deleted
               /\ OwnerIn(db, e.tgt) \notin Deleted
               /\ Has(db', e.tgt)
               => e \in db'.edges]_vars
  BY <1>3
<1> QED
  BY <1>1, <1>2, <1>4, PTL DEF Spec, EdgesSurvive

----------------------------------------------------------------------------
(* What the edges of a buffer stand for.                                   *)

\* The edges of b stand for X, edges between names that b has.
Means(b, X) ==
    /\ X \in SUBSET Edges(QNames)
    /\ \A x \in X : Has(b, x.src) /\ Has(b, x.tgt)
    /\ b.edges = {EdgeIn(b, x) : x \in X}

\* c has the names of b, under their ids.
KeepsNames(b, c) ==
    \A qn : Has(b, qn) => Has(c, qn) /\ Node(c, qn).id = Node(b, qn).id

\* c has the names of b and stands for X.
Comes(b, c, X) == c \in Buffers /\ KeepsNames(b, c) /\ Means(c, X)

\* A pass keeps names and ids.
LEMMA LeadsKeeps ==
    ASSUME NEW b \in Buffers, NEW c, NEW kinds, NEW texts,
           Leads(b, c, kinds, texts)
    PROVE  c \in Buffers /\ KeepsNames(b, c)
BY GrowsKeepsNames DEF Leads, KeepsNames

\* Two passes keep what each keeps.
LEMMA KeepsTransitive ==
    ASSUME NEW b, NEW c, NEW d, KeepsNames(b, c), KeepsNames(c, d)
    PROVE  KeepsNames(b, d)
BY DEF KeepsNames

\* Two passes add what each adds.
LEMMA ComesAgain ==
    ASSUME NEW b, NEW c, NEW d, NEW X, NEW Y, Comes(b, c, X), Comes(c, d, Y)
    PROVE  Comes(b, d, Y)
BY KeepsTransitive DEF Comes

\* New edges between names the buffer has.
LEMMA MeansMore ==
    ASSUME NEW b, NEW c, NEW X, NEW Y \in SUBSET Edges(QNames),
           Means(b, X), KeepsNames(b, c),
           \A y \in Y : Has(c, y.src) /\ Has(c, y.tgt),
           c.edges = b.edges \cup {EdgeIn(c, y) : y \in Y}
    PROVE  Means(c, X \cup Y)
<1>1. \A x \in X : EdgeIn(c, x) = EdgeIn(b, x) /\ Has(c, x.src) /\ Has(c, x.tgt)
  BY DEF Means, KeepsNames, EdgeIn
<1>2. c.edges = {EdgeIn(c, x) : x \in X} \cup {EdgeIn(c, y) : y \in Y}
  BY <1>1 DEF Means
<1>3. X \cup Y \in SUBSET Edges(QNames)
  BY DEF Means
<1> QED
  BY <1>1, <1>2, <1>3 DEF Means

\* No edge is new.
LEMMA MeansSame ==
    ASSUME NEW b, NEW c, NEW X, Means(b, X), KeepsNames(b, c),
           c.edges = b.edges
    PROVE  Means(c, X)
<1>1. Means(c, X \cup {})
  BY MeansMore
<1> QED
  BY <1>1

\* A node more changes the meaning of no edge.
LEMMA UpsertComes ==
    ASSUME NEW b \in Buffers, NEW node \in Unnumbered, Proper(node, text),
           NEW X, Means(b, X)
    PROVE  Comes(b, Upsert(b, node), X) /\ Has(Upsert(b, node), node.qn)
<1>1. /\ Leads(b, Upsert(b, node), {node.qn[1]}, text)
      /\ Has(Upsert(b, node), node.qn) /\ Upsert(b, node).edges = b.edges
  BY UpsertLeads
<1> QED
  BY <1>1, LeadsKeeps, MeansSame DEF Comes

\* Linking by names adds to the meaning just those edges.
LEMMA LinkComes ==
    ASSUME NEW b \in Buffers, NEW E \in SUBSET Edges(QNames), IsFiniteSet(E),
           \A e \in E : Has(b, e.src) /\ Has(b, e.tgt), NEW X, Means(b, X)
    PROVE  Comes(b, LinkAll(b, E), X \cup E)
<1> DEFINE c == LinkAll(b, E)
<1>1. /\ Leads(b, c, {}, text) /\ c.nodes = b.nodes
      /\ c.edges = b.edges \cup
           {EdgeIn(b, e) : e \in {d \in E : Has(b, d.src) /\ Has(b, d.tgt)}}
  BY LinkAllLeads
<1> HIDE DEF c
<1>2. c \in Buffers /\ KeepsNames(b, c)
  BY <1>1, LeadsKeeps
<1>3. \A e \in E : /\ EdgeIn(c, e) = EdgeIn(b, e)
                   /\ Has(c, e.src) /\ Has(c, e.tgt)
  BY <1>2 DEF KeepsNames, EdgeIn
<1>4. {d \in E : Has(b, d.src) /\ Has(b, d.tgt)} = E
  OBVIOUS
<1>5. c.edges = b.edges \cup {EdgeIn(c, e) : e \in E}
  BY <1>1, <1>3, <1>4
<1>6. Means(c, X \cup E)
  BY <1>2, <1>3, <1>5, MeansMore
<1> QED
  BY <1>2, <1>6 DEF Comes, c

\* The same for one edge.
LEMMA LinkOneComes ==
    ASSUME NEW b \in Buffers, NEW src \in QNames, NEW tgt \in QNames,
           NEW type \in Types, Has(b, src), Has(b, tgt), NEW X, Means(b, X)
    PROVE  Comes(b, LinkAll(b, {Edge(src, tgt, type)}), X \cup {Edge(src, tgt, type)})
<1> DEFINE E == {Edge(src, tgt, type)}
<1>1. E \in SUBSET Edges(QNames) /\ IsFiniteSet(E)
  <2>1. Edge(src, tgt, type) \in Edges(QNames)
    BY DEF Edge, Edges
  <2> QED
    BY <2>1, FS_Singleton
<1>2. \A e \in E : Has(b, e.src) /\ Has(b, e.tgt)
  BY DEF Edge
<1> HIDE DEF E
<1>3. Comes(b, LinkAll(b, E), X \cup E)
  BY <1>1, <1>2, LinkComes
<1> QED
  BY <1>3 DEF E

\* What a loop has added after k elements, when Y says what each one adds.
Upto(Y, s, k) == UNION {Y[s[j]] : j \in 1..k}
Whole(Y, s) == UNION {Y[x] : x \in ToSet(s)}

\* What the first k elements stand for grows by what the kth stands for.
LEMMA UptoGrows ==
    ASSUME NEW T, NEW s \in Seq(T), NEW Y
    PROVE  /\ Upto(Y, s, 0) = {}
           /\ \A k \in 1..Len(s) : Upto(Y, s, k) = Upto(Y, s, k - 1) \cup Y[s[k]]
           /\ Upto(Y, s, Len(s)) = Whole(Y, s)
<1>1. Upto(Y, s, 0) = {}
  BY DEF Upto
<1>2. ASSUME NEW k \in 1..Len(s)
      PROVE  Upto(Y, s, k) = Upto(Y, s, k - 1) \cup Y[s[k]]
  <2>1. 1..k = 1..(k - 1) \cup {k}
    OBVIOUS
  <2> QED
    BY <2>1 DEF Upto
<1>3. Upto(Y, s, Len(s)) = Whole(Y, s)
  BY DEF Upto, Whole, ToSet
<1> QED
  BY <1>1, <1>2, <1>3

\* b after k elements of s, when Y says what each one adds to X.
After(b, X, Y, s, k) == {c \in Buffers : Comes(b, c, X \cup Upto(Y, s, k))}
Stages(b, X, Y, s) == [k \in 0..Len(s) |-> After(b, X, Y, s, k)]

\* A loop that adds Y[x] at each x begins in its first stage.
LEMMA FirstStage ==
    ASSUME NEW T, NEW s \in Seq(T), NEW Y, NEW b \in Buffers, NEW X, Means(b, X)
    PROVE  b \in Stages(b, X, Y, s)[0]
<1>1. Upto(Y, s, 0) = {} /\ 0 \in 0..Len(s)
  BY UptoGrows
<1>2. Comes(b, b, X)
  BY DEF Comes, KeepsNames
<1> QED
  BY <1>1, <1>2 DEF Stages, After

\* What a stage of such a loop says.
LEMMA StageHas ==
    ASSUME NEW T, NEW s \in Seq(T), NEW Y, NEW b, NEW X, NEW k \in 1..Len(s),
           NEW c \in Stages(b, X, Y, s)[k - 1]
    PROVE  /\ c \in Buffers /\ KeepsNames(b, c)
           /\ Means(c, X \cup Upto(Y, s, k - 1)) /\ s[k] \in T
<1>1. k - 1 \in 0..Len(s)
  OBVIOUS
<1> QED
  BY <1>1 DEF Stages, After, Comes

\* A step that adds Y[s[k]] goes to the next stage.
LEMMA NextStage ==
    ASSUME NEW T, NEW s \in Seq(T), NEW Y, NEW b, NEW X, NEW k \in 1..Len(s),
           NEW c \in Stages(b, X, Y, s)[k - 1], NEW d, NEW Z, Z = Y[s[k]],
           Comes(c, d, (X \cup Upto(Y, s, k - 1)) \cup Z)
    PROVE  d \in Stages(b, X, Y, s)[k]
<1>1. k \in 0..Len(s) /\ k - 1 \in 0..Len(s)
  OBVIOUS
<1>2. Comes(b, c, X \cup Upto(Y, s, k - 1))
  BY <1>1 DEF Stages, After
<1>3. Upto(Y, s, k) = Upto(Y, s, k - 1) \cup Y[s[k]]
  BY UptoGrows
<1>4. Comes(b, d, (X \cup Upto(Y, s, k - 1)) \cup Z)
  BY <1>2, ComesAgain
<1>5. (X \cup Upto(Y, s, k - 1)) \cup Z = X \cup Upto(Y, s, k)
  BY <1>3
<1> QED
  BY <1>1, <1>4, <1>5 DEF Stages, After, Comes

\* The last stage has all of Y.
LEMMA LastStage ==
    ASSUME NEW T, NEW s \in Seq(T), NEW Y, NEW b, NEW X,
           NEW c \in Stages(b, X, Y, s)[Len(s)]
    PROVE  Comes(b, c, X \cup Whole(Y, s))
<1>1. Upto(Y, s, Len(s)) = Whole(Y, s)
  BY UptoGrows
<1>2. Len(s) \in 0..Len(s)
  OBVIOUS
<1> QED
  BY <1>1, <1>2 DEF Stages, After

\* What each pass adds for a file.
ContainEdges(f) ==
    {Edge(FolderName(Directory), FileName(f), "CONTAINS_FILE"),
     Edge(ProjectName, FolderName(Directory), "CONTAINS_FOLDER")}
DefEdges(f) ==
    {Edge(FileName(f), d.qn, "DEFINES") : d \in ToSet(Defs(f, text[f]))}
EmitEdge(use) == Edge(FileName(use.file), ChannelName(use.channel), "EMITS")
EmitEdges(f) ==
    {Edge(FileName(f), ChannelName(c), "EMITS") : c \in ToSet(text[f].channels)}
Linked(f) == DefEdges(f) \cup EmitEdges(f)

\* The definitions of a file have nodes.
HasDefs(b, f) == \A d \in ToSet(Defs(f, text[f])) : Has(b, d.qn)

\* Adding definitions adds nodes, no edges.
LEMMA AddDefsComes ==
    ASSUME TextOK, NEW f \in Present, NEW b \in Buffers, NEW X, Means(b, X)
    PROVE  Comes(b, AddDefs(b, f), X) /\ HasDefs(AddDefs(b, f), f)
<1> DEFINE c == AddDefs(b, f)
<1>1. /\ Leads(b, c, {"module", "def"}, text)
      /\ \A i \in DOMAIN Defs(f, text[f]) : Has(c, Defs(f, text[f])[i].qn)
      /\ c.edges = b.edges
  BY AddDefsLeads
<1> HIDE DEF c
<1>2. Comes(b, c, X)
  BY <1>1, LeadsKeeps, MeansSame DEF Comes
<1>3. HasDefs(c, f)
  BY <1>1 DEF HasDefs, ToSet
<1> QED
  BY <1>2, <1>3 DEF c

\* The DEFINES edges of a file are finitely many edges between names.
LEMMA DefEdgesTyped ==
    ASSUME TextOK, NEW f \in Present
    PROVE  DefEdges(f) \in SUBSET Edges(QNames) /\ IsFiniteSet(DefEdges(f))
<1> DEFINE ds == Defs(f, text[f])
           D == ToSet(ds)
           g == [d \in D |-> Edge(FileName(f), d.qn, "DEFINES")]
           E == {g[d] : d \in D}
<1>1. ds \in Seq(Unnumbered)
  BY DefsTyped
<1>2. IsFiniteSet(D) /\ \A d \in D : d \in Unnumbered
  <2> HIDE DEF ds
  <2> QED
    BY <1>1, FiniteRange DEF ToSet
<1>3. FileName(f) \in QNames
  BY NamesTyped DEF Present
<1>4. \A d \in D : g[d] \in Edges(QNames)
  <2> SUFFICES ASSUME NEW d \in D PROVE Edge(FileName(f), d.qn, "DEFINES") \in Edges(QNames)
    OBVIOUS
  <2>1. d.qn \in QNames
    BY <1>2 DEF Unnumbered
  <2> QED
    BY <2>1, <1>3 DEF Edge, Edges, Types
<1>5. g = [d \in D |-> g[d]]
  OBVIOUS
<1>6. DefEdges(f) = E
  BY DEF DefEdges
<1>7. IsFiniteSet(E)
  <2> HIDE DEF D, g
  <2> QED
    BY <1>2, <1>5, FiniteImage
<1> HIDE DEF g
<1> QED
  BY <1>4, <1>6, <1>7

\* Linking definitions adds the DEFINES edges of the file.
LEMMA LinkDefsComes ==
    ASSUME TextOK, NEW f \in Present, NEW b \in Buffers, Has(b, FileName(f)),
           HasDefs(b, f), NEW X, Means(b, X)
    PROVE  Comes(b, LinkDefs(b, f), X \cup DefEdges(f))
<1>1. \A e \in DefEdges(f) : Has(b, e.src) /\ Has(b, e.tgt)
  BY DEF DefEdges, HasDefs, Edge
<1>2. Comes(b, LinkAll(b, DefEdges(f)), X \cup DefEdges(f))
  BY <1>1, DefEdgesTyped, LinkComes
<1>3. LinkDefs(b, f) = LinkAll(b, DefEdges(f))
  BY DEF LinkDefs, DefEdges, Edge
<1> QED
  BY <1>2, <1>3

\* One channel adds its EMITS edge.
LEMMA AddChannelComes ==
    ASSUME NEW b \in Buffers, NEW use \in [file : Files, channel : Channels],
           Has(b, FileName(use.file)), NEW X, Means(b, X)
    PROVE  Comes(b, AddChannel(b, use), X \cup {EmitEdge(use)})
<1> DEFINE node == [label |-> "Channel", qn |-> ChannelName(use.channel),
                    file |-> ""]
           c == Upsert(b, node)
<1>1. /\ ChannelName(use.channel) \in QNames /\ FileName(use.file) \in QNames
      /\ ChannelName(use.channel)[1] = "channel"
  BY NamesTyped, Kinds
<1>2. node \in Unnumbered /\ Proper(node, text)
      /\ node.qn = ChannelName(use.channel)
  BY <1>1, FilesAssumption DEF Unnumbered, Labels, Places, Proper, Owned, Placed
<1>3. Comes(b, c, X) /\ Has(c, ChannelName(use.channel))
  <2> HIDE DEF node
  <2> QED
    BY <1>2, UpsertComes
<1>4. AddChannel(b, use) = LinkAll(c, {EmitEdge(use)})
  BY DEF AddChannel, EmitEdge, Edge
<1> HIDE DEF c
<1>5. c \in Buffers /\ Means(c, X) /\ Has(c, FileName(use.file))
  BY <1>3 DEF Comes, KeepsNames
<1>6. Comes(c, LinkAll(c, {EmitEdge(use)}), X \cup {EmitEdge(use)})
  BY <1>1, <1>3, <1>5, LinkOneComes DEF EmitEdge, Types
<1> QED
  BY <1>3, <1>4, <1>6, ComesAgain

\* The channels of a file add its EMITS edges.
LEMMA AddChannelsComes ==
    ASSUME TextOK, NEW f \in Present, NEW b \in Buffers, Has(b, FileName(f)),
           NEW X, Means(b, X)
    PROVE  Comes(b, AddChannels(b, f), X \cup EmitEdges(f))
<1> DEFINE cs == text[f].channels
           Uses == [file : Files, channel : Channels]
           uses == [i \in DOMAIN cs |-> [file |-> f, channel |-> cs[i]]]
           Y == [use \in Uses |-> {EmitEdge(use)}]
           n == Len(cs)
<1>1. /\ DOMAIN cs = 1..n /\ n \in Nat /\ f \in Files
      /\ \A i \in 1..n : cs[i] \in Channels
  BY TextFacts
<1>2. /\ uses \in Seq(Uses) /\ Len(uses) = n /\ DOMAIN uses = 1..n
      /\ \A i \in 1..n : uses[i] = [file |-> f, channel |-> cs[i]]
  <2>1. \A i \in 1..n : uses[i] = [file |-> f, channel |-> cs[i]]
                        /\ uses[i] \in Uses
    BY <1>1
  <2>2. uses = [i \in 1..n |-> uses[i]]
    BY <1>1
  <2> HIDE DEF Uses, uses, n
  <2>3. uses \in [1..n -> Uses]
    BY <2>1, <2>2
  <2> QED
    BY <1>1, <2>1, <2>3
<1>3. \A use \in Uses : Y[use] = {EmitEdge(use)}
  OBVIOUS
<1>4. AddChannels(b, f) = AddingChannels!Fold(b, uses)
  BY DEF AddChannels
<1>5. Whole(Y, uses) = EmitEdges(f)
  <2>1. \A k \in 1..n :
           Y[uses[k]] = {Edge(FileName(f), ChannelName(cs[k]), "EMITS")}
    BY <1>1, <1>2 DEF EmitEdge
  <2>2. ToSet(cs) = {cs[k] : k \in 1..n}
    BY <1>1 DEF ToSet
  <2>3. ToSet(uses) = {uses[k] : k \in 1..n}
    BY <1>2 DEF ToSet
  <2> HIDE DEF Y, uses, n, cs
  <2>4. Whole(Y, uses) =
           UNION {{Edge(FileName(f), ChannelName(cs[k]), "EMITS")} : k \in 1..n}
    BY <2>1, <2>3 DEF Whole
  <2>5. EmitEdges(f) = {Edge(FileName(f), ChannelName(c), "EMITS") : c \in ToSet(cs)}
    BY DEF EmitEdges, cs
  <2> QED
    BY <2>2, <2>4, <2>5
<1>6. \A k \in 1..n : uses[k].file = f
  BY <1>2
<1> HIDE DEF Uses, uses, Y, n
<1> DEFINE Stage == Stages(b, X, Y, uses)
<1>7. ASSUME NEW k \in 1..Len(uses), NEW c \in Stage[k - 1]
      PROVE  AddChannel(c, uses[k]) \in Stage[k]
  <2> DEFINE Z == X \cup Upto(Y, uses, k - 1)
  <2>1. c \in Buffers /\ KeepsNames(b, c) /\ Means(c, Z) /\ uses[k] \in Uses
    BY <1>2, StageHas
  <2>2. Has(c, FileName(uses[k].file))
    BY <2>1, <1>2, <1>6 DEF KeepsNames
  <2> HIDE DEF Z
  <2>3. Comes(c, AddChannel(c, uses[k]), Z \cup {EmitEdge(uses[k])})
    BY <2>1, <2>2, AddChannelComes DEF Uses
  <2> QED
    BY <2>1, <2>3, <1>2, <1>3, NextStage DEF Z
<1>8. b \in Stage[0]
  BY <1>2, FirstStage
<1>9. AddChannels(b, f) \in Stage[Len(uses)]
  <2> HIDE DEF Stage
  <2> QED
    BY <1>2, <1>4, <1>7, <1>8, AddingChannels!FoldStages
<1>10. Comes(b, AddChannels(b, f), X \cup Whole(Y, uses))
  BY <1>2, <1>9, LastStage
<1> QED
  BY <1>5, <1>10

\* pass_structure adds the containment of a file.
LEMMA AddFileComes ==
    ASSUME TextOK, NEW f \in Present, NEW b \in Buffers, Has(b, ProjectName),
           NEW X, Means(b, X)
    PROVE  Comes(b, AddFile(b, f), X \cup ContainEdges(f))
<1> DEFINE e1 == Edge(ProjectName, FolderName(Directory), "CONTAINS_FOLDER")
           e2 == Edge(FolderName(Directory), FileName(f), "CONTAINS_FILE")
           c1 == Upsert(b, FileNode(f))
           c2 == Upsert(c1, FolderNode)
           c3 == LinkAll(c2, {e1})
           c4 == LinkAll(c3, {e2})
<1>1. f \in Files /\ f \in Places /\ Directory \in Places /\ Directory \notin Files
  BY FilesAssumption DEF Present, Places
<1>2. /\ FileNode(f) \in Unnumbered /\ Proper(FileNode(f), text)
      /\ FileNode(f).qn = FileName(f) /\ FileName(f) \in QNames
  BY StructureTyped
<1>3. /\ FolderNode \in Unnumbered /\ Proper(FolderNode, text)
      /\ FolderNode.qn = FolderName(Directory) /\ FolderName(Directory) \in QNames
  BY StructureTyped
<1>4. Comes(b, c1, X) /\ Has(c1, FileName(f))
  BY <1>2, UpsertComes
<1> HIDE DEF c1
<1>5. Comes(c1, c2, X) /\ Has(c2, FolderName(Directory))
  BY <1>3, <1>4, UpsertComes DEF Comes
<1> HIDE DEF c2
<1>6. Has(c2, FileName(f)) /\ Has(c2, ProjectName) /\ c2 \in Buffers
      /\ Means(c2, X)
  BY <1>4, <1>5 DEF Comes, KeepsNames
<1>7. Comes(c2, c3, X \cup {e1})
  BY <1>3, <1>5, <1>6, NamesTyped, LinkOneComes DEF Types
<1> HIDE DEF c3
<1>8. /\ Has(c3, FileName(f)) /\ Has(c3, FolderName(Directory))
      /\ c3 \in Buffers /\ Means(c3, X \cup {e1})
  BY <1>5, <1>6, <1>7 DEF Comes, KeepsNames
<1>9. Comes(c3, c4, (X \cup {e1}) \cup {e2})
  <2> HIDE DEF e1
  <2> QED
    BY <1>2, <1>3, <1>8, LinkOneComes DEF Types
<1>10. (X \cup {e1}) \cup {e2} = X \cup ContainEdges(f)
  BY DEF ContainEdges
<1>11. AddFile(b, f) = c4
  BY DEF AddFile, c1, c2, c3, Edge
<1> HIDE DEF c4, e1, e2
<1> QED
  BY <1>4, <1>5, <1>7, <1>9, <1>10, <1>11, ComesAgain

\* pass_structure stands for the containment of all files.
LEMMA StructureMeans ==
    ASSUME TextOK, NEW files \in Seq(Present)
    PROVE  Means(Structure(files), UNION {ContainEdges(f) : f \in ToSet(files)})
<1> DEFINE b == Upsert(EmptyBuffer, ProjectNode)
           Y == [f \in Present |-> ContainEdges(f)]
           Stage == Stages(b, {}, Y, files)
<1>1. /\ ProjectNode \in Unnumbered /\ Proper(ProjectNode, text)
      /\ ProjectNode.qn = ProjectName
  BY NamesTyped, Kinds, FilesAssumption
     DEF ProjectNode, Unnumbered, Labels, Places, Proper, Owned, Placed
<1>2. EmptyBuffer \in Buffers /\ Means(EmptyBuffer, {})
  BY EmptyBufferTyped DEF Means
<1>3. b \in Buffers /\ Means(b, {}) /\ Has(b, ProjectName)
  BY <1>1, <1>2, UpsertComes DEF Comes
<1>4. Structure(files) = Structuring!Fold(b, files)
  BY DEF Structure
<1>5. \A f \in Present : Y[f] = ContainEdges(f)
  OBVIOUS
<1> HIDE DEF b, Y
<1>6. ASSUME NEW k \in 1..Len(files), NEW c \in Stage[k - 1]
      PROVE  AddFile(c, files[k]) \in Stage[k]
  <2> DEFINE Z == {} \cup Upto(Y, files, k - 1)
  <2>1. c \in Buffers /\ KeepsNames(b, c) /\ Means(c, Z) /\ files[k] \in Present
    BY StageHas
  <2>2. Has(c, ProjectName)
    BY <2>1, <1>3 DEF KeepsNames
  <2> HIDE DEF Z
  <2>3. Comes(c, AddFile(c, files[k]), Z \cup ContainEdges(files[k]))
    BY <2>1, <2>2, AddFileComes
  <2> QED
    BY <2>1, <2>3, <1>5, NextStage DEF Z
<1>7. b \in Stage[0]
  BY <1>3, FirstStage
<1>8. Structure(files) \in Stage[Len(files)]
  <2> HIDE DEF Stage
  <2> QED
    BY <1>4, <1>6, <1>7, Structuring!FoldStages
<1>9. Comes(b, Structure(files), {} \cup Whole(Y, files))
  BY <1>8, LastStage
<1>10. {} \cup Whole(Y, files) = UNION {ContainEdges(f) : f \in ToSet(files)}
  <2>1. ToSet(files) \subseteq Present
    BY DEF ToSet
  <2>2. {Y[f] : f \in ToSet(files)} = {ContainEdges(f) : f \in ToSet(files)}
    BY <2>1, <1>5
  <2> QED
    BY <2>2 DEF Whole
<1> QED
  BY <1>9, <1>10 DEF Comes

\* The passes of a file: definitions, then channels; or both, when the
\* definitions have nodes.
LEMMA DefineFileComes ==
    ASSUME TextOK, NEW f \in Present, NEW b \in Buffers, Has(b, FileName(f)),
           NEW X, Means(b, X)
    PROVE  Comes(b, DefineFile(b, f), X \cup DefEdges(f))
<1> DEFINE c == AddDefs(b, f)
<1>1. Comes(b, c, X) /\ HasDefs(c, f)
  BY AddDefsComes
<1>2. DefineFile(b, f) = LinkDefs(c, f)
  BY DEF DefineFile
<1> HIDE DEF c
<1>3. c \in Buffers /\ Means(c, X) /\ Has(c, FileName(f))
  BY <1>1 DEF Comes, KeepsNames
<1>4. Comes(c, LinkDefs(c, f), X \cup DefEdges(f))
  BY <1>1, <1>3, LinkDefsComes
<1> QED
  BY <1>1, <1>2, <1>4, ComesAgain

\* A file entered from the cache adds its DEFINES and EMITS edges.
LEMMA EnterFileComes ==
    ASSUME TextOK, NEW f \in Present, NEW b \in Buffers, Has(b, FileName(f)),
           HasDefs(b, f), NEW X, Means(b, X)
    PROVE  Comes(b, EnterFile(b, f), X \cup Linked(f))
<1> DEFINE c == LinkDefs(b, f)
           Z == X \cup DefEdges(f)
<1>1. Comes(b, c, Z)
  BY LinkDefsComes
<1>2. EnterFile(b, f) = AddChannels(c, f)
  BY DEF EnterFile
<1> HIDE DEF c, Z
<1>3. c \in Buffers /\ Means(c, Z) /\ Has(c, FileName(f))
  BY <1>1 DEF Comes, KeepsNames
<1>4. Comes(c, AddChannels(c, f), Z \cup EmitEdges(f))
  BY <1>1, <1>3, AddChannelsComes
<1>5. Z \cup EmitEdges(f) = X \cup Linked(f)
  BY DEF Linked, Z
<1> QED
  BY <1>1, <1>2, <1>4, <1>5, ComesAgain

\* All files have nodes.
HasFiles(b, files) == \A i \in DOMAIN files : Has(b, FileName(files[i]))

\* The loop over definitions adds all DEFINES edges.
LEMMA DefiningComes ==
    ASSUME TextOK, NEW files \in Seq(Present), NEW b \in Buffers,
           HasFiles(b, files), NEW X, Means(b, X)
    PROVE  Comes(b, Defining!Fold(b, files),
                 X \cup UNION {DefEdges(f) : f \in ToSet(files)})
<1> DEFINE Y == [f \in Present |-> DefEdges(f)]
           Stage == Stages(b, X, Y, files)
<1>1. \A f \in Present : Y[f] = DefEdges(f)
  OBVIOUS
<1> HIDE DEF Y
<1>2. ASSUME NEW k \in 1..Len(files), NEW c \in Stage[k - 1]
      PROVE  DefineFile(c, files[k]) \in Stage[k]
  <2> DEFINE Z == X \cup Upto(Y, files, k - 1)
  <2>1. c \in Buffers /\ KeepsNames(b, c) /\ Means(c, Z) /\ files[k] \in Present
    BY StageHas
  <2>2. Has(c, FileName(files[k]))
    BY <2>1 DEF KeepsNames, HasFiles
  <2> HIDE DEF Z
  <2>3. Comes(c, DefineFile(c, files[k]), Z \cup DefEdges(files[k]))
    BY <2>1, <2>2, DefineFileComes
  <2> QED
    BY <2>1, <2>3, <1>1, NextStage DEF Z
<1>3. b \in Stage[0]
  BY FirstStage
<1>4. Defining!Fold(b, files) \in Stage[Len(files)]
  <2> HIDE DEF Stage
  <2> QED
    BY <1>2, <1>3, Defining!FoldStages
<1>5. Comes(b, Defining!Fold(b, files), X \cup Whole(Y, files))
  BY <1>4, LastStage
<1>6. ToSet(files) \subseteq Present
  BY DEF ToSet
<1>7. {Y[f] : f \in ToSet(files)} = {DefEdges(f) : f \in ToSet(files)}
  BY <1>1, <1>6
<1> QED
  BY <1>5, <1>7 DEF Whole

\* The loop over channels adds all EMITS edges.
LEMMA EmittingComes ==
    ASSUME TextOK, NEW files \in Seq(Present), NEW b \in Buffers,
           HasFiles(b, files), NEW X, Means(b, X)
    PROVE  Comes(b, Emitting!Fold(b, files),
                 X \cup UNION {EmitEdges(f) : f \in ToSet(files)})
<1> DEFINE Y == [f \in Present |-> EmitEdges(f)]
           Stage == Stages(b, X, Y, files)
<1>1. \A f \in Present : Y[f] = EmitEdges(f)
  OBVIOUS
<1> HIDE DEF Y
<1>2. ASSUME NEW k \in 1..Len(files), NEW c \in Stage[k - 1]
      PROVE  AddChannels(c, files[k]) \in Stage[k]
  <2> DEFINE Z == X \cup Upto(Y, files, k - 1)
  <2>1. c \in Buffers /\ KeepsNames(b, c) /\ Means(c, Z) /\ files[k] \in Present
    BY StageHas
  <2>2. Has(c, FileName(files[k]))
    BY <2>1 DEF KeepsNames, HasFiles
  <2> HIDE DEF Z
  <2>3. Comes(c, AddChannels(c, files[k]), Z \cup EmitEdges(files[k]))
    BY <2>1, <2>2, AddChannelsComes
  <2> QED
    BY <2>1, <2>3, <1>1, NextStage DEF Z
<1>3. b \in Stage[0]
  BY FirstStage
<1>4. Emitting!Fold(b, files) \in Stage[Len(files)]
  <2> HIDE DEF Stage
  <2> QED
    BY <1>2, <1>3, Emitting!FoldStages
<1>5. Comes(b, Emitting!Fold(b, files), X \cup Whole(Y, files))
  BY <1>4, LastStage
<1>6. ToSet(files) \subseteq Present
  BY DEF ToSet
<1>7. {Y[f] : f \in ToSet(files)} = {EmitEdges(f) : f \in ToSet(files)}
  BY <1>1, <1>6
<1> QED
  BY <1>5, <1>7 DEF Whole

\* The loop over the cache adds all DEFINES and EMITS edges.
LEMMA EnteringComes ==
    ASSUME TextOK, NEW files \in Seq(Present), NEW b \in Buffers,
           HasFiles(b, files), \A i \in DOMAIN files : HasDefs(b, files[i]),
           NEW X, Means(b, X)
    PROVE  Comes(b, EnteringFiles!Fold(b, files),
                 X \cup UNION {Linked(f) : f \in ToSet(files)})
<1> DEFINE Y == [f \in Present |-> Linked(f)]
           Stage == Stages(b, X, Y, files)
<1>1. \A f \in Present : Y[f] = Linked(f)
  OBVIOUS
<1> HIDE DEF Y
<1>2. ASSUME NEW k \in 1..Len(files), NEW c \in Stage[k - 1]
      PROVE  EnterFile(c, files[k]) \in Stage[k]
  <2> DEFINE Z == X \cup Upto(Y, files, k - 1)
  <2>1. c \in Buffers /\ KeepsNames(b, c) /\ Means(c, Z) /\ files[k] \in Present
    BY StageHas
  <2>2. Has(c, FileName(files[k])) /\ HasDefs(c, files[k])
    BY <2>1 DEF KeepsNames, HasFiles, HasDefs
  <2> HIDE DEF Z
  <2>3. Comes(c, EnterFile(c, files[k]), Z \cup Linked(files[k]))
    BY <2>1, <2>2, EnterFileComes
  <2> QED
    BY <2>1, <2>3, <1>1, NextStage DEF Z
<1>3. b \in Stage[0]
  BY FirstStage
<1>4. EnteringFiles!Fold(b, files) \in Stage[Len(files)]
  <2> HIDE DEF Stage
  <2> QED
    BY <1>2, <1>3, EnteringFiles!FoldStages
<1>5. Comes(b, EnteringFiles!Fold(b, files), X \cup Whole(Y, files))
  BY <1>4, LastStage
<1>6. ToSet(files) \subseteq Present
  BY DEF ToSet
<1>7. {Y[f] : f \in ToSet(files)} = {Linked(f) : f \in ToSet(files)}
  BY <1>1, <1>6
<1> QED
  BY <1>5, <1>7 DEF Whole

----------------------------------------------------------------------------
(* Calls and requests.                                                     *)

CallEdges(f, reg) ==
    {Edge(FileName(f), qn, "CALLS") :
        qn \in UNION {Resolve(reg, f, name) : name \in text[f].calls}}
RouteEdges(f) ==
    {Edge(FileName(f), RouteName(r), "HTTP_CALLS") : r \in ToSet(text[f].routes)}
Called(f, reg) == CallEdges(f, reg) \cup RouteEdges(f)

\* What is entered into a registry comes from the files.
LEMMA RegisterTakes ==
    ASSUME NEW A, NEW reg \in Seq(A), NEW F, NEW files \in Seq(F),
           \A f \in F : Declared(f, text[f]) \in Seq(A)
    PROVE  RegisterAll(reg, files, text) \in Seq(A)
<1>1. ASSUME NEW r \in Seq(A), NEW qns \in Seq(A)
      PROVE  Register(r, qns) \in Seq(A)
  <2>1. \A q \in Seq(A), qn \in A : Enter(q, qn) \in Seq(A)
    BY DEF Enter
  <2>2. Entering!Fold(r, qns) \in Seq(A)
    BY <2>1, Entering!FoldStays
  <2> QED
    BY <2>2 DEF Register
<1> DEFINE all == [i \in DOMAIN files |-> Declared(files[i], text[files[i]])]
<1>2. all \in Seq(Seq(A))
  <2>1. DOMAIN files = 1..Len(files) /\ Len(files) \in Nat
    OBVIOUS
  <2>2. \A i \in 1..Len(files) : Declared(files[i], text[files[i]]) \in Seq(A)
    BY <2>1
  <2>3. all \in [1..Len(files) -> Seq(A)]
    BY <2>1, <2>2
  <2> QED
    BY <2>1, <2>3
<1> HIDE DEF all
<1>3. Registering!Fold(reg, all) \in Seq(A)
  BY <1>1, <1>2, Registering!FoldStays
<1> QED
  BY <1>3 DEF RegisterAll, all

\* Places in a sequence after another one.
LEMMA AfterHead ==
    ASSUME NEW T, NEW s \in Seq(T), NEW U, NEW t \in Seq(U), NEW i \in 1..Len(t)
    PROVE  Len(s) + i \in DOMAIN (s \o t) /\ (s \o t)[Len(s) + i] = t[i]
<1>1. s \in Seq(T \cup U) /\ t \in Seq(T \cup U)
  OBVIOUS
<1>2. s \o t \in Seq(T \cup U) /\ Len(s \o t) = Len(s) + Len(t)
  BY <1>1
<1>3. Len(s) + i \in 1..(Len(s) + Len(t))
  OBVIOUS
<1> QED
  BY <1>1, <1>2, <1>3

\* The names a file declares are the names of its definitions.
LEMMA DeclaredDefined ==
    ASSUME TextOK, NEW f \in Present, NEW i \in DOMAIN Declared(f, text[f])
    PROVE  /\ Declared(f, text[f])[i][1] = "def"
           /\ \E d \in ToSet(Defs(f, text[f])) : d.qn = Declared(f, text[f])[i]
<1> DEFINE n == Len(text[f].defs)
           row(j) == [label |-> "Function", qn |-> Declared(f, text[f])[j], file |-> f]
           head == <<[label |-> "Module", qn |-> ModuleName(f), file |-> f]>>
           tail == [j \in DOMAIN text[f].defs |-> row(j)]
<1>1. /\ DOMAIN text[f].defs = 1..n /\ n \in Nat
      /\ DOMAIN Declared(f, text[f]) = 1..n
      /\ Declared(f, text[f])[i] = DefName(f, text[f].defs[i])
  BY TextFacts, DeclaredTyped
<1>2. Declared(f, text[f])[i][1] = "def"
  BY <1>1, Kinds
<1>3. Defs(f, text[f]) = head \o tail
  BY DEF Defs
<1>4. tail = [j \in 1..n |-> row(j)]
  BY <1>1
<1>5. i \in 1..n
  BY <1>1
<1> HIDE DEF row
<1>6. Len(tail) = n /\ tail \in Seq({row(j) : j \in 1..n})
  BY <1>1, <1>4
<1>7. tail[i] = row(i)
  BY <1>4, <1>5
<1>8. head \in Seq({head[1]}) /\ Len(head) = 1
  OBVIOUS
<1> HIDE DEF head, tail, n
<1>9. i + 1 \in DOMAIN (head \o tail) /\ (head \o tail)[i + 1] = tail[i]
  <2>1. i \in 1..Len(tail)
    BY <1>5, <1>6
  <2>4. head \in Seq({head[1]}) /\ tail \in Seq({row(j) : j \in 1..n})
    BY <1>6, <1>8
  <2>5. Len(head) + i \in DOMAIN (head \o tail)
        /\ (head \o tail)[Len(head) + i] = tail[i]
    BY <2>1, <2>4, AfterHead
  <2>2. 1 + i \in DOMAIN (head \o tail) /\ (head \o tail)[1 + i] = tail[i]
    BY <2>5, <1>8
  <2>3. 1 + i = i + 1
    BY <1>1, <1>5
  <2> QED
    BY <2>2, <2>3
<1>10. row(i) \in ToSet(Defs(f, text[f]))
  BY <1>3, <1>7, <1>9 DEF ToSet
<1> QED
  BY <1>2, <1>10 DEF row

\* A call resolves to names of the registry only.
LEMMA ResolvedRegistered ==
    ASSUME NEW reg, NEW f, NEW name
    PROVE  Resolve(reg, f, name) \subseteq ToSet(reg)
BY DEF Resolve, Contains, ToSet

RouteEdge(b, source, r) ==
    [src |-> source, tgt |-> Node(b, RouteName(r)).id, type |-> "HTTP_CALLS"]

\* One request adds its HTTP_CALLS edge.
LEMMA AddRequestAdds ==
    ASSUME NEW b \in Buffers, NEW use \in [source : Nat, route : Routes]
    PROVE  LET d == AddRequest(b, use)
           IN  /\ d \in Buffers /\ KeepsNames(b, d)
               /\ Has(d, RouteName(use.route))
               /\ d.edges = b.edges \cup {RouteEdge(d, use.source, use.route)}
<1> DEFINE node == [label |-> "Route", qn |-> RouteName(use.route), file |-> ""]
           c == Upsert(b, node)
           e == RouteEdge(c, use.source, use.route)
           d == AddRequest(b, use)
<1>1. RouteName(use.route) \in QNames /\ RouteName(use.route)[1] = "route"
  BY NamesTyped, Kinds
<1>2. node \in Unnumbered /\ Proper(node, text) /\ node.qn = RouteName(use.route)
  BY <1>1, FilesAssumption DEF Unnumbered, Labels, Places, Proper, Owned, Placed
<1>3. /\ Leads(b, c, {node.qn[1]}, text) /\ Has(c, RouteName(use.route))
      /\ c.edges = b.edges
  <2> HIDE DEF node
  <2> QED
    BY <1>2, UpsertLeads
<1>4. AddRequest(b, use) = Insert(c, {e})
  BY DEF AddRequest, RouteEdge
<1> HIDE DEF c, node
<1>5. c \in Buffers /\ KeepsNames(b, c)
  BY <1>3, LeadsKeeps
<1>6. Node(c, RouteName(use.route)).id \in Nat
  BY <1>3, <1>5, NodeOfName, BufferShape DEF NodeRecords
<1>7. {e} \in SUBSET Edges(Nat) /\ IsFiniteSet({e})
  <2>1. e \in Edges(Nat)
    BY <1>6 DEF Edges, Types, RouteEdge
  <2>2. IsFiniteSet({e})
    BY FS_Singleton
  <2> QED
    BY <2>1, <2>2
<1>8. Leads(c, d, {}, text) /\ d.edges = c.edges \cup {e}
  <2> HIDE DEF e
  <2> QED
    BY <1>4, <1>5, <1>7, InsertLeads
<1> HIDE DEF d
<1>9. d \in Buffers /\ KeepsNames(c, d)
  BY <1>5, <1>8, LeadsKeeps
<1>10. Has(d, RouteName(use.route)) /\ e = RouteEdge(d, use.source, use.route)
  BY <1>3, <1>9 DEF KeepsNames, RouteEdge
<1> QED
  BY <1>3, <1>5, <1>8, <1>9, <1>10, KeepsTransitive DEF d

\* An edge that begins in the buffer main, and so ends when it is a call; a
\* route is in the buffer itself.
LocalEdge(b, main, x) ==
    [src |-> Node(main, x.src).id,
     tgt |-> IF x.type = "CALLS" THEN Node(main, x.tgt).id
             ELSE Node(b, x.tgt).id,
     type |-> x.type]
EndsIn(b, main, x) ==
    /\ Has(main, x.src)
    /\ IF x.type = "CALLS" THEN Has(main, x.tgt) ELSE Has(b, x.tgt)

\* The edges of b, a worker's buffer, stand for X.
LocalMeans(b, main, X) ==
    /\ X \in SUBSET Edges(QNames)
    /\ \A x \in X : EndsIn(b, main, x)
    /\ b.edges = {LocalEdge(b, main, x) : x \in X}

\* The edges a file's calls and requests stand for are between names.
LEMMA CalledTyped ==
    ASSUME TextOK, NEW f \in Present, NEW reg \in Seq(QNames)
    PROVE  Called(f, reg) \in SUBSET Edges(QNames)
<1>1. FileName(f) \in QNames
  BY NamesTyped DEF Present
<1>2. \A name : Resolve(reg, f, name) \subseteq QNames
  BY ResolvedRegistered DEF ToSet
<1>3. \A r \in ToSet(text[f].routes) : RouteName(r) \in QNames
  BY TextFacts, NamesTyped DEF ToSet
<1>4. CallEdges(f, reg) \in SUBSET Edges(QNames)
  BY <1>1, <1>2 DEF CallEdges, Edge, Edges, Types
<1>5. RouteEdges(f) \in SUBSET Edges(QNames)
  BY <1>1, <1>3 DEF RouteEdges, Edge, Edges, Types
<1> QED
  BY <1>4, <1>5 DEF Called

\* What resolving a file adds to a buffer.
LEMMA ResolveCallsAdds ==
    ASSUME TextOK, NEW f \in Present, NEW b \in Buffers, NEW main \in Buffers,
           Has(main, FileName(f)), registry \in Seq(QNames),
           \A qn \in ToSet(registry) : Has(main, qn)
    PROVE  LET c == ResolveCalls(b, main, f)
           IN  /\ c \in Buffers /\ KeepsNames(b, c)
               /\ \A x \in Called(f, registry) : EndsIn(c, main, x)
               /\ c.edges = b.edges \cup
                    {LocalEdge(c, main, x) : x \in Called(f, registry)}
<1> DEFINE source == Node(main, FileName(f)).id
           callees == UNION {Resolve(registry, f, name) : name \in text[f].calls}
           g == [qn \in callees |-> [src |-> source, tgt |-> Node(main, qn).id,
                                     type |-> "CALLS"]]
           E == {g[qn] : qn \in callees}
           d == Insert(b, E)
           rs == text[f].routes
           n == Len(rs)
           Uses == [source : Nat, route : Routes]
           uses == [i \in DOMAIN rs |-> [source |-> source, route |-> rs[i]]]
           Made(k) == {c \in Buffers :
                         /\ KeepsNames(b, c)
                         /\ \A j \in 1..k : Has(c, RouteName(rs[j]))
                         /\ c.edges = d.edges \cup
                              {RouteEdge(c, source, rs[j]) : j \in 1..k}}
           Stage == [k \in 0..n |-> Made(k)]
           c == ResolveCalls(b, main, f)
<1>1. \A qn : Has(main, qn) => Node(main, qn).id \in Nat
  BY NodeOfName, BufferShape DEF NodeRecords
<1>2. source \in Nat
  BY <1>1
<1>3. callees \subseteq ToSet(registry) /\ \A qn \in callees : Has(main, qn)
  BY ResolvedRegistered
<1>4. E \in SUBSET Edges(Nat) /\ IsFiniteSet(E)
  <2>1. \A qn \in callees : g[qn] \in Edges(Nat)
    BY <1>1, <1>2, <1>3 DEF Edges, Types
  <2>2. IsFiniteSet(callees)
    BY <1>3, FiniteRange, FS_Subset
  <2>3. g = [qn \in callees |-> g[qn]]
    OBVIOUS
  <2>4. IsFiniteSet(E)
    <3> HIDE DEF callees, g
    <3> QED
      BY <2>2, <2>3, FiniteImage
  <2> HIDE DEF g
  <2> QED
    BY <2>1, <2>4
<1>5. d \in Buffers /\ KeepsNames(b, d) /\ d.edges = b.edges \cup E
  <2> HIDE DEF E
  <2>1. Leads(b, d, {}, text) /\ d.edges = b.edges \cup E
    BY <1>4, InsertLeads
  <2> HIDE DEF d
  <2> QED
    BY <2>1, LeadsKeeps
<1>6. c = AddingRequests!Fold(d, uses)
  <2>1. {q \in callees : Has(main, q)} = callees
    BY <1>3
  <2>2. E = {[src |-> source, tgt |-> Node(main, qn).id, type |-> "CALLS"] :
               qn \in callees}
    OBVIOUS
  <2>3. c = AddingRequests!Fold(
              Insert(b, {[src |-> source, tgt |-> Node(main, qn).id,
                          type |-> "CALLS"] :
                           qn \in {q \in callees : Has(main, q)}}), uses)
    BY DEF ResolveCalls
  <2> HIDE DEF c, uses, callees, source, E
  <2> QED
    BY <2>1, <2>2, <2>3
<1>7. /\ DOMAIN rs = 1..n /\ n \in Nat
      /\ \A i \in 1..n : rs[i] \in Routes
  BY TextFacts
<1>8. /\ uses \in Seq(Uses) /\ Len(uses) = n
      /\ \A i \in 1..n : uses[i].source = source /\ uses[i].route = rs[i]
  <2> HIDE DEF source
  <2>1. \A i \in 1..n : /\ uses[i] \in Uses
                        /\ uses[i].source = source /\ uses[i].route = rs[i]
    BY <1>2, <1>7
  <2>2. uses = [i \in 1..n |-> uses[i]]
    BY <1>7
  <2> HIDE DEF Uses, uses, n
  <2>3. uses \in [1..n -> Uses]
    BY <2>1, <2>2
  <2> QED
    BY <1>7, <2>1, <2>3
<1> HIDE DEF d, uses, c, source, n, rs
<1>9. d \in Stage[0]
  <2>1. 1..0 = {}
    OBVIOUS
  <2>2. d \in Made(0)
    BY <1>5, <2>1
  <2> QED
    BY <1>7, <2>2
<1>10. ASSUME NEW k \in 1..n, NEW x \in Stage[k - 1]
       PROVE  AddRequest(x, uses[k]) \in Stage[k]
  <2> DEFINE y == AddRequest(x, uses[k])
  <2>1. /\ x \in Buffers /\ KeepsNames(b, x)
        /\ \A j \in 1..(k - 1) : Has(x, RouteName(rs[j]))
        /\ x.edges = d.edges \cup {RouteEdge(x, source, rs[j]) : j \in 1..(k - 1)}
    <3>1. x \in Made(k - 1)
      BY <1>7
    <3> QED
      BY <3>1
  <2>2. uses[k] \in Uses /\ uses[k].source = source /\ uses[k].route = rs[k]
    <3>1. k \in 1..Len(uses)
      BY <1>8
    <3> HIDE DEF Uses
    <3> QED
      BY <1>8, <3>1
  <2>3. /\ y \in Buffers /\ KeepsNames(x, y) /\ Has(y, RouteName(rs[k]))
        /\ y.edges = x.edges \cup {RouteEdge(y, source, rs[k])}
    BY <2>1, <2>2, AddRequestAdds
  <2> HIDE DEF y
  <2>4. \A j \in 1..(k - 1) :
           /\ Has(y, RouteName(rs[j]))
           /\ RouteEdge(y, source, rs[j]) = RouteEdge(x, source, rs[j])
    BY <2>1, <2>3 DEF KeepsNames, RouteEdge
  <2>5. 1..k = 1..(k - 1) \cup {k}
    BY <1>7
  <2>6. \A j \in 1..k : Has(y, RouteName(rs[j]))
    BY <2>3, <2>4, <2>5
  <2>7. y.edges = d.edges \cup {RouteEdge(y, source, rs[j]) : j \in 1..k}
    <3>1. {RouteEdge(x, source, rs[j]) : j \in 1..(k - 1)} =
             {RouteEdge(y, source, rs[j]) : j \in 1..(k - 1)}
      BY <2>4
    <3>2. {RouteEdge(y, source, rs[j]) : j \in 1..k} =
             {RouteEdge(y, source, rs[j]) : j \in 1..(k - 1)}
               \cup {RouteEdge(y, source, rs[k])}
      BY <2>5
    <3> QED
      BY <2>1, <2>3, <3>1, <3>2
  <2>8. KeepsNames(b, y)
    BY <2>1, <2>3, KeepsTransitive
  <2>9. y \in Made(k)
    BY <2>3, <2>6, <2>7, <2>8
  <2>10. Stage[k] = Made(k)
    BY <1>7
  <2> HIDE DEF Stage, Made
  <2> QED
    BY <2>9, <2>10 DEF y
<1>11. c \in Made(n)
  <2>1. AddingRequests!Fold(d, uses) \in Stage[n]
    <3> HIDE DEF Stage, Uses
    <3> QED
      BY <1>8, <1>9, <1>10, AddingRequests!FoldStages
  <2> QED
    BY <1>6, <1>7, <2>1
<1>12. /\ c \in Buffers /\ KeepsNames(b, c)
       /\ \A j \in 1..n : Has(c, RouteName(rs[j]))
       /\ c.edges = d.edges \cup {RouteEdge(c, source, rs[j]) : j \in 1..n}
  BY <1>11
<1>13. ToSet(rs) = {rs[j] : j \in 1..n}
  BY <1>7 DEF ToSet
<1>14. \A qn \in callees : LET x == Edge(FileName(f), qn, "CALLS")
                           IN  LocalEdge(c, main, x) = g[qn] /\ EndsIn(c, main, x)
  BY <1>3 DEF LocalEdge, EndsIn, Edge, source
<1>15. \A r \in ToSet(rs) :
          LET x == Edge(FileName(f), RouteName(r), "HTTP_CALLS")
          IN  LocalEdge(c, main, x) = RouteEdge(c, source, r) /\ EndsIn(c, main, x)
  BY <1>12, <1>13 DEF LocalEdge, EndsIn, Edge, RouteEdge, source
<1>16. CallEdges(f, registry) = {Edge(FileName(f), qn, "CALLS") : qn \in callees}
  BY DEF CallEdges
<1>17. RouteEdges(f) = {Edge(FileName(f), RouteName(r), "HTTP_CALLS") : r \in ToSet(rs)}
  BY DEF RouteEdges, rs
<1> HIDE DEF callees, g
<1>18. {LocalEdge(c, main, x) : x \in CallEdges(f, registry)} = E
  BY <1>14, <1>16
<1>19. {LocalEdge(c, main, x) : x \in RouteEdges(f)} =
          {RouteEdge(c, source, rs[j]) : j \in 1..n}
  BY <1>13, <1>15, <1>17
<1>20. \A x \in Called(f, registry) : EndsIn(c, main, x)
  BY <1>14, <1>15, <1>16, <1>17 DEF Called
<1>21. {LocalEdge(c, main, x) : x \in Called(f, registry)} =
          E \cup {RouteEdge(c, source, rs[j]) : j \in 1..n}
  BY <1>18, <1>19 DEF Called
<1>22. c.edges = b.edges \cup {LocalEdge(c, main, x) : x \in Called(f, registry)}
  <2> HIDE DEF E
  <2> QED
    BY <1>5, <1>12, <1>21
<1> QED
  BY <1>12, <1>20, <1>22 DEF c

\* One buffer takes the calls of all files.
LEMMA ResolvingComes ==
    ASSUME TextOK, NEW files \in Seq(Present), NEW b \in Buffers,
           HasFiles(b, files), registry \in Seq(QNames),
           \A qn \in ToSet(registry) : Has(b, qn), NEW X, Means(b, X)
    PROVE  Comes(b, Resolving!Fold(b, files),
                 X \cup UNION {Called(f, registry) : f \in ToSet(files)})
<1> DEFINE Y == [f \in Present |-> Called(f, registry)]
           Stage == Stages(b, X, Y, files)
<1>1. \A f \in Present : Y[f] = Called(f, registry)
  OBVIOUS
<1> HIDE DEF Y
<1>2. ASSUME NEW k \in 1..Len(files), NEW c \in Stage[k - 1]
      PROVE  ResolveHere(c, files[k]) \in Stage[k]
  <2> DEFINE Z == X \cup Upto(Y, files, k - 1)
             f == files[k]
             d == ResolveCalls(c, c, f)
             E == Called(f, registry)
  <2>1. c \in Buffers /\ KeepsNames(b, c) /\ Means(c, Z) /\ f \in Present
    BY StageHas
  <2>2. Has(c, FileName(f)) /\ \A qn \in ToSet(registry) : Has(c, qn)
    BY <2>1 DEF KeepsNames, HasFiles
  <2> HIDE DEF Z, f
  <2>3. /\ d \in Buffers /\ KeepsNames(c, d)
        /\ \A x \in E : EndsIn(d, c, x)
        /\ d.edges = c.edges \cup {LocalEdge(d, c, x) : x \in E}
    BY <2>1, <2>2, ResolveCallsAdds
  <2>4. E \in SUBSET Edges(QNames)
    BY <2>1, CalledTyped
  <2> HIDE DEF d, E
  <2>5. \A x \in E : /\ Has(d, x.src) /\ Has(d, x.tgt)
                     /\ LocalEdge(d, c, x) = EdgeIn(d, x)
    BY <2>3 DEF EndsIn, KeepsNames, LocalEdge, EdgeIn
  <2>6. d.edges = c.edges \cup {EdgeIn(d, x) : x \in E}
    BY <2>3, <2>5
  <2>7. Means(d, Z \cup E)
    BY <2>1, <2>3, <2>4, <2>5, <2>6, MeansMore
  <2>8. Comes(c, ResolveHere(c, f), Z \cup E)
    BY <2>3, <2>7 DEF Comes, ResolveHere, d
  <2>9. E = Y[f]
    BY <1>1, <2>1 DEF E
  <2> QED
    BY <2>8, <2>9, NextStage DEF Z, f
<1>3. b \in Stage[0]
  BY FirstStage
<1>4. Resolving!Fold(b, files) \in Stage[Len(files)]
  <2> HIDE DEF Stage
  <2> QED
    BY <1>2, <1>3, Resolving!FoldStages
<1>5. Comes(b, Resolving!Fold(b, files), X \cup Whole(Y, files))
  BY <1>4, LastStage
<1>6. ToSet(files) \subseteq Present
  BY DEF ToSet
<1>7. {Y[f] : f \in ToSet(files)} = {Called(f, registry) : f \in ToSet(files)}
  BY <1>1, <1>6
<1> QED
  BY <1>5, <1>7 DEF Whole

\* A worker's buffer takes the calls of a file.
LEMMA LocalResolve ==
    ASSUME TextOK, NEW f \in Present, NEW b \in Buffers, NEW main \in Buffers,
           Has(main, FileName(f)), registry \in Seq(QNames),
           \A qn \in ToSet(registry) : Has(main, qn),
           NEW X, LocalMeans(b, main, X)
    PROVE  LocalMeans(ResolveCalls(b, main, f), main, X \cup Called(f, registry))
<1> DEFINE c == ResolveCalls(b, main, f)
           E == Called(f, registry)
<1>1. /\ c \in Buffers /\ KeepsNames(b, c)
      /\ \A x \in E : EndsIn(c, main, x)
      /\ c.edges = b.edges \cup {LocalEdge(c, main, x) : x \in E}
  BY ResolveCallsAdds
<1>2. E \in SUBSET Edges(QNames)
  BY CalledTyped
<1> HIDE DEF c, E
<1>3. \A x \in X : /\ EndsIn(c, main, x)
                   /\ LocalEdge(c, main, x) = LocalEdge(b, main, x)
  BY <1>1 DEF LocalMeans, EndsIn, LocalEdge, KeepsNames
<1>4. b.edges = {LocalEdge(c, main, x) : x \in X}
  BY <1>3 DEF LocalMeans
<1>5. c.edges = {LocalEdge(c, main, x) : x \in X \cup E}
  BY <1>1, <1>4
<1> QED
  BY <1>1, <1>2, <1>3, <1>5 DEF LocalMeans, c, E

----------------------------------------------------------------------------
(* What a merge makes of the edges.                                        *)

\* cbm_gbuf_merge keeps the ids of dst and takes those of new names.
LEMMA MergeKeeps ==
    ASSUME NEW dst \in Buffers, NEW src \in Buffers
    PROVE  LET c == Merge(dst, src)
           IN  /\ c \in Buffers /\ KeepsNames(dst, c)
               /\ \A j \in DOMAIN src.nodes :
                     /\ Has(c, src.nodes[j].qn)
                     /\ ~Has(dst, src.nodes[j].qn) =>
                           Node(c, src.nodes[j].qn).id = src.nodes[j].id
<1> DEFINE c == Merge(dst, src)
<1>1. /\ c \in Buffers /\ Len(dst.nodes) <= Len(c.nodes)
      /\ \A i \in DOMAIN dst.nodes : /\ c.nodes[i].id = dst.nodes[i].id
                                     /\ c.nodes[i].qn = dst.nodes[i].qn
      /\ \A j \in DOMAIN src.nodes : ~Has(dst, src.nodes[j].qn) =>
            \E i \in DOMAIN c.nodes : c.nodes[i] = src.nodes[j]
  BY MergeFacts
<1> HIDE DEF c
<1>2. DOMAIN dst.nodes \subseteq DOMAIN c.nodes
  <2>1. /\ DOMAIN dst.nodes = 1..Len(dst.nodes) /\ Len(dst.nodes) \in Nat
        /\ DOMAIN c.nodes = 1..Len(c.nodes) /\ Len(c.nodes) \in Nat
    BY <1>1, BufferShape
  <2> QED
    BY <2>1, <1>1
<1>3. KeepsNames(dst, c)
  <2> SUFFICES ASSUME NEW qn, Has(dst, qn)
               PROVE  Has(c, qn) /\ Node(c, qn).id = Node(dst, qn).id
    BY DEF KeepsNames
  <2>1. PICK i \in DOMAIN dst.nodes :
           dst.nodes[i].qn = qn /\ Node(dst, qn) = dst.nodes[i]
    BY NodeOfName
  <2>2. i \in DOMAIN c.nodes /\ c.nodes[i].qn = qn
        /\ c.nodes[i].id = dst.nodes[i].id
    BY <2>1, <1>1, <1>2
  <2>3. Has(c, qn) /\ Node(c, qn) = c.nodes[i]
    BY <2>2, <1>1, NodeOfName
  <2> QED
    BY <2>1, <2>2, <2>3
<1>4. ASSUME NEW j \in DOMAIN src.nodes, ~Has(dst, src.nodes[j].qn)
      PROVE  /\ Has(c, src.nodes[j].qn)
             /\ Node(c, src.nodes[j].qn).id = src.nodes[j].id
  <2>1. PICK i \in DOMAIN c.nodes : c.nodes[i] = src.nodes[j]
    BY <1>1, <1>4
  <2>2. Has(c, c.nodes[i].qn) /\ Node(c, c.nodes[i].qn) = c.nodes[i]
    BY <1>1, NodeOfName
  <2> QED
    BY <2>1, <2>2
<1>5. \A j \in DOMAIN src.nodes : Has(dst, src.nodes[j].qn) => Has(c, src.nodes[j].qn)
  BY <1>3 DEF KeepsNames
<1> QED
  BY <1>1, <1>3, <1>4, <1>5 DEF c

\* No id of src is one of main's, but perhaps of its channels.
Apart(main, src) ==
    \A i \in DOMAIN main.nodes : main.nodes[i].qn[1] # "channel" =>
        \A j \in DOMAIN src.nodes : src.nodes[j].id # main.nodes[i].id

\* The edges of a worker begin in no channel, and calls do not end in one.
NoChannels(X) ==
    \A x \in X : x.src[1] # "channel" /\ (x.type = "CALLS" => x.tgt[1] # "channel")

\* A worker's edges mean the same after the merge, as long as no channel is
\* involved.
LEMMA MergeMeans ==
    ASSUME NEW main \in Buffers, NEW dst \in Buffers, NEW src \in Buffers,
           KeepsNames(main, dst), OneNodePerId(src), Apart(main, src),
           NEW X, Means(dst, X), NEW Y, LocalMeans(src, main, Y), NoChannels(Y)
    PROVE  Comes(dst, Merge(dst, src), X \cup Y)
<1> DEFINE c == Merge(dst, src)
           Same(id) == {n \in ToSet(src.nodes) : n.id = id /\ Has(dst, n.qn)}
<1>1. /\ c \in Buffers /\ KeepsNames(dst, c)
      /\ \A j \in DOMAIN src.nodes :
            /\ Has(c, src.nodes[j].qn)
            /\ ~Has(dst, src.nodes[j].qn) =>
                  Node(c, src.nodes[j].qn).id = src.nodes[j].id
      /\ c.edges = dst.edges \cup {Moved(dst, src, e) : e \in src.edges}
  BY MergeKeeps, MergeFacts
<1> HIDE DEF c
<1>2. \A id : Remapped(dst, src, id) =
                IF Same(id) = {} THEN id
                ELSE Node(dst, (CHOOSE n \in Same(id) : TRUE).qn).id
  BY DEF Remapped
<1>3. ASSUME NEW j \in DOMAIN src.nodes
      PROVE  Remapped(dst, src, src.nodes[j].id) = Node(c, src.nodes[j].qn).id
  <2> DEFINE n == src.nodes[j]
  <2>1. \A m \in Same(n.id) : m = n
    BY DEF ToSet, OneNodePerId
  <2>2. n \in ToSet(src.nodes)
    BY DEF ToSet
  <2>3. CASE Has(dst, n.qn)
    <3>1. Same(n.id) = {n}
      BY <2>1, <2>2, <2>3
    <3>2. (CHOOSE m \in {n} : TRUE) = n
      OBVIOUS
    <3> HIDE DEF n, Same
    <3>3. Remapped(dst, src, n.id) = Node(dst, n.qn).id
      BY <1>2, <3>1, <3>2
    <3>4. Node(c, n.qn).id = Node(dst, n.qn).id
      BY <1>1, <2>3 DEF KeepsNames
    <3> QED
      BY <3>3, <3>4 DEF n
  <2>4. CASE ~Has(dst, n.qn)
    <3>1. Same(n.id) = {}
      BY <2>1, <2>4
    <3> HIDE DEF Same
    <3> QED
      BY <1>1, <1>2, <2>4, <3>1
  <2> QED
    BY <2>3, <2>4
<1>4. ASSUME NEW qn, Has(main, qn), qn[1] # "channel"
      PROVE  Has(c, qn) /\ Remapped(dst, src, Node(main, qn).id) = Node(c, qn).id
  <2>1. PICK i \in DOMAIN main.nodes :
           main.nodes[i].qn = qn /\ Node(main, qn) = main.nodes[i]
    BY <1>4, NodeOfName
  <2>2. \A j \in DOMAIN src.nodes : src.nodes[j].id # Node(main, qn).id
    BY <2>1, <1>4 DEF Apart
  <2>3. Same(Node(main, qn).id) = {}
    BY <2>2 DEF ToSet
  <2> HIDE DEF Same
  <2>4. Remapped(dst, src, Node(main, qn).id) = Node(main, qn).id
    BY <1>2, <2>3
  <2>5. Has(c, qn) /\ Node(c, qn).id = Node(main, qn).id
    BY <1>1, <1>4 DEF KeepsNames
  <2> QED
    BY <2>4, <2>5
<1>5. ASSUME NEW y \in Y
      PROVE  /\ Moved(dst, src, LocalEdge(src, main, y)) = EdgeIn(c, y)
             /\ Has(c, y.src) /\ Has(c, y.tgt)
  <2>1. EndsIn(src, main, y) /\ y.src[1] # "channel"
        /\ (y.type = "CALLS" => y.tgt[1] # "channel")
    BY DEF LocalMeans, NoChannels
  <2>2. /\ Has(c, y.src)
        /\ Remapped(dst, src, Node(main, y.src).id) = Node(c, y.src).id
    BY <2>1, <1>4 DEF EndsIn
  <2>3. CASE y.type = "CALLS"
    <3>1. /\ Has(c, y.tgt)
          /\ Remapped(dst, src, Node(main, y.tgt).id) = Node(c, y.tgt).id
      BY <2>1, <2>3, <1>4 DEF EndsIn
    <3> QED
      BY <2>2, <2>3, <3>1 DEF Moved, LocalEdge, EdgeIn
  <2>4. CASE y.type # "CALLS"
    <3>1. PICK j \in DOMAIN src.nodes :
             src.nodes[j].qn = y.tgt /\ Node(src, y.tgt) = src.nodes[j]
      BY <2>1, <2>4, NodeOfName DEF EndsIn
    <3>2. /\ Has(c, y.tgt)
          /\ Remapped(dst, src, Node(src, y.tgt).id) = Node(c, y.tgt).id
      BY <3>1, <1>1, <1>3
    <3> QED
      BY <2>2, <2>4, <3>2 DEF Moved, LocalEdge, EdgeIn
  <2> QED
    BY <2>3, <2>4
<1>6. {Moved(dst, src, e) : e \in src.edges} = {EdgeIn(c, y) : y \in Y}
  <2>1. src.edges = {LocalEdge(src, main, y) : y \in Y}
    BY DEF LocalMeans
  <2>2. {Moved(dst, src, e) : e \in src.edges} =
           {Moved(dst, src, LocalEdge(src, main, y)) : y \in Y}
    BY <2>1
  <2> QED
    BY <2>2, <1>5
<1>7. Y \in SUBSET Edges(QNames)
  BY DEF LocalMeans
<1>8. Means(c, X \cup Y)
  BY <1>1, <1>5, <1>6, <1>7, MeansMore
<1> QED
  BY <1>1, <1>8 DEF Comes, c

\* All local buffers in the main one: their names, and their edges.
LEMMA MergingKeeps ==
    ASSUME NEW b \in Buffers, NEW locals \in [Pool -> Buffers]
    PROVE  LET c == Merging!Fold(b, locals)
           IN  /\ c \in Buffers /\ KeepsNames(b, c)
               /\ \A w \in Pool : \A j \in DOMAIN locals[w].nodes :
                     Has(c, locals[w].nodes[j].qn)
<1> DEFINE Held(k) == {c \in Buffers :
                         /\ KeepsNames(b, c)
                         /\ \A w \in 1..k : \A j \in DOMAIN locals[w].nodes :
                               Has(c, locals[w].nodes[j].qn)}
           Stage == [k \in 0..Workers |-> Held(k)]
<1>1. locals \in Seq(Buffers) /\ Len(locals) = Workers /\ Workers \in Nat
      /\ Pool = 1..Workers
  BY NumbersAssumption DEF Pool
<1>2. b \in Stage[0]
  <2>1. b \in Held(0)
    BY DEF KeepsNames
  <2> QED
    BY <1>1, <2>1
<1>3. ASSUME NEW k \in 1..Len(locals), NEW c \in Stage[k - 1]
      PROVE  Merge(c, locals[k]) \in Stage[k]
  <2> DEFINE d == Merge(c, locals[k])
  <2>1. c \in Held(k - 1) /\ Stage[k] = Held(k) /\ locals[k] \in Buffers
    BY <1>1
  <2>2. /\ c \in Buffers /\ KeepsNames(b, c)
        /\ \A w \in 1..(k - 1) : \A j \in DOMAIN locals[w].nodes :
              Has(c, locals[w].nodes[j].qn)
    BY <2>1
  <2>3. /\ d \in Buffers /\ KeepsNames(c, d)
        /\ \A j \in DOMAIN locals[k].nodes : Has(d, locals[k].nodes[j].qn)
    BY <2>1, <2>2, MergeKeeps
  <2> HIDE DEF d
  <2>4. \A w \in 1..k : w = k \/ w \in 1..(k - 1)
    BY <1>1
  <2>5. KeepsNames(b, d)
    BY <2>2, <2>3, KeepsTransitive
  <2>6. \A w \in 1..k : \A j \in DOMAIN locals[w].nodes :
           Has(d, locals[w].nodes[j].qn)
    BY <2>2, <2>3, <2>4 DEF KeepsNames
  <2>7. d \in Held(k)
    BY <2>3, <2>5, <2>6
  <2> QED
    BY <2>1, <2>7 DEF d
<1>4. Merging!Fold(b, locals) \in Stage[Workers]
  <2> HIDE DEF Stage
  <2> QED
    BY <1>1, <1>2, <1>3, Merging!FoldStages
<1>5. Merging!Fold(b, locals) \in Held(Workers)
  BY <1>1, <1>4
<1> QED
  BY <1>1, <1>5

\* Merging all workers adds what each of them has found.
LEMMA MergingComes ==
    ASSUME NEW b \in Buffers, NEW locals \in [Pool -> Buffers], NEW X, Means(b, X),
           NEW Y, \A w \in Pool : /\ OneNodePerId(locals[w]) /\ Apart(b, locals[w])
                                  /\ LocalMeans(locals[w], b, Y[w])
                                  /\ NoChannels(Y[w])
    PROVE  Comes(b, Merging!Fold(b, locals), X \cup UNION {Y[w] : w \in Pool})
<1> DEFINE s == [w \in 1..Workers |-> w]
           Stage == Stages(b, X, Y, s)
<1>1. locals \in Seq(Buffers) /\ Len(locals) = Workers /\ Workers \in Nat
      /\ Pool = 1..Workers
  BY NumbersAssumption DEF Pool
<1>2. s \in Seq(Pool) /\ Len(s) = Workers /\ ToSet(s) = Pool
      /\ \A w \in Pool : s[w] = w
  BY <1>1 DEF ToSet
<1> HIDE DEF s
<1>3. ASSUME NEW k \in 1..Len(locals), NEW c \in Stage[k - 1]
      PROVE  Merge(c, locals[k]) \in Stage[k]
  <2> DEFINE Z == X \cup Upto(Y, s, k - 1)
  <2>0. k \in Pool /\ k \in 1..Len(s) /\ s[k] = k
    BY <1>1, <1>2
  <2>1. c \in Buffers /\ KeepsNames(b, c) /\ Means(c, Z)
    BY <1>2, <2>0, StageHas
  <2> HIDE DEF Z
  <2>2. Comes(c, Merge(c, locals[k]), Z \cup Y[k])
    BY <2>0, <2>1, MergeMeans
  <2> QED
    BY <2>0, <2>2, <1>2, NextStage DEF Z
<1>4. b \in Stage[0]
  BY <1>2, FirstStage
<1>5. Merging!Fold(b, locals) \in Stage[Len(locals)]
  <2> HIDE DEF Stage
  <2> QED
    BY <1>1, <1>3, <1>4, Merging!FoldStages
<1>6. Comes(b, Merging!Fold(b, locals), X \cup Whole(Y, s))
  BY <1>1, <1>2, <1>5, LastStage
<1> QED
  BY <1>2, <1>6 DEF Whole

----------------------------------------------------------------------------
(* What the dump makes of the edges.                                       *)

\* The last node with its id, which is what the dump takes an edge to.
LastOfId(b, i) ==
    /\ b.nodes[i].id < b.next
    /\ \A j \in DOMAIN b.nodes : b.nodes[j].id = b.nodes[i].id => j <= i
Readable(b, qn) == \E i \in DOMAIN b.nodes : b.nodes[i].qn = qn /\ LastOfId(b, i)

\* Of the types whose ends are the last ones of their ids, the dump has the
\* edges the buffer stands for.
LEMMA DumpMeans ==
    ASSUME NEW b \in Buffers, NEW X, Means(b, X), NEW S,
           \A x \in X : x.type \in S => Readable(b, x.src) /\ Readable(b, x.tgt)
    PROVE  {e \in Dump(b).edges : e.type \in S} = {x \in X : x.type \in S}
<1> DEFINE Named(id) == b.nodes[Max(At(b, id))].qn
           D == {e \in b.edges : At(b, e.src) # {} /\ At(b, e.tgt) # {}}
           Row(e) == [src |-> Named(e.src), tgt |-> Named(e.tgt), type |-> e.type]
<1>1. Dump(b).edges = {Row(e) : e \in D}
  BY DEF Dump, At
<1>2. ASSUME NEW qn, Readable(b, qn)
      PROVE  At(b, Node(b, qn).id) # {} /\ Named(Node(b, qn).id) = qn
  <2>1. PICK i \in DOMAIN b.nodes : b.nodes[i].qn = qn /\ LastOfId(b, i)
    BY <1>2 DEF Readable
  <2>2. Node(b, qn) = b.nodes[i]
    BY <2>1, NodeOfName
  <2> DEFINE A == At(b, b.nodes[i].id)
  <2>3. i \in A /\ \A j \in A : j <= i
    BY <2>1 DEF At, LastOfId
  <2>4. Len(b.nodes) \in Nat /\ A \in SUBSET (1..Len(b.nodes))
    BY BufferShape DEF At
  <2> HIDE DEF A
  <2>5. Max(A) \in A /\ Max(A) >= i
    BY <2>3, <2>4, MaxOfNats
  <2>6. Max(A) = i
    <3> DEFINE m == Max(A)
    <3>1. m \in Nat /\ i \in Nat /\ m <= i /\ m >= i
      BY <2>3, <2>4, <2>5
    <3> HIDE DEF m
    <3>2. m = i
      BY <3>1
    <3> QED
      BY <3>2 DEF m
  <2> QED
    BY <2>1, <2>2, <2>3, <2>6 DEF A
<1>3. ASSUME NEW x \in X, x.type \in S
      PROVE  EdgeIn(b, x) \in D /\ Row(EdgeIn(b, x)) = x
  <2>1. /\ At(b, Node(b, x.src).id) # {} /\ Named(Node(b, x.src).id) = x.src
        /\ At(b, Node(b, x.tgt).id) # {} /\ Named(Node(b, x.tgt).id) = x.tgt
    BY <1>2, <1>3
  <2> HIDE DEF Named
  <2>2. EdgeIn(b, x) \in b.edges
    BY DEF Means
  <2>3. EdgeIn(b, x) \in D
    BY <2>1, <2>2 DEF EdgeIn
  <2>4. x = [src |-> x.src, tgt |-> x.tgt, type |-> x.type]
    BY DEF Means, Edges
  <2>5. Row(EdgeIn(b, x)) = [src |-> x.src, tgt |-> x.tgt, type |-> x.type]
    BY <2>1 DEF EdgeIn
  <2> QED
    BY <2>3, <2>4, <2>5
<1>4. ASSUME NEW e \in D, Row(e).type \in S
      PROVE  Row(e) \in X
  <2>1. PICK x \in X : e = EdgeIn(b, x)
    BY DEF Means
  <2>2. x.type \in S
    BY <1>4, <2>1 DEF EdgeIn
  <2> HIDE DEF Row
  <2> QED
    BY <2>1, <2>2, <1>3
<1>5. \A x \in X : x.type \in S => \E e \in D : x = Row(e)
  BY <1>3
<1> HIDE DEF Row, D
<1> QED
  BY <1>1, <1>4, <1>5

----------------------------------------------------------------------------
(* A run stores what the texts mean: the invariant.                        *)

\* The stored edges between what no edit touched.
Undisturbed ==
    {e \in db.edges : /\ OwnerIn(db, e.src) \notin Changed \cup Deleted
                      /\ OwnerIn(db, e.tgt) \notin Changed \cup Deleted}

\* The edges and the names a run begins with, and the files it is about.
Base ==
    IF full THEN UNION {ContainEdges(f) : f \in ToSet(todo)} ELSE Undisturbed
Known  == IF full THEN <<>> ELSE Seed(Rest)
Listed == IF full THEN Existing ELSE Keep(Order, Changed)

AllLinked == UNION {Linked(f) : f \in ToSet(todo)}
AllCalled == UNION {Called(f, registry) : f \in ToSet(todo)}

\* What the main buffer stands for, phase by phase.
EdgesOK ==
    /\ phase \in {"passes", "extract", "registry"} => Means(gbuf, Base)
    /\ phase \in {"calls", "resolve"} => Means(gbuf, Base \cup AllLinked)
    /\ phase = "finish" => Means(gbuf, (Base \cup AllLinked) \cup AllCalled)

\* Calls are resolved to definitions that have nodes.
RegistryOK ==
    Running => \A qn \in ToSet(registry) : qn[1] = "def" /\ Has(gbuf, qn)

\* The files before next_file_idx are parsed, or some worker is at them.
DefsOK ==
    /\ phase = "extract" =>
          /\ next <= Len(todo) + 1
          /\ \A w \in Pool : local[w].edges = {}
          /\ \A p \in 1..(next - 1) :
                \/ \E w \in Pool : at[w] = p
                \/ \E w \in Pool : HasDefs(local[w], Sorted[p])
    /\ phase = "registry" => next = 1 /\ \A f \in ToSet(todo) : HasDefs(gbuf, f)

\* The same for their calls; X says which edges a worker has found.
Found(X) ==
    /\ X \in [Pool -> SUBSET AllCalled]
    /\ \A w \in Pool : LocalMeans(local[w], gbuf, X[w])
    /\ \A p \in 1..(next - 1) :
          \/ \E w \in Pool : at[w] = p
          \/ \E w \in Pool : Called(todo[p], registry) \subseteq X[w]
CallsOK == phase = "resolve" => next <= Len(todo) + 1 /\ \E X : Found(X)

\* The ids of the workers are given once, after all of the main buffer but
\* those of its channels.
LocalIds ==
    /\ \A v, w \in Pool : \A i \in DOMAIN local[v].nodes :
          \A j \in DOMAIN local[w].nodes :
             local[v].nodes[i].id = local[w].nodes[j].id => v = w /\ i = j
    /\ \A w \in Pool : \A j \in DOMAIN local[w].nodes :
          /\ local[w].nodes[j].id < shared
          /\ \A i \in DOMAIN gbuf.nodes : gbuf.nodes[i].qn[1] # "channel" =>
                gbuf.nodes[i].id < local[w].nodes[j].id
    /\ \A i \in DOMAIN gbuf.nodes : gbuf.nodes[i].qn[1] # "channel" =>
          gbuf.nodes[i].id < shared

\* The dump finds the nodes of all names, or of all but the channels'.
LastOK ==
    /\ phase \in {"extract", "registry", "resolve"} => ~exact
    /\ phase = "resolve" => LocalIds
    /\ phase = "finish" =>
          \A i \in DOMAIN gbuf.nodes :
             exact \/ gbuf.nodes[i].qn[1] # "channel" => LastOfId(gbuf, i)

\* What a run is about, and when it fills the registry.
BegunOK ==
    Running =>
        /\ todo = Listed
        /\ full => saved = {}
        /\ registry = IF phase \in {"passes", "extract", "registry"} THEN Known
                      ELSE RegisterAll(Known, todo, text)

Exactly == EdgesOK /\ RegistryOK /\ DefsOK /\ CallsOK /\ LastOK /\ BegunOK

\* The texts have the same files and definitions.
SameShape(s, t) ==
    \A f \in Files : /\ s[f] = Absent <=> t[f] = Absent
                     /\ s[f] # Absent => s[f].defs = t[f].defs

\* No two files share a name or a definition, no module is the directory.
Clear(texts) ==
    \A f \in Files : texts[f] # Absent =>
        /\ ModuleOf[f] # Directory
        /\ \A g \in Files : g # f /\ texts[g] # Absent =>
              /\ Stem[f] # Stem[g] /\ ModuleOf[f] # ModuleOf[g]
              /\ ToSet(texts[f].defs) \cap ToSet(texts[g].defs) = {}

\* Since a full run no definition has come or gone.
ShapeOK == calm /\ ~(Running /\ full) => SameShape(indexed, text)

\* What is stored is what the indexed texts mean, after a full run and, when
\* their names are clear, as long as no definition comes or goes.
Faithful   == Compared(db.edges) = Compared(MeaningOf(indexed))
Steady == calm /\ Clear(indexed)
StoredOK ==
    /\ Steady /\ ~(Running /\ full) => Faithful
    /\ ~Running /\ full => Faithful

Stores == Exactly /\ ShapeOK /\ StoredOK

\* The sets of expected edges depend on the texts and the registry alone.
LEMMA SetsSame ==
    ASSUME UNCHANGED <<text, indexed, db, full, todo>>
    PROVE  /\ Base' = Base /\ AllLinked' = AllLinked /\ Sorted' = Sorted
           /\ Known' = Known /\ Listed' = Listed
           /\ registry' = registry =>
                /\ AllCalled' = AllCalled
                /\ \A f : Called(f, registry)' = Called(f, registry)
<1>1. Base' = Base
  <2>1. Undisturbed' = Undisturbed
    BY DEF Undisturbed, OwnerIn, Changed, Deleted
  <2> QED
    BY <2>1 DEF Base
<1>2. AllLinked' = AllLinked /\ Sorted' = Sorted
  BY DEF AllLinked, Linked, DefEdges, EmitEdges, Sorted
<1>3. Known' = Known /\ Listed' = Listed
  <2>1. Rest' = Rest
    BY RestSame
  <2>2. Changed' = Changed /\ Existing' = Existing
    BY DEF Changed, Existing
  <2> QED
    BY <2>1, <2>2 DEF Known, Listed
<1>4. ASSUME registry' = registry
      PROVE  \A f : Called(f, registry)' = Called(f, registry)
  BY <1>4 DEF Called, CallEdges, RouteEdges
<1>5. ASSUME registry' = registry
      PROVE  AllCalled' = AllCalled
  BY <1>5 DEF AllCalled, Called, CallEdges, RouteEdges
<1> QED
  BY <1>1, <1>2, <1>3, <1>4, <1>5

\* A full run begins with the containment edges.
LEMMA StartFullStores ==
    ASSUME Owns, StartFull
    PROVE  Exactly'
<1>1. /\ full' = TRUE /\ registry' = <<>> /\ saved' = {}
      /\ todo' = Existing /\ gbuf' = Structure(Existing) /\ next' = 1
      /\ local' = NoLocals /\ text' = text
      /\ phase' = IF Parallel(Existing) THEN "extract" ELSE "passes"
      /\ exact' = ~Parallel(Existing)
  BY DEF StartFull, Begin
<1>2. Existing \in Seq(Present) /\ TextOK /\ Existing' = Existing
  <2>1. Present \in SUBSET Files /\ Existing = Keep(Order, Present)
    BY DEF Present, Existing, FilesOf
  <2>2. TextOK /\ Existing' = Existing
    BY <1>1 DEF TextOK, Owns, TypeOK, Existing
  <2> QED
    BY <2>1, <2>2, KeptFiles
<1>3. Means(gbuf', Base')
  <2>1. Means(Structure(Existing), UNION {ContainEdges(f) : f \in ToSet(Existing)})
    BY <1>2, StructureMeans
  <2>2. Base' = UNION {ContainEdges(f) : f \in ToSet(Existing)}
    <3>1. \A f : ContainEdges(f)' = ContainEdges(f)
      BY DEF ContainEdges
    <3> QED
      BY <1>1, <3>1 DEF Base
  <2> QED
    BY <2>1, <2>2, <1>1
<1>4. EdgesOK'
  BY <1>1, <1>3 DEF EdgesOK
<1>5. RegistryOK'
  BY <1>1 DEF RegistryOK, ToSet
<1>6. DefsOK'
  <2>1. 1..(next' - 1) = {} /\ next' <= Len(todo') + 1
    <3>1. Len(Existing) \in Nat
      BY <1>2
    <3> QED
      BY <1>1, <3>1
  <2>2. \A w \in Pool : local'[w].edges = {}
    BY <1>1 DEF NoLocals, EmptyBuffer
  <2> QED
    BY <1>1, <2>1, <2>2 DEF DefsOK
<1>7. CallsOK' /\ LastOK' /\ BegunOK'
  BY <1>1, <1>2 DEF CallsOK, LastOK, BegunOK, Listed, Known, Running
<1> QED
  BY <1>4, <1>5, <1>6, <1>7 DEF Exactly

\* What a pass finds.
LEMMA PassBegins ==
    ASSUME Owns, Running
    PROVE  /\ TextOK /\ todo \in Seq(Present) /\ gbuf \in Buffers
           /\ registry \in Seq(QNames) /\ HasFiles(gbuf, todo)
           /\ local \in [Pool -> Buffers] /\ shared \in Nat
           /\ Len(todo) \in Nat /\ DOMAIN todo = 1..Len(todo)
BY DEF Owns, TypeOK, RunOK, TextOK, HasFiles

\* The names of a pass enter the registry with their nodes.
LEMMA RegistryNext ==
    ASSUME Owns, Running, RegistryOK, KeepsNames(gbuf, gbuf'), NEW X,
           Means(gbuf', X), AllLinked \subseteq X,
           registry' = RegisterAll(registry, todo, text)
    PROVE  \A qn \in ToSet(registry') : qn[1] = "def" /\ Has(gbuf', qn)
<1> DEFINE A == {qn \in QNames : qn[1] = "def" /\ Has(gbuf', qn)}
           F == ToSet(todo)
<1>0. TextOK /\ todo \in Seq(Present) /\ registry \in Seq(QNames)
  BY PassBegins
<1>1. registry \in Seq(A)
  <2>1. \A i \in 1..Len(registry) : registry[i] \in A
    BY <1>0 DEF RegistryOK, ToSet, KeepsNames
  <2> HIDE DEF A
  <2> QED
    BY <1>0, <2>1
<1>2. todo \in Seq(F) /\ \A f \in F : f \in Present
  <2>1. \A i \in 1..Len(todo) : todo[i] \in F
    BY <1>0 DEF ToSet
  <2>2. \A f \in F : f \in Present
    BY <1>0 DEF ToSet
  <2> HIDE DEF F
  <2> QED
    BY <1>0, <2>1, <2>2
<1>3. ASSUME NEW f \in F
      PROVE  Declared(f, text[f]) \in Seq(A)
  <2> DEFINE s == Declared(f, text[f])
  <2>1. f \in Present
    BY <1>2, <1>3
  <2>2. s \in Seq(QNames)
    BY <2>1, <1>0, DeclaredTyped
  <2>3. ASSUME NEW i \in DOMAIN s
        PROVE  s[i][1] = "def" /\ Has(gbuf', s[i])
    <3>1. PICK d \in ToSet(Defs(f, text[f])) : d.qn = s[i]
      BY <2>1, <2>3, <1>0, DeclaredDefined
    <3>2. s[i][1] = "def"
      BY <2>1, <2>3, <1>0, DeclaredDefined
    <3>3. Edge(FileName(f), d.qn, "DEFINES") \in X
      BY <1>3 DEF AllLinked, Linked, DefEdges
    <3>4. Edge(FileName(f), d.qn, "DEFINES").tgt = d.qn
      BY DEF Edge
    <3> QED
      BY <3>1, <3>2, <3>3, <3>4 DEF Means
  <2> HIDE DEF s
  <2>4. \A i \in 1..Len(s) : s[i] \in A
    BY <2>2, <2>3
  <2> HIDE DEF A
  <2>5. s \in Seq(A)
    BY <2>2, <2>4
  <2> QED
    BY <2>5 DEF s
<1> HIDE DEF A, F
<1>4. registry' \in Seq(A)
  BY <1>1, <1>2, <1>3, RegisterTakes
<1>5. \A qn \in ToSet(registry') : qn \in A
  BY <1>4 DEF ToSet
<1> QED
  BY <1>5 DEF A

\* The sequential passes add DEFINES and EMITS edges.
LEMMA DefinePassesStores ==
    ASSUME Owns, Exactly, DefinePasses
    PROVE  Exactly'
<1>1. /\ phase = "passes" /\ phase' = "calls" /\ Running
      /\ registry' = RegisterAll(registry, todo, text)
      /\ gbuf' = Emitting!Fold(Defining!Fold(gbuf, todo), todo)
      /\ UNCHANGED <<text, indexed, db, full, todo, saved, next, at, local, shared>>
  BY DEF DefinePasses, Running
<1>2. /\ TextOK /\ todo \in Seq(Present) /\ gbuf \in Buffers
      /\ HasFiles(gbuf, todo) /\ Means(gbuf, Base)
  BY <1>1, PassBegins DEF Exactly, EdgesOK
<1> DEFINE b == Defining!Fold(gbuf, todo)
           D == UNION {DefEdges(f) : f \in ToSet(todo)}
           E == UNION {EmitEdges(f) : f \in ToSet(todo)}
<1>3. Comes(gbuf, b, Base \cup D)
  BY <1>2, DefiningComes
<1>4. gbuf' = Emitting!Fold(b, todo)
  BY <1>1
<1>5. (Base \cup D) \cup E = Base \cup AllLinked
  BY DEF AllLinked, Linked
<1> HIDE DEF b
<1>6. b \in Buffers /\ HasFiles(b, todo) /\ Means(b, Base \cup D)
  BY <1>2, <1>3 DEF Comes, KeepsNames, HasFiles
<1>7. Comes(b, gbuf', (Base \cup D) \cup E)
  BY <1>2, <1>4, <1>6, EmittingComes
<1> HIDE DEF D, E
<1>8. Comes(gbuf, gbuf', Base \cup AllLinked)
  BY <1>3, <1>5, <1>7, ComesAgain
<1>9. KeepsNames(gbuf, gbuf') /\ Means(gbuf', Base \cup AllLinked)
  BY <1>8 DEF Comes
<1>10. EdgesOK'
  BY <1>1, <1>9, SetsSame DEF EdgesOK
<1>11. RegistryOK'
  <2>1. \A qn \in ToSet(registry') : qn[1] = "def" /\ Has(gbuf', qn)
    BY <1>1, <1>9, RegistryNext DEF Exactly
  <2> QED
    BY <2>1 DEF RegistryOK
<1>12. DefsOK' /\ CallsOK' /\ LastOK'
  BY <1>1 DEF DefsOK, CallsOK, LastOK
<1>13. BegunOK'
  BY <1>1, SetsSame DEF Exactly, BegunOK, Running
<1> QED
  BY <1>10, <1>11, <1>12, <1>13 DEF Exactly

\* The sequential pass over calls adds the edges they mean.
LEMMA CallPassesStores ==
    ASSUME Owns, IdsOK, Exactly, CallPasses
    PROVE  Exactly'
<1>1. /\ phase = "calls" /\ phase' = "finish" /\ Running
      /\ gbuf' = Resolving!Fold(gbuf, todo)
      /\ UNCHANGED <<text, indexed, db, full, todo, registry, saved, next, at, local, shared>>
  BY DEF CallPasses, Running
<1>2. /\ TextOK /\ todo \in Seq(Present) /\ gbuf \in Buffers
      /\ registry \in Seq(QNames) /\ HasFiles(gbuf, todo)
      /\ \A qn \in ToSet(registry) : qn[1] = "def" /\ Has(gbuf, qn)
      /\ Means(gbuf, Base \cup AllLinked)
  BY <1>1, PassBegins DEF Exactly, EdgesOK, RegistryOK
<1>3. Comes(gbuf, gbuf', (Base \cup AllLinked) \cup AllCalled)
  BY <1>1, <1>2, ResolvingComes DEF AllCalled
<1>4. EdgesOK'
  BY <1>1, <1>3, SetsSame DEF EdgesOK, Comes
<1>5. RegistryOK'
  BY <1>1, <1>2, <1>3 DEF RegistryOK, Comes, KeepsNames
<1>6. DefsOK' /\ CallsOK'
  BY <1>1 DEF DefsOK, CallsOK
<1>7. LastOK'
  <2>1. Compact(gbuf')
    BY <1>1, CallPassesLeads DEF IdsOK, Leads
  <2>2. \A i \in DOMAIN gbuf'.nodes : LastOfId(gbuf', i)
    <3> SUFFICES ASSUME NEW i \in DOMAIN gbuf'.nodes PROVE LastOfId(gbuf', i)
      OBVIOUS
    <3>1. DOMAIN gbuf'.nodes = 1..Len(gbuf'.nodes) /\ i \in Nat
      BY <1>3, BufferShape DEF Comes
    <3>2. \A j \in DOMAIN gbuf'.nodes : gbuf'.nodes[j].id = gbuf'.nodes[i].id =>
             j = i
      BY <2>1 DEF Compact
    <3>3. gbuf'.nodes[i].id < gbuf'.next
      BY <2>1 DEF Compact
    <3> QED
      BY <3>1, <3>2, <3>3 DEF LastOfId
  <2> QED
    BY <1>1, <2>2 DEF LastOK
<1>8. BegunOK'
  BY <1>1, SetsSame DEF Exactly, BegunOK, Running
<1> QED
  BY <1>4, <1>5, <1>6, <1>7, <1>8 DEF Exactly

\* The registry pass fills the registry and links what was extracted.
LEMMA BuildRegistryStores ==
    ASSUME Owns, IdsOK, Exactly, BuildRegistry
    PROVE  Exactly'
<1>1. /\ phase = "registry" /\ phase' = "resolve" /\ Running
      /\ registry' = RegisterAll(registry, todo, text)
      /\ gbuf' = EnteringFiles!Fold(gbuf, todo)
      /\ UNCHANGED <<text, indexed, db, full, todo, saved, next, at, local, shared, exact>>
  BY DEF BuildRegistry, Running, hist
<1>2. /\ TextOK /\ todo \in Seq(Present) /\ gbuf \in Buffers
      /\ HasFiles(gbuf, todo) /\ Means(gbuf, Base)
      /\ \A i \in DOMAIN todo : HasDefs(gbuf, todo[i])
      /\ next = 1 /\ local = NoLocals /\ Len(todo) \in Nat
  <2>1. \A i \in DOMAIN todo : HasDefs(gbuf, todo[i])
    BY <1>1 DEF Exactly, DefsOK, ToSet
  <2> QED
    BY <1>1, <2>1, PassBegins DEF Exactly, EdgesOK, DefsOK, Owns, RunOK
<1>3. Comes(gbuf, gbuf', Base \cup AllLinked)
  BY <1>1, <1>2, EnteringComes DEF AllLinked
<1>4. /\ KeepsNames(gbuf, gbuf') /\ Means(gbuf', Base \cup AllLinked)
      /\ gbuf' \in Buffers
  BY <1>3 DEF Comes
<1>5. EdgesOK'
  BY <1>1, <1>4, SetsSame DEF EdgesOK
<1>6. RegistryOK'
  <2>1. \A qn \in ToSet(registry') : qn[1] = "def" /\ Has(gbuf', qn)
    BY <1>1, <1>4, RegistryNext DEF Exactly
  <2> QED
    BY <2>1 DEF RegistryOK
<1>7. CallsOK'
  <2> DEFINE X == [w \in Pool |-> {}]
  <2>1. X \in [Pool -> SUBSET AllCalled']
    OBVIOUS
  <2>2. \A w \in Pool : LocalMeans(local'[w], gbuf', X[w])
    BY <1>1, <1>2 DEF LocalMeans, NoLocals, EmptyBuffer
  <2>3. 1..(next' - 1) = {} /\ next' <= Len(todo') + 1
    BY <1>1, <1>2
  <2> HIDE DEF X
  <2>4. Found(X)'
    BY <2>1, <2>2, <2>3 DEF Found
  <2> QED
    BY <2>3, <2>4 DEF CallsOK
<1>8. LastOK'
  <2>1. ~exact' /\ \A w \in Pool : DOMAIN local'[w].nodes = {}
    BY <1>1, <1>2, NoLocalsTyped DEF Exactly, LastOK
  <2>2. Leads(gbuf, gbuf', {"channel"}, text)
    BY <1>1, BuildRegistryLeads
  <2>3. Compact(gbuf) /\ gbuf.next = shared
    BY <1>1 DEF IdsOK
  <2>4. \A i \in DOMAIN gbuf'.nodes : gbuf'.nodes[i].qn[1] # "channel" =>
           gbuf'.nodes[i].id < shared'
    <3> SUFFICES ASSUME NEW i \in DOMAIN gbuf'.nodes,
                        gbuf'.nodes[i].qn[1] # "channel"
                 PROVE  gbuf'.nodes[i].id < shared'
      OBVIOUS
    <3>1. i \in DOMAIN gbuf.nodes
      BY <2>2 DEF Leads, Adds
    <3> QED
      BY <3>1, <2>2, <2>3, <1>1 DEF Leads, Grows, Compact
  <2>5. LocalIds'
    BY <2>1, <2>4 DEF LocalIds
  <2> QED
    BY <1>1, <2>1, <2>5 DEF LastOK
<1>9. DefsOK'
  BY <1>1 DEF DefsOK
<1>10. BegunOK'
  BY <1>1, SetsSame DEF Exactly, BegunOK, Running
<1> QED
  BY <1>5, <1>6, <1>7, <1>8, <1>9, <1>10 DEF Exactly

\* A file that was taken is in work.
LEMMA TakeStores ==
    ASSUME Owns, Exactly, NEW w \in Pool, Take(w)
    PROVE  Exactly'
<1>1. /\ phase \in {"extract", "resolve"} /\ Running
      /\ at[w] = None /\ next <= Len(todo)
      /\ at' = [at EXCEPT ![w] = next] /\ next' = next + 1
      /\ UNCHANGED <<text, indexed, db, phase, full, todo, gbuf, registry,
                     saved, local, shared, exact>>
  BY DEF Take, Running, hist
<1>2. /\ Len(todo) \in Nat /\ next \in Nat /\ next' <= Len(todo') + 1
  <2>1. Len(todo) \in Nat /\ next \in Nat
    BY <1>1, PassBegins, OrderTyped DEF Owns, TypeOK
  <2> QED
    BY <1>1, <2>1
<1>3. at'[w] = next /\ \A v \in Pool : at[v] \in Nat /\ at[v] # 0 => at'[v] = at[v]
  BY <1>1 DEF Owns, TypeOK, None
<1>4. \A p \in 1..(next' - 1) :
         /\ p # next => p \in 1..(next - 1)
         /\ (\E v \in Pool : at[v] = p) => \E v \in Pool : at'[v] = p
  BY <1>1, <1>2, <1>3
<1>5. EdgesOK' /\ RegistryOK'
  BY <1>1, SetsSame DEF Exactly, EdgesOK, RegistryOK, Running
<1>6. DefsOK'
  <2> SUFFICES ASSUME phase = "extract" PROVE DefsOK'
    BY <1>1 DEF DefsOK
  <2>1. /\ \A v \in Pool : local[v].edges = {}
        /\ \A p \in 1..(next - 1) :
              \/ \E v \in Pool : at[v] = p
              \/ \E v \in Pool : HasDefs(local[v], Sorted[p])
    BY DEF Exactly, DefsOK
  <2>2. \A p \in 1..(next' - 1) :
           \/ \E v \in Pool : at'[v] = p
           \/ \E v \in Pool : HasDefs(local[v], Sorted[p])
    BY <2>1, <1>3, <1>4
  <2>3. \A p : \A v : HasDefs(local[v], Sorted[p])' <=> HasDefs(local[v], Sorted[p])
    BY <1>1, SetsSame DEF HasDefs
  <2> QED
    BY <1>1, <1>2, <2>1, <2>2, <2>3 DEF DefsOK
<1>7. CallsOK'
  <2> SUFFICES ASSUME phase = "resolve" PROVE CallsOK'
    BY <1>1 DEF CallsOK
  <2>1. PICK X : Found(X)
    BY DEF Exactly, CallsOK
  <2>2. /\ X \in [Pool -> SUBSET AllCalled]
        /\ \A v \in Pool : LocalMeans(local[v], gbuf, X[v])
        /\ \A p \in 1..(next - 1) :
              \/ \E v \in Pool : at[v] = p
              \/ \E v \in Pool : Called(todo[p], registry) \subseteq X[v]
    BY <2>1 DEF Found
  <2>3. \A p \in 1..(next' - 1) :
           \/ \E v \in Pool : at'[v] = p
           \/ \E v \in Pool : Called(todo[p], registry) \subseteq X[v]
    BY <2>2, <1>3, <1>4
  <2>4. AllCalled' = AllCalled
        /\ \A p : Called(todo[p], registry)' = Called(todo[p], registry)
    BY <1>1, SetsSame DEF Called, CallEdges, RouteEdges
  <2>5. Found(X)'
    BY <1>1, <2>2, <2>3, <2>4 DEF Found
  <2> QED
    BY <1>2, <2>5 DEF CallsOK
<1>8. LastOK'
  <2>1. LocalIds' <=> LocalIds
    BY <1>1 DEF LocalIds
  <2> QED
    BY <1>1, <2>1 DEF Exactly, LastOK
<1>9. BegunOK'
  BY <1>1, SetsSame DEF Exactly, BegunOK, Running
<1> QED
  BY <1>5, <1>6, <1>7, <1>8, <1>9 DEF Exactly

\* What a worker's step leaves alone.
LEMMA WorkStores ==
    ASSUME Owns, Exactly, Running, NEW w \in Pool, NEW buf, Work(w, buf)
    PROVE  /\ EdgesOK' /\ RegistryOK' /\ BegunOK'
           /\ UNCHANGED <<text, indexed, db, full, phase, todo, gbuf, registry,
                     next, exact>>
           /\ local' = [local EXCEPT ![w] = buf]
           /\ \A v \in Pool : v # w => at'[v] = at[v] /\ local'[v] = local[v]
           /\ local'[w] = buf
<1>1. /\ UNCHANGED <<text, indexed, db, phase, full, todo, gbuf, registry, saved,
                     next, exact>>
      /\ local' = [local EXCEPT ![w] = buf] /\ at' = [at EXCEPT ![w] = None]
  BY DEF Work, hist
<1>2. EdgesOK' /\ RegistryOK'
  BY <1>1, SetsSame DEF Exactly, EdgesOK, RegistryOK, Running
<1>3. BegunOK'
  BY <1>1, SetsSame DEF Exactly, BegunOK, Running
<1> QED
  BY <1>1, <1>2, <1>3 DEF Owns, TypeOK

\* A file that was extracted has its definitions in a worker's buffer.
LEMMA ExtractStores ==
    ASSUME Owns, Exactly, NEW w \in Pool, Extract(w)
    PROVE  Exactly'
<1> DEFINE f == Sorted[at[w]]
           buf == AddDefs(Mine(w), f)
<1>1. Running /\ Work(w, buf) /\ phase = "extract" /\ at[w] # 0
  BY DEF Extract, Running, None
<1>2. f \in Present /\ TextOK
  <2>1. at[w] \in 1..Len(Sorted)
    BY <1>1, SortedFacts DEF Owns, RunOK
  <2> QED
    BY <2>1, <1>1, SortedFacts, PassBegins
<1>3. /\ \A v \in Pool : local[v].edges = {}
      /\ next <= Len(todo) + 1
      /\ \A p \in 1..(next - 1) :
            \/ \E v \in Pool : at[v] = p
            \/ \E v \in Pool : HasDefs(local[v], Sorted[p])
      /\ ~exact
  BY <1>1 DEF Exactly, DefsOK, LastOK
<1>4. /\ Mine(w) \in Buffers /\ Mine(w).nodes = local[w].nodes
      /\ Mine(w).edges = {}
  BY <1>1, <1>3, MineTyped
<1>5. Means(Mine(w), {})
  BY <1>4 DEF Means
<1>6. Comes(Mine(w), buf, {}) /\ HasDefs(buf, f)
  BY <1>2, <1>4, <1>5, AddDefsComes
<1> HIDE DEF buf
<1>7. /\ EdgesOK' /\ RegistryOK' /\ BegunOK'
      /\ UNCHANGED <<text, indexed, db, full, phase, todo, gbuf, registry,
                     next, exact>>
      /\ \A v \in Pool : v # w => at'[v] = at[v] /\ local'[v] = local[v]
      /\ local'[w] = buf
  BY <1>1, WorkStores
<1>8. \A v \in Pool : local'[v].edges = {}
  <2>1. buf.edges = {}
    BY <1>6 DEF Comes, Means
  <2> QED
    BY <2>1, <1>3, <1>7
<1>9. ASSUME NEW p \in 1..(next - 1)
      PROVE  \/ \E v \in Pool : at'[v] = p
             \/ \E v \in Pool : HasDefs(local'[v], Sorted[p])
  <2>1. CASE at[w] = p
    BY <2>1, <1>6, <1>7
  <2>2. CASE \E v \in Pool : v # w /\ at[v] = p
    BY <2>2, <1>7
  <2>3. CASE \E v \in Pool : v # w /\ HasDefs(local[v], Sorted[p])
    BY <2>3, <1>7
  <2>4. CASE HasDefs(local[w], Sorted[p])
    <3>1. HasDefs(buf, Sorted[p])
      BY <2>4, <1>4, <1>6 DEF Comes, KeepsNames, HasDefs, Has, Names
    <3> QED
      BY <3>1, <1>7
  <2> QED
    BY <2>1, <2>2, <2>3, <2>4, <1>3
<1>10. DefsOK'
  <2>1. ASSUME NEW p, NEW v \in Pool, HasDefs(local'[v], Sorted[p])
        PROVE  HasDefs(local[v], Sorted[p])'
    BY <2>1, <1>7, SetsSame DEF HasDefs
  <2>2. \A p \in 1..(next' - 1) :
           \/ \E v \in Pool : at'[v] = p
           \/ \E v \in Pool : HasDefs(local[v], Sorted[p])'
    BY <1>7, <1>9, <2>1
  <2> QED
    BY <1>1, <1>3, <1>7, <1>8, <2>2 DEF DefsOK
<1>11. CallsOK' /\ LastOK'
  BY <1>1, <1>3, <1>7 DEF CallsOK, LastOK
<1> QED
  BY <1>7, <1>10, <1>11 DEF Exactly

\* The counter of a buffer says nothing about its edges.
LEMMA LocalSame ==
    ASSUME NEW b, NEW c, c.nodes = b.nodes, c.edges = b.edges, NEW main, NEW X,
           LocalMeans(b, main, X)
    PROVE  LocalMeans(c, main, X)
<1>1. \A qn : (Has(c, qn) <=> Has(b, qn)) /\ Node(c, qn) = Node(b, qn)
  BY DEF Has, Names, Node
<1>2. \A x : LocalEdge(c, main, x) = LocalEdge(b, main, x)
  BY <1>1 DEF LocalEdge
<1>3. \A x : EndsIn(c, main, x) <=> EndsIn(b, main, x)
  BY <1>1 DEF EndsIn
<1>4. c.edges = {LocalEdge(c, main, x) : x \in X}
  BY <1>2 DEF LocalMeans
<1> QED
  BY <1>3, <1>4 DEF LocalMeans

\* A file that was resolved has its edges in a worker's buffer.
LEMMA ResolveFileStores ==
    ASSUME Owns, RestKept, Exactly, NEW w \in Pool, ResolveFile(w)
    PROVE  Exactly'
<1> DEFINE f == todo[at[w]]
           buf == ResolveCalls(Mine(w), gbuf, f)
<1>1. /\ Running /\ Work(w, buf) /\ phase = "resolve" /\ at[w] # 0
      /\ Leads(Mine(w), buf, {"route"}, text)
  BY ResolveFileLeads DEF ResolveFile, None
<1>2. /\ TextOK /\ todo \in Seq(Present) /\ gbuf \in Buffers
      /\ registry \in Seq(QNames) /\ HasFiles(gbuf, todo)
      /\ \A qn \in ToSet(registry) : Has(gbuf, qn)
      /\ at[w] \in DOMAIN todo /\ f \in Present /\ Has(gbuf, FileName(f))
      /\ f \in ToSet(todo)
  <2>1. at[w] \in DOMAIN todo
    BY <1>1, PassBegins DEF Owns, RunOK
  <2> QED
    BY <2>1, <1>1, PassBegins DEF Exactly, RegistryOK, HasFiles, ToSet
<1>3. PICK X : Found(X) /\ next <= Len(todo) + 1 /\ ~exact /\ LocalIds
  BY <1>1 DEF Exactly, CallsOK, LastOK
<1>4. /\ X \in [Pool -> SUBSET AllCalled]
      /\ \A v \in Pool : LocalMeans(local[v], gbuf, X[v])
      /\ \A p \in 1..(next - 1) :
            \/ \E v \in Pool : at[v] = p
            \/ \E v \in Pool : Called(todo[p], registry) \subseteq X[v]
  BY <1>3 DEF Found
<1>5. Mine(w) \in Buffers /\ LocalMeans(Mine(w), gbuf, X[w])
  <2>1. /\ Mine(w) \in Buffers /\ Mine(w).nodes = local[w].nodes
        /\ Mine(w).edges = local[w].edges
    BY <1>1, MineTyped
  <2> QED
    BY <2>1, <1>4, LocalSame
<1> DEFINE new == Called(f, registry)
<1>6. LocalMeans(buf, gbuf, X[w] \cup new)
  BY <1>2, <1>5, LocalResolve
<1>7. new \subseteq AllCalled
  BY <1>2 DEF AllCalled
<1> HIDE DEF buf, new
<1>8. /\ EdgesOK' /\ RegistryOK' /\ BegunOK'
      /\ UNCHANGED <<text, indexed, db, full, phase, todo, gbuf, registry,
                     next, exact>>
      /\ \A v \in Pool : v # w => at'[v] = at[v] /\ local'[v] = local[v]
      /\ local'[w] = buf
  BY <1>1, WorkStores
<1>9. PICK Y \in [Pool -> SUBSET AllCalled] :
         Y[w] = X[w] \cup new /\ \A v \in Pool : v # w => Y[v] = X[v]
  <2> DEFINE Z == [X EXCEPT ![w] = X[w] \cup new]
  <2>1. /\ Z \in [Pool -> SUBSET AllCalled] /\ Z[w] = X[w] \cup new
        /\ \A v \in Pool : v # w => Z[v] = X[v]
    BY <1>4, <1>7
  <2> QED
    BY <2>1
<1>10. CallsOK'
  <2>1. \A v \in Pool : LocalMeans(local'[v], gbuf, Y[v])
    BY <1>4, <1>6, <1>8, <1>9
  <2>2. ASSUME NEW p \in 1..(next - 1)
        PROVE  \/ \E v \in Pool : at'[v] = p
               \/ \E v \in Pool : Called(todo[p], registry) \subseteq Y[v]
    <3>1. CASE at[w] = p
      BY <3>1, <1>9 DEF new
    <3>2. CASE \E v \in Pool : v # w /\ at[v] = p
      BY <3>2, <1>8
    <3>3. CASE \E v \in Pool : Called(todo[p], registry) \subseteq X[v]
      BY <3>3, <1>9
    <3> QED
      BY <3>1, <3>2, <3>3, <1>4
  <2>3. AllCalled' = AllCalled
        /\ \A p : Called(todo[p], registry)' = Called(todo[p], registry)
    BY <1>8, SetsSame DEF Called, CallEdges, RouteEdges
  <2>4. Found(Y)'
    BY <1>8, <1>9, <2>1, <2>2, <2>3 DEF Found
  <2> QED
    BY <1>3, <1>8, <2>4 DEF CallsOK
<1>11. /\ shared \in Nat /\ shared' \in Nat /\ shared <= shared'
       /\ \A v \in Pool : \A i \in DOMAIN local'[v].nodes :
             /\ local'[v].nodes[i].id \in Nat
             /\ \/ /\ i \in DOMAIN local[v].nodes
                   /\ local'[v].nodes[i].id = local[v].nodes[i].id
                \/ /\ v = w /\ i \notin DOMAIN local[w].nodes
                   /\ local'[v].nodes[i].id >= shared
  BY <1>1, WorkRest
<1>12. /\ \A u, v \in Pool : \A i \in DOMAIN local[u].nodes :
             \A j \in DOMAIN local[v].nodes :
                local[u].nodes[i].id = local[v].nodes[j].id => u = v /\ i = j
       /\ \A v \in Pool : \A j \in DOMAIN local[v].nodes :
             /\ local[v].nodes[j].id < shared
             /\ \A i \in DOMAIN gbuf.nodes : gbuf.nodes[i].qn[1] # "channel" =>
                   gbuf.nodes[i].id < local[v].nodes[j].id
       /\ \A i \in DOMAIN gbuf.nodes : gbuf.nodes[i].qn[1] # "channel" =>
             gbuf.nodes[i].id < shared
  BY <1>3 DEF LocalIds
<1>13. Compact(buf) /\ shared' = buf.next
  <2>1. Compact(Mine(w))
    BY <1>1, <1>12, MineTyped DEF Compact
  <2> QED
    BY <2>1, <1>1 DEF Leads, Work
<1>14. \A i \in DOMAIN gbuf.nodes : gbuf.nodes[i].id \in Nat
  BY <1>2, BufferShape DEF NodeRecords
<1>15. ASSUME NEW v \in Pool, NEW j \in DOMAIN local'[v].nodes
       PROVE  /\ local'[v].nodes[j].id < shared'
              /\ \A i \in DOMAIN gbuf.nodes : gbuf.nodes[i].qn[1] # "channel" =>
                    gbuf.nodes[i].id < local'[v].nodes[j].id
  <2> DEFINE id == local'[v].nodes[j].id
  <2>1. id \in Nat /\ (id >= shared \/
           (j \in DOMAIN local[v].nodes /\ id = local[v].nodes[j].id))
    BY <1>11
  <2>2. id < shared'
    <3>1. CASE v = w
      BY <3>1, <1>8, <1>13 DEF Compact
    <3>2. CASE v # w
      <4>1. id < shared
        BY <3>2, <1>11, <1>12
      <4> HIDE DEF id
      <4> QED
        BY <2>1, <4>1, <1>11
    <3> QED
      BY <3>1, <3>2
  <2>3. ASSUME NEW i \in DOMAIN gbuf.nodes, gbuf.nodes[i].qn[1] # "channel"
        PROVE  gbuf.nodes[i].id < id
    <3> DEFINE old == gbuf.nodes[i].id
    <3>1. old \in Nat /\ old < shared
      BY <2>3, <1>12, <1>14
    <3>2. id >= shared \/ old < id
      BY <2>1, <2>3, <1>12
    <3> HIDE DEF id, old
    <3>3. old < id
      BY <2>1, <3>1, <3>2, <1>11
    <3> QED
      BY <3>3 DEF old
  <2> QED
    BY <2>2, <2>3
<1>16. ASSUME NEW u \in Pool, u # w, NEW i \in DOMAIN local'[u].nodes,
              NEW j \in DOMAIN local'[w].nodes
       PROVE  local'[u].nodes[i].id # local'[w].nodes[j].id
  <2> DEFINE id == local'[w].nodes[j].id
             other == local'[u].nodes[i].id
  <2>1. other \in Nat /\ other < shared
    BY <1>11, <1>12, <1>16
  <2>2. id \in Nat /\ (id >= shared \/ id # other)
    BY <1>8, <1>11, <1>12, <1>16
  <2> HIDE DEF id, other
  <2>3. id # other
    BY <2>1, <2>2, <1>11
  <2> QED
    BY <2>3 DEF id, other
<1>17. ASSUME NEW u \in Pool, NEW i \in DOMAIN local'[u].nodes, NEW v \in Pool,
              NEW j \in DOMAIN local'[v].nodes,
              local'[u].nodes[i].id = local'[v].nodes[j].id
       PROVE  u = v /\ i = j
  <2>1. CASE u = w /\ v = w
    BY <2>1, <1>8, <1>13, <1>17 DEF Compact
  <2>2. CASE u = w /\ v # w
    BY <2>2, <1>16, <1>17
  <2>3. CASE u # w /\ v = w
    BY <2>3, <1>16, <1>17
  <2>4. CASE u # w /\ v # w
    BY <2>4, <1>8, <1>12, <1>17
  <2> QED
    BY <2>1, <2>2, <2>3, <2>4
<1>18. LastOK'
  <2>1. \A i \in DOMAIN gbuf.nodes : gbuf.nodes[i].qn[1] # "channel" =>
           gbuf.nodes[i].id < shared'
    <3> SUFFICES ASSUME NEW i \in DOMAIN gbuf.nodes,
                        gbuf.nodes[i].qn[1] # "channel"
                 PROVE  gbuf.nodes[i].id < shared'
      OBVIOUS
    <3> DEFINE old == gbuf.nodes[i].id
    <3>1. old \in Nat /\ old < shared
      BY <1>12, <1>14
    <3> HIDE DEF old
    <3>2. old < shared'
      BY <3>1, <1>11
    <3> QED
      BY <3>2 DEF old
  <2>2. LocalIds'
    BY <2>1, <1>8, <1>15, <1>17 DEF LocalIds
  <2> QED
    BY <2>2, <1>1, <1>3, <1>8 DEF LastOK
<1>19. DefsOK'
  BY <1>1, <1>8 DEF DefsOK
<1> QED
  BY <1>8, <1>10, <1>18, <1>19 DEF Exactly

\* Every file of a run is at a position of Sorted.
LEMMA SortedAll ==
    ASSUME Owns, NEW f \in ToSet(todo)
    PROVE  \E p \in 1..Len(todo) : Sorted[p] = f
<1>1. todo \in Seq(Files)
  BY DEF Owns, TypeOK
<1>2. /\ BySize \in Seq(Files) /\ IsInjective(BySize) /\ ToSet(BySize) = Files
  BY FilesAssumption
<1> DEFINE S == ToSet(todo)
           k == Keep(BySize, S)
<1>3. ToSet(k) = ToSet(BySize) \cap S
  <2> HIDE DEF S
  <2> QED
    BY <1>2, KeepCorrect
<1>4. Sorted = k /\ f \in ToSet(BySize) \cap S
  BY <1>1, <1>2 DEF Sorted, ToSet
<1> HIDE DEF k
<1>5. f \in ToSet(Sorted)
  BY <1>3, <1>4
<1>6. Sorted \in Seq(Present) /\ Len(Sorted) = Len(todo)
  BY SortedFacts
<1> HIDE DEF Sorted
<1> QED
  BY <1>5, <1>6 DEF ToSet

\* The main buffer after the merge, with the counter of the workers.
LEMMA MergeStores ==
    ASSUME Owns, Running, NEW then, MergeLocals(then)
    PROVE  LET c == Merging!Fold(gbuf, local)
           IN  /\ c \in Buffers /\ gbuf' \in Buffers /\ KeepsNames(gbuf, gbuf')
               /\ gbuf'.nodes = c.nodes /\ gbuf'.edges = c.edges
               /\ gbuf'.next = shared
               /\ \A X : Means(c, X) => Means(gbuf', X)
               /\ \A w \in Pool : \A j \in DOMAIN local[w].nodes :
                     Has(gbuf', local[w].nodes[j].qn)
<1> DEFINE c == Merging!Fold(gbuf, local)
<1>1. gbuf \in Buffers /\ local \in [Pool -> Buffers] /\ shared \in Nat
  BY PassBegins
<1>2. /\ c \in Buffers /\ KeepsNames(gbuf, c)
      /\ \A w \in Pool : \A j \in DOMAIN local[w].nodes :
            Has(c, local[w].nodes[j].qn)
  BY <1>1, MergingKeeps
<1>3. gbuf' = [c EXCEPT !.next = shared]
  BY DEF MergeLocals
<1> HIDE DEF c
<1>4. /\ c \in [nodes : Seq(NodeRecords), edges : SUBSET Edges(Nat), next : Nat]
      /\ OneNodePerName(c.nodes) /\ IsFiniteSet(c.edges)
  BY <1>2, BufferShape
<1>5. /\ gbuf' \in [nodes : Seq(NodeRecords), edges : SUBSET Edges(Nat),
                    next : Nat]
      /\ gbuf'.nodes = c.nodes /\ gbuf'.edges = c.edges /\ gbuf'.next = shared
  BY <1>1, <1>3, <1>4, RecordUpdate DEF IsBuffer
<1>6. gbuf' \in Buffers
  BY <1>4, <1>5 DEF Buffers, NodeRecords
<1>7. \A qn : (Has(gbuf', qn) <=> Has(c, qn)) /\ Node(gbuf', qn) = Node(c, qn)
  BY <1>5 DEF Has, Names, Node
<1>8. KeepsNames(gbuf, gbuf') /\ KeepsNames(c, gbuf')
  BY <1>2, <1>7 DEF KeepsNames
<1>9. \A X : Means(c, X) => Means(gbuf', X)
  BY <1>5, <1>8, MeansSame
<1> QED
  BY <1>2, <1>5, <1>6, <1>7, <1>8, <1>9 DEF c

\* The merge brings all definitions into the main buffer.
LEMMA MergeExtractedStores ==
    ASSUME Owns, IdsOK, Exactly, MergeExtracted
    PROVE  Exactly'
<1>1. /\ phase = "extract" /\ phase' = "registry" /\ Running
      /\ MergeLocals("registry")
      /\ next > Len(todo) /\ \A w \in Pool : at[w] = None
      /\ next' = 1
      /\ UNCHANGED <<text, indexed, db, full, todo, registry, saved, exact>>
  BY DEF MergeExtracted, MergeLocals, Running, hist
<1>2. /\ Means(gbuf, Base) /\ next <= Len(todo) + 1
      /\ \A w \in Pool : local[w].edges = {}
      /\ \A p \in 1..(next - 1) :
            \/ \E w \in Pool : at[w] = p
            \/ \E w \in Pool : HasDefs(local[w], Sorted[p])
      /\ ~exact
  BY <1>1 DEF Exactly, EdgesOK, DefsOK, LastOK
<1>3. gbuf \in Buffers /\ local \in [Pool -> Buffers] /\ Len(todo) \in Nat
  BY <1>1, PassBegins
<1> DEFINE c == Merging!Fold(gbuf, local)
<1>4. /\ gbuf' \in Buffers /\ KeepsNames(gbuf, gbuf')
      /\ \A X : Means(c, X) => Means(gbuf', X)
      /\ \A w \in Pool : \A j \in DOMAIN local[w].nodes :
            Has(gbuf', local[w].nodes[j].qn)
  BY <1>1, MergeStores
<1>5. Means(c, Base)
  <2> DEFINE Y == [w \in Pool |-> {}]
  <2>1. ASSUME NEW w \in Pool
        PROVE  /\ OneNodePerId(local[w]) /\ Apart(gbuf, local[w])
               /\ LocalMeans(local[w], gbuf, Y[w]) /\ NoChannels(Y[w])
    <3>1. OneNodePerId(local[w]) /\ Apart(gbuf, local[w])
      BY <1>1 DEF IdsOK, Distinct, OneNodePerId, Apart
    <3>2. LocalMeans(local[w], gbuf, {}) /\ NoChannels({})
      BY <1>2 DEF LocalMeans, NoChannels
    <3> QED
      BY <3>1, <3>2
  <2>2. UNION {Y[w] : w \in Pool} = {}
    OBVIOUS
  <2> HIDE DEF c, Y
  <2>3. Comes(gbuf, Merging!Fold(gbuf, local),
              Base \cup UNION {Y[w] : w \in Pool})
    BY <2>1, <1>2, <1>3, MergingComes
  <2>4. Base \cup UNION {Y[w] : w \in Pool} = Base
    BY <2>2
  <2> QED
    BY <2>3, <2>4 DEF Comes, c
<1> HIDE DEF c
<1>6. EdgesOK'
  BY <1>1, <1>4, <1>5, SetsSame DEF EdgesOK
<1>7. RegistryOK'
  BY <1>1, <1>4 DEF Exactly, RegistryOK, KeepsNames
<1>8. DefsOK'
  <2>1. ASSUME NEW f \in ToSet(todo)
        PROVE  HasDefs(gbuf', f)
    <3>1. PICK p \in 1..Len(todo) : Sorted[p] = f
      BY <2>1, <1>3, SortedAll
    <3>2. p \in 1..(next - 1) /\ p # None
      BY <1>1, <1>2, <1>3 DEF None, Owns, TypeOK
    <3>3. PICK w \in Pool : HasDefs(local[w], f)
      BY <3>1, <3>2, <1>1, <1>2
    <3> QED
      BY <3>3, <1>4 DEF HasDefs, Has, Names, ToSet
  <2>2. \A f \in ToSet(todo') : HasDefs(gbuf, f)'
    BY <2>1, <1>1 DEF HasDefs
  <2> QED
    BY <1>1, <2>2 DEF DefsOK
<1>9. CallsOK' /\ LastOK'
  BY <1>1, <1>2 DEF CallsOK, LastOK
<1>10. BegunOK'
  BY <1>1, SetsSame DEF Exactly, BegunOK, Running
<1> QED
  BY <1>6, <1>7, <1>8, <1>9, <1>10 DEF Exactly

\* What a call or a request is an edge between.
LEMMA CalledKinds ==
    ASSUME Running, RegistryOK, NEW x \in AllCalled
    PROVE  /\ x.src[1] = "file"
           /\ \/ x.type = "CALLS" /\ x.tgt[1] = "def"
              \/ x.type = "HTTP_CALLS" /\ x.tgt[1] = "route"
<1>1. PICK f \in ToSet(todo) : x \in Called(f, registry)
  BY DEF AllCalled
<1>2. CASE x \in CallEdges(f, registry)
  <2>1. PICK name \in text[f].calls : \E qn \in Resolve(registry, f, name) :
           x = Edge(FileName(f), qn, "CALLS")
    BY <1>2 DEF CallEdges
  <2>2. PICK qn \in Resolve(registry, f, name) :
           x = Edge(FileName(f), qn, "CALLS")
    BY <2>1
  <2>3. qn[1] = "def"
    BY ResolvedRegistered DEF RegistryOK
  <2> QED
    BY <2>2, <2>3, Kinds DEF Edge
<1>3. CASE x \in RouteEdges(f)
  BY <1>3, Kinds DEF RouteEdges, Edge
<1> QED
  BY <1>1, <1>2, <1>3 DEF Called

\* The merge brings all calls and requests into the main buffer.
LEMMA MergeResolvedStores ==
    ASSUME Owns, IdsOK, Exactly, MergeResolved
    PROVE  Exactly'
<1>1. /\ phase = "resolve" /\ phase' = "finish" /\ Running
      /\ MergeLocals("finish")
      /\ next > Len(todo) /\ \A w \in Pool : at[w] = None
      /\ UNCHANGED <<text, indexed, db, full, todo, registry, saved, exact>>
  BY DEF MergeResolved, MergeLocals, Running, hist
<1>2. PICK X : Found(X) /\ next <= Len(todo) + 1 /\ ~exact /\ LocalIds
  BY <1>1 DEF Exactly, CallsOK, LastOK
<1>3. /\ gbuf \in Buffers /\ local \in [Pool -> Buffers] /\ Len(todo) \in Nat
      /\ DOMAIN todo = 1..Len(todo) /\ Means(gbuf, Base \cup AllLinked)
  BY <1>1, PassBegins DEF Exactly, EdgesOK
<1> DEFINE c == Merging!Fold(gbuf, local)
<1>4. /\ c \in Buffers /\ gbuf' \in Buffers /\ KeepsNames(gbuf, gbuf')
      /\ gbuf'.nodes = c.nodes /\ gbuf'.edges = c.edges /\ gbuf'.next = shared
      /\ \A Y : Means(c, Y) => Means(gbuf', Y)
  BY <1>1, MergeStores
<1>5. /\ X \in [Pool -> SUBSET AllCalled]
      /\ \A w \in Pool : LocalMeans(local[w], gbuf, X[w])
      /\ \A p \in 1..(next - 1) :
            \/ \E w \in Pool : at[w] = p
            \/ \E w \in Pool : Called(todo[p], registry) \subseteq X[w]
  BY <1>2 DEF Found
<1>6. UNION {X[w] : w \in Pool} = AllCalled
  <2>1. ASSUME NEW x \in AllCalled PROVE \E w \in Pool : x \in X[w]
    <3>1. PICK f \in ToSet(todo) : x \in Called(f, registry)
      BY <2>1 DEF AllCalled
    <3>2. PICK p \in 1..Len(todo) : todo[p] = f
      BY <1>3 DEF ToSet
    <3>3. p \in 1..(next - 1) /\ p # None
      BY <1>1, <1>2, <1>3 DEF None, Owns, TypeOK
    <3> QED
      BY <3>1, <3>2, <3>3, <1>1, <1>5
  <2> QED
    BY <2>1, <1>5
<1>7. Means(c, (Base \cup AllLinked) \cup AllCalled)
  <2>1. ASSUME NEW w \in Pool
        PROVE  /\ OneNodePerId(local[w]) /\ Apart(gbuf, local[w])
               /\ LocalMeans(local[w], gbuf, X[w]) /\ NoChannels(X[w])
    <3>1. OneNodePerId(local[w])
      BY <1>2 DEF LocalIds, OneNodePerId
    <3>2. Apart(gbuf, local[w])
      <4> SUFFICES ASSUME NEW i \in DOMAIN gbuf.nodes,
                          gbuf.nodes[i].qn[1] # "channel",
                          NEW j \in DOMAIN local[w].nodes
                   PROVE  local[w].nodes[j].id # gbuf.nodes[i].id
        BY DEF Apart
      <4>1. gbuf.nodes[i].id < local[w].nodes[j].id /\ gbuf.nodes[i].id \in Nat
        BY <1>2, <1>3, BufferShape DEF LocalIds, NodeRecords
      <4> QED
        BY <4>1
    <3>3. NoChannels(X[w])
      <4>1. \A x \in X[w] : x \in AllCalled
        BY <1>5
      <4> QED
        BY <4>1, <1>1, CalledKinds DEF NoChannels, Exactly
    <3> QED
      BY <3>1, <3>2, <3>3, <1>5
  <2> HIDE DEF c
  <2>2. Comes(gbuf, Merging!Fold(gbuf, local),
              (Base \cup AllLinked) \cup UNION {X[w] : w \in Pool})
    BY <2>1, <1>3, MergingComes
  <2> QED
    BY <2>2, <1>6 DEF Comes, c
<1>8. c \in Merged(gbuf, local, Workers)
  BY <1>3, MergingMerges
<1> HIDE DEF c
<1>9. EdgesOK'
  BY <1>1, <1>4, <1>7, SetsSame DEF EdgesOK
<1>10. RegistryOK'
  BY <1>1, <1>4 DEF Exactly, RegistryOK, KeepsNames
<1>11. DefsOK' /\ CallsOK'
  BY <1>1 DEF DefsOK, CallsOK
<1>12. ASSUME NEW i \in DOMAIN c.nodes, i \notin DOMAIN gbuf.nodes
       PROVE  \E w \in Pool : \E j \in DOMAIN local[w].nodes :
                 local[w].nodes[j].id = c.nodes[i].id
                 /\ local[w].nodes[j].qn = c.nodes[i].qn
  <2>1. From(local, Workers, c.nodes[i])
    BY <1>8, <1>12 DEF Merged
  <2> QED
    BY <2>1 DEF From, Pool
<1>13. ASSUME NEW i \in DOMAIN c.nodes, c.nodes[i].qn[1] # "channel"
       PROVE  LastOfId(gbuf', i)
  <2>1. c.nodes[i].id < shared
    <3>1. CASE i \in DOMAIN gbuf.nodes
      BY <3>1, <1>2, <1>8, <1>13 DEF LocalIds, Merged
    <3>2. CASE i \notin DOMAIN gbuf.nodes
      BY <3>2, <1>2, <1>12 DEF LocalIds
    <3> QED
      BY <3>1, <3>2
  <2>2. ASSUME NEW j \in DOMAIN c.nodes, c.nodes[j].id = c.nodes[i].id
        PROVE  j <= i
    <3>0. /\ DOMAIN c.nodes = 1..Len(c.nodes) /\ Len(c.nodes) \in Nat
          /\ DOMAIN gbuf.nodes = 1..Len(gbuf.nodes) /\ Len(gbuf.nodes) \in Nat
          /\ OneNodePerName(c.nodes)
      BY <1>3, <1>4, BufferShape
    <3>1. CASE i \in DOMAIN gbuf.nodes /\ j \in DOMAIN gbuf.nodes
      <4>1. i = j
        BY <3>1, <2>2, <1>1, <1>8 DEF IdsOK, Compact, Merged
      <4> QED
        BY <4>1, <3>0
    <3>2. CASE i \in DOMAIN gbuf.nodes /\ j \notin DOMAIN gbuf.nodes
      <4>1. gbuf.nodes[i].id < c.nodes[j].id
        BY <3>2, <1>2, <1>8, <1>12, <1>13 DEF LocalIds, Merged
      <4>2. gbuf.nodes[i].id = c.nodes[i].id /\ gbuf.nodes[i].id \in Nat
        BY <3>2, <1>3, <1>8, BufferShape DEF Merged, NodeRecords
      <4> QED
        BY <4>1, <4>2, <2>2
    <3>3. CASE i \notin DOMAIN gbuf.nodes /\ j \in DOMAIN gbuf.nodes
      BY <3>0, <3>3
    <3>4. CASE i \notin DOMAIN gbuf.nodes /\ j \notin DOMAIN gbuf.nodes
      <4>1. c.nodes[i].qn = c.nodes[j].qn
        BY <3>4, <2>2, <1>2, <1>12 DEF LocalIds
      <4>2. i = j
        BY <4>1, <3>0 DEF OneNodePerName
      <4> QED
        BY <4>2, <3>0
    <3> QED
      BY <3>1, <3>2, <3>3, <3>4
  <2> QED
    BY <2>1, <2>2, <1>4 DEF LastOfId
<1>14. LastOK'
  BY <1>1, <1>2, <1>4, <1>13 DEF LastOK
<1>15. BegunOK'
  BY <1>1, SetsSame DEF Exactly, BegunOK, Running
<1> QED
  BY <1>9, <1>10, <1>11, <1>14, <1>15 DEF Exactly

\* What was loaded stands for the stored edges.
LEMMA LoadMeans ==
    ASSUME NEW g \in Graphs
    PROVE  /\ Means(Load(g), g.edges)
           /\ \A e \in g.edges : /\ Node(Load(g), e.src).file = OwnerIn(g, e.src)
                                 /\ Node(Load(g), e.tgt).file = OwnerIn(g, e.tgt)
<1> DEFINE b == Load(g)
<1>1. /\ b \in Buffers /\ DOMAIN b.nodes = DOMAIN g.nodes
      /\ \A i \in DOMAIN g.nodes : /\ b.nodes[i].id = i
                                   /\ b.nodes[i].qn = g.nodes[i].qn
                                   /\ b.nodes[i].file = g.nodes[i].file
      /\ b.edges = {[src |-> RowOf(g, e.src), tgt |-> RowOf(g, e.tgt),
                     type |-> e.type] : e \in g.edges}
  BY LoadFacts
<1> HIDE DEF b
<1>2. ASSUME NEW i \in DOMAIN g.nodes
      PROVE  /\ Has(b, g.nodes[i].qn) /\ Node(b, g.nodes[i].qn) = b.nodes[i]
             /\ RowOf(g, g.nodes[i].qn) = i
             /\ OwnerIn(g, g.nodes[i].qn) = g.nodes[i].file
  BY <1>1, NodeOfName, RowOfName DEF OwnerIn
<1>3. ASSUME NEW qn, \E i \in DOMAIN g.nodes : g.nodes[i].qn = qn
      PROVE  /\ Has(b, qn) /\ Node(b, qn).id = RowOf(g, qn)
             /\ Node(b, qn).file = OwnerIn(g, qn)
  BY <1>1, <1>2, <1>3
<1>4. ASSUME NEW e \in g.edges
      PROVE  /\ Has(b, e.src) /\ Has(b, e.tgt)
             /\ Node(b, e.src).file = OwnerIn(g, e.src)
             /\ Node(b, e.tgt).file = OwnerIn(g, e.tgt)
             /\ EdgeIn(b, e) = [src |-> RowOf(g, e.src), tgt |-> RowOf(g, e.tgt),
                                type |-> e.type]
  <2>1. /\ \E i \in DOMAIN g.nodes : g.nodes[i].qn = e.src
        /\ \E i \in DOMAIN g.nodes : g.nodes[i].qn = e.tgt
    BY GraphShape
  <2> QED
    BY <2>1, <1>3 DEF EdgeIn
<1>5. b.edges = {EdgeIn(b, e) : e \in g.edges}
  BY <1>1, <1>4
<1>6. g.edges \in SUBSET Edges(QNames)
  BY GraphShape
<1> QED
  BY <1>4, <1>5, <1>6 DEF Means, b

\* A purge leaves the edges between what it leaves.
LEMMA DeleteMeans ==
    ASSUME NEW b \in Buffers, Compact(b), NEW X, Means(b, X), NEW files
    PROVE  Means(DeleteByFile(b, files),
                 {x \in X : /\ Node(b, x.src).file \notin files
                            /\ Node(b, x.tgt).file \notin files})
<1> DEFINE c == DeleteByFile(b, files)
           gone == {n.id : n \in {m \in ToSet(b.nodes) : m.file \in files}}
           Y == {x \in X : /\ Node(b, x.src).file \notin files
                           /\ Node(b, x.tgt).file \notin files}
<1>1. /\ c \in Buffers
      /\ ToSet(c.nodes) = {n \in ToSet(b.nodes) : n.file \notin files}
      /\ c.edges = {e \in b.edges : {e.src, e.tgt} \cap gone = {}}
  BY DeleteFacts
<1> HIDE DEF c
<1>2. ASSUME NEW qn, Has(b, qn)
      PROVE  /\ Node(b, qn).id \in gone <=> Node(b, qn).file \in files
             /\ Node(b, qn).file \notin files =>
                   Has(c, qn) /\ Node(c, qn) = Node(b, qn)
  <2>1. PICK i \in DOMAIN b.nodes : b.nodes[i].qn = qn /\ Node(b, qn) = b.nodes[i]
    BY <1>2, NodeOfName
  <2>2. b.nodes[i] \in ToSet(b.nodes)
    BY DEF ToSet
  <2>3. \A m \in ToSet(b.nodes) : m.id = b.nodes[i].id => m = b.nodes[i]
    BY DEF ToSet, Compact
  <2>4. ASSUME Node(b, qn).file \notin files
        PROVE  Has(c, qn) /\ Node(c, qn) = Node(b, qn)
    <3>1. PICK j \in DOMAIN c.nodes : c.nodes[j] = b.nodes[i]
      BY <2>1, <2>2, <2>4, <1>1 DEF ToSet
    <3> QED
      BY <3>1, <2>1, <1>1, NodeOfName
  <2> QED
    BY <2>1, <2>2, <2>3, <2>4
<1>3. ASSUME NEW x \in X
      PROVE  {EdgeIn(b, x).src, EdgeIn(b, x).tgt} \cap gone = {} <=> x \in Y
  <2>1. Has(b, x.src) /\ Has(b, x.tgt)
    BY DEF Means
  <2>2. /\ Node(b, x.src).id \in gone <=> Node(b, x.src).file \in files
        /\ Node(b, x.tgt).id \in gone <=> Node(b, x.tgt).file \in files
    BY <2>1, <1>2
  <2> HIDE DEF gone
  <2> QED
    BY <2>2 DEF EdgeIn
<1>4. ASSUME NEW x \in Y
      PROVE  Has(c, x.src) /\ Has(c, x.tgt) /\ EdgeIn(c, x) = EdgeIn(b, x)
  <2>1. Has(b, x.src) /\ Has(b, x.tgt)
    BY DEF Means
  <2> QED
    BY <2>1, <1>2 DEF EdgeIn
<1>5. Y \subseteq X /\ Y \in SUBSET Edges(QNames)
  BY DEF Means
<1> HIDE DEF gone, Y
<1>6. c.edges = {EdgeIn(b, x) : x \in Y}
  BY <1>1, <1>3, <1>5 DEF Means
<1>7. c.edges = {EdgeIn(c, x) : x \in Y}
  BY <1>4, <1>6
<1> QED
  BY <1>4, <1>5, <1>7 DEF Means, c, Y

\* The rest stands for the edges that no edit touched.
LEMMA RestMeans ==
    ASSUME Owns
    PROVE  Means(Rest, Undisturbed)
<1>1. db \in Graphs
  BY DEF Owns, TypeOK
<1> DEFINE b == Load(db)
<1>2. /\ b \in Buffers /\ Compact(b) /\ Means(b, db.edges)
      /\ \A e \in db.edges : /\ Node(b, e.src).file = OwnerIn(db, e.src)
                             /\ Node(b, e.tgt).file = OwnerIn(db, e.tgt)
  BY <1>1, LoadFacts, LoadMeans
<1>3. Rest = DeleteByFile(b, Changed \cup Deleted)
  BY DEF Rest, Purge
<1> HIDE DEF b
<1>4. Undisturbed = {e \in db.edges :
                        /\ Node(b, e.src).file \notin Changed \cup Deleted
                        /\ Node(b, e.tgt).file \notin Changed \cup Deleted}
  BY <1>2 DEF Undisturbed
<1> QED
  BY <1>2, <1>3, <1>4, DeleteMeans

\* The registry is seeded with the functions of the buffer.
LEMMA SeedSet ==
    ASSUME NEW b \in Buffers
    PROVE  \A qn : qn \in ToSet(Seed(b)) <=>
              \E n \in ToSet(b.nodes) : n.label = "Function" /\ n.qn = qn
<1> DEFINE S == {n \in ToSet(b.nodes) : n.label = "Function"}
           symbols == Keep(b.nodes, S)
<1>1. b.nodes \in Seq(NodeRecords)
  BY BufferShape
<1>2. ToSet(symbols) = ToSet(b.nodes) \cap S
  <2> HIDE DEF S
  <2> QED
    BY <1>1, KeepCorrect
<1>3. Seed(b) = [i \in DOMAIN symbols |-> symbols[i].qn]
  BY DEF Seed
<1> HIDE DEF symbols
<1>4. \A qn : qn \in ToSet(Seed(b)) <=> \E n \in ToSet(symbols) : n.qn = qn
  BY <1>3 DEF ToSet
<1> QED
  BY <1>2, <1>4

\* An incremental run begins with the rest.
LEMMA StartIncrementalStores ==
    ASSUME Owns, StartIncremental
    PROVE  Exactly'
<1> DEFINE files == Keep(Order, Changed)
           buf == UpsertAll(Rest, [i \in DOMAIN files |-> FileNode(files[i])])
<1>1. /\ files \in Seq(Present) /\ Len(files) \in Nat
  <2>1. Changed \in SUBSET Files /\ Changed \subseteq Present
    BY DEF Changed, Present
  <2>2. files \in Seq(Changed)
    BY <2>1, KeptFiles
  <2> HIDE DEF files
  <2> QED
    BY <2>1, <2>2
<1>2. /\ full' = FALSE /\ registry' = Seed(Rest) /\ Begin(files, buf)
  BY DEF StartIncremental, Rest
<1>3. /\ todo' = files /\ gbuf' = buf /\ next' = 1 /\ local' = NoLocals
      /\ UNCHANGED <<text, indexed, db>>
      /\ phase' = IF Parallel(files) THEN "extract" ELSE "passes"
      /\ exact' = (exact /\ ~Parallel(files))
  BY <1>2 DEF Begin
<1>4. Rest \in Buffers /\ Pure(Rest, text)
  BY RestOwned DEF Rest
<1>5. /\ Changed' = Changed /\ Rest' = Rest /\ Undisturbed' = Undisturbed
  BY <1>3, RestSame DEF Changed, Deleted, Undisturbed, OwnerIn
<1>6. Listed' = files /\ Known' = Seed(Rest) /\ Base' = Undisturbed
  BY <1>2, <1>5 DEF Listed, Known, Base
<1> HIDE DEF files
<1>7. Leads(Rest, buf, {"file"}, text) /\ buf.edges = Rest.edges
  BY <1>1, PreparedLeads DEF Rest
<1> HIDE DEF buf
<1>8. KeepsNames(Rest, buf) /\ Means(buf, Undisturbed)
  BY <1>4, <1>7, LeadsKeeps, RestMeans, MeansSame
<1>9. EdgesOK'
  BY <1>3, <1>6, <1>8 DEF EdgesOK
<1>10. RegistryOK'
  <2> SUFFICES ASSUME NEW qn \in ToSet(Seed(Rest))
               PROVE  qn[1] = "def" /\ Has(buf, qn)
    BY <1>2, <1>3 DEF RegistryOK
  <2>1. PICK i \in DOMAIN Rest.nodes :
           Rest.nodes[i].label = "Function" /\ Rest.nodes[i].qn = qn
    BY <1>4, SeedSet DEF ToSet
  <2>2. qn[1] = "def"
    BY <2>1, <1>4, Kinds DEF Pure, Proper, Owned
  <2>3. Has(Rest, qn)
    BY <2>1, <1>4, NodeOfName
  <2> QED
    BY <2>2, <2>3, <1>8 DEF KeepsNames
<1>11. DefsOK'
  <2>1. 1..(next' - 1) = {} /\ next' <= Len(todo') + 1
    BY <1>1, <1>3
  <2>2. \A w \in Pool : local'[w].edges = {}
    BY <1>3 DEF NoLocals, EmptyBuffer
  <2> QED
    BY <1>3, <2>1, <2>2 DEF DefsOK
<1>12. CallsOK' /\ LastOK' /\ BegunOK'
  BY <1>2, <1>3, <1>6 DEF CallsOK, LastOK, BegunOK, Running
<1> QED
  BY <1>9, <1>10, <1>11, <1>12 DEF Exactly

----------------------------------------------------------------------------
(* The registry of an incremental run.                                     *)

\* What a sequence has after one more element.
LEMMA AppendSet ==
    ASSUME NEW T, NEW s \in Seq(T), NEW x \in T
    PROVE  Append(s, x) \in Seq(T) /\ ToSet(Append(s, x)) = ToSet(s) \cup {x}
<1> DEFINE a == Append(s, x)
<1>1. /\ a \in Seq(T) /\ Len(a) = Len(s) + 1 /\ Len(s) \in Nat
      /\ DOMAIN s = 1..Len(s) /\ DOMAIN a = 1..Len(a)
      /\ a[Len(s) + 1] = x /\ \A i \in 1..Len(s) : a[i] = s[i]
  OBVIOUS
<1> HIDE DEF a
<1>2. 1..Len(a) = 1..Len(s) \cup {Len(s) + 1}
  BY <1>1
<1>3. ToSet(a) = ToSet(s) \cup {x}
  BY <1>1, <1>2 DEF ToSet
<1> QED
  BY <1>1, <1>3 DEF a

\* cbm_registry_add: the name is in the registry afterwards, and so is all
\* that was in it.
LEMMA EnterAdds ==
    ASSUME NEW T, NEW reg \in Seq(T), NEW qn \in T
    PROVE  Enter(reg, qn) \in Seq(T) /\ ToSet(Enter(reg, qn)) = ToSet(reg) \cup {qn}
<1>1. CASE Contains(reg, qn)
  BY <1>1 DEF Enter, Contains, ToSet
<1>2. CASE ~Contains(reg, qn)
  BY <1>2, AppendSet DEF Enter
<1> QED
  BY <1>1, <1>2

\* The same for the names of a file.
LEMMA RegisterAdds ==
    ASSUME NEW T, NEW reg \in Seq(T), NEW qns \in Seq(T)
    PROVE  /\ Register(reg, qns) \in Seq(T)
           /\ ToSet(Register(reg, qns)) = ToSet(reg) \cup ToSet(qns)
<1> DEFINE Good(k) == {q \in Seq(T) :
                         ToSet(q) = ToSet(reg) \cup {qns[j] : j \in 1..k}}
           Stage == [k \in 0..Len(qns) |-> Good(k)]
<1>0. \A q \in Seq(T), x \in T :
         Enter(q, x) \in Seq(T) /\ ToSet(Enter(q, x)) = ToSet(q) \cup {x}
  BY EnterAdds
<1>1. reg \in Stage[0]
  OBVIOUS
<1>2. ASSUME NEW k \in 1..Len(qns), NEW q \in Stage[k - 1]
      PROVE  Enter(q, qns[k]) \in Stage[k]
  <2>1. q \in Seq(T) /\ qns[k] \in T /\ k \in 0..Len(qns)
        /\ ToSet(q) = ToSet(reg) \cup {qns[j] : j \in 1..(k - 1)}
    OBVIOUS
  <2>2. Enter(q, qns[k]) \in Seq(T)
        /\ ToSet(Enter(q, qns[k])) = ToSet(q) \cup {qns[k]}
    BY <2>1, <1>0
  <2>3. 1..k = 1..(k - 1) \cup {k}
    OBVIOUS
  <2>4. {qns[j] : j \in 1..k} = {qns[j] : j \in 1..(k - 1)} \cup {qns[k]}
    BY <2>3
  <2> DEFINE r == Enter(q, qns[k])
  <2> HIDE DEF r
  <2>5. r \in Good(k)
    BY <2>1, <2>2, <2>4 DEF r
  <2> QED
    BY <2>1, <2>5 DEF r
<1>3. Entering!Fold(reg, qns) \in Stage[Len(qns)]
  <2> HIDE DEF Stage
  <2> QED
    BY <1>1, <1>2, Entering!FoldStages
<1>4. Register(reg, qns) \in Good(Len(qns))
  BY <1>3 DEF Register
<1>5. ToSet(qns) = {qns[j] : j \in 1..Len(qns)}
  BY DEF ToSet
<1> QED
  BY <1>4, <1>5

\* And for the names of several files.
LEMMA RegisterAllAdds ==
    ASSUME TextOK, NEW reg \in Seq(QNames), NEW files \in Seq(Present)
    PROVE  /\ RegisterAll(reg, files, text) \in Seq(QNames)
           /\ ToSet(RegisterAll(reg, files, text))
                = ToSet(reg) \cup
                    UNION {ToSet(Declared(f, text[f])) : f \in ToSet(files)}
<1> DEFINE all == [i \in DOMAIN files |-> Declared(files[i], text[files[i]])]
           Y == [qns \in Seq(QNames) |-> ToSet(qns)]
           Good(k) == {q \in Seq(QNames) :
                         ToSet(q) = ToSet(reg) \cup Upto(Y, all, k)}
           Stage == [k \in 0..Len(files) |-> Good(k)]
<1>1. /\ DOMAIN files = 1..Len(files) /\ Len(files) \in Nat
      /\ \A i \in 1..Len(files) : files[i] \in Present
  OBVIOUS
<1>2. \A i \in 1..Len(files) : /\ all[i] = Declared(files[i], text[files[i]])
                               /\ all[i] \in Seq(QNames)
  BY <1>1, DeclaredTyped
<1>3. all \in Seq(Seq(QNames)) /\ Len(all) = Len(files)
  <2>1. all = [i \in 1..Len(files) |-> all[i]]
    BY <1>1
  <2> HIDE DEF all
  <2>2. all \in [1..Len(files) -> Seq(QNames)]
    BY <1>2, <2>1
  <2> QED
    BY <1>1, <2>1, <2>2
<1>4. \A i \in 1..Len(files) : Y[all[i]] = ToSet(all[i])
  <2> HIDE DEF all
  <2> QED
    BY <1>2
<1> HIDE DEF all, Y
<1>5. /\ Upto(Y, all, 0) = {}
      /\ \A k \in 1..Len(files) :
            Upto(Y, all, k) = Upto(Y, all, k - 1) \cup Y[all[k]]
      /\ Upto(Y, all, Len(files)) = Whole(Y, all)
  BY <1>3, UptoGrows
<1>6. reg \in Stage[0]
  BY <1>1, <1>5
<1>7. ASSUME NEW k \in 1..Len(files), NEW q \in Stage[k - 1]
      PROVE  Register(q, all[k]) \in Stage[k]
  <2>1. q \in Seq(QNames) /\ k \in 0..Len(files)
        /\ ToSet(q) = ToSet(reg) \cup Upto(Y, all, k - 1)
    BY <1>1
  <2> DEFINE r == Register(q, all[k])
  <2>2. r \in Seq(QNames) /\ ToSet(r) = ToSet(q) \cup ToSet(all[k])
    BY <2>1, <1>2, RegisterAdds
  <2> HIDE DEF r
  <2>3. r \in Good(k)
    BY <2>1, <2>2, <1>4, <1>5
  <2> QED
    BY <2>1, <2>3 DEF r
<1>8. Registering!Fold(reg, all) \in Stage[Len(all)]
  <2> HIDE DEF Stage
  <2> QED
    BY <1>3, <1>6, <1>7, Registering!FoldStages
<1>9. Registering!Fold(reg, all) \in Good(Len(files))
  BY <1>1, <1>3, <1>8
<1>10. RegisterAll(reg, files, text) = Registering!Fold(reg, all)
  BY DEF RegisterAll, all
<1>11. Whole(Y, all)
         = UNION {ToSet(Declared(f, text[f])) : f \in ToSet(files)}
  <2>1. DOMAIN all = 1..Len(files)
    BY <1>1, <1>3
  <2>2. /\ \A x \in ToSet(all) : \E i \in 1..Len(files) : x = all[i]
        /\ \A f \in ToSet(files) : \E i \in 1..Len(files) : f = files[i]
        /\ \A i \in 1..Len(files) : all[i] \in ToSet(all) /\ files[i] \in ToSet(files)
    BY <2>1, <1>1 DEF ToSet
  <2>3. \A i \in 1..Len(files) :
           Y[all[i]] = ToSet(Declared(files[i], text[files[i]]))
    BY <1>2, <1>4
  <2>4. {Y[x] : x \in ToSet(all)}
           = {ToSet(Declared(f, text[f])) : f \in ToSet(files)}
    <3>1. \A x \in ToSet(all) : \E f \in ToSet(files) :
             Y[x] = ToSet(Declared(f, text[f]))
      BY <2>2, <2>3
    <3>2. \A f \in ToSet(files) : \E x \in ToSet(all) :
             Y[x] = ToSet(Declared(f, text[f]))
      BY <2>2, <2>3
    <3> QED
      BY <3>1, <3>2
  <2> QED
    BY <2>4 DEF Whole
<1> QED
  BY <1>5, <1>9, <1>10, <1>11

\* The registry of a full run.
RegistryOf(texts) == RegisterAll(<<>>, FilesOf(texts), texts)

\* It has the definitions of all files.
LEMMA RegistryHas ==
    ASSUME TextOK
    PROVE  /\ RegistryOf(text) \in Seq(QNames)
           /\ \A qn : qn \in ToSet(RegistryOf(text)) <=>
                 \E f \in Present : \E d \in ToSet(text[f].defs) :
                    qn = DefName(f, d)
<1>1. FilesOf(text) \in Seq(Present) /\ ToSet(FilesOf(text)) = Present
  <2>1. Present \in SUBSET Files /\ FilesOf(text) = Keep(Order, Present)
    BY DEF Present, FilesOf
  <2> QED
    BY <2>1, KeptFiles
<1>2. <<>> \in Seq(QNames) /\ ToSet(<<>>) = {}
  BY DEF ToSet
<1>3. /\ RegistryOf(text) \in Seq(QNames)
      /\ ToSet(RegistryOf(text))
           = UNION {ToSet(Declared(f, text[f])) : f \in Present}
  <2> DEFINE files == FilesOf(text)
             none == <<>>
  <2>1. RegistryOf(text) = RegisterAll(none, files, text)
    BY DEF RegistryOf
  <2>2. files \in Seq(Present) /\ none \in Seq(QNames)
    BY <1>1, <1>2
  <2>3. ToSet(none) = {} /\ ToSet(files) = Present
    BY <1>1, <1>2
  <2> HIDE DEF files, none
  <2>4. /\ RegisterAll(none, files, text) \in Seq(QNames)
        /\ ToSet(RegisterAll(none, files, text))
             = ToSet(none) \cup
                 UNION {ToSet(Declared(f, text[f])) : f \in ToSet(files)}
    BY <2>2, RegisterAllAdds
  <2> QED
    BY <2>1, <2>3, <2>4
<1>4. ASSUME NEW f \in Present, NEW qn
      PROVE  qn \in ToSet(Declared(f, text[f])) <=>
                \E d \in ToSet(text[f].defs) : qn = DefName(f, d)
  BY DeclaredTyped DEF ToSet
<1>5. ASSUME NEW qn
      PROVE  qn \in ToSet(RegistryOf(text)) <=>
                \E f \in Present : \E d \in ToSet(text[f].defs) :
                   qn = DefName(f, d)
  <2>1. qn \in ToSet(RegistryOf(text)) <=>
           \E f \in Present : qn \in ToSet(Declared(f, text[f]))
    BY <1>3
  <2> QED
    BY <2>1, <1>4
<1> QED
  BY <1>3, <1>5

\* Texts of one shape have one registry.
LEMMA ShapeSame ==
    ASSUME NEW s, NEW t, SameShape(s, t)
    PROVE  /\ FilesOf(s) = FilesOf(t) /\ RegistryOf(s) = RegistryOf(t)
           /\ Clear(s) <=> Clear(t)
<1> DEFINE P == {f \in Files : s[f] # Absent}
<1>1. P = {f \in Files : t[f] # Absent}
  BY DEF SameShape
<1>2. FilesOf(s) = Keep(Order, P) /\ FilesOf(t) = Keep(Order, P)
  BY <1>1 DEF FilesOf
<1>3. Keep(Order, P) \in Seq(P)
  <2>1. P \in SUBSET Files
    OBVIOUS
  <2> HIDE DEF P
  <2> QED
    BY <2>1, KeptFiles
<1>4. \A f \in P : s[f].defs = t[f].defs
  BY DEF SameShape
<1>5. \A f \in P : Declared(f, s[f]) = Declared(f, t[f])
  BY <1>4 DEF Declared
<1>6. RegistryOf(s) = RegistryOf(t)
  <2> DEFINE k == Keep(Order, P)
  <2>1. \A i \in DOMAIN k : k[i] \in P
    BY <1>3
  <2> HIDE DEF k, P
  <2>2. [i \in DOMAIN k |-> Declared(k[i], s[k[i]])]
           = [i \in DOMAIN k |-> Declared(k[i], t[k[i]])]
    BY <2>1, <1>5
  <2> QED
    BY <2>2, <1>2 DEF RegistryOf, RegisterAll, k
<1>7. Clear(s) <=> Clear(t)
  BY <1>1, <1>4 DEF Clear
<1> QED
  BY <1>2, <1>6, <1>7

\* A call of a name that only one definition has is resolved to this one.
LEMMA ResolveAlone ==
    ASSUME NEW reg \in Seq(QNames), NEW f, NEW name,
           \A p, q \in ToSet(reg) : p[3] = q[3] => p = q
    PROVE  Resolve(reg, f, name) = {q \in ToSet(reg) : q[3] = name}
<1>1. DefName(f, name)[3] = name
  BY DEF DefName
<1>2. \A q : q \in ToSet(reg) <=> \E i \in DOMAIN reg : reg[i] = q
  BY DEF ToSet
<1>3. CASE Contains(reg, DefName(f, name))
  <2>1. DefName(f, name) \in ToSet(reg)
    BY <1>3 DEF Contains, ToSet
  <2>2. Resolve(reg, f, name) = {DefName(f, name)}
    BY <1>3 DEF Resolve
  <2> QED
    BY <1>1, <2>1, <2>2
<1>4. CASE ~Contains(reg, DefName(f, name))
  <2> DEFINE named == {i \in DOMAIN reg : reg[i][3] = name}
             least == {j \in named : \A k \in named : j <= k}
  <2>1. Resolve(reg, f, name) = {reg[i] : i \in least}
    BY <1>4 DEF Resolve
  <2>2. named # {} => least # {}
    <3>1. named \in SUBSET Nat
      OBVIOUS
    <3> HIDE DEF named
    <3> QED
      BY <3>1, Keeping!LeastNat
  <2>3. \A i \in least : reg[i] \in ToSet(reg) /\ reg[i][3] = name
    BY <1>2
  <2>4. ASSUME NEW q \in ToSet(reg), q[3] = name
        PROVE  q \in {reg[i] : i \in least}
    <3>1. PICK i \in least : TRUE
      BY <2>2, <2>4, <1>2
    <3>2. reg[i] = q
      BY <2>3, <2>4
    <3> QED
      BY <3>2
  <2> HIDE DEF least
  <2> QED
    BY <2>1, <2>3, <2>4
<1> QED
  BY <1>3, <1>4

\* What texts mean, file by file.
LEMMA MeaningHas ==
    ASSUME NEW t
    PROVE  /\ ToSet(FilesOf(t)) = {f \in Files : t[f] # Absent}
           /\ \A x : x \in MeaningOf(t) <=>
                 \E f \in Files : t[f] # Absent
                                  /\ x \in EdgesOf(f, t[f], RegistryOf(t))
<1> DEFINE P == {f \in Files : t[f] # Absent}
<1>1. FilesOf(t) = Keep(Order, P) /\ P \in SUBSET Files
  BY DEF FilesOf
<1> HIDE DEF P
<1>2. ToSet(FilesOf(t)) = P
  BY <1>1, KeptFiles
<1>3. MeaningOf(t) = UNION {EdgesOf(f, t[f], RegistryOf(t)) : f \in P}
  BY <1>2 DEF MeaningOf, RegistryOf
<1> QED
  BY <1>2, <1>3 DEF P

\* Unless it ends at a channel, an edge that the texts mean is stored.
LEMMA MeantStored ==
    ASSUME Faithful, NEW e, exact \/ e.type # "EMITS"
    PROVE  e \in db.edges <=> e \in MeaningOf(indexed)
BY DEF Faithful, Compared

\* When names are clear, a file and its definitions are stored as its own.
LEMMA ClearOwner ==
    ASSUME Owns, Clear(indexed), NEW i \in DOMAIN db.nodes
    PROVE  LET n == db.nodes[i]
           IN  /\ n.file \in Files =>
                     /\ indexed[n.file] # Absent
                     /\ n.qn[1] \in {"file", "module", "def"}
                     /\ n.qn # FolderName(Directory)
               /\ \A f \in Files : indexed[f] # Absent /\ n.qn = FileName(f) =>
                     n.file = f
               /\ \A f \in Files : \A d :
                     indexed[f] # Absent /\ n.qn = DefName(f, d) =>
                        n.file = f /\ n.label = "Function"
<1> DEFINE n == db.nodes[i]
<1>1. Owned(n, indexed) /\ Placed(n, indexed)
  BY DEF Owns, OwnersOK, Proper
<1> HIDE DEF n
<1>2. ASSUME n.file \in Files
      PROVE  /\ indexed[n.file] # Absent
             /\ n.qn[1] \in {"file", "module", "def"}
             /\ n.qn # FolderName(Directory)
  <2>1. indexed[n.file] # Absent /\ n.qn[1] \in {"file", "module", "def"}
    BY <1>1, <1>2 DEF Placed
  <2>2. ModuleOf[n.file] # Directory
    BY <1>2, <2>1 DEF Clear
  <2>3. n.qn[1] = "module" => n.qn = ModuleName(n.file)
    BY <1>1, <1>2 DEF Placed
  <2>4. ModuleName(n.file) # FolderName(Directory)
    BY <2>2 DEF ModuleName, FolderName
  <2> QED
    BY <2>1, <2>3, <2>4, Kinds
<1>3. ASSUME NEW f \in Files, indexed[f] # Absent, n.qn = FileName(f)
      PROVE  n.file = f
  <2>1. n.file \in Files /\ n.qn = FileName(n.file) /\ indexed[n.file] # Absent
    BY <1>1, <1>3, Kinds DEF Placed
  <2>2. Stem[n.file] = Stem[f]
    <3>1. FileName(n.file)[2] = FileName(f)[2]
      BY <2>1, <1>3
    <3> QED
      BY <3>1 DEF FileName
  <2> QED
    BY <2>1, <2>2, <1>3 DEF Clear
<1>4. ASSUME NEW f \in Files, NEW d, indexed[f] # Absent, n.qn = DefName(f, d)
      PROVE  n.file = f /\ n.label = "Function"
  <2>1. n.label = "Function"
    BY <1>1, <1>4, Kinds DEF Placed
  <2>2. n.file \in Files /\ indexed[n.file] # Absent
    BY <2>1, <1>1 DEF Owned
  <2>3. PICK c : n.qn = DefName(n.file, c)
    BY <2>1, <1>1 DEF Owned
  <2>4. ModuleOf[n.file] = ModuleOf[f]
    BY <2>3, <1>4 DEF DefName
  <2> QED
    BY <2>1, <2>2, <2>4, <1>4 DEF Clear
<1> QED
  BY <1>2, <1>3, <1>4 DEF n

\* What is stored for a file that did not change is in the rest.
LEMMA RestNode ==
    ASSUME Owns, NEW i \in DOMAIN db.nodes,
           db.nodes[i].file \notin Changed \cup Deleted
    PROVE  \E n \in ToSet(Rest.nodes) :
              n.qn = db.nodes[i].qn /\ n.label = db.nodes[i].label
<1> DEFINE b == Load(db)
<1>1. /\ b \in Buffers /\ DOMAIN b.nodes = DOMAIN db.nodes
      /\ b.nodes[i].qn = db.nodes[i].qn
      /\ b.nodes[i].label = db.nodes[i].label
      /\ b.nodes[i].file = db.nodes[i].file
  BY LoadFacts DEF Owns, TypeOK
<1>2. Rest = DeleteByFile(b, Changed \cup Deleted)
  BY DEF Rest, Purge
<1> HIDE DEF b
<1>3. ToSet(Rest.nodes)
         = {n \in ToSet(b.nodes) : n.file \notin Changed \cup Deleted}
  BY <1>1, <1>2, DeleteFacts
<1>4. b.nodes[i] \in ToSet(b.nodes)
  BY <1>1 DEF ToSet
<1> QED
  BY <1>1, <1>3, <1>4

\* The names a file declares, as a set.
LEMMA DeclaredSet ==
    ASSUME TextOK, NEW f \in Present
    PROVE  \A qn : qn \in ToSet(Declared(f, text[f])) <=>
                      \E d \in ToSet(text[f].defs) : qn = DefName(f, d)
BY DeclaredTyped DEF ToSet

\* What is seeded and what is parsed are the names a full run would register,
\* and each is the only definition of its name.
LEMMA SteadyRegistry ==
    ASSUME Owns, Clear(indexed), Faithful, SameShape(indexed, text)
    PROVE  LET reg == RegisterAll(Seed(Rest), Keep(Order, Changed), text)
           IN  /\ reg \in Seq(QNames)
               /\ ToSet(reg) = ToSet(RegistryOf(text))
               /\ \A p, q \in ToSet(reg) : p[3] = q[3] => p = q
<1> DEFINE files == Keep(Order, Changed)
           seed == Seed(Rest)
           reg == RegisterAll(seed, files, text)
           All(qn) == \E f \in Present : \E d \in ToSet(text[f].defs) :
                         qn = DefName(f, d)
<1>1. files \in Seq(Present) /\ ToSet(files) = Changed /\ Changed \subseteq Present
  <2>1. Changed \in SUBSET Files /\ Changed \subseteq Present
    BY DEF Changed, Present
  <2>2. files \in Seq(Changed) /\ ToSet(files) = Changed
    BY <2>1, KeptFiles
  <2> HIDE DEF files
  <2> QED
    BY <2>1, <2>2
<1>2. TextOK /\ Rest \in Buffers /\ Pure(Rest, text)
  BY RestOwned DEF Rest, TextOK, Owns, TypeOK
<1>3. seed \in Seq(QNames)
  BY <1>2, SeedTyped
<1>4. \A qn : qn \in ToSet(seed) <=>
         \E n \in ToSet(Rest.nodes) : n.label = "Function" /\ n.qn = qn
  BY <1>2, SeedSet
<1> HIDE DEF files, seed
<1>5. /\ reg \in Seq(QNames)
      /\ ToSet(reg) = ToSet(seed) \cup
            UNION {ToSet(Declared(f, text[f])) : f \in ToSet(files)}
  BY <1>1, <1>2, <1>3, RegisterAllAdds
<1> HIDE DEF reg
<1>6. \A qn : qn \in ToSet(RegistryOf(text)) <=> All(qn)
  BY <1>2, RegistryHas
<1>7. ASSUME NEW qn \in ToSet(reg)
      PROVE  All(qn)
  <2>1. CASE qn \in ToSet(seed)
    <3>1. PICK n \in ToSet(Rest.nodes) : n.label = "Function" /\ n.qn = qn
      BY <2>1, <1>4
    <3>2. Owned(n, text)
      BY <1>2 DEF Pure, Proper, ToSet
    <3> QED
      BY <3>1, <3>2 DEF Owned, Present
  <2>2. CASE \E f \in Changed : qn \in ToSet(Declared(f, text[f]))
    BY <2>2, <1>1, <1>2, DeclaredSet
  <2> QED
    BY <2>1, <2>2, <1>1, <1>5
<1>8. ASSUME NEW f \in Present, NEW d \in ToSet(text[f].defs)
      PROVE  DefName(f, d) \in ToSet(reg)
  <2>0. DefName(f, d) \in ToSet(Declared(f, text[f]))
    BY <1>2, DeclaredSet
  <2>1. CASE f \in Changed
    BY <2>0, <2>1, <1>1, <1>5
  <2>2. CASE f \notin Changed
    <3> DEFINE e == Edge(FileName(f), DefName(f, d), "DEFINES")
    <3>1. f \in Files /\ text[f] # Absent /\ text[f] = indexed[f]
          /\ f \notin Deleted
      BY <2>2 DEF Present, Changed, Deleted
    <3>2. PICK k \in DOMAIN Declared(f, text[f]) :
             Declared(f, text[f])[k] = DefName(f, d)
      BY <2>0 DEF ToSet
    <3>3. \E n \in ToSet(Defs(f, text[f])) : n.qn = DefName(f, d)
      BY <1>2, <3>2, DeclaredDefined
    <3>4. e \in EdgesOf(f, indexed[f], RegistryOf(indexed))
      BY <3>1, <3>3 DEF EdgesOf
    <3>5. e.type # "EMITS" /\ e.tgt = DefName(f, d)
      BY DEF Edge
    <3> HIDE DEF e
    <3>6. e \in MeaningOf(indexed)
      BY <3>1, <3>4, MeaningHas
    <3>7. e \in db.edges
      BY <3>5, <3>6, MeantStored
    <3>8. PICK i \in DOMAIN db.nodes : db.nodes[i].qn = DefName(f, d)
      BY <3>5, <3>7, GraphShape DEF Owns, TypeOK
    <3>9. db.nodes[i].file = f /\ db.nodes[i].label = "Function"
      BY <3>1, <3>8, ClearOwner
    <3>10. \E n \in ToSet(Rest.nodes) :
              n.qn = DefName(f, d) /\ n.label = "Function"
      BY <2>2, <3>1, <3>8, <3>9, RestNode
    <3> QED
      BY <3>10, <1>4, <1>5
  <2> QED
    BY <2>1, <2>2
<1>9. ToSet(reg) = ToSet(RegistryOf(text))
  BY <1>6, <1>7, <1>8
<1>10. ASSUME NEW p \in ToSet(reg), NEW q \in ToSet(reg), p[3] = q[3]
       PROVE  p = q
  <2>1. PICK f \in Present : \E d \in ToSet(text[f].defs) : p = DefName(f, d)
    BY <1>7
  <2>2. PICK d \in ToSet(text[f].defs) : p = DefName(f, d)
    BY <2>1
  <2>3. PICK g \in Present : \E c \in ToSet(text[g].defs) : q = DefName(g, c)
    BY <1>7
  <2>4. PICK c \in ToSet(text[g].defs) : q = DefName(g, c)
    BY <2>3
  <2>5. c = d
    BY <2>2, <2>4, <1>10 DEF DefName
  <2>6. Clear(text)
    BY ShapeSame
  <2>7. f = g
    BY <2>5, <2>6 DEF Clear, Present
  <2> QED
    BY <2>2, <2>4, <2>5, <2>7
<1> QED
  BY <1>5, <1>9, <1>10 DEF reg, files, seed

----------------------------------------------------------------------------
(* The end of a run.                                                       *)

\* incr_capture_inbound_edge keeps just the edges from outside into files.
LEMMA CaptureExact ==
    ASSUME NEW g \in Graphs, NEW files
    PROVE  \A e : e \in Capture(Load(g), files) <=>
              e \in g.edges /\ OwnerIn(g, e.tgt) \in files
                            /\ OwnerIn(g, e.src) \notin files
<1> DEFINE b == Load(g)
           D == {x \in b.edges \X ToSet(b.nodes) \X ToSet(b.nodes) :
                    /\ x[2].id = x[1].src /\ x[3].id = x[1].tgt
                    /\ x[3].file \in files /\ x[2].file \notin files}
<1>1. /\ b \in Buffers /\ Compact(b) /\ Means(b, g.edges)
      /\ \A e \in g.edges : /\ Node(b, e.src).file = OwnerIn(g, e.src)
                            /\ Node(b, e.tgt).file = OwnerIn(g, e.tgt)
  BY LoadFacts, LoadMeans
<1>2. Capture(b, files) = {[src |-> y[2].qn, tgt |-> y[3].qn, type |-> y[1].type] :
                             y \in D}
  BY DEF Capture
<1>3. \A e \in g.edges : e = [src |-> e.src, tgt |-> e.tgt, type |-> e.type]
  BY GraphShape DEF Edges
<1> HIDE DEF b
<1>4. ASSUME NEW qn, Has(b, qn)
      PROVE  /\ Node(b, qn) \in ToSet(b.nodes) /\ Node(b, qn).qn = qn
             /\ \A m \in ToSet(b.nodes) : m.id = Node(b, qn).id => m = Node(b, qn)
  <2>1. PICK i \in DOMAIN b.nodes : b.nodes[i].qn = qn /\ Node(b, qn) = b.nodes[i]
    BY <1>1, <1>4, NodeOfName
  <2> QED
    BY <2>1, <1>1 DEF ToSet, Compact
<1>5. ASSUME NEW e \in Capture(b, files)
      PROVE  /\ e \in g.edges /\ OwnerIn(g, e.tgt) \in files
             /\ OwnerIn(g, e.src) \notin files
  <2>1. PICK y \in D :
           e = [src |-> y[2].qn, tgt |-> y[3].qn, type |-> y[1].type]
    BY <1>2, <1>5
  <2>2. /\ y[1] \in b.edges /\ y[2] \in ToSet(b.nodes) /\ y[3] \in ToSet(b.nodes)
        /\ y[2].id = y[1].src /\ y[3].id = y[1].tgt
        /\ y[3].file \in files /\ y[2].file \notin files
    OBVIOUS
  <2>3. PICK x \in g.edges : y[1] = EdgeIn(b, x)
    BY <2>2, <1>1 DEF Means
  <2>4. /\ Has(b, x.src) /\ Has(b, x.tgt) /\ y[1].src = Node(b, x.src).id
        /\ y[1].tgt = Node(b, x.tgt).id /\ y[1].type = x.type
    BY <2>3, <1>1 DEF Means, EdgeIn
  <2>5. y[2] = Node(b, x.src) /\ y[3] = Node(b, x.tgt)
        /\ y[2].qn = x.src /\ y[3].qn = x.tgt
    BY <2>2, <2>4, <1>4
  <2> HIDE DEF D
  <2>6. e = x
    BY <2>1, <2>4, <2>5, <1>3
  <2> QED
    BY <2>2, <2>5, <2>6, <1>1
<1>6. ASSUME NEW e \in g.edges, OwnerIn(g, e.tgt) \in files,
             OwnerIn(g, e.src) \notin files
      PROVE  e \in Capture(b, files)
  <2> DEFINE m == Node(b, e.src)
             n == Node(b, e.tgt)
  <2>1. Has(b, e.src) /\ Has(b, e.tgt) /\ EdgeIn(b, e) \in b.edges
    BY <1>1 DEF Means
  <2>2. /\ m \in ToSet(b.nodes) /\ m.qn = e.src /\ m.file \notin files
        /\ n \in ToSet(b.nodes) /\ n.qn = e.tgt /\ n.file \in files
    BY <2>1, <1>1, <1>4, <1>6
  <2>3. m.id = EdgeIn(b, e).src /\ n.id = EdgeIn(b, e).tgt /\ EdgeIn(b, e).type = e.type
    BY DEF EdgeIn
  <2> HIDE DEF m, n, D
  <2>4. [src |-> m.qn, tgt |-> n.qn, type |-> EdgeIn(b, e).type] \in Capture(b, files)
    BY <2>1, <2>2, <2>3, <1>1, CaptureFacts
  <2> QED
    BY <2>2, <2>3, <2>4, <1>3
<1> QED
  BY <1>5, <1>6 DEF b

\* A sequence begins as its first part does.
LEMMA FirstOf ==
    ASSUME NEW T, NEW s \in Seq(T), NEW t \in Seq(T), 1 \in 1..Len(s)
    PROVE  1 \in DOMAIN (s \o t) /\ (s \o t)[1] = s[1]
<1>1. s \o t \in Seq(T) /\ Len(s \o t) = Len(s) + Len(t)
  OBVIOUS
<1>2. 1 \in 1..(Len(s) + Len(t))
  OBVIOUS
<1> QED
  BY <1>1, <1>2

\* A file defines its module.
LEMMA ModuleDefined ==
    ASSUME TextOK, NEW f \in Present
    PROVE  \E d \in ToSet(Defs(f, text[f])) : d.qn = ModuleName(f)
<1> DEFINE d == [label |-> "Module", qn |-> ModuleName(f), file |-> f]
           n == Len(text[f].defs)
           row(i) == [label |-> "Function", qn |-> Declared(f, text[f])[i], file |-> f]
           U == {d} \cup {row(i) : i \in 1..n}
           head == <<d>>
           tail == [i \in DOMAIN text[f].defs |-> row(i)]
<1>1. DOMAIN text[f].defs = 1..n /\ n \in Nat
  BY TextFacts
<1>2. Defs(f, text[f]) = head \o tail
  BY DEF Defs
<1>3. tail = [i \in 1..n |-> row(i)]
  BY <1>1
<1> HIDE DEF row
<1>4. tail \in Seq(U)
  BY <1>1, <1>3
<1>5. head \in Seq(U) /\ Len(head) = 1 /\ head[1] = d
  OBVIOUS
<1> HIDE DEF head, tail, U
<1>6. 1 \in DOMAIN (head \o tail) /\ (head \o tail)[1] = head[1]
  BY <1>4, <1>5, 1 \in 1..1, FirstOf
<1> QED
  BY <1>2, <1>5, <1>6 DEF ToSet

\* An edge of a file is one of its containment, or begins in it.
LEMMA EdgeBegins ==
    ASSUME NEW f, NEW t, NEW reg, NEW x \in EdgesOf(f, t, reg)
    PROVE  \/ x \in ContainEdges(f) /\ x.src \in {FolderName(Directory), ProjectName}
           \/ x.src = FileName(f)
BY DEF EdgesOf, ContainEdges, Edge

\* Only emitting edges have a channel for an end.
LEMMA MeaningKinds ==
    ASSUME TextOK, NEW x \in MeaningOf(text), x.type # "EMITS"
    PROVE  x.src[1] # "channel" /\ x.tgt[1] # "channel"
<1>1. PICK f \in Present : x \in EdgesOf(f, text[f], RegistryOf(text))
  BY MeaningHas DEF Present
<1>2. x.src[1] # "channel"
  BY <1>1, EdgeBegins, Kinds
<1>3. CASE x \in ContainEdges(f)
  BY <1>3, Kinds DEF ContainEdges, Edge
<1>4. CASE \E d \in ToSet(Defs(f, text[f])) : x = Edge(FileName(f), d.qn, "DEFINES")
  <2>1. PICK d \in ToSet(Defs(f, text[f])) : x = Edge(FileName(f), d.qn, "DEFINES")
    BY <1>4
  <2>2. d.qn[1] \in {"module", "def"}
    BY <2>1, DefsTyped DEF ToSet
  <2> QED
    BY <1>2, <2>1, <2>2 DEF Edge
<1>5. CASE \E name \in text[f].calls : \E qn \in Resolve(RegistryOf(text), f, name) :
              x = Edge(FileName(f), qn, "CALLS")
  <2>1. PICK name \in text[f].calls : \E qn \in Resolve(RegistryOf(text), f, name) :
              x = Edge(FileName(f), qn, "CALLS")
    BY <1>5
  <2>2. PICK qn \in ToSet(RegistryOf(text)) : x = Edge(FileName(f), qn, "CALLS")
    BY <2>1, ResolvedRegistered
  <2>3. qn[1] = "def"
    BY RegistryHas, Kinds
  <2> QED
    BY <1>2, <2>2, <2>3 DEF Edge
<1>6. CASE \E r : x = Edge(FileName(f), RouteName(r), "HTTP_CALLS")
  BY <1>2, <1>6, Kinds DEF Edge
<1>7. CASE \E c : x = Edge(FileName(f), ChannelName(c), "EMITS")
  BY <1>7 DEF Edge
<1> QED
  BY <1>1, <1>3, <1>4, <1>5, <1>6, <1>7 DEF EdgesOf, ContainEdges

\* The saved edges that come back.
Back == {e \in saved : Has(gbuf, e.src) /\ Has(gbuf, e.tgt)}

\* What the buffer and the saved edges stand for at the end of a run.
Result == ((Base \cup AllLinked) \cup AllCalled) \cup Back

\* These are the edges the texts mean, but for those that may get lost.
Agrees ==
    \A x : exact \/ x.type # "EMITS" => (x \in Result <=> x \in MeaningOf(text))

\* What the passes add for a file is what its text means.
LEMMA PassesMean ==
    ASSUME \A f, name : Resolve(RegistryOf(text), f, name) = Resolve(registry, f, name)
    PROVE  \A f : EdgesOf(f, text[f], RegistryOf(text))
                    = (ContainEdges(f) \cup Linked(f)) \cup Called(f, registry)
BY DEF EdgesOf, ContainEdges, Linked, DefEdges, EmitEdges, Called, CallEdges,
       RouteEdges

\* A full run means what its texts mean.
LEMMA FullAgrees ==
    ASSUME Exactly, Running, phase = "finish", full
    PROVE  Agrees
<1>1. /\ saved = {} /\ todo = Existing
      /\ registry = RegisterAll(<<>>, Existing, text)
  BY DEF Exactly, BegunOK, Listed, Known
<1>2. registry = RegistryOf(text) /\ todo = FilesOf(text)
  BY <1>1 DEF RegistryOf, Existing
<1>3. Result = UNION {(ContainEdges(f) \cup Linked(f)) \cup Called(f, registry) :
                        f \in ToSet(todo)}
  BY <1>1 DEF Result, Base, AllLinked, AllCalled, Back
<1>4. MeaningOf(text) = UNION {EdgesOf(f, text[f], RegistryOf(text)) :
                                 f \in ToSet(todo)}
  BY <1>2 DEF MeaningOf, RegistryOf
<1>5. Result = MeaningOf(text)
  BY <1>2, <1>3, <1>4, PassesMean
<1> QED
  BY <1>5 DEF Agrees

\* So does an incremental one, when names are clear and no definition came or
\* went: what is left, what is parsed and what comes back are the edges of the
\* files that did not change, of the others, and into these.
LEMMA IncrementalAgrees ==
    ASSUME Owns, RestKept, Exactly, phase = "finish", ~full,
           Clear(indexed), Faithful, SameShape(indexed, text)
    PROVE  Agrees
<1>1. /\ Running /\ TextOK /\ db \in Graphs /\ gbuf \in Buffers
      /\ saved = Capture(Load(db), Changed) /\ Grows(Rest, gbuf)
      /\ Rest \in Buffers
  BY RestOwned DEF Running, TextOK, Owns, TypeOK, RestKept, Rest
<1>2. /\ Base = Undisturbed /\ todo = Keep(Order, Changed)
      /\ registry = RegisterAll(Seed(Rest), Keep(Order, Changed), text)
      /\ Means(gbuf, (Base \cup AllLinked) \cup AllCalled)
  BY <1>1 DEF Exactly, EdgesOK, BegunOK, Base, Listed, Known
<1>3. ToSet(todo) = Changed
  <2>1. Changed \in SUBSET Files
    BY DEF Changed
  <2> QED
    BY <2>1, <1>2, KeptFiles
<1>4. /\ registry \in Seq(QNames) /\ ToSet(registry) = ToSet(RegistryOf(text))
      /\ \A p, q \in ToSet(registry) : p[3] = q[3] => p = q
  BY <1>2, SteadyRegistry
<1>5. RegistryOf(text) \in Seq(QNames) /\ RegistryOf(indexed) = RegistryOf(text)
  BY <1>1, RegistryHas, ShapeSame
<1>6. \A f, name : Resolve(RegistryOf(text), f, name) = Resolve(registry, f, name)
  <2> DEFINE reg == RegistryOf(text)
  <2>1. reg \in Seq(QNames) /\ ToSet(reg) = ToSet(registry)
    BY <1>4, <1>5
  <2> HIDE DEF reg
  <2> SUFFICES ASSUME NEW f, NEW name
               PROVE  Resolve(reg, f, name) = Resolve(registry, f, name)
    BY DEF reg
  <2>2. Resolve(registry, f, name) = {q \in ToSet(registry) : q[3] = name}
    BY <1>4, ResolveAlone
  <2>3. \A p, q \in ToSet(reg) : p[3] = q[3] => p = q
    BY <2>1, <1>4
  <2>4. Resolve(reg, f, name) = {q \in ToSet(reg) : q[3] = name}
    BY <2>1, <2>3, ResolveAlone
  <2> QED
    BY <2>1, <2>2, <2>4
<1>7. \A f : EdgesOf(f, text[f], RegistryOf(text))
               = (ContainEdges(f) \cup Linked(f)) \cup Called(f, registry)
  BY <1>6, PassesMean
<1>8. /\ \A f \in Files : text[f] # Absent <=> indexed[f] # Absent
      /\ \A f \in Files : text[f] # Absent => indexed[f].defs = text[f].defs
      /\ Deleted = {} /\ Changed \subseteq Present /\ Present \subseteq Files
      /\ \A f \in Present : f \notin Changed => text[f] = indexed[f]
  BY DEF SameShape, Deleted, Changed, Present
<1>9. \A x : x \in Back <=> /\ x \in db.edges /\ OwnerIn(db, x.tgt) \in Changed
                            /\ OwnerIn(db, x.src) \notin Changed
                            /\ Has(gbuf, x.src) /\ Has(gbuf, x.tgt)
  BY <1>1, CaptureExact DEF Back
<1>10. ASSUME NEW x \in db.edges, exact \/ x.type # "EMITS",
              OwnerIn(db, x.src) \notin Changed
       PROVE  x \in MeaningOf(text)
  <2>1. PICK f \in Present : x \in EdgesOf(f, indexed[f], RegistryOf(indexed))
    BY <1>8, <1>10, MeantStored, MeaningHas DEF Present
  <2>2. CASE x \in ContainEdges(f)
    <3>1. x \in EdgesOf(f, text[f], RegistryOf(text))
      BY <2>2, <1>7
    <3> QED
      BY <3>1, MeaningHas DEF Present
  <2>3. CASE x.src = FileName(f)
    <3>1. PICK i \in DOMAIN db.nodes : db.nodes[i].qn = x.src
      BY <1>1, GraphShape
    <3>2. OwnerIn(db, x.src) = db.nodes[i].file
      BY <1>1, <3>1, RowOfName DEF OwnerIn
    <3>3. f \in Files /\ indexed[f] # Absent
      BY <1>8 DEF Present
    <3>4. db.nodes[i].file = f
      BY <2>3, <3>1, <3>3, ClearOwner
    <3>5. text[f] = indexed[f]
      BY <3>2, <3>4, <1>8, <1>10
    <3> QED
      BY <2>1, <3>5, <1>5, MeaningHas DEF Present
  <2> QED
    BY <2>1, <2>2, <2>3, EdgeBegins
<1>11. ASSUME NEW x \in Result, exact \/ x.type # "EMITS"
       PROVE  x \in MeaningOf(text)
  <2>1. CASE x \in Undisturbed \/ x \in Back
    <3>1. x \in db.edges /\ OwnerIn(db, x.src) \notin Changed
      BY <2>1, <1>9 DEF Undisturbed
    <3> QED
      BY <3>1, <1>10, <1>11
  <2>2. CASE \E f \in Changed : x \in Linked(f) \/ x \in Called(f, registry)
    <3>1. PICK f \in Changed : x \in Linked(f) \/ x \in Called(f, registry)
      BY <2>2
    <3>2. x \in EdgesOf(f, text[f], RegistryOf(text))
      BY <3>1, <1>7
    <3> QED
      BY <3>2, <1>8, MeaningHas DEF Present
  <2>3. \/ x \in Undisturbed \/ x \in Back
        \/ \E f \in Changed : x \in Linked(f) \/ x \in Called(f, registry)
    BY <1>2, <1>3, <1>11 DEF Result, AllLinked, AllCalled
  <2> QED
    BY <2>1, <2>2, <2>3
<1>12. ASSUME NEW j \in DOMAIN db.nodes, db.nodes[j].file \in Changed
       PROVE  Has(gbuf, db.nodes[j].qn)
  <2> DEFINE n == db.nodes[j]
             g == n.file
  <2>1. /\ g \in Present /\ g \in Files /\ indexed[g] # Absent
        /\ n.qn[1] \in {"file", "module", "def"}
        /\ Owned(n, indexed) /\ Placed(n, indexed)
    BY <1>8, <1>12, ClearOwner DEF Owns, OwnersOK, Proper
  <2> HIDE DEF n
  <2>2. CASE n.qn[1] = "file"
    <3>1. n.qn = FileName(g)
      BY <2>1, <2>2 DEF Placed
    <3>2. PICK i \in DOMAIN todo : todo[i] = g
      BY <1>3, <1>12 DEF ToSet, n
    <3> QED
      BY <3>1, <3>2, <1>1 DEF Owns, RunOK, n
  <2>3. ASSUME \E d \in ToSet(Defs(g, text[g])) : d.qn = n.qn
        PROVE  Has(gbuf, n.qn)
    <3>1. PICK d \in ToSet(Defs(g, text[g])) : d.qn = n.qn
      BY <2>3
    <3>2. Edge(FileName(g), d.qn, "DEFINES") \in AllLinked
      BY <3>1, <1>3, <1>12 DEF AllLinked, Linked, DefEdges, n
    <3>3. Edge(FileName(g), d.qn, "DEFINES").tgt = n.qn
      BY <3>1 DEF Edge
    <3> QED
      BY <3>2, <3>3, <1>2 DEF Means
  <2>4. CASE n.qn[1] = "module"
    <3>1. n.qn = ModuleName(g)
      BY <2>1, <2>4 DEF Placed
    <3> QED
      BY <3>1, <2>1, <2>3, <1>1, ModuleDefined DEF n
  <2>5. CASE n.qn[1] = "def"
    <3>1. PICK d \in ToSet(indexed[g].defs) : n.qn = DefName(g, d)
      BY <2>1, <2>5 DEF Placed, Owned
    <3>2. n.qn \in ToSet(Declared(g, text[g]))
      <4>1. d \in ToSet(text[g].defs)
        BY <3>1, <2>1, <1>8 DEF Present
      <4> QED
        BY <3>1, <4>1, <2>1, <1>1, DeclaredSet
    <3>3. PICK k \in DOMAIN Declared(g, text[g]) : Declared(g, text[g])[k] = n.qn
      BY <3>2 DEF ToSet
    <3>4. \E d1 \in ToSet(Defs(g, text[g])) : d1.qn = n.qn
      BY <3>3, <2>1, <1>1, DeclaredDefined
    <3> QED
      BY <3>4, <2>3 DEF n
  <2> QED
    BY <2>1, <2>2, <2>4, <2>5 DEF n
<1>13. ASSUME NEW x \in MeaningOf(text), exact \/ x.type # "EMITS"
       PROVE  x \in Result
  <2>1. PICK f \in Present : x \in EdgesOf(f, text[f], RegistryOf(text))
    BY MeaningHas DEF Present
  <2>2. CASE f \in Changed /\ x \notin ContainEdges(f)
    <3>1. x \in Linked(f) \/ x \in Called(f, registry)
      BY <2>1, <2>2, <1>7
    <3> QED
      BY <3>1, <2>2, <1>3 DEF Result, AllLinked, AllCalled
  <2>3. CASE f \notin Changed \/ x \in ContainEdges(f)
    <3>1. x \in EdgesOf(f, indexed[f], RegistryOf(indexed))
      <4>1. CASE f \notin Changed
        BY <4>1, <2>1, <1>5, <1>8
      <4>2. CASE x \in ContainEdges(f)
        BY <4>2 DEF EdgesOf, ContainEdges
      <4> QED
        BY <4>1, <4>2, <2>3
    <3>2. x \in db.edges
      BY <3>1, <1>8, <1>13, MeantStored, MeaningHas DEF Present
    <3>3. PICK i \in DOMAIN db.nodes : db.nodes[i].qn = x.src
      BY <3>2, <1>1, GraphShape
    <3>4. PICK j \in DOMAIN db.nodes : db.nodes[j].qn = x.tgt
      BY <3>2, <1>1, GraphShape
    <3>5. /\ OwnerIn(db, x.src) = db.nodes[i].file
          /\ OwnerIn(db, x.tgt) = db.nodes[j].file
      BY <1>1, <3>3, <3>4, RowOfName DEF OwnerIn
    <3>6. db.nodes[i].file \notin Changed
      <4>1. CASE x.src \in {FolderName(Directory), ProjectName}
        <5>1. db.nodes[i].file \notin Files
          BY <4>1, <3>3, ClearOwner, Kinds
        <5> QED
          BY <5>1, <1>8
      <4>2. CASE x.src = FileName(f) /\ f \notin Changed
        <5>1. f \in Files /\ indexed[f] # Absent
          BY <1>8 DEF Present
        <5> QED
          BY <4>2, <5>1, <3>3, ClearOwner
      <4>3. x \in ContainEdges(f) => x.src \in {FolderName(Directory), ProjectName}
        BY DEF ContainEdges, Edge
      <4> QED
        BY <4>1, <4>2, <4>3, <2>1, <2>3, EdgeBegins
    <3>7. CASE db.nodes[j].file \notin Changed
      BY <3>2, <3>5, <3>6, <3>7, <1>2, <1>8 DEF Result, Undisturbed
    <3>8. CASE db.nodes[j].file \in Changed
      <4>1. Has(gbuf, x.tgt)
        BY <3>4, <3>8, <1>12
      <4>2. Has(gbuf, x.src)
        <5>1. PICK n \in ToSet(Rest.nodes) : n.qn = x.src
          BY <3>3, <3>6, <1>8, RestNode
        <5>2. Has(Rest, x.src)
          BY <5>1 DEF Has, Names
        <5> QED
          BY <5>2, <1>1, GrowsKeepsNames
      <4>3. x \in Back
        BY <3>2, <3>5, <3>6, <3>8, <4>1, <4>2, <1>9
      <4> QED
        BY <4>3 DEF Result
    <3> QED
      BY <3>7, <3>8
  <2> QED
    BY <2>2, <2>3
<1> QED
  BY <1>11, <1>13 DEF Agrees

\* The dump stores what the buffer and the saved edges mean.
LEMMA FinishMeans ==
    ASSUME Owns, Exactly, Finish, Agrees
    PROVE  Faithful'
<1> DEFINE r == Restore(gbuf)
           S == IF exact THEN Types ELSE Types \ {"EMITS"}
<1>1. /\ phase = "finish" /\ db' = Dump(r) /\ Running
      /\ indexed' = text /\ exact' = exact
  BY DEF Finish, Running, hist
<1>2. /\ gbuf \in Buffers /\ Means(gbuf, (Base \cup AllLinked) \cup AllCalled)
      /\ saved \in SUBSET Edges(QNames) /\ TextOK
      /\ \A i \in DOMAIN gbuf.nodes :
            exact \/ gbuf.nodes[i].qn[1] # "channel" => LastOfId(gbuf, i)
  BY <1>1, PassBegins DEF Exactly, EdgesOK, LastOK, Owns, TypeOK
<1>3. /\ r \in Buffers /\ r.nodes = gbuf.nodes
      /\ r.edges = gbuf.edges \cup {EdgeIn(gbuf, e) : e \in Back}
      /\ KeepsNames(gbuf, r) /\ gbuf.next <= r.next
  <2>1. /\ Leads(gbuf, r, {}, text) /\ r.nodes = gbuf.nodes
        /\ r.edges = gbuf.edges \cup
             {EdgeIn(gbuf, e) :
                e \in {d \in saved : Has(gbuf, d.src) /\ Has(gbuf, d.tgt)}}
    BY RestoreLeads
  <2> HIDE DEF r
  <2> QED
    BY <2>1, <1>2, LeadsKeeps DEF Leads, Grows, Back
<1> HIDE DEF r
<1>4. Means(r, Result)
  <2>1. \A e : EdgeIn(r, e) = EdgeIn(gbuf, e) /\ \A qn : Has(r, qn) <=> Has(gbuf, qn)
    BY <1>3 DEF EdgeIn, Node, Has, Names
  <2>2. Back \in SUBSET Edges(QNames) /\ \A e \in Back : Has(r, e.src) /\ Has(r, e.tgt)
    BY <2>1, <1>2 DEF Back
  <2>3. r.edges = gbuf.edges \cup {EdgeIn(r, e) : e \in Back}
    BY <2>1, <1>3
  <2> QED
    BY <2>2, <2>3, <1>2, <1>3, MeansMore DEF Result
<1>5. ASSUME NEW i \in DOMAIN r.nodes, exact \/ r.nodes[i].qn[1] # "channel"
      PROVE  LastOfId(r, i)
  <2>1. LastOfId(gbuf, i)
    BY <1>2, <1>3, <1>5
  <2>2. gbuf.nodes[i].id \in Nat /\ gbuf.next \in Nat /\ r.next \in Nat
    BY <1>2, <1>3, <1>5, BufferShape DEF NodeRecords
  <2>3. gbuf.nodes[i].id < r.next
    BY <2>1, <2>2, <1>3 DEF LastOfId
  <2> QED
    BY <2>1, <2>3, <1>3 DEF LastOfId
<1>6. ASSUME NEW x \in Result, x.type \in S
      PROVE  Readable(r, x.src) /\ Readable(r, x.tgt)
  <2>1. PICK i \in DOMAIN r.nodes : r.nodes[i].qn = x.src
    BY <1>4 DEF Means, Has, Names, ToSet
  <2>2. PICK j \in DOMAIN r.nodes : r.nodes[j].qn = x.tgt
    BY <1>4 DEF Means, Has, Names, ToSet
  <2>3. exact \/ (x.src[1] # "channel" /\ x.tgt[1] # "channel")
    <3>1. CASE ~exact
      <4>1. x.type # "EMITS"
        BY <3>1, <1>6
      <4>2. x \in MeaningOf(text)
        BY <4>1 DEF Agrees
      <4> QED
        BY <4>1, <4>2, <1>2, MeaningKinds
    <3> QED
      BY <3>1
  <2>4. LastOfId(r, i) /\ LastOfId(r, j)
    BY <2>1, <2>2, <2>3, <1>5
  <2> QED
    BY <2>1, <2>2, <2>4 DEF Readable
<1> HIDE DEF S
<1>7. {e \in Dump(r).edges : e.type \in S} = {x \in Result : x.type \in S}
  BY <1>3, <1>4, <1>6, DumpMeans
<1>8. (\A e \in db'.edges : e.type \in Types) /\ \A x \in Result : x.type \in Types
  <2>1. Owns'
    BY FinishOwns
  <2>2. db'.edges \subseteq Edges(QNames)
    BY <2>1, GraphShape DEF Owns, TypeOK
  <2> QED
    BY <2>2, <1>4 DEF Means, Edges
<1>9. ASSUME NEW x, exact \/ x.type # "EMITS"
      PROVE  x \in db'.edges <=> x \in MeaningOf(text)
  <2>1. x \in Result <=> x \in MeaningOf(text)
    BY <1>9 DEF Agrees
  <2>2. x.type \in Types => x.type \in S
    BY <1>9 DEF S
  <2>3. x \in db'.edges <=> x \in Result
    BY <2>2, <1>1, <1>7, <1>8
  <2> QED
    BY <2>1, <2>3
<1>10. Compared(db.edges)' = Compared(MeaningOf(indexed))'
  <2>1. MeaningOf(indexed)' = MeaningOf(text)
    BY <1>1
  <2>2. CASE exact
    <3>1. db'.edges = MeaningOf(text)
      BY <2>2, <1>9
    <3> QED
      BY <2>1, <2>2, <3>1, <1>1 DEF Compared
  <2>3. CASE ~exact
    BY <2>1, <2>3, <1>1, <1>9 DEF Compared
  <2> QED
    BY <2>2, <2>3
<1> QED
  BY <1>10 DEF Faithful

\* The invariant after the end of a run.
LEMMA FinishStores ==
    ASSUME Owns, RestKept, Stores, Finish
    PROVE  Stores'
<1>1. /\ phase = "finish" /\ phase' = "idle" /\ Running /\ ~Running'
      /\ indexed' = text /\ UNCHANGED <<text, full, calm, exact>>
  BY DEF Finish, Running, hist
<1>2. EdgesOK' /\ RegistryOK' /\ DefsOK' /\ CallsOK' /\ LastOK' /\ BegunOK'
  BY <1>1 DEF EdgesOK, RegistryOK, DefsOK, CallsOK, LastOK, BegunOK
<1>3. ShapeOK'
  BY <1>1 DEF ShapeOK, SameShape
<1>4. CASE full
  <2>1. Agrees
    BY <1>1, <1>4, FullAgrees DEF Stores
  <2>2. Faithful'
    BY <2>1, FinishMeans DEF Stores
  <2> QED
    BY <2>2, <1>2, <1>3 DEF Stores, Exactly, StoredOK
<1>5. CASE ~full
  <2>1. ASSUME Steady' PROVE Faithful'
    <3>1. calm /\ Clear(text)
      BY <2>1, <1>1 DEF Steady, Clear
    <3>2. SameShape(indexed, text)
      BY <3>1, <1>5 DEF Stores, ShapeOK
    <3>3. Clear(indexed)
      BY <3>1, <3>2, ShapeSame
    <3>4. Faithful
      BY <3>1, <3>3, <1>5 DEF Stores, StoredOK, Steady
    <3>5. Agrees
      BY <3>2, <3>3, <3>4, <1>1, <1>5, IncrementalAgrees DEF Stores
    <3> QED
      BY <3>5, FinishMeans DEF Stores
  <2>2. StoredOK'
    BY <2>1, <1>1, <1>5 DEF StoredOK
  <2> QED
    BY <2>2, <1>2, <1>3 DEF Stores, Exactly
<1> QED
  BY <1>4, <1>5

\* Stores holds at first.
LEMMA InitStores == Init => Stores
BY DEF Init, Stores, Exactly, EdgesOK, RegistryOK, DefsOK, CallsOK, LastOK, BegunOK,
       ShapeOK, StoredOK, Steady, Running

\* Exactly is about the run, the graph it began with and its texts.
LEMMA StillExactly ==
    ASSUME Exactly, UNCHANGED <<indexed, db, phase, run, exact>>,
           Running => text' = text
    PROVE  Exactly'
<1>1. UNCHANGED <<indexed, db, phase, full, todo, gbuf, registry, saved, next, at,
                  local, shared, exact>>
  BY DEF run
<1>2. CASE ~Running
  BY <1>1, <1>2 DEF Exactly, EdgesOK, RegistryOK, DefsOK, CallsOK, LastOK, BegunOK,
                    Running
<1>3. CASE Running
  <2>1. text' = text
    BY <1>3
  <2>2. EdgesOK' /\ RegistryOK'
    BY <2>1, <1>1, SetsSame DEF Exactly, EdgesOK, RegistryOK, Running
  <2>3. DefsOK'
    <3>1. \A b, f : HasDefs(b, f)' <=> HasDefs(b, f)
      BY <2>1 DEF HasDefs
    <3>2. (\A f \in ToSet(todo') : HasDefs(gbuf, f)') <=>
          (\A f \in ToSet(todo) : HasDefs(gbuf, f))
      BY <2>1, <1>1 DEF HasDefs
    <3>3. \A p, w : HasDefs(local[w], Sorted[p])' <=> HasDefs(local[w], Sorted[p])
      BY <2>1, <1>1, SetsSame DEF HasDefs
    <3> QED
      BY <3>2, <3>3, <1>1 DEF Exactly, DefsOK
  <2>4. CallsOK'
    <3>1. /\ AllCalled' = AllCalled
          /\ \A p : Called(todo[p], registry)' = Called(todo[p], registry)
      BY <2>1, <1>1, SetsSame DEF Called, CallEdges, RouteEdges
    <3>2. \A X : Found(X)' <=> Found(X)
      BY <3>1, <1>1 DEF Found
    <3> QED
      BY <3>2, <1>1 DEF Exactly, CallsOK
  <2>5. LastOK'
    BY <1>1 DEF Exactly, LastOK, LocalIds
  <2>6. BegunOK'
    BY <2>1, <1>1, SetsSame DEF Exactly, BegunOK, Running
  <2> QED
    BY <2>2, <2>3, <2>4, <2>5, <2>6 DEF Exactly
<1> QED
  BY <1>2, <1>3

\* An edit touches no run, and calm says whether it touched a definition.
LEMMA EditStores ==
    ASSUME Owns, Stores, NEW f \in Files, NEW t, Edit(f, t)
    PROVE  Stores'
<1>1. /\ ~Running /\ ~Running'
      /\ UNCHANGED <<indexed, db, phase, run, exact>> /\ full' = full
      /\ text' = [text EXCEPT ![f] = t] /\ text \in [Files -> Texts \cup {Absent}]
      /\ calm' = (calm /\ Absent \notin {t, text[f]} /\ t.defs = text[f].defs)
  BY DEF Edit, Running, run, Owns, TypeOK
<1>2. Exactly'
  BY <1>1, StillExactly DEF Stores
<1>3. ShapeOK'
  <2> SUFFICES ASSUME calm' PROVE SameShape(indexed, text)'
    BY DEF ShapeOK
  <2>1. calm /\ t # Absent /\ text[f] # Absent /\ t.defs = text[f].defs
    BY <1>1
  <2>2. SameShape(indexed, text)
    BY <2>1, <1>1 DEF Stores, ShapeOK
  <2>3. text'[f] = t /\ \A g \in Files : g # f => text'[g] = text[g]
    BY <1>1
  <2> QED
    BY <2>1, <2>2, <2>3, <1>1 DEF SameShape
<1>4. Faithful' = Faithful
  BY <1>1 DEF Faithful, Compared
<1>5. Steady' => Steady
  BY <1>1 DEF Steady, Clear
<1>6. StoredOK'
  BY <1>1, <1>4, <1>5 DEF Stores, StoredOK
<1> QED
  BY <1>2, <1>3, <1>6 DEF Stores

\* What is faithful stays so when fewer edges are compared.
LEMMA FaithfulLess ==
    ASSUME Faithful, UNCHANGED <<db, indexed>>, exact' => exact
    PROVE  Faithful'
<1> DEFINE M == MeaningOf(indexed)
<1>1. db' = db /\ MeaningOf(indexed)' = M
  OBVIOUS
<1>2. Compared(db.edges) = Compared(M)
  BY DEF Faithful
<1>3. Faithful' <=> Compared(db.edges)' = Compared(MeaningOf(indexed))'
  BY DEF Faithful
<1> HIDE DEF M
<1>4. CASE exact'
  BY <1>1, <1>2, <1>3, <1>4 DEF Compared
<1>5. CASE ~exact'
  BY <1>1, <1>2, <1>3, <1>5 DEF Compared
<1> QED
  BY <1>4, <1>5

\* A run of either kind begins.
LEMMA StartStores ==
    ASSUME Owns, Stores, StartFull \/ StartIncremental
    PROVE  Stores'
<1>1. Exactly'
  BY StartFullStores, StartIncrementalStores
<1>2. ~Running /\ Running' /\ UNCHANGED <<text, indexed, db>>
  BY DEF StartFull, StartIncremental, Begin, Running
<1>3. CASE StartFull
  <2>1. full'
    BY <1>3 DEF StartFull
  <2> QED
    BY <2>1, <1>1, <1>2 DEF Stores, ShapeOK, StoredOK
<1>4. CASE StartIncremental
  <2>1. /\ ~full' /\ calm' = calm
        /\ exact' = ((full' \/ exact) /\ ~Parallel(Keep(Order, Changed)))
    BY <1>4 DEF StartIncremental, Begin
  <2>2. ShapeOK'
    BY <2>1, <1>2 DEF Stores, ShapeOK, SameShape
  <2>3. Steady' => Steady
    BY <2>1, <1>2 DEF Steady, Clear
  <2>4. Steady' => Faithful'
    BY <2>1, <2>3, <1>2, FaithfulLess DEF Stores, StoredOK
  <2> QED
    BY <2>1, <2>2, <2>4, <1>1, <1>2 DEF Stores, StoredOK
<1> QED
  BY <1>3, <1>4

\* The other steps of a run leave the graph and the texts alone.
LEMMA StepStores ==
    ASSUME Stores, Exactly', Running, Running',
           UNCHANGED <<text, indexed, db, full, calm, exact>>
    PROVE  Stores'
<1>1. Faithful' = Faithful
  BY DEF Faithful, Compared
<1>2. Steady' => Steady
  BY DEF Steady, Clear
<1>3. ShapeOK'
  BY DEF Stores, ShapeOK, SameShape
<1>4. StoredOK'
  BY <1>1, <1>2 DEF Stores, StoredOK
<1> QED
  BY <1>3, <1>4 DEF Stores

\* Stores is inductive, with the help of Survives.
LEMMA NextStores ==
    ASSUME Survives, Stores, [Next]_vars
    PROVE  Stores'
<1>0. Owns /\ RestKept /\ IdsOK /\ Exactly
  BY DEF Survives, Stores
<1>1. CASE \E f \in Files, t \in Texts \cup {Absent} : Edit(f, t)
  BY <1>0, <1>1, EditStores
<1>2. CASE StartFull \/ StartIncremental
  BY <1>0, <1>2, StartStores
<1>3. CASE \/ DefinePasses \/ CallPasses \/ BuildRegistry
           \/ \E w \in Pool : Take(w) \/ Extract(w) \/ ResolveFile(w)
           \/ MergeExtracted \/ MergeResolved
  <2>1. Exactly'
    BY <1>0, <1>3, DefinePassesStores, CallPassesStores, BuildRegistryStores,
       TakeStores, ExtractStores, ResolveFileStores, MergeExtractedStores,
       MergeResolvedStores
  <2>2. /\ Running /\ Running'
        /\ UNCHANGED <<text, indexed, db, full, calm, exact>>
    BY <1>3 DEF DefinePasses, CallPasses, BuildRegistry, Take, Extract, ResolveFile,
                Work, MergeExtracted, MergeResolved, MergeLocals, Running, hist
  <2> QED
    BY <2>1, <2>2, StepStores
<1>4. CASE Finish
  BY <1>0, <1>4, FinishStores
<1>5. CASE UNCHANGED vars
  <2>1. /\ UNCHANGED <<indexed, db, phase, run, exact>>
        /\ UNCHANGED <<text, full, calm>>
    BY <1>5 DEF vars, run, hist
  <2>2. Exactly'
    BY <2>1, <1>0, StillExactly
  <2>3. Faithful' = Faithful /\ Steady' = Steady /\ Running' = Running
    BY <2>1 DEF Faithful, Compared, Steady, Clear, Running
  <2>4. ShapeOK' /\ StoredOK'
    BY <2>1, <2>3 DEF Stores, ShapeOK, SameShape, StoredOK
  <2> QED
    BY <2>2, <2>4 DEF Stores
<1> QED
  BY <1>1, <1>2, <1>3, <1>4, <1>5 DEF Next

\* Survives and Stores hold in every state.
LEMMA SpecStores == Spec => [](Survives /\ Stores)
<1>1. Init => Survives /\ Stores
  BY InitSurvives, InitStores
<1>2. Survives /\ Stores /\ [Next]_vars => Survives' /\ Stores'
  BY NextSurvives, NextStores
<1> QED
  BY <1>1, <1>2, PTL DEF Spec

\* A full run stores the graph the texts mean, edge by edge, through parses,
\* merges and resolutions by any number of workers in any order: only the
\* edges to channels are left to chance once a run was parallel.
THEOREM FullRunsAreExact == Spec => []FullRunIsExact
<1>1. Stores => FullRunIsExact
  <2> SUFFICES ASSUME Stores, Current, full
               PROVE  Compared(db.edges) = Compared(Meaning)
    BY DEF FullRunIsExact
  <2>1. ~Running /\ indexed = text
    BY DEF Current, Running
  <2>2. Faithful
    BY <2>1 DEF Stores, StoredOK
  <2> QED
    BY <2>1, <2>2 DEF Faithful, Meaning
<1> QED
  BY <1>1, SpecStores, PTL

\* Any number of incremental runs over edited bodies store what one full run
\* would: with names that are not ambiguous, what was purged is parsed again,
\* what was kept still stands, and what points into it is linked again.
THEOREM IncrementalRunsAreExact == Spec => []IncrementalIsExact
<1>1. Stores => IncrementalIsExact
  <2> SUFFICES ASSUME Stores, Current, calm, ~Ambiguous,
                      \A f \in ToSet(Existing) : ModuleOf[f] # Directory
               PROVE  Compared(db.edges) = Compared(Meaning)
    BY DEF IncrementalIsExact
  <2>1. ~Running /\ indexed = text
    BY DEF Current, Running
  <2>2. ToSet(Existing) = {f \in Files : text[f] # Absent}
    BY MeaningHas DEF Existing
  <2>3. ASSUME NEW f \in Files, NEW g \in Files, f # g,
               text[f] # Absent, text[g] # Absent
        PROVE  /\ Stem[f] # Stem[g] /\ ModuleOf[f] # ModuleOf[g]
               /\ ToSet(text[f].defs) \cap ToSet(text[g].defs) = {}
    <3>1. f \in ToSet(Existing) /\ g \in ToSet(Existing)
      BY <2>2, <2>3
    <3>2. /\ {Stem[f], ModuleOf[f]} \cap {Stem[g], ModuleOf[g]} = {}
          /\ ToSet(text[f].defs) \cap ToSet(text[g].defs) = {}
      BY <3>1, <2>3 DEF Ambiguous, Clashing
    <3> QED
      BY <3>2
  <2>4. Clear(text)
    BY <2>2, <2>3 DEF Clear
  <2>5. Faithful
    BY <2>1, <2>4 DEF Stores, StoredOK, Steady
  <2> QED
    BY <2>1, <2>5 DEF Faithful, Meaning
<1> QED
  BY <1>1, SpecStores, PTL
=============================================================================
