-------------------------- MODULE FiringRulesProofs --------------------------
(***************************************************************************)
(* What holds of the firings of a frame, for every flow that can be drawn  *)
(* from the shapes: each has its inputs, each round of a merge is complete *)
(* and shares no message with another, and one fixture is served. And that *)
(* the checker is right: its searches find a cycle exactly when there is   *)
(* one, its worklist finds what can be reached, and what it warned about   *)
(* is what the run does: without a runaway loop, a budget that has a       *)
(* message for each journey is never spent.                                *)
(***************************************************************************)
EXTENDS FiringRules, FiniteSetTheorems, FunctionTheorems, SequenceTheorems, WellFoundedInduction, TLAPS

-----------------------------------------------------------------------------
(* Documents *)

IsDocument(d) ==
  /\ d.kinds \in Seq(Kind)
  /\ IsFiniteSet(d.edges)
  /\ \A e \in d.edges : /\ e = [from |-> e.from, out |-> e.out, to |-> e.to, in |-> e.in]
                        /\ e.from \in Nodes(d) /\ e.to \in Nodes(d)

AllInputs == {"in", "trigger", "reset", "p", "q", "x", "in1", "in2"}

LEMMA InputsAreFinite == IsFiniteSet(AllInputs) /\ \A k : Inputs(k) \subseteq AllInputs
<1>1. IsFiniteSet({"in", "trigger"}) /\ IsFiniteSet({"reset", "p"})
      /\ IsFiniteSet({"q", "x"}) /\ IsFiniteSet({"in1", "in2"})
  <2>1. ASSUME NEW a, NEW b PROVE IsFiniteSet({a, b})
    <3>1. {a, b} = {a} \cup {b}
      OBVIOUS
    <3>2. IsFiniteSet({a})
      BY FS_Singleton
    <3>3. IsFiniteSet({a} \cup {b})
      BY <3>2, FS_AddElement
    <3> QED
      BY <3>1, <3>3
  <2> QED
    BY <2>1
<1>2. AllInputs = ({"in", "trigger"} \cup {"reset", "p"}) \cup ({"q", "x"} \cup {"in1", "in2"})
  BY DEF AllInputs
<1>3. IsFiniteSet(AllInputs)
  BY <1>1, <1>2, FS_Union
<1>4. \A k : Inputs(k) \subseteq AllInputs
  BY DEF Inputs, AllInputs, PassThrough, Guards, Merges
<1> QED
  BY <1>3, <1>4

LEMMA WiringIsDocument ==
  ASSUME NEW shape \in Seq(Kind), NEW wiring \in Wirings(shape), NEW broken
  PROVE  IsDocument(Document(shape, EdgesOf(wiring), broken))
<1> DEFINE T == Ports(shape, Inputs)
           O == Ports(shape, Outputs)
           U == {u \in T : wiring[u] # <<>>}
           f == [t \in U |-> Edge(wiring[t], t)]
<1>1. wiring \in [T -> O \cup {<<>>}]
  BY DEF Wirings
<1>2. IsFiniteSet(T)
  <2>1. PICK D : D = DOMAIN shape
    OBVIOUS
  <2>2. IsFiniteSet(D)
    <3>1. D = 1 .. Len(shape) /\ Len(shape) \in Nat
      BY <2>1
    <3> QED
      BY <3>1, FS_Interval
  <2>3. IsFiniteSet(AllInputs)
    BY InputsAreFinite
  <2>4. IsFiniteSet(D \X AllInputs)
    BY <2>2, <2>3, FS_Product
  <2>5. T \subseteq D \X AllInputs
    <3> SUFFICES ASSUME NEW u \in T PROVE u \in D \X AllInputs
      OBVIOUS
    <3>1. PICK n \in D : \E port \in Inputs(shape[n]) : u = <<n, port>>
      BY <2>1 DEF Ports
    <3>2. PICK port \in Inputs(shape[n]) : u = <<n, port>>
      BY <3>1
    <3>3. port \in AllInputs
      BY <3>2, InputsAreFinite
    <3> HIDE <2>1
    <3> QED
      BY <3>2, <3>3
  <2> HIDE DEF T
  <2> QED
    BY <2>4, <2>5, FS_Subset
<1>3. EdgesOf(wiring) = {f[t] : t \in U}
  BY <1>1 DEF EdgesOf
<1>4. f \in Surjection(U, {f[t] : t \in U}) /\ IsFiniteSet(U)
  BY <1>2, FS_Subset DEF Surjection
<1>5. IsFiniteSet(EdgesOf(wiring))
  BY <1>3, <1>4, FS_Surjection
<1>6. ASSUME NEW t \in U
      PROVE  /\ Edge(wiring[t], t).from \in DOMAIN shape /\ Edge(wiring[t], t).to \in DOMAIN shape
             /\ Edge(wiring[t], t) = [from |-> Edge(wiring[t], t).from, out |-> Edge(wiring[t], t).out,
                                      to |-> Edge(wiring[t], t).to, in |-> Edge(wiring[t], t).in]
  <2>1. wiring[t] \in O /\ t \in T
    BY <1>1
  <2>2. wiring[t][1] \in DOMAIN shape /\ t[1] \in DOMAIN shape
    BY <2>1 DEF Ports
  <2> QED
    BY <2>2 DEF Edge
<1>7. \A e \in EdgesOf(wiring) : \E t \in U : e = Edge(wiring[t], t)
  BY <1>1 DEF EdgesOf
<1> HIDE DEF U
<1> QED
  BY <1>5, <1>6, <1>7 DEF IsDocument, Document, Nodes

\* Whatever is drawn is a document, and stays as it is.
DocInv == IsDocument(doc)

LEMMA DocInit == Init => DocInv
<1> SUFFICES ASSUME Init PROVE IsDocument(doc)
  BY DEF DocInv
<1>1. CASE Draws
  <2>1. PICK shape \in Shapes : \E wiring \in Wirings(shape) : doc = Document(shape, EdgesOf(wiring), {})
    BY <1>1 DEF Draws
  <2>2. shape \in Seq(Kind)
    BY ShapesAssumption
  <2> QED
    BY <2>1, <2>2, WiringIsDocument
<1>2. CASE DrawsMistaken
  <2>1. PICK shape \in Mistaken :
          \E wiring \in Wirings(shape) :
          \E source \in Ports(shape, Outputs) \cup {<<1, "ghost">>},
             target \in Ports(shape, Inputs) \cup {<<2, "ghost">>} :
          \E broken \in {{}, {2}} :
            doc = Document(shape, EdgesOf(wiring) \cup {Edge(source, target)}, broken)
    BY <1>2 DEF DrawsMistaken
  <2>2. PICK wiring \in Wirings(shape) :
          \E source \in Ports(shape, Outputs) \cup {<<1, "ghost">>},
             target \in Ports(shape, Inputs) \cup {<<2, "ghost">>} :
          \E broken \in {{}, {2}} :
            doc = Document(shape, EdgesOf(wiring) \cup {Edge(source, target)}, broken)
    BY <2>1
  <2>3. PICK source \in Ports(shape, Outputs) \cup {<<1, "ghost">>},
             target \in Ports(shape, Inputs) \cup {<<2, "ghost">>} :
          \E broken \in {{}, {2}} :
            doc = Document(shape, EdgesOf(wiring) \cup {Edge(source, target)}, broken)
    BY <2>2
  <2>4. PICK broken : doc = Document(shape, EdgesOf(wiring) \cup {Edge(source, target)}, broken)
    BY <2>3
  <2>5. shape \in Seq(Kind) /\ 1 \in DOMAIN shape /\ 2 \in DOMAIN shape
    BY ShapesAssumption
  <2>6. source[1] \in DOMAIN shape /\ target[1] \in DOMAIN shape
    BY <2>5 DEF Ports
  <2>7. IsDocument(Document(shape, EdgesOf(wiring), broken))
    BY <2>5, WiringIsDocument
  <2> DEFINE new == Edge(source, target)
  <2>8. /\ new.from \in DOMAIN shape /\ new.to \in DOMAIN shape
        /\ new = [from |-> new.from, out |-> new.out, to |-> new.to, in |-> new.in]
    BY <2>6 DEF Edge
  <2> HIDE DEF new
  <2>9. IsFiniteSet(EdgesOf(wiring)) /\ IsFiniteSet(EdgesOf(wiring) \cup {new})
    BY <2>7, FS_AddElement DEF IsDocument, Document
  <2> QED
    BY <2>4, <2>7, <2>8, <2>9 DEF IsDocument, Document, Nodes, new
<1>3. CASE doc = EmptyFlow
  <2>1. <<"start", "bare_end">> \in Seq(Kind)
    BY DEF Kind, Ends
  <2> QED
    BY <1>3, <2>1, FS_EmptySet DEF EmptyFlow, Document, IsDocument
<1> QED
  BY <1>1, <1>2, <1>3 DEF Init

\* The gate lets a flow run only if no input has two outputs, each required one
\* has an output, and there is a start.
Sound ==
  /\ \A e, g \in doc.edges : e.to = g.to /\ e.in = g.in => e = g
  /\ \A n \in Nodes(doc) : RequiredInputs(KindOf(n)) \subseteq InPorts(doc, n)
  /\ \E n \in Nodes(doc) : KindOf(n) = "start"

GateInv == phase \notin {"loaded", "refused"} => Sound

LEMMA GateIsSound ==
  ASSUME IsDocument(doc), ~Blocks(RunDiagnostics(doc, Entry, workspace.refs, workspace.onDisk))
  PROVE  Sound
<1> DEFINE R == RunDiagnostics(doc, Entry, workspace.refs, workspace.onDisk)
<1>1. /\ EdgeErrors(doc) \subseteq R /\ MissingInputs(doc) \subseteq R
      /\ BrokenReferences(doc) \subseteq R /\ Cardinalities(doc) \subseteq R
  BY DEF RunDiagnostics, FlowDiagnostics
<1>2. \A x \in R : x.code \notin Errors
  BY DEF Blocks
<1> HIDE DEF R
<1>3. ASSUME NEW e \in doc.edges, NEW g \in doc.edges, e.to = g.to, e.in = g.in, e # g PROVE FALSE
  <2>1. Diagnostic("E004", 0) \in EdgeErrors(doc)
    BY <1>3 DEF EdgeErrors
  <2> QED
    BY <1>1, <1>2, <2>1 DEF Diagnostic, Errors
<1>4. doc.broken = {}
  <2> SUFFICES ASSUME NEW n \in doc.broken PROVE FALSE
    OBVIOUS
  <2>1. Diagnostic("E008", n) \in BrokenReferences(doc)
    BY DEF BrokenReferences
  <2> QED
    BY <1>1, <1>2, <2>1 DEF Diagnostic, Errors
<1>5. ASSUME NEW n \in Nodes(doc), NEW port \in RequiredInputs(KindOf(n)) PROVE port \in InPorts(doc, n)
  <2>1. CASE ~Wired(doc, n, port)
    <3>1. Diagnostic("E005", n) \in MissingInputs(doc)
      BY <1>4, <1>5, <2>1 DEF MissingInputs, Known, KindOf
    <3> QED
      BY <1>1, <1>2, <3>1 DEF Diagnostic, Errors
  <2> QED
    BY <2>1 DEF Wired, InPorts
<1>6. ASSUME \A n \in Nodes(doc) : KindOf(n) # "start" PROVE FALSE
  <2>1. {n \in Nodes(doc) : doc.kinds[n] \in {"start"}} = {}
    BY <1>6 DEF KindOf
  <2>2. Cardinality({n \in Nodes(doc) : doc.kinds[n] \in {"start"}}) # 1
    BY <2>1, FS_EmptySet
  <2>3. Diagnostic("E006", 0) \in Cardinalities(doc)
    BY <2>2 DEF Cardinalities
  <2> QED
    BY <1>1, <1>2, <2>3 DEF Diagnostic, Errors
<1> QED
  BY <1>3, <1>5, <1>6 DEF Sound

-----------------------------------------------------------------------------
(* Messages on their way *)

Message == [id : Nat, from : Nodes(doc), out : {e.out : e \in doc.edges}]
Delivery == [to : Nodes(doc), in : {e.in : e \in doc.edges}, message : Message]

\* An edge brings message m to a port.
Came(m, n, port) == \E e \in doc.edges : e.from = m.from /\ e.out = m.out /\ e.to = n /\ e.in = port

\* A queue of deliveries in the order in which they were sent, the last of them
\* not after `top`; and a message sent before them all.
Lined(q, top) ==
  /\ \A i \in DOMAIN q : q[i].message.id <= top /\ Came(q[i].message, q[i].to, q[i].in)
  /\ \A i, j \in DOMAIN q : i < j => q[i].message.id < q[j].message.id
Before(m, q, top) == m.id \in Nat /\ m.id <= top /\ \A i \in DOMAIN q : m.id < q[i].message.id

QueueInv == sent \in 0 .. MessageBudget /\ queue \in Seq(Delivery) /\ Lined(queue, sent)

\* A message that has been dispatched.
Old(m) == Before(m, queue, sent)

Advances(rest) == QueueInv' /\ \A m : Before(m, rest, sent) => Old(m)'

LEMMA Joined ==
  ASSUME NEW S, NEW q \in Seq(S), NEW a \in Seq(S)
  PROVE  /\ q \o a \in Seq(S) /\ Len(q) \in Nat /\ Len(a) \in Nat /\ Len(q \o a) = Len(q) + Len(a)
         /\ \A i \in 1 .. Len(q) + Len(a) : (q \o a)[i] = IF i <= Len(q) THEN q[i] ELSE a[i - Len(q)]
OBVIOUS

LEMMA LinedAppend ==
  ASSUME NEW q \in Seq(Delivery), NEW top \in Nat, Lined(q, top), NEW a \in Seq(Delivery), NEW k \in Nat,
         Len(a) = k,
         \A i \in 1 .. k : a[i].message.id = top + i /\ Came(a[i].message, a[i].to, a[i].in)
  PROVE  /\ q \o a \in Seq(Delivery) /\ Lined(q \o a, top + k)
         /\ \A m : Before(m, q, top) => Before(m, q \o a, top + k)
<1>1. /\ q \o a \in Seq(Delivery) /\ Len(q) \in Nat /\ Len(q \o a) = Len(q) + k
      /\ \A i \in 1 .. Len(q) + k : (q \o a)[i] = IF i <= Len(q) THEN q[i] ELSE a[i - Len(q)]
  BY Joined
<1>2. PICK s \in Seq(Delivery) : s = q \o a
  BY <1>1
<1>3. PICK n \in Nat : n = Len(q)
  BY <1>1
<1>4. /\ DOMAIN s = 1 .. n + k /\ DOMAIN q = 1 .. n
      /\ \A i \in 1 .. n : s[i] = q[i]
      /\ \A i \in n + 1 .. n + k : s[i] = a[i - n] /\ i - n \in 1 .. k
  BY <1>1, <1>2, <1>3
<1>5. \A i \in 1 .. n : q[i].message.id \in Nat
  <2>1. \A i \in 1 .. n : q[i] \in Delivery
    BY <1>4
  <2>2. \A d \in Delivery : d.message.id \in Nat
    BY DEF Delivery, Message
  <2> QED
    BY <2>1, <2>2
<1>6. \A i \in n + 1 .. n + k : s[i].message.id = top + (i - n) /\ Came(s[i].message, s[i].to, s[i].in)
  BY <1>4
<1>7. \A i \in 1 .. n : s[i].message.id \in Nat /\ s[i].message.id <= top
                       /\ Came(s[i].message, s[i].to, s[i].in)
  BY <1>4, <1>5 DEF Lined
<1>8. \A i, j \in 1 .. n : i < j => s[i].message.id < s[j].message.id
  BY <1>4 DEF Lined
<1>9. Lined(s, top + k)
  <2>1. ASSUME NEW i \in 1 .. n + k
        PROVE  s[i].message.id <= top + k /\ Came(s[i].message, s[i].to, s[i].in)
    <3>1. CASE i \in 1 .. n
      BY <1>7, <3>1
    <3>2. CASE i \in n + 1 .. n + k
      BY <1>6, <3>2
    <3> QED
      BY <3>1, <3>2
  <2>2. ASSUME NEW i \in 1 .. n + k, NEW j \in 1 .. n + k, i < j
        PROVE  s[i].message.id < s[j].message.id
    <3>1. CASE j \in 1 .. n
      BY <1>8, <2>2, <3>1, SMTT(30)
    <3>2. CASE i \in 1 .. n /\ j \in n + 1 .. n + k
      <4>1. s[i].message.id \in Nat /\ s[i].message.id <= top
        BY <1>7, <3>2
      <4>2. s[j].message.id = top + (j - n) /\ j - n > 0
        BY <1>6, <3>2
      <4> QED
        BY <4>1, <4>2
    <3>3. CASE i \in n + 1 .. n + k /\ j \in n + 1 .. n + k
      <4>1. s[i].message.id = top + (i - n) /\ s[j].message.id = top + (j - n)
        BY <1>6, <3>3
      <4> QED
        BY <2>2, <3>3, <4>1
    <3> QED
      BY <2>2, <3>1, <3>2, <3>3
  <2> QED
    BY <1>4, <2>1, <2>2 DEF Lined
<1>10. ASSUME NEW m, Before(m, q, top) PROVE Before(m, s, top + k)
  <2>1. m.id \in Nat /\ m.id <= top /\ \A i \in 1 .. n : m.id < s[i].message.id
    BY <1>4, <1>10 DEF Before
  <2>2. ASSUME NEW i \in n + 1 .. n + k PROVE m.id < s[i].message.id
    <3>1. s[i].message.id = top + (i - n)
      BY ONLY <1>6, i \in n + 1 .. n + k
    <3>2. m.id \in Nat /\ m.id <= top
      BY <2>1
    <3> QED
      BY ONLY <3>1, <3>2, top \in Nat, n \in Nat, k \in Nat, i \in n + 1 .. n + k
  <2>3. \A i \in 1 .. n + k : i \in 1 .. n \/ i \in n + 1 .. n + k
    OBVIOUS
  <2> QED
    BY <1>4, <2>1, <2>2, <2>3, SMTT(30) DEF Before
<1> QED
  BY <1>2, <1>9, <1>10

LEMMA Sends ==
  ASSUME IsDocument(doc), sent \in 0 .. MessageBudget, NEW n, NEW port
  PROVE  /\ Room(n, port) \in Nat /\ sent + Room(n, port) \in 0 .. MessageBudget
         /\ Deliveries(n, port) \in Seq(Delivery)
         /\ Len(Deliveries(n, port)) = Room(n, port)
         /\ \A i \in 1 .. Room(n, port) :
              LET d == Deliveries(n, port)[i]
              IN  d.message.id = sent + i /\ Came(d.message, d.to, d.in)
<1> DEFINE E == EdgesFrom(n, port)
           c == Cardinality(E)
           k == Room(n, port)
<1>1. IsFiniteSet(E)
  BY FS_Subset DEF IsDocument, EdgesFrom
<1>2. c \in Nat /\ ExistsBijection(1 .. c, E)
  BY <1>1, FS_CardinalityType
<1>3. MessageBudget \in Nat
  BY LimitsAssumption
<1>4. k \in Nat /\ k <= c /\ sent + k \in 0 .. MessageBudget
  <2> HIDE DEF c
  <2> QED
    BY <1>2, <1>3 DEF Room, Smaller, c
<1>5. \E s \in [1 .. c -> E] : \A i, j \in DOMAIN s : i # j => s[i] # s[j]
  <2> HIDE DEF c, E
  <2>1. PICK s \in Bijection(1 .. c, E) : TRUE
    BY <1>2 DEF ExistsBijection
  <2>2. s \in [1 .. c -> E] /\ \A i, j \in 1 .. c : s[i] = s[j] => i = j
    BY <2>1 DEF Bijection, Injection, IsInjective
  <2> QED
    BY <2>2
<1>6. InOrder(E) \in [1 .. c -> E]
  BY <1>5 DEF InOrder
<1>7. PICK s \in [1 .. c -> E] : s = InOrder(E)
  BY <1>6
<1>8. Deliveries(n, port) =
        [i \in 1 .. k |-> [to |-> s[i].to, in |-> s[i].in,
                           message |-> [id |-> sent + i, from |-> n, out |-> port]]]
  BY <1>7 DEF Deliveries
<1>9. ASSUME NEW i \in 1 .. k
      PROVE  /\ s[i] \in doc.edges /\ s[i].from = n /\ s[i].out = port
             /\ s[i].to \in Nodes(doc) /\ n \in Nodes(doc)
  <2>1. i \in 1 .. c
    <3> HIDE DEF c, k
    <3> QED
      BY <1>2, <1>4
  <2>2. s[i] \in E
    <3> HIDE DEF c, E
    <3> QED
      BY <1>7, <2>1
  <2> QED
    BY <2>2 DEF EdgesFrom, IsDocument
<1> HIDE DEF c, E, k
<1>10. ASSUME NEW i \in 1 .. k
       PROVE  LET d == [to |-> s[i].to, in |-> s[i].in,
                        message |-> [id |-> sent + i, from |-> n, out |-> port]]
              IN  d \in Delivery /\ d.message.id = sent + i /\ Came(d.message, d.to, d.in)
  BY <1>4, <1>9 DEF Delivery, Message, Came
<1>11. PICK a : a = Deliveries(n, port)
  OBVIOUS
<1>12. /\ DOMAIN a = 1 .. k
       /\ \A i \in 1 .. k : a[i] = [to |-> s[i].to, in |-> s[i].in,
                                    message |-> [id |-> sent + i, from |-> n, out |-> port]]
  BY <1>8, <1>11
<1>13. \A i \in 1 .. k : a[i] \in Delivery /\ a[i].message.id = sent + i
                         /\ Came(a[i].message, a[i].to, a[i].in)
  BY <1>10, <1>12
<1>14. a \in [1 .. k -> Delivery]
  BY <1>8, <1>11, <1>12, <1>13
<1>15. a \in Seq(Delivery) /\ Len(a) = k
  BY <1>4, <1>14
<1> QED
  BY <1>4, <1>11, <1>13, <1>15 DEF k

\* What was sent goes behind what is left of the queue.
LEMMA SendingAdvances ==
  ASSUME DocInv, doc' = doc, sent \in 0 .. MessageBudget, NEW rest \in Seq(Delivery),
         Lined(rest, sent), NEW n, NEW port,
         queue' = rest \o Deliveries(n, port), sent' = sent + Room(n, port)
  PROVE  Advances(rest)
<1>1. PICK a : a = Deliveries(n, port)
  OBVIOUS
<1>2. PICK k : k = Room(n, port)
  OBVIOUS
<1>3. /\ k \in Nat /\ sent + k \in 0 .. MessageBudget /\ a \in Seq(Delivery) /\ Len(a) = k
      /\ \A i \in 1 .. k : a[i].message.id = sent + i /\ Came(a[i].message, a[i].to, a[i].in)
  BY <1>1, <1>2, Sends DEF DocInv
<1>4. sent \in Nat
  OBVIOUS
<1>5. /\ rest \o a \in Seq(Delivery) /\ Lined(rest \o a, sent + k)
      /\ \A m : Before(m, rest, sent) => Before(m, rest \o a, sent + k)
  BY <1>3, <1>4, LinedAppend
<1>6. queue' = rest \o a /\ sent' = sent + k
  BY <1>1, <1>2
<1>7. PICK q : q = rest \o a
  OBVIOUS
<1>8. q \in Seq(Delivery) /\ Lined(q, sent + k) /\ queue' = q
      /\ \A m : Before(m, rest, sent) => Before(m, q, sent + k)
  BY <1>5, <1>6, <1>7
<1> HIDE <1>7
<1>9. QueueInv'
  <2>1. Delivery' = Delivery
    BY DEF Delivery, Message
  <2>3. Lined(queue, sent)'
    <3>1. \A x \in DOMAIN q : q[x].message.id <= sent + k /\ Came(q[x].message, q[x].to, q[x].in)
      BY <1>8 DEF Lined
    <3>2. \A x \in DOMAIN q : Came(q[x].message, q[x].to, q[x].in)'
      BY <3>1 DEF Came
    <3>3. \A x, y \in DOMAIN q : x < y => q[x].message.id < q[y].message.id
      BY <1>8 DEF Lined
    <3> QED
      BY <1>6, <1>8, <3>1, <3>2, <3>3 DEF Lined
  <2> QED
    BY <1>3, <1>6, <1>8, <2>1, <2>3 DEF QueueInv
<1>10. \A m : Before(m, rest, sent) => Old(m)'
  BY <1>6, <1>8 DEF Old, Before
<1> QED
  BY <1>9, <1>10 DEF Advances

LEMMA KeepingAdvances ==
  ASSUME doc' = doc, sent \in 0 .. MessageBudget, NEW rest \in Seq(Delivery), Lined(rest, sent),
         queue' = rest, sent' = sent
  PROVE  Advances(rest)
BY DEF Advances, QueueInv, Old, Before, Lined, Came, Delivery, Message

\* The delivery that is dispatched, and the queue behind it.
LEMMA Popped ==
  ASSUME DocInv, QueueInv, queue # <<>>
  PROVE  LET d == Head(queue)  rest == Tail(queue)
         IN  /\ rest \in Seq(Delivery) /\ Lined(rest, sent)
             /\ d.to \in Nodes(doc) /\ d.in \in InPorts(doc, d.to)
             /\ d.message \in Message /\ Came(d.message, d.to, d.in)
             /\ Before(d.message, rest, sent)
             /\ \A m : Old(m) => Before(m, rest, sent) /\ m.id < d.message.id
<1>1. PICK d, rest : d = Head(queue) /\ rest = Tail(queue)
  OBVIOUS
<1>2. /\ queue \in Seq(Delivery) /\ Len(queue) \in Nat /\ Len(queue) > 0
      /\ rest \in Seq(Delivery) /\ d = queue[1] /\ d \in Delivery
      /\ DOMAIN queue = 1 .. Len(queue) /\ DOMAIN rest = 1 .. Len(queue) - 1
      /\ \A i \in DOMAIN rest : rest[i] = queue[i + 1] /\ i + 1 \in DOMAIN queue
  BY <1>1 DEF QueueInv
<1>3. Lined(queue, sent) /\ sent \in Nat
  BY DEF QueueInv
<1>4. Lined(rest, sent)
  <2>1. \A i \in DOMAIN rest : rest[i].message.id <= sent /\ Came(rest[i].message, rest[i].to, rest[i].in)
    BY <1>2, <1>3 DEF Lined
  <2>2. \A i, j \in DOMAIN rest : i < j => rest[i].message.id < rest[j].message.id
    <3> SUFFICES ASSUME NEW i \in DOMAIN rest, NEW j \in DOMAIN rest, i < j
                 PROVE  rest[i].message.id < rest[j].message.id
      OBVIOUS
    <3>1. i + 1 \in DOMAIN queue /\ j + 1 \in DOMAIN queue /\ i + 1 < j + 1
      BY <1>2
    <3> QED
      BY <1>2, <1>3, <3>1 DEF Lined
  <2> QED
    BY <2>1, <2>2 DEF Lined
<1>5. /\ d.to \in Nodes(doc) /\ d.message \in Message /\ d.message.id \in Nat
      /\ d.message.id <= sent /\ Came(d.message, d.to, d.in)
  <2>1. d.to \in Nodes(doc) /\ d.message \in Message
    BY <1>2 DEF Delivery
  <2>2. d.message.id \in Nat
    BY <2>1 DEF Message
  <2>3. 1 \in DOMAIN queue
    BY <1>2
  <2>4. d.message.id <= sent /\ Came(d.message, d.to, d.in)
    BY <1>2, <1>3, <2>3 DEF Lined
  <2> QED
    BY <2>1, <2>2, <2>4
<1>6. d.in \in InPorts(doc, d.to)
  BY <1>5 DEF Came, InPorts
<1>7. Before(d.message, rest, sent)
  <2>1. \A i \in DOMAIN rest : d.message.id < rest[i].message.id
    BY <1>2, <1>3, SMTT(30) DEF Lined
  <2> QED
    BY <1>5, <2>1 DEF Before
<1>8. ASSUME NEW m, Old(m) PROVE Before(m, rest, sent) /\ m.id < d.message.id
  BY <1>2, <1>8 DEF Old, Before
<1> QED
  BY <1>1, <1>2, <1>4, <1>5, <1>6, <1>7, <1>8

-----------------------------------------------------------------------------
(* What a node has seen *)

IsSeen(h) == h = [reached |-> h.reached, rounds |-> h.rounds, unhandled |-> h.unhandled, served |-> h.served]

Size(n) ==
  IF KindOf(n) = "collect" THEN Count
  ELSE IF KindOf(n) = "all" THEN Cardinality(InPorts(doc, n)) ELSE 1

\* A round is of messages that were dispatched; a later round has later ones.
RoundsInv(n) ==
  /\ seen.rounds[n] \in Seq(SUBSET Message)
  /\ \A i \in DOMAIN seen.rounds[n] :
       /\ \A m \in seen.rounds[n][i] : Old(m)
       /\ KindOf(n) \in Merges => Cardinality(seen.rounds[n][i]) = Size(n)
  /\ \A i, j \in DOMAIN seen.rounds[n] :
       i < j => \A m \in seen.rounds[n][i], k \in seen.rounds[n][j] : m.id < k.id

\* What is kept for the next round is later than all rounds.
After(n, m) == \A i \in DOMAIN seen.rounds[n] : \A k \in seen.rounds[n][i] : k.id < m.id

SlotsInv(n) ==
  /\ DOMAIN slots[n] \subseteq InPorts(doc, n)
  /\ \A p \in DOMAIN slots[n] :
       /\ slots[n][p] \in Message /\ Old(slots[n][p]) /\ Came(slots[n][p], n, p)
       /\ KindOf(n) = "all" => After(n, slots[n][p])
  /\ \A p, q \in DOMAIN slots[n] : p # q => slots[n][p].id # slots[n][q].id

CollectedInv(n) ==
  /\ collected[n] \in SUBSET Message /\ IsFiniteSet(collected[n])
  /\ Cardinality(collected[n]) < Count
  /\ KindOf(n) # "collect" => collected[n] = {}
  /\ \A m \in collected[n] : Old(m) /\ After(n, m)

NodeInv(n) == RoundsInv(n) /\ SlotsInv(n) /\ CollectedInv(n)

\* A firing that has its inputs.
Complete(f) ==
  f = [node |-> f.node, values |-> f.values, attempt |-> f.attempt] /\ CompleteFiring(f)

\* Firings are created for nodes whose inputs are there.
ReadyInv == \E S : ready \in Seq(S) /\ \A f \in S : Complete(f)
WaitingInv == \A f \in waiting : Complete(f)

FramesInv ==
  /\ IsSeen(seen) /\ DOMAIN seen.rounds = Nodes(doc)
  /\ DOMAIN slots = Nodes(doc) /\ DOMAIN collected = Nodes(doc)
  /\ \A n \in Nodes(doc) : NodeInv(n)

RulesInv == DocInv /\ GateInv /\ QueueInv /\ FramesInv /\ ReadyInv /\ WaitingInv

\* The parts of a node that a step does not concern.
LEMMA RoundsKept ==
  ASSUME NEW n, RoundsInv(n), doc' = doc, \A m : Old(m) => Old(m)', seen'.rounds[n] = seen.rounds[n]
  PROVE  RoundsInv(n)'
BY DEF RoundsInv, Size, KindOf, Message, Nodes, InPorts

LEMMA SlotsKept ==
  ASSUME NEW n, SlotsInv(n), doc' = doc, \A m : Old(m) => Old(m)', slots'[n] = slots[n],
         seen'.rounds[n] = seen.rounds[n] \/ KindOf(n) # "all"
  PROVE  SlotsInv(n)'
<1>1. KindOf(n) = "all" => \A m : After(n, m) => After(n, m)'
  BY DEF After
<1> QED
  BY <1>1 DEF SlotsInv, KindOf, InPorts, Came, Message, Nodes

LEMMA CollectedKept ==
  ASSUME NEW n, CollectedInv(n), doc' = doc, \A m : Old(m) => Old(m)', collected'[n] = collected[n],
         seen'.rounds[n] = seen.rounds[n] \/ KindOf(n) # "collect"
  PROVE  CollectedInv(n)'
<1>1. KindOf(n) = "collect" => \A m : After(n, m) => After(n, m)'
  BY DEF After
<1>2. KindOf(n) # "collect" => collected'[n] = {}
  BY DEF CollectedInv
<1> QED
  BY <1>1, <1>2 DEF CollectedInv, KindOf, Message, Nodes

LEMMA NodeKept ==
  ASSUME NEW n, NodeInv(n), doc' = doc, \A m : Old(m) => Old(m)',
         seen'.rounds[n] = seen.rounds[n], slots'[n] = slots[n], collected'[n] = collected[n]
  PROVE  NodeInv(n)'
BY RoundsKept, SlotsKept, CollectedKept DEF NodeInv

\* The step is about one node.
LEMMA FramesKept ==
  ASSUME FramesInv, doc' = doc, \A m : Old(m) => Old(m)', NEW n \in Nodes(doc), NodeInv(n)',
         IsSeen(seen'), DOMAIN seen'.rounds = Nodes(doc),
         DOMAIN slots' = Nodes(doc), DOMAIN collected' = Nodes(doc),
         \A k \in Nodes(doc) \ {n} : /\ seen'.rounds[k] = seen.rounds[k]
                                     /\ slots'[k] = slots[k] /\ collected'[k] = collected[k]
  PROVE  FramesInv'
<1>1. ASSUME NEW k \in Nodes(doc) \ {n} PROVE NodeInv(k)'
  BY NodeKept DEF FramesInv
<1>2. \A k \in Nodes(doc) : NodeInv(k)'
  BY <1>1
<1>3. IsSeen(seen)' /\ Nodes(doc)' = Nodes(doc)
  BY DEF IsSeen, Nodes
<1> QED
  BY <1>2, <1>3 DEF FramesInv

\* The step is about no node.
LEMMA AllFramesKept ==
  ASSUME FramesInv, doc' = doc, \A m : Old(m) => Old(m)',
         IsSeen(seen'), seen'.rounds = seen.rounds, slots' = slots, collected' = collected
  PROVE  FramesInv'
<1>1. ASSUME NEW k \in Nodes(doc) PROVE NodeInv(k)'
  BY NodeKept DEF FramesInv
<1>2. IsSeen(seen)' /\ Nodes(doc)' = Nodes(doc)
  BY DEF IsSeen, Nodes
<1> QED
  BY <1>1, <1>2 DEF FramesInv

LEMMA MessageType ==
  /\ Message \subseteq [id : Nat, from : Nodes(doc), out : {e.out : e \in doc.edges}]
  /\ \A m \in Message : m.id \in Nat
BY DEF Message

\* A message that comes now is later than every round.
LEMMA ComesAfter ==
  ASSUME NEW n, RoundsInv(n), NEW m, \A k : Old(k) => k.id < m.id
  PROVE  After(n, m)
BY DEF RoundsInv, After

\* What came to the slots of node n, once message m is in one of them.
IsFilled(n, m, filled) ==
  /\ DOMAIN filled \subseteq InPorts(doc, n)
  /\ \A p \in DOMAIN filled :
       /\ filled[p] \in Message /\ Came(filled[p], n, p) /\ (filled[p] = m \/ Old(filled[p]))
       /\ KindOf(n) = "all" => After(n, filled[p])
  /\ \A p, q \in DOMAIN filled : p # q => filled[p].id # filled[q].id

LEMMA FilledHolds ==
  ASSUME NEW n \in Nodes(doc), NodeInv(n), NEW m \in Message, NEW port \in InPorts(doc, n),
         Came(m, n, port), \A k : Old(k) => k.id < m.id,
         NEW filled, filled = Filled(n, port, m)
  PROVE  IsFilled(n, m, filled) /\ DOMAIN filled = DOMAIN slots[n] \cup {port}
<1>1. /\ DOMAIN filled = DOMAIN slots[n] \cup {port} /\ filled[port] = m
      /\ \A p \in DOMAIN filled : p # port => p \in DOMAIN slots[n] /\ filled[p] = slots[n][p]
  BY DEF Filled
<1>2. DOMAIN filled \subseteq InPorts(doc, n)
  BY <1>1 DEF NodeInv, SlotsInv
<1>3. After(n, m)
  BY ComesAfter DEF NodeInv
<1>4. ASSUME NEW p \in DOMAIN filled
      PROVE  /\ filled[p] \in Message /\ Came(filled[p], n, p)
             /\ filled[p] = m \/ Old(filled[p])
             /\ KindOf(n) = "all" => After(n, filled[p])
             /\ p # port => filled[p].id < m.id
  <2>1. CASE p = port
    BY <1>1, <1>3, <2>1
  <2>2. CASE p # port
    BY <1>1, <2>2 DEF NodeInv, SlotsInv
  <2> QED
    BY <2>1, <2>2
<1>5. ASSUME NEW p \in DOMAIN filled, NEW q \in DOMAIN filled, p # q
      PROVE  filled[p].id # filled[q].id
  <2>1. filled[p].id \in Nat /\ filled[q].id \in Nat
    BY <1>4, MessageType
  <2>2. CASE p = port \/ q = port
    BY <1>1, <1>4, <1>5, <2>1, <2>2
  <2>3. CASE p # port /\ q # port
    BY <1>1, <1>5, <2>3 DEF NodeInv, SlotsInv
  <2> QED
    BY <2>2, <2>3
<1> QED
  BY <1>1, <1>2, <1>4, <1>5 DEF IsFilled

\* A round joins the earlier ones.
LEMMA RoundAdded ==
  ASSUME doc' = doc, NEW n, RoundsInv(n), \A m : Old(m) => Old(m)', NEW round \in SUBSET Message,
         KindOf(n) \in Merges => Cardinality(round) = Size(n),
         \A m \in round : After(n, m) /\ Old(m)',
         seen'.rounds[n] = Append(seen.rounds[n], round)
  PROVE  RoundsInv(n)'
<1>1. PICK r : r = seen.rounds[n]
  OBVIOUS
<1>2. PICK s : s = Append(r, round)
  OBVIOUS
<1>3. r \in Seq(SUBSET Message) /\ s \in Seq(SUBSET Message)
  BY <1>1, <1>2 DEF RoundsInv
<1>4. PICK k \in Nat : k = Len(r)
  BY <1>3
<1>5. /\ DOMAIN r = 1 .. k /\ DOMAIN s = 1 .. k + 1 /\ s[k + 1] = round
      /\ \A i \in 1 .. k : s[i] = r[i]
  BY <1>2, <1>3, <1>4
<1>6. seen'.rounds[n] = s
  BY <1>1, <1>2
<1> HIDE <1>2
<1>7. \A i \in 1 .. k : /\ \A m \in s[i] : Old(m)'
                        /\ KindOf(n) \in Merges => Cardinality(s[i]) = Size(n)
                        /\ \A m \in s[i], x \in round : m.id < x.id
  BY <1>1, <1>5 DEF RoundsInv, After
<1>8. \A i, j \in 1 .. k : i < j => \A m \in s[i], x \in s[j] : m.id < x.id
  BY <1>1, <1>5 DEF RoundsInv
<1>9. /\ Size(n)' = Size(n) /\ KindOf(n)' = KindOf(n) /\ Message' = Message
  BY DEF Size, KindOf, Message, Nodes, InPorts
<1>10. \A i \in 1 .. k + 1 : i \in 1 .. k \/ i = k + 1
  BY <1>4
<1>11. \A i \in 1 .. k + 1 : /\ \A m \in s[i] : Old(m)'
                             /\ KindOf(n) \in Merges => Cardinality(s[i]) = Size(n)
  BY <1>5, <1>7, <1>10
<1>12. ASSUME NEW i \in 1 .. k + 1, NEW j \in 1 .. k + 1, i < j, NEW m \in s[i], NEW x \in s[j]
       PROVE  m.id < x.id
  <2>1. CASE j \in 1 .. k
    <3>1. i \in 1 .. k
      BY <1>12, <2>1
    <3> QED
      BY <1>8, <1>12, <2>1, <3>1
  <2>2. CASE j = k + 1
    <3>1. i \in 1 .. k
      BY <1>12, <2>2
    <3> QED
      BY <1>5, <1>7, <1>12, <2>2, <3>1
  <2> QED
    BY <1>10, <2>1, <2>2
<1> QED
  BY <1>3, <1>5, <1>6, <1>9, <1>11, <1>12 DEF RoundsInv

-----------------------------------------------------------------------------
(* What a node sends *)

\* What an emission or a failure leaves: a longer queue, and no new round.
Leaves(rest, h) == /\ Advances(rest) /\ IsSeen(seen')
                   /\ seen'.rounds = h.rounds /\ seen'.served = h.served

LEMMA EmitKeeps ==
  ASSUME DocInv, doc' = doc, sent \in 0 .. MessageBudget, NEW rest \in Seq(Delivery),
         Lined(rest, sent), NEW h, IsSeen(h), NEW n, NEW port, NEW caught,
         Emit(n, port, rest, h, caught)
  PROVE  Leaves(rest, h) /\ phase' \in {"running", "exhausted"}
<1>1. Advances(rest)
  BY SendingAdvances DEF Emit
<1>2. seen' = h \/ seen' = [h EXCEPT !.unhandled = @ \cup {<<n, port>>}]
  BY DEF Emit
<1>3. IsSeen(seen') /\ seen'.rounds = h.rounds /\ seen'.served = h.served
  BY <1>2 DEF IsSeen
<1> QED
  BY <1>1, <1>3 DEF Leaves, Emit

LEMMA QueueAdvances ==
  ASSUME QueueInv, doc' = doc, UNCHANGED <<queue, sent>>
  PROVE  Advances(queue)
BY KeepingAdvances DEF QueueInv

LEMMA NodeErrorKeeps ==
  ASSUME DocInv, QueueInv, doc' = doc, phase = "running", NEW h, IsSeen(h), NEW n, NodeError(n, h)
  PROVE  Leaves(queue, h) /\ phase' \in {"running", "exhausted"}
<1>1. CASE KindOf(n) \in {"request", "python"}
  BY <1>1, EmitKeeps DEF NodeError, QueueInv
<1>2. CASE KindOf(n) \notin {"request", "python"}
  <2>1. seen' = [h EXCEPT !.unhandled = @ \cup {<<n, "none">>}] /\ UNCHANGED <<phase, queue, sent>>
    BY <1>2 DEF NodeError
  <2>2. IsSeen(seen') /\ seen'.rounds = h.rounds /\ seen'.served = h.served
    BY <2>1 DEF IsSeen
  <2>3. Advances(queue)
    BY <2>1, QueueAdvances
  <2> QED
    BY <2>1, <2>2, <2>3 DEF Leaves
<1> QED
  BY <1>1, <1>2

LEMMA ReachesIsSeen ==
  ASSUME IsSeen(seen), NEW n
  PROVE  /\ IsSeen(Reaches(n)) /\ Reaches(n).rounds = seen.rounds /\ Reaches(n).served = seen.served
BY DEF IsSeen, Reaches

\* The whole queue is kept: what was old is old.
LEMMA OldStaysOld ==
  ASSUME Advances(queue)
  PROVE  QueueInv' /\ \A m : Old(m) => Old(m)'
BY DEF Advances, Old

-----------------------------------------------------------------------------
(* Firings *)

LEMMA FiringKept ==
  ASSUME doc' = doc, NEW f, Complete(f)
  PROVE  Complete(f)'
BY DEF Complete, CompleteFiring, ComesFrom, KindOf

\* Values that came to all wired ports make a complete firing.
LEMMA ValuesAreComplete ==
  ASSUME DocInv, Sound, NEW n \in Nodes(doc), NEW values, DOMAIN values = InPorts(doc, n),
         \A p \in DOMAIN values : Came(values[p], n, p)
  PROVE  Complete(Firing(n, values))
<1>1. RequiredInputs(KindOf(n)) \subseteq DOMAIN values
  BY DEF Sound
<1>2. ASSUME NEW p \in DOMAIN values PROVE ComesFrom(values[p], n, p)
  <2>1. PICK e \in doc.edges : e.from = values[p].from /\ e.out = values[p].out /\ e.to = n /\ e.in = p
    BY DEF Came
  <2>2. e = [from |-> values[p].from, out |-> values[p].out, to |-> n, in |-> p]
    BY <2>1 DEF DocInv, IsDocument
  <2>3. \A g \in doc.edges : g.to = n /\ g.in = p => g = e
    BY <2>1 DEF Sound
  <2> QED
    BY <2>1, <2>2, <2>3 DEF ComesFrom
<1> QED
  BY <1>1, <1>2 DEF Complete, CompleteFiring, Firing

LEMMA ReadyKept ==
  ASSUME ReadyInv, doc' = doc, ready' = ready
  PROVE  ReadyInv'
<1>1. PICK S : ready \in Seq(S) /\ \A f \in S : Complete(f)
  BY DEF ReadyInv
<1>2. \A f \in S : Complete(f)'
  BY <1>1, FiringKept
<1> QED
  BY <1>1, <1>2 DEF ReadyInv

LEMMA ReadyGrows ==
  ASSUME ReadyInv, doc' = doc, NEW f, Complete(f), ready' = Append(ready, f)
  PROVE  ReadyInv'
<1>1. PICK S : ready \in Seq(S) /\ \A g \in S : Complete(g)
  BY DEF ReadyInv
<1>2. PICK T : T = S \cup {f}
  OBVIOUS
<1>3. \A g \in T : Complete(g)'
  BY <1>1, <1>2, FiringKept
<1>4. ready \in Seq(T) /\ f \in T
  BY <1>1, <1>2
<1>5. ready' \in Seq(T)
  BY <1>4
<1> QED
  BY <1>3, <1>5 DEF ReadyInv

LEMMA ReadyStarts ==
  ASSUME ReadyInv, doc' = doc, ready # <<>>, ready' = Tail(ready)
  PROVE  ReadyInv' /\ Complete(Head(ready))
<1>1. PICK S : ready \in Seq(S) /\ \A g \in S : Complete(g)
  BY DEF ReadyInv
<1>2. \A g \in S : Complete(g)'
  BY <1>1, FiringKept
<1>3. Tail(ready) \in Seq(S) /\ Head(ready) \in S
  BY <1>1
<1> QED
  BY <1>1, <1>2, <1>3 DEF ReadyInv

LEMMA WaitingKept ==
  ASSUME WaitingInv, doc' = doc, \A f \in waiting' \ waiting : Complete(f)
  PROVE  WaitingInv'
<1>1. \A f \in waiting' : Complete(f)
  BY DEF WaitingInv
<1>2. \A f \in waiting' : Complete(f)'
  BY <1>1, FiringKept
<1> QED
  BY <1>2 DEF WaitingInv

-----------------------------------------------------------------------------
(* The fixtures that fire when a frame is seeded: one for each rank *)

LEMMA LeastNat ==
  ASSUME NEW S \in SUBSET Nat, S # {}
  PROVE  \E x \in S : \A y \in S : x <= y
<1>1. PICK x \in S : \A y \in S : ~(<<y, x>> \in OpToRel(<, Nat))
  BY NatLessThanWellFounded, WFMin
<1>2. \A y \in S : ~(y < x)
  BY <1>1 DEF OpToRel
<1> QED
  BY <1>2

LEMMA GreatestNat ==
  ASSUME NEW S \in SUBSET Nat, S # {}, NEW b \in Nat, \A n \in S : n <= b
  PROVE  \E n \in S : \A m \in S : m <= n
<1> DEFINE U == {n \in Nat : \A m \in S : m <= n}
<1>1. PICK x \in U : \A y \in U : x <= y
  <2>1. b \in U
    OBVIOUS
  <2> HIDE DEF U
  <2>2. U \subseteq Nat
    BY DEF U
  <2> QED
    BY <2>1, <2>2, LeastNat
<1>2. x \in Nat /\ \A m \in S : m <= x
  BY <1>1
<1>3. x \in S
  <2>1. SUFFICES ASSUME x \notin S PROVE FALSE
    OBVIOUS
  <2>2. \A m \in S : m <= x - 1
    BY <1>2, <2>1
  <2>3. x - 1 \in Nat
    <3>1. PICK m \in S : m <= x - 1
      BY <2>2
    <3> QED
      BY <1>2, <3>1
  <2>4. x - 1 \in U
    BY <2>2, <2>3
  <2> QED
    BY <1>1, <1>2, <2>4
<1> QED
  BY <1>2, <1>3

LEMMA BelowGreatest ==
  ASSUME NEW b \in Nat, NEW S \in SUBSET (1 .. b), S # {}
  PROVE  \E q \in S : /\ {m \in S : m < q} = S \ {q}
                      /\ IsFiniteSet(S) /\ Cardinality(S) \in Nat
                      /\ Cardinality(S \ {q}) = Cardinality(S) - 1
<1>1. PICK q \in S : \A m \in S : m <= q
  <2>1. S \in SUBSET Nat /\ \A n \in S : n <= b
    OBVIOUS
  <2> QED
    BY <2>1, GreatestNat
<1>2. IsFiniteSet(S)
  <2>1. IsFiniteSet(1 .. b)
    BY FS_Interval
  <2> QED
    BY <2>1, FS_Subset
<1>3. Cardinality(S) \in Nat /\ Cardinality(S \ {q}) = Cardinality(S) - 1
  BY <1>2, FS_CardinalityType, FS_RemoveElement
<1>4. {m \in S : m < q} = S \ {q}
  <2>1. \A m \in S : m < q <=> m # q
    BY <1>1
  <2> QED
    BY <2>1
<1>5. PICK k : k = Cardinality(S) /\ Cardinality(S \ {q}) = k - 1
  BY <1>3
<1> QED
  BY <1>2, <1>3, <1>4, <1>5

LEMMA Ranked ==
  ASSUME NEW b \in Nat, NEW S \in SUBSET (1 .. b), NEW i \in 1 .. Cardinality(S)
  PROVE  \E n \in S : Cardinality({m \in S : m < n}) = i - 1
<1> DEFINE Below(n) == {m \in S : m < n}
           T == {n \in S : Cardinality(Below(n)) >= i - 1}
<1>1. IsFiniteSet(1 .. b)
  BY FS_Interval
<1>2. IsFiniteSet(S)
  BY <1>1, FS_Subset
<1>3. S # {}
  <2>1. Cardinality({}) = 0
    BY FS_EmptySet
  <2> QED
    BY <2>1
<1>4. T # {}
  <2>1. PICK q \in S : Below(q) = S \ {q} /\ Cardinality(S) \in Nat
                       /\ Cardinality(S \ {q}) = Cardinality(S) - 1
    BY <1>3, BelowGreatest
  <2>2. Cardinality(Below(q)) = Cardinality(S) - 1
    BY <2>1
  <2>3. Cardinality(Below(q)) >= i - 1
    <3> HIDE DEF Below
    <3> QED
      BY <2>1, <2>2
  <2> QED
    BY <2>3
<1>5. PICK n \in T : \A y \in T : n <= y
  <2>1. T \subseteq S
    OBVIOUS
  <2> HIDE DEF T
  <2>2. T \in SUBSET Nat
    BY <2>1
  <2> QED
    BY <1>4, <2>2, LeastNat
<1>6. n \in S /\ n \in Nat /\ Cardinality(Below(n)) \in Nat /\ Cardinality(Below(n)) >= i - 1
  <2>1. n \in S /\ n \in Nat /\ Cardinality(Below(n)) >= i - 1
    BY <1>5
  <2>2. IsFiniteSet(Below(n))
    BY <1>2, FS_Subset
  <2>3. Cardinality(Below(n)) \in Nat
    BY <2>2, FS_CardinalityType
  <2> QED
    BY <2>1, <2>3
<1>7. ASSUME Cardinality(Below(n)) # i - 1 PROVE FALSE
  <2>1. Cardinality(Below(n)) >= i
    <3> HIDE DEF Below
    <3> QED
      BY <1>6, <1>7
  <2>2. Below(n) # {}
    <3>1. Cardinality({}) = 0
      BY FS_EmptySet
    <3> HIDE DEF Below
    <3> QED
      BY <2>1, <3>1
  <2>3. Below(n) \in SUBSET (1 .. b)
    OBVIOUS
  <2>4. PICK q \in Below(n) : {m \in Below(n) : m < q} = Below(n) \ {q}
                              /\ Cardinality(Below(n) \ {q}) = Cardinality(Below(n)) - 1
    <3> HIDE DEF Below
    <3> QED
      BY <2>2, <2>3, BelowGreatest
  <2>5. q \in S /\ q \in Nat /\ q < n
    BY <2>4
  <2>6. Below(q) = {m \in Below(n) : m < q}
    <3>1. \A m \in S : m < q => m < n
      BY <1>6, <2>5
    <3> QED
      BY <3>1
  <2>7. Cardinality(Below(q)) >= i - 1
    <3>1. Cardinality(Below(q)) = Cardinality(Below(n)) - 1
      BY <2>4, <2>6
    <3> HIDE DEF Below
    <3> QED
      BY <1>6, <2>1, <3>1
  <2>8. q \in T
    BY <2>5, <2>7
  <2> HIDE DEF T, Below
  <2> QED
    BY <1>5, <1>6, <2>5, <2>8
<1> QED
  BY <1>6, <1>7

LEMMA SeededAreComplete ==
  ASSUME DocInv
  PROVE  /\ \E S : SeededFixtures \in Seq(S) /\ \A f \in S : Complete(f) /\ f.node \in Roots(doc)
         /\ \A i \in DOMAIN SeededFixtures :
              /\ SeededFixtures[i].node \in Roots(doc) /\ KindOf(SeededFixtures[i].node) = "fixture"
              /\ \A j \in DOMAIN SeededFixtures :
                   SeededFixtures[i].node = SeededFixtures[j].node => i = j
<1> DEFINE Sources == {n \in Nodes(doc) : KindOf(n) = "fixture" /\ ~Wired(doc, n, "trigger")}
           Nth(i) == CHOOSE n \in Sources : Cardinality({m \in Sources : m < n}) = i - 1
           c == Cardinality(Sources)
           S == {Firing(n, <<>>) : n \in Sources}
<1>1. SeededFixtures = [i \in 1 .. c |-> Firing(Nth(i), <<>>)]
  BY DEF SeededFixtures
<1>2. PICK b \in Nat : b = Len(doc.kinds) /\ Nodes(doc) = 1 .. b
  BY DEF DocInv, IsDocument, Nodes
<1>3. Sources \in SUBSET (1 .. b)
  BY <1>2
<1>4. ASSUME NEW i \in 1 .. c
      PROVE  Nth(i) \in Sources /\ Cardinality({m \in Sources : m < Nth(i)}) = i - 1
  <2> HIDE DEF Sources
  <2>1. \E n \in Sources : Cardinality({m \in Sources : m < n}) = i - 1
    BY <1>3, Ranked
  <2> QED
    BY <2>1
<1>5. c \in Nat
  <2> HIDE DEF Sources
  <2>1. IsFiniteSet(1 .. b)
    BY FS_Interval
  <2>2. IsFiniteSet(Sources)
    BY <1>3, <2>1, FS_Subset
  <2> QED
    BY <2>2, FS_CardinalityType
<1>6. SeededFixtures \in Seq(S)
  <2> HIDE DEF c, Nth, Sources
  <2>1. \A i \in 1 .. c : Firing(Nth(i), <<>>) \in S
    BY <1>4
  <2> HIDE DEF S
  <2>2. SeededFixtures \in [1 .. c -> S]
    BY <1>1, <2>1
  <2> QED
    BY <1>5, <2>2
<1>7. ASSUME NEW n \in Sources PROVE Complete(Firing(n, <<>>))
  BY DEF Complete, CompleteFiring, Firing, RequiredInputs, Merges, Guards
<1>8. ASSUME NEW n \in Sources PROVE Firing(n, <<>>).node \in Roots(doc)
  BY DEF Firing, Roots, KindOf
<1>9. \A f \in S : Complete(f) /\ f.node \in Roots(doc)
  <2> HIDE DEF Sources
  <2> QED
    BY <1>7, <1>8
<1>10. \A n \in Sources : KindOf(n) = "fixture" /\ n \in Roots(doc)
  BY DEF Roots, KindOf
<1>11. ASSUME NEW i \in DOMAIN SeededFixtures, NEW j \in DOMAIN SeededFixtures
       PROVE  /\ SeededFixtures[i].node \in Sources
              /\ SeededFixtures[i].node = SeededFixtures[j].node => i = j
  <2> HIDE DEF c, Nth, Sources
  <2>1. i \in 1 .. c /\ j \in 1 .. c /\ SeededFixtures[i].node = Nth(i) /\ SeededFixtures[j].node = Nth(j)
    BY <1>1 DEF Firing
  <2>2. Nth(i) = Nth(j) => i - 1 = j - 1
    BY <1>4, <2>1
  <2>3. i \in Nat /\ j \in Nat /\ (i - 1 = j - 1 => i = j)
    BY <1>5, <2>1
  <2>4. Nth(i) \in Sources
    BY <1>4, <2>1
  <2> QED
    BY <2>1, <2>2, <2>3, <2>4
<1> HIDE DEF Sources
<1> QED
  BY <1>6, <1>9, <1>10, <1>11

-----------------------------------------------------------------------------
(* Each step *)

LEMMA GateKept ==
  ASSUME Sound, doc' = doc
  PROVE  GateInv'
BY DEF GateInv, Sound, Nodes, KindOf, InPorts

LEMMA RulesInit == Init => RulesInv
<1> SUFFICES ASSUME Init PROVE RulesInv
  OBVIOUS
<1>1. DocInv
  BY DocInit
<1>2. GateInv /\ queue = <<>> /\ ready = <<>> /\ waiting = {} /\ sent = 0 /\ seen = NoHistory
      /\ slots = [n \in Nodes(doc) |-> <<>>] /\ collected = [n \in Nodes(doc) |-> {}]
  BY DEF Init, GateInv
<1>3. QueueInv
  <2>1. MessageBudget \in Nat
    BY LimitsAssumption
  <2>2. <<>> \in Seq(Delivery) /\ Lined(<<>>, 0)
    BY DEF Lined
  <2> QED
    BY <1>2, <2>1, <2>2 DEF QueueInv
<1>4. ReadyInv /\ WaitingInv
  <2>1. <<>> \in Seq({})
    OBVIOUS
  <2> QED
    BY <1>2, <2>1, SMTT(30) DEF ReadyInv, WaitingInv
<1>5. ASSUME NEW n \in Nodes(doc) PROVE NodeInv(n)
  <2>1. seen.rounds[n] = <<>> /\ slots[n] = <<>> /\ collected[n] = {}
    BY <1>2 DEF NoHistory
  <2>2. RoundsInv(n)
    BY <2>1 DEF RoundsInv
  <2>3. SlotsInv(n)
    BY <2>1 DEF SlotsInv
  <2>4. CollectedInv(n)
    <3>1. Count \in Nat \ {0}
      BY LimitsAssumption
    <3> QED
      BY <2>1, <3>1, FS_EmptySet DEF CollectedInv
  <2> QED
    BY <2>2, <2>3, <2>4 DEF NodeInv
<1>6. FramesInv
  BY <1>2, <1>5 DEF FramesInv, IsSeen, NoHistory
<1> QED
  BY <1>1, <1>2, <1>3, <1>4, <1>6 DEF RulesInv

\* A step that is about no merge and no slot.
LEMMA StepKeeps ==
  ASSUME RulesInv, GateInv', doc' = doc, NEW h, h.rounds = seen.rounds, Leaves(queue, h),
         slots' = slots, collected' = collected, ReadyInv', WaitingInv'
  PROVE  RulesInv'
<1>1. QueueInv' /\ \A m : Old(m) => Old(m)'
  BY OldStaysOld DEF Leaves
<1>2. FramesInv'
  BY <1>1, AllFramesKept DEF RulesInv, Leaves
<1>3. DocInv'
  BY DEF RulesInv, DocInv, IsDocument, Nodes
<1> QED
  BY <1>1, <1>2, <1>3 DEF RulesInv

\* Nothing is sent and nothing is noted.
LEMMA IdleLeaves ==
  ASSUME RulesInv, doc' = doc, UNCHANGED <<queue, sent>>, IsSeen(seen'),
         seen'.rounds = seen.rounds, seen'.served = seen.served
  PROVE  Leaves(queue, seen)
BY QueueAdvances DEF RulesInv, Leaves

LEMMA CheckKeeps ==
  ASSUME RulesInv, Check
  PROVE  RulesInv'
<1>1. /\ doc' = doc /\ ready' = ready /\ slots' = slots /\ collected' = collected
      /\ UNCHANGED <<queue, sent>> /\ seen' = seen /\ waiting' = waiting
  BY DEF Check, inputVars, taskVars, frameVars
<1>2. GateInv'
  <2>1. CASE Blocks(RunDiagnostics(doc, Entry, workspace.refs, workspace.onDisk))
    BY <2>1 DEF Check, GateInv
  <2>2. CASE ~Blocks(RunDiagnostics(doc, Entry, workspace.refs, workspace.onDisk))
    <3>1. Sound
      BY <2>2, GateIsSound DEF RulesInv, DocInv
    <3> QED
      BY <1>1, <3>1, GateKept
  <2> QED
    BY <2>1, <2>2
<1>3. Leaves(queue, seen)
  BY <1>1, IdleLeaves DEF RulesInv, FramesInv
<1>4. ReadyInv' /\ WaitingInv'
  BY <1>1, ReadyKept, WaitingKept DEF RulesInv
<1> QED
  BY <1>1, <1>2, <1>3, <1>4, StepKeeps

LEMMA SeedKeeps ==
  ASSUME RulesInv, Seed
  PROVE  RulesInv'
<1>1. /\ doc' = doc /\ slots' = slots /\ collected' = collected /\ waiting' = waiting
      /\ ready' = SeededFixtures /\ phase = "bound"
  BY DEF Seed, inputVars, frameVars
<1>2. PICK start : Emit(start, "out", queue, Reaches(start), TRUE)
  BY DEF Seed
<1>3. GateInv'
  BY <1>1, GateKept DEF RulesInv, GateInv
<1>4. /\ IsSeen(Reaches(start)) /\ Reaches(start).rounds = seen.rounds
  BY ReachesIsSeen DEF RulesInv, FramesInv
<1>5. Leaves(queue, Reaches(start))
  BY <1>1, <1>2, <1>4, EmitKeeps DEF RulesInv, QueueInv
<1>6. ReadyInv'
  <2>1. PICK S : SeededFixtures \in Seq(S) /\ \A f \in S : Complete(f)
    BY SeededAreComplete DEF RulesInv
  <2>2. \A f \in S : Complete(f)'
    BY <1>1, <2>1, FiringKept
  <2> QED
    BY <1>1, <2>1, <2>2 DEF ReadyInv
<1>7. WaitingInv'
  BY <1>1, WaitingKept DEF RulesInv
<1> QED
  BY <1>1, <1>3, <1>4, <1>5, <1>6, <1>7, StepKeeps

LEMMA StartKeeps ==
  ASSUME RulesInv, Start
  PROVE  RulesInv'
<1>1. /\ doc' = doc /\ slots' = slots /\ collected' = collected /\ phase = "running"
      /\ ready # <<>> /\ ready' = Tail(ready)
  BY DEF Start, inputVars
<1>2. PICK f : f = Head(ready)
  OBVIOUS
<1>3. ReadyInv' /\ Complete(f)
  BY <1>1, <1>2, ReadyStarts DEF RulesInv
<1>4. GateInv'
  BY <1>1, GateKept DEF RulesInv, GateInv
<1>5. PICK n : n = f.node
  OBVIOUS
<1>6. /\ IsSeen(Reaches(n)) /\ Reaches(n).rounds = seen.rounds
  BY ReachesIsSeen DEF RulesInv, FramesInv
<1>7. DocInv /\ QueueInv /\ sent \in 0 .. MessageBudget /\ queue \in Seq(Delivery) /\ Lined(queue, sent)
      /\ WaitingInv
  BY DEF RulesInv, QueueInv
<1>8. NodeError(n, Reaches(n)) => Leaves(queue, Reaches(n))
  BY <1>1, <1>6, <1>7, NodeErrorKeeps
<1>9. CASE RunsAtOnce(f)
  <2>1. waiting' = waiting
    BY <1>9 DEF RunsAtOnce
  <2>2. (\E port : Emit(n, port, queue, Reaches(n), TRUE)) \/ NodeError(n, Reaches(n))
    BY <1>5, <1>9 DEF RunsAtOnce
  <2>3. Leaves(queue, Reaches(n))
    BY <1>1, <1>6, <1>7, <1>8, <2>2, EmitKeeps
  <2>4. WaitingInv'
    BY <1>1, <1>7, <2>1, WaitingKept
  <2> QED
    BY <1>1, <1>3, <1>4, <1>6, <2>3, <2>4, StepKeeps
<1>10. CASE RunsFixture(f)
  <2>1. waiting' = waiting /\ LoadFixture(n)
    BY <1>5, <1>10 DEF RunsFixture
  <2>2. WaitingInv'
    BY <1>1, <1>7, <2>1, WaitingKept
  <2>3. ASSUME NEW v, Serves(n, v) PROVE RulesInv'
    <3>1. PICK h : h = [Reaches(n) EXCEPT !.served = @ \cup {v}]
      OBVIOUS
    <3>2. IsSeen(h) /\ h.rounds = seen.rounds
      BY <1>6, <3>1 DEF IsSeen
    <3>3. Emit(n, "value", queue, h, TRUE)
      BY <2>3, <3>1 DEF Serves
    <3>4. Leaves(queue, h)
      BY <1>1, <1>7, <3>2, <3>3, EmitKeeps
    <3> QED
      BY <1>1, <1>3, <1>4, <2>2, <3>2, <3>4, StepKeeps
  <2>4. CASE NodeError(n, Reaches(n))
    BY <1>1, <1>3, <1>4, <1>6, <1>8, <2>2, <2>4, StepKeeps
  <2>5. CASE Crashes(n)
    <3>1. UNCHANGED <<queue, sent>> /\ seen' = Reaches(n)
      BY <2>5 DEF Crashes
    <3>2. Leaves(queue, seen)
      BY <1>1, <3>1, IdleLeaves, ReachesIsSeen DEF RulesInv, FramesInv
    <3> QED
      BY <1>1, <1>3, <1>4, <2>2, <3>2, StepKeeps
  <2> QED
    BY <2>1, <2>3, <2>4, <2>5 DEF LoadFixture
<1>11. CASE BeginsToWait(f)
  <2>1. UNCHANGED <<queue, sent>> /\ seen' = Reaches(n) /\ waiting' = waiting \cup {f}
    BY <1>5, <1>11 DEF BeginsToWait
  <2>2. Leaves(queue, seen)
    BY <1>1, <2>1, IdleLeaves, ReachesIsSeen DEF RulesInv, FramesInv
  <2>3. WaitingInv'
    BY <1>1, <1>3, <1>7, <2>1, WaitingKept
  <2> QED
    BY <1>1, <1>3, <1>4, <2>2, <2>3, StepKeeps
<1> QED
  BY <1>2, <1>9, <1>10, <1>11 DEF Start

LEMMA ResumeKeeps ==
  ASSUME RulesInv, Resume
  PROVE  RulesInv'
<1>1. /\ doc' = doc /\ slots' = slots /\ collected' = collected /\ phase = "running" /\ ready' = ready
  BY DEF Resume, inputVars, frameVars
<1>2. PICK f \in waiting : Returns(f) \/ Breaks(f) \/ Retries(f)
  BY DEF Resume
<1>3. GateInv'
  BY <1>1, GateKept DEF RulesInv, GateInv
<1>4. DocInv /\ QueueInv /\ sent \in 0 .. MessageBudget /\ queue \in Seq(Delivery) /\ Lined(queue, sent)
      /\ IsSeen(seen) /\ Complete(f)
  BY DEF RulesInv, QueueInv, FramesInv, WaitingInv
<1>5. ReadyInv'
  BY <1>1, ReadyKept DEF RulesInv
<1>6. WaitingInv'
  <2>1. ASSUME NEW g \in waiting' \ waiting PROVE Complete(g)
    <3>1. g = [f EXCEPT !.attempt = @ + 1]
      BY <1>2 DEF Returns, Breaks, Retries
    <3>2. g = [node |-> f.node, values |-> f.values, attempt |-> f.attempt + 1]
      BY <1>4, <3>1 DEF Complete
    <3> QED
      BY <1>4, <3>2 DEF Complete, CompleteFiring
  <2> QED
    BY <1>1, <2>1, WaitingKept DEF RulesInv
<1>7. Leaves(queue, seen)
  <2>1. CASE Returns(f)
    BY <1>1, <1>4, <2>1, EmitKeeps DEF Returns
  <2>2. CASE Breaks(f)
    BY <1>1, <1>4, <2>2, NodeErrorKeeps DEF Breaks
  <2>3. CASE Retries(f)
    BY <1>1, <1>4, <2>3, IdleLeaves DEF Retries
  <2> QED
    BY <1>2, <2>1, <2>2, <2>3
<1> QED
  BY <1>1, <1>3, <1>5, <1>6, <1>7, StepKeeps

LEMMA RestKeeps ==
  ASSUME RulesInv, FileChanges \/ GoesQuiet \/ UNCHANGED vars
  PROVE  RulesInv'
<1>1. /\ doc' = doc /\ ready' = ready /\ slots' = slots /\ collected' = collected
      /\ UNCHANGED <<queue, sent>> /\ seen' = seen /\ waiting' = waiting
  BY DEF FileChanges, GoesQuiet, vars, inputVars, taskVars, frameVars
<1>2. GateInv'
  <2>1. CASE phase = "running"
    BY <1>1, <2>1, GateKept DEF RulesInv, GateInv
  <2>2. CASE UNCHANGED vars
    BY <1>1, <2>2 DEF RulesInv, GateInv, vars, Sound, Nodes, KindOf, InPorts
  <2> QED
    BY <2>1, <2>2 DEF FileChanges, GoesQuiet
<1>3. Leaves(queue, seen)
  BY <1>1, IdleLeaves DEF RulesInv, FramesInv
<1>4. ReadyInv' /\ WaitingInv'
  BY <1>1, ReadyKept, WaitingKept DEF RulesInv
<1> QED
  BY <1>1, <1>2, <1>3, <1>4, StepKeeps

-----------------------------------------------------------------------------
(* A delivery *)

\* What dispatching the head of the queue leaves for the node it goes to.
LEMMA DispatchLeaves ==
  ASSUME RulesInv, queue # <<>>, NEW d, d = Head(queue), NEW h, Leaves(Tail(queue), h)
  PROVE  QueueInv' /\ (\A m : Old(m) => Old(m)') /\ Old(d.message)'
<1>1. /\ Before(d.message, Tail(queue), sent)
      /\ \A m : Old(m) => Before(m, Tail(queue), sent)
  BY Popped DEF RulesInv
<1> QED
  BY <1>1 DEF Leaves, Advances

LEMMA NodeReceives ==
  ASSUME RulesInv, Sound, doc' = doc, queue # <<>>, NEW n \in Nodes(doc), NEW h, Leaves(Tail(queue), h),
         DOMAIN h.rounds = Nodes(doc), \A k \in Nodes(doc) \ {n} : h.rounds[k] = seen.rounds[k],
         slots' = slots \/ (\E v : slots' = Set(slots, n, v)),
         collected' = collected \/ (\E v : collected' = Set(collected, n, v)),
         NodeInv(n)', ReadyInv', waiting' = waiting
  PROVE  RulesInv'
<1>1. QueueInv' /\ \A m : Old(m) => Old(m)'
  BY DispatchLeaves
<1>2. /\ DOMAIN slots' = Nodes(doc) /\ DOMAIN collected' = Nodes(doc)
      /\ \A k \in Nodes(doc) \ {n} : slots'[k] = slots[k] /\ collected'[k] = collected[k]
  BY DEF RulesInv, FramesInv, Set
<1>3. FramesInv'
  BY <1>1, <1>2, FramesKept DEF RulesInv, Leaves
<1>4. DocInv'
  BY DEF RulesInv, DocInv, IsDocument, Nodes
<1>5. WaitingInv'
  BY WaitingKept DEF RulesInv
<1> QED
  BY <1>1, <1>3, <1>4, <1>5, GateKept DEF RulesInv

\* Nothing is sent: the queue is what was behind the delivery.
LEMMA AbsorbingLeaves ==
  ASSUME RulesInv, doc' = doc, queue # <<>>, queue' = Tail(queue), sent' = sent, IsSeen(seen'),
         seen'.rounds = seen.rounds, seen'.served = seen.served
  PROVE  Leaves(Tail(queue), seen)
<1>1. Tail(queue) \in Seq(Delivery) /\ Lined(Tail(queue), sent) /\ sent \in 0 .. MessageBudget
  BY Popped DEF RulesInv, QueueInv
<1> QED
  BY <1>1, KeepingAdvances DEF Leaves

LEMMA SendingLeaves ==
  ASSUME RulesInv, doc' = doc, queue # <<>>, NEW n, NEW port, NEW h, IsSeen(h), NEW caught,
         Emit(n, port, Tail(queue), h, caught)
  PROVE  Leaves(Tail(queue), h)
<1>1. Tail(queue) \in Seq(Delivery) /\ Lined(Tail(queue), sent) /\ sent \in 0 .. MessageBudget
  BY Popped DEF RulesInv, QueueInv
<1> QED
  BY <1>1, EmitKeeps DEF RulesInv

\* A round that is emitted is noted, at its node only.
Noted(n, round) == [Reaches(n) EXCEPT !.rounds[n] = Append(@, round)]

LEMMA RoundIsNoted ==
  ASSUME RulesInv, NEW n \in Nodes(doc), NEW round, NEW h, h = Noted(n, round)
  PROVE  /\ IsSeen(h) /\ DOMAIN h.rounds = Nodes(doc) /\ h.served = seen.served
         /\ h.rounds[n] = Append(seen.rounds[n], round)
         /\ \A k \in Nodes(doc) \ {n} : h.rounds[k] = seen.rounds[k]
<1>1. /\ IsSeen(Reaches(n)) /\ Reaches(n).rounds = seen.rounds /\ Reaches(n).served = seen.served
      /\ DOMAIN seen.rounds = Nodes(doc)
  BY ReachesIsSeen DEF RulesInv, FramesInv
<1>2. h = [Reaches(n) EXCEPT !.rounds = [seen.rounds EXCEPT ![n] = Append(seen.rounds[n], round)]]
  BY <1>1 DEF Noted
<1>3. PICK rs : rs = [seen.rounds EXCEPT ![n] = Append(seen.rounds[n], round)]
  OBVIOUS
<1>4. /\ DOMAIN rs = Nodes(doc) /\ rs[n] = Append(seen.rounds[n], round)
      /\ \A k \in Nodes(doc) \ {n} : rs[k] = seen.rounds[k]
  BY <1>1, <1>3
<1>5. h = [reached |-> Reaches(n).reached, rounds |-> rs, unhandled |-> Reaches(n).unhandled,
           served |-> Reaches(n).served]
  BY <1>1, <1>2, <1>3 DEF IsSeen
<1>6. IsSeen(h) /\ h.rounds = rs /\ h.served = seen.served
  BY ONLY <1>1, <1>5 DEF IsSeen
<1> QED
  BY ONLY <1>4, <1>6

\* The facts about the delivery d at the head that every dispatch starts from.
Arrives(d) ==
  /\ RulesInv /\ Sound /\ doc' = doc /\ queue # <<>> /\ d = Head(queue) /\ waiting' = waiting
  /\ d.to \in Nodes(doc) /\ d.in \in InPorts(doc, d.to) /\ d.message \in Message
  /\ Came(d.message, d.to, d.in) /\ NodeInv(d.to)
  /\ \A m : Old(m) => m.id < d.message.id

LEMMA EndKeeps ==
  ASSUME NEW d, Arrives(d), ToEnd(d)
  PROVE  RulesInv'
<1>1. /\ queue' = Tail(queue) /\ seen' = Reaches(d.to) /\ sent' = sent /\ ready' = ready
      /\ slots' = slots /\ collected' = collected
  BY DEF ToEnd, frameVars
<1>2. IsSeen(seen') /\ seen'.rounds = seen.rounds /\ seen'.served = seen.served
      /\ DOMAIN seen.rounds = Nodes(doc)
  BY <1>1, ReachesIsSeen DEF Arrives, RulesInv, FramesInv
<1>3. Leaves(Tail(queue), seen)
  BY <1>1, <1>2, AbsorbingLeaves DEF Arrives
<1>4. \A m : Old(m) => Old(m)'
  BY <1>3, DispatchLeaves DEF Arrives
<1>5. NodeInv(d.to)'
  BY <1>1, <1>2, <1>4, NodeKept DEF Arrives
<1>6. ReadyInv'
  BY <1>1, ReadyKept DEF Arrives, RulesInv
<1> QED
  BY <1>1, <1>2, <1>3, <1>5, <1>6, NodeReceives DEF Arrives

LEMMA AnyKeeps ==
  ASSUME NEW d, Arrives(d), ToAny(d)
  PROVE  RulesInv'
<1>1. PICK n \in Nodes(doc) : n = d.to
  BY DEF Arrives
<1>2. PICK h : h = Noted(n, {d.message})
  OBVIOUS
<1>3. /\ Emit(n, "out", Tail(queue), h, TRUE) /\ KindOf(n) = "any"
      /\ slots' = slots /\ collected' = collected /\ ready' = ready
  BY <1>1, <1>2 DEF ToAny, MergeEmits, Noted, frameVars
<1>4. /\ IsSeen(h) /\ DOMAIN h.rounds = Nodes(doc) /\ h.rounds[n] = Append(seen.rounds[n], {d.message})
      /\ \A k \in Nodes(doc) \ {n} : h.rounds[k] = seen.rounds[k]
  <2>1. RulesInv
    BY DEF Arrives
  <2> QED
    BY <1>2, <2>1, RoundIsNoted
<1>5. Leaves(Tail(queue), h)
  BY <1>3, <1>4, SendingLeaves DEF Arrives
<1>6. (\A m : Old(m) => Old(m)') /\ Old(d.message)'
  BY <1>5, DispatchLeaves DEF Arrives
<1>7. RoundsInv(n)'
  <2>1. {d.message} \in SUBSET Message /\ Cardinality({d.message}) = Size(n) /\ RoundsInv(n)
    BY <1>1, <1>3, FS_Singleton DEF Arrives, Size, NodeInv
  <2>2. After(n, d.message)
    BY <1>1, <2>1, ComesAfter DEF Arrives
  <2>3. seen'.rounds[n] = Append(seen.rounds[n], {d.message})
    BY <1>4, <1>5 DEF Leaves
  <2> QED
    BY <1>6, <2>1, <2>2, <2>3, RoundAdded DEF Arrives
<1>8. NodeInv(n)'
  BY <1>1, <1>3, <1>6, <1>7, SlotsKept, CollectedKept DEF Arrives, NodeInv
<1>9. ReadyInv'
  BY <1>3, ReadyKept DEF Arrives, RulesInv
<1> QED
  BY <1>3, <1>4, <1>5, <1>8, <1>9, NodeReceives DEF Arrives

LEMMA GuardKeeps ==
  ASSUME NEW d, Arrives(d), ToGuard(d)
  PROVE  RulesInv'
<1>1. PICK n \in Nodes(doc) : n = d.to
  BY DEF Arrives
<1>2. ready' = ready /\ slots' = slots /\ collected' = collected
  BY DEF ToGuard
<1>3. IsSeen(seen) /\ DOMAIN seen.rounds = Nodes(doc)
  BY DEF Arrives, RulesInv, FramesInv
<1>4. Leaves(Tail(queue), seen)
  <2>1. CASE Absorbs
    BY <1>3, <2>1, AbsorbingLeaves DEF Arrives, Absorbs
  <2>2. ASSUME NEW left, NEW port, Passes(n, left, port, d) PROVE Leaves(Tail(queue), seen)
    <3>1. Leaves(Tail(queue), Reaches(n))
      BY <1>3, <2>2, SendingLeaves, ReachesIsSeen DEF Arrives, Passes
    <3> QED
      BY <1>3, <3>1, ReachesIsSeen DEF Leaves
  <2> QED
    BY <1>1, <2>1, <2>2 DEF ToGuard, Counts, Clocks
<1>5. (\A m : Old(m) => Old(m)')
  BY <1>4, DispatchLeaves DEF Arrives
<1>6. NodeInv(n)'
  BY <1>1, <1>2, <1>4, <1>5, NodeKept DEF Arrives, Leaves
<1>7. ReadyInv'
  BY <1>2, ReadyKept DEF Arrives, RulesInv
<1> QED
  BY <1>2, <1>3, <1>4, <1>6, <1>7, NodeReceives DEF Arrives

\* What Arrives says, where its parts are needed one by one.
LEMMA ArrivesHolds ==
  ASSUME NEW d, Arrives(d)
  PROVE  /\ RulesInv /\ Sound /\ doc' = doc /\ queue # <<>> /\ d = Head(queue) /\ waiting' = waiting
         /\ d.to \in Nodes(doc) /\ d.in \in InPorts(doc, d.to) /\ d.message \in Message
         /\ Came(d.message, d.to, d.in) /\ \A m : Old(m) => m.id < d.message.id
         /\ DocInv /\ QueueInv /\ FramesInv /\ ReadyInv /\ NodeInv(d.to)
         /\ IsSeen(seen) /\ DOMAIN seen.rounds = Nodes(doc)
         /\ DOMAIN slots = Nodes(doc) /\ DOMAIN collected = Nodes(doc)
BY DEF Arrives, RulesInv, FramesInv

LEMMA ArrivalFills ==
  ASSUME NEW d, Arrives(d), NEW filled, filled = Filled(d.to, d.in, d.message)
  PROVE  IsFilled(d.to, d.message, filled) /\ DOMAIN filled = DOMAIN slots[d.to] \cup {d.in}
<1>1. PICK n \in Nodes(doc), port \in InPorts(doc, d.to), m \in Message :
        n = d.to /\ port = d.in /\ m = d.message
  BY DEF Arrives
<1>2. NodeInv(n) /\ port \in InPorts(doc, n) /\ Came(m, n, port) /\ \A k : Old(k) => k.id < m.id
  BY <1>1 DEF Arrives
<1>3. filled = Filled(n, port, m)
  BY <1>1
<1>4. IsFilled(n, m, filled) /\ DOMAIN filled = DOMAIN slots[n] \cup {port}
  BY <1>2, <1>3, FilledHolds
<1> QED
  BY <1>1, <1>4

\* The slots of a node are set to what has come to it.
LEMMA SlotsFilled ==
  ASSUME doc' = doc, NEW n \in DOMAIN slots, NEW m, NEW filled, IsFilled(n, m, filled),
         \A k : Old(k) => Old(k)', Old(m)', slots' = Set(slots, n, filled),
         seen'.rounds[n] = seen.rounds[n]
  PROVE  SlotsInv(n)'
<1>1. slots'[n] = filled
  BY DEF Set
<1>2. /\ KindOf(n)' = KindOf(n) /\ Message' = Message /\ InPorts(doc, n)' = InPorts(doc, n)
      /\ \A x, p : Came(x, n, p) => Came(x, n, p)'
      /\ \A x : After(n, x) => After(n, x)'
  BY DEF KindOf, Message, Nodes, InPorts, Came, After
<1>3. /\ DOMAIN filled \subseteq InPorts(doc, n)
      /\ \A p \in DOMAIN filled :
           /\ filled[p] \in Message /\ Came(filled[p], n, p)' /\ Old(filled[p])'
           /\ KindOf(n) = "all" => After(n, filled[p])'
      /\ \A p, q \in DOMAIN filled : p # q => filled[p].id # filled[q].id
  BY <1>2 DEF IsFilled
<1> QED
  BY <1>1, <1>2, <1>3 DEF SlotsInv

LEMMA PortsAreFinite ==
  ASSUME DocInv, NEW n
  PROVE  IsFiniteSet(InPorts(doc, n))
<1> DEFINE E == {e \in doc.edges : e.to = n}
           g == [e \in E |-> e.in]
<1>1. IsFiniteSet(E)
  BY FS_Subset DEF DocInv, IsDocument
<1>2. g \in Surjection(E, InPorts(doc, n))
  BY DEF Surjection, InPorts
<1> HIDE DEF E, g
<1> QED
  BY <1>1, <1>2, FS_Surjection

\* A round of mode `all` has one message from each port.
LEMMA FullRound ==
  ASSUME DocInv, NEW n, NEW m, NEW filled, IsFilled(n, m, filled), DOMAIN filled = InPorts(doc, n)
  PROVE  Cardinality({filled[p] : p \in DOMAIN filled}) = Cardinality(InPorts(doc, n))
<1> DEFINE P == InPorts(doc, n)
           R == {filled[p] : p \in P}
           f == [p \in P |-> filled[p]]
<1>1. IsFiniteSet(P)
  BY PortsAreFinite
<1>2. \A p, q \in P : p # q => filled[p] # filled[q]
  BY DEF IsFilled
<1> HIDE DEF P
<1>3. f \in Surjection(P, R) /\ f \in Injection(P, R)
  BY <1>2 DEF Surjection, Injection, IsInjective
<1> HIDE DEF f, R
<1>4. Cardinality(R) = Cardinality(P)
  BY <1>1, <1>3, FS_Surjection
<1> QED
  BY <1>4 DEF P, R

LEMMA AllKeeps ==
  ASSUME NEW d, Arrives(d), ToAll(d)
  PROVE  RulesInv'
<1>1. PICK n \in Nodes(doc), m \in Message : n = d.to /\ m = d.message
  BY DEF Arrives
<1>2. PICK filled : filled = Filled(d.to, d.in, d.message)
  OBVIOUS
<1>3. IsFilled(n, m, filled)
  BY <1>1, <1>2, ArrivalFills
<1>4. /\ RulesInv /\ Sound /\ doc' = doc /\ queue # <<>> /\ d = Head(queue) /\ waiting' = waiting
      /\ DocInv /\ NodeInv(n) /\ DOMAIN seen.rounds = Nodes(doc) /\ DOMAIN slots = Nodes(doc)
      /\ IsSeen(seen) /\ ReadyInv
  BY <1>1, ArrivesHolds
<1>5. KindOf(n) = "all" /\ ready' = ready /\ collected' = collected
  BY <1>1 DEF ToAll
<1>6. ReadyInv'
  BY <1>4, <1>5, ReadyKept
<1>7. CASE DOMAIN filled # InPorts(doc, n)
  <2>1. Absorbs /\ slots' = Set(slots, n, filled)
    BY <1>1, <1>2, <1>7 DEF ToAll
  <2>2. Leaves(Tail(queue), seen)
    BY <1>4, <2>1, AbsorbingLeaves DEF Absorbs
  <2>3. (\A k : Old(k) => Old(k)') /\ Old(m)' /\ seen' = seen
    BY <1>1, <1>4, <2>1, <2>2, DispatchLeaves DEF Absorbs
  <2>4. RoundsInv(n)' /\ CollectedInv(n)'
    BY <1>4, <1>5, <2>3, RoundsKept, CollectedKept DEF NodeInv
  <2>5. SlotsInv(n)'
    BY <1>3, <1>4, <2>1, <2>3, SlotsFilled
  <2>6. NodeInv(n)'
    BY <2>4, <2>5 DEF NodeInv
  <2> QED
    BY <1>4, <1>5, <1>6, <2>1, <2>2, <2>6, NodeReceives
<1>8. CASE DOMAIN filled = InPorts(doc, n)
  <2>1. PICK round : round = {filled[p] : p \in DOMAIN filled}
    OBVIOUS
  <2>2. PICK h : h = Noted(n, round)
    OBVIOUS
  <2>3. Emit(n, "out", Tail(queue), h, TRUE) /\ slots' = Set(slots, n, <<>>)
    BY <1>1, <1>2, <1>8, <2>1, <2>2 DEF ToAll, MergeEmits, Noted, AfterRound
  <2>4. /\ IsSeen(h) /\ DOMAIN h.rounds = Nodes(doc) /\ h.rounds[n] = Append(seen.rounds[n], round)
        /\ \A k \in Nodes(doc) \ {n} : h.rounds[k] = seen.rounds[k]
    BY <1>4, <2>2, RoundIsNoted
  <2>5. Leaves(Tail(queue), h)
    BY <1>4, <2>3, <2>4, SendingLeaves
  <2>6. (\A k : Old(k) => Old(k)') /\ Old(m)'
    BY <1>1, <1>4, <2>5, DispatchLeaves
  <2>7. RoundsInv(n)'
    <3>1. round \in SUBSET Message /\ \A x \in round : After(n, x) /\ Old(x)'
      BY <1>3, <1>5, <2>1, <2>6 DEF IsFilled
    <3>2. Cardinality(round) = Size(n)
      BY <1>3, <1>4, <1>5, <1>8, <2>1, FullRound DEF Size
    <3>3. seen'.rounds[n] = Append(seen.rounds[n], round)
      BY <2>4, <2>5 DEF Leaves
    <3> QED
      BY <1>4, <2>6, <3>1, <3>2, <3>3, RoundAdded DEF NodeInv
  <2>8. SlotsInv(n)'
    <3>1. slots'[n] = <<>>
      BY <1>4, <2>3 DEF Set
    <3> QED
      BY <3>1 DEF SlotsInv
  <2>9. CollectedInv(n)'
    BY <1>4, <1>5, <2>6, CollectedKept DEF NodeInv
  <2>10. NodeInv(n)'
    BY <2>7, <2>8, <2>9 DEF NodeInv
  <2> QED
    BY <1>4, <1>5, <1>6, <2>3, <2>4, <2>5, <2>10, NodeReceives
<1> QED
  BY <1>7, <1>8

LEMMA CollectKeeps ==
  ASSUME NEW d, Arrives(d), ToCollect(d)
  PROVE  RulesInv'
<1>1. PICK n \in Nodes(doc), m \in Message : n = d.to /\ m = d.message
  BY DEF Arrives
<1>2. PICK bucket : bucket = collected[n] \cup {m}
  OBVIOUS
<1>3. /\ RulesInv /\ Sound /\ doc' = doc /\ queue # <<>> /\ d = Head(queue) /\ waiting' = waiting
      /\ DocInv /\ NodeInv(n) /\ DOMAIN seen.rounds = Nodes(doc) /\ DOMAIN collected = Nodes(doc)
      /\ IsSeen(seen) /\ ReadyInv /\ \A k : Old(k) => k.id < m.id
  BY <1>1, ArrivesHolds
<1>4. KindOf(n) = "collect" /\ ready' = ready /\ slots' = slots
  BY <1>1 DEF ToCollect
<1>5. ReadyInv'
  BY <1>3, <1>4, ReadyKept
<1>6. /\ bucket \in SUBSET Message /\ IsFiniteSet(bucket) /\ Cardinality(bucket) \in Nat
      /\ Cardinality(bucket) <= Count /\ \A x \in bucket : After(n, x) /\ (x = m \/ Old(x))
  <2>1. /\ collected[n] \in SUBSET Message /\ IsFiniteSet(collected[n]) /\ Cardinality(collected[n]) < Count
        /\ \A x \in collected[n] : Old(x) /\ After(n, x)
    BY <1>3 DEF NodeInv, CollectedInv
  <2>2. After(n, m)
    BY <1>3, ComesAfter DEF NodeInv
  <2>3. PICK k \in Nat : k = Cardinality(collected[n])
    BY <2>1, FS_CardinalityType
  <2>4. IsFiniteSet(bucket) /\ Cardinality(bucket) = IF m \in collected[n] THEN k ELSE k + 1
    BY <1>2, <2>1, <2>3, FS_AddElement
  <2>5. Count \in Nat
    BY LimitsAssumption
  <2>6. Cardinality(bucket) \in Nat /\ Cardinality(bucket) <= Count
    BY <2>1, <2>3, <2>4, <2>5
  <2> QED
    BY <1>2, <2>1, <2>2, <2>4, <2>6
<1>7. CASE Cardinality(bucket) < Count
  <2>1. Absorbs /\ collected' = Set(collected, n, bucket)
    BY <1>1, <1>2, <1>7 DEF ToCollect
  <2>2. Leaves(Tail(queue), seen)
    BY <1>3, <2>1, AbsorbingLeaves DEF Absorbs
  <2>3. (\A k : Old(k) => Old(k)') /\ Old(m)' /\ seen' = seen
    BY <1>1, <1>3, <2>1, <2>2, DispatchLeaves DEF Absorbs
  <2>4. RoundsInv(n)' /\ SlotsInv(n)'
    BY <1>3, <1>4, <2>3, RoundsKept, SlotsKept DEF NodeInv
  <2>5. CollectedInv(n)'
    <3>1. collected'[n] = bucket
      BY <1>3, <2>1 DEF Set
    <3>2. \A x \in bucket : Old(x)' /\ After(n, x)'
      BY <1>6, <2>3 DEF After
    <3>3. KindOf(n)' = KindOf(n) /\ Message' = Message
      BY <1>3 DEF KindOf, Message, Nodes
    <3> QED
      BY <1>4, <1>6, <1>7, <3>1, <3>2, <3>3 DEF CollectedInv
  <2>6. NodeInv(n)'
    BY <2>4, <2>5 DEF NodeInv
  <2> QED
    BY <1>3, <1>4, <1>5, <2>1, <2>2, <2>6, NodeReceives
<1>8. CASE ~(Cardinality(bucket) < Count)
  <2>1. Count \in Nat \ {0}
    BY LimitsAssumption
  <2>2. PICK h : h = Noted(n, bucket)
    OBVIOUS
  <2>3. Emit(n, "out", Tail(queue), h, TRUE) /\ collected' = Set(collected, n, {})
    BY <1>1, <1>2, <1>8, <2>2 DEF ToCollect, MergeEmits, Noted
  <2>4. /\ IsSeen(h) /\ DOMAIN h.rounds = Nodes(doc) /\ h.rounds[n] = Append(seen.rounds[n], bucket)
        /\ \A k \in Nodes(doc) \ {n} : h.rounds[k] = seen.rounds[k]
    BY <1>3, <2>2, RoundIsNoted
  <2>5. Leaves(Tail(queue), h)
    BY <1>3, <2>3, <2>4, SendingLeaves
  <2>6. (\A k : Old(k) => Old(k)') /\ Old(m)'
    BY <1>1, <1>3, <2>5, DispatchLeaves
  <2>7. RoundsInv(n)'
    <3>1. Cardinality(bucket) = Count
      BY <1>6, <1>8, <2>1
    <3>2. Cardinality(bucket) = Size(n)
      BY <1>4, <3>1 DEF Size
    <3>3. seen'.rounds[n] = Append(seen.rounds[n], bucket)
      BY <2>4, <2>5 DEF Leaves
    <3>4. \A x \in bucket : After(n, x) /\ Old(x)'
      BY <1>6, <2>6
    <3> QED
      BY <1>3, <1>6, <2>6, <3>2, <3>3, <3>4, RoundAdded DEF NodeInv
  <2>8. CollectedInv(n)'
    <3>1. collected'[n] = {}
      BY <1>3, <2>3 DEF Set
    <3> QED
      BY <2>1, <3>1, FS_EmptySet DEF CollectedInv
  <2>9. SlotsInv(n)'
    BY <1>3, <1>4, <2>6, SlotsKept DEF NodeInv
  <2>10. NodeInv(n)'
    BY <2>7, <2>8, <2>9 DEF NodeInv
  <2> QED
    BY <1>3, <1>4, <1>5, <2>3, <2>4, <2>5, <2>10, NodeReceives
<1> QED
  BY <1>7, <1>8

LEMMA TaskKeeps ==
  ASSUME NEW d, Arrives(d), ToTask(d)
  PROVE  RulesInv'
<1>1. PICK n \in Nodes(doc), m \in Message : n = d.to /\ m = d.message
  BY DEF Arrives
<1>2. PICK filled : filled = Filled(d.to, d.in, d.message)
  OBVIOUS
<1>3. IsFilled(n, m, filled) /\ d.in \in DOMAIN filled /\ d.in \in InPorts(doc, n)
  BY <1>1, <1>2, ArrivalFills, ArrivesHolds
<1>4. /\ RulesInv /\ Sound /\ doc' = doc /\ queue # <<>> /\ d = Head(queue) /\ waiting' = waiting
      /\ DocInv /\ NodeInv(n) /\ DOMAIN seen.rounds = Nodes(doc) /\ DOMAIN slots = Nodes(doc)
      /\ IsSeen(seen) /\ ReadyInv
  BY <1>1, ArrivesHolds
<1>5. PICK several \in BOOLEAN : several <=> Cardinality(InPorts(doc, n)) > 1
  OBVIOUS
<1>6. /\ queue' = Tail(queue) /\ sent' = sent /\ seen' = seen /\ collected' = collected
      /\ slots' = IF several THEN Set(slots, n, filled) ELSE slots
      /\ ready' = IF several /\ DOMAIN filled # InPorts(doc, n) THEN ready
                  ELSE Append(ready, Firing(n, filled))
  BY <1>1, <1>2, <1>5 DEF ToTask
<1>7. Leaves(Tail(queue), seen)
  BY <1>4, <1>6, AbsorbingLeaves
<1>8. (\A k : Old(k) => Old(k)') /\ Old(m)'
  BY <1>1, <1>4, <1>7, DispatchLeaves
<1>9. RoundsInv(n)' /\ CollectedInv(n)'
  BY <1>4, <1>6, <1>8, RoundsKept, CollectedKept DEF NodeInv
<1>10. SlotsInv(n)'
  <2>1. CASE several
    BY <1>3, <1>4, <1>6, <1>8, <2>1, SlotsFilled
  <2>2. CASE ~several
    BY <1>4, <1>6, <1>8, <2>2, SlotsKept DEF NodeInv
  <2> QED
    BY <2>1, <2>2
<1>11. NodeInv(n)'
  BY <1>9, <1>10 DEF NodeInv
<1>12. ReadyInv'
  <2>1. CASE several /\ DOMAIN filled # InPorts(doc, n)
    <3>1. ready' = ready
      BY <1>6, <2>1
    <3> QED
      BY <1>4, <3>1, ReadyKept
  <2>2. CASE ~(several /\ DOMAIN filled # InPorts(doc, n))
    <3>1. DOMAIN filled = InPorts(doc, n)
      <4>1. CASE ~several
        <5>1. PICK P : P = InPorts(doc, n) /\ IsFiniteSet(P)
          BY <1>4, PortsAreFinite
        <5>2. P # {} /\ Cardinality(P) \in Nat /\ ~(Cardinality(P) > 1)
          BY <1>3, <1>5, <4>1, <5>1, FS_CardinalityType
        <5>3. Cardinality(P) = 1
          BY <5>1, <5>2, FS_EmptySet
        <5>4. PICK x : P = {x}
          BY <5>1, <5>3, FS_Singleton
        <5> QED
          BY <1>3, <5>1, <5>4 DEF IsFilled
      <4> QED
        BY <2>2, <4>1
    <3>2. \A p \in DOMAIN filled : Came(filled[p], n, p)
      BY <1>3 DEF IsFilled
    <3>3. Complete(Firing(n, filled))
      BY <1>4, <3>1, <3>2, ValuesAreComplete
    <3>4. ready' = Append(ready, Firing(n, filled))
      BY <1>6, <2>2
    <3> QED
      BY <1>4, <3>3, <3>4, ReadyGrows
  <2> QED
    BY <2>1, <2>2
<1>13. slots' = slots \/ slots' = Set(slots, n, filled)
  BY <1>6
<1> QED
  BY <1>4, <1>6, <1>7, <1>11, <1>12, <1>13, NodeReceives

LEMMA DispatchKeeps ==
  ASSUME RulesInv, Dispatch
  PROVE  RulesInv'
<1>1. PICK d : d = Head(queue)
  OBVIOUS
<1>2. /\ phase = "running" /\ queue # <<>> /\ doc' = doc /\ waiting' = waiting
      /\ ToEnd(d) \/ ToAll(d) \/ ToAny(d) \/ ToCollect(d) \/ ToGuard(d) \/ ToTask(d)
  BY <1>1 DEF Dispatch, inputVars
<1>3. DocInv /\ QueueInv /\ Sound /\ FramesInv
  BY <1>2 DEF RulesInv, GateInv
<1>4. /\ d.to \in Nodes(doc) /\ d.in \in InPorts(doc, d.to) /\ d.message \in Message
      /\ Came(d.message, d.to, d.in) /\ \A m : Old(m) => m.id < d.message.id
  BY <1>1, <1>2, <1>3, Popped
<1>5. Arrives(d)
  BY <1>1, <1>2, <1>3, <1>4 DEF Arrives, FramesInv
<1> QED
  BY <1>2, <1>5, EndKeeps, AllKeeps, AnyKeeps, CollectKeeps, GuardKeeps, TaskKeeps

-----------------------------------------------------------------------------
(* Firings and rounds *)

LEMMA RulesAlways == Spec => []RulesInv
<1>1. ASSUME RulesInv, [Next]_vars PROVE RulesInv'
  BY <1>1, CheckKeeps, SeedKeeps, DispatchKeeps, StartKeeps, ResumeKeeps, RestKeeps DEF Next
<1> QED
  BY <1>1, RulesInit, PTL DEF Spec

LEMMA RulesSuffice ==
  ASSUME RulesInv
  PROVE  FiringsAreComplete
<1>1. ASSUME NEW i \in DOMAIN ready PROVE CompleteFiring(ready[i])
  <2>1. PICK S : ready \in Seq(S) /\ \A f \in S : Complete(f)
    BY DEF RulesInv, ReadyInv
  <2>2. ready[i] \in S
    BY <2>1
  <2> QED
    BY <2>1, <2>2 DEF Complete
<1>2. \A f \in waiting : CompleteFiring(f)
  BY DEF RulesInv, WaitingInv, Complete
<1>3. ASSUME NEW n \in Nodes(doc), KindOf(n) \in Merges PROVE CompleteRounds(n)
  <2>1. PICK rounds \in Seq(SUBSET Message) : rounds = seen.rounds[n]
    BY DEF RulesInv, FramesInv, NodeInv, RoundsInv
  <2>2. \A i \in DOMAIN rounds : rounds[i] \subseteq Message /\ Cardinality(rounds[i]) = Size(n)
    BY <1>3, <2>1 DEF RulesInv, FramesInv, NodeInv, RoundsInv
  <2>3. \A i, j \in DOMAIN rounds : i < j => \A m \in rounds[i], k \in rounds[j] : m.id < k.id
    BY <2>1 DEF RulesInv, FramesInv, NodeInv, RoundsInv
  <2>4. ASSUME NEW i \in DOMAIN rounds, NEW j \in DOMAIN rounds, i < j
        PROVE  rounds[i] \cap rounds[j] = {}
    <3> SUFFICES ASSUME NEW m \in rounds[i], m \in rounds[j] PROVE FALSE
      OBVIOUS
    <3>1. m.id < m.id /\ m.id \in Nat
      BY <2>2, <2>3, <2>4, MessageType
    <3> QED
      BY <3>1
  <2> QED
    BY <2>1, <2>2, <2>3, <2>4 DEF CompleteRounds, Size
<1> QED
  BY <1>1, <1>2, <1>3 DEF FiringsAreComplete

\* However a flow is wired, no firing starts without a value for each input it
\* requires, sent by the one output that is wired there, and each round of a
\* merge is complete and shares no message with another (_dispatch, _fire_merge).
THEOREM FiringsAreAlwaysComplete == Spec => []FiringsAreComplete
<1>1. RulesInv => FiringsAreComplete
  BY RulesSuffice
<1> QED
  BY <1>1, RulesAlways, PTL

-----------------------------------------------------------------------------
(* The fixture *)

\* What was served is what is cached.
ServedInv == file \in Nat \ {0} /\ cached \in Nat /\ seen.served \subseteq {cached} \ {0}

\* Only a fixture's firing serves anything.
LEMMA EmitServesNothing ==
  ASSUME NEW n, NEW port, NEW rest, NEW h, NEW caught, IsSeen(h), Emit(n, port, rest, h, caught)
  PROVE  seen'.served = h.served
<1>1. seen' = h \/ seen' = [h EXCEPT !.unhandled = @ \cup {<<n, port>>}]
  BY DEF Emit
<1> QED
  BY <1>1 DEF IsSeen

LEMMA ErrorServesNothing ==
  ASSUME NEW n, NEW h, IsSeen(h), NodeError(n, h)
  PROVE  seen'.served = h.served
<1>1. CASE KindOf(n) \in {"request", "python"}
  BY <1>1, EmitServesNothing DEF NodeError
<1>2. CASE KindOf(n) \notin {"request", "python"}
  <2>1. seen' = [h EXCEPT !.unhandled = @ \cup {<<n, "none">>}]
    BY <1>2 DEF NodeError
  <2> QED
    BY <2>1 DEF IsSeen
<1> QED
  BY <1>1, <1>2

LEMMA DispatchServesNothing ==
  ASSUME RulesInv, Dispatch
  PROVE  seen'.served = seen.served
<1>1. PICK d : d = Head(queue)
  OBVIOUS
<1>2. IsSeen(seen) /\ d.to \in Nodes(doc)
  BY <1>1, Popped DEF Dispatch, RulesInv, FramesInv
<1>3. PICK n \in Nodes(doc) : n = d.to
  BY <1>2
<1>4. IsSeen(Reaches(n)) /\ Reaches(n).served = seen.served
  BY <1>2, ReachesIsSeen
<1>5. ASSUME NEW round, MergeEmits(n, round) PROVE seen'.served = seen.served
  <2>1. PICK h : h = Noted(n, round)
    OBVIOUS
  <2>2. IsSeen(h) /\ h.served = seen.served
    BY <2>1, RoundIsNoted
  <2>3. Emit(n, "out", Tail(queue), h, TRUE)
    BY <1>5, <2>1 DEF MergeEmits, Noted
  <2> QED
    BY <2>2, <2>3, EmitServesNothing
<1>6. ASSUME NEW left, NEW port, Passes(n, left, port, d) PROVE seen'.served = seen.served
  BY <1>4, <1>6, EmitServesNothing DEF Passes
<1>7. CASE ToEnd(d)
  BY <1>3, <1>4, <1>7 DEF ToEnd
<1>8. CASE ToAll(d)
  BY <1>3, <1>5, <1>8 DEF ToAll, Absorbs
<1>9. CASE ToAny(d)
  BY <1>3, <1>5, <1>9 DEF ToAny
<1>10. CASE ToCollect(d)
  BY <1>3, <1>5, <1>10 DEF ToCollect, Absorbs
<1>11. CASE ToGuard(d)
  BY <1>3, <1>6, <1>11 DEF ToGuard, Absorbs, Counts, Clocks
<1>12. CASE ToTask(d)
  BY <1>12 DEF ToTask
<1> QED
  BY <1>1, <1>7, <1>8, <1>9, <1>10, <1>11, <1>12 DEF Dispatch

LEMMA StartServes ==
  ASSUME RulesInv, ServedInv, Start
  PROVE  ServedInv'
<1>1. PICK f, n : f = Head(ready) /\ n = Head(ready).node
  OBVIOUS
<1>2. IsSeen(Reaches(n)) /\ Reaches(n).served = seen.served
  BY ReachesIsSeen DEF RulesInv, FramesInv
<1>3. CASE RunsAtOnce(f)
  <2>1. file' = file /\ cached' = cached
    BY <1>3 DEF RunsAtOnce, fileVars
  <2>2. (\E port : Emit(n, port, queue, Reaches(n), TRUE)) \/ NodeError(n, Reaches(n))
    BY <1>1, <1>3 DEF RunsAtOnce
  <2>3. seen'.served = seen.served
    BY <1>2, <2>2, EmitServesNothing, ErrorServesNothing
  <2> QED
    BY <2>1, <2>3 DEF ServedInv
<1>4. CASE RunsFixture(f)
  <2>1. LoadFixture(n) /\ file' = file
    BY <1>1, <1>4 DEF RunsFixture
  <2>2. ASSUME NEW v, Serves(n, v) PROVE seen'.served = seen.served \cup {v}
    <3>1. PICK h : h = [Reaches(n) EXCEPT !.served = @ \cup {v}]
      OBVIOUS
    <3>2. IsSeen(h) /\ h.served = seen.served \cup {v}
      BY <1>2, <3>1 DEF IsSeen
    <3>3. Emit(n, "value", queue, h, TRUE)
      BY <2>2, <3>1 DEF Serves
    <3> QED
      BY <3>2, <3>3, EmitServesNothing
  <2>3. NodeError(n, Reaches(n)) => seen'.served = seen.served
    BY <1>2, ErrorServesNothing
  <2>4. Crashes(n) => seen'.served = seen.served
    BY <1>2 DEF Crashes
  <2> QED
    BY <2>1, <2>2, <2>3, <2>4 DEF LoadFixture, ServedInv
<1>5. CASE BeginsToWait(f)
  BY <1>1, <1>2, <1>5 DEF BeginsToWait, fileVars, ServedInv
<1> QED
  BY <1>1, <1>3, <1>4, <1>5 DEF Start

LEMMA ServedKeeps ==
  ASSUME RulesInv, ServedInv, [Next]_vars
  PROVE  ServedInv'
<1>1. IsSeen(seen)
  BY DEF RulesInv, FramesInv
<1>2. CASE Check
  BY <1>2 DEF Check, fileVars, ServedInv
<1>3. CASE Seed
  <2>1. PICK start : Emit(start, "out", queue, Reaches(start), TRUE)
    BY <1>3 DEF Seed
  <2>2. seen'.served = seen.served
    BY <1>1, <2>1, ReachesIsSeen, EmitServesNothing
  <2> QED
    BY <1>3, <2>2 DEF Seed, fileVars, ServedInv
<1>4. CASE Dispatch
  BY <1>4, DispatchServesNothing DEF Dispatch, fileVars, ServedInv
<1>5. CASE Start
  BY <1>5, StartServes
<1>6. CASE Resume
  <2>1. PICK f \in waiting : Returns(f) \/ Breaks(f) \/ Retries(f)
    BY <1>6 DEF Resume
  <2>2. seen'.served = seen.served
    BY <1>1, <2>1, EmitServesNothing, ErrorServesNothing DEF Returns, Breaks, Retries
  <2> QED
    BY <1>6, <2>2 DEF Resume, fileVars, ServedInv
<1>7. CASE FileChanges
  BY <1>7 DEF FileChanges, ServedInv
<1>8. CASE GoesQuiet
  BY <1>8 DEF GoesQuiet, fileVars, ServedInv
<1>9. CASE UNCHANGED vars
  BY <1>9 DEF vars, fileVars, ServedInv
<1> QED
  BY <1>2, <1>3, <1>4, <1>5, <1>6, <1>7, <1>8, <1>9 DEF Next

\* A run serves one version of a fixture, however often the file changes or
\* cannot be read (_load_fixture).
THEOREM OneFixtureAlways == Spec => []OneFixture
<1>1. Init => ServedInv
  BY DEF Init, NoHistory, ServedInv
<1>2. RulesInv /\ ServedInv /\ [Next]_vars => ServedInv'
  BY ServedKeeps
<1>3. ServedInv => OneFixture
  <2> SUFFICES ASSUME ServedInv PROVE OneFixture
    OBVIOUS
  <2>1. IsFiniteSet({cached}) /\ Cardinality({cached}) = 1
    BY FS_Singleton
  <2>2. IsFiniteSet(seen.served) /\ Cardinality(seen.served) <= 1
    BY <2>1, FS_Subset DEF ServedInv
  <2> QED
    BY <2>2 DEF OneFixture
<1> QED
  BY <1>1, <1>2, <1>3, RulesAlways, PTL DEF Spec

-----------------------------------------------------------------------------
(* Tail recursion *)

IsTailRecursive(f, S, Final, step, result) ==
  f = [s \in S |-> IF s \in Final THEN result[s] ELSE f[step[s]]]

\* There is one if something falls with every step: from s the steps end in one
\* place, and the function has what that gives.
LEMMA TailRecursion ==
  ASSUME NEW S, NEW Final, NEW step \in [S -> S], NEW result, NEW measure \in [S -> Nat],
         \A s \in S \ Final : measure[step[s]] < measure[s]
  PROVE  \E f : IsTailRecursive(f, S, Final, step, result)
<1> DEFINE Closed(C) == \A x \in C \ Final : step[x] \in C
           Orbit(s) == {t \in S : \A C \in SUBSET S : s \in C /\ Closed(C) => t \in C}
           End(s) == CHOOSE t : t \in Orbit(s) \cap Final
           f == [s \in S |-> result[End(s)]]
<1>1. ASSUME NEW s \in S PROVE s \in Orbit(s) /\ Closed(Orbit(s)) /\ Orbit(s) \in SUBSET S
  OBVIOUS
<1>2. ASSUME NEW s \in S, s \in Final PROVE Orbit(s) = {s}
  <2>1. PICK C : C = {s}
    OBVIOUS
  <2>2. C \in SUBSET S /\ s \in C /\ Closed(C)
    BY <1>2, <2>1
  <2>3. Orbit(s) \subseteq C
    BY <2>2
  <2> QED
    BY <2>1, <2>3, <1>1
<1>3. ASSUME NEW s \in S, s \notin Final PROVE Orbit(s) = {s} \cup Orbit(step[s])
  <2>1. step[s] \in S
    BY <1>3
  <2>2. Closed({s} \cup Orbit(step[s]))
    BY <2>1, <1>1
  <2>3. Orbit(s) \subseteq {s} \cup Orbit(step[s])
    <3>1. PICK C : C = {s} \cup Orbit(step[s])
      OBVIOUS
    <3>2. C \in SUBSET S /\ s \in C /\ Closed(C)
      BY <2>1, <2>2, <3>1, <1>1
    <3> QED
      BY <3>1, <3>2
  <2>4. step[s] \in Orbit(s)
    BY <1>1, <1>3
  <2>5. Orbit(step[s]) \subseteq Orbit(s)
    BY <2>1, <2>4, <1>1
  <2> QED
    BY <2>3, <2>5, <1>1
<1>4. ASSUME NEW s \in S PROVE Orbit(s) \cap Final # {}
  <2> DEFINE T == {measure[t] : t \in Orbit(s)}
  <2>1. T \in SUBSET Nat /\ T # {}
    BY <1>1
  <2>2. PICK x \in T : \A y \in T : x <= y
    <3> HIDE DEF T
    <3> QED
      BY <2>1, LeastNat
  <2>3. PICK t \in Orbit(s) : x = measure[t]
    BY <2>2
  <2>4. t \in S /\ (t \notin Final => step[t] \in Orbit(s))
    BY <1>1
  <2>5. t \notin Final => measure[step[t]] < measure[t] /\ measure[step[t]] \in Nat /\ x \in Nat
    BY <2>1, <2>4
  <2>6. t \notin Final => measure[step[t]] \in T
    BY <2>4
  <2> HIDE DEF T, Orbit
  <2> QED
    BY <2>2, <2>3, <2>4, <2>5, <2>6
<1>5. ASSUME NEW s \in S PROVE f[s] = IF s \in Final THEN result[s] ELSE f[step[s]]
  <2>1. CASE s \in Final
    <3>1. Orbit(s) \cap Final = {s}
      BY <1>2, <2>1
    <3>2. End(s) = s
      <4> HIDE DEF Orbit
      <4> QED
        BY <3>1
    <3> HIDE DEF End
    <3> QED
      BY <2>1, <3>2
  <2>2. CASE s \notin Final
    <3>1. Orbit(s) \cap Final = Orbit(step[s]) \cap Final /\ step[s] \in S
      BY <1>3, <2>2
    <3>2. End(s) = End(step[s])
      <4> HIDE DEF Orbit
      <4> QED
        BY <3>1
    <3> HIDE DEF End
    <3> QED
      BY <2>2, <3>1, <3>2
  <2> QED
    BY <2>1, <2>2
<1>6. f = [s \in S |-> IF s \in Final THEN result[s] ELSE f[step[s]]]
  <2>1. f = [s \in S |-> f[s]]
    OBVIOUS
  <2> HIDE DEF f
  <2> QED
    BY <1>5, <2>1
<1> QED
  BY <1>6 DEF IsTailRecursive

\* P is kept until the recursion ends, which it does, with an answer in G.
Descends(S, Final, step, result, measure, P, G) ==
  /\ measure \in [S -> Nat] /\ P \in SUBSET S
  /\ \A s \in P \ Final : step[s] \in P /\ measure[step[s]] < measure[s]
  /\ \A s \in P \cap Final : result[s] \in G

LEMMA TailInduction ==
  ASSUME NEW S, NEW Final, NEW step, NEW result, NEW measure, NEW f, NEW P, NEW G,
         IsTailRecursive(f, S, Final, step, result),
         Descends(S, Final, step, result, measure, P, G)
  PROVE  \A s \in P : f[s] \in G
<1> USE DEF Descends
<1> DEFINE B == {s \in P : f[s] \notin G}
           T == {measure[s] : s \in B}
<1> SUFFICES ASSUME B # {} PROVE FALSE
  OBVIOUS
<1>1. T \in SUBSET Nat /\ T # {}
  OBVIOUS
<1>2. PICK x \in T : \A y \in T : x <= y
  <2> HIDE DEF T
  <2> QED
    BY <1>1, LeastNat
<1>3. PICK s \in B : x = measure[s]
  BY <1>2
<1>4. s \in S /\ f[s] = IF s \in Final THEN result[s] ELSE f[step[s]]
  <2>1. s \in S
    BY <1>3
  <2>2. PICK g : g = f
    OBVIOUS
  <2>3. g = [t \in S |-> IF t \in Final THEN result[t] ELSE g[step[t]]]
    BY <2>2 DEF IsTailRecursive
  <2>4. g[s] = IF s \in Final THEN result[s] ELSE g[step[s]]
    BY <2>1, <2>3
  <2> QED
    BY <2>1, <2>2, <2>4
<1>5. s \notin Final
  BY <1>3, <1>4
<1>6. step[s] \in B /\ measure[step[s]] < measure[s]
  BY <1>3, <1>4, <1>5
<1>7. measure[step[s]] \in T /\ measure[step[s]] \in Nat /\ x \in Nat
  BY <1>1, <1>6
<1> HIDE DEF T, B
<1> QED
  BY <1>2, <1>3, <1>6, <1>7

-----------------------------------------------------------------------------
(* The depth-first search *)

Searches(V) == [stack : Seq(V), color : [V -> {"white", "gray", "black"}]]

White(s) == {v \in DOMAIN s.color : s.color[v] = "white"}

IsGraph(V, next) == V \in SUBSET Nat /\ IsFiniteSet(V) /\ next \in [V -> SUBSET V]

LEMMA SmallestIsIn ==
  ASSUME NEW S \in SUBSET Nat, S # {}
  PROVE  Smallest(S) \in S
BY LeastNat DEF Smallest

LEMMA TopIsIn ==
  ASSUME NEW V, NEW stack \in Seq(V), stack # <<>>
  PROVE  Len(stack) \in Nat \ {0} /\ Top(stack) \in V /\ Top(stack) = stack[Len(stack)]
BY EmptySeq, ElementOfSeq DEF Top

LEMMA UnvisitedIsIn ==
  ASSUME NEW V, NEW next, IsGraph(V, next), NEW s \in Searches(V), Unvisited(next, s) # {}
  PROVE  /\ Smallest(Unvisited(next, s)) \in Unvisited(next, s)
         /\ Smallest(Unvisited(next, s)) \in V
         /\ s.color[Smallest(Unvisited(next, s))] \in {"white", "gray"}
<1>1. s.stack \in Seq(V) /\ s.color \in [V -> {"white", "gray", "black"}] /\ V \in SUBSET Nat
  BY DEF Searches, IsGraph
<1>2. CASE s.stack = <<>>
  <2>1. Unvisited(next, s) = {v \in V : s.color[v] = "white"}
    BY <1>1, <1>2 DEF Unvisited
  <2> QED
    BY <1>1, <2>1, SmallestIsIn
<1>3. CASE s.stack # <<>>
  <2>1. Unvisited(next, s) = {v \in next[Top(s.stack)] : s.color[v] # "black"}
    BY <1>3 DEF Unvisited, Open
  <2>2. next[Top(s.stack)] \in SUBSET V
    BY <1>1, <1>3, TopIsIn DEF IsGraph
  <2>3. Smallest(Unvisited(next, s)) \in Unvisited(next, s)
    BY <1>1, <2>1, <2>2, SmallestIsIn
  <2> QED
    BY <1>1, <2>1, <2>2, <2>3
<1> QED
  BY <1>2, <1>3

LEMMA WhitesAreCounted ==
  ASSUME NEW V, IsFiniteSet(V), NEW s \in Searches(V)
  PROVE  /\ White(s) = {v \in V : s.color[v] = "white"} /\ IsFiniteSet(White(s))
         /\ Cardinality(White(s)) \in Nat /\ Len(s.stack) \in Nat
<1>1. White(s) = {v \in V : s.color[v] = "white"} /\ s.stack \in Seq(V)
  BY DEF White, Searches
<1>2. IsFiniteSet(White(s))
  BY <1>1, FS_Subset
<1> QED
  BY <1>1, <1>2, FS_CardinalityType, LenProperties

\* The work that is left: a node is entered once and left once.
Work(s) == 2 * Cardinality(White(s)) + Len(s.stack)

LEMMA VisitsNext ==
  ASSUME NEW V, IsFiniteSet(V), NEW s \in Searches(V), NEW v \in V, s.color[v] = "white"
  PROVE  /\ Visit(s, v) \in Searches(V) /\ Work(Visit(s, v)) < Work(s)
         /\ Visit(s, v).stack = Append(s.stack, v)
         /\ Visit(s, v).color = [s.color EXCEPT ![v] = "gray"]
<1>1. s.stack \in Seq(V) /\ s.color \in [V -> {"white", "gray", "black"}]
  BY DEF Searches
<1>2. /\ Visit(s, v).stack = Append(s.stack, v)
      /\ Visit(s, v).color = [s.color EXCEPT ![v] = "gray"]
  BY DEF Visit
<1>3. Visit(s, v) \in Searches(V)
  BY <1>1 DEF Visit, Searches
<1>4. White(Visit(s, v)) = White(s) \ {v} /\ v \in White(s)
  BY <1>1, <1>2 DEF White
<1>5. /\ IsFiniteSet(White(s)) /\ Cardinality(White(s)) \in Nat
      /\ Cardinality(White(s) \ {v}) = Cardinality(White(s)) - 1
  BY <1>4, WhitesAreCounted, FS_RemoveElement
<1>6. Len(Visit(s, v).stack) = Len(s.stack) + 1 /\ Len(s.stack) \in Nat
  BY <1>1, <1>2
<1>7. PICK k \in Nat : k = Cardinality(White(s)) /\ Cardinality(White(Visit(s, v))) = k - 1
  BY <1>4, <1>5
<1>8. Work(Visit(s, v)) = 2 * (k - 1) + Len(s.stack) + 1 /\ Work(s) = 2 * k + Len(s.stack)
  BY <1>6, <1>7 DEF Work
<1>9. Work(Visit(s, v)) < Work(s)
  <2>1. PICK n \in Nat : n = Len(s.stack)
    BY <1>6
  <2>2. 2 * (k - 1) + n + 1 < 2 * k + n
    OBVIOUS
  <2> QED
    BY <1>8, <2>1, <2>2
<1> QED
  BY <1>2, <1>3, <1>9

LEMMA LeavesTop ==
  ASSUME NEW V, IsFiniteSet(V), NEW s \in Searches(V), s.stack # <<>>
  PROVE  /\ Leave(s) \in Searches(V) /\ Work(Leave(s)) < Work(s)
         /\ Leave(s).stack \in Seq(V)
         /\ Len(Leave(s).stack) = Len(s.stack) - 1
         /\ \A i \in 1 .. (Len(s.stack) - 1) : Leave(s).stack[i] = s.stack[i]
         /\ Leave(s).color = [s.color EXCEPT ![Top(s.stack)] = "black"]
<1>1. s.stack \in Seq(V) /\ s.color \in [V -> {"white", "gray", "black"}]
  BY DEF Searches
<1>2. /\ Leave(s).stack = SubSeq(s.stack, 1, Len(s.stack) - 1)
      /\ Leave(s).color = [s.color EXCEPT ![Top(s.stack)] = "black"]
  BY DEF Leave
<1>3. Len(s.stack) \in Nat \ {0} /\ Top(s.stack) \in V
  BY <1>1, TopIsIn
<1>4. /\ Leave(s).stack \in Seq(V) /\ Len(Leave(s).stack) = Len(s.stack) - 1
      /\ \A i \in 1 .. (Len(s.stack) - 1) : Leave(s).stack[i] = s.stack[i]
  BY <1>1, <1>2, <1>3
<1>5. Leave(s) \in Searches(V)
  BY <1>1, <1>2, <1>4 DEF Leave, Searches
<1>6. White(Leave(s)) \subseteq White(s)
  BY <1>1, <1>2 DEF White
<1>7. /\ Cardinality(White(Leave(s))) \in Nat /\ Cardinality(White(s)) \in Nat
      /\ Cardinality(White(Leave(s))) <= Cardinality(White(s))
  BY <1>5, <1>6, WhitesAreCounted, FS_Subset
<1>8. Work(Leave(s)) < Work(s)
  BY <1>3, <1>4, <1>7 DEF Work
<1> QED
  BY <1>2, <1>4, <1>5, <1>8

-----------------------------------------------------------------------------
\* Where the search ends, what it does elsewhere, and what it answers.
Halts(V, next) ==
  {s \in Searches(V) : IF Unvisited(next, s) = {} THEN s.stack = <<>>
                       ELSE s.color[Smallest(Unvisited(next, s))] = "gray"}

Moves(V, next) ==
  [s \in Searches(V) |-> IF s \in Halts(V, next) THEN s
                         ELSE IF Unvisited(next, s) = {} THEN Leave(s)
                         ELSE Visit(s, Smallest(Unvisited(next, s)))]

Answers(V, next) ==
  [s \in Searches(V) |-> IF Unvisited(next, s) = {} THEN <<>>
                         ELSE ClosedPath(s.stack, Smallest(Unvisited(next, s)))]

LEMMA MovesOn ==
  ASSUME NEW V, NEW next, IsGraph(V, next), NEW s \in Searches(V) \ Halts(V, next)
  PROVE  /\ Moves(V, next)[s] \in Searches(V) /\ Work(Moves(V, next)[s]) < Work(s)
         /\ \/ /\ Unvisited(next, s) = {} /\ s.stack # <<>>
               /\ Moves(V, next)[s] = Leave(s)
            \/ /\ Unvisited(next, s) # {}
               /\ Smallest(Unvisited(next, s)) \in Unvisited(next, s) \cap V
               /\ s.color[Smallest(Unvisited(next, s))] = "white"
               /\ Moves(V, next)[s] = Visit(s, Smallest(Unvisited(next, s)))
<1>1. IsFiniteSet(V)
  BY DEF IsGraph
<1>2. CASE Unvisited(next, s) = {}
  <2>1. s.stack # <<>> /\ Moves(V, next)[s] = Leave(s)
    BY <1>2 DEF Halts, Moves
  <2>2. Leave(s) \in Searches(V) /\ Work(Leave(s)) < Work(s)
    BY <1>1, <2>1, LeavesTop
  <2> QED
    BY <1>2, <2>1, <2>2
<1>3. CASE Unvisited(next, s) # {}
  <2>1. PICK v : v = Smallest(Unvisited(next, s))
    OBVIOUS
  <2>2. s.color[v] # "gray" /\ Moves(V, next)[s] = Visit(s, v)
    BY <1>3, <2>1 DEF Halts, Moves
  <2>3. v \in Unvisited(next, s) /\ v \in V /\ s.color[v] = "white"
    BY <1>3, <2>1, <2>2, UnvisitedIsIn
  <2>4. Visit(s, v) \in Searches(V) /\ Work(Visit(s, v)) < Work(s)
    BY <1>1, <2>3, VisitsNext
  <2> QED
    BY <1>3, <2>1, <2>2, <2>3, <2>4
<1> QED
  BY <1>2, <1>3

LEMMA SearchIsDefined ==
  ASSUME NEW V, NEW next, IsGraph(V, next)
  PROVE  \E f : /\ IsTailRecursive(f, Searches(V), Halts(V, next), Moves(V, next), Answers(V, next))
                /\ FindCycle(V, next) = f[[stack |-> <<>>, color |-> [v \in V |-> "white"]]]
<1> DEFINE Body(f, s) ==
             LET open == Unvisited(next, s)
                 v == Smallest(open)
             IN IF open = {} THEN (IF s.stack = <<>> THEN <<>> ELSE f[Leave(s)])
                ELSE IF s.color[v] = "gray" THEN ClosedPath(s.stack, v)
                ELSE f[Visit(s, v)]
           Onward(f, s) == IF s \in Halts(V, next) THEN Answers(V, next)[s]
                           ELSE f[Moves(V, next)[s]]
<1>1. \A f : \A s \in Searches(V) : Body(f, s) = Onward(f, s)
  BY DEF Halts, Answers, Moves
<1>2. \A f : [s \in Searches(V) |-> Body(f, s)] = [s \in Searches(V) |-> Onward(f, s)]
  <2> HIDE DEF Body, Onward
  <2> QED
    BY <1>1
<1> DEFINE search == CHOOSE f : f = [s \in Searches(V) |-> Body(f, s)]
<1>3. \E f : f = [s \in Searches(V) |-> Onward(f, s)]
  <2> DEFINE measure == [s \in Searches(V) |-> Work(s)]
  <2>1. Moves(V, next) \in [Searches(V) -> Searches(V)]
    BY MovesOn DEF Moves
  <2>2. measure \in [Searches(V) -> Nat]
    BY WhitesAreCounted DEF Work, IsGraph
  <2>3. \A s \in Searches(V) \ Halts(V, next) : measure[Moves(V, next)[s]] < measure[s]
    BY MovesOn
  <2> HIDE DEF measure
  <2>4. \E f : IsTailRecursive(f, Searches(V), Halts(V, next), Moves(V, next), Answers(V, next))
    BY <2>1, <2>2, <2>3, TailRecursion
  <2> QED
    BY <2>4 DEF IsTailRecursive
<1>4. search = [s \in Searches(V) |-> Onward(search, s)]
  <2> HIDE DEF Body, Onward
  <2>1. \E f : f = [s \in Searches(V) |-> Body(f, s)]
    BY <1>2, <1>3
  <2>2. search = [s \in Searches(V) |-> Body(search, s)]
    BY <2>1, Zenon
  <2> QED
    BY <1>2, <2>2
<1>5. FindCycle(V, next) = search[[stack |-> <<>>, color |-> [v \in V |-> "white"]]]
  BY Zenon DEF FindCycle, Searches
<1>6. IsTailRecursive(search, Searches(V), Halts(V, next), Moves(V, next), Answers(V, next))
  BY <1>4 DEF IsTailRecursive
<1> HIDE DEF search
<1> QED
  BY <1>5, <1>6

-----------------------------------------------------------------------------
\* What is known of a search on its way: the stack is a simple path of the gray
\* nodes, and no cycle passes through the black ones.
Black(V, s) == {v \in V : s.color[v] = "black"}

IsSimple(V, next, s, l) ==
  /\ \A i, j \in 1 .. l : i # j => s.stack[i] # s.stack[j]
  /\ \A v \in V : s.color[v] = "gray" <=> \E i \in 1 .. l : s.stack[i] = v
  /\ \A i \in 1 .. (l - 1) : s.stack[i + 1] \in next[s.stack[i]]

IsDone(B, next) == (\A v \in B : next[v] \subseteq B) /\ ~HasCycle(B, next)

Sane(V, next) ==
  {s \in Searches(V) : IsSimple(V, next, s, Len(s.stack)) /\ IsDone(Black(V, s), next)}

LEMMA NoCycleAdded ==
  ASSUME NEW B, NEW next, NEW t, \A v \in B : next[v] \subseteq B, next[t] \subseteq B,
         t \notin B, ~HasCycle(B, next)
  PROVE  ~HasCycle(B \cup {t}, next)
<1> SUFFICES ASSUME NEW S \in SUBSET (B \cup {t}), S # {}, \A u \in S : next[u] \cap S # {}
             PROVE  FALSE
  BY DEF HasCycle
<1>1. \A u \in S : next[u] \cap (S \ {t}) # {}
  OBVIOUS
<1>2. S \ {t} \in SUBSET B /\ S \ {t} # {}
  BY <1>1
<1>3. \A u \in S \ {t} : next[u] \cap (S \ {t}) # {}
  BY <1>1
<1> QED
  BY <1>2, <1>3 DEF HasCycle

LEMMA StartsSane ==
  ASSUME NEW V, NEW next, IsGraph(V, next)
  PROVE  [stack |-> <<>>, color |-> [v \in V |-> "white"]] \in Sane(V, next)
<1> DEFINE s == [stack |-> <<>>, color |-> [v \in V |-> "white"]]
<1>1. s \in Searches(V) /\ Len(s.stack) = 0
  BY EmptySeq DEF Searches
<1>2. Black(V, s) = {}
  BY DEF Black
<1>3. IsDone({}, next)
  BY DEF IsDone, HasCycle
<1>4. IsSimple(V, next, s, 0)
  BY DEF IsSimple
<1>5. s \in Sane(V, next)
  <2> HIDE DEF s
  <2> QED
    BY <1>1, <1>2, <1>3, <1>4 DEF Sane
<1> QED
  BY <1>5

LEMMA LeavesSane ==
  ASSUME NEW V, NEW next, IsGraph(V, next), NEW s \in Sane(V, next),
         s.stack # <<>>, Unvisited(next, s) = {}
  PROVE  Leave(s) \in Sane(V, next)
<1>1. s \in Searches(V) /\ s.stack \in Seq(V) /\ s.color \in [V -> {"white", "gray", "black"}]
  BY DEF Sane, Searches
<1>2. PICK l \in Nat \ {0} : l = Len(s.stack)
  BY <1>1, TopIsIn
<1>3. PICK t : t = Top(s.stack)
  OBVIOUS
<1>4. t \in V /\ t = s.stack[l]
  BY <1>1, <1>2, <1>3, TopIsIn
<1>5. /\ Leave(s) \in Searches(V) /\ Len(Leave(s).stack) = l - 1
      /\ \A i \in 1 .. (l - 1) : Leave(s).stack[i] = s.stack[i]
      /\ Leave(s).color = [s.color EXCEPT ![t] = "black"]
  BY <1>1, <1>2, <1>3, LeavesTop DEF IsGraph
<1>6. s.color[t] = "gray" /\ t \notin Black(V, s)
  BY <1>2, <1>4 DEF Sane, Black, IsSimple
<1>7. Black(V, Leave(s)) = Black(V, s) \cup {t}
  BY <1>1, <1>4, <1>5 DEF Black
<1>8. next[t] \subseteq Black(V, s)
  <2>1. next[t] \in SUBSET V
    BY <1>4 DEF IsGraph
  <2>2. {v \in next[t] : s.color[v] # "black"} = {}
    BY <1>3 DEF Unvisited, Open
  <2> QED
    BY <2>1, <2>2 DEF Black
<1>9. IsDone(Black(V, Leave(s)), next)
  <2>1. (\A v \in Black(V, s) : next[v] \subseteq Black(V, s)) /\ ~HasCycle(Black(V, s), next)
    BY DEF Sane, IsDone
  <2> QED
    BY <1>6, <1>7, <1>8, <2>1, NoCycleAdded DEF IsDone
<1>10. /\ \A i, j \in 1 .. (l - 1) : i # j => Leave(s).stack[i] # Leave(s).stack[j]
       /\ \A i \in 1 .. (l - 1 - 1) : Leave(s).stack[i + 1] \in next[Leave(s).stack[i]]
  <2>1. /\ \A i, j \in 1 .. l : i # j => s.stack[i] # s.stack[j]
        /\ \A i \in 1 .. (l - 1) : s.stack[i + 1] \in next[s.stack[i]]
    BY <1>2 DEF Sane, IsSimple
  <2>2. \A i \in 1 .. (l - 1 - 1) : i \in 1 .. (l - 1) /\ i + 1 \in 1 .. (l - 1)
    OBVIOUS
  <2> QED
    BY <1>5, <2>1, <2>2
<1>11. \A v \in V : Leave(s).color[v] = "gray" <=> \E i \in 1 .. (l - 1) : Leave(s).stack[i] = v
  <2> SUFFICES ASSUME NEW v \in V
               PROVE  Leave(s).color[v] = "gray" <=> \E i \in 1 .. (l - 1) : Leave(s).stack[i] = v
    OBVIOUS
  <2>1. CASE v = t
    <3>1. \A i \in 1 .. (l - 1) : s.stack[i] # s.stack[l]
      BY <1>2 DEF Sane, IsSimple
    <3> QED
      BY <1>1, <1>4, <1>5, <2>1, <3>1
  <2>2. CASE v # t
    <3>1. Leave(s).color[v] = s.color[v]
      BY <1>1, <1>5, <2>2
    <3>2. s.color[v] = "gray" <=> \E i \in 1 .. l : s.stack[i] = v
      BY <1>2 DEF Sane, IsSimple
    <3>3. \A i \in 1 .. l : s.stack[i] = v => i \in 1 .. (l - 1)
      BY <1>4, <2>2
    <3> QED
      BY <1>5, <3>1, <3>2, <3>3
  <2> QED
    BY <2>1, <2>2
<1>12. IsSimple(V, next, Leave(s), l - 1)
  BY <1>10, <1>11 DEF IsSimple
<1> QED
  BY <1>5, <1>9, <1>12 DEF Sane

LEMMA VisitsSane ==
  ASSUME NEW V, NEW next, IsGraph(V, next), NEW s \in Sane(V, next),
         NEW v \in V, v \in Unvisited(next, s), s.color[v] = "white"
  PROVE  Visit(s, v) \in Sane(V, next)
<1>1. s \in Searches(V) /\ s.stack \in Seq(V) /\ s.color \in [V -> {"white", "gray", "black"}]
  BY DEF Sane, Searches
<1>2. PICK l \in Nat : l = Len(s.stack)
  BY <1>1
<1>3. /\ Visit(s, v) \in Searches(V) /\ Visit(s, v).stack = Append(s.stack, v)
      /\ Visit(s, v).color = [s.color EXCEPT ![v] = "gray"]
  BY <1>1, VisitsNext DEF IsGraph
<1>4. /\ Len(Visit(s, v).stack) = l + 1 /\ Visit(s, v).stack[l + 1] = v
      /\ \A i \in 1 .. l : Visit(s, v).stack[i] = s.stack[i]
  BY <1>1, <1>2, <1>3
<1>5. Black(V, Visit(s, v)) = Black(V, s)
  BY <1>1, <1>3 DEF Black
<1>6. \A u \in V : s.color[u] = "gray" <=> \E i \in 1 .. l : s.stack[i] = u
  BY <1>2 DEF Sane, IsSimple
<1>7. \A i \in 1 .. l : s.stack[i] # v
  BY <1>6
<1>8. \A i, j \in 1 .. (l + 1) : i # j => Visit(s, v).stack[i] # Visit(s, v).stack[j]
  <2>1. \A i, j \in 1 .. l : i # j => s.stack[i] # s.stack[j]
    BY <1>2 DEF Sane, IsSimple
  <2> QED
    BY <1>4, <1>7, <2>1
<1>9. \A u \in V : Visit(s, v).color[u] = "gray" <=> \E i \in 1 .. (l + 1) : Visit(s, v).stack[i] = u
  BY <1>1, <1>3, <1>4, <1>6
<1>10. \A i \in 1 .. l : Visit(s, v).stack[i + 1] \in next[Visit(s, v).stack[i]]
  <2>1. \A i \in 1 .. (l - 1) : s.stack[i + 1] \in next[s.stack[i]]
    BY <1>2 DEF Sane, IsSimple
  <2>2. l # 0 => v \in next[s.stack[l]]
    <3>1. l # 0 => s.stack # <<>>
      BY <1>2
    <3> QED
      BY <1>2, <3>1 DEF Unvisited, Open, Top
  <2> QED
    BY <1>4, <2>1, <2>2
<1>11. IsSimple(V, next, Visit(s, v), l + 1)
  <2>1. l + 1 - 1 = l
    OBVIOUS
  <2> QED
    BY <1>8, <1>9, <1>10, <2>1 DEF IsSimple
<1> QED
  BY <1>3, <1>4, <1>5, <1>11 DEF Sane

\* The path that is closed is a cycle, and its nodes are one too.
LEMMA ClosesCycle ==
  ASSUME NEW V, NEW next, IsGraph(V, next), NEW s \in Sane(V, next),
         NEW v \in V, v \in Unvisited(next, s), s.color[v] = "gray"
  PROVE  ClosedPath(s.stack, v) \in Seq(V) /\ IsCycle(ClosedPath(s.stack, v), next) /\ HasCycle(V, next)
<1>1. s.stack \in Seq(V) /\ s.color \in [V -> {"white", "gray", "black"}]
  BY DEF Sane, Searches
<1>2. PICK l \in Nat : l = Len(s.stack)
  BY <1>1
<1>3. PICK p : p = s.stack
  OBVIOUS
<1>4. /\ p \in Seq(V) /\ Len(p) = l /\ \A i \in 1 .. l : p[i] \in V
      /\ \A i, j \in 1 .. l : i # j => p[i] # p[j]
      /\ \A i \in 1 .. (l - 1) : p[i + 1] \in next[p[i]]
      /\ \E i \in 1 .. l : p[i] = v
  BY <1>1, <1>2, <1>3, ElementOfSeq DEF Sane, IsSimple
<1>5. l # 0 /\ v \in next[p[l]]
  <2>1. l # 0 /\ p # <<>>
    BY <1>4
  <2> QED
    BY <1>2, <1>3, <2>1 DEF Unvisited, Open, Top
<1>6. DOMAIN p = 1 .. l
  BY <1>4
<1>7. PICK first : first = CHOOSE i \in DOMAIN p : p[i] = v
  OBVIOUS
<1>8. first \in 1 .. l /\ p[first] = v
  BY <1>4, <1>6, <1>7
<1>9. PICK q : q = SubSeq(p, first, l)
  OBVIOUS
<1>10. PICK m \in Nat \ {0} : m = l - first + 1
  BY <1>8
<1>11. q \in Seq(V) /\ Len(q) = m /\ \A i \in 1 .. m : q[i] = p[first + i - 1]
  <2>1. q \in Seq(V) /\ Len(q) = m
    BY <1>4, <1>8, <1>9, <1>10
  <2>2. \A i \in 1 .. m : q[i] = p[first + i - 1]
    BY <1>4, <1>8, <1>9, <1>10
  <2> QED
    BY <2>1, <2>2
<1>12. PICK r : r = Append(q, v)
  OBVIOUS
<1>13. /\ r \in Seq(V) /\ Len(r) = m + 1 /\ r[m + 1] = v
       /\ \A i \in 1 .. m : r[i] = p[first + i - 1] /\ first + i - 1 \in 1 .. l
  <2>1. r \in Seq(V) /\ Len(r) = m + 1 /\ r[m + 1] = v /\ \A i \in 1 .. m : r[i] = q[i]
    BY <1>11, <1>12
  <2>2. \A i \in 1 .. m : first + i - 1 \in 1 .. l
    BY <1>8, <1>10
  <2> QED
    BY <1>11, <2>1, <2>2
<1>14. ClosedPath(s.stack, v) = r
  <2>1. ClosedPath(p, v) = Append(SubSeq(p, first, Len(p)), v)
    BY <1>7 DEF ClosedPath
  <2> QED
    BY <1>3, <1>4, <1>9, <1>12, <2>1
<1>15. r[1] = v
  <2>1. 1 \in 1 .. m /\ first + 1 - 1 = first
    BY <1>8
  <2> QED
    BY <1>8, <1>13, <2>1
<1>16. \A i \in 1 .. m : r[i + 1] \in next[r[i]]
  <2> SUFFICES ASSUME NEW i \in 1 .. m PROVE r[i + 1] \in next[r[i]]
    OBVIOUS
  <2>1. CASE i = m
    <3>1. first + i - 1 = l
      BY <1>8, <1>10, <2>1
    <3> QED
      BY <1>5, <1>13, <2>1, <3>1
  <2>2. CASE i # m
    <3>1. i + 1 \in 1 .. m /\ first + (i + 1) - 1 = (first + i - 1) + 1 /\ first + i - 1 \in 1 .. (l - 1)
      BY <1>8, <1>10, <2>2
    <3> QED
      BY <1>4, <1>13, <3>1
  <2> QED
    BY <2>1, <2>2
<1>17. \A i, j \in 1 .. m : i # j => r[i] # r[j]
  <2> SUFFICES ASSUME NEW i \in 1 .. m, NEW j \in 1 .. m, i # j PROVE r[i] # r[j]
    OBVIOUS
  <2>1. first + i - 1 # first + j - 1
    BY <1>8
  <2> QED
    BY <1>4, <1>13, <2>1
<1>18. IsCycle(r, next)
  <2>1. Len(r) > 1 /\ Len(r) - 1 = m /\ r[Len(r)] = v
    BY <1>13
  <2> QED
    BY <1>15, <1>16, <1>17, <2>1 DEF IsCycle
<1>19. HasCycle(V, next)
  <2> DEFINE S == {r[i] : i \in 1 .. m}
  <2>1. S \subseteq V
    BY <1>4, <1>13
  <2>2. v \in S
    <3>1. 1 \in 1 .. m
      BY <1>10
    <3> QED
      BY <1>15, <3>1
  <2>3. ASSUME NEW u \in S PROVE next[u] \cap S # {}
    <3>1. PICK i \in 1 .. m : u = r[i]
      BY <2>3
    <3>2. r[i + 1] \in S
      <4>1. CASE i = m
        BY <1>13, <2>2, <4>1
      <4>2. CASE i # m
        <5>1. i + 1 \in 1 .. m
          BY <4>2
        <5> QED
          BY <5>1
      <4> QED
        BY <4>1, <4>2
    <3> HIDE DEF S
    <3> QED
      BY <1>16, <3>1, <3>2
  <2> HIDE DEF S
  <2> QED
    BY <2>1, <2>2, <2>3 DEF HasCycle
<1> QED
  BY <1>13, <1>14, <1>18, <1>19

\* The search is right about every finite graph: it answers with a cycle if there
\* is one, and with nothing otherwise.
LEMMA FindsCycleOrNone ==
  ASSUME NEW V, NEW next, IsGraph(V, next)
  PROVE  Finds(FindCycle(V, next), V, next)
<1> DEFINE start == [stack |-> <<>>, color |-> [v \in V |-> "white"]]
           Right == {path \in Seq(V) : Finds(path, V, next)}
           measure == [s \in Searches(V) |-> Work(s)]
<1>1. PICK f : /\ IsTailRecursive(f, Searches(V), Halts(V, next), Moves(V, next), Answers(V, next))
               /\ FindCycle(V, next) = f[start]
  BY SearchIsDefined
<1>2. start \in Sane(V, next)
  BY StartsSane
<1>3. Sane(V, next) \in SUBSET Searches(V)
  BY DEF Sane
<1>4. measure \in [Searches(V) -> Nat]
  BY WhitesAreCounted DEF Work, IsGraph
<1>5. ASSUME NEW s \in Sane(V, next) \ Halts(V, next)
      PROVE  Moves(V, next)[s] \in Sane(V, next) /\ measure[Moves(V, next)[s]] < measure[s]
  <2>1. s \in Searches(V) \ Halts(V, next)
    BY <1>3
  <2>2. measure[Moves(V, next)[s]] < measure[s]
    BY <2>1, MovesOn
  <2>3. Moves(V, next)[s] \in Sane(V, next)
    BY <2>1, MovesOn, LeavesSane, VisitsSane
  <2> QED
    BY <2>2, <2>3
<1>6. ASSUME NEW s \in Sane(V, next) \cap Halts(V, next)
      PROVE  Answers(V, next)[s] \in Right
  <2>1. s \in Searches(V)
    BY <1>3
  <2>2. CASE Unvisited(next, s) = {}
    <3>1. s.stack = <<>> /\ Answers(V, next)[s] = <<>>
      BY <2>1, <2>2 DEF Halts, Answers
    <3>2. Len(s.stack) = 0 /\ s.color \in [V -> {"white", "gray", "black"}]
      BY <2>1, <3>1 DEF Searches
    <3>3. \A v \in V : s.color[v] # "white"
      BY <2>2, <3>1, <3>2 DEF Unvisited
    <3>4. \A v \in V : s.color[v] # "gray"
      BY <3>2 DEF Sane, IsSimple
    <3>5. Black(V, s) = V
      BY <3>2, <3>3, <3>4 DEF Black
    <3>6. ~HasCycle(V, next)
      BY <3>5 DEF Sane, IsDone
    <3> QED
      BY <3>1, <3>6, EmptySeq DEF Finds
  <2>3. CASE Unvisited(next, s) # {}
    <3>1. PICK v : v = Smallest(Unvisited(next, s))
      OBVIOUS
    <3>2. s.color[v] = "gray" /\ Answers(V, next)[s] = ClosedPath(s.stack, v)
      BY <2>1, <2>3, <3>1 DEF Halts, Answers
    <3>3. v \in V /\ v \in Unvisited(next, s)
      BY <2>1, <2>3, <3>1, UnvisitedIsIn
    <3>4. /\ ClosedPath(s.stack, v) \in Seq(V) /\ IsCycle(ClosedPath(s.stack, v), next)
          /\ HasCycle(V, next)
      BY <3>2, <3>3, ClosesCycle
    <3> QED
      BY <3>2, <3>4 DEF Finds
  <2> QED
    BY <2>2, <2>3
<1>7. f[start] \in Right
  <2> HIDE DEF start, Right, measure
  <2>1. Descends(Searches(V), Halts(V, next), Moves(V, next), Answers(V, next), measure,
                 Sane(V, next), Right)
    BY <1>3, <1>4, <1>5, <1>6 DEF Descends
  <2> QED
    BY <1>1, <1>2, <2>1, TailInduction
<1> QED
  BY <1>1, <1>7

-----------------------------------------------------------------------------
(* What is reachable *)

\* A set of nodes that has the roots and whatever follows its members.
HoldsAll(roots, next, C) == roots \subseteq C /\ \A n \in C : next[n] \subseteq C

LEMMA FurtherIsIn ==
  ASSUME NEW V, NEW next \in [V -> SUBSET V], NEW seen0 \in SUBSET V
  PROVE  /\ Further(next, seen0) \in SUBSET V /\ seen0 \subseteq Further(next, seen0)
         /\ \A n \in seen0 : next[n] \subseteq Further(next, seen0)
         /\ \A C : seen0 \subseteq C /\ (\A n \in C : next[n] \subseteq C) => Further(next, seen0) \subseteq C
BY DEF Further

\* The worklist finds what can be reached from the roots, and nothing else.
LEMMA ReachableIsLeast ==
  ASSUME NEW V, IsFiniteSet(V), NEW next \in [V -> SUBSET V], NEW roots \in SUBSET V
  PROVE  /\ Reachable(roots, next) \in SUBSET V
         /\ HoldsAll(roots, next, Reachable(roots, next))
         /\ \A C : HoldsAll(roots, next, C) => Reachable(roots, next) \subseteq C
<1> DEFINE S == SUBSET V
           Final == {s \in S : Further(next, s) = s}
           step == [s \in S |-> Further(next, s)]
           result == [s \in S |-> s]
           measure == [s \in S |-> Cardinality(V \ s)]
           grow == CHOOSE f : f = [s \in S |-> IF Further(next, s) = s THEN s ELSE f[Further(next, s)]]
<1>1. step \in [S -> S]
  BY FurtherIsIn
<1>2. ASSUME NEW s \in S
      PROVE  /\ IsFiniteSet(V \ s) /\ Cardinality(V \ s) \in Nat
             /\ \A t : s \subseteq t /\ s # t /\ t \subseteq V => Cardinality(V \ t) < Cardinality(V \ s)
  <2>1. IsFiniteSet(V \ s) /\ Cardinality(V \ s) \in Nat
    BY FS_Subset, FS_CardinalityType
  <2>2. ASSUME NEW t, s \subseteq t, s # t, t \subseteq V
        PROVE  Cardinality(V \ t) < Cardinality(V \ s)
    <3>1. PICK a, b : a = V \ s /\ b = V \ t
      OBVIOUS
    <3>2. b \in SUBSET a /\ a # b
      BY <2>2, <3>1
    <3>3. Cardinality(b) <= Cardinality(a) /\ Cardinality(a) # Cardinality(b) /\ Cardinality(b) \in Nat
      BY <2>1, <3>1, <3>2, FS_Subset, FS_CardinalityType
    <3> QED
      BY <2>1, <3>1, <3>3
  <2> QED
    BY <2>1, <2>2
<1>3. measure \in [S -> Nat]
  BY <1>2
<1>4. \A s \in S \ Final : measure[step[s]] < measure[s]
  <2> SUFFICES ASSUME NEW s \in S, Further(next, s) # s PROVE measure[step[s]] < measure[s]
    OBVIOUS
  <2>1. s \subseteq Further(next, s) /\ Further(next, s) \in S
    BY FurtherIsIn
  <2> QED
    BY <1>2, <2>1
<1>5. \E f : IsTailRecursive(f, S, Final, step, result)
  <2> HIDE DEF S, Final, step, result, measure
  <2> QED
    BY <1>1, <1>3, <1>4, TailRecursion
<1>6. \A f : [s \in S |-> IF Further(next, s) = s THEN s ELSE f[Further(next, s)]]
           = [s \in S |-> IF s \in Final THEN result[s] ELSE f[step[s]]]
  OBVIOUS
<1>7. IsTailRecursive(grow, S, Final, step, result)
  <2>1. \E f : f = [s \in S |-> IF Further(next, s) = s THEN s ELSE f[Further(next, s)]]
    <3> HIDE DEF S, Final, step, result
    <3> QED
      BY <1>5, <1>6 DEF IsTailRecursive
  <2>2. grow = [s \in S |-> IF Further(next, s) = s THEN s ELSE grow[Further(next, s)]]
    <3> HIDE DEF S
    <3> QED
      BY <2>1, Zenon
  <2> HIDE DEF grow, S, Final, step, result
  <2> QED
    BY <1>6, <2>2 DEF IsTailRecursive
<1>8. Reachable(roots, next) = grow[roots]
  <2>1. DOMAIN next = V
    OBVIOUS
  <2> QED
    BY <2>1, Zenon DEF Reachable
<1> DEFINE P == {s \in S : roots \subseteq s /\ \A C : HoldsAll(roots, next, C) => s \subseteq C}
           G == {s \in S : HoldsAll(roots, next, s) /\ \A C : HoldsAll(roots, next, C) => s \subseteq C}
<1>9. ASSUME NEW s \in P \ Final PROVE step[s] \in P
  <2>1. s \in S /\ roots \subseteq s /\ step[s] = Further(next, s)
    OBVIOUS
  <2>2. Further(next, s) \in S /\ s \subseteq Further(next, s)
    BY <2>1, FurtherIsIn
  <2>3. ASSUME NEW C, HoldsAll(roots, next, C) PROVE Further(next, s) \subseteq C
    <3>1. s \subseteq C
      BY <2>3
    <3> QED
      BY <2>1, <2>3, <3>1, FurtherIsIn DEF HoldsAll
  <2> QED
    BY <2>1, <2>2, <2>3
<1>10. ASSUME NEW s \in P \cap Final PROVE result[s] \in G
  <2>1. s \in S /\ roots \subseteq s /\ Further(next, s) = s /\ result[s] = s
    OBVIOUS
  <2>2. \A n \in s : next[n] \subseteq s
    BY <2>1, FurtherIsIn
  <2>3. \A C : HoldsAll(roots, next, C) => s \subseteq C
    OBVIOUS
  <2> QED
    BY <2>1, <2>2, <2>3 DEF HoldsAll
<1>11. roots \in P /\ P \in SUBSET S
  BY DEF HoldsAll
<1>12. grow[roots] \in G
  <2> HIDE DEF S, Final, step, result, measure, grow, P, G
  <2>1. \A s \in P \ Final : step[s] \in P /\ measure[step[s]] < measure[s]
    BY <1>4, <1>9, <1>11
  <2>2. \A s \in P \cap Final : result[s] \in G
    BY <1>10
  <2>3. \A s \in P : grow[s] \in G
    <3>1. Descends(S, Final, step, result, measure, P, G)
      BY <1>3, <1>11, <2>1, <2>2 DEF Descends
    <3> QED
      BY <1>7, <3>1, TailInduction
  <2> QED
    BY <1>11, <2>3
<1> HIDE DEF grow, step, result, Final, measure
<1>13. \A r \in G : r \in SUBSET V /\ HoldsAll(roots, next, r) /\ \A C : HoldsAll(roots, next, C) => r \subseteq C
  OBVIOUS
<1>14. Reachable(roots, next) \in G
  BY <1>8, <1>12
<1> HIDE DEF G, P, S
<1> QED
  BY <1>13, <1>14

-----------------------------------------------------------------------------
(* The graphs of a document and of the flows it refers to *)

LEMMA NodesAreFinite ==
  ASSUME IsDocument(doc)
  PROVE  Nodes(doc) \in SUBSET Nat /\ IsFiniteSet(Nodes(doc))
<1>1. PICK b \in Nat : Nodes(doc) = 1 .. b
  BY DEF IsDocument, Nodes
<1>2. IsFiniteSet(1 .. b) /\ 1 .. b \in SUBSET Nat
  BY FS_Interval
<1> QED
  BY <1>1, <1>2

LEMMA SearchesAreRight ==
  ASSUME IsDocument(doc), workspace.onDisk \in SUBSET Nat, IsFiniteSet(workspace.onDisk)
  PROVE  FindsCycle
<1>1. IsGraph(Guardless(doc), GuardlessNext(doc))
  <2>1. Guardless(doc) \in SUBSET Nat /\ IsFiniteSet(Guardless(doc))
    BY NodesAreFinite, FS_Subset DEF Guardless
  <2> QED
    BY <2>1 DEF IsGraph, GuardlessNext
<1>2. PICK loaded : loaded = Followed(Entry, workspace.refs, workspace.onDisk)
  OBVIOUS
<1>3. PICK next : next = ReferenceNext(Entry, workspace.refs, workspace.onDisk)
  OBVIOUS
<1>4. loaded \in SUBSET Nat /\ IsFiniteSet(loaded)
  <2>1. loaded \subseteq workspace.onDisk
    BY <1>2 DEF Followed
  <2> QED
    BY <2>1, FS_Subset
<1>5. next \in [loaded -> SUBSET loaded]
  BY <1>2, <1>3 DEF ReferenceNext
<1>6. Finds(FindCycle(loaded, next), loaded, next)
  BY <1>4, <1>5, FindsCycleOrNone DEF IsGraph
<1>7. Finds(GuardFreeCycle(doc), Guardless(doc), GuardlessNext(doc))
  BY <1>1, FindsCycleOrNone DEF GuardFreeCycle
<1>8. ReferenceCycle(Entry, workspace.refs, workspace.onDisk) = FindCycle(loaded, next)
  BY <1>2, <1>3 DEF ReferenceCycle
<1> QED
  BY <1>2, <1>3, <1>6, <1>7, <1>8 DEF FindsCycle

WorkspaceInv == workspace.onDisk \in SUBSET Nat /\ IsFiniteSet(workspace.onDisk)

LEMMA WorkspaceInit == Init => WorkspaceInv
<1> SUFFICES ASSUME Init PROVE WorkspaceInv
  OBVIOUS
<1>1. CASE workspace = Alone
  <2>1. workspace.onDisk = {Entry} /\ Entry \in Nat
    BY <1>1, WorkspacesAssumption DEF Alone
  <2> QED
    BY <2>1, FS_Singleton DEF WorkspaceInv
<1>2. CASE workspace \in Workspaces
  BY <1>2, WorkspacesAssumption DEF WorkspaceInv
<1> QED
  BY <1>1, <1>2 DEF Init

LEMMA InputsKept ==
  ASSUME [Next]_vars
  PROVE  doc' = doc /\ workspace' = workspace
BY DEF Next, Check, Seed, Dispatch, Start, Resume, FileChanges, GoesQuiet, vars, inputVars

\* The checker's search reports a cycle of a document, or of the references
\* between flows, exactly when there is one, and what it reports is one, however
\* large the graph is (_find_cycle).
THEOREM FindsCycleAlways == Spec => []FindsCycle
<1>1. WorkspaceInv /\ [Next]_vars => WorkspaceInv'
  BY InputsKept DEF WorkspaceInv
<1>2. RulesInv /\ WorkspaceInv => FindsCycle
  BY SearchesAreRight DEF RulesInv, DocInv, WorkspaceInv
<1> QED
  BY <1>1, <1>2, WorkspaceInit, RulesAlways, PTL DEF Spec

-----------------------------------------------------------------------------
(* What the gate warned about *)

\* Where a run can get: from the roots, along the edges.
LEMMA ReachedHolds ==
  ASSUME IsDocument(doc)
  PROVE  /\ Reached(doc) \subseteq Nodes(doc) /\ Roots(doc) \subseteq Reached(doc)
         /\ \A e \in doc.edges : e.from \in Reached(doc) => e.to \in Reached(doc)
<1>1. PICK V, next : V = Nodes(doc) /\ next = [n \in V |-> Successors(doc, n)]
  OBVIOUS
<1>2. IsFiniteSet(V) /\ Roots(doc) \in SUBSET V
  BY <1>1, NodesAreFinite DEF Roots
<1>3. next \in [V -> SUBSET V]
  BY <1>1 DEF Successors, IsDocument
<1>4. Reached(doc) = Reachable(Roots(doc), next)
  BY <1>1 DEF Reached
<1>5. Reached(doc) \in SUBSET V /\ HoldsAll(Roots(doc), next, Reached(doc))
  BY <1>2, <1>3, <1>4, ReachableIsLeast
<1>6. ASSUME NEW e \in doc.edges, e.from \in Reached(doc) PROVE e.to \in Reached(doc)
  <2>1. next[e.from] = Successors(doc, e.from) /\ next[e.from] \subseteq Reached(doc)
    BY <1>1, <1>5, <1>6 DEF HoldsAll
  <2> QED
    BY <2>1 DEF Successors
<1> QED
  BY <1>1, <1>5, <1>6 DEF HoldsAll

\* What happened is what the document lets expect.
Expected(h) ==
  /\ h.reached \subseteq Reached(doc)
  /\ \A u \in h.unhandled : u[2] # "none" => Diagnostic("W103", u[1]) \in UnconnectedOutputs(doc)

\* Nothing is on its way to a node that is out of reach.
Heading == {d \in Delivery : d.to \in Reached(doc)}
WithinReach == Expected(seen) /\ queue \in Seq(Heading)
TasksWithinReach ==
  /\ \E S : ready \in Seq(S) /\ \A f \in S : f.node \in Reached(doc)
  /\ \A f \in waiting : f.node \in Reached(doc)

ReportInv ==
  /\ \A d \in report : d.code = "W104" => d.node \notin Reached(doc)
  /\ seen.unhandled = {} \/ UnconnectedOutputs(doc) \subseteq report
  /\ phase # "loaded" => UnconnectedOutputs(doc) \subseteq report

WarnedInv == WithinReach /\ TasksWithinReach /\ ReportInv

LEMMA ReachesExpected ==
  ASSUME NEW n \in Reached(doc), IsSeen(seen), Expected(seen)
  PROVE  IsSeen(Reaches(n)) /\ Expected(Reaches(n))
<1>1. IsSeen(Reaches(n))
  BY ReachesIsSeen
<1>2. DOMAIN seen = {"reached", "rounds", "unhandled", "served"}
  BY DEF IsSeen
<1>3. Reaches(n).reached = seen.reached \cup {n} /\ Reaches(n).unhandled = seen.unhandled
  BY <1>2 DEF Reaches
<1> QED
  BY <1>1, <1>3 DEF Expected

LEMMA RoundExpected ==
  ASSUME NEW n \in Reached(doc), RulesInv, Expected(seen), NEW round
  PROVE  IsSeen(Noted(n, round)) /\ Expected(Noted(n, round))
<1>1. IsSeen(Reaches(n)) /\ Expected(Reaches(n))
  BY ReachesExpected DEF RulesInv, FramesInv
<1>2. PICK r : r = Reaches(n)
  OBVIOUS
<1>3. PICK rounds : rounds = [r.rounds EXCEPT ![n] = Append(r.rounds[n], round)]
  OBVIOUS
<1>4. Noted(n, round) = [r EXCEPT !.rounds = rounds]
  BY <1>2, <1>3 DEF Noted
<1>5. Noted(n, round) = [reached |-> r.reached, rounds |-> rounds,
                         unhandled |-> r.unhandled, served |-> r.served]
  BY <1>1, <1>2, <1>4 DEF IsSeen
<1>6. Expected(r)
  BY <1>1, <1>2
<1> QED
  BY ONLY <1>5, <1>6 DEF IsSeen, Expected

\* What a node in reach sends goes to nodes in reach; and only an output that
\* nothing is connected to can lose a failure.
LEMMA EmitIsExpected ==
  ASSUME DocInv, doc' = doc, sent \in 0 .. MessageBudget, NEW n \in Reached(doc), NEW port,
         NEW rest \in Seq(Heading), NEW h, IsSeen(h), Expected(h), NEW caught,
         Emit(n, port, rest, h, caught)
  PROVE  WithinReach'
<1>1. PICK a, k : a = Deliveries(n, port) /\ k = Room(n, port)
  OBVIOUS
<1>2. /\ k \in Nat /\ a \in Seq(Delivery) /\ Len(a) = k
      /\ \A i \in 1 .. k : Came(a[i].message, a[i].to, a[i].in)
  BY <1>1, Sends DEF DocInv
<1>3. \A i \in 1 .. k : a[i].message.from = n
  BY <1>1 DEF Deliveries
<1>4. a \in Seq(Heading)
  <2>1. ASSUME NEW i \in 1 .. k PROVE a[i] \in Heading
    <3>1. PICK e \in doc.edges : e.from = n /\ e.to = a[i].to
      BY <1>2, <1>3 DEF Came
    <3>2. e.to \in Reached(doc)
      BY <3>1, ReachedHolds DEF DocInv
    <3> QED
      BY <1>2, <3>1, <3>2 DEF Heading
  <2> QED
    BY <1>2, <2>1
<1>5. queue' = rest \o a
  BY <1>1 DEF Emit
<1>6. rest \o a \in Seq(Heading)
  BY <1>4
<1>7. Heading' = Heading
  BY DEF Heading, Delivery, Message
<1>8. Expected(seen)'
  <2>1. CASE EdgesFrom(n, port) = {} /\ ErrorClassPort(KindOf(n)) = port
    <3>1. seen' = [reached |-> h.reached, rounds |-> h.rounds,
                   unhandled |-> h.unhandled \cup {<<n, port>>}, served |-> h.served]
      BY <2>1 DEF Emit, IsSeen
    <3>2. ASSUME port # "none" PROVE Diagnostic("W103", n) \in UnconnectedOutputs(doc)
      <4>1. n \in Nodes(doc)
        BY ReachedHolds DEF DocInv
      <4>2. ErrorClassPort(doc.kinds[n]) = port /\ ~Feeds(doc, n, port)
        BY <2>1 DEF EdgesFrom, Feeds, KindOf
      <4>3. ErrorPort(doc.kinds[n]) = port
        BY <3>2, <4>2 DEF ErrorClassPort, ErrorPort
      <4> QED
        BY <3>2, <4>1, <4>2, <4>3 DEF UnconnectedOutputs
    <3> QED
      BY <3>1, <3>2 DEF Expected
  <2>2. CASE ~(EdgesFrom(n, port) = {} /\ ErrorClassPort(KindOf(n)) = port)
    <3>1. seen' = h
      BY <2>2 DEF Emit
    <3> QED
      BY <3>1 DEF Expected
  <2> QED
    BY <2>1, <2>2
<1> QED
  BY <1>5, <1>6, <1>7, <1>8 DEF WithinReach

LEMMA ErrorIsExpected ==
  ASSUME DocInv, doc' = doc, sent \in 0 .. MessageBudget, NEW n \in Reached(doc), queue \in Seq(Heading),
         NEW h, IsSeen(h), Expected(h), NodeError(n, h)
  PROVE  WithinReach'
<1>1. CASE KindOf(n) \in {"request", "python"}
  BY <1>1, EmitIsExpected DEF NodeError
<1>2. CASE KindOf(n) \notin {"request", "python"}
  <2>1. queue' = queue /\ seen' = [h EXCEPT !.unhandled = @ \cup {<<n, "none">>}]
    BY <1>2 DEF NodeError
  <2>2. seen' = [reached |-> h.reached, rounds |-> h.rounds,
                 unhandled |-> h.unhandled \cup {<<n, "none">>}, served |-> h.served]
    BY <2>1 DEF IsSeen
  <2>3. Expected(seen)'
    BY <2>2 DEF Expected
  <2>4. Heading' = Heading
    BY DEF Heading, Delivery, Message
  <2> QED
    BY <2>1, <2>3, <2>4 DEF WithinReach
<1> QED
  BY <1>1, <1>2

LEMMA ReachKept ==
  ASSUME WithinReach, doc' = doc, queue' \in Seq(Heading), Expected(seen')
  PROVE  WithinReach'
<1>1. Heading' = Heading
  BY DEF Heading, Delivery, Message
<1>2. Expected(seen)'
  BY DEF Expected
<1> QED
  BY <1>1, <1>2 DEF WithinReach

LEMMA TasksKept ==
  ASSUME TasksWithinReach, doc' = doc, ready' = ready, waiting' = waiting
  PROVE  TasksWithinReach'
BY DEF TasksWithinReach

LEMMA ReportKept ==
  ASSUME ReportInv, doc' = doc, report' = report, phase # "loaded"
  PROVE  ReportInv'
BY DEF ReportInv

LEMMA CheckIsExpected ==
  ASSUME WarnedInv, Check
  PROVE  WarnedInv'
<1>1. /\ doc' = doc /\ ready' = ready /\ queue' = queue /\ seen' = seen /\ waiting' = waiting
      /\ report' = RunDiagnostics(doc, Entry, workspace.refs, workspace.onDisk)
  BY DEF Check, inputVars, taskVars
<1>2. WithinReach' /\ TasksWithinReach'
  BY <1>1, ReachKept, TasksKept DEF WarnedInv, WithinReach
<1>3. UnconnectedOutputs(doc) \subseteq report'
  BY <1>1 DEF RunDiagnostics, FlowDiagnostics
<1>4. ASSUME NEW d \in report', d.code = "W104" PROVE d.node \notin Reached(doc)
  <2>1. \A code, n : code # "W104" => d # Diagnostic(code, n)
    BY <1>4 DEF Diagnostic
  <2>2. d \notin ReferenceErrors(Entry, workspace.refs, workspace.onDisk)
    BY <2>1 DEF ReferenceErrors
  <2>3. d \notin Cardinalities(doc) /\ d \notin EdgeErrors(doc) /\ d \notin MissingInputs(doc)
    BY <2>1 DEF Cardinalities, EdgeErrors, MissingInputs
  <2>4. d \notin BrokenReferences(doc) /\ d \notin UnguardedCycle(doc) /\ d \notin UnconnectedOutputs(doc)
    BY <2>1 DEF BrokenReferences, UnguardedCycle, UnconnectedOutputs
  <2>5. d \in Unreachable(doc)
    BY <1>1, <1>4, <2>2, <2>3, <2>4 DEF RunDiagnostics, FlowDiagnostics
  <2> QED
    BY <2>5 DEF Unreachable, Diagnostic
<1> QED
  BY <1>1, <1>2, <1>3, <1>4 DEF WarnedInv, ReportInv

LEMMA SeedIsExpected ==
  ASSUME RulesInv, WarnedInv, Seed
  PROVE  WarnedInv'
<1>1. PICK start : start = (CHOOSE n \in Nodes(doc) : KindOf(n) = "start")
  OBVIOUS
<1>2. /\ doc' = doc /\ waiting' = waiting /\ report' = report /\ phase = "bound"
      /\ ready' = SeededFixtures /\ Emit(start, "out", queue, Reaches(start), TRUE)
  BY <1>1 DEF Seed, inputVars
<1>3. DocInv /\ sent \in 0 .. MessageBudget /\ IsSeen(seen) /\ Sound
  BY <1>2 DEF RulesInv, QueueInv, FramesInv, GateInv
<1>4. Roots(doc) \subseteq Reached(doc)
  BY <1>3, ReachedHolds DEF DocInv
<1>5. start \in Reached(doc)
  <2>1. start \in Nodes(doc) /\ KindOf(start) = "start"
    BY <1>1, <1>3 DEF Sound
  <2> QED
    BY <1>4, <2>1 DEF Roots, KindOf
<1>6. WithinReach'
  BY <1>2, <1>3, <1>5, ReachesExpected, EmitIsExpected DEF WarnedInv, WithinReach
<1>7. TasksWithinReach'
  <2>1. PICK S : SeededFixtures \in Seq(S) /\ \A f \in S : f.node \in Roots(doc)
    BY <1>3, SeededAreComplete
  <2>2. ready' \in Seq(S) /\ \A f \in S : f.node \in Reached(doc')
    BY <1>2, <1>4, <2>1
  <2>3. \A f \in waiting' : f.node \in Reached(doc')
    BY <1>2 DEF WarnedInv, TasksWithinReach
  <2> QED
    BY <2>2, <2>3 DEF TasksWithinReach
<1>8. ReportInv'
  BY <1>2, ReportKept DEF WarnedInv
<1> QED
  BY <1>6, <1>7, <1>8 DEF WarnedInv

LEMMA DispatchIsExpected ==
  ASSUME RulesInv, WarnedInv, Dispatch
  PROVE  WarnedInv'
<1>1. PICK d, rest : d = Head(queue) /\ rest = Tail(queue)
  OBVIOUS
<1>2. /\ phase = "running" /\ queue # <<>> /\ doc' = doc /\ waiting' = waiting /\ report' = report
      /\ ToEnd(d) \/ ToAll(d) \/ ToAny(d) \/ ToCollect(d) \/ ToGuard(d) \/ ToTask(d)
  BY <1>1 DEF Dispatch, inputVars
<1>3. DocInv /\ sent \in 0 .. MessageBudget /\ IsSeen(seen)
  BY DEF RulesInv, QueueInv, FramesInv
<1>4. rest \in Seq(Heading) /\ d \in Heading
  BY <1>1, <1>2 DEF WarnedInv, WithinReach
<1>5. PICK n \in Reached(doc) : n = d.to
  BY <1>4 DEF Heading
<1>6. IsSeen(Reaches(n)) /\ Expected(Reaches(n)) /\ Expected(seen)
  BY <1>3, ReachesExpected DEF WarnedInv, WithinReach
<1>7. ASSUME NEW round, MergeEmits(n, round) PROVE WithinReach'
  <2>1. PICK h : h = Noted(n, round)
    OBVIOUS
  <2>2. IsSeen(h) /\ Expected(h)
    BY <1>6, <2>1, RoundExpected
  <2>3. Emit(n, "out", rest, h, TRUE)
    BY <1>1, <1>7, <2>1 DEF MergeEmits, Noted
  <2> QED
    BY <1>2, <1>3, <1>4, <2>2, <2>3, EmitIsExpected
<1>8. ASSUME NEW left, NEW port, Passes(n, left, port, d) PROVE WithinReach'
  BY <1>1, <1>2, <1>3, <1>4, <1>6, <1>8, EmitIsExpected DEF Passes
<1>9. Absorbs => WithinReach'
  BY <1>1, <1>2, <1>4, <1>6, ReachKept DEF Absorbs, WarnedInv
<1>10. ToEnd(d) => WithinReach'
  BY <1>1, <1>2, <1>4, <1>5, <1>6, ReachKept DEF ToEnd, WarnedInv
<1>11. WithinReach'
  <2>1. CASE ToAll(d)
    BY <1>5, <1>7, <1>9, <2>1 DEF ToAll
  <2>2. CASE ToAny(d)
    BY <1>5, <1>7, <2>2 DEF ToAny
  <2>3. CASE ToCollect(d)
    BY <1>5, <1>7, <1>9, <2>3 DEF ToCollect
  <2>4. CASE ToGuard(d)
    BY <1>5, <1>8, <1>9, <2>4 DEF ToGuard, Counts, Clocks
  <2>5. CASE ToTask(d)
    BY <1>1, <1>2, <1>4, <1>6, <2>5, ReachKept DEF ToTask, WarnedInv
  <2> QED
    BY <1>2, <1>10, <2>1, <2>2, <2>3, <2>4, <2>5
<1>12. TasksWithinReach'
  <2>1. ready' = ready \/ \E v : ready' = Append(ready, Firing(n, v))
    BY <1>2, <1>5 DEF ToEnd, ToAll, ToAny, ToCollect, ToGuard, ToTask
  <2>2. PICK S : ready \in Seq(S) /\ \A f \in S : f.node \in Reached(doc)
    BY DEF WarnedInv, TasksWithinReach
  <2>3. ASSUME NEW v, ready' = Append(ready, Firing(n, v)) PROVE TasksWithinReach'
    <3>1. PICK f, T : f = Firing(n, v) /\ T = S \cup {f}
      OBVIOUS
    <3>2. \A g \in T : g.node \in Reached(doc)
      BY <2>2, <3>1 DEF Firing
    <3>3. ready' \in Seq(T)
      <4>1. ready \in Seq(T) /\ f \in T
        BY <2>2, <3>1
      <4> QED
        BY <2>3, <3>1, <4>1
    <3> QED
      BY <1>2, <3>2, <3>3 DEF WarnedInv, TasksWithinReach
  <2> QED
    BY <1>2, <2>1, <2>3, TasksKept DEF WarnedInv
<1> QED
  BY <1>2, <1>11, <1>12, ReportKept DEF WarnedInv

LEMMA StartIsExpected ==
  ASSUME RulesInv, WarnedInv, Start
  PROVE  WarnedInv'
<1>1. PICK f, n : f = Head(ready) /\ n = f.node
  OBVIOUS
<1>2. /\ phase = "running" /\ ready # <<>> /\ ready' = Tail(ready) /\ doc' = doc /\ report' = report
      /\ RunsAtOnce(f) \/ RunsFixture(f) \/ BeginsToWait(f)
  BY <1>1 DEF Start, inputVars
<1>3. DocInv /\ sent \in 0 .. MessageBudget /\ IsSeen(seen) /\ WithinReach /\ queue \in Seq(Heading)
  BY DEF RulesInv, QueueInv, FramesInv, WarnedInv, WithinReach
<1>4. PICK S : ready \in Seq(S) /\ \A g \in S : g.node \in Reached(doc)
  BY DEF WarnedInv, TasksWithinReach
<1>5. n \in Reached(doc) /\ ready' \in Seq(S)
  <2>1. f \in S /\ Tail(ready) \in Seq(S)
    BY <1>1, <1>2, <1>4
  <2> QED
    BY <1>1, <1>2, <1>4, <2>1
<1>6. IsSeen(Reaches(n)) /\ Expected(Reaches(n))
  BY <1>3, <1>5, ReachesExpected DEF WithinReach
<1>7. NodeError(n, Reaches(n)) => WithinReach'
  BY <1>2, <1>3, <1>5, <1>6, ErrorIsExpected
<1>8. CASE RunsAtOnce(f)
  <2>1. waiting' = waiting
    BY <1>8 DEF RunsAtOnce
  <2>2. (\E port : Emit(n, port, queue, Reaches(n), TRUE)) \/ NodeError(n, Reaches(n))
    BY <1>1, <1>8 DEF RunsAtOnce
  <2>3. WithinReach'
    BY <1>2, <1>3, <1>5, <1>6, <1>7, <2>2, EmitIsExpected
  <2>4. TasksWithinReach'
    BY <1>2, <1>4, <1>5, <2>1 DEF WarnedInv, TasksWithinReach
  <2> QED
    BY <1>2, <2>3, <2>4, ReportKept DEF WarnedInv
<1>9. CASE RunsFixture(f)
  <2>1. waiting' = waiting /\ LoadFixture(n)
    BY <1>1, <1>9 DEF RunsFixture
  <2>2. ASSUME NEW v, Serves(n, v) PROVE WithinReach'
    <3>1. PICK h : h = [Reaches(n) EXCEPT !.served = @ \cup {v}]
      OBVIOUS
    <3>2. IsSeen(h) /\ Expected(h)
      BY <1>6, <3>1 DEF IsSeen, Expected
    <3>3. Emit(n, "value", queue, h, TRUE)
      BY <2>2, <3>1 DEF Serves
    <3> QED
      BY <1>2, <1>3, <1>5, <3>2, <3>3, EmitIsExpected
  <2>3. ASSUME Crashes(n) PROVE WithinReach'
    <3>1. queue' = queue /\ seen' = Reaches(n)
      BY <2>3 DEF Crashes
    <3> QED
      BY <1>2, <1>3, <1>6, <3>1, ReachKept
  <2>4. WithinReach'
    BY <1>7, <2>1, <2>2, <2>3 DEF LoadFixture
  <2>5. TasksWithinReach'
    BY <1>2, <1>4, <1>5, <2>1 DEF WarnedInv, TasksWithinReach
  <2> QED
    BY <1>2, <2>4, <2>5, ReportKept DEF WarnedInv
<1>10. CASE BeginsToWait(f)
  <2>1. queue' = queue /\ seen' = Reaches(n) /\ waiting' = waiting \cup {f}
    BY <1>1, <1>10 DEF BeginsToWait
  <2>2. WithinReach'
    BY <1>2, <1>3, <1>6, <2>1, ReachKept
  <2>3. TasksWithinReach'
    BY <1>1, <1>2, <1>4, <1>5, <2>1 DEF WarnedInv, TasksWithinReach
  <2> QED
    BY <1>2, <2>2, <2>3, ReportKept DEF WarnedInv
<1> QED
  BY <1>2, <1>8, <1>9, <1>10

LEMMA ResumeIsExpected ==
  ASSUME RulesInv, WarnedInv, Resume
  PROVE  WarnedInv'
<1>1. phase = "running" /\ doc' = doc /\ report' = report /\ ready' = ready
  BY DEF Resume, inputVars
<1>2. PICK f \in waiting : Returns(f) \/ Breaks(f) \/ Retries(f)
  BY DEF Resume
<1>3. /\ DocInv /\ sent \in 0 .. MessageBudget /\ IsSeen(seen) /\ WithinReach
      /\ queue \in Seq(Heading) /\ Expected(seen) /\ Complete(f)
  BY DEF RulesInv, QueueInv, FramesInv, WaitingInv, WarnedInv, WithinReach
<1>4. PICK n \in Reached(doc) : n = f.node
  BY DEF WarnedInv, TasksWithinReach
<1>5. WithinReach'
  <2>1. CASE Returns(f)
    BY <1>1, <1>3, <1>4, <2>1, EmitIsExpected DEF Returns
  <2>2. CASE Breaks(f)
    BY <1>1, <1>3, <1>4, <2>2, ErrorIsExpected DEF Breaks
  <2>3. CASE Retries(f)
    BY <1>1, <1>3, <2>3, ReachKept DEF Retries
  <2> QED
    BY <1>2, <2>1, <2>2, <2>3
<1>6. \A g \in waiting' : g.node \in Reached(doc)
  <2>1. \A g \in waiting' : g \in waiting \/ g = [f EXCEPT !.attempt = @ + 1]
    BY <1>2 DEF Returns, Breaks, Retries
  <2>2. [f EXCEPT !.attempt = @ + 1].node = f.node
    BY <1>3 DEF Complete
  <2> QED
    BY <1>4, <2>1, <2>2 DEF WarnedInv, TasksWithinReach
<1>7. TasksWithinReach'
  BY <1>1, <1>6 DEF WarnedInv, TasksWithinReach
<1> QED
  BY <1>1, <1>5, <1>7, ReportKept DEF WarnedInv

LEMMA WarnedKeeps ==
  ASSUME RulesInv, WarnedInv, [Next]_vars
  PROVE  WarnedInv'
<1>1. CASE FileChanges \/ GoesQuiet
  <2>1. /\ doc' = doc /\ ready' = ready /\ queue' = queue /\ seen' = seen /\ waiting' = waiting
        /\ report' = report /\ phase = "running"
    BY <1>1 DEF FileChanges, GoesQuiet, inputVars, taskVars
  <2> QED
    BY <2>1, ReachKept, TasksKept, ReportKept DEF WarnedInv, WithinReach
<1>2. CASE UNCHANGED vars
  <2>1. /\ doc' = doc /\ ready' = ready /\ queue' = queue /\ seen' = seen /\ waiting' = waiting
        /\ report' = report /\ phase' = phase
    BY <1>2 DEF vars, inputVars, taskVars
  <2>2. ReportInv'
    BY <2>1 DEF WarnedInv, ReportInv
  <2> QED
    BY <2>1, <2>2, ReachKept, TasksKept DEF WarnedInv, WithinReach
<1> QED
  BY <1>1, <1>2, CheckIsExpected, SeedIsExpected, DispatchIsExpected, StartIsExpected, ResumeIsExpected
  DEF Next

LEMMA WarnedInit == Init => WarnedInv
<1> SUFFICES ASSUME Init PROVE WarnedInv
  OBVIOUS
<1>1. /\ queue = <<>> /\ ready = <<>> /\ waiting = {} /\ report = {} /\ phase = "loaded"
      /\ seen.reached = {} /\ seen.unhandled = {}
  BY DEF Init, NoHistory
<1>2. WithinReach
  BY <1>1 DEF WithinReach, Expected
<1>3. TasksWithinReach
  <2>1. <<>> \in Seq({})
    OBVIOUS
  <2> QED
    BY <1>1, <2>1 DEF TasksWithinReach
<1> QED
  BY <1>1, <1>2, <1>3 DEF WarnedInv, ReportInv

-----------------------------------------------------------------------------
(* The ledger of a run: what has been sent, and what each message, firing  *)
(* and pass of a counter that is left can still cause. A run has at most a *)
(* message for every journey.                                              *)

\* What can come of a message that has reached n: the ways on from there.
Ways(n) == {S \in SUBSET FreeEdges : IsPath(S, n)}

LEMMA Fits ==
  ASSUME NEW S, NEW T, NEW f, \A x \in S : f[x] \in T, \A x, y \in S : f[x] = f[y] => x = y
  PROVE  ExistsInjection(S, T)
<1>1. PICK g : g = [x \in S |-> f[x]]
  OBVIOUS
<1>2. g \in [S -> T] /\ \A x, y \in S : g[x] = g[y] => x = y
  BY <1>1
<1>3. g \in Injection(S, T)
  BY <1>2, Fun_IsInj
<1> QED
  BY <1>3, Fun_ExistsInj

\* Without a runaway loop nothing can be followed backwards for ever: the last
\* of a smallest set in which everything has a predecessor could be left out.
LEMMA NoWayBack ==
  ASSUME IsDocument(doc), ~HasRunaway, NEW C \in SUBSET Nodes(doc), C # {},
         \A u \in C : \E e \in FreeEdges : e.to = u /\ e.from \in C
  PROVE  FALSE
<1> DEFINE IsBack(D) == /\ D \in SUBSET Nodes(doc) /\ D # {}
                        /\ \A u \in D : \E e \in FreeEdges : e.to = u /\ e.from \in D
           sizes == {Cardinality(D) : D \in {B \in SUBSET Nodes(doc) : IsBack(B)}}
<1>1. \A D \in SUBSET Nodes(doc) : IsFiniteSet(D) /\ Cardinality(D) \in Nat
  BY NodesAreFinite, FS_Subset, FS_CardinalityType
<1>2. sizes \in SUBSET Nat /\ sizes # {}
  BY <1>1
<1>3. PICK D \in SUBSET Nodes(doc) : IsBack(D) /\ \A c \in sizes : Cardinality(D) <= c
  <2>1. PICK c \in sizes : \A d \in sizes : c <= d
    <3> HIDE DEF sizes
    <3> QED
      BY <1>2, LeastNat
  <2> QED
    BY <2>1
<1>4. PICK z \in D : \A e \in FreeEdges : e.from = z => e.to \notin D
  <2>1. PICK next : next = [n \in Nodes(doc) |-> {e.to : e \in {f \in FreeEdges : f.from = n}}]
    OBVIOUS
  <2>2. ~HasCycle(Nodes(doc), next)
    BY <2>1 DEF HasRunaway
  <2>3. PICK z \in D : next[z] \cap D = {}
    BY <1>3, <2>2 DEF HasCycle
  <2>4. z \in Nodes(doc)
    OBVIOUS
  <2>5. \A e \in FreeEdges : e.from = z => e.to \in next[z]
    BY <2>1, <2>4
  <2> QED
    BY <2>3, <2>5
<1>5. IsBack(D \ {z})
  <2>1. PICK e \in FreeEdges : e.to = z /\ e.from \in D
    BY <1>3
  <2>2. e.from # z
    BY <1>4, <2>1
  <2>3. \A u \in D : \E g \in FreeEdges : g.to = u /\ g.from \in D \ {z}
    BY <1>3, <1>4
  <2> QED
    BY <2>1, <2>2, <2>3
<1>6. Cardinality(D \ {z}) \in sizes
  BY <1>5
<1>7. Cardinality(D \ {z}) = Cardinality(D) - 1
  BY <1>1, FS_RemoveElement
<1> HIDE DEF sizes
<1> QED
  BY <1>1, <1>3, <1>6, <1>7

\* A way goes on over an edge that comes before it, and does not come back.
LEMMA WayOn ==
  ASSUME IsDocument(doc), ~HasRunaway, NEW e \in FreeEdges, NEW S \in Ways(e.to)
  PROVE  S \cup {e} \in Ways(e.from) /\ \A f \in S : f.from # e.from
<1>1. S \in SUBSET FreeEdges /\ IsPath(S, e.to)
  BY DEF Ways
<1>2. ASSUME NEW f \in S, f.from = e.from PROVE FALSE
  <2>1. PICK C : C = {g.from : g \in S}
    OBVIOUS
  <2>2. C \in SUBSET Nodes(doc) /\ C # {}
    BY <1>1, <2>1 DEF IsDocument, FreeEdges
  <2>3. ASSUME NEW g \in S PROVE \E h \in FreeEdges : h.to = g.from /\ h.from \in C
    <3>1. CASE g.from = e.to
      BY <1>2, <2>1, <3>1
    <3>2. CASE \E h \in S : h.to = g.from
      BY <1>1, <2>1, <3>2
    <3> QED
      BY <1>1, <3>1, <3>2 DEF IsPath
  <2>4. \A u \in C : \E h \in FreeEdges : h.to = u /\ h.from \in C
    BY <2>1, <2>3
  <2> QED
    BY <2>2, <2>4, NoWayBack
<1>3. IsPath(S \cup {e}, e.from)
  BY <1>1, <1>2 DEF IsPath
<1> QED
  BY <1>1, <1>2, <1>3 DEF Ways

LEMMA EmptyWay == \A n : {} \in Ways(n)
BY DEF Ways, IsPath

LEMMA JourneysAreFinite ==
  ASSUME IsDocument(doc)
  PROVE  IsFiniteSet(Journeys)
<1> DEFINE R == {<<n>> : n \in Roots(doc)}
           L == {<<e.to, e, lap>> : e \in doc.edges \ FreeEdges, lap \in 1 .. Laps}
<1>1. IsFiniteSet(R)
  <2>1. IsFiniteSet(Roots(doc))
    BY NodesAreFinite, FS_Subset DEF Roots
  <2>2. PICK f : f = [n \in Roots(doc) |-> <<n>>]
    OBVIOUS
  <2>3. f \in [Roots(doc) -> R] /\ \A t \in R : \E n \in Roots(doc) : f[n] = t
    BY <2>2
  <2>4. f \in Surjection(Roots(doc), R)
    BY <2>3, Fun_IsSurj
  <2> QED
    BY <2>1, <2>4, FS_Surjection
<1>2. IsFiniteSet(doc.edges \ FreeEdges) /\ IsFiniteSet(FreeEdges)
  BY FS_Subset DEF IsDocument, FreeEdges
<1>3. IsFiniteSet(L)
  <2>1. PICK D : D = (doc.edges \ FreeEdges) \X (1 .. Laps)
    OBVIOUS
  <2>2. IsFiniteSet(1 .. Laps)
    BY LimitsAssumption, FS_Interval
  <2>3. IsFiniteSet(D)
    BY <1>2, <2>1, <2>2, FS_Product
  <2>4. PICK f : f = [x \in D |-> <<x[1].to, x[1], x[2]>>]
    OBVIOUS
  <2>5. f \in [D -> L]
    BY <2>1, <2>4
  <2>6. ASSUME NEW t \in L PROVE \E x \in D : f[x] = t
    <3>1. PICK e \in doc.edges \ FreeEdges, lap \in 1 .. Laps : t = <<e.to, e, lap>>
      OBVIOUS
    <3>2. <<e, lap>> \in D /\ f[<<e, lap>>] = t
      BY <2>1, <2>4, <3>1
    <3> QED
      BY <3>2
  <2>7. f \in Surjection(D, L)
    BY <2>5, <2>6, Fun_IsSurj
  <2> QED
    BY <2>3, <2>7, FS_Surjection
<1>4. Origins = R \cup L
  BY DEF Origins
<1> HIDE DEF R, L
<1>5. IsFiniteSet(Origins \X SUBSET FreeEdges)
  BY <1>1, <1>2, <1>3, <1>4, FS_Union, FS_SUBSET, FS_Product
<1> QED
  BY <1>5, FS_Subset DEF Journeys

\* The passes that the counters are still good for, over each edge.
LapsLeft(left) == {l \in (doc.edges \ FreeEdges) \X (Nat \ {0}) : l[2] <= left[l[1].from]}

\* m messages have been sent; at says where each item on its way is, and left
\* what the counters have left.
SentOff(m) == {<<"sent", i, {}>> : i \in 1 .. m}
Held(at) == UNION {{<<"held", t, S>> : S \in Ways(at[t]) \ {{}}} : t \in DOMAIN at}
ToPass(left) == UNION {{<<"lap", l, S>> : S \in Ways(l[1].to)} : l \in LapsLeft(left)}
Owed(at, m, left) == SentOff(m) \cup Held(at) \cup ToPass(left)

LEMMA IsHeld ==
  ASSUME NEW at, NEW t, NEW S
  PROVE  <<"held", t, S>> \in Held(at) <=> t \in DOMAIN at /\ S \in Ways(at[t]) \ {{}}
BY DEF Held

LEMMA OnlyHeld ==
  ASSUME NEW at, NEW x \in Held(at)
  PROVE  x = <<"held", x[2], x[3]>> /\ x[2] \in DOMAIN at /\ x[3] \in Ways(at[x[2]]) \ {{}}
<1>1. PICK t \in DOMAIN at : x \in {<<"held", t, S>> : S \in Ways(at[t]) \ {{}}}
  BY DEF Held
<1> QED
  BY <1>1

LEMMA OthersOwed ==
  ASSUME NEW m, NEW left
  PROVE  /\ \A x \in SentOff(m) : x = <<"sent", x[2], {}>> /\ x[2] \in 1 .. m
         /\ \A x \in ToPass(left) : x = <<"lap", x[2], x[3]>> /\ x[2] \in LapsLeft(left)
<1>1. ASSUME NEW x \in ToPass(left) PROVE x = <<"lap", x[2], x[3]>> /\ x[2] \in LapsLeft(left)
  <2>1. PICK l \in LapsLeft(left) : x \in {<<"lap", l, S>> : S \in Ways(l[1].to)}
    BY DEF ToPass
  <2> QED
    BY <2>1
<1> QED
  BY <1>1 DEF SentOff

LEMMA OwedLeft ==
  ASSUME NEW at, NEW m, NEW left, NEW now,
         \A e \in doc.edges \ FreeEdges : now[e.from] = left[e.from]
  PROVE  Owed(at, m, now) = Owed(at, m, left)
<1>1. LapsLeft(now) = LapsLeft(left)
  BY DEF LapsLeft
<1> QED
  BY <1>1 DEF Owed, ToPass

\* What is on its way in one state, somewhere else in another.
Covers(here, there) ==
  \E h \in [DOMAIN here -> DOMAIN there] :
    \A t, u \in DOMAIN here : /\ here[t] = there[h[t]]
                              /\ h[t] = h[u] => t = u

LEMMA CoveredOwes ==
  ASSUME NEW here, NEW there, Covers(here, there), NEW m, NEW left
  PROVE  ExistsInjection(Owed(here, m, left), Owed(there, m, left))
<1>1. PICK h \in [DOMAIN here -> DOMAIN there] :
        \A t, u \in DOMAIN here : here[t] = there[h[t]] /\ (h[t] = h[u] => t = u)
  BY DEF Covers
<1> DEFINE f == [x \in Owed(here, m, left) |->
                   IF x \in Held(here) THEN <<"held", h[x[2]], x[3]>> ELSE x]
<1>2. ASSUME NEW x \in Held(here)
      PROVE  /\ x = <<"held", x[2], x[3]>> /\ x[2] \in DOMAIN here
             /\ <<"held", h[x[2]], x[3]>> \in Held(there)
  BY <1>1, OnlyHeld, IsHeld
<1>3. \A x \in Owed(here, m, left) : f[x] \in Owed(there, m, left)
  BY <1>2 DEF Owed
<1>4. \A x \in SentOff(m) \cup ToPass(left) : x[1] # "held"
  BY OthersOwed
<1>5. ASSUME NEW x \in Owed(here, m, left), NEW y \in Owed(here, m, left), f[x] = f[y] PROVE x = y
  <2>1. CASE x \in Held(here) /\ y \in Held(here)
    <3>1. h[x[2]] = h[y[2]] /\ x[3] = y[3]
      BY <1>5, <2>1
    <3>2. x[2] = y[2]
      BY <1>1, <1>2, <2>1, <3>1
    <3> QED
      BY <1>2, <2>1, <3>1, <3>2
  <2>2. CASE x \notin Held(here) /\ y \notin Held(here)
    BY <1>5, <2>2
  <2>3. CASE x \in Held(here) <=> y \notin Held(here)
    <3>1. f[x][1] = "held" <=> f[y][1] # "held"
      BY <1>4, <2>3 DEF Owed
    <3> QED
      BY <1>5, <3>1
  <2> QED
    BY <2>1, <2>2, <2>3
<1> HIDE DEF f
<1> QED
  BY <1>3, <1>5, Fits

\* Item p is gone from the ones on their way; and in its place the messages are
\* on their way that it sent over the edges of s.
Without(at, p) == [t \in DOMAIN at \ {p} |-> at[t]]
Sending(at, p, s) ==
  [t \in (DOMAIN at \ {p}) \cup ({0} \X DOMAIN s) |-> IF t \in DOMAIN at THEN at[t] ELSE s[t[2]].to]

LEMMA WithoutOwes ==
  ASSUME NEW at, NEW p, NEW m, NEW left
  PROVE  /\ Owed(Without(at, p), m, left) \subseteq Owed(at, m, left)
         /\ \A S : <<"held", p, S>> \notin Owed(Without(at, p), m, left)
<1>1. \A x \in Held(Without(at, p)) : x \in Held(at) /\ x[2] # p
  <2>1. ASSUME NEW x \in Held(Without(at, p)) PROVE x \in Held(at) /\ x[2] # p
    <3>1. /\ x = <<"held", x[2], x[3]>> /\ x[2] \in DOMAIN at \ {p}
          /\ x[3] \in Ways(at[x[2]]) \ {{}}
      BY OnlyHeld DEF Without
    <3> QED
      BY <3>1, IsHeld
  <2> QED
    BY <2>1
<1>2. ASSUME NEW S, <<"held", p, S>> \in Owed(Without(at, p), m, left) PROVE FALSE
  BY <1>1, <1>2, OthersOwed DEF Owed
<1> QED
  BY <1>1, <1>2 DEF Owed

\* What is sent, with all that can follow, was owed: each message with what
\* follows it is paid for by something that is not owed any longer.
Pairs(s) == UNION {{<<j, S>> : S \in Ways(s[j].to)} : j \in DOMAIN s}
Pays(w, s, before, after) ==
  /\ after \subseteq before
  /\ \A x \in Pairs(s) : w[x] \in before \ after
  /\ \A x, y \in Pairs(s) : w[x] = w[y] => x = y

LEMMA SendingOwes ==
  ASSUME NEW at, NEW p, \A t \in DOMAIN at : t[1] # 0, NEW m \in Nat, NEW k \in Nat, NEW s,
         DOMAIN s = 1 .. k, NEW left, NEW now, NEW w,
         Pays(w, s, Owed(at, m, left), Owed(Without(at, p), m, now))
  PROVE  ExistsInjection(Owed(Sending(at, p, s), m + k, now), Owed(at, m, left))
<1>1. PICK B, A : B = Owed(at, m, left) /\ A = Owed(Without(at, p), m, now)
  OBVIOUS
<1> DEFINE Item(q) == IF q[2] = {} THEN <<"sent", m + q[1], {}>> ELSE <<"held", <<0, q[1]>>, q[2]>>
           N == Owed(Sending(at, p, s), m + k, now)
           K == [x \in N |-> CHOOSE q \in Pairs(s) : x = Item(q)]
           f == [x \in N |-> IF x \in A THEN x ELSE w[K[x]]]
<1>2. ASSUME NEW x \in N, x \notin A PROVE \E q \in Pairs(s) : x = Item(q)
  <2>1. CASE x \in SentOff(m + k)
    <3>1. x = <<"sent", x[2], {}>> /\ x[2] \in 1 .. m + k
      BY <2>1, OthersOwed
    <3>2. x[2] \notin 1 .. m
      <4>1. x \notin SentOff(m)
        BY <1>1, <1>2 DEF Owed
      <4> QED
        BY <3>1, <4>1 DEF SentOff
    <3>3. PICK j \in 1 .. k : x[2] = m + j
      <4>1. x[2] - m \in 1 .. k /\ x[2] = m + (x[2] - m)
        BY <3>1, <3>2
      <4> QED
        BY <4>1
    <3>4. <<j, {}>> \in Pairs(s)
      <4>1. {} \in Ways(s[j].to)
        BY EmptyWay
      <4> QED
        BY <4>1 DEF Pairs
    <3>5. x = Item(<<j, {}>>)
      BY <3>1, <3>3
    <3> QED
      BY <3>4, <3>5
  <2>2. CASE x \in Held(Sending(at, p, s))
    <3>1. PICK t, S : x = <<"held", t, S>> /\ t \in DOMAIN Sending(at, p, s)
                      /\ S \in Ways(Sending(at, p, s)[t]) \ {{}}
      BY <2>2, OnlyHeld
    <3>2. t \notin DOMAIN at \ {p}
      <4>1. ASSUME t \in DOMAIN at \ {p} PROVE FALSE
        <5>1. Sending(at, p, s)[t] = at[t]
          BY <4>1 DEF Sending
        <5>2. Without(at, p)[t] = at[t] /\ t \in DOMAIN Without(at, p)
          BY <4>1 DEF Without
        <5>3. S \in Ways(Without(at, p)[t]) \ {{}}
          BY <3>1, <5>1, <5>2
        <5>4. <<"held", t, S>> \in Held(Without(at, p))
          BY <5>2, <5>3, IsHeld
        <5> QED
          BY <1>1, <1>2, <3>1, <5>4 DEF Owed
      <4> QED
        BY <4>1
    <3>3. PICK j \in 1 .. k : t = <<0, j>>
      BY <3>1, <3>2 DEF Sending
    <3>4. Sending(at, p, s)[t] = s[j].to
      BY <3>1, <3>3 DEF Sending
    <3>5. <<j, S>> \in Pairs(s)
      BY <3>1, <3>4 DEF Pairs
    <3>6. x = Item(<<j, S>>)
      BY <3>1, <3>3
    <3> QED
      BY <3>5, <3>6
  <2>3. CASE x \in ToPass(now)
    BY <1>1, <1>2, <2>3 DEF Owed
  <2> QED
    BY <2>1, <2>2, <2>3 DEF Owed
<1>3. A \subseteq B /\ (\A x \in Pairs(s) : w[x] \in B \ A) /\ \A x, y \in Pairs(s) : w[x] = w[y] => x = y
  BY <1>1 DEF Pays
<1> HIDE DEF N, Item
<1>4. \A x \in N : x \notin A => K[x] \in Pairs(s) /\ x = Item(K[x])
  BY <1>2
<1>5. \A x \in N : f[x] = IF x \in A THEN x ELSE w[K[x]]
  OBVIOUS
<1> HIDE DEF K
<1>6. \A x \in N : x \notin A => K[x] \in Pairs(s)
  BY <1>4
<1>7. \A x, y \in N : x \notin A /\ y \notin A /\ K[x] = K[y] => x = y
  BY <1>4
<1> HIDE DEF f
<1>8. \A x \in N : f[x] \in B
  BY <1>3, <1>5, <1>6
<1>9. \A x, y \in N : f[x] = f[y] => x = y
  <2> SUFFICES ASSUME NEW x \in N, NEW y \in N, f[x] = f[y] PROVE x = y
    OBVIOUS
  <2>1. CASE x \in A /\ y \in A
    BY <1>5, <2>1
  <2>2. CASE x \notin A /\ y \notin A
    <3>1. w[K[x]] = w[K[y]]
      BY <1>5, <2>2
    <3>2. K[x] = K[y]
      BY <1>3, <1>6, <2>2, <3>1
    <3> QED
      BY <1>7, <2>2, <3>2
  <2>3. CASE x \in A <=> y \notin A
    BY <1>3, <1>5, <1>6, <2>3
  <2> QED
    BY <2>1, <2>2, <2>3
<1>10. ExistsInjection(N, B)
  BY <1>8, <1>9, Fits
<1> QED
  BY <1>1, <1>10 DEF N

\* The edges of an output are free, or they are the ones that the output of a
\* counter bounds.
SpendsLap(n, port) == KindOf(n) = "counter" /\ port = "continue" /\ ~Wired(doc, n, "reset")

LEMMA FreePays ==
  ASSUME IsDocument(doc), ~HasRunaway, NEW at, NEW p \in DOMAIN at, NEW m, NEW s,
         \A j \in DOMAIN s : s[j] \in FreeEdges /\ s[j].from = at[p],
         \A i, j \in DOMAIN s : s[i] = s[j] => i = j, NEW left
  PROVE  \E w : Pays(w, s, Owed(at, m, left), Owed(Without(at, p), m, left))
<1>1. PICK w : w = [x \in Pairs(s) |-> <<"held", p, x[2] \cup {s[x[1]]}>>]
  OBVIOUS
<1>2. ASSUME NEW x \in Pairs(s)
      PROVE  /\ x = <<x[1], x[2]>> /\ x[1] \in DOMAIN s
             /\ x[2] \cup {s[x[1]]} \in Ways(at[p]) /\ \A f \in x[2] : f.from # at[p]
  <2>1. PICK j \in DOMAIN s : x \in {<<j, S>> : S \in Ways(s[j].to)}
    BY DEF Pairs
  <2>2. x = <<x[1], x[2]>> /\ x[1] = j /\ x[2] \in Ways(s[j].to)
    BY <2>1
  <2>3. s[j] \in FreeEdges /\ s[j].from = at[p]
    OBVIOUS
  <2>4. x[2] \cup {s[j]} \in Ways(s[j].from) /\ \A f \in x[2] : f.from # s[j].from
    BY <2>2, <2>3, WayOn
  <2> QED
    BY <2>2, <2>3, <2>4
<1>3. \A x \in Pairs(s) : w[x] \in Owed(at, m, left) \ Owed(Without(at, p), m, left)
  <2> SUFFICES ASSUME NEW x \in Pairs(s)
               PROVE  w[x] \in Owed(at, m, left) \ Owed(Without(at, p), m, left)
    OBVIOUS
  <2>1. PICK S : S = x[2] \cup {s[x[1]]} /\ S # {} /\ w[x] = <<"held", p, S>>
    BY <1>1
  <2>2. S \in Ways(at[p]) \ {{}}
    BY <1>2, <2>1
  <2>3. <<"held", p, S>> \in Held(at)
    BY <2>2, IsHeld
  <2> QED
    BY <2>1, <2>3, WithoutOwes DEF Owed
<1>4. ASSUME NEW x \in Pairs(s), NEW y \in Pairs(s), w[x] = w[y] PROVE x = y
  <2>1. x[2] \cup {s[x[1]]} = y[2] \cup {s[y[1]]}
    BY <1>1, <1>4
  <2>2. \A f \in x[2] \cup y[2] : f.from # at[p]
    BY <1>2
  <2>3. s[x[1]].from = at[p] /\ s[y[1]].from = at[p]
    BY <1>2
  <2>4. s[x[1]] = s[y[1]]
    BY <2>1, <2>2, <2>3
  <2>5. x[2] = y[2]
    <3>1. PICK f : f = s[x[1]] /\ f \notin x[2] /\ f \notin y[2]
      BY <2>2, <2>3
    <3>2. x[2] \cup {f} = y[2] \cup {f}
      BY <2>1, <2>4, <3>1
    <3> QED
      BY ONLY <3>1, <3>2
  <2>6. x[1] = y[1]
    BY <1>2, <2>4
  <2> QED
    BY <1>2, <2>5, <2>6
<1> QED
  BY <1>3, <1>4, WithoutOwes DEF Pays

LEMMA LapPays ==
  ASSUME NEW at, NEW p, NEW m, NEW s, NEW n,
         \A j \in DOMAIN s : s[j] \in doc.edges \ FreeEdges /\ s[j].from = n,
         \A i, j \in DOMAIN s : s[i] = s[j] => i = j,
         NEW left, NEW now, left[n] \in Nat \ {0},
         \A e \in doc.edges \ FreeEdges :
           now[e.from] = IF e.from = n THEN left[n] - 1 ELSE left[e.from]
  PROVE  \E w : Pays(w, s, Owed(at, m, left), Owed(Without(at, p), m, now))
<1>1. PICK w : w = [x \in Pairs(s) |-> <<"lap", <<s[x[1]], left[n]>>, x[2]>>]
  OBVIOUS
<1>2. ASSUME NEW x \in Pairs(s)
      PROVE  x = <<x[1], x[2]>> /\ x[1] \in DOMAIN s /\ x[2] \in Ways(s[x[1]].to)
  <2>1. PICK j \in DOMAIN s : x \in {<<j, S>> : S \in Ways(s[j].to)}
    BY DEF Pairs
  <2> QED
    BY <2>1
<1>3. LapsLeft(now) \subseteq LapsLeft(left)
  <2> SUFFICES ASSUME NEW l \in LapsLeft(now) PROVE l[2] <= left[l[1].from]
    BY DEF LapsLeft
  <2>1. l[1] \in doc.edges \ FreeEdges /\ l[2] \in Nat /\ l[2] <= now[l[1].from]
    BY DEF LapsLeft
  <2> QED
    BY <2>1
<1>4. Owed(Without(at, p), m, now) \subseteq Owed(at, m, left)
  <2>1. ToPass(now) \subseteq ToPass(left)
    BY <1>3 DEF ToPass
  <2>2. Held(Without(at, p)) \subseteq Owed(at, m, left)
    BY WithoutOwes DEF Owed
  <2> QED
    BY <2>1, <2>2 DEF Owed
<1>5. \A x \in Pairs(s) : w[x] \in Owed(at, m, left) \ Owed(Without(at, p), m, now)
  <2> SUFFICES ASSUME NEW x \in Pairs(s)
               PROVE  w[x] \in Owed(at, m, left) \ Owed(Without(at, p), m, now)
    OBVIOUS
  <2>1. PICK e, l : e = s[x[1]] /\ l = <<e, left[n]>> /\ w[x] = <<"lap", l, x[2]>>
    BY <1>1
  <2>2. e \in doc.edges \ FreeEdges /\ e.from = n /\ l[1] = e /\ l[2] = left[n]
    BY <1>2, <2>1
  <2>3. l \in LapsLeft(left)
    BY <2>1, <2>2 DEF LapsLeft
  <2>4. x[2] \in Ways(l[1].to)
    BY <1>2, <2>1
  <2>5. w[x] \in ToPass(left)
    BY <2>1, <2>3, <2>4 DEF ToPass
  <2>6. l \notin LapsLeft(now)
    <3>1. now[n] = left[n] - 1
      BY <2>2
    <3> QED
      BY <2>2, <3>1 DEF LapsLeft
  <2>7. w[x] \notin ToPass(now) /\ w[x] \notin SentOff(m) /\ w[x] \notin Held(Without(at, p))
    BY <2>1, <2>6, OthersOwed, OnlyHeld
  <2> QED
    BY <2>5, <2>7 DEF Owed
<1>6. ASSUME NEW x \in Pairs(s), NEW y \in Pairs(s), w[x] = w[y] PROVE x = y
  <2>1. s[x[1]] = s[y[1]] /\ x[2] = y[2]
    BY <1>1, <1>6
  <2>2. x[1] = y[1]
    BY <1>2, <2>1
  <2> QED
    BY <1>2, <2>1, <2>2
<1> QED
  BY <1>4, <1>5, <1>6 DEF Pays

\* What a node sends is drawn from what was left.
Drawn(n, port, left, now) ==
  /\ SpendsLap(n, port) => left[n] \in Nat \ {0} /\ now[n] = left[n] - 1
  /\ \A e \in doc.edges \ FreeEdges :
       e.from # n \/ ~SpendsLap(n, port) => now[e.from] = left[e.from]

LEMMA SendingIsPaid ==
  ASSUME IsDocument(doc), ~HasRunaway, NEW at, NEW p \in DOMAIN at, \A t \in DOMAIN at : t[1] # 0,
         NEW m \in Nat, NEW k \in Nat, NEW port, NEW s, DOMAIN s = 1 .. k,
         \A j \in 1 .. k : s[j] \in EdgesFrom(at[p], port),
         \A i, j \in 1 .. k : s[i] = s[j] => i = j,
         NEW left, NEW now, Drawn(at[p], port, left, now)
  PROVE  ExistsInjection(Owed(Sending(at, p, s), m + k, now), Owed(at, m, left))
<1>1. PICK n : n = at[p]
  OBVIOUS
<1>2. \A j \in 1 .. k : s[j] \in doc.edges /\ s[j].from = n /\ s[j].out = port
  BY <1>1 DEF EdgesFrom
<1>3. \A j \in 1 .. k : s[j] \in FreeEdges <=> ~SpendsLap(n, port)
  BY <1>2 DEF FreeEdges, BoundedEdge, SpendsLap
<1>4. CASE SpendsLap(n, port)
  <2>1. left[n] \in Nat \ {0} /\ now[n] = left[n] - 1
    BY <1>1, <1>4 DEF Drawn
  <2>2. \A e \in doc.edges \ FreeEdges :
          now[e.from] = IF e.from = n THEN left[n] - 1 ELSE left[e.from]
    BY <1>1, <1>4, <2>1 DEF Drawn
  <2>3. \A j \in DOMAIN s : s[j] \in doc.edges \ FreeEdges /\ s[j].from = n
    BY <1>2, <1>3, <1>4
  <2>4. \E w : Pays(w, s, Owed(at, m, left), Owed(Without(at, p), m, now))
    BY <2>1, <2>2, <2>3, LapPays
  <2> QED
    BY <2>4, SendingOwes
<1>5. CASE ~SpendsLap(n, port)
  <2>1. Owed(Without(at, p), m, now) = Owed(Without(at, p), m, left)
    BY <1>1, <1>5, OwedLeft DEF Drawn
  <2>2. \A j \in DOMAIN s : s[j] \in FreeEdges /\ s[j].from = at[p]
    BY <1>1, <1>2, <1>3, <1>5
  <2>3. \E w : Pays(w, s, Owed(at, m, left), Owed(Without(at, p), m, now))
    BY <2>1, <2>2, FreePays
  <2> QED
    BY <2>3, SendingOwes
<1> QED
  BY <1>4, <1>5

LEMMA InOrderLists ==
  ASSUME NEW E, IsFiniteSet(E)
  PROVE  /\ InOrder(E) \in [1 .. Cardinality(E) -> E]
         /\ \A i, j \in 1 .. Cardinality(E) : InOrder(E)[i] = InOrder(E)[j] => i = j
<1>1. PICK c : c = Cardinality(E) /\ ExistsBijection(1 .. c, E)
  BY FS_CardinalityType
<1>2. PICK b \in Bijection(1 .. c, E) : TRUE
  BY <1>1 DEF ExistsBijection
<1>3. b \in [1 .. c -> E] /\ \A i, j \in 1 .. c : b[i] = b[j] => i = j
  BY <1>2 DEF Bijection, Injection, IsInjective
<1>4. \E s \in [1 .. Cardinality(E) -> E] : \A i, j \in DOMAIN s : i # j => s[i] # s[j]
  BY <1>1, <1>3
<1>5. InOrder(E) \in [1 .. Cardinality(E) -> E] /\ \A i, j \in DOMAIN InOrder(E) : i # j => InOrder(E)[i] # InOrder(E)[j]
  BY <1>4 DEF InOrder
<1> QED
  BY <1>5

\* While everything owed fits into the journeys, and the budget has room for
\* these, there is room for what a node sends.
LEMMA BudgetLasts ==
  ASSUME IsDocument(doc), ~HasRunaway, NEW at, NEW p \in DOMAIN at, \A t \in DOMAIN at : t[1] # 0,
         sent \in Nat, NEW port, NEW left, NEW now, Drawn(at[p], port, left, now),
         ExistsInjection(Owed(at, sent, left), Journeys), Cardinality(Journeys) <= MessageBudget
  PROVE  LET E == EdgesFrom(at[p], port)
         IN  /\ Room(at[p], port) = Cardinality(E) /\ Cardinality(E) \in Nat
             /\ InOrder(E) \in [1 .. Cardinality(E) -> E]
             /\ \A i, j \in 1 .. Cardinality(E) : InOrder(E)[i] = InOrder(E)[j] => i = j
             /\ ExistsInjection(Owed(Sending(at, p, InOrder(E)), sent + Cardinality(E), now), Journeys)
<1>1. PICK E, c, s : E = EdgesFrom(at[p], port) /\ c = Cardinality(E) /\ s = InOrder(E)
  OBVIOUS
<1>2. IsFiniteSet(E) /\ c \in Nat
  BY <1>1, FS_Subset, FS_CardinalityType DEF IsDocument, EdgesFrom
<1>3. s \in [1 .. c -> E] /\ \A i, j \in 1 .. c : s[i] = s[j] => i = j
  BY <1>1, <1>2, InOrderLists
<1>4. ExistsInjection(Owed(Sending(at, p, s), sent + c, now), Owed(at, sent, left))
  BY <1>1, <1>2, <1>3, SendingIsPaid
<1>5. ExistsInjection(Owed(Sending(at, p, s), sent + c, now), Journeys)
  BY <1>4, Fun_ExistsInjTransitive
<1>6. sent + c <= Cardinality(Journeys)
  <2>1. PICK N : N = sent + c /\ N \in Nat
    BY <1>2
  <2>2. ExistsInjection(1 .. N, Owed(Sending(at, p, s), sent + c, now))
    <3>1. PICK f : f = [i \in 1 .. N |-> <<"sent", i, {}>>]
      OBVIOUS
    <3>2. \A i \in 1 .. N : f[i] \in Owed(Sending(at, p, s), sent + c, now)
      BY <2>1, <3>1 DEF Owed, SentOff
    <3>3. \A i, j \in 1 .. N : f[i] = f[j] => i = j
      BY <3>1
    <3> QED
      BY <3>2, <3>3, Fits
  <2>3. ExistsInjection(1 .. N, Journeys)
    BY <1>5, <2>2, Fun_ExistsInjTransitive
  <2>4. PICK f \in Injection(1 .. N, Journeys) : TRUE
    BY <2>3, Fun_ExistsInj
  <2>5. Cardinality(1 .. N) <= Cardinality(Journeys)
    BY <2>4, JourneysAreFinite, FS_Injection
  <2>6. Cardinality(1 .. N) = N
    BY <2>1, FS_Interval
  <2> QED
    BY <2>1, <2>5, <2>6
<1>7. Room(at[p], port) = c
  <2>1. MessageBudget \in Nat /\ Cardinality(Journeys) \in Nat
    BY LimitsAssumption, JourneysAreFinite, FS_CardinalityType
  <2> QED
    BY <1>1, <1>2, <1>6, <2>1 DEF Room, Smaller
<1> QED
  BY <1>1, <1>2, <1>3, <1>5, <1>7

\* Where the items on their way are: deliveries at the node they go to, and
\* firings at their own.
Places(q, rd, wt) ==
  [t \in ({1} \X DOMAIN q) \cup ({2} \X DOMAIN rd) \cup ({3} \X wt) |->
     IF t[1] = 1 THEN q[t[2]].to ELSE IF t[1] = 2 THEN rd[t[2]].node ELSE t[2].node]

LEMMA PlacesAre ==
  ASSUME NEW q, NEW rd, NEW wt
  PROVE  /\ \A t \in DOMAIN Places(q, rd, wt) :
              \/ t = <<1, t[2]>> /\ t[2] \in DOMAIN q /\ Places(q, rd, wt)[t] = q[t[2]].to
              \/ t = <<2, t[2]>> /\ t[2] \in DOMAIN rd /\ Places(q, rd, wt)[t] = rd[t[2]].node
              \/ t = <<3, t[2]>> /\ t[2] \in wt /\ Places(q, rd, wt)[t] = t[2].node
         /\ \A i \in DOMAIN q : <<1, i>> \in DOMAIN Places(q, rd, wt) /\ Places(q, rd, wt)[<<1, i>>] = q[i].to
         /\ \A i \in DOMAIN rd : <<2, i>> \in DOMAIN Places(q, rd, wt) /\ Places(q, rd, wt)[<<2, i>>] = rd[i].node
         /\ \A f \in wt : <<3, f>> \in DOMAIN Places(q, rd, wt) /\ Places(q, rd, wt)[<<3, f>>] = f.node
         /\ \A t \in DOMAIN Places(q, rd, wt) : t[1] # 0
<1>1. DOMAIN Places(q, rd, wt) = ({1} \X DOMAIN q) \cup ({2} \X DOMAIN rd) \cup ({3} \X wt)
  BY DEF Places
<1>2. \A t \in DOMAIN Places(q, rd, wt) :
        Places(q, rd, wt)[t] = IF t[1] = 1 THEN q[t[2]].to
                               ELSE IF t[1] = 2 THEN rd[t[2]].node ELSE t[2].node
  BY <1>1 DEF Places
<1> QED
  BY <1>1, <1>2

\* A map that shows it, item by item.
LEMMA CoversBy ==
  ASSUME NEW here, NEW there, NEW h,
         \A t \in DOMAIN here : h[t] \in DOMAIN there /\ here[t] = there[h[t]],
         \A t, u \in DOMAIN here : h[t] = h[u] => t = u
  PROVE  Covers(here, there)
<1>1. PICK g : g = [t \in DOMAIN here |-> h[t]]
  OBVIOUS
<1>2. g \in [DOMAIN here -> DOMAIN there]
  BY <1>1
<1>3. \A t, u \in DOMAIN here : here[t] = there[g[t]] /\ (g[t] = g[u] => t = u)
  BY <1>1
<1> QED
  BY <1>2, <1>3 DEF Covers

\* All items but p stay where they are, at other positions perhaps.
LEMMA PositionsChange ==
  ASSUME NEW q, NEW rd, NEW wt, NEW p, NEW rest, NEW left, NEW others, NEW f, NEW g,
         \A i \in DOMAIN rest : /\ f[i] \in DOMAIN q /\ <<1, f[i]>> # p /\ rest[i].to = q[f[i]].to
                                /\ \A j \in DOMAIN rest : f[i] = f[j] => i = j,
         \A i \in DOMAIN left : /\ g[i] \in DOMAIN rd /\ <<2, g[i]>> # p /\ left[i].node = rd[g[i]].node
                                /\ \A j \in DOMAIN left : g[i] = g[j] => i = j,
         \A x \in others : x \in wt /\ <<3, x>> # p
  PROVE  Covers(Places(rest, left, others), Without(Places(q, rd, wt), p))
<1>1. PICK here, there : here = Places(rest, left, others) /\ there = Places(q, rd, wt)
  OBVIOUS
<1>2. DOMAIN Without(there, p) = DOMAIN there \ {p} /\ \A u \in DOMAIN there \ {p} : Without(there, p)[u] = there[u]
  BY DEF Without
<1>3. PICK h : h = [t \in DOMAIN here |->
                      IF t[1] = 1 THEN <<1, f[t[2]]>> ELSE IF t[1] = 2 THEN <<2, g[t[2]]>> ELSE t]
  OBVIOUS
<1>4. ASSUME NEW t \in DOMAIN here
      PROVE  h[t] \in DOMAIN there \ {p} /\ here[t] = there[h[t]]
  <2>1. CASE t = <<1, t[2]>> /\ t[2] \in DOMAIN rest
    <3>1. h[t] = <<1, f[t[2]]>>
      BY <1>3, <2>1
    <3>2. here[t] = rest[t[2]].to
      BY <1>1, <2>1, PlacesAre
    <3>3. f[t[2]] \in DOMAIN q /\ <<1, f[t[2]]>> # p /\ rest[t[2]].to = q[f[t[2]]].to
      BY <2>1
    <3>4. <<1, f[t[2]]>> \in DOMAIN there /\ there[<<1, f[t[2]]>>] = q[f[t[2]]].to
      BY <1>1, <3>3 DEF Places
    <3> QED
      BY <3>1, <3>2, <3>3, <3>4
  <2>2. CASE t = <<2, t[2]>> /\ t[2] \in DOMAIN left
    <3>1. h[t] = <<2, g[t[2]]>>
      BY <1>3, <2>2
    <3>2. here[t] = left[t[2]].node
      BY <1>1, <2>2, PlacesAre
    <3>3. g[t[2]] \in DOMAIN rd /\ <<2, g[t[2]]>> # p /\ left[t[2]].node = rd[g[t[2]]].node
      BY <2>2
    <3>4. <<2, g[t[2]]>> \in DOMAIN there /\ there[<<2, g[t[2]]>>] = rd[g[t[2]]].node
      BY <1>1, <3>3 DEF Places
    <3> QED
      BY <3>1, <3>2, <3>3, <3>4
  <2>3. CASE t = <<3, t[2]>> /\ t[2] \in others
    <3>1. h[t] = t /\ t[2] \in wt /\ t # p
      BY <1>3, <2>3
    <3>2. here[t] = t[2].node
      BY <1>1, <2>3, PlacesAre
    <3>3. t \in DOMAIN there /\ there[t] = t[2].node
      BY <1>1, <2>3, <3>1, PlacesAre
    <3> QED
      BY <3>1, <3>2, <3>3
  <2> QED
    BY <1>1, <2>1, <2>2, <2>3, PlacesAre
<1>5. ASSUME NEW t \in DOMAIN here, NEW u \in DOMAIN here, h[t] = h[u] PROVE t = u
  <2>1. ASSUME NEW v \in DOMAIN here
        PROVE  \/ v = <<1, v[2]>> /\ v[2] \in DOMAIN rest /\ h[v] = <<1, f[v[2]]>>
               \/ v = <<2, v[2]>> /\ v[2] \in DOMAIN left /\ h[v] = <<2, g[v[2]]>>
               \/ v = <<3, v[2]>> /\ h[v] = v
    BY <1>1, <1>3, PlacesAre
  <2>2. CASE t[1] = 1
    BY <1>5, <2>1, <2>2
  <2>3. CASE t[1] = 2
    BY <1>5, <2>1, <2>3
  <2>4. CASE t[1] = 3
    BY <1>5, <2>1, <2>4
  <2> QED
    BY <2>1, <2>2, <2>3, <2>4
<1> QED
  BY <1>1, <1>2, <1>4, <1>5, CoversBy

LEMMA CoversWithout ==
  ASSUME NEW here, NEW there, NEW p, Covers(here, Without(there, p))
  PROVE  \E h \in [DOMAIN here -> DOMAIN there \ {p}] :
           \A t, u \in DOMAIN here : here[t] = there[h[t]] /\ (h[t] = h[u] => t = u)
<1>1. DOMAIN Without(there, p) = DOMAIN there \ {p} /\ \A t \in DOMAIN there \ {p} : Without(there, p)[t] = there[t]
  BY DEF Without
<1> QED
  BY <1>1 DEF Covers

LEMMA TailIs ==
  ASSUME NEW S, NEW q \in Seq(S), q # <<>>
  PROVE  \A i \in DOMAIN Tail(q) : i \in Nat /\ i + 1 \in DOMAIN q /\ i + 1 # 1 /\ Tail(q)[i] = q[i + 1]
OBVIOUS

LEMMA HeadLeaves ==
  ASSUME NEW S, NEW q \in Seq(S), q # <<>>, NEW rd, NEW wt
  PROVE  Covers(Places(Tail(q), rd, wt), Without(Places(q, rd, wt), <<1, 1>>))
<1>1. PICK rest, p, f, g : rest = Tail(q) /\ p = <<1, 1>> /\ f = [i \in DOMAIN rest |-> i + 1] /\ g = [i \in DOMAIN rd |-> i]
  OBVIOUS
<1>2. \A i \in DOMAIN rest : i \in Nat /\ i + 1 \in DOMAIN q /\ i + 1 # 1 /\ rest[i] = q[i + 1]
  BY <1>1, TailIs
<1>3. \A i \in DOMAIN rest : /\ f[i] \in DOMAIN q /\ <<1, f[i]>> # p /\ rest[i].to = q[f[i]].to
                             /\ \A j \in DOMAIN rest : f[i] = f[j] => i = j
  BY <1>1, <1>2
<1>4. \A i \in DOMAIN rd : /\ g[i] \in DOMAIN rd /\ <<2, g[i]>> # p /\ rd[i].node = rd[g[i]].node
                           /\ \A j \in DOMAIN rd : g[i] = g[j] => i = j
  BY <1>1
<1>5. \A x \in wt : x \in wt /\ <<3, x>> # p
  BY <1>1
<1>6. Covers(Places(rest, rd, wt), Without(Places(q, rd, wt), p))
  BY ONLY <1>3, <1>4, <1>5, PositionsChange
<1> QED
  BY <1>1, <1>6

LEMMA FirstStarts ==
  ASSUME NEW S, NEW rd \in Seq(S), rd # <<>>, NEW q, NEW wt
  PROVE  Covers(Places(q, Tail(rd), wt), Without(Places(q, rd, wt), <<2, 1>>))
<1>1. PICK left, f, g : left = Tail(rd) /\ f = [i \in DOMAIN q |-> i] /\ g = [i \in DOMAIN left |-> i + 1]
  OBVIOUS
<1>2. \A i \in DOMAIN left : i \in Nat /\ i + 1 \in DOMAIN rd /\ i + 1 # 1 /\ left[i] = rd[i + 1]
  BY <1>1, TailIs
<1>3. \A i \in DOMAIN left : /\ g[i] \in DOMAIN rd /\ <<2, g[i]>> # <<2, 1>> /\ left[i].node = rd[g[i]].node
                             /\ \A j \in DOMAIN left : g[i] = g[j] => i = j
  BY <1>1, <1>2
<1>4. \A i \in DOMAIN q : /\ f[i] \in DOMAIN q /\ <<1, f[i]>> # <<2, 1>> /\ q[i].to = q[f[i]].to
                          /\ \A j \in DOMAIN q : f[i] = f[j] => i = j
  BY <1>1
<1>5. \A x \in wt : x \in wt /\ <<3, x>> # <<2, 1>>
  OBVIOUS
<1>6. Covers(Places(q, left, wt), Without(Places(q, rd, wt), <<2, 1>>))
  BY ONLY <1>3, <1>4, <1>5, PositionsChange
<1> QED
  BY <1>1, <1>6

LEMMA AwaitEnds ==
  ASSUME NEW q, NEW rd, NEW wt, NEW f
  PROVE  Covers(Places(q, rd, wt \ {f}), Without(Places(q, rd, wt), <<3, f>>))
<1>1. PICK a, b : a = [i \in DOMAIN q |-> i] /\ b = [i \in DOMAIN rd |-> i]
  OBVIOUS
<1> QED
  BY <1>1, PositionsChange

\* One more item lies at place new, with node n.
Grows(now, here, new, n) ==
  /\ DOMAIN now \subseteq DOMAIN here \cup {new}
  /\ \A t \in DOMAIN now : now[t] = IF t \in DOMAIN here THEN here[t] ELSE n

\* Item p is where it was, under another name, or it is there no longer.
LEMMA ItemKept ==
  ASSUME NEW here, NEW there, NEW p \in DOMAIN there, Covers(here, Without(there, p)),
         NEW now, NEW new, Grows(now, here, new, there[p])
  PROVE  Covers(now, there)
<1>1. PICK h \in [DOMAIN here -> DOMAIN there \ {p}] :
        \A t, u \in DOMAIN here : here[t] = there[h[t]] /\ (h[t] = h[u] => t = u)
  BY CoversWithout
<1>2. PICK g : g = [t \in DOMAIN now |-> IF t \in DOMAIN here THEN h[t] ELSE p]
  OBVIOUS
<1>3. \A t \in DOMAIN now : g[t] \in DOMAIN there /\ now[t] = there[g[t]]
  BY <1>1, <1>2 DEF Grows
<1>4. \A t, u \in DOMAIN now : g[t] = g[u] => t = u
  BY <1>1, <1>2 DEF Grows
<1> QED
  BY <1>3, <1>4, CoversBy

LEMMA ItemGone ==
  ASSUME NEW here, NEW there, NEW p \in DOMAIN there, Covers(here, Without(there, p))
  PROVE  Covers(here, there)
<1>1. Grows(here, here, <<>>, there[p])
  BY DEF Grows
<1> QED
  BY <1>1, ItemKept

\* The queue grows by what was sent.
LEMMA SendingCovers ==
  ASSUME NEW S, NEW rest \in Seq(S), NEW a \in Seq(S), NEW rd, NEW wt, NEW at, NEW p \in DOMAIN at,
         \A t \in DOMAIN at : t[1] # 0,
         Covers(Places(rest, rd, wt), Without(at, p)), NEW s, DOMAIN s = 1 .. Len(a),
         \A i \in 1 .. Len(a) : a[i].to = s[i].to
  PROVE  Covers(Places(rest \o a, rd, wt), Sending(at, p, s))
<1>1. PICK here, now, q : here = Places(rest, rd, wt) /\ now = Places(q, rd, wt) /\ q = rest \o a
  OBVIOUS
<1>2. PICK h \in [DOMAIN here -> DOMAIN at \ {p}] :
        \A t, u \in DOMAIN here : here[t] = at[h[t]] /\ (h[t] = h[u] => t = u)
  BY <1>1, CoversWithout
<1>3. /\ DOMAIN rest = 1 .. Len(rest) /\ Len(rest) \in Nat /\ Len(a) \in Nat
      /\ DOMAIN q = 1 .. Len(rest) + Len(a)
      /\ \A i \in DOMAIN q : q[i] = IF i <= Len(rest) THEN rest[i] ELSE a[i - Len(rest)]
  BY <1>1
<1>4. ASSUME NEW t \in DOMAIN now
      PROVE  \/ t \in DOMAIN here /\ now[t] = here[t]
             \/ t = <<1, t[2]>> /\ t[2] - Len(rest) \in 1 .. Len(a) /\ now[t] = a[t[2] - Len(rest)].to /\ t[2] \in Nat
  <2>1. CASE t = <<1, t[2]>> /\ t[2] \in DOMAIN q /\ now[t] = q[t[2]].to
    <3>1. CASE t[2] <= Len(rest)
      <4>1. t[2] \in DOMAIN rest /\ q[t[2]] = rest[t[2]]
        BY <1>3, <2>1, <3>1
      <4>2. t \in DOMAIN here /\ here[t] = rest[t[2]].to
        BY <1>1, <2>1, <4>1, PlacesAre
      <4> QED
        BY <2>1, <4>1, <4>2
    <3>2. CASE ~(t[2] <= Len(rest))
      <4>1. t[2] \in Nat /\ t[2] - Len(rest) \in 1 .. Len(a) /\ q[t[2]] = a[t[2] - Len(rest)]
        BY <1>3, <2>1, <3>2
      <4> QED
        BY <2>1, <4>1
    <3> QED
      BY <3>1, <3>2
  <2>2. CASE t = <<2, t[2]>> /\ t[2] \in DOMAIN rd /\ now[t] = rd[t[2]].node
    BY <1>1, <2>2, PlacesAre
  <2>3. CASE t = <<3, t[2]>> /\ t[2] \in wt /\ now[t] = t[2].node
    BY <1>1, <2>3, PlacesAre
  <2>4. \/ t = <<1, t[2]>> /\ t[2] \in DOMAIN q /\ now[t] = q[t[2]].to
        \/ t = <<2, t[2]>> /\ t[2] \in DOMAIN rd /\ now[t] = rd[t[2]].node
        \/ t = <<3, t[2]>> /\ t[2] \in wt /\ now[t] = t[2].node
    <3>1. t \in DOMAIN Places(q, rd, wt) /\ now[t] = Places(q, rd, wt)[t]
      BY <1>1
    <3> QED
      BY ONLY <3>1, PlacesAre
  <2> QED
    BY <2>1, <2>2, <2>3, <2>4
<1>5. PICK g : g = [t \in DOMAIN now |-> IF t \in DOMAIN here THEN h[t] ELSE <<0, t[2] - Len(rest)>>]
  OBVIOUS
<1>6. ASSUME NEW t \in DOMAIN now
      PROVE  g[t] \in DOMAIN Sending(at, p, s) /\ now[t] = Sending(at, p, s)[g[t]]
  <2>1. CASE t \in DOMAIN here
    <3>1. g[t] = h[t] /\ h[t] \in DOMAIN at \ {p} /\ here[t] = at[h[t]]
      BY <1>2, <1>5, <2>1
    <3>2. Sending(at, p, s)[h[t]] = at[h[t]] /\ h[t] \in DOMAIN Sending(at, p, s)
      BY <3>1 DEF Sending
    <3>3. now[t] = here[t]
      <4>1. <<t[1], t[2]>> \in DOMAIN here
        BY <1>1, <2>1, PlacesAre
      <4> QED
        BY <1>1, <1>3, <2>1, <4>1, PlacesAre DEF Places
    <3> QED
      BY <3>1, <3>2, <3>3
  <2>2. CASE t \notin DOMAIN here
    <3>1. PICK j \in 1 .. Len(a) : j = t[2] - Len(rest) /\ now[t] = a[j].to /\ g[t] = <<0, j>>
      BY <1>4, <1>5, <2>2
    <3>2. <<0, j>> \in DOMAIN Sending(at, p, s) /\ Sending(at, p, s)[<<0, j>>] = s[j].to
      BY <3>1 DEF Sending
    <3> QED
      BY <3>1, <3>2
  <2> QED
    BY <2>1, <2>2
<1>7. ASSUME NEW t \in DOMAIN now, NEW u \in DOMAIN now, g[t] = g[u] PROVE t = u
  <2>1. CASE t \in DOMAIN here /\ u \in DOMAIN here
    BY <1>2, <1>5, <1>7, <2>1
  <2>2. CASE t \notin DOMAIN here /\ u \notin DOMAIN here
    <3>1. t[2] - Len(rest) = u[2] - Len(rest) /\ t = <<1, t[2]>> /\ u = <<1, u[2]>>
          /\ t[2] \in Nat /\ u[2] \in Nat
      BY <1>4, <1>5, <1>7, <2>2
    <3>2. t[2] = u[2]
      BY <1>3, <3>1
    <3> QED
      BY <3>1, <3>2
  <2>3. CASE t \in DOMAIN here <=> u \notin DOMAIN here
    <3>1. \A v \in DOMAIN now : v \in DOMAIN here => g[v] \in DOMAIN at
      BY <1>2, <1>5
    <3>2. \A v \in DOMAIN now : v \notin DOMAIN here => g[v][1] = 0
      BY <1>5
    <3> QED
      BY <1>7, <2>3, <3>1, <3>2
  <2> QED
    BY <2>1, <2>2, <2>3
<1>8. Covers(now, Sending(at, p, s))
  BY <1>6, <1>7, CoversBy
<1> QED
  BY <1>1, <1>8

LEMMA TaskAdded ==
  ASSUME NEW S, NEW rd \in Seq(S), NEW f, NEW q, NEW wt
  PROVE  LET here == Places(q, rd, wt)  now == Places(q, Append(rd, f), wt)
         IN  Grows(now, here, <<2, Len(rd) + 1>>, f.node)
<1>1. PICK r, here, now : r = Append(rd, f) /\ here = Places(q, rd, wt) /\ now = Places(q, r, wt)
  OBVIOUS
<1>2. \A i \in DOMAIN r : IF i \in DOMAIN rd THEN r[i] = rd[i] ELSE i = Len(rd) + 1 /\ r[i] = f
  BY <1>1
<1>3. ASSUME NEW t \in DOMAIN now
      PROVE  IF t \in DOMAIN here THEN now[t] = here[t] ELSE t = <<2, Len(rd) + 1>> /\ now[t] = f.node
  <2>1. \/ t = <<1, t[2]>> /\ t[2] \in DOMAIN q /\ now[t] = q[t[2]].to
        \/ t = <<2, t[2]>> /\ t[2] \in DOMAIN r /\ now[t] = r[t[2]].node
        \/ t = <<3, t[2]>> /\ t[2] \in wt /\ now[t] = t[2].node
    <3>1. t \in DOMAIN Places(q, r, wt) /\ now[t] = Places(q, r, wt)[t]
      BY <1>1
    <3> QED
      BY ONLY <3>1, PlacesAre
  <2>2. CASE t = <<1, t[2]>> /\ t[2] \in DOMAIN q /\ now[t] = q[t[2]].to
    BY <1>1, <2>2, PlacesAre
  <2>3. CASE t = <<2, t[2]>> /\ t[2] \in DOMAIN r /\ now[t] = r[t[2]].node
    <3>1. CASE t[2] \in DOMAIN rd
      BY <1>1, <1>2, <2>3, <3>1, PlacesAre
    <3>2. CASE t[2] \notin DOMAIN rd
      <4>1. t[2] = Len(rd) + 1 /\ r[t[2]] = f
        BY <1>2, <2>3, <3>2
      <4>2. t \notin DOMAIN here
        BY <1>1, <2>3, <3>2 DEF Places
      <4> QED
        BY <2>3, <4>1, <4>2
    <3> QED
      BY <3>1, <3>2
  <2>4. CASE t = <<3, t[2]>> /\ t[2] \in wt /\ now[t] = t[2].node
    BY <1>1, <2>4, PlacesAre
  <2> QED
    BY <2>1, <2>2, <2>3, <2>4
<1> QED
  BY <1>1, <1>3 DEF Grows

LEMMA AwaitAdded ==
  ASSUME NEW q, NEW rd, NEW wt, NEW f
  PROVE  LET here == Places(q, rd, wt)  now == Places(q, rd, wt \cup {f})
         IN  Grows(now, here, <<3, f>>, f.node)
<1>1. PICK here, now : here = Places(q, rd, wt) /\ now = Places(q, rd, wt \cup {f})
  OBVIOUS
<1>2. ASSUME NEW t \in DOMAIN now
      PROVE  IF t \in DOMAIN here THEN now[t] = here[t] ELSE t = <<3, f>> /\ now[t] = f.node
  <2>1. \/ t = <<1, t[2]>> /\ t[2] \in DOMAIN q /\ now[t] = q[t[2]].to
        \/ t = <<2, t[2]>> /\ t[2] \in DOMAIN rd /\ now[t] = rd[t[2]].node
        \/ t = <<3, t[2]>> /\ t[2] \in wt \cup {f} /\ now[t] = t[2].node
    <3>1. t \in DOMAIN Places(q, rd, wt \cup {f}) /\ now[t] = Places(q, rd, wt \cup {f})[t]
      BY <1>1
    <3> QED
      BY ONLY <3>1, PlacesAre
  <2>2. CASE t = <<1, t[2]>> /\ t[2] \in DOMAIN q /\ now[t] = q[t[2]].to
    BY <1>1, <2>2, PlacesAre
  <2>3. CASE t = <<2, t[2]>> /\ t[2] \in DOMAIN rd /\ now[t] = rd[t[2]].node
    BY <1>1, <2>3, PlacesAre
  <2>4. CASE t = <<3, t[2]>> /\ t[2] \in wt \cup {f} /\ now[t] = t[2].node
    <3>1. CASE t[2] \in wt
      BY <1>1, <2>4, <3>1, PlacesAre
    <3>2. CASE t[2] \notin wt
      <4>1. t \notin DOMAIN here
        BY <1>1, <2>4, <3>2 DEF Places
      <4> QED
        BY <2>4, <3>2, <4>1
    <3> QED
      BY <3>1, <3>2
  <2> QED
    BY <2>1, <2>2, <2>3, <2>4
<1> QED
  BY <1>1, <1>2 DEF Grows

\* What is on its way at first: the roots.
AtRoots == [t \in {4} \X Roots(doc) |-> t[2]]

LEMMA RootsAreOwed ==
  ASSUME NEW left, \A e \in doc.edges \ FreeEdges : left[e.from] \in 0 .. Laps
  PROVE  ExistsInjection(Owed(AtRoots, 0, left), Journeys)
<1>1. Laps \in Nat
  BY LimitsAssumption
<1> DEFINE O == Owed(AtRoots, 0, left)
           f == [x \in O |-> IF x \in Held(AtRoots) THEN <<<<x[2][2]>>, x[3]>>
                             ELSE <<<<x[2][1].to, x[2][1], x[2][2]>>, x[3]>>]
<1>2. ASSUME NEW x \in Held(AtRoots)
      PROVE  /\ x = <<"held", <<4, x[2][2]>>, x[3]>> /\ x[2][2] \in Roots(doc)
             /\ x[3] \in Ways(x[2][2])
  <2>1. x = <<"held", x[2], x[3]>> /\ x[2] \in DOMAIN AtRoots /\ x[3] \in Ways(AtRoots[x[2]]) \ {{}}
    BY OnlyHeld
  <2>2. x[2] = <<4, x[2][2]>> /\ x[2][2] \in Roots(doc) /\ AtRoots[x[2]] = x[2][2]
    BY <2>1 DEF AtRoots
  <2> QED
    BY <2>1, <2>2
<1>3. ASSUME NEW x \in ToPass(left)
      PROVE  /\ x = <<"lap", <<x[2][1], x[2][2]>>, x[3]>>
             /\ x[2][1] \in doc.edges \ FreeEdges /\ x[2][2] \in 1 .. Laps /\ x[3] \in Ways(x[2][1].to)
  <2>1. PICK l \in LapsLeft(left) : x \in {<<"lap", l, S>> : S \in Ways(l[1].to)}
    BY DEF ToPass
  <2>2. x = <<"lap", l, x[3]>> /\ x[3] \in Ways(l[1].to) /\ x[2] = l
    BY <2>1
  <2>3. /\ l = <<l[1], l[2]>> /\ l[1] \in doc.edges \ FreeEdges /\ l[2] \in Nat \ {0}
        /\ l[2] <= left[l[1].from] /\ left[l[1].from] \in 0 .. Laps
    BY DEF LapsLeft
  <2>4. l[2] \in 1 .. Laps
    BY <1>1, <2>3
  <2> QED
    BY <2>2, <2>3, <2>4
<1>4. SentOff(0) = {}
  BY DEF SentOff
<1>5. \A x \in O : IF x \in Held(AtRoots) THEN f[x] = <<<<x[2][2]>>, x[3]>>
                   ELSE x \in ToPass(left) /\ f[x] = <<<<x[2][1].to, x[2][1], x[2][2]>>, x[3]>>
  BY <1>4 DEF Owed
<1> HIDE DEF f, O
<1>6. ASSUME NEW o, NEW n, NEW S, o \in Origins, o[1] = n, S \in Ways(n) PROVE <<o, S>> \in Journeys
  BY <1>6 DEF Journeys, Ways
<1>7. \A x \in O : f[x] \in Journeys
  <2> SUFFICES ASSUME NEW x \in O PROVE f[x] \in Journeys
    OBVIOUS
  <2>1. CASE x \in Held(AtRoots)
    <3>1. PICK o, n : n = x[2][2] /\ o = <<n>> /\ f[x] = <<o, x[3]>>
      BY <1>5, <2>1
    <3>2. o \in Origins /\ o[1] = n
      BY <1>2, <2>1, <3>1 DEF Origins
    <3> QED
      BY <1>2, <1>6, <2>1, <3>1, <3>2
  <2>2. CASE x \notin Held(AtRoots)
    <3>1. PICK o, e, lap : e = x[2][1] /\ lap = x[2][2] /\ o = <<e.to, e, lap>> /\ f[x] = <<o, x[3]>>
      BY <1>5, <2>2
    <3>2. x \in ToPass(left)
      BY <1>5, <2>2
    <3>3. o \in Origins /\ o[1] = e.to
      BY <1>3, <3>1, <3>2 DEF Origins
    <3> QED
      BY <1>3, <1>6, <3>1, <3>2, <3>3
  <2> QED
    BY <2>1, <2>2
<1>8. \A x, y \in O : f[x] = f[y] => x = y
  <2> SUFFICES ASSUME NEW x \in O, NEW y \in O, f[x] = f[y] PROVE x = y
    OBVIOUS
  <2>1. CASE x \in Held(AtRoots) /\ y \in Held(AtRoots)
    <3>1. x[2][2] = y[2][2] /\ x[3] = y[3]
      BY <1>5, <2>1
    <3> QED
      BY <1>2, <2>1, <3>1
  <2>2. CASE x \notin Held(AtRoots) /\ y \notin Held(AtRoots)
    <3>1. x[2][1] = y[2][1] /\ x[2][2] = y[2][2] /\ x[3] = y[3]
      BY <1>5, <2>2
    <3> QED
      BY <1>3, <1>5, <2>2, <3>1
  <2>3. CASE x \in Held(AtRoots) <=> y \notin Held(AtRoots)
    <3>1. \A z \in O : z \in Held(AtRoots) <=> Len(f[z][1]) = 1
      <4> SUFFICES ASSUME NEW z \in O PROVE z \in Held(AtRoots) <=> Len(f[z][1]) = 1
        OBVIOUS
      <4>1. \A a, b, c : Len(<<a>>) = 1 /\ Len(<<a, b, c>>) = 3
        OBVIOUS
      <4> QED
        BY <1>5, <4>1
    <3> QED
      BY <2>3, <3>1
  <2> QED
    BY <2>1, <2>2, <2>3
<1> QED
  BY <1>7, <1>8, Fits DEF O

\* The seeded fixtures are at roots of their own, none of them at the start.
LEMMA SeedsCover ==
  ASSUME DocInv, NEW start, KindOf(start) = "start"
  PROVE  Covers(Places(<<>>, SeededFixtures, {}), Without(AtRoots, <<4, start>>))
<1>1. PICK r : r = SeededFixtures
  OBVIOUS
<1>2. \A i \in DOMAIN r : /\ r[i].node \in Roots(doc) /\ KindOf(r[i].node) = "fixture"
                          /\ \A j \in DOMAIN r : r[i].node = r[j].node => i = j
  BY <1>1, SeededAreComplete
<1>3. PICK here, there : here = Places(<<>>, r, {}) /\ there = Without(AtRoots, <<4, start>>)
  OBVIOUS
<1>4. \A t \in DOMAIN here : t = <<2, t[2]>> /\ t[2] \in DOMAIN r /\ here[t] = r[t[2]].node
  BY <1>3, PlacesAre
<1>5. /\ DOMAIN there = ({4} \X Roots(doc)) \ {<<4, start>>}
      /\ \A t \in DOMAIN there : there[t] = t[2]
  BY <1>3 DEF Without, AtRoots
<1>6. PICK h : h = [t \in DOMAIN here |-> <<4, r[t[2]].node>>]
  OBVIOUS
<1>7. ASSUME NEW t \in DOMAIN here PROVE h[t] \in DOMAIN there /\ here[t] = there[h[t]]
  <2>1. PICK n : n = r[t[2]].node /\ n \in Roots(doc) /\ n # start
    BY <1>2, <1>4
  <2>2. h[t] = <<4, n>> /\ here[t] = n /\ <<4, n>> \in DOMAIN there /\ there[<<4, n>>] = n
    BY <1>4, <1>5, <1>6, <2>1
  <2> QED
    BY <2>2
<1>8. ASSUME NEW t \in DOMAIN here, NEW u \in DOMAIN here, h[t] = h[u] PROVE t = u
  <2>1. r[t[2]].node = r[u[2]].node
    BY <1>6, <1>8
  <2>2. t[2] = u[2]
    BY <1>2, <1>4, <2>1
  <2> QED
    BY <1>4, <2>2
<1>9. Covers(here, there)
  BY <1>7, <1>8, CoversBy
<1> QED
  BY <1>1, <1>3, <1>9

\* There is a journey for everything that is owed; and the budget has a message
\* for each.
Balanced(at, m, left) == ExistsInjection(Owed(at, m, left), Journeys)
CanPay == ~HasRunaway /\ Cardinality(Journeys) <= MessageBudget

LedgerInv ==
  /\ guards \in [Nodes(doc) -> Nat]
  /\ phase \in {"loaded", "bound"} =>
       /\ queue = <<>> /\ ready = <<>> /\ waiting = {} /\ sent = 0
       /\ \A n \in Nodes(doc) : KindOf(n) = "counter" => guards[n] = Laps
  /\ CanPay =>
       /\ phase # "exhausted"
       /\ phase = "running" =>
            \E at, m, left : /\ at = Places(queue, ready, waiting) /\ m = sent /\ left = guards
                             /\ Balanced(at, m, left)

LEMMA LedgerKept ==
  ASSUME doc' = doc
  PROVE  /\ CanPay' <=> CanPay
         /\ \A at, m, left : Balanced(at, m, left)' <=> Balanced(at, m, left)
<1>1. FreeEdges' = FreeEdges /\ Roots(doc)' = Roots(doc) /\ Nodes(doc)' = Nodes(doc)
  BY DEF FreeEdges, BoundedEdge, KindOf, Wired, Roots, Nodes
<1>2. Journeys' = Journeys
  BY <1>1 DEF Journeys, Origins
<1>3. HasRunaway' <=> HasRunaway
  BY <1>1 DEF HasRunaway, HasCycle
<1>4. \A n : Ways(n)' = Ways(n)
  BY <1>1 DEF Ways
<1>5. \A at, m, left : Owed(at, m, left)' = Owed(at, m, left)
  <2>1. \A left : LapsLeft(left)' = LapsLeft(left)
    BY <1>1 DEF LapsLeft
  <2>2. \A left : ToPass(left)' = ToPass(left)
    BY <1>4, <2>1 DEF ToPass
  <2>3. \A at : Held(at)' = Held(at)
    BY <1>4 DEF Held
  <2> QED
    BY <2>2, <2>3 DEF Owed
<1> QED
  BY <1>2, <1>3, <1>5 DEF CanPay, Balanced

LEMMA LedgerNext ==
  ASSUME doc' = doc, guards' \in [Nodes(doc) -> Nat], phase' \notin {"loaded", "bound"},
         CanPay => /\ phase' # "exhausted"
                   /\ phase' = "running" => Balanced(Places(queue', ready', waiting'), sent', guards')
  PROVE  LedgerInv'
<1>1. CanPay' => phase' # "exhausted"
  BY LedgerKept
<1>2. CanPay' /\ phase' = "running" =>
        \E at, m, left : /\ at = Places(queue', ready', waiting') /\ m = sent' /\ left = guards'
                         /\ Balanced(at, m, left)'
  BY LedgerKept
<1> QED
  BY <1>1, <1>2 DEF LedgerInv

LEMMA Rebalanced ==
  ASSUME NEW here, NEW there, NEW m, NEW left, NEW now, Covers(here, there), Balanced(there, m, left),
         \A e \in doc.edges \ FreeEdges : now[e.from] = left[e.from]
  PROVE  Balanced(here, m, now)
<1>1. Owed(here, m, now) = Owed(here, m, left)
  BY OwedLeft
<1>2. ExistsInjection(Owed(here, m, left), Owed(there, m, left))
  BY CoveredOwes
<1> QED
  BY <1>1, <1>2, Fun_ExistsInjTransitive DEF Balanced

\* What a node sends leaves the ledger balanced, and does not spend the budget.
LEMMA EmitIsPaid ==
  ASSUME IsDocument(doc), CanPay, sent \in 0 .. MessageBudget, NEW at, NEW p \in DOMAIN at,
         \A t \in DOMAIN at : t[1] # 0, NEW left, NEW now, Balanced(at, sent, left), NEW port,
         Drawn(at[p], port, left, now), NEW rest \in Seq(Delivery), NEW rd, NEW wt,
         Covers(Places(rest, rd, wt), Without(at, p)), NEW h, NEW caught,
         Emit(at[p], port, rest, h, caught)
  PROVE  phase' = "running" /\ Balanced(Places(queue', rd, wt), sent', now)
<1>1. PICK n, E, c, s : n = at[p] /\ E = EdgesFrom(n, port) /\ c = Cardinality(E) /\ s = InOrder(E)
  OBVIOUS
<1>2. /\ Room(n, port) = c /\ c \in Nat /\ s \in [1 .. c -> E]
      /\ ExistsInjection(Owed(Sending(at, p, s), sent + c, now), Journeys)
  BY <1>1, BudgetLasts DEF CanPay, Balanced
<1>3. PICK a : a = Deliveries(n, port)
  OBVIOUS
<1>4. a \in Seq(Delivery) /\ Len(a) = c
  BY <1>2, <1>3, Sends
<1>5. \A i \in 1 .. c : a[i].to = s[i].to
  BY <1>1, <1>2, <1>3 DEF Deliveries
<1>6. Covers(Places(rest \o a, rd, wt), Sending(at, p, s))
  <2>1. DOMAIN s = 1 .. Len(a)
    BY <1>2, <1>4
  <2> QED
    BY <1>4, <1>5, <2>1, SendingCovers
<1>7. queue' = rest \o a /\ sent' = sent + c /\ phase' = "running"
  BY <1>1, <1>2, <1>3 DEF Emit
<1>8. Balanced(Sending(at, p, s), sent + c, now)
  BY <1>2 DEF Balanced
<1>9. Balanced(Places(rest \o a, rd, wt), sent + c, now)
  BY <1>6, <1>8, Rebalanced
<1> QED
  BY <1>7, <1>9

LEMMA OtherOutputsDraw ==
  ASSUME NEW n, NEW port, port # "continue", NEW left
  PROVE  Drawn(n, port, left, left)
BY DEF Drawn, SpendsLap

LEMMA SeedIsPaid ==
  ASSUME RulesInv, LedgerInv, Seed
  PROVE  LedgerInv'
<1>1. PICK start : start = (CHOOSE n \in Nodes(doc) : KindOf(n) = "start")
  OBVIOUS
<1>2. /\ doc' = doc /\ waiting' = waiting /\ phase = "bound" /\ guards' = guards
      /\ ready' = SeededFixtures /\ Emit(start, "out", queue, Reaches(start), TRUE)
  BY <1>1 DEF Seed, inputVars, frameVars
<1>3. DocInv /\ IsDocument(doc) /\ sent \in 0 .. MessageBudget /\ Sound
  BY <1>2 DEF RulesInv, QueueInv, GateInv, DocInv
<1>4. /\ guards \in [Nodes(doc) -> Nat] /\ queue = <<>> /\ waiting = {} /\ sent = 0
      /\ \A n \in Nodes(doc) : KindOf(n) = "counter" => guards[n] = Laps
  BY <1>2 DEF LedgerInv
<1>5. start \in Roots(doc) /\ KindOf(start) = "start"
  <2>1. start \in Nodes(doc) /\ KindOf(start) = "start"
    BY <1>1, <1>3 DEF Sound
  <2> QED
    BY <2>1 DEF Roots, KindOf
<1>6. phase' \in {"exhausted", "running"}
  BY <1>2 DEF Emit
<1>7. ASSUME CanPay
      PROVE  phase' = "running" /\ Balanced(Places(queue', ready', waiting'), sent', guards')
  <2>1. PICK at, p : at = AtRoots /\ p = <<4, start>>
    OBVIOUS
  <2>2. p \in DOMAIN at /\ at[p] = start /\ \A t \in DOMAIN at : t[1] # 0
    BY <1>5, <2>1 DEF AtRoots
  <2>3. \A e \in doc.edges \ FreeEdges : guards[e.from] \in 0 .. Laps
    <3> SUFFICES ASSUME NEW e \in doc.edges \ FreeEdges PROVE guards[e.from] \in 0 .. Laps
      OBVIOUS
    <3>1. e.from \in Nodes(doc) /\ KindOf(e.from) = "counter"
      BY <1>3 DEF IsDocument, FreeEdges, BoundedEdge
    <3> QED
      BY <1>4, <3>1, LimitsAssumption
  <2>4. Balanced(at, sent, guards)
    BY <1>4, <2>1, <2>3, RootsAreOwed DEF Balanced
  <2>5. Covers(Places(queue, ready', waiting), Without(at, p))
    BY <1>2, <1>3, <1>4, <1>5, <2>1, SeedsCover
  <2>6. Drawn(at[p], "out", guards, guards)
    BY OtherOutputsDraw
  <2>7. queue \in Seq(Delivery)
    BY <1>4
  <2>8. Emit(at[p], "out", queue, Reaches(start), TRUE)
    BY <1>2, <2>2
  <2>9. phase' = "running" /\ Balanced(Places(queue', ready', waiting), sent', guards)
    BY <1>3, <1>7, <2>2, <2>4, <2>5, <2>6, <2>7, <2>8, EmitIsPaid
  <2> QED
    BY <1>2, <2>9
<1> QED
  BY <1>2, <1>4, <1>6, <1>7, LedgerNext

\* The delivery at the head is at hand.
LEMMA HeadIsHeld ==
  ASSUME RulesInv, queue # <<>>
  PROVE  LET at == Places(queue, ready, waiting)
         IN  /\ <<1, 1>> \in DOMAIN at /\ at[<<1, 1>>] = Head(queue).to
             /\ \A t \in DOMAIN at : t[1] # 0
             /\ Covers(Places(Tail(queue), ready, waiting), Without(at, <<1, 1>>))
<1>1. queue \in Seq(Delivery)
  BY DEF RulesInv, QueueInv
<1>2. 1 \in DOMAIN queue /\ Head(queue) = queue[1]
  BY <1>1
<1> QED
  BY <1>1, <1>2, PlacesAre, HeadLeaves

\* A guard takes a lap from what it has left, or nothing that is counted.
LEMMA GuardDraws ==
  ASSUME RulesInv, guards \in [Nodes(doc) -> Nat], queue # <<>>, NEW d, d = Head(queue), ToGuard(d)
  PROVE  /\ guards' \in [Nodes(doc) -> Nat]
         /\ \/ /\ Absorbs
               /\ \A e \in doc.edges \ FreeEdges : guards'[e.from] = guards[e.from]
            \/ \E port : /\ Emit(d.to, port, Tail(queue), Reaches(d.to), TRUE)
                         /\ Drawn(d.to, port, guards, guards')
<1>1. PICK n \in Nodes(doc) : n = d.to /\ KindOf(n) \in Guards /\ Came(d.message, n, d.in)
  BY Popped DEF RulesInv, ToGuard
<1>2. \A e \in doc.edges \ FreeEdges :
        e.from \in Nodes(doc) /\ KindOf(e.from) = "counter" /\ ~Wired(doc, e.from, "reset")
  BY DEF RulesInv, DocInv, IsDocument, FreeEdges, BoundedEdge
<1>3. guards[n] \in Nat /\ Laps \in Nat
  BY LimitsAssumption
<1>4. \A left : \A m \in Nodes(doc) : Set(guards, n, left)[m] = IF m = n THEN left ELSE guards[m]
  BY DEF Set
<1>5. \A left \in Nat : Set(guards, n, left) \in [Nodes(doc) -> Nat]
  BY DEF Set
<1>6. CASE d.in = "reset"
  <2>1. Absorbs /\ guards' = Set(guards, n, Pristine(KindOf(n)))
    BY <1>1, <1>6 DEF ToGuard
  <2>2. Wired(doc, n, "reset")
    BY <1>1, <1>6 DEF Came, Wired
  <2>3. Pristine(KindOf(n)) \in Nat
    BY <1>3 DEF Pristine
  <2>4. \A e \in doc.edges \ FreeEdges : guards'[e.from] = guards[e.from]
    BY <1>2, <1>4, <2>1, <2>2
  <2> QED
    BY <1>5, <2>1, <2>3, <2>4
<1>7. ASSUME NEW left \in Nat, NEW port, Passes(n, left, port, d),
             SpendsLap(n, port) => left = guards[n] - 1 /\ guards[n] # 0,
             ~SpendsLap(n, port) /\ KindOf(n) = "counter" /\ ~Wired(doc, n, "reset") => left = guards[n]
      PROVE  /\ guards' \in [Nodes(doc) -> Nat]
             /\ Emit(n, port, Tail(queue), Reaches(n), TRUE) /\ Drawn(n, port, guards, guards')
  <2>1. guards' = Set(guards, n, left) /\ Emit(n, port, Tail(queue), Reaches(n), TRUE)
    BY <1>7 DEF Passes
  <2>2. \A m \in Nodes(doc) : guards'[m] = IF m = n THEN left ELSE guards[m]
    BY <1>4, <2>1
  <2>3. SpendsLap(n, port) => guards[n] \in Nat \ {0} /\ guards'[n] = guards[n] - 1
    BY <1>3, <1>7, <2>2
  <2>4. \A e \in doc.edges \ FreeEdges :
          e.from # n \/ ~SpendsLap(n, port) => guards'[e.from] = guards[e.from]
    BY <1>2, <1>7, <2>2
  <2> QED
    BY <1>5, <2>1, <2>3, <2>4 DEF Drawn
<1>8. CASE d.in # "reset" /\ KindOf(n) = "counter"
  <2>1. Counts(d)
    BY <1>1, <1>8 DEF ToGuard
  <2>2. CASE guards[n] > 0
    <3>1. Passes(n, guards[n] - 1, "continue", d) /\ guards[n] - 1 \in Nat /\ guards[n] # 0
      BY <1>1, <1>3, <2>1, <2>2 DEF Counts
    <3>2. ~SpendsLap(n, "continue") /\ KindOf(n) = "counter" => Wired(doc, n, "reset")
      BY DEF SpendsLap
    <3> QED
      BY <1>1, <1>7, <3>1, <3>2
  <2>3. CASE ~(guards[n] > 0)
    <3>1. Passes(n, 0, "exhausted", d) /\ guards[n] = 0
      BY <1>1, <1>3, <2>1, <2>3 DEF Counts
    <3>2. ~SpendsLap(n, "exhausted")
      BY DEF SpendsLap
    <3> QED
      BY <1>1, <1>7, <3>1, <3>2
  <2> QED
    BY <2>2, <2>3
<1>9. CASE d.in # "reset" /\ KindOf(n) # "counter"
  <2>1. Clocks(d) /\ \A port : ~SpendsLap(n, port)
    BY <1>1, <1>9 DEF ToGuard, SpendsLap
  <2>2. \/ Passes(n, 1, "continue", d)
        \/ Passes(n, 0, "expired", d)
    BY <1>1, <2>1 DEF Clocks
  <2> QED
    BY <1>1, <1>7, <1>9, <2>1, <2>2
<1> QED
  BY <1>6, <1>8, <1>9

LEMMA LedgerHolds ==
  ASSUME RulesInv, LedgerInv, phase = "running"
  PROVE  /\ IsDocument(doc) /\ sent \in 0 .. MessageBudget /\ queue \in Seq(Delivery)
         /\ guards \in [Nodes(doc) -> Nat]
         /\ CanPay => Balanced(Places(queue, ready, waiting), sent, guards)
BY DEF RulesInv, DocInv, QueueInv, LedgerInv

LEMMA DispatchIsPaid ==
  ASSUME RulesInv, LedgerInv, Dispatch
  PROVE  LedgerInv'
<1>1. PICK d, rest, n : d = Head(queue) /\ rest = Tail(queue) /\ n = d.to
  OBVIOUS
<1>2. /\ phase = "running" /\ queue # <<>> /\ doc' = doc /\ waiting' = waiting
      /\ ToEnd(d) \/ ToAll(d) \/ ToAny(d) \/ ToCollect(d) \/ ToGuard(d) \/ ToTask(d)
  BY <1>1 DEF Dispatch, inputVars
<1>3. PICK at, p : at = Places(queue, ready, waiting) /\ p = <<1, 1>>
  OBVIOUS
<1>4. /\ p \in DOMAIN at /\ at[p] = n /\ \A t \in DOMAIN at : t[1] # 0
      /\ Covers(Places(rest, ready, waiting), Without(at, p))
  BY <1>1, <1>2, <1>3, HeadIsHeld
<1>5. /\ IsDocument(doc) /\ sent \in 0 .. MessageBudget /\ guards \in [Nodes(doc) -> Nat]
      /\ rest \in Seq(Delivery) /\ (CanPay => Balanced(at, sent, guards))
  BY <1>1, <1>2, <1>3, LedgerHolds
<1>6. ASSUME NEW port, NEW h, Emit(n, port, rest, h, TRUE), Drawn(n, port, guards, guards'),
             ready' = ready, guards' \in [Nodes(doc) -> Nat]
      PROVE  LedgerInv'
  <2>1. ASSUME CanPay
        PROVE  phase' = "running" /\ Balanced(Places(queue', ready, waiting), sent', guards')
    BY <1>4, <1>5, <1>6, <2>1, EmitIsPaid
  <2>2. phase' \in {"exhausted", "running"}
    BY <1>6 DEF Emit
  <2> QED
    BY <1>2, <1>6, <2>1, <2>2, LedgerNext
<1>7. ASSUME phase' = phase, sent' = sent, queue' = rest, guards' \in [Nodes(doc) -> Nat],
             \A e \in doc.edges \ FreeEdges : guards'[e.from] = guards[e.from],
             Covers(Places(rest, ready', waiting), at)
      PROVE  LedgerInv'
  <2>1. ASSUME CanPay PROVE Balanced(Places(rest, ready', waiting), sent, guards')
    BY <1>5, <1>7, <2>1, Rebalanced
  <2> QED
    BY <1>2, <1>7, <2>1, LedgerNext
<1>8. Covers(Places(rest, ready, waiting), at)
  BY <1>4, ItemGone
<1>9. ASSUME NEW round, MergeEmits(n, round), ready' = ready, guards' = guards PROVE LedgerInv'
  <2>1. Emit(n, "out", rest, [Reaches(n) EXCEPT !.rounds[n] = Append(@, round)], TRUE)
    BY <1>1, <1>9 DEF MergeEmits
  <2>2. Drawn(n, "out", guards, guards')
    BY <1>9, OtherOutputsDraw
  <2> QED
    BY <1>5, <1>6, <1>9, <2>1, <2>2
<1>10. ASSUME Absorbs, ready' = ready, guards' \in [Nodes(doc) -> Nat],
              \A e \in doc.edges \ FreeEdges : guards'[e.from] = guards[e.from]
       PROVE  LedgerInv'
  BY <1>1, <1>7, <1>8, <1>10 DEF Absorbs
<1>11. CASE ToEnd(d)
  <2>1. phase' = phase /\ sent' = sent /\ queue' = rest /\ guards' = guards /\ ready' = ready
    BY <1>1, <1>11 DEF ToEnd, frameVars
  <2> QED
    BY <1>5, <1>7, <1>8, <2>1
<1>12. CASE ToAll(d)
  <2>1. /\ ready' = ready /\ guards' = guards
        /\ Absorbs \/ \E round : MergeEmits(n, round)
    BY <1>1, <1>12 DEF ToAll
  <2> QED
    BY <1>5, <1>9, <1>10, <2>1
<1>13. CASE ToAny(d)
  <2>1. ready' = ready /\ guards' = guards /\ MergeEmits(n, {d.message})
    BY <1>1, <1>13 DEF ToAny, frameVars
  <2> QED
    BY <1>9, <2>1
<1>14. CASE ToCollect(d)
  <2>1. /\ ready' = ready /\ guards' = guards
        /\ Absorbs \/ \E round : MergeEmits(n, round)
    BY <1>1, <1>14 DEF ToCollect
  <2> QED
    BY <1>5, <1>9, <1>10, <2>1
<1>15. CASE ToGuard(d)
  <2>1. ready' = ready
    BY <1>15 DEF ToGuard
  <2>2. /\ guards' \in [Nodes(doc) -> Nat]
        /\ \/ /\ Absorbs
              /\ \A e \in doc.edges \ FreeEdges : guards'[e.from] = guards[e.from]
           \/ \E port : /\ Emit(n, port, rest, Reaches(n), TRUE)
                        /\ Drawn(n, port, guards, guards')
    BY <1>1, <1>2, <1>5, <1>15, GuardDraws
  <2> QED
    BY <1>6, <1>10, <2>1, <2>2
<1>16. CASE ToTask(d)
  <2>1. /\ phase' = phase /\ sent' = sent /\ queue' = rest /\ guards' = guards
        /\ ready' = ready \/ \E v : ready' = Append(ready, Firing(n, v))
    BY <1>1, <1>16 DEF ToTask
  <2>2. ASSUME NEW v, ready' = Append(ready, Firing(n, v))
        PROVE  Covers(Places(rest, ready', waiting), at)
    <3>1. Firing(n, v).node = at[p]
      BY <1>4 DEF Firing
    <3>2. PICK S : ready \in Seq(S)
      BY DEF RulesInv, ReadyInv
    <3>3. PICK here, now, new : here = Places(rest, ready, waiting) /\ new = <<2, Len(ready) + 1>>
                                /\ now = Places(rest, Append(ready, Firing(n, v)), waiting)
      OBVIOUS
    <3>4. Grows(now, here, new, at[p])
      BY <3>1, <3>2, <3>3, TaskAdded
    <3>5. Covers(now, at)
      BY <1>4, <3>3, <3>4, ItemKept
    <3> QED
      BY <2>2, <3>3, <3>5
  <2> QED
    BY <1>5, <1>7, <1>8, <2>1, <2>2
<1> QED
  BY <1>2, <1>11, <1>12, <1>13, <1>14, <1>15, <1>16

\* A firing ends: with an error that is sent, or with one that is recorded only.
LEMMA NodeErrorIsPaid ==
  ASSUME RulesInv, LedgerInv, phase = "running", doc' = doc, guards' = guards, NEW at, NEW p \in DOMAIN at,
         at = Places(queue, ready, waiting),
         Covers(Places(queue, ready', waiting'), Without(at, p)), NEW h, NodeError(at[p], h)
  PROVE  LedgerInv'
<1>1. /\ IsDocument(doc) /\ sent \in 0 .. MessageBudget /\ queue \in Seq(Delivery)
      /\ guards \in [Nodes(doc) -> Nat] /\ (CanPay => Balanced(at, sent, guards))
      /\ \A t \in DOMAIN at : t[1] # 0
  BY LedgerHolds, PlacesAre
<1>2. CASE KindOf(at[p]) \in {"request", "python"}
  <2>1. Emit(at[p], "error", queue, h, FALSE) /\ Drawn(at[p], "error", guards, guards)
    BY <1>2, OtherOutputsDraw DEF NodeError
  <2>2. ASSUME CanPay
        PROVE  phase' = "running" /\ Balanced(Places(queue', ready', waiting'), sent', guards)
    BY <1>1, <2>1, <2>2, EmitIsPaid
  <2>3. phase' \in {"exhausted", "running"}
    BY <2>1 DEF Emit
  <2> QED
    BY <1>1, <2>2, <2>3, LedgerNext
<1>3. CASE KindOf(at[p]) \notin {"request", "python"}
  <2>1. phase' = phase /\ queue' = queue /\ sent' = sent
    BY <1>3 DEF NodeError
  <2>2. Covers(Places(queue, ready', waiting'), at)
    BY ItemGone
  <2>3. ASSUME CanPay PROVE Balanced(Places(queue, ready', waiting'), sent, guards)
    BY <1>1, <2>2, <2>3, Rebalanced
  <2> QED
    BY <1>1, <2>1, <2>3, LedgerNext
<1> QED
  BY <1>2, <1>3

LEMMA FiringIsPaid ==
  ASSUME RulesInv, LedgerInv, phase = "running", doc' = doc, guards' = guards, NEW at, NEW p \in DOMAIN at,
         at = Places(queue, ready, waiting),
         Covers(Places(queue, ready', waiting'), Without(at, p)), NEW h, NEW port, port # "continue",
         Emit(at[p], port, queue, h, TRUE)
  PROVE  LedgerInv'
<1>1. /\ IsDocument(doc) /\ sent \in 0 .. MessageBudget /\ queue \in Seq(Delivery)
      /\ guards \in [Nodes(doc) -> Nat] /\ (CanPay => Balanced(at, sent, guards))
      /\ \A t \in DOMAIN at : t[1] # 0
  BY LedgerHolds, PlacesAre
<1>2. Drawn(at[p], port, guards, guards)
  BY OtherOutputsDraw
<1>3. ASSUME CanPay
      PROVE  phase' = "running" /\ Balanced(Places(queue', ready', waiting'), sent', guards)
  BY <1>1, <1>2, <1>3, EmitIsPaid
<1>4. phase' \in {"exhausted", "running"}
  BY DEF Emit
<1> QED
  BY <1>1, <1>3, <1>4, LedgerNext

LEMMA StartIsPaid ==
  ASSUME RulesInv, LedgerInv, Start
  PROVE  LedgerInv'
<1>1. PICK f, n : f = Head(ready) /\ n = f.node
  OBVIOUS
<1>2. /\ phase = "running" /\ ready # <<>> /\ ready' = Tail(ready) /\ doc' = doc /\ guards' = guards
      /\ RunsAtOnce(f) \/ RunsFixture(f) \/ BeginsToWait(f)
  BY <1>1 DEF Start, inputVars
<1>3. PICK S : ready \in Seq(S)
  BY DEF RulesInv, ReadyInv
<1>4. PICK at, p : at = Places(queue, ready, waiting) /\ p = <<2, 1>>
  OBVIOUS
<1>5. p \in DOMAIN at /\ at[p] = n
  <2>1. 1 \in DOMAIN ready /\ ready[1] = f
    BY <1>1, <1>2, <1>3
  <2> QED
    BY <1>1, <1>4, <2>1, PlacesAre
<1>6. Covers(Places(queue, ready', waiting), Without(at, p))
  BY <1>2, <1>3, <1>4, FirstStarts
<1>7. CASE RunsAtOnce(f)
  <2>1. waiting' = waiting
    BY <1>7 DEF RunsAtOnce
  <2>2. (\E port \in Outcomes(n) : Emit(n, port, queue, Reaches(n), TRUE)) \/ NodeError(n, Reaches(n))
    BY <1>1, <1>7 DEF RunsAtOnce
  <2>3. "continue" \notin Outcomes(n)
    BY DEF Outcomes, Outputs, Merges
  <2> QED
    BY <1>2, <1>4, <1>5, <1>6, <2>1, <2>2, <2>3, FiringIsPaid, NodeErrorIsPaid
<1>8. CASE RunsFixture(f)
  <2>1. waiting' = waiting
    BY <1>8 DEF RunsFixture
  <2>2. (\E h : Emit(n, "value", queue, h, TRUE)) \/ NodeError(n, Reaches(n)) \/ Crashes(n)
    BY <1>1, <1>8 DEF RunsFixture, LoadFixture, Serves
  <2>3. CASE Crashes(n)
    <3>1. phase' = "broken"
      BY <2>3 DEF Crashes
    <3>2. guards \in [Nodes(doc) -> Nat]
      BY <1>2, LedgerHolds
    <3> QED
      BY <1>2, <3>1, <3>2, LedgerNext
  <2> QED
    BY <1>2, <1>4, <1>5, <1>6, <2>1, <2>2, <2>3, FiringIsPaid, NodeErrorIsPaid
<1>9. CASE BeginsToWait(f)
  <2>1. phase' = phase /\ queue' = queue /\ sent' = sent /\ waiting' = waiting \cup {f}
    BY <1>9 DEF BeginsToWait
  <2>2. PICK here, now, new : here = Places(queue, ready', waiting) /\ new = <<3, f>>
                              /\ now = Places(queue, ready', waiting \cup {f})
    OBVIOUS
  <2>3. Grows(now, here, new, at[p])
    BY <1>1, <1>5, <2>2, AwaitAdded
  <2>4. Covers(now, at)
    BY <1>5, <1>6, <2>2, <2>3, ItemKept
  <2>5. guards \in [Nodes(doc) -> Nat] /\ (CanPay => Balanced(at, sent, guards))
    BY <1>2, <1>4, LedgerHolds
  <2>6. ASSUME CanPay PROVE Balanced(now, sent, guards)
    BY <2>4, <2>5, <2>6, Rebalanced
  <2> QED
    BY <1>2, <2>1, <2>2, <2>5, <2>6, LedgerNext
<1> QED
  BY <1>2, <1>7, <1>8, <1>9

LEMMA ResumeIsPaid ==
  ASSUME RulesInv, LedgerInv, Resume
  PROVE  LedgerInv'
<1>1. phase = "running" /\ doc' = doc /\ ready' = ready /\ guards' = guards
  BY DEF Resume, inputVars, frameVars
<1>2. PICK f \in waiting : Returns(f) \/ Breaks(f) \/ Retries(f)
  BY DEF Resume
<1>3. PICK at, p : at = Places(queue, ready, waiting) /\ p = <<3, f>>
  OBVIOUS
<1>4. p \in DOMAIN at /\ at[p] = f.node
  BY <1>3, PlacesAre
<1>5. Covers(Places(queue, ready, waiting \ {f}), Without(at, p))
  BY <1>3, AwaitEnds
<1>6. CASE Returns(f)
  <2>1. waiting' = waiting \ {f} /\ Emit(f.node, Success(KindOf(f.node)), queue, seen, TRUE)
    BY <1>6 DEF Returns
  <2>2. Success(KindOf(f.node)) # "continue"
    BY DEF Success
  <2> QED
    BY <1>1, <1>3, <1>4, <1>5, <2>1, <2>2, FiringIsPaid
<1>7. CASE Breaks(f)
  <2>1. waiting' = waiting \ {f} /\ NodeError(f.node, seen)
    BY <1>7 DEF Breaks
  <2> QED
    BY <1>1, <1>3, <1>4, <1>5, <2>1, NodeErrorIsPaid
<1>8. CASE Retries(f)
  <2>1. PICK g : g = [f EXCEPT !.attempt = @ + 1]
    OBVIOUS
  <2>2. g.node = f.node
    BY <2>1 DEF RulesInv, WaitingInv, Complete
  <2>3. phase' = phase /\ queue' = queue /\ sent' = sent /\ waiting' = (waiting \ {f}) \cup {g}
    BY <1>8, <2>1 DEF Retries
  <2>4. PICK here, now, new : here = Places(queue, ready, waiting \ {f}) /\ new = <<3, g>>
                              /\ now = Places(queue, ready, (waiting \ {f}) \cup {g})
    OBVIOUS
  <2>5. Grows(now, here, new, at[p])
    BY <1>4, <2>2, <2>4, AwaitAdded
  <2>6. Covers(now, at)
    BY <1>4, <1>5, <2>4, <2>5, ItemKept
  <2>7. guards \in [Nodes(doc) -> Nat] /\ (CanPay => Balanced(at, sent, guards))
    BY <1>1, <1>3, LedgerHolds
  <2>8. ASSUME CanPay PROVE Balanced(now, sent, guards)
    BY <2>6, <2>7, <2>8, Rebalanced
  <2> QED
    BY <1>1, <2>3, <2>4, <2>7, <2>8, LedgerNext
<1> QED
  BY <1>2, <1>6, <1>7, <1>8

LEMMA LedgerKeeps ==
  ASSUME RulesInv, LedgerInv, [Next]_vars
  PROVE  LedgerInv'
<1>1. CASE Check
  <2>1. /\ doc' = doc /\ phase = "loaded" /\ phase' \in {"refused", "bound"} /\ queue' = queue /\ ready' = ready
        /\ waiting' = waiting /\ sent' = sent /\ guards' = guards
    BY <1>1 DEF Check, inputVars, taskVars, frameVars
  <2>2. Nodes(doc') = Nodes(doc) /\ \A n : KindOf(n)' = KindOf(n)
    BY <2>1 DEF KindOf
  <2> QED
    BY <2>1, <2>2 DEF LedgerInv
<1>2. CASE FileChanges \/ GoesQuiet \/ UNCHANGED vars
  <2>1. /\ doc' = doc /\ queue' = queue /\ ready' = ready /\ waiting' = waiting /\ sent' = sent
        /\ guards' = guards /\ (phase' = phase \/ phase' = "quiet")
    BY <1>2 DEF FileChanges, GoesQuiet, vars, inputVars, taskVars, frameVars
  <2>2. Nodes(doc') = Nodes(doc) /\ \A n : KindOf(n)' = KindOf(n)
    BY <2>1 DEF KindOf
  <2>3. CanPay' <=> CanPay
    BY <2>1, LedgerKept
  <2>4. \A at, m, left : Balanced(at, m, left)' <=> Balanced(at, m, left)
    BY <2>1, LedgerKept
  <2> QED
    BY <2>1, <2>2, <2>3, <2>4 DEF LedgerInv
<1> QED
  BY <1>1, <1>2, SeedIsPaid, DispatchIsPaid, StartIsPaid, ResumeIsPaid DEF Next

LEMMA LedgerInit == Init => LedgerInv
<1> SUFFICES ASSUME Init PROVE LedgerInv
  OBVIOUS
<1>1. /\ phase = "loaded" /\ queue = <<>> /\ ready = <<>> /\ waiting = {} /\ sent = 0
      /\ guards = [n \in Nodes(doc) |-> Pristine(KindOf(n))]
  BY DEF Init
<1>2. Laps \in Nat
  BY LimitsAssumption
<1> QED
  BY <1>1, <1>2 DEF LedgerInv, Pristine

\* A node of which the gate says that it is unreachable never fires; a failure
\* never falls off an unconnected output without a warning; and a run of a flow
\* without a runaway loop never spends a budget that has a message for each of
\* its journeys (check_reachability, check_unconnected_outputs,
\* check_guarded_cycles, _emit_output).
THEOREM WarningsHoldAlways == Spec => []WarningsHold
<1>1. WarnedInv => /\ \A d \in report : d.code = "W104" => d.node \notin seen.reached
                   /\ \A u \in seen.unhandled : u[2] # "none" => Diagnostic("W103", u[1]) \in report
  BY DEF WarnedInv, WithinReach, Expected, ReportInv
<1>2. RulesInv /\ LedgerInv => (phase = "exhausted" => HasRunaway \/ Cardinality(Journeys) > MessageBudget)
  <2> SUFFICES ASSUME RulesInv, LedgerInv, phase = "exhausted", ~HasRunaway
               PROVE  Cardinality(Journeys) > MessageBudget
    OBVIOUS
  <2>1. Cardinality(Journeys) \in Nat /\ MessageBudget \in Nat
    BY JourneysAreFinite, FS_CardinalityType, LimitsAssumption DEF RulesInv, DocInv
  <2> QED
    BY <2>1 DEF LedgerInv, CanPay
<1>3. RulesInv /\ WarnedInv /\ LedgerInv => WarningsHold
  BY <1>1, <1>2 DEF WarningsHold
<1> QED
  BY <1>3, RulesAlways, WarnedInit, WarnedKeeps, LedgerInit, LedgerKeeps, PTL DEF Spec
=============================================================================
