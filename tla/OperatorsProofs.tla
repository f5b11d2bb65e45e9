--------------------------- MODULE OperatorsProofs ---------------------------
(***************************************************************************)
(* For every set of plans that are trees, every catalog of well-formed     *)
(* rows and every size of batches: no operator is pulled from again after  *)
(* it returned an empty batch; every variable keeps its type; a query that *)
(* the pull loop serves gets the rows SQL gives it, which rests on what    *)
(* every operator has handed out so far (AnswerSound); and any other gets  *)
(* only rows that SQL could give (MeantSound).                             *)
(***************************************************************************)
EXTENDS Operators, DataProofs

\* An operator's object has its fields, whatever they hold.
OpsShaped == DOMAIN ops = Nodes /\ \A n \in Nodes : "side" \in DOMAIN ops[n]

\* The child c that n is reading, in the plan p with the operators o: a product
\* reads one side after the other.
Reads(p, o, n, c) ==
    /\ c \in Children(p, n)
    /\ p[n].op \in Products =>
         \/ o[n].side = "left" /\ c = p[n].left
         \/ o[n].side = "right" /\ c = p[n].right

\* n is through with a child that ended: it has ended itself, it is a product
\* that went on to its other side or to the pairs, or it has just been handed
\* the child's empty batch.
Past(n, c) ==
    \/ n \in ended
    \/ plan[n].op \in Products /\ c = plan[n].left /\ ops[n].side \in {"right", "ready"}
    \/ plan[n].op \in Products /\ c = plan[n].right /\ ops[n].side = "ready"
    \/ stack # <<>> /\ n = Top /\ returning /\ batch = <<>> /\ Reads(plan, ops, n, c)

\* The calls in progress are a path from the root, each reading the next.
PathSound ==
    /\ stack \in Seq(Nodes)
    /\ stack # <<>> => stack[1] = 1
    /\ \A i, j \in 1 .. Len(stack) : i < j => stack[i] < stack[j]
    /\ \A i \in 1 .. (Len(stack) - 1) : Reads(plan, ops, stack[i], stack[i + 1])

EndedSound ==
    /\ ended \subseteq Nodes
    /\ \A i \in 1 .. Len(stack) : stack[i] \notin ended
    /\ 1 \in ended => stack = <<>> /\ batch = <<>>
    /\ \A n \in Nodes : \A c \in Children(plan, n) : c \in ended => Past(n, c)

PullSound ==
    /\ plan \in Plans
    /\ OpsShaped
    /\ status = "new" => stack = <<>> /\ ended = {}
    /\ PathSound
    /\ EndedSound

-----------------------------------------------------------------------------
(* Facts about plans and stacks *)

LEMMA PlanFacts ==
    ASSUME plan \in Plans
    PROVE  /\ 1 \in Nodes /\ Nodes \subseteq Nat \ {0}
           /\ \A n \in Nodes : \A c \in Children(plan, n) : c \in Nodes /\ c > n
           /\ \A n \in Nodes : plan[n].op # "scan" => plan[n].left \in Children(plan, n)
           /\ \A n \in Nodes : plan[n].op \in Products =>
                /\ plan[n].right \in Children(plan, n)
                /\ plan[n].right # plan[n].left
           /\ \A m, n \in Nodes : \A c \in Children(plan, m) : c \in Children(plan, n) => m = n
<1>1. /\ 1 \in Nodes /\ Nodes \subseteq Nat \ {0}
      /\ \A n \in Nodes :
           /\ Children(plan, n) \subseteq {c \in Nodes : c > n}
           /\ plan[n].op # "scan" => plan[n].left # 0
           /\ plan[n].op \in Products => plan[n].right \notin {0, plan[n].left}
      /\ \A m, n \in Nodes : m # n => Children(plan, m) \cap Children(plan, n) = {}
  BY PlansAssumption DEF Nodes
<1>2. \A n \in Nodes : \A c \in Children(plan, n) : c \in Nodes /\ c > n
  BY <1>1
<1>3. \A n \in Nodes : plan[n].op # "scan" => plan[n].left \in Children(plan, n)
  BY <1>1 DEF Children
<1>4. \A n \in Nodes : plan[n].op \in Products =>
        plan[n].right \in Children(plan, n) /\ plan[n].right # plan[n].left
  BY <1>1 DEF Children
<1>5. \A m, n \in Nodes : \A c \in Children(plan, m) : c \in Children(plan, n) => m = n
  BY <1>1
<1>6. QED
  BY <1>1, <1>2, <1>3, <1>4, <1>5

LEMMA StackFacts ==
    ASSUME NEW S, NEW s \in Seq(S), s # <<>>
    PROVE  /\ Len(s) \in Nat \ {0}
           /\ Last(s) = s[Len(s)] /\ Last(s) \in S
           /\ Front(s) \in Seq(S)
           /\ Len(Front(s)) = Len(s) - 1
           /\ \A i \in 1 .. (Len(s) - 1) : Front(s)[i] = s[i]
<1>1. Len(s) \in Nat \ {0} /\ Last(s) = s[Len(s)] /\ Last(s) \in S
  BY DEF Last
<1>2. Front(s) = SubSeq(s, 1, Len(s) - 1)
  BY DEF Front
<1>3. \A i \in 1 .. (Len(s) - 1) : s[i] \in S
  BY <1>1
<1>4. /\ SubSeq(s, 1, Len(s) - 1) \in Seq(S)
      /\ Len(SubSeq(s, 1, Len(s) - 1)) = Len(s) - 1
      /\ \A i \in 1 .. (Len(s) - 1) : SubSeq(s, 1, Len(s) - 1)[i] = s[i]
  <2>1. PICK n \in Int : n = Len(s) - 1
    BY <1>1
  <2>2. /\ SubSeq(s, 1, n) \in Seq(S)
        /\ Len(SubSeq(s, 1, n)) = IF 1 <= n THEN n - 1 + 1 ELSE 0
        /\ \A i \in 1 .. n - 1 + 1 : SubSeq(s, 1, n)[i] = s[1 + i - 1]
    BY <1>3, <2>1, SubSeqProperties
  <2>3. n >= 0 /\ n - 1 + 1 = n /\ \A i \in 1 .. n : 1 + i - 1 = i
    BY <1>1, <2>1
  <2>4. QED
    BY <2>1, <2>2, <2>3
<1>5. QED
  BY <1>1, <1>2, <1>4

-----------------------------------------------------------------------------
(* The two moves of the protocol *)

\* A call of a child that has not ended, by an operator that keeps the rest of
\* what it knows of its children.
LEMMA PullKeepsSound ==
    ASSUME PullSound, status = "running", stack # <<>>,
           NEW c \in Children(plan, Top), c \notin ended, Pull(c),
           OpsShaped',
           \A n \in Nodes : n # Top => ops'[n].side = ops[n].side,
           Reads(plan, ops', Top, c),
           \A d \in Children(plan, Top) : d \in ended =>
             \/ plan[Top].op \in Products /\ d = plan[Top].left /\ ops'[Top].side \in {"right", "ready"}
             \/ plan[Top].op \in Products /\ d = plan[Top].right /\ ops'[Top].side = "ready"
    PROVE  PullSound'
<1> DEFINE t == Top
<1>1. /\ plan' = plan /\ ended' = ended /\ status' = status /\ batch' = batch
      /\ stack' = Append(stack, c) /\ ~returning' /\ Nodes' = Nodes
  BY DEF Pull, Nodes
<1>2. /\ Len(stack) \in Nat \ {0} /\ t = stack[Len(stack)] /\ t \in Nodes
      /\ stack \in Seq(Nodes)
  BY StackFacts DEF PullSound, PathSound, Top
<1>3. c \in Nodes /\ c > t /\ Nodes \subseteq Nat
  BY <1>2, PlanFacts DEF PullSound
<1>4. /\ stack' \in Seq(Nodes) /\ Len(stack') = Len(stack) + 1
      /\ \A i \in 1 .. Len(stack) : stack'[i] = stack[i]
      /\ stack'[Len(stack) + 1] = c
  BY <1>1, <1>2, <1>3
<1>5. \A i \in 1 .. Len(stack) : stack[i] \in Nodes
  BY <1>2
<1>6. PathSound'
  <2>1. stack' # <<>> /\ stack'[1] = 1
    BY <1>2, <1>4 DEF PullSound, PathSound
  <2>2. \A i, j \in 1 .. Len(stack') : i < j => stack'[i] < stack'[j]
    <3>1. ASSUME NEW i \in 1 .. Len(stack), i # Len(stack)
          PROVE  stack[i] < t
      <4>1. Len(stack) \in 1 .. Len(stack) /\ i < Len(stack)
        BY <1>2, <3>1
      <4>2. QED
        BY <1>2, <4>1 DEF PullSound, PathSound
    <3>2. ASSUME NEW i \in 1 .. Len(stack)
          PROVE  stack[i] < c
      <4>1. stack[i] = t \/ stack[i] < t
        BY <1>2, <3>1
      <4>2. stack[i] \in Nat /\ t \in Nat /\ c \in Nat
        BY <1>2, <1>3, <1>5
      <4>3. QED
        BY <1>3, <4>1, <4>2
    <3>3. \A i, j \in 1 .. Len(stack) : i < j => stack[i] < stack[j]
      BY DEF PullSound, PathSound
    <3>4. QED
      BY <1>2, <1>4, <3>2, <3>3
  <2>3. ASSUME NEW i \in 1 .. (Len(stack') - 1)
        PROVE  Reads(plan', ops', stack'[i], stack'[i + 1])
    <3>1. CASE i = Len(stack)
      BY <1>1, <1>2, <1>4, <3>1 DEF Top, Last
    <3>2. CASE i # Len(stack)
      <4>1. i \in 1 .. (Len(stack) - 1) /\ i + 1 \in 1 .. Len(stack)
        BY <1>2, <1>4, <3>2
      <4>2. stack[i] # t /\ stack[i] \in Nodes
        BY <1>2, <1>3, <1>5, <4>1 DEF PullSound, PathSound
      <4>3. Reads(plan, ops, stack[i], stack[i + 1])
        BY <4>1 DEF PullSound, PathSound
      <4>4. QED
        BY <1>1, <1>4, <4>1, <4>2, <4>3 DEF Reads
    <3>3. QED
      BY <3>1, <3>2
  <2>4. QED
    BY <1>1, <1>4, <2>1, <2>2, <2>3 DEF PathSound
<1>7. EndedSound'
  <2>1. \A i \in 1 .. Len(stack') : stack'[i] \notin ended
    BY <1>2, <1>4 DEF PullSound, EndedSound
  <2>2. 1 \notin ended
    BY DEF PullSound, EndedSound
  <2>3. ASSUME NEW n \in Nodes, NEW d \in Children(plan, n), d \in ended
        PROVE  Past(n, d)'
    <3>1. CASE n = t
      BY <1>1, <2>3, <3>1 DEF Past
    <3>2. CASE n # t
      <4>1. Past(n, d)
        BY <2>3 DEF PullSound, EndedSound
      <4>2. QED
        BY <1>1, <3>2, <4>1 DEF Past
    <3>3. QED
      BY <3>1, <3>2
  <2>4. QED
    BY <1>1, <2>1, <2>2, <2>3 DEF EndedSound, PullSound
<1>8. QED
  BY <1>1, <1>6, <1>7 DEF PullSound

\* A return, which passes an empty batch on if it was handed one.
LEMMA ReturnKeepsSound ==
    ASSUME PullSound, status = "running", stack # <<>>,
           NEW result, Return(result),
           OpsShaped',
           \A n \in Nodes : ops'[n].side = ops[n].side,
           returning /\ batch = <<>> => result = <<>>
    PROVE  PullSound'
<1> DEFINE t == Top
<1>1. /\ plan' = plan /\ status' = status /\ batch' = result
      /\ stack' = Front(stack) /\ returning' /\ Nodes' = Nodes
      /\ ended' = IF result = <<>> THEN ended \cup {t} ELSE ended
  BY DEF Return, Nodes
<1>2. /\ Len(stack) \in Nat \ {0} /\ t = stack[Len(stack)] /\ t \in Nodes
      /\ stack \in Seq(Nodes)
      /\ stack' \in Seq(Nodes) /\ Len(stack') = Len(stack) - 1
      /\ \A i \in 1 .. (Len(stack) - 1) : stack'[i] = stack[i]
  BY <1>1, StackFacts DEF PullSound, PathSound, Top
<1>3. ASSUME NEW i \in 1 .. (Len(stack) - 1)
      PROVE  stack[i] \in Nodes /\ stack[i] < t
  <2>1. i \in 1 .. Len(stack) /\ Len(stack) \in 1 .. Len(stack) /\ i < Len(stack)
    BY <1>2
  <2>2. QED
    BY <1>2, <2>1 DEF PullSound, PathSound
<1>4. Nodes \subseteq Nat \ {0} /\ 1 \in Nodes
  BY PlanFacts DEF PullSound
<1>5. \A n, c : Reads(plan, ops, n, c) /\ n \in Nodes => Reads(plan', ops', n, c)
  BY <1>1 DEF Reads
<1>6. PathSound'
  <2>1. stack' # <<>> => stack'[1] = 1
    BY <1>2 DEF PullSound, PathSound
  <2>2. \A i, j \in 1 .. Len(stack') : i < j => stack'[i] < stack'[j]
    BY <1>2 DEF PullSound, PathSound
  <2>3. ASSUME NEW i \in 1 .. (Len(stack') - 1)
        PROVE  Reads(plan', ops', stack'[i], stack'[i + 1])
    <3>1. i \in 1 .. (Len(stack) - 1) /\ i + 1 \in 1 .. (Len(stack) - 1)
      BY <1>2
    <3>2. Reads(plan, ops, stack[i], stack[i + 1]) /\ stack[i] \in Nodes
      BY <1>3, <3>1 DEF PullSound, PathSound
    <3>3. QED
      BY <1>2, <1>5, <3>1, <3>2
  <2>4. QED
    BY <1>1, <1>2, <2>1, <2>2, <2>3 DEF PathSound
<1>7. EndedSound'
  <2>1. ended' \subseteq Nodes /\ ended \subseteq ended'
    BY <1>1, <1>2 DEF PullSound, EndedSound
  <2>2. \A i \in 1 .. Len(stack') : stack'[i] \notin ended'
    <3>1. \A i \in 1 .. (Len(stack) - 1) : stack[i] \notin ended /\ stack[i] # t
      BY <1>2, <1>3, <1>4 DEF PullSound, EndedSound
    <3>2. QED
      BY <1>1, <1>2, <3>1
  <2>3. 1 \in ended' => stack' = <<>> /\ batch' = <<>>
    <3>1. 1 \notin ended
      BY DEF PullSound, EndedSound
    <3>2. SUFFICES ASSUME 1 \in ended'
                   PROVE  stack' = <<>> /\ batch' = <<>>
      OBVIOUS
    <3>3. t = 1 /\ result = <<>>
      BY <1>1, <3>1, <3>2
    <3>4. Len(stack) = 1
      <4>1. SUFFICES ASSUME Len(stack) # 1
                     PROVE  FALSE
        OBVIOUS
      <4>2. 1 \in 1 .. (Len(stack) - 1) /\ stack[1] = 1
        BY <1>2, <4>1 DEF PullSound, PathSound
      <4>3. QED
        BY <1>3, <3>3, <4>2
    <3>5. QED
      BY <1>1, <1>2, <3>3, <3>4
  <2>4. ASSUME NEW n \in Nodes, NEW c \in Children(plan, n), c \in ended'
        PROVE  Past(n, c)'
    <3>1. CASE c \in ended
      <4>1. Past(n, c)
        BY <3>1 DEF PullSound, EndedSound
      <4>2. CASE stack # <<>> /\ n = Top /\ returning /\ batch = <<>> /\ Reads(plan, ops, n, c)
        BY <1>1, <4>2 DEF Past
      <4>3. QED
        BY <1>1, <2>1, <4>1, <4>2 DEF Past
    <3>2. CASE c \notin ended
      <4>1. c = t /\ result = <<>>
        BY <1>1, <2>4, <3>2
      <4>2. CASE Len(stack) = 1
        <5>1. t = 1
          BY <1>2, <4>2 DEF PullSound, PathSound
        <5>2. c > n /\ n \in Nat \ {0}
          BY <1>4, PlanFacts DEF PullSound
        <5>3. QED
          BY <4>1, <5>1, <5>2
      <4>3. CASE Len(stack) # 1
        <5>1. /\ Len(stack) - 1 \in 1 .. (Len(stack) - 1)
              /\ Reads(plan, ops, stack[Len(stack) - 1], t)
              /\ stack[Len(stack) - 1] \in Nodes
          BY <1>2, <1>3, <4>3 DEF PullSound, PathSound
        <5>2. n = stack[Len(stack) - 1]
          BY <4>1, <5>1, PlanFacts DEF Reads, PullSound
        <5>3. stack' # <<>> /\ Last(stack') = n
          BY <1>2, <4>3, <5>1, <5>2 DEF Last
        <5>4. Reads(plan', ops', n, c)
          BY <1>5, <4>1, <5>1, <5>2
        <5>5. QED
          BY <1>1, <4>1, <5>3, <5>4 DEF Past, Top
      <4>4. QED
        BY <4>2, <4>3
    <3>3. QED
      BY <3>1, <3>2
  <2>5. QED
    BY <1>1, <2>1, <2>2, <2>3, <2>4 DEF EndedSound
<1>8. QED
  BY <1>1, <1>6, <1>7 DEF PullSound
-----------------------------------------------------------------------------
(* The actions *)

LEMMA InitPullSound == Init => PullSound
<1> SUFFICES ASSUME Init
              PROVE  PullSound
  OBVIOUS
<1>1. plan \in Plans /\ stack = <<>> /\ ended = {}
  BY DEF Init
<1>2. OpsShaped
  BY DEF Init, OpsShaped, Fresh
<1>3. PathSound /\ EndedSound
  BY <1>1 DEF PathSound, EndedSound
<1>4. QED
  BY <1>1, <1>2, <1>3 DEF PullSound

\* The calls begin at the root, before anything has ended or after a batch.
LEMMA StartKeepsSound ==
    ASSUME PullSound, NEW root, root = 1, stack = <<>>, stack' = <<root>>, root \notin ended,
           UNCHANGED <<plan, ops, ended>>, status' # "new",
           \A n \in Nodes : \A c \in Children(plan, n) : c \in ended => Past(n, c)
    PROVE  PullSound'
<1>1. 1 \in Nodes /\ Nodes' = Nodes
  BY PlanFacts DEF PullSound, Nodes
<1>2. PathSound'
  BY <1>1 DEF PathSound
<1>3. EndedSound'
  BY <1>1 DEF PullSound, EndedSound, Past
<1>4. OpsShaped'
  BY <1>1 DEF PullSound, OpsShaped
<1>5. QED
  BY <1>2, <1>3, <1>4 DEF PullSound

\* A child with nothing but its parent's first call behind it has not ended.
LEMMA ChildNotEnded ==
    ASSUME PullSound, stack # <<>>, NEW c \in Children(plan, Top), c \in ended
    PROVE  \/ plan[Top].op \in Products /\ c = plan[Top].left /\ ops[Top].side \in {"right", "ready"}
           \/ plan[Top].op \in Products /\ c = plan[Top].right /\ ops[Top].side = "ready"
           \/ returning /\ batch = <<>> /\ Reads(plan, ops, Top, c)
<1>1. Top \in Nodes /\ Top \notin ended
  BY StackFacts DEF PullSound, PathSound, EndedSound, Top
<1>2. Past(Top, c)
  BY <1>1 DEF PullSound, EndedSound
<1>3. QED
  BY <1>1, <1>2 DEF Past

\* The operator at the top, while a call is in progress.
LEMMA TopFacts ==
    ASSUME PullSound, stack # <<>>
    PROVE  /\ Top \in Nodes /\ Top \notin ended
           /\ OpsShaped /\ "side" \in DOMAIN ops[Top]
           /\ plan[Top].op # "scan" => plan[Top].left \in Children(plan, Top)
           /\ plan[Top].op \in Products =>
                plan[Top].right \in Children(plan, Top) /\ plan[Top].right # plan[Top].left
<1>1. Top \in Nodes /\ Top \notin ended
  BY StackFacts DEF PullSound, PathSound, EndedSound, Top
<1>2. QED
  BY <1>1, PlanFacts DEF PullSound, OpsShaped

\* A filter, a projection, a selection or a limit pulls from its only child.
LEMMA PullOnly ==
    ASSUME PullSound, Calling({"filter", "project", "naive", "limit"}),
           Pull(Node.left), UNCHANGED ops
    PROVE  PullSound'
<1>1. /\ status = "running" /\ stack # <<>> /\ ~returning
      /\ plan[Top].op \in {"filter", "project", "naive", "limit"}
      /\ plan[Top].op \notin Products /\ plan[Top].op # "scan"
  BY DEF Calling, Node, Products
<1>2. /\ Node.left \in Children(plan, Top) /\ plan' = plan
      /\ \A d \in Children(plan, Top) : d \notin ended
  BY <1>1, TopFacts, ChildNotEnded DEF Node, Pull
<1>3. OpsShaped' /\ Reads(plan, ops', Top, Node.left)
  BY <1>1, <1>2 DEF PullSound, OpsShaped, Reads, Nodes, Node
<1>4. QED
  BY <1>1, <1>2, <1>3, PullKeepsSound

LEMMA PullLeftSound == PullSound /\ PullLeft => PullSound'
<1> SUFFICES ASSUME PullSound, PullLeft
              PROVE  PullSound'
  OBVIOUS
<1>1. /\ status = "running" /\ stack # <<>> /\ ~returning
      /\ plan[Top].op \in Products /\ plan[Top].op # "scan" /\ ops[Top].side = "none"
      /\ Pull(Node.left) /\ plan' = plan
  BY DEF PullLeft, Calling, Node, Products, Pull
<1>2. /\ Node.left \in Children(plan, Top) /\ Top \in Nodes
      /\ \A d \in Children(plan, Top) : d \notin ended
  BY <1>1, TopFacts, ChildNotEnded DEF Node
<1>3. /\ OpsShaped' /\ ops'[Top].side = "left"
      /\ \A n \in Nodes : n # Top => ops'[n].side = ops[n].side
  BY <1>1, TopFacts DEF PullLeft, OpsShaped, Nodes
<1>4. Reads(plan, ops', Top, Node.left)
  BY <1>2, <1>3 DEF Reads, Node
<1>5. QED
  BY <1>1, <1>2, <1>3, <1>4, PullKeepsSound

LEMMA DrainLeftSound == PullSound /\ DrainLeft => PullSound'
<1> SUFFICES ASSUME PullSound, DrainLeft
              PROVE  PullSound'
  OBVIOUS
<1>1. /\ status = "running" /\ stack # <<>> /\ returning
      /\ plan[Top].op \in Products /\ plan[Top].op # "scan" /\ ops[Top].side = "left"
  BY DEF DrainLeft, Returned, Node, Products
<1>2. /\ Node.left \in Children(plan, Top) /\ Node.right \in Children(plan, Top)
      /\ Node.left # Node.right /\ Top \in Nodes
  BY <1>1, TopFacts DEF Node
<1>3. CASE batch # <<>>
  <2>1. Pull(Node.left) /\ ops' = [ops EXCEPT ![Top].left = Capped(@ \o batch)] /\ plan' = plan
    BY <1>3 DEF DrainLeft, Pull
  <2>2. /\ OpsShaped' /\ ops'[Top].side = "left"
        /\ \A n \in Nodes : n # Top => ops'[n].side = ops[n].side
    BY <1>1, <2>1, TopFacts DEF OpsShaped, Nodes
  <2>3. \A d \in Children(plan, Top) : d \notin ended
    BY <1>1, <1>3, ChildNotEnded
  <2>4. Reads(plan, ops', Top, Node.left)
    BY <1>2, <2>2 DEF Reads, Node
  <2>5. QED
    BY <1>1, <1>2, <2>1, <2>2, <2>3, <2>4, PullKeepsSound
<1>4. CASE batch = <<>>
  <2>1. Pull(Node.right) /\ ops' = [ops EXCEPT ![Top].side = "right"] /\ plan' = plan
    BY <1>4 DEF DrainLeft, Pull
  <2>2. /\ OpsShaped' /\ ops'[Top].side = "right"
        /\ \A n \in Nodes : n # Top => ops'[n].side = ops[n].side
    BY <1>1, <2>1, TopFacts DEF OpsShaped, Nodes
  <2>3. \A d \in Children(plan, Top) : d \in ended => d = Node.left
    BY <1>1, ChildNotEnded DEF Reads, Node
  <2>4. Reads(plan, ops', Top, Node.right)
    BY <1>2, <2>2 DEF Reads, Node
  <2>5. Node.right \notin ended
    BY <1>2, <2>3
  <2>6. QED
    BY <1>1, <1>2, <2>1, <2>2, <2>3, <2>4, <2>5, PullKeepsSound DEF Node
<1>5. QED
  BY <1>3, <1>4

LEMMA DrainRightSound == PullSound /\ DrainRight => PullSound'
<1> SUFFICES ASSUME PullSound, DrainRight
              PROVE  PullSound'
  OBVIOUS
<1>1. /\ status = "running" /\ stack # <<>> /\ returning
      /\ plan[Top].op \in Products /\ plan[Top].op # "scan" /\ ops[Top].side = "right"
  BY DEF DrainRight, Returned, Node, Products
<1>2. /\ Node.left \in Children(plan, Top) /\ Node.right \in Children(plan, Top)
      /\ Node.left # Node.right /\ Top \in Nodes
      /\ Children(plan, Top) \subseteq {Node.left, Node.right}
  BY <1>1, TopFacts DEF Node, Children
<1>3. CASE batch # <<>>
  <2>1. Pull(Node.right) /\ ops' = [ops EXCEPT ![Top].right = Capped(@ \o batch)] /\ plan' = plan
    BY <1>3 DEF DrainRight, Pull
  <2>2. /\ OpsShaped' /\ ops'[Top].side = "right"
        /\ \A n \in Nodes : n # Top => ops'[n].side = ops[n].side
    BY <1>1, <2>1, TopFacts DEF OpsShaped, Nodes
  <2>3. \A d \in Children(plan, Top) : d \in ended => d = Node.left
    BY <1>1, <1>3, ChildNotEnded DEF Node
  <2>4. Reads(plan, ops', Top, Node.right)
    BY <1>2, <2>2 DEF Reads, Node
  <2>5. Node.right \notin ended
    BY <1>2, <2>3
  <2>6. QED
    BY <1>1, <1>2, <2>1, <2>2, <2>3, <2>4, <2>5, PullKeepsSound DEF Node
<1>4. CASE batch = <<>>
  <2>1. /\ ops' = [ops EXCEPT ![Top].side = "ready"] /\ ~returning'
        /\ UNCHANGED <<plan, stack, batch, status, ended>>
    BY <1>4 DEF DrainRight
  <2>2. /\ OpsShaped' /\ ops'[Top].side = "ready"
        /\ \A n \in Nodes : n # Top => ops'[n].side = ops[n].side
    BY <1>1, <2>1, TopFacts DEF OpsShaped, Nodes
  <2>3. PathSound'
    <3>1. ASSUME NEW i \in 1 .. (Len(stack) - 1)
          PROVE  Reads(plan, ops', stack[i], stack[i + 1])
      <4>1. /\ i \in 1 .. Len(stack) /\ Len(stack) \in 1 .. Len(stack) /\ i < Len(stack)
            /\ Top = stack[Len(stack)] /\ stack \in Seq(Nodes)
        <5>1. Len(stack) \in Nat \ {0} /\ Top = stack[Len(stack)] /\ stack \in Seq(Nodes)
          BY <1>1, StackFacts DEF PullSound, PathSound, Top
        <5>2. QED
          BY <5>1
      <4>2. stack[i] \in Nodes /\ stack[i] < Top /\ Nodes \subseteq Nat \ {0}
        BY <4>1, PlanFacts DEF PullSound, PathSound
      <4>3. Reads(plan, ops, stack[i], stack[i + 1]) /\ stack[i] # Top
        BY <1>2, <4>2 DEF PullSound, PathSound
      <4>4. QED
        BY <2>2, <4>2, <4>3 DEF Reads
    <3>2. QED
      BY <2>1, <3>1 DEF PullSound, PathSound, Nodes
  <2>4. ASSUME NEW n \in Nodes, NEW d \in Children(plan, n), d \in ended
        PROVE  Past(n, d)'
    <3>1. CASE n = Top
      BY <1>1, <1>2, <2>1, <2>2, <3>1 DEF Past, Node
    <3>2. CASE n # Top
      <4>1. Past(n, d)
        BY <2>4 DEF PullSound, EndedSound
      <4>2. QED
        BY <2>1, <2>2, <3>2, <4>1 DEF Past
    <3>3. QED
      BY <3>1, <3>2
  <2>5. EndedSound'
    BY <2>1, <2>4 DEF PullSound, EndedSound, Nodes
  <2>6. QED
    BY <1>1, <2>1, <2>2, <2>3, <2>5 DEF PullSound
<1>5. QED
  BY <1>3, <1>4

LEMMA PairRowsSound == PullSound /\ PairRows => PullSound'
<1> SUFFICES ASSUME PullSound, PairRows
              PROVE  PullSound'
  OBVIOUS
<1>1. /\ status = "running" /\ stack # <<>> /\ ~returning
      /\ UNCHANGED <<plan, stack, returning, batch, ended>> /\ status' # "new"
  BY DEF PairRows, Calling, Undefined
<1>2. OpsShaped' /\ \A n \in Nodes : ops'[n].side = ops[n].side
  <2>1. CASE ops' = ops
    BY <1>1, <2>1 DEF PullSound, OpsShaped, Nodes
  <2>2. CASE ops' # ops
    <3>1. PICK out, right, left :
            ops' = [ops EXCEPT ![Top].out = out, ![Top].rightIdx = right,
                               ![Top].leftIdx = left]
      <4>1. LET op == ops[Top]
                wraps == op.rightIdx + 1 >= Len(op.right)
            IN  ops' = [ops EXCEPT
                    ![Top].out = Append(@, op.left[op.leftIdx + 1] \o op.right[op.rightIdx + 1]),
                    ![Top].rightIdx = IF wraps THEN 0 ELSE @ + 1,
                    ![Top].leftIdx = IF wraps THEN @ + 1 ELSE @]
        BY <2>2 DEF PairRows, Undefined
      <4>2. QED
        BY <4>1, Zenon
    <3>2. QED
      BY <1>1, <3>1, TopFacts DEF OpsShaped, Nodes
  <2>3. QED
    BY <2>1, <2>2
<1>3. PathSound'
  <2>1. ASSUME NEW i \in 1 .. (Len(stack) - 1)
        PROVE  Reads(plan, ops', stack[i], stack[i + 1])
    <3>1. stack[i] \in Nodes /\ Reads(plan, ops, stack[i], stack[i + 1])
      BY <1>1, StackFacts DEF PullSound, PathSound
    <3>2. QED
      BY <1>2, <3>1 DEF Reads
  <2>2. QED
    BY <1>1, <2>1 DEF PullSound, PathSound, Nodes
<1>4. ASSUME NEW n \in Nodes, NEW d \in Children(plan, n), d \in ended
      PROVE  Past(n, d)'
  <2>1. Past(n, d)
    BY <1>4 DEF PullSound, EndedSound
  <2>2. QED
    BY <1>1, <1>2, <2>1 DEF Past
<1>5. EndedSound'
  BY <1>1, <1>4 DEF PullSound, EndedSound, Nodes
<1>6. QED
  BY <1>1, <1>2, <1>3, <1>5 DEF PullSound

\* The actions that return: those with a batch in hand pass an empty one on.
LEMMA ReturnsSound ==
    ASSUME PullSound,
           \/ ScanNext \/ PassEnd \/ FilterRows \/ NaiveKeeps \/ LimitRows \/ ReturnPairs
           \/ ProjectRows /\ ~Undefined
           \/ LimitNext /\ LimitReached
    PROVE  PullSound'
<1>1. status = "running" /\ stack # <<>>
  BY DEF ScanNext, PassEnd, FilterRows, NaiveKeeps, LimitRows, ReturnPairs, ProjectRows,
         LimitNext, Calling, Returned
<1>2. returning /\ batch = <<>> => Return(<<>>)
  BY DEF ScanNext, PassEnd, FilterRows, NaiveKeeps, LimitRows, ReturnPairs, ProjectRows,
         LimitNext, Calling, Returned
<1>3. \E result : Return(result)
  BY DEF ScanNext, PassEnd, FilterRows, NaiveKeeps, LimitRows, ReturnPairs, ProjectRows,
         LimitNext
<1>4. /\ OpsShaped' /\ \A n \in Nodes : ops'[n].side = ops[n].side
  <2>1. plan' = plan
    BY <1>3 DEF Return
  <2>2. CASE ops' = ops
    BY <2>1, <2>2 DEF PullSound, OpsShaped, Nodes
  <2>3. CASE LimitRows
    <3>1. \E skipped, returned :
            ops' = [ops EXCEPT ![Top].skipped = skipped, ![Top].returned = returned]
      BY <2>3 DEF LimitRows
    <3>2. QED
      BY <1>1, <2>1, <3>1, TopFacts DEF OpsShaped, Nodes
  <2>4. CASE ReturnPairs
    <3>1. ops' = [ops EXCEPT ![Top].out = <<>>]
      BY <2>4 DEF ReturnPairs
    <3>2. QED
      BY <1>1, <2>1, <3>1, TopFacts DEF OpsShaped, Nodes
  <2>5. QED
    BY <2>2, <2>3, <2>4 DEF ScanNext, PassEnd, FilterRows, NaiveKeeps, ProjectRows, LimitNext
<1>5. CASE returning /\ batch = <<>>
  BY <1>1, <1>2, <1>4, <1>5, ReturnKeepsSound
<1>6. CASE ~(returning /\ batch = <<>>)
  BY <1>1, <1>3, <1>4, <1>6, ReturnKeepsSound
<1>7. QED
  BY <1>5, <1>6

\* The loop of executeSelect starts the root again only after rows.
LEMMA CollectSound == PullSound /\ Collect => PullSound'
<1> SUFFICES ASSUME PullSound, Collect
              PROVE  PullSound'
  OBVIOUS
<1>1. status = "running" /\ stack = <<>> /\ UNCHANGED <<plan, ops, batch, ended>>
  BY DEF Collect
<1>2. CASE batch = <<>>
  BY <1>1, <1>2 DEF Collect, PullSound, OpsShaped, PathSound, EndedSound, Nodes, Past, Top
<1>3. CASE batch # <<>>
  <2>1. stack' = <<1>> /\ status' = "running"
    BY <1>1, <1>3 DEF Collect
  <2>2. 1 \notin ended
    BY <1>3 DEF PullSound, EndedSound
  <2>3. QED
    BY <1>1, <2>1, <2>2, StartKeepsSound DEF PullSound, EndedSound
<1>4. QED
  BY <1>2, <1>3

\* What leaves the calls, the batch and the operators alone.
LEMMA SameSound ==
    ASSUME PullSound, UNCHANGED <<plan, ops, stack, returning, batch, ended>>,
           status' = status \/ status' # "new"
    PROVE  PullSound'
  BY DEF PullSound, OpsShaped, PathSound, EndedSound, Nodes, Past, Top

LEMMA NextPullSound == PullSound /\ [Next]_vars => PullSound'
<1> SUFFICES ASSUME PullSound, [Next]_vars
              PROVE  PullSound'
  OBVIOUS
<1>1. ASSUME Build \/ Link
      PROVE  PullSound'
  <2>1. CASE stack' = <<1>>
    <3>1. /\ stack = <<>> /\ ended = {} /\ status' # "new"
          /\ UNCHANGED <<plan, ops, ended>>
      BY <1>1 DEF Build, Link, PullSound
    <3>2. QED
      BY <2>1, <3>1, StartKeepsSound
  <2>2. CASE stack' # <<1>>
    BY <1>1, <2>2, SameSound DEF Build, Link
  <2>3. QED
    BY <2>1, <2>2
<1>2. CASE PullInput
  BY <1>2, PullOnly DEF PullInput, Calling
<1>3. CASE LimitNext
  <2>1. CASE LimitReached
    BY <1>3, <2>1, ReturnsSound
  <2>2. CASE ~LimitReached
    BY <1>3, <2>2, PullOnly DEF LimitNext, Calling
  <2>3. QED
    BY <2>1, <2>2
<1>4. CASE ProjectRows
  <2>1. CASE Undefined
    BY <2>1, SameSound DEF Undefined
  <2>2. QED
    BY <1>4, <2>1, ReturnsSound
<1>5. CASE ScanNext \/ PassEnd \/ FilterRows \/ NaiveKeeps \/ LimitRows \/ ReturnPairs
  BY <1>5, ReturnsSound
<1>6. CASE PullLeft \/ DrainLeft \/ DrainRight \/ PairRows
  BY <1>6, PullLeftSound, DrainLeftSound, DrainRightSound, PairRowsSound
<1>7. CASE Collect
  BY <1>7, CollectSound
<1>8. CASE Stopped \/ UNCHANGED vars
  BY <1>8, SameSound DEF Stopped, vars
<1>9. QED
  BY <1>1, <1>2, <1>3, <1>4, <1>5, <1>6, <1>7, <1>8 DEF Next

LEMMA PullSoundHolds == Spec => []PullSound
  BY InitPullSound, NextPullSound, PTL DEF Spec

-----------------------------------------------------------------------------
(* The theorems *)

\* An operator whose next() is called has never returned an empty batch: the
\* loops of executeSelect, of the filters and of the products ask each of their
\* inputs until it is empty, and no longer.
THEOREM NoPullAfterEndHolds == Spec => []NoPullAfterEnd
<1>1. PullSound => NoPullAfterEnd
  BY TopFacts DEF NoPullAfterEnd
<1>2. QED
  BY <1>1, PullSoundHolds, PTL

-----------------------------------------------------------------------------
(* Rows *)

Row == Seq(Value)

LEMMA CappedFacts ==
    ASSUME NEW S, NEW s \in Seq(S)
    PROVE  /\ Capped(s) \in Seq(S) /\ Len(Capped(s)) <= MaxRows
           /\ Len(s) <= MaxRows => Capped(s) = s
           /\ Capped(s) = <<>> => s = <<>>
<1> DEFINE n == IF Len(s) < MaxRows THEN Len(s) ELSE MaxRows
<1>1. n \in Nat /\ n <= Len(s) /\ n <= MaxRows /\ (n = 0 => Len(s) = 0)
  BY OperatorsAssumption
<1> HIDE DEF n
<1>2. /\ SubSeq(s, 1, n) \in Seq(S)
      /\ Len(SubSeq(s, 1, n)) = n
      /\ \A i \in 1 .. n : SubSeq(s, 1, n)[i] = s[i]
  BY <1>1, PrefixFacts
<1>3. Capped(s) = SubSeq(s, 1, n)
  BY DEF Capped, n
<1>4. Len(s) <= MaxRows => n = Len(s)
  BY OperatorsAssumption DEF n
<1>5. Len(s) <= MaxRows => Capped(s) = s
  BY <1>2, <1>3, <1>4, SeqEqual
<1>6. QED
  BY <1>1, <1>2, <1>3, <1>5

-----------------------------------------------------------------------------
(* Selected *)

\* f is the function that Selected ends at the end of.
Selects(f, s, keep, m) ==
    f = [k \in 0 .. m |->
            IF k = 0 THEN <<>>
            ELSE IF keep[k] THEN Append(f[k - 1], s[k]) ELSE f[k - 1]]

\* The sequences s and t have the same elements up to m, and keep and hold keep
\* the same of them.
SameTo(s, t, keep, hold, m) == \A k \in 1 .. m : s[k] = t[k] /\ keep[k] = hold[k]

LEMMA SelectsExists ==
    ASSUME NEW s, NEW keep, NEW m \in Nat
    PROVE  \E f : Selects(f, s, keep, m)
<1> DEFINE S == {n \in Nat : \E f : Selects(f, s, keep, n)}
<1>1. 0 \in S
  <2>1. Selects([k \in 0 .. 0 |-> <<>>], s, keep, 0)
    BY DEF Selects
  <2>2. QED
    BY <2>1
<1>2. ASSUME NEW n \in Nat, n \in S
      PROVE  n + 1 \in S
  <2>1. PICK f : Selects(f, s, keep, n)
    BY <1>2
  <2> DEFINE step == IF keep[n + 1] THEN Append(f[n], s[n + 1]) ELSE f[n]
             g == [k \in 0 .. n + 1 |-> IF k = n + 1 THEN step ELSE f[k]]
  <2>2. ASSUME NEW k \in 0 .. n + 1
        PROVE  g[k] = IF k = 0 THEN <<>>
                      ELSE IF keep[k] THEN Append(g[k - 1], s[k]) ELSE g[k - 1]
    <3>1. CASE k = n + 1
      <4>1. g[k] = step /\ g[k - 1] = f[n] /\ k # 0
        BY <3>1
      <4>2. QED
        BY <3>1, <4>1
    <3>2. CASE k # n + 1
      <4>1. k \in 0 .. n /\ g[k] = f[k] /\ (k # 0 => g[k - 1] = f[k - 1])
        BY <3>2
      <4>2. f[k] = IF k = 0 THEN <<>>
                   ELSE IF keep[k] THEN Append(f[k - 1], s[k]) ELSE f[k - 1]
        BY <2>1, <4>1 DEF Selects
      <4> HIDE DEF g
      <4>3. QED
        BY <4>1, <4>2
    <3>3. QED
      BY <3>1, <3>2
  <2>3. g = [k \in 0 .. n + 1 |-> g[k]]
    OBVIOUS
  <2> HIDE DEF g
  <2>4. Selects(g, s, keep, n + 1)
    BY <2>2, <2>3 DEF Selects
  <2>5. QED
    BY <2>4
<1>3. m \in S
  <2> HIDE DEF S
  <2>1. Nat \subseteq S
    BY <1>1, <1>2, Induction
  <2>2. QED
    BY <2>1
<1>4. QED
  BY <1>3

\* Two such functions, of sequences with the same start, agree on it.
LEMMA SelectsAgree ==
    ASSUME NEW s, NEW t, NEW keep, NEW hold, NEW m \in Nat, NEW n \in Nat, m <= n,
           SameTo(s, t, keep, hold, m),
           NEW f, Selects(f, s, keep, m), NEW g, Selects(g, t, hold, n)
    PROVE  f[m] = g[m]
<1> DEFINE S == {k \in Nat : k <= m => f[k] = g[k]}
<1>1. \A k \in 0 .. m :
        f[k] = IF k = 0 THEN <<>>
               ELSE IF keep[k] THEN Append(f[k - 1], s[k]) ELSE f[k - 1]
  BY DEF Selects
<1>2. \A k \in 0 .. n :
        g[k] = IF k = 0 THEN <<>>
               ELSE IF hold[k] THEN Append(g[k - 1], t[k]) ELSE g[k - 1]
  BY DEF Selects
<1>3. 0 \in S
  BY <1>1, <1>2
<1>4. ASSUME NEW k \in Nat, k \in S, k + 1 <= m
      PROVE  f[k + 1] = g[k + 1]
  <2>1. /\ k + 1 \in 0 .. m /\ k + 1 \in 0 .. n /\ k + 1 \in 1 .. m /\ k + 1 # 0
        /\ (k + 1) - 1 = k /\ f[k] = g[k]
    BY <1>4
  <2>2. f[k + 1] = IF keep[k + 1] THEN Append(f[k], s[k + 1]) ELSE f[k]
    BY <1>1, <2>1
  <2>3. g[k + 1] = IF hold[k + 1] THEN Append(g[k], t[k + 1]) ELSE g[k]
    BY <1>2, <2>1
  <2>4. s[k + 1] = t[k + 1] /\ keep[k + 1] = hold[k + 1]
    BY <2>1 DEF SameTo
  <2>5. QED
    BY <2>1, <2>2, <2>3, <2>4
<1>5. m \in S
  <2>1. \A k \in Nat : k \in S => k + 1 \in S
    BY <1>4
  <2> HIDE DEF S
  <2>2. Nat \subseteq S
    BY <1>3, <2>1, Induction
  <2>3. QED
    BY <2>2
<1>6. QED
  BY <1>5

LEMMA SelectedIs ==
    ASSUME NEW s, Len(s) \in Nat, NEW keep, NEW f, Selects(f, s, keep, Len(s))
    PROVE  Selected(s, keep) = f[Len(s)]
<1> DEFINE g == CHOOSE h : Selects(h, s, keep, Len(s))
<1>1. Selects(g, s, keep, Len(s))
  OBVIOUS
<1>2. Selected(s, keep) = g[Len(s)]
  BY DEF Selected, Selects
<1> HIDE DEF g
<1>3. SameTo(s, s, keep, keep, Len(s)) /\ Len(s) <= Len(s)
  BY DEF SameTo
<1>4. QED
  BY <1>1, <1>2, <1>3, SelectsAgree

LEMMA SelectedEmpty ==
    ASSUME NEW keep
    PROVE  Selected(<<>>, keep) = <<>>
<1>1. PICK f : Selects(f, <<>>, keep, Len(<<>>))
  BY SelectsExists
<1>2. f[0] = <<>> /\ Len(<<>>) = 0
  BY <1>1 DEF Selects
<1>3. QED
  BY <1>1, <1>2, SelectedIs

LEMMA SelectedAppend ==
    ASSUME NEW S, NEW s \in Seq(S), NEW x \in S, NEW keep
    PROVE  Selected(Append(s, x), keep) =
             IF keep[Len(s) + 1] THEN Append(Selected(s, keep), x) ELSE Selected(s, keep)
<1> DEFINE t == Append(s, x)
<1>1. /\ Len(s) \in Nat /\ t \in Seq(S) /\ Len(t) = Len(s) + 1
      /\ \A k \in 1 .. Len(s) : s[k] = t[k]
      /\ t[Len(s) + 1] = x
  BY AppendProperties
<1> HIDE DEF t
<1>2. PICK f : Selects(f, s, keep, Len(s))
  BY <1>1, SelectsExists
<1>3. PICK g : Selects(g, t, keep, Len(t))
  BY <1>1, SelectsExists
<1>4. f[Len(s)] = g[Len(s)]
  <2>1. SameTo(s, t, keep, keep, Len(s)) /\ Len(s) <= Len(t) /\ Len(t) \in Nat
    BY <1>1 DEF SameTo
  <2>2. QED
    BY <1>1, <1>2, <1>3, <2>1, SelectsAgree
<1>5. g[Len(s) + 1] = IF keep[Len(s) + 1] THEN Append(g[Len(s)], x) ELSE g[Len(s)]
  <2>1. Len(s) + 1 \in 0 .. Len(t) /\ Len(s) + 1 # 0 /\ (Len(s) + 1) - 1 = Len(s)
    BY <1>1
  <2>2. QED
    BY <1>1, <1>3, <2>1 DEF Selects
<1>6. Selected(s, keep) = f[Len(s)] /\ Selected(t, keep) = g[Len(s) + 1]
  BY <1>1, <1>2, <1>3, SelectedIs
<1>7. QED
  BY <1>4, <1>5, <1>6 DEF t

\* What is selected does not depend on anything but what is kept.
LEMMA SelectedSame ==
    ASSUME NEW s, Len(s) \in Nat, NEW keep, NEW hold,
           \A k \in 1 .. Len(s) : keep[k] = hold[k]
    PROVE  Selected(s, keep) = Selected(s, hold)
<1>1. PICK f : Selects(f, s, keep, Len(s))
  BY SelectsExists
<1>2. PICK g : Selects(g, s, hold, Len(s))
  BY SelectsExists
<1>3. f[Len(s)] = g[Len(s)]
  <2>1. SameTo(s, s, keep, hold, Len(s)) /\ Len(s) <= Len(s)
    BY DEF SameTo
  <2>2. QED
    BY <1>1, <1>2, <2>1, SelectsAgree
<1>4. QED
  BY <1>1, <1>2, <1>3, SelectedIs

\* What the facts about Selected say of one sequence.
SelectedSound(S, s, keep) ==
    LET r == Selected(s, keep)
    IN  /\ r \in Seq(S) /\ Len(r) <= Len(s)
        /\ Len(r) = Len(s) => r = s
        /\ (\A k \in 1 .. Len(s) : keep[k]) => Len(r) = Len(s)
        /\ \A j \in 1 .. Len(r) : \E i \in 1 .. Len(s) : keep[i] /\ r[j] = s[i]

LEMMA SelectedFacts ==
    ASSUME NEW S, NEW s \in Seq(S), NEW keep
    PROVE  SelectedSound(S, s, keep)
<1> DEFINE P == {n \in Nat : \A t \in Seq(S) : Len(t) = n => SelectedSound(S, t, keep)}
<1>1. 0 \in P
  <2>1. ASSUME NEW t \in Seq(S), Len(t) = 0
        PROVE  SelectedSound(S, t, keep)
    <3>1. t = <<>> /\ <<>> \in Seq(S) /\ Len(<<>>) = 0
      BY <2>1
    <3>2. Selected(t, keep) = <<>>
      BY <3>1, SelectedEmpty
    <3> DEFINE r == Selected(t, keep)
    <3>3. r = t
      BY <3>1, <3>2
    <3> HIDE DEF r
    <3>4. /\ r \in Seq(S) /\ Len(r) <= Len(t) /\ Len(r) = Len(t)
          /\ \A j \in 1 .. Len(r) : \E i \in 1 .. Len(t) : keep[i] /\ r[j] = t[i]
      BY <2>1, <3>3
    <3>5. QED
      BY <3>3, <3>4 DEF SelectedSound, r
  <2>2. QED
    BY <2>1
<1>2. ASSUME NEW n \in Nat, n \in P
      PROVE  n + 1 \in P
  <2>1. ASSUME NEW t \in Seq(S), Len(t) = n + 1
        PROVE  SelectedSound(S, t, keep)
    <3>1. PICK u \in Seq(S), x \in S : t = Append(u, x)
      <4>1. t # <<>>
        BY <2>1
      <4>2. QED
        BY <4>1, SequenceEmptyOrAppend
    <3>2. /\ Len(u) = n /\ t[n + 1] = x
          /\ \A k \in 1 .. n : t[k] = u[k]
      BY <2>1, <3>1, AppendProperties
    <3> DEFINE q == Selected(u, keep)
               r == Selected(t, keep)
    <3>3. /\ q \in Seq(S) /\ Len(q) <= n
          /\ Len(q) = n => q = u
          /\ (\A k \in 1 .. n : keep[k]) => Len(q) = n
          /\ \A j \in 1 .. Len(q) : \E i \in 1 .. n : keep[i] /\ q[j] = u[i]
      BY <1>2, <3>2 DEF SelectedSound
    <3>4. r = IF keep[n + 1] THEN Append(q, x) ELSE q
      BY <3>1, <3>2, SelectedAppend
    <3> HIDE DEF q, r
    <3>5. CASE keep[n + 1]
      <4>1. /\ r = Append(q, x) /\ r \in Seq(S) /\ Len(r) = Len(q) + 1 /\ r[Len(q) + 1] = x
            /\ \A j \in 1 .. Len(q) : r[j] = q[j]
        BY <3>3, <3>4, <3>5, AppendProperties
      <4>2. Len(q) \in Nat /\ n + 1 \in 1 .. n + 1
        BY <3>3
      <4>3. Len(r) = n + 1 => r = t
        BY <3>1, <3>3, <4>1, <4>2
      <4>4. (\A k \in 1 .. n + 1 : keep[k]) => Len(r) = n + 1
        BY <3>3, <4>1
      <4>5. ASSUME NEW j \in 1 .. Len(r)
            PROVE  \E i \in 1 .. n + 1 : keep[i] /\ r[j] = t[i]
        <5>1. CASE j = Len(q) + 1
          BY <3>2, <3>5, <4>1, <4>2, <5>1
        <5>2. CASE j # Len(q) + 1
          <6>1. j \in 1 .. Len(q)
            BY <4>1, <4>2, <5>2
          <6>2. PICK i \in 1 .. n : keep[i] /\ q[j] = u[i]
            BY <3>3, <6>1
          <6>3. i \in 1 .. n + 1 /\ r[j] = t[i]
            BY <3>2, <4>1, <6>1, <6>2
          <6>4. QED
            BY <6>2, <6>3
        <5>3. QED
          BY <5>1, <5>2
      <4>6. QED
        BY <2>1, <3>3, <4>1, <4>2, <4>3, <4>4, <4>5 DEF SelectedSound, r
    <3>6. CASE ~keep[n + 1]
      <4>1. r = q /\ Len(q) # n + 1 /\ n + 1 \in 1 .. n + 1
        BY <3>3, <3>4, <3>6
      <4>2. ASSUME NEW j \in 1 .. Len(q)
            PROVE  \E i \in 1 .. n + 1 : keep[i] /\ q[j] = t[i]
        <5>1. PICK i \in 1 .. n : keep[i] /\ q[j] = u[i]
          BY <3>3
        <5>2. QED
          BY <3>2, <5>1
      <4>3. QED
        BY <2>1, <3>3, <3>6, <4>1, <4>2 DEF SelectedSound, r
    <3>7. QED
      BY <3>5, <3>6
  <2>2. QED
    BY <2>1
<1>3. Len(s) \in P
  <2> HIDE DEF P
  <2>1. Nat \subseteq P
    BY <1>1, <1>2, Induction
  <2>2. QED
    BY <2>1
<1>4. QED
  BY <1>3

-----------------------------------------------------------------------------
(* Types *)

Sides == {"none", "left", "right", "ready"}
Op == [left : Seq(Row), right : Seq(Row), leftIdx : Nat, rightIdx : Nat,
       side : Sides, out : Seq(Row), skipped : Nat, returned : Nat]

\* An operator over the node, with its indexes and counters in range.  The
\* indexes of a product move when both sides have been read.
OpSound(node, op) ==
    /\ op \in Op
    /\ op.leftIdx <= Len(op.left) /\ op.rightIdx <= Len(op.right)
    /\ op.side # "ready" => op.leftIdx = 0 /\ op.rightIdx = 0
    /\ Len(op.out) <= BatchSize
    /\ op.skipped <= node.offset
    /\ op.returned <= node.limit \/ op.returned = 0

DataSound ==
    /\ tables \in [Tables -> Contents]
    /\ status \in {"new", "running", "done", "failed", "undefined"}
    /\ status \in {"running", "done", "undefined"} => Linkable
    /\ returning \in BOOLEAN
    /\ batch \in Seq(Row)
    /\ rows \in Seq(Row) /\ Len(rows) <= MaxRows
    /\ taken \in [Nodes -> Seq(Row)]
    /\ \A n \in Nodes : OpSound(plan[n], ops[n])

TypeSound == PullSound /\ DataSound

LEMMA NodeFacts ==
    ASSUME plan \in Plans, NEW n \in Nodes
    PROVE  plan[n] \in PlanNode
BY PlansAssumption DEF Nodes

\* A record of an operator, field by field.
LEMMA OpFields ==
    ASSUME NEW op \in Op
    PROVE  /\ op.left \in Seq(Row) /\ op.right \in Seq(Row) /\ op.out \in Seq(Row)
           /\ op.leftIdx \in Nat /\ op.rightIdx \in Nat
           /\ op.skipped \in Nat /\ op.returned \in Nat /\ op.side \in Sides
BY DEF Op

LEMMA ProjectedType ==
    ASSUME NEW cols \in Seq(STRING), NEW names, NEW row \in Row
    PROVE  Projected(cols, names, row) \in Row
<1> DEFINE keep == [i \in DOMAIN cols |-> Position(names, cols[i]) \in 1 .. Len(row)]
           found == Selected(cols, keep)
<1>1. /\ found \in Seq(STRING)
      /\ \A j \in 1 .. Len(found) : \E i \in 1 .. Len(cols) : keep[i] /\ found[j] = cols[i]
  <2> HIDE DEF keep
  <2>1. SelectedSound(STRING, cols, keep)
    BY SelectedFacts
  <2>2. QED
    BY <2>1 DEF SelectedSound
<1> HIDE DEF found
<1>2. ASSUME NEW j \in 1 .. Len(found)
      PROVE  row[Position(names, found[j])] \in Value
  <2>1. PICK i \in 1 .. Len(cols) : keep[i] /\ found[j] = cols[i]
    BY <1>1
  <2>2. i \in DOMAIN cols
    BY <2>1
  <2>3. Position(names, cols[i]) \in 1 .. Len(row)
    BY <2>1, <2>2, Zenon
  <2>4. QED
    BY <2>1, <2>3 DEF Row
<1>3. [j \in DOMAIN found |-> row[Position(names, found[j])]] \in Seq(Value)
  BY <1>1, <1>2
<1>4. QED
  BY <1>3 DEF Projected, found, Row

LEMMA ProjectionType ==
    ASSUME NEW cols \in Seq(STRING), NEW names, NEW all \in Seq(Row)
    PROVE  Projection(cols, names, all) \in Seq(Row) /\ Len(Projection(cols, names, all)) = Len(all)
<1>1. \A i \in DOMAIN all : Projected(cols, names, all[i]) \in Row
  BY ProjectedType
<1>2. QED
  BY <1>1 DEF Projection

\* Rows put together.
LEMMA RowFacts ==
    /\ <<>> \in Seq(Row)
    /\ \A r, s \in Row : r \o s \in Row
BY DEF Row

\* What is taken from a child is a sequence of rows.
LEMMA TakeType ==
    ASSUME TypeSound, Take
    PROVE  taken' \in [Nodes -> Seq(Row)]
<1>1. CASE ~returning
  BY <1>1 DEF Take, TypeSound, DataSound
<1>2. CASE returning
  <2>1. taken' = [taken EXCEPT ![Reading] = Capped(@ \o batch)]
    BY <1>2 DEF Take
  <2>2. CASE Reading \in Nodes
    <3>1. taken[Reading] \in Seq(Row) /\ batch \in Seq(Row)
      BY <2>2 DEF TypeSound, DataSound
    <3>2. Capped(taken[Reading] \o batch) \in Seq(Row)
      BY <3>1, CappedFacts, ConcatProperties
    <3>3. QED
      BY <2>1, <3>2 DEF TypeSound, DataSound
  <2>3. CASE Reading \notin Nodes
    <3>1. taken' = taken
      BY <2>1, <2>3 DEF TypeSound, DataSound
    <3>2. QED
      BY <3>1 DEF TypeSound, DataSound
  <2>4. QED
    BY <2>2, <2>3
<1>3. QED
  BY <1>1, <1>2

\* A step of the innermost operator keeps the types if its new state and its
\* batch have theirs.
LEMMA StepType ==
    ASSUME TypeSound, status = "running", stack # <<>>, UNCHANGED <<plan, tables, rows>>,
           Take \/ taken' = taken,
           status' \in {"running", "undefined"}, returning' \in BOOLEAN, batch' \in Seq(Row),
           DOMAIN ops' = Nodes, \A n \in Nodes : n # Top => ops'[n] = ops[n],
           OpSound(Node, ops'[Top])
    PROVE  DataSound'
<1>1. Nodes' = Nodes /\ Top \in Nodes /\ (Linkable' <=> Linkable)
  BY TopFacts DEF TypeSound, Nodes, Linkable, TablesKnown
<1>2. taken' \in [Nodes -> Seq(Row)]
  BY TakeType DEF TypeSound, DataSound
<1>3. \A n \in Nodes : OpSound(plan[n], ops'[n])
  BY <1>1 DEF TypeSound, DataSound, Node
<1>4. QED
  BY <1>1, <1>2, <1>3 DEF TypeSound, DataSound

\* The innermost operator, its node and its state.
LEMMA TopSound ==
    ASSUME TypeSound, stack # <<>>
    PROVE  /\ Top \in Nodes /\ Node \in PlanNode /\ OpSound(Node, ops[Top])
           /\ DOMAIN ops = Nodes /\ batch \in Seq(Row)
           /\ status = "running" => Linkable
<1>1. Top \in Nodes /\ plan \in Plans
  BY TopFacts DEF TypeSound, PullSound
<1>2. Node \in PlanNode
  BY <1>1, NodeFacts DEF Node
<1>3. QED
  BY <1>1, <1>2 DEF TypeSound, PullSound, OpsShaped, DataSound, Node

\* A step that leaves the operators alone.
LEMMA QuietStepType ==
    ASSUME TypeSound, status = "running", stack # <<>>, UNCHANGED <<plan, tables, rows, ops>>,
           Take \/ taken' = taken,
           status' \in {"running", "undefined"}, returning' \in BOOLEAN, batch' \in Seq(Row)
    PROVE  DataSound'
<1>1. DOMAIN ops' = Nodes /\ OpSound(Node, ops'[Top]) /\ \A n \in Nodes : n # Top => ops'[n] = ops[n]
  BY TopSound
<1>2. QED
  BY <1>1, StepType

LEMMA ScanType == TypeSound /\ ScanNext => DataSound'
<1> SUFFICES ASSUME TypeSound, ScanNext
              PROVE  DataSound'
  OBVIOUS
<1>1. status = "running" /\ stack # <<>> /\ Node.op = "scan" /\ Return(tables[Node.table]) /\ ops' = ops
  BY DEF ScanNext, Calling
<1>2. tables[Node.table] \in Seq(Row)
  <2>1. Node.table \in Tables
    BY <1>1, TopSound DEF Linkable, TablesKnown, Node
  <2>2. tables[Node.table] \in Contents
    BY <2>1 DEF TypeSound, DataSound
  <2>3. QED
    BY <2>2, CatalogAssumption DEF Row
<1>3. QED
  BY <1>1, <1>2, QuietStepType DEF Return

LEMMA UnaryType ==
    TypeSound /\ (PullInput \/ PassEnd \/ FilterRows \/ NaiveKeeps \/ ProjectRows \/ LimitNext)
      => DataSound'
<1> SUFFICES ASSUME TypeSound,
                    PullInput \/ PassEnd \/ FilterRows \/ NaiveKeeps \/ ProjectRows \/ LimitNext
              PROVE  DataSound'
  OBVIOUS
<1>1. status = "running" /\ stack # <<>> /\ ops' = ops
  BY DEF PullInput, PassEnd, FilterRows, NaiveKeeps, ProjectRows, LimitNext, Calling, Returned,
         Undefined
<1>2. batch \in Seq(Row) /\ Node \in PlanNode /\ <<>> \in Seq(Row)
  BY <1>1, TopSound, RowFacts
<1>3. CASE \E c : Pull(c)
  <2>1. /\ UNCHANGED <<plan, tables, batch, rows, status>> /\ Take /\ returning' = FALSE
    BY <1>3 DEF Pull
  <2>2. QED
    BY <1>1, <1>2, <2>1, QuietStepType
<1>4. ASSUME NEW result \in Seq(Row), Return(result)
      PROVE  DataSound'
  BY <1>1, <1>4, QuietStepType DEF Return
<1>5. CASE Undefined
  BY <1>1, <1>2, <1>5, QuietStepType DEF Undefined, TypeSound, DataSound
<1>6. CASE PullInput
  BY <1>3, <1>6 DEF PullInput
<1>7. CASE PassEnd
  BY <1>2, <1>4, <1>7 DEF PassEnd
<1>8. CASE FilterRows
  <2> DEFINE keep == [i \in DOMAIN batch |-> Accepts(Node.cond, Names(Top), batch[i])]
  <2>1. Return(Selected(batch, keep))
    BY <1>8 DEF FilterRows
  <2> HIDE DEF keep
  <2>2. SelectedSound(Row, batch, keep)
    BY <1>2, SelectedFacts
  <2>3. Selected(batch, keep) \in Seq(Row)
    BY <2>2 DEF SelectedSound
  <2>4. QED
    BY <1>4, <2>1, <2>3
<1>9. CASE NaiveKeeps
  <2> DEFINE n == IF Len(batch) < NaiveRows THEN Len(batch) ELSE NaiveRows
  <2>1. n \in Nat /\ n <= Len(batch)
    BY <1>2, OperatorsAssumption
  <2>2. Return(SubSeq(batch, 1, n))
    BY <1>9 DEF NaiveKeeps
  <2> HIDE DEF n
  <2>3. SubSeq(batch, 1, n) \in Seq(Row)
    BY <1>2, <2>1, PrefixFacts
  <2>4. QED
    BY <1>4, <2>2, <2>3
<1>10. CASE ProjectRows
  <2>1. CASE Star \in Range(Node.cols)
    BY <1>5, <1>10, <2>1 DEF ProjectRows
  <2>2. CASE Star \notin Range(Node.cols)
    <3>1. Node.cols \in Seq(STRING)
      BY <1>2 DEF PlanNode
    <3>2. Projection(Node.cols, Names(Top), batch) \in Seq(Row)
      BY <1>2, <3>1, ProjectionType
    <3>3. QED
      BY <1>4, <1>10, <2>2, <3>2 DEF ProjectRows
  <2>3. QED
    BY <2>1, <2>2
<1>11. CASE LimitNext
  BY <1>2, <1>3, <1>4, <1>11 DEF LimitNext
<1>12. QED
  BY <1>6, <1>7, <1>8, <1>9, <1>10, <1>11

\* What LIMIT skips and keeps of a batch.
LEMMA KeptFacts ==
    ASSUME TypeSound, NEW n \in Nodes
    PROVE  /\ Skip(n) \in Nat /\ Skip(n) <= Len(batch) /\ ops[n].skipped + Skip(n) <= plan[n].offset
           /\ Kept(n) \in Seq(Row) /\ Len(Kept(n)) <= Len(batch) - Skip(n)
           /\ plan[n].limit >= 0 => ops[n].returned + Len(Kept(n)) <= plan[n].limit
           /\ Kept(n) = SubSeq(batch, Skip(n) + 1, Skip(n) + Len(Kept(n)))
<1>1. plan[n].offset \in Nat /\ plan[n].limit \in Int /\ Len(batch) \in Nat /\ batch \in Seq(Row)
  BY NodeFacts DEF TypeSound, PullSound, DataSound, PlanNode
<1>2. /\ ops[n].skipped \in Nat /\ ops[n].skipped <= plan[n].offset
      /\ ops[n].returned \in Nat /\ (ops[n].returned <= plan[n].limit \/ ops[n].returned = 0)
  BY OpFields DEF TypeSound, DataSound, OpSound
<1>3. /\ Skip(n) \in Nat /\ Skip(n) <= Len(batch) /\ ops[n].skipped + Skip(n) <= plan[n].offset
  BY <1>1, <1>2 DEF Skip
<1> DEFINE skip == Skip(n)
           rest == SubSeq(batch, skip + 1, Len(batch))
           room == plan[n].limit - ops[n].returned
<1>4. /\ rest \in Seq(Row) /\ Len(rest) = Len(batch) - skip
      /\ \A i \in 1 .. Len(rest) : rest[i] = batch[skip + i]
  <2> HIDE DEF skip
  <2>1. /\ rest \in Seq(Row) /\ Len(rest) = IF skip <= Len(batch) THEN Len(batch) - skip ELSE 0
        /\ \A i \in 1 .. Len(batch) - skip : rest[i] = batch[skip + i]
    BY <1>1, <1>3, CutSub DEF skip
  <2>2. QED
    BY <1>1, <1>3, <2>1 DEF skip
<1>5. Kept(n) = IF plan[n].limit >= 0 /\ room < Len(rest) THEN SubSeq(rest, 1, room) ELSE rest
  BY DEF Kept
<1>6. CASE plan[n].limit >= 0 /\ room < Len(rest)
  <2>1. room \in Nat /\ room <= Len(rest)
    BY <1>1, <1>2, <1>4, <1>6
  <2> HIDE DEF rest, room, skip
  <2>2. /\ SubSeq(rest, 1, room) \in Seq(Row)
        /\ Len(SubSeq(rest, 1, room)) = room
        /\ \A i \in 1 .. room : SubSeq(rest, 1, room)[i] = rest[i]
    BY <1>4, <2>1, PrefixFacts
  <2>3. /\ SubSeq(batch, skip + 1, skip + room) \in Seq(Row)
        /\ Len(SubSeq(batch, skip + 1, skip + room)) = room
        /\ \A i \in 1 .. room : SubSeq(batch, skip + 1, skip + room)[i] = batch[skip + i]
    <3>1. /\ skip + room \in Nat /\ skip + room <= Len(batch)
          /\ skip <= skip + room /\ (skip + room) - skip = room
          /\ skip \in Nat
      BY <1>1, <1>3, <1>4, <2>1 DEF skip
    <3>2. QED
      BY <1>1, <3>1, CutSub
  <2>4. Kept(n) = SubSeq(rest, 1, room)
    BY <1>5, <1>6
  <2>5. SubSeq(batch, skip + 1, skip + room) = SubSeq(rest, 1, room)
    <3>1. \A i \in 1 .. room : rest[i] = batch[skip + i]
      BY <1>4, <2>1
    <3>2. \A i \in 1 .. room : SubSeq(batch, skip + 1, skip + room)[i] = SubSeq(rest, 1, room)[i]
      BY <2>2, <2>3, <3>1
    <3>3. PICK a \in Seq(Row), b \in Seq(Row) :
            a = SubSeq(batch, skip + 1, skip + room) /\ b = SubSeq(rest, 1, room)
      BY <2>2, <2>3
    <3>4. Len(a) = room /\ Len(b) = room /\ \A i \in 1 .. room : a[i] = b[i]
      BY <2>2, <2>3, <3>2, <3>3
    <3>5. a = b
      BY <2>1, <3>4
    <3>6. QED
      BY <3>3, <3>5
  <2>6. Len(Kept(n)) = room /\ Kept(n) = SubSeq(batch, skip + 1, skip + Len(Kept(n)))
    BY <2>2, <2>4, <2>5
  <2>7. /\ Kept(n) \in Seq(Row) /\ Len(Kept(n)) <= Len(batch) - skip
        /\ ops[n].returned + Len(Kept(n)) <= plan[n].limit
    <3>1. plan[n].limit = ops[n].returned + room
      BY <1>1, <1>2 DEF room
    <3>2. QED
      BY <1>1, <1>2, <1>4, <1>6, <2>1, <2>2, <2>4, <2>6, <3>1
  <2>8. QED
    BY <1>3, <2>6, <2>7 DEF skip
<1>7. CASE ~(plan[n].limit >= 0 /\ room < Len(rest))
  <2> HIDE DEF rest
  <2>1. Kept(n) = rest
    BY <1>5, <1>7
  <2>2. skip + Len(rest) = Len(batch)
    BY <1>1, <1>3, <1>4
  <2>3. Kept(n) = SubSeq(batch, skip + 1, skip + Len(Kept(n)))
    BY <2>1, <2>2 DEF rest
  <2>4. Len(Kept(n)) <= Len(batch) - skip /\ Kept(n) \in Seq(Row)
    BY <1>4, <2>1, <1>1, <1>3
  <2>5. plan[n].limit >= 0 => ops[n].returned + Len(Kept(n)) <= plan[n].limit
    BY <1>1, <1>2, <1>4, <1>7, <2>1 DEF room
  <2>6. QED
    BY <1>3, <2>3, <2>4, <2>5 DEF skip
<1>8. QED
  BY <1>6, <1>7

LEMMA LimitType == TypeSound /\ LimitRows => DataSound'
<1> SUFFICES ASSUME TypeSound, LimitRows
              PROVE  DataSound'
  OBVIOUS
<1>1. status = "running" /\ stack # <<>> /\ Return(Kept(Top))
  BY DEF LimitRows, Returned
<1>2. /\ Top \in Nodes /\ DOMAIN ops = Nodes /\ OpSound(Node, ops[Top]) /\ Node = plan[Top]
      /\ Node.limit \in Int
  BY <1>1, TopSound DEF Node, PlanNode
<1> DEFINE skipped == ops[Top].skipped + Skip(Top)
           returned == IF Node.limit < 0 THEN 0 ELSE ops[Top].returned + Len(Kept(Top))
<1>3. ops' = [ops EXCEPT ![Top].skipped = skipped, ![Top].returned = returned]
  BY DEF LimitRows
<1>4. /\ Kept(Top) \in Seq(Row)
      /\ skipped \in Nat /\ skipped <= Node.offset
      /\ returned \in Nat /\ (returned <= Node.limit \/ returned = 0)
  <2>1. ops[Top].skipped \in Nat /\ ops[Top].returned \in Nat
    BY <1>2, OpFields DEF OpSound
  <2>2. /\ Skip(Top) \in Nat /\ ops[Top].skipped + Skip(Top) <= plan[Top].offset
        /\ Kept(Top) \in Seq(Row) /\ Len(Kept(Top)) \in Nat
        /\ plan[Top].limit >= 0 => ops[Top].returned + Len(Kept(Top)) <= plan[Top].limit
    BY <1>2, KeptFacts
  <2>3. QED
    BY <1>2, <2>1, <2>2
<1> HIDE DEF skipped, returned
<1>5. /\ DOMAIN ops' = Nodes /\ \A n \in Nodes : n # Top => ops'[n] = ops[n]
      /\ ops'[Top] = [ops[Top] EXCEPT !.skipped = skipped, !.returned = returned]
  BY <1>2, <1>3
<1>6. OpSound(Node, ops'[Top])
  BY <1>2, <1>4, <1>5 DEF OpSound, Op
<1>7. QED
  BY <1>1, <1>4, <1>5, <1>6, StepType DEF Return

\* The steps of a product.
LEMMA ProductType ==
    TypeSound /\ (PullLeft \/ DrainLeft \/ DrainRight \/ ReturnPairs) => DataSound'
<1> SUFFICES ASSUME TypeSound, PullLeft \/ DrainLeft \/ DrainRight \/ ReturnPairs
              PROVE  DataSound'
  OBVIOUS
<1>1. status = "running" /\ stack # <<>>
  BY DEF PullLeft, DrainLeft, DrainRight, ReturnPairs, Calling, Returned
<1>2. /\ Top \in Nodes /\ DOMAIN ops = Nodes /\ OpSound(Node, ops[Top])
      /\ batch \in Seq(Row) /\ <<>> \in Seq(Row)
  BY <1>1, TopSound, RowFacts
<1>3. ops[Top] \in Op
  BY <1>2 DEF OpSound
<1>4. ASSUME NEW op, ops' = [ops EXCEPT ![Top] = op], OpSound(Node, op),
             (\E c : Pull(c)) \/ (\E r \in Seq(Row) : Return(r))
               \/ (Take /\ ~returning' /\ returning' \in BOOLEAN
                     /\ UNCHANGED <<plan, tables, rows, status, batch>>)
      PROVE  DataSound'
  <2>1. /\ DOMAIN ops' = Nodes /\ \A n \in Nodes : n # Top => ops'[n] = ops[n]
        /\ ops'[Top] = op
    BY <1>2, <1>4
  <2>2. /\ Take /\ UNCHANGED <<plan, tables, rows, status>>
        /\ batch' \in Seq(Row) /\ returning' \in BOOLEAN
    BY <1>2, <1>4 DEF Pull, Return
  <2>3. QED
    BY <1>1, <1>4, <2>1, <2>2, StepType
<1>5. \A side \in Sides :
        ops[Top].side # "ready" => OpSound(Node, [ops[Top] EXCEPT !.side = side])
  BY <1>2, <1>3 DEF OpSound, Op
<1>6. CASE PullLeft
  <2>1. /\ ops' = [ops EXCEPT ![Top] = [ops[Top] EXCEPT !.side = "left"]] /\ Pull(Node.left)
        /\ ops[Top].side # "ready"
    BY <1>2, <1>6 DEF PullLeft
  <2>2. "left" \in Sides
    BY DEF Sides
  <2>3. QED
    BY <1>4, <1>5, <2>1, <2>2
<1>7. ASSUME ops[Top].side # "ready"
      PROVE  /\ OpSound(Node, [ops[Top] EXCEPT !.left = Capped(@ \o batch)])
             /\ OpSound(Node, [ops[Top] EXCEPT !.right = Capped(@ \o batch)])
  <2>1. /\ Capped(ops[Top].left \o batch) \in Seq(Row)
        /\ Capped(ops[Top].right \o batch) \in Seq(Row)
    <3>1. ops[Top].left \o batch \in Seq(Row) /\ ops[Top].right \o batch \in Seq(Row)
      BY <1>2, <1>3, OpFields, ConcatProperties
    <3>2. QED
      BY <3>1, CappedFacts
  <2>2. \A s \in Seq(Row) : 0 <= Len(s)
    OBVIOUS
  <2>3. QED
    BY <1>2, <1>3, <1>7, <2>1, <2>2 DEF OpSound, Op
<1>8. CASE DrainLeft
  <2>1. ops[Top].side # "ready"
    BY <1>8 DEF DrainLeft
  <2>2. CASE batch # <<>>
    <3>1. ops' = [ops EXCEPT ![Top] = [ops[Top] EXCEPT !.left = Capped(@ \o batch)]] /\ Pull(Node.left)
      BY <1>2, <1>8, <2>2 DEF DrainLeft
    <3>2. QED
      BY <1>4, <1>7, <2>1, <3>1
  <2>3. CASE batch = <<>>
    <3>1. ops' = [ops EXCEPT ![Top] = [ops[Top] EXCEPT !.side = "right"]] /\ Pull(Node.right)
      BY <1>2, <1>8, <2>3 DEF DrainLeft
    <3>2. "right" \in Sides
      BY DEF Sides
    <3>3. QED
      BY <1>4, <1>5, <2>1, <3>1, <3>2
  <2>4. QED
    BY <2>2, <2>3
<1>9. CASE DrainRight
  <2>1. ops[Top].side # "ready"
    BY <1>9 DEF DrainRight
  <2>2. CASE batch # <<>>
    <3>1. ops' = [ops EXCEPT ![Top] = [ops[Top] EXCEPT !.right = Capped(@ \o batch)]] /\ Pull(Node.right)
      BY <1>2, <1>9, <2>2 DEF DrainRight
    <3>2. QED
      BY <1>4, <1>7, <2>1, <3>1
  <2>3. CASE batch = <<>>
    <3>1. /\ ops' = [ops EXCEPT ![Top] = [ops[Top] EXCEPT !.side = "ready"]]
          /\ Take /\ returning' = FALSE /\ UNCHANGED <<plan, tables, rows, status, batch>>
      BY <1>2, <1>9, <2>3 DEF DrainRight
    <3>2. "ready" \in Sides
      BY DEF Sides
    <3>3. OpSound(Node, [ops[Top] EXCEPT !.side = "ready"])
      BY <1>5, <2>1, <3>2
    <3>4. QED
      BY <1>4, <3>1, <3>3
  <2>4. QED
    BY <2>2, <2>3
<1>10. CASE ReturnPairs
  <2>1. ops' = [ops EXCEPT ![Top] = [ops[Top] EXCEPT !.out = <<>>]] /\ Return(ops[Top].out)
    BY <1>2, <1>10 DEF ReturnPairs
  <2>2. ops[Top].out \in Seq(Row)
    BY <1>3, OpFields
  <2>3. OpSound(Node, [ops[Top] EXCEPT !.out = <<>>])
    <3>1. Len(<<>>) <= BatchSize
      BY OperatorsAssumption
    <3>2. QED
      BY <1>2, <1>3, <3>1 DEF OpSound, Op
  <2>4. QED
    BY <1>4, <2>1, <2>2, <2>3
<1>11. QED
  BY <1>6, <1>8, <1>9, <1>10

\* One pair: the new state of the product.
LEMMA PairStep ==
    ASSUME TypeSound, PairRows, ~Undefined
    PROVE  LET op == ops[Top]
               wraps == op.rightIdx + 1 >= Len(op.right)
           IN  /\ op.rightIdx < Len(op.right)
               /\ ops' = [ops EXCEPT ![Top] =
                    [op EXCEPT !.out = Append(@, op.left[op.leftIdx + 1] \o op.right[op.rightIdx + 1]),
                               !.rightIdx = IF wraps THEN 0 ELSE @ + 1,
                               !.leftIdx = IF wraps THEN @ + 1 ELSE @]]
               /\ UNCHANGED <<plan, tables, stack, returning, batch, rows, status, ended, taken>>
<1> DEFINE op == ops[Top]
           wraps == op.rightIdx + 1 >= Len(op.right)
<1>1. stack # <<>> /\ Top \in Nodes /\ DOMAIN ops = Nodes /\ op \in Op
  BY TopSound DEF PairRows, Calling, OpSound
<1>2. ~(op.rightIdx >= Len(op.right))
  BY DEF PairRows
<1>3. op.rightIdx \in Nat /\ Len(op.right) \in Nat
  BY <1>1, OpFields
<1>4. /\ ops' = [ops EXCEPT
           ![Top].out = Append(@, op.left[op.leftIdx + 1] \o op.right[op.rightIdx + 1]),
           ![Top].rightIdx = IF wraps THEN 0 ELSE @ + 1,
           ![Top].leftIdx = IF wraps THEN @ + 1 ELSE @]
      /\ UNCHANGED <<plan, tables, stack, returning, batch, rows, status, ended, taken>>
  BY <1>2 DEF PairRows
<1>5. ops' = [ops EXCEPT ![Top] =
           [op EXCEPT !.out = Append(@, op.left[op.leftIdx + 1] \o op.right[op.rightIdx + 1]),
                      !.rightIdx = IF wraps THEN 0 ELSE @ + 1,
                      !.leftIdx = IF wraps THEN @ + 1 ELSE @]]
  BY <1>1, <1>4
<1>6. op.rightIdx < Len(op.right)
  BY <1>2, <1>3
<1>7. QED
  BY <1>4, <1>5, <1>6, Zenon

LEMMA PairType == TypeSound /\ PairRows => DataSound'
<1> SUFFICES ASSUME TypeSound, PairRows
              PROVE  DataSound'
  OBVIOUS
<1>1. /\ status = "running" /\ stack # <<>> /\ ops[Top].side = "ready" /\ MorePairs(ops[Top])
  BY DEF PairRows, Calling
<1>2. CASE Undefined
  BY <1>1, <1>2, TopSound, QuietStepType DEF Undefined, TypeSound, DataSound
<1>3. CASE ~Undefined
  <2> DEFINE op == ops[Top]
             wraps == op.rightIdx + 1 >= Len(op.right)
             pair == op.left[op.leftIdx + 1] \o op.right[op.rightIdx + 1]
             new == [op EXCEPT !.out = Append(@, pair),
                               !.rightIdx = IF wraps THEN 0 ELSE @ + 1,
                               !.leftIdx = IF wraps THEN @ + 1 ELSE @]
  <2>1. /\ op.rightIdx < Len(op.right) /\ ops' = [ops EXCEPT ![Top] = new]
        /\ UNCHANGED <<plan, tables, stack, returning, batch, rows, status, ended, taken>>
    BY <1>3, PairStep
  <2>2. /\ Top \in Nodes /\ DOMAIN ops = Nodes /\ OpSound(Node, op) /\ op \in Op /\ batch \in Seq(Row)
    BY <1>1, TopSound DEF OpSound
  <2>3. /\ op.left \in Seq(Row) /\ op.right \in Seq(Row) /\ op.out \in Seq(Row)
        /\ op.leftIdx \in Nat /\ op.rightIdx \in Nat
    BY <2>2, OpFields
  <2>4. op.leftIdx < Len(op.left) /\ Len(op.out) < BatchSize /\ op.rightIdx < Len(op.right)
    BY <1>1, <2>1 DEF MorePairs
  <2>5. pair \in Row
    <3> HIDE DEF op, new, wraps
    <3>1. /\ Len(op.left) \in Nat /\ \A i \in 1 .. Len(op.left) : op.left[i] \in Row
          /\ Len(op.right) \in Nat /\ \A i \in 1 .. Len(op.right) : op.right[i] \in Row
          /\ op.leftIdx \in Nat /\ op.rightIdx \in Nat
      BY <2>3
    <3>2. op.leftIdx + 1 \in 1 .. Len(op.left) /\ op.rightIdx + 1 \in 1 .. Len(op.right)
      BY <2>4, <3>1
    <3>3. op.left[op.leftIdx + 1] \in Row /\ op.right[op.rightIdx + 1] \in Row
      BY <3>1, <3>2
    <3>4. QED
      BY <3>3, RowFacts
  <2> HIDE DEF pair
  <2>6. OpSound(Node, new)
    <3>1. Append(op.out, pair) \in Seq(Row) /\ Len(Append(op.out, pair)) <= BatchSize
      BY <2>3, <2>4, <2>5, OperatorsAssumption, AppendProperties
    <3>2. CASE wraps
      <4>1. new = [op EXCEPT !.out = Append(op.out, pair), !.rightIdx = 0, !.leftIdx = op.leftIdx + 1]
        BY <3>2
      <4>2. op.leftIdx + 1 \in Nat /\ op.leftIdx + 1 <= Len(op.left) /\ 0 <= Len(op.right)
        BY <2>3, <2>4
      <4> HIDE DEF new, wraps
      <4>3. QED
        BY <1>1, <2>2, <3>1, <4>1, <4>2 DEF OpSound, Op
    <3>3. CASE ~wraps
      <4>1. new = [op EXCEPT !.out = Append(op.out, pair), !.rightIdx = op.rightIdx + 1]
        BY <2>2, <3>3 DEF Op
      <4>2. op.rightIdx + 1 \in Nat /\ op.rightIdx + 1 <= Len(op.right)
        BY <2>1, <2>3
      <4> HIDE DEF new, wraps
      <4>3. QED
        BY <1>1, <2>2, <3>1, <4>1, <4>2 DEF OpSound, Op
    <3>4. QED
      BY <3>2, <3>3
  <2> HIDE DEF new
  <2>7. /\ DOMAIN ops' = Nodes /\ \A n \in Nodes : n # Top => ops'[n] = ops[n]
        /\ ops'[Top] = new
    BY <2>1, <2>2
  <2>8. QED
    BY <1>1, <2>1, <2>2, <2>6, <2>7, StepType DEF TypeSound, DataSound
<1>4. QED
  BY <1>2, <1>3

LEMMA CollectType == TypeSound /\ Collect => DataSound'
<1> SUFFICES ASSUME TypeSound, Collect
              PROVE  DataSound'
  OBVIOUS
<1>1. /\ status = "running" /\ UNCHANGED <<plan, tables, ops, batch>>
      /\ Nodes' = Nodes /\ (Linkable' <=> Linkable)
  BY DEF Collect, Nodes, Linkable, TablesKnown
<1>2. CASE batch = <<>>
  <2>1. status' = "done" /\ UNCHANGED <<returning, rows, taken>>
    BY <1>2 DEF Collect
  <2>2. QED
    BY <1>1, <2>1 DEF TypeSound, DataSound
<1>3. CASE batch # <<>>
  <2>1. /\ rows' = Capped(rows \o batch) /\ returning' = FALSE /\ status' = status
        /\ taken' = [taken EXCEPT ![1] = Capped(@ \o batch)]
    BY <1>3 DEF Collect
  <2>2. 1 \in Nodes
    BY PlanFacts DEF TypeSound, PullSound
  <2>3. rows \o batch \in Seq(Row) /\ taken[1] \o batch \in Seq(Row)
    BY <2>2, ConcatProperties DEF TypeSound, DataSound
  <2>4. /\ Capped(rows \o batch) \in Seq(Row) /\ Len(Capped(rows \o batch)) <= MaxRows
        /\ Capped(taken[1] \o batch) \in Seq(Row)
    BY <2>3, CappedFacts
  <2>5. taken' \in [Nodes -> Seq(Row)]
    BY <2>1, <2>4 DEF TypeSound, DataSound
  <2>6. QED
    BY <1>1, <2>1, <2>4, <2>5 DEF TypeSound, DataSound
<1>4. QED
  BY <1>2, <1>3

LEMMA InitType == Init => DataSound
<1> SUFFICES ASSUME Init
              PROVE  DataSound
  OBVIOUS
<1>1. <<>> \in Seq(Row) /\ Len(<<>>) = 0
  BY RowFacts
<1>2. ASSUME NEW n \in Nodes
      PROVE  OpSound(plan[n], ops[n])
  <2>1. plan[n].offset \in Nat
    BY NodeFacts DEF PlanNode, Init
  <2>2. Fresh \in Op
    BY <1>1 DEF Fresh, Op, Sides
  <2>3. QED
    BY <1>1, <2>1, <2>2, OperatorsAssumption DEF OpSound, Init, Fresh
<1>3. taken \in [Nodes -> Seq(Row)]
  BY <1>1 DEF Init
<1>4. batch \in Seq(Row) /\ rows \in Seq(Row) /\ Len(rows) <= MaxRows
  BY <1>1, OperatorsAssumption DEF Init
<1>5. QED
  BY <1>2, <1>3, <1>4 DEF Init, DataSound

LEMMA NextTypeSound == TypeSound /\ [Next]_vars => TypeSound'
<1> SUFFICES ASSUME TypeSound, [Next]_vars
              PROVE  DataSound'
  BY NextPullSound DEF TypeSound
<1>1. ASSUME Build \/ Link
      PROVE  DataSound'
  <2>1. /\ UNCHANGED <<plan, tables, ops, returning, batch, rows, taken>>
        /\ (status' = "running" /\ Linkable) \/ status' = "failed"
    BY <1>1 DEF Build, Link, Buildable, Linkable, Linked
  <2>2. Nodes' = Nodes /\ (Linkable' <=> Linkable)
    BY <2>1 DEF Nodes, Linkable, TablesKnown
  <2>3. QED
    BY <2>1, <2>2 DEF TypeSound, DataSound
<1>2. CASE ScanNext
  BY <1>2, ScanType
<1>3. CASE PullInput \/ PassEnd \/ FilterRows \/ NaiveKeeps \/ ProjectRows \/ LimitNext
  BY <1>3, UnaryType
<1>4. CASE LimitRows
  BY <1>4, LimitType
<1>5. CASE PullLeft \/ DrainLeft \/ DrainRight \/ ReturnPairs
  BY <1>5, ProductType
<1>6. CASE PairRows
  BY <1>6, PairType
<1>7. CASE Collect
  BY <1>7, CollectType
<1>8. CASE Stopped \/ UNCHANGED vars
  BY <1>8 DEF Stopped, vars, TypeSound, DataSound, Nodes, Linkable, TablesKnown
<1>9. QED
  BY <1>1, <1>2, <1>3, <1>4, <1>5, <1>6, <1>7, <1>8 DEF Next

LEMMA TypeSoundHolds == Spec => []TypeSound
<1>1. Init => TypeSound
  BY InitPullSound, InitType DEF TypeSound
<1>2. QED
  BY <1>1, NextTypeSound, PTL DEF Spec

\* The indexes of a product stay in its vectors and its batch within BATCH_SIZE,
\* and LIMIT never counts more rows than it may skip or hand out.
THEOREM OperatorsTypeOK == Spec => []TypeOK
<1>1. ASSUME TypeSound
      PROVE  TypeOK
  <2>1. ASSUME NEW n \in Nodes
        PROVE  /\ ops[n].side \in {"none", "left", "right", "ready"}
               /\ ops[n].leftIdx \in 0 .. Len(ops[n].left)
               /\ ops[n].rightIdx \in 0 .. Len(ops[n].right)
               /\ Len(ops[n].out) <= BatchSize
               /\ ops[n].skipped <= plan[n].offset
               /\ ops[n].returned <= plan[n].limit \/ ops[n].returned = 0
    <3>1. OpSound(plan[n], ops[n]) /\ ops[n] \in Op
      BY <1>1 DEF TypeSound, DataSound, OpSound
    <3>2. QED
      BY <3>1, OpFields DEF OpSound, Sides
  <2>2. QED
    BY <1>1, <2>1 DEF TypeOK, TypeSound, DataSound, PullSound, PathSound, EndedSound
<1>2. QED
  BY <1>1, TypeSoundHolds, PTL

-----------------------------------------------------------------------------
(* The recursive definitions over a plan *)

\* A node of a plan that can be linked, and its children.
LEMMA Shape ==
    ASSUME plan \in Plans
    PROVE  /\ Len(plan) \in Nat /\ Nodes = 1 .. Len(plan) /\ 1 \in Nodes
           /\ \A n \in Nodes : plan[n] \in PlanNode
           /\ \A n \in Nodes : plan[n].op # "scan" => plan[n].left \in Nodes /\ plan[n].left > n
           /\ \A n \in Nodes : plan[n].op \in Products => plan[n].right \in Nodes /\ plan[n].right > n
<1>1. plan \in Seq(PlanNode) /\ plan # <<>>
  BY PlansAssumption
<1>2. Len(plan) \in Nat /\ Nodes = 1 .. Len(plan) /\ 1 \in Nodes
  BY <1>1 DEF Nodes
<1>3. \A n \in Nodes : plan[n] \in PlanNode
  BY <1>1, <1>2
<1>4. \A n \in Nodes : plan[n].op # "scan" => plan[n].left \in Nodes /\ plan[n].left > n
  BY PlanFacts
<1>5. \A n \in Nodes : plan[n].op \in Products => plan[n].right \in Nodes /\ plan[n].right > n
  BY PlanFacts
<1>6. QED
  BY <1>2, <1>3, <1>4, <1>5

\* A property that passes from the children of a node to the node holds of all.
LEMMA TreeInduction ==
    ASSUME plan \in Plans, NEW S,
           \A n \in Nodes :
             (\A c \in Nodes : c > n => c \in S) => n \in S
    PROVE  Nodes \subseteq S
<1>1. Hereditary(S, Len(plan))
  BY Shape DEF Hereditary
<1>2. QED
  BY <1>1, Shape, Downwards

LEMMA ColumnsOfType ==
    ASSUME plan \in Plans, Linkable, NEW n \in Nodes, NEW f,
           \A c \in Nodes : c > n => f[c] \in Seq(STRING)
    PROVE  ColumnsOf(f, n) \in Seq(STRING)
<1>1. CASE plan[n].op = "scan"
  <2>1. Schema[plan[n].table] \in Seq(STRING)
    BY <1>1, CatalogAssumption DEF Linkable, TablesKnown
  <2>2. QED
    BY <1>1, <2>1 DEF ColumnsOf, Products
<1>2. CASE plan[n].op \in Products
  <2>1. f[plan[n].left] \in Seq(STRING) /\ f[plan[n].right] \in Seq(STRING)
    BY <1>2, Shape DEF Products
  <2>2. QED
    BY <1>2, <2>1, ConcatProperties DEF ColumnsOf, Products
<1>3. CASE plan[n].op \notin Products /\ plan[n].op # "scan"
  <2>1. f[plan[n].left] \in Seq(STRING) /\ plan[n].cols \in Seq(STRING)
    BY <1>3, Shape DEF PlanNode
  <2>2. QED
    BY <1>3, <2>1 DEF ColumnsOf
<1>4. QED
  BY <1>1, <1>2, <1>3

LEMMA ColumnsUnfold ==
    ASSUME plan \in Plans, Linkable
    PROVE  \A n \in Nodes : Columns[n] = ColumnsOf(Columns, n) /\ Columns[n] \in Seq(STRING)
<1> DEFINE V == Seq(STRING)
           F == [n \in Nodes |-> [f \in [Nodes -> V] |-> ColumnsOf(f, n)]]
           N == Len(plan)
<1>1. N \in Nat /\ Nodes = 1 .. N /\ V # {}
  BY Shape, EmptySeq
<1>2. F \in [1 .. N -> [[1 .. N -> V] -> V]]
  <2>1. \A n \in Nodes : \A f \in [Nodes -> V] : ColumnsOf(f, n) \in V
    BY ColumnsOfType
  <2>2. QED
    BY <1>1, <2>1
<1>3. LooksAhead(F, N, V)
  <2>1. ASSUME NEW n \in Nodes, NEW f \in [Nodes -> V], NEW g \in [Nodes -> V],
               \A m \in Nodes : m > n => f[m] = g[m]
        PROVE  ColumnsOf(f, n) = ColumnsOf(g, n)
    <3>1. /\ plan[n].op # "scan" => f[plan[n].left] = g[plan[n].left]
          /\ plan[n].op \in Products => f[plan[n].right] = g[plan[n].right]
      BY <2>1, Shape
    <3>2. CASE plan[n].op = "scan"
      BY <3>2 DEF ColumnsOf, Products
    <3>3. CASE plan[n].op \in Products
      BY <3>1, <3>3 DEF ColumnsOf, Products
    <3>4. CASE plan[n].op \notin Products /\ plan[n].op # "scan"
      BY <3>1, <3>4 DEF ColumnsOf
    <3>5. QED
      BY <3>2, <3>3, <3>4
  <2>2. QED
    BY <1>1, <2>1 DEF LooksAhead
<1>4. PICK f \in [1 .. N -> V] : Unfolds(f, F, N, 1)
  <2> HIDE DEF F, V, N
  <2>1. QED
    BY <1>1, <1>2, <1>3, Recursion
<1>5. f = [n \in Nodes |-> ColumnsOf(f, n)]
  BY <1>1, <1>4 DEF Unfolds
<1>6. Columns = [n \in Nodes |-> ColumnsOf(Columns, n)]
  BY <1>5 DEF Columns, ColumnsOf
<1>7. \A n \in Nodes : Columns[n] = ColumnsOf(Columns, n)
  BY <1>6
<1>8. \A n \in Nodes : (\A c \in Nodes : c > n => c \in {m \in Nodes : Columns[m] \in V})
                         => n \in {m \in Nodes : Columns[m] \in V}
  BY <1>7, ColumnsOfType
<1>9. Nodes \subseteq {m \in Nodes : Columns[m] \in V}
  BY <1>8, TreeInduction
<1>10. QED
  BY <1>7, <1>9

LEMMA RepeatsUnfold ==
    ASSUME plan \in Plans, Linkable
    PROVE  \A n \in Nodes : Repeats[n] = RepeatsOf(Repeats, n) /\ Repeats[n] \in BOOLEAN
<1> DEFINE V == BOOLEAN
           F == [n \in Nodes |-> [f \in [Nodes -> V] |-> RepeatsOf(f, n)]]
           N == Len(plan)
<1>1. N \in Nat /\ Nodes = 1 .. N /\ V # {}
  BY Shape
<1>2. ASSUME NEW n \in Nodes, NEW f, \A c \in Nodes : c > n => f[c] \in V
      PROVE  RepeatsOf(f, n) \in V
  BY <1>2 DEF RepeatsOf
<1>3. F \in [1 .. N -> [[1 .. N -> V] -> V]]
  BY <1>1, <1>2
<1>4. LooksAhead(F, N, V)
  <2>1. ASSUME NEW n \in Nodes, NEW f \in [Nodes -> V], NEW g \in [Nodes -> V],
               \A m \in Nodes : m > n => f[m] = g[m]
        PROVE  RepeatsOf(f, n) = RepeatsOf(g, n)
    <3>1. /\ plan[n].op # "scan" => f[plan[n].left] = g[plan[n].left]
          /\ plan[n].op \in Products => f[plan[n].right] = g[plan[n].right]
      BY <2>1, Shape
    <3>2. QED
      BY <3>1 DEF RepeatsOf, Products, Linkable, Linked, Supported
  <2>2. QED
    BY <1>1, <2>1 DEF LooksAhead
<1>5. PICK f \in [1 .. N -> V] : Unfolds(f, F, N, 1)
  <2> HIDE DEF F, V, N
  <2>1. QED
    BY <1>1, <1>3, <1>4, Recursion
<1>6. f = [n \in Nodes |-> RepeatsOf(f, n)]
  BY <1>1, <1>5 DEF Unfolds
<1>7. Repeats = [n \in Nodes |-> RepeatsOf(Repeats, n)]
  BY <1>6 DEF Repeats
<1>8. \A n \in Nodes : Repeats[n] = RepeatsOf(Repeats, n)
  BY <1>7
<1>9. \A n \in Nodes : (\A c \in Nodes : c > n => c \in {m \in Nodes : Repeats[m] \in V})
                         => n \in {m \in Nodes : Repeats[m] \in V}
  BY <1>2, <1>8
<1>10. Nodes \subseteq {m \in Nodes : Repeats[m] \in V}
  BY <1>9, TreeInduction
<1>11. QED
  BY <1>8, <1>10

LEMMA ExactUnfold ==
    ASSUME plan \in Plans, Linkable
    PROVE  \A n \in Nodes : Exact[n] = ExactOf(Exact, n) /\ Exact[n] \in {"one", "many", "no"}
<1> DEFINE V == {"one", "many", "no"}
           F == [n \in Nodes |-> [f \in [Nodes -> V] |-> ExactOf(f, n)]]
           N == Len(plan)
<1>1. N \in Nat /\ Nodes = 1 .. N /\ V # {}
  BY Shape
<1>2. ASSUME NEW n \in Nodes, NEW f, \A c \in Nodes : c > n => f[c] \in V
      PROVE  ExactOf(f, n) \in V
  <2>1. /\ plan[n].op # "scan" => f[plan[n].left] \in V
        /\ plan[n].op \in Products => f[plan[n].right] \in V
    BY <1>2, Shape
  <2>2. plan[n].op \in Linked
    BY DEF Linkable
  <2>3. QED
    BY <2>1, <2>2 DEF ExactOf, Linked, Supported, Products
<1>3. F \in [1 .. N -> [[1 .. N -> V] -> V]]
  BY <1>1, <1>2
<1>4. LooksAhead(F, N, V)
  <2>1. ASSUME NEW n \in Nodes, NEW f \in [Nodes -> V], NEW g \in [Nodes -> V],
               \A m \in Nodes : m > n => f[m] = g[m]
        PROVE  ExactOf(f, n) = ExactOf(g, n)
    <3>1. /\ plan[n].op # "scan" => f[plan[n].left] = g[plan[n].left]
          /\ plan[n].op \in Products => f[plan[n].right] = g[plan[n].right]
      BY <2>1, Shape
    <3>2. QED
      BY <3>1 DEF ExactOf, Products, Linkable, Linked, Supported
  <2>2. QED
    BY <1>1, <2>1 DEF LooksAhead
<1>5. PICK f \in [1 .. N -> V] : Unfolds(f, F, N, 1)
  <2> HIDE DEF F, V, N
  <2>1. QED
    BY <1>1, <1>3, <1>4, Recursion
<1>6. f = [n \in Nodes |-> ExactOf(f, n)]
  BY <1>1, <1>5 DEF Unfolds
<1>7. Exact = [n \in Nodes |-> ExactOf(Exact, n)]
  BY <1>6 DEF Exact
<1>8. \A n \in Nodes : Exact[n] = ExactOf(Exact, n)
  BY <1>7
<1>9. \A n \in Nodes : (\A c \in Nodes : c > n => c \in {m \in Nodes : Exact[m] \in V})
                         => n \in {m \in Nodes : Exact[m] \in V}
  BY <1>2, <1>8
<1>10. Nodes \subseteq {m \in Nodes : Exact[m] \in V}
  BY <1>9, TreeInduction
<1>11. QED
  BY <1>8, <1>10

LEMMA SatisfyingType ==
    ASSUME NEW n, NEW all \in Seq(Row)
    PROVE  Satisfying(n, all) \in Seq(Row)
<1> DEFINE keep == [i \in DOMAIN all |-> Keeps(plan[n].cond, Columns[n], all[i])]
<1>1. Satisfying(n, all) = Selected(all, keep)
  BY DEF Satisfying
<1> HIDE DEF keep
<1>2. SelectedSound(Row, all, keep)
  BY SelectedFacts
<1>3. QED
  BY <1>1, <1>2 DEF SelectedSound

\* The rows between OFFSET and LIMIT.
LEMMA WithinLimitFacts ==
    ASSUME NEW n, plan[n].offset \in Nat, plan[n].limit \in Int, NEW S, NEW all \in Seq(S)
    PROVE  /\ WithinLimit(n, all) \in Seq(S)
           /\ Len(WithinLimit(n, all)) =
                LET rest == Len(all) - plan[n].offset
                IN  IF rest <= 0 THEN 0
                    ELSE IF plan[n].limit >= 0 /\ plan[n].limit < rest THEN plan[n].limit ELSE rest
           /\ \A i \in 1 .. Len(WithinLimit(n, all)) : WithinLimit(n, all)[i] = all[plan[n].offset + i]
<1> DEFINE skip == plan[n].offset
           last == plan[n].offset + plan[n].limit
           m == IF plan[n].limit >= 0 /\ last < Len(all) THEN last ELSE Len(all)
<1>1. WithinLimit(n, all) = SubSeq(all, skip + 1, m)
  BY DEF WithinLimit
<1>2. m \in Nat /\ m <= Len(all) /\ skip \in Nat
  OBVIOUS
<1>3. /\ SubSeq(all, skip + 1, m) \in Seq(S)
      /\ Len(SubSeq(all, skip + 1, m)) = IF skip <= m THEN m - skip ELSE 0
      /\ \A i \in 1 .. m - skip : SubSeq(all, skip + 1, m)[i] = all[skip + i]
  <2> HIDE DEF m, skip
  <2>1. QED
    BY <1>2, CutSub
<1>4. Len(SubSeq(all, skip + 1, m)) =
        IF Len(all) - skip <= 0 THEN 0
        ELSE IF plan[n].limit >= 0 /\ plan[n].limit < Len(all) - skip THEN plan[n].limit
             ELSE Len(all) - skip
  <2>1. Len(SubSeq(all, skip + 1, m)) = IF skip <= m THEN m - skip ELSE 0
    BY <1>3
  <2> DEFINE k == Len(SubSeq(all, skip + 1, m))
  <2> HIDE DEF k
  <2>2. k = IF skip <= m THEN m - skip ELSE 0
    BY <2>1 DEF k
  <2>3. k = IF Len(all) - skip <= 0 THEN 0
            ELSE IF plan[n].limit >= 0 /\ plan[n].limit < Len(all) - skip THEN plan[n].limit
                 ELSE Len(all) - skip
    BY <1>2, <2>2
  <2>4. QED
    BY <2>3 DEF k
<1>5. ASSUME NEW i \in 1 .. Len(SubSeq(all, skip + 1, m))
      PROVE  SubSeq(all, skip + 1, m)[i] = all[skip + i]
  <2>1. PICK k \in Nat : k = Len(SubSeq(all, skip + 1, m))
    BY <1>2, <1>3
  <2>2. i \in 1 .. m - skip
    BY <1>2, <1>3, <2>1
  <2>3. QED
    BY <1>3, <2>2
<1> HIDE DEF m, skip
<1>6. QED
  BY <1>1, <1>3, <1>4, <1>5 DEF skip

LEMMA PairsFacts ==
    ASSUME NEW left \in Seq(Row), NEW right \in Seq(Row)
    PROVE  /\ Pairs(left, right) \in Seq(Row)
           /\ Len(Pairs(left, right)) = Len(left) * Len(right)
<1>1. Len(left) \in Nat /\ Len(right) \in Nat /\ Len(left) * Len(right) \in Nat
  OBVIOUS
<1>2. ASSUME NEW k \in 1 .. Len(left) * Len(right)
      PROVE  left[((k - 1) \div Len(right)) + 1] \o right[((k - 1) % Len(right)) + 1] \in Row
  <2>1. /\ ((k - 1) \div Len(right)) + 1 \in 1 .. Len(left)
        /\ ((k - 1) % Len(right)) + 1 \in 1 .. Len(right)
    BY <1>1, PairIndexes
  <2>2. left[((k - 1) \div Len(right)) + 1] \in Row /\ right[((k - 1) % Len(right)) + 1] \in Row
    BY <2>1
  <2>3. QED
    BY <2>2, RowFacts
<1>3. PICK m \in Nat : m = Len(left) * Len(right)
  BY <1>1
<1>4. QED
  BY <1>2, <1>3 DEF Pairs

\* What a node means is a sequence of rows if what its children mean is.
LEMMA MeaningOfType ==
    ASSUME plan \in Plans, Linkable, tables \in [Tables -> Contents], NEW n \in Nodes, NEW f,
           \A c \in Nodes : c > n => f[c] \in Seq(Row)
    PROVE  MeaningOf(f, n) \in Seq(Row)
<1> DEFINE node == plan[n]
           below == f[node.left]
           other == f[node.right]
<1>1. /\ node \in PlanNode
      /\ node.op # "scan" => below \in Seq(Row)
      /\ node.op \in Products => other \in Seq(Row)
  BY Shape
<1>2. CASE node.op = "scan"
  <2>1. tables[node.table] \in Seq(Row)
    BY <1>2, CatalogAssumption DEF Linkable, TablesKnown, Row
  <2>2. QED
    BY <1>2, <2>1 DEF MeaningOf
<1>3. CASE node.op \in {"filter", "naive"}
  BY <1>1, <1>3, SatisfyingType DEF MeaningOf
<1>4. CASE node.op = "project" /\ node.cols = <<>>
  BY <1>1, <1>4 DEF MeaningOf
<1>5. CASE node.op = "project" /\ node.cols # <<>>
  <2>1. node.cols \in Seq(STRING) /\ below \in Seq(Row)
    BY <1>1, <1>5 DEF PlanNode
  <2>2. Projection(node.cols, Columns[node.left], below) \in Seq(Row)
    BY <2>1, ProjectionType
  <2>3. QED
    BY <1>5, <2>2 DEF MeaningOf
<1>6. CASE node.op = "limit"
  <2>1. node.offset \in Nat /\ node.limit \in Int /\ below \in Seq(Row)
    BY <1>1, <1>6 DEF PlanNode
  <2>2. WithinLimit(n, below) \in Seq(Row)
    BY <2>1, WithinLimitFacts
  <2>3. QED
    BY <1>6, <2>2 DEF MeaningOf
<1>7. CASE node.op \in Products
  <2>1. Pairs(below, other) \in Seq(Row)
    BY <1>1, <1>7, PairsFacts DEF Products
  <2>2. Satisfying(n, Pairs(below, other)) \in Seq(Row)
    BY <2>1, SatisfyingType
  <2>3. QED
    BY <1>7, <2>2 DEF MeaningOf, Products
<1>8. QED
  BY <1>2, <1>3, <1>4, <1>5, <1>6, <1>7 DEF Linkable, Linked, Supported, Products

LEMMA MeaningUnfold ==
    ASSUME plan \in Plans, Linkable, tables \in [Tables -> Contents]
    PROVE  \A n \in Nodes : Meaning[n] = MeaningOf(Meaning, n) /\ Meaning[n] \in Seq(Row)
<1> DEFINE V == Seq(Row)
           F == [n \in Nodes |-> [f \in [Nodes -> V] |-> MeaningOf(f, n)]]
           N == Len(plan)
<1>1. N \in Nat /\ Nodes = 1 .. N /\ V # {}
  BY Shape, EmptySeq
<1>2. ASSUME NEW n \in Nodes, NEW f, \A c \in Nodes : c > n => f[c] \in V
      PROVE  MeaningOf(f, n) \in V
  BY <1>2, MeaningOfType
<1>3. F \in [1 .. N -> [[1 .. N -> V] -> V]]
  BY <1>1, <1>2
<1>4. LooksAhead(F, N, V)
  <2>1. ASSUME NEW n \in Nodes, NEW f \in [Nodes -> V], NEW g \in [Nodes -> V],
               \A m \in Nodes : m > n => f[m] = g[m]
        PROVE  MeaningOf(f, n) = MeaningOf(g, n)
    <3>1. /\ plan[n].op # "scan" => f[plan[n].left] = g[plan[n].left]
          /\ plan[n].op \in Products => f[plan[n].right] = g[plan[n].right]
      BY <2>1, Shape
    <3>2. CASE plan[n].op = "scan"
      BY <3>2 DEF MeaningOf
    <3>3. CASE plan[n].op \in {"filter", "naive"}
      BY <3>1, <3>3 DEF MeaningOf
    <3>4. CASE plan[n].op = "project"
      BY <3>1, <3>4 DEF MeaningOf
    <3>5. CASE plan[n].op = "limit"
      BY <3>1, <3>5 DEF MeaningOf
    <3>6. CASE plan[n].op \in Products
      BY <3>1, <3>6 DEF MeaningOf, Products
    <3>7. QED
      BY <3>2, <3>3, <3>4, <3>5, <3>6 DEF Linkable, Linked, Supported, Products
  <2>2. QED
    BY <1>1, <2>1 DEF LooksAhead
<1>5. PICK f \in [1 .. N -> V] : Unfolds(f, F, N, 1)
  <2> HIDE DEF F, V, N
  <2>1. QED
    BY <1>1, <1>3, <1>4, Recursion
<1>6. f = [n \in Nodes |-> MeaningOf(f, n)]
  BY <1>1, <1>5 DEF Unfolds
<1>7. Meaning = [n \in Nodes |-> MeaningOf(Meaning, n)]
  BY <1>6 DEF Meaning
<1>8. \A n \in Nodes : Meaning[n] = MeaningOf(Meaning, n)
  BY <1>7
<1>9. \A n \in Nodes : (\A c \in Nodes : c > n => c \in {m \in Nodes : Meaning[m] \in V})
                         => n \in {m \in Nodes : Meaning[m] \in V}
  BY <1>2, <1>8
<1>10. Nodes \subseteq {m \in Nodes : Meaning[m] \in V}
  BY <1>9, TreeInduction
<1>11. QED
  BY <1>8, <1>10

-----------------------------------------------------------------------------
(* The calls in progress *)

\* A step that leaves the plan and the tables alone leaves what they mean alone.
LEMMA SameMeaning ==
    ASSUME plan' = plan, tables' = tables
    PROVE  /\ Nodes' = Nodes /\ (Linkable' <=> Linkable)
           /\ Columns' = Columns /\ Meaning' = Meaning
<1>1. Nodes' = Nodes /\ (Linkable' <=> Linkable)
  BY DEF Nodes, Linkable, TablesKnown
<1>2. BaseTable' = BaseTable
  BY <1>1 DEF BaseTable
<1>3. Columns' = Columns
  BY <1>1 DEF Columns, ColumnsOf
<1>4. Meaning' = Meaning
  BY <1>1, <1>3 DEF Meaning, MeaningOf, Satisfying, WithinLimit
<1>5. QED
  BY <1>1, <1>3, <1>4

\* The operator c has just handed its batch to the one that reads it, or to the
\* loop of executeSelect.
InHand(c) == returning /\ IF stack = <<>> THEN c = 1 ELSE c = Reading

\* The loop of executeSelect has the root's batch, and stops when it is empty.
LoopEnds ==
    /\ status = "new" => ~returning
    /\ status = "running" /\ stack = <<>> => returning
    /\ status = "done" => 1 \in ended

LEMMA ReadingIs ==
    ASSUME plan \in Plans, NEW n \in Nodes, NEW o, NEW c, Reads(plan, o, n, c)
    PROVE  c = IF plan[n].op \in Products /\ o[n].side = "right" THEN plan[n].right ELSE plan[n].left
<1>1. plan[n].op \notin Products => plan[n].right = 0
  BY PlansAssumption DEF Nodes
<1>2. QED
  BY <1>1 DEF Reads, Children

\* The batch that a call returns is in the hands of its caller.
LEMMA Handed ==
    ASSUME PullSound, status = "running", stack # <<>>, NEW result, Return(result),
           \A n \in Nodes : ops'[n].side = ops[n].side
    PROVE  \A n : InHand(n)' <=> n = Top
<1>1. plan' = plan /\ stack' = Front(stack) /\ returning'
  BY DEF Return
<1>2. /\ Len(stack) \in Nat \ {0} /\ Top = stack[Len(stack)]
      /\ stack' \in Seq(Nodes) /\ Len(stack') = Len(stack) - 1
      /\ \A i \in 1 .. (Len(stack) - 1) : stack'[i] = stack[i]
      /\ \A i \in 1 .. Len(stack) : stack[i] \in Nodes
  <2>1. stack \in Seq(Nodes)
    BY DEF PullSound, PathSound
  <2>2. \A i \in 1 .. Len(stack) : stack[i] \in Nodes
    BY <2>1
  <2>3. QED
    BY <1>1, <2>1, <2>2, StackFacts DEF Top
<1>3. CASE Len(stack) = 1
  <2>1. stack' = <<>> /\ Top = 1
    BY <1>2, <1>3 DEF PullSound, PathSound
  <2>2. QED
    BY <1>1, <2>1 DEF InHand
<1>4. CASE Len(stack) # 1
  <2>1. /\ Len(stack) - 1 \in 1 .. (Len(stack) - 1) /\ stack' # <<>>
        /\ Top' = stack[Len(stack) - 1] /\ Top' \in Nodes
    BY <1>2, <1>4, StackFacts DEF Top
  <2>2. Reads(plan, ops, Top', Top)
    BY <1>2, <2>1 DEF PullSound, PathSound
  <2>3. Reads(plan, ops', Top', Top)
    BY <2>1, <2>2 DEF Reads
  <2>4. Top = IF plan[Top'].op \in Products /\ ops'[Top'].side = "right"
              THEN plan[Top'].right ELSE plan[Top'].left
    BY <2>1, <2>3, ReadingIs DEF PullSound
  <2>5. Reading' = Top
    BY <1>1, <2>4 DEF Reading, Node
  <2>6. QED
    BY <1>1, <2>1, <2>5 DEF InHand
<1>5. QED
  BY <1>3, <1>4

\* What Take does to the rows taken from an operator.
LEMMA TakeFacts ==
    ASSUME TypeSound, stack # <<>>, Take, returning => Node.op # "scan"
    PROVE  \A n \in Nodes :
             /\ taken'[n] # <<>> <=> taken[n] # <<>> \/ (InHand(n) /\ batch # <<>>)
             /\ InHand(n) => n \in Children(plan, Top)
             /\ ~InHand(n) => taken'[n] = taken[n]
<1>1. taken \in [Nodes -> Seq(Row)] /\ batch \in Seq(Row)
  BY DEF TypeSound, DataSound
<1>2. CASE ~returning
  <2>1. taken' = taken
    BY <1>2 DEF Take
  <2>2. QED
    BY <1>2, <2>1 DEF InHand
<1>3. CASE returning
  <2>1. Reading \in Children(plan, Top) /\ Reading \in Nodes
    <3>1. Top \in Nodes /\ plan \in Plans
      BY TopFacts DEF TypeSound, PullSound
    <3>2. plan[Top].left \in Children(plan, Top)
      BY <1>3, <3>1, PlanFacts DEF Node
    <3>3. plan[Top].op \in Products => plan[Top].right \in Children(plan, Top)
      BY <3>1, PlanFacts
    <3>4. Reading \in Children(plan, Top)
      BY <3>2, <3>3 DEF Reading, Node
    <3>5. QED
      BY <3>1, <3>4, PlanFacts
  <2>2. taken' = [taken EXCEPT ![Reading] = Capped(@ \o batch)]
    BY <1>3 DEF Take
  <2>3. \A n \in Nodes : InHand(n) <=> n = Reading
    BY <1>3 DEF InHand
  <2>4. Capped(taken[Reading] \o batch) # <<>> <=> taken[Reading] # <<>> \/ batch # <<>>
    <3>1. taken[Reading] \in Seq(Row)
      BY <1>1, <2>1
    <3>2. taken[Reading] \o batch \in Seq(Row)
      BY <1>1, <3>1, ConcatProperties
    <3>3. taken[Reading] = <<>> /\ batch = <<>> <=> taken[Reading] \o batch = <<>>
      BY <1>1, <3>1
    <3>4. Capped(taken[Reading] \o batch) = <<>> => taken[Reading] \o batch = <<>>
      BY <3>2, CappedFacts
    <3>5. taken[Reading] \o batch = <<>> => Capped(taken[Reading] \o batch) = <<>>
      <4>1. PICK q \in Seq(Row) : q = taken[Reading] \o batch
        BY <3>2
      <4>2. q = <<>> => Len(q) <= MaxRows
        BY OperatorsAssumption
      <4>3. q = <<>> => Capped(q) = q
        BY <4>2, CappedFacts
      <4>4. QED
        BY <4>1, <4>3
    <3>6. QED
      BY <3>3, <3>4, <3>5
  <2>5. QED
    BY <1>1, <2>1, <2>2, <2>3, <2>4
<1>4. QED
  BY <1>2, <1>3

-----------------------------------------------------------------------------
(* Predicates *)

\* The values of evaluateExpression, and those that SQL means, NULL included.
Meanings == (OfInt .. 6) \X Int

LEMMA TruthFacts ==
    /\ \A b \in BOOLEAN : Truth(b) \in Value /\ Truth(b) \in Meanings
    /\ \A v \in Value : v \in Meanings /\ v # Unknown /\ v = <<v[1], v[2]>> /\ v[2] \in Int
    /\ \A v \in Value : v[1] = OfBool => v = Truth(TRUE) \/ v = Truth(FALSE)
    /\ Truth(TRUE) # Truth(FALSE) /\ IsTrue(Truth(TRUE)) /\ ~IsTrue(Truth(FALSE))
    /\ Unknown \in Meanings /\ \A v : v[1] # OfBool => ~IsTrue(v)
BY DEF Truth, Value, Meanings, Unknown, IsTrue, OfInt, OfBool, OfDouble

LEMMA ExprFacts ==
    ASSUME NEW e \in Expressions
    PROVE  /\ Len(e) \in Nat /\ DOMAIN e = 1 .. Len(e)
           /\ \A i \in DOMAIN e :
                /\ e[i] \in ExprNode
                /\ e[i].op \in BinaryOps \cup UnaryOps => e[i].left \in DOMAIN e /\ e[i].left > i
                /\ e[i].op \in BinaryOps => e[i].right \in DOMAIN e /\ e[i].right > i
                /\ e[i].op = "bool" => e[i].value \in {0, 1}
<1>1. e \in Seq(ExprNode)
  BY DEF Expressions
<1>2. QED
  BY <1>1 DEF Expressions

LEMMA ValueOfType ==
    ASSUME NEW e \in Expressions, NEW i \in DOMAIN e, NEW names, NEW row \in Row, NEW V,
           \A j \in DOMAIN e : j > i => V[j] \in Value
    PROVE  ValueOf(V, e, i, names, row) \in Value
<1> DEFINE node == e[i]
<1>1. /\ node \in ExprNode
      /\ node.op \in BinaryOps \cup UnaryOps => V[node.left] \in Value
      /\ node.op \in BinaryOps => V[node.right] \in Value
      /\ node.op = "bool" => node.value \in {0, 1}
  BY ExprFacts
<1>2. /\ <<OfInt, ToInt(node.value)>> \in Value
      /\ <<OfFloat, ToFloat(node.value)>> \in Value
      /\ <<OfString, node.value>> \in Value
      /\ <<OfInt, 0>> \in Value
      /\ node.op = "bool" => <<OfBool, node.value>> \in Value
  <2>1. node.value \in Int
    BY <1>1 DEF ExprNode
  <2>2. ToInt(node.value) \in Int /\ ToFloat(node.value) \in Int
    BY <2>1, PredicatesAssumption DEF ToInt, ToFloat
  <2>3. QED
    BY <1>1, <2>1, <2>2 DEF Value, OfInt, OfFloat, OfString, OfBool, OfDouble
<1>3. ColumnValue(names, node.name, row) \in Value
  BY <1>2 DEF ColumnValue, Row
<1>4. \A b \in BOOLEAN : Truth(b) \in Value
  BY TruthFacts
<1>5. CASE node.op = "int"
  BY <1>2, <1>5 DEF ValueOf, Comparisons
<1>6. CASE node.op = "float"
  BY <1>2, <1>6 DEF ValueOf, Comparisons
<1>7. CASE node.op = "string"
  BY <1>2, <1>7 DEF ValueOf, Comparisons
<1>8. CASE node.op = "bool"
  BY <1>2, <1>8 DEF ValueOf, Comparisons
<1>9. CASE node.op = "null"
  BY <1>2, <1>9 DEF ValueOf, Comparisons
<1>10. CASE node.op = "column"
  BY <1>3, <1>10 DEF ValueOf, Comparisons
<1>11. CASE node.op \in Comparisons
  <2>1. ValueOf(V, e, i, names, row) = Truth(Compares(node.op, V[node.left], V[node.right]))
    BY <1>11 DEF ValueOf, Comparisons
  <2>2. Truth(Compares(node.op, V[node.left], V[node.right])) \in {Truth(TRUE), Truth(FALSE)}
    BY DEF Truth
  <2>3. QED
    BY <1>4, <2>1, <2>2
<1>12. CASE node.op = "and"
  BY <1>4, <1>12 DEF ValueOf, Comparisons
<1>13. CASE node.op = "or"
  BY <1>4, <1>13 DEF ValueOf, Comparisons
<1>14. CASE node.op = "not"
  BY <1>4, <1>14 DEF ValueOf, Comparisons
<1>15. CASE node.op \in {"minus", "plus", "is null", "is not null"}
  BY <1>1, <1>15 DEF ValueOf, Comparisons, UnaryOps
<1>16. CASE node.op \notin {"int", "float", "string", "bool", "null", "column", "and", "or", "not",
                            "minus", "plus", "is null", "is not null"} \cup Comparisons
  BY <1>4, <1>16 DEF ValueOf
<1>17. QED
  BY <1>5, <1>6, <1>7, <1>8, <1>9, <1>10, <1>11, <1>12, <1>13, <1>14, <1>15, <1>16

\* V has at every node what evaluateExpression makes of V there.
LEMMA EvaluatedUnfold ==
    ASSUME NEW e \in Expressions, NEW names, NEW row \in Row
    PROVE  \E V : /\ \A i \in DOMAIN e : V[i] = ValueOf(V, e, i, names, row)
                  /\ Evaluated(e, names, row) = V[1]
<1> DEFINE F == [i \in DOMAIN e |-> [f \in [DOMAIN e -> Value] |-> ValueOf(f, e, i, names, row)]]
           N == Len(e)
<1>1. N \in Nat /\ DOMAIN e = 1 .. N /\ Value # {}
  BY ExprFacts, TruthFacts
<1>2. F \in [1 .. N -> [[1 .. N -> Value] -> Value]]
  <2>1. \A i \in DOMAIN e : \A f \in [DOMAIN e -> Value] : ValueOf(f, e, i, names, row) \in Value
    BY ValueOfType
  <2>2. QED
    BY <1>1, <2>1
<1>3. LooksAhead(F, N, Value)
  <2>1. ASSUME NEW i \in DOMAIN e, NEW f \in [DOMAIN e -> Value], NEW g \in [DOMAIN e -> Value],
               \A m \in DOMAIN e : m > i => f[m] = g[m]
        PROVE  ValueOf(f, e, i, names, row) = ValueOf(g, e, i, names, row)
    <3>1. /\ e[i].op \in BinaryOps \cup UnaryOps => f[e[i].left] = g[e[i].left]
          /\ e[i].op \in BinaryOps => f[e[i].right] = g[e[i].right]
      BY <2>1, ExprFacts
    <3>2. CASE e[i].op \in BinaryOps
      BY <3>1, <3>2 DEF ValueOf, BinaryOps
    <3>3. CASE e[i].op \in UnaryOps
      BY <3>1, <3>3 DEF ValueOf, UnaryOps, Comparisons
    <3>4. CASE e[i].op \notin BinaryOps \cup UnaryOps
      BY <3>4 DEF ValueOf, BinaryOps, UnaryOps
    <3>5. QED
      BY <3>2, <3>3, <3>4
  <2>2. QED
    BY <1>1, <2>1 DEF LooksAhead
<1>4. PICK f \in [1 .. N -> Value] : Unfolds(f, F, N, 1)
  <2> HIDE DEF F, N
  <2>1. QED
    BY <1>1, <1>2, <1>3, Recursion
<1>5. f = [i \in DOMAIN e |-> ValueOf(f, e, i, names, row)]
  BY <1>1, <1>4 DEF Unfolds
<1> DEFINE V == CHOOSE V : V = [i \in DOMAIN e |-> ValueOf(V, e, i, names, row)]
<1>6. V = [i \in DOMAIN e |-> ValueOf(V, e, i, names, row)]
  <2>1. \E g : g = [i \in DOMAIN e |-> ValueOf(g, e, i, names, row)]
    BY <1>5
  <2>2. QED
    BY <2>1, Zenon
<1>7. Evaluated(e, names, row) = V[1]
  BY DEF Evaluated
<1> HIDE DEF V
<1>8. \A i \in DOMAIN e : V[i] = ValueOf(V, e, i, names, row)
  BY <1>6
<1>9. QED
  BY <1>7, <1>8

LEMMA MeantOfType ==
    ASSUME NEW e \in Expressions, NEW i \in DOMAIN e, NEW names, NEW row \in Row, NEW M,
           \A j \in DOMAIN e : j > i => M[j] \in Meanings
    PROVE  MeantOf(M, e, i, names, row) \in Meanings
<1> DEFINE node == e[i]
           left == M[node.left]
           right == M[node.right]
<1>1. /\ node \in ExprNode
      /\ node.op \in BinaryOps \cup UnaryOps => left \in Meanings
      /\ node.op \in BinaryOps => right \in Meanings
  BY ExprFacts
<1>2. /\ <<OfInt, node.value>> \in Meanings /\ <<OfFloat, node.value>> \in Meanings
      /\ <<OfString, node.value>> \in Meanings /\ <<OfBool, node.value>> \in Meanings
  BY <1>1 DEF ExprNode, Meanings, OfInt, OfFloat, OfString, OfBool
<1>3. Unknown \in Meanings /\ \A b \in BOOLEAN : Truth(b) \in Meanings
  BY TruthFacts
<1>4. CASE node.op \in {"int", "float", "string", "bool"}
  <2>1. MeantOf(M, e, i, names, row) \in {<<OfInt, node.value>>, <<OfFloat, node.value>>,
                                          <<OfString, node.value>>, <<OfBool, node.value>>}
    BY <1>4 DEF MeantOf, Comparisons
  <2>2. QED
    BY <1>2, <2>1
<1>5. CASE node.op = "column"
  <2>1. MeantOf(M, e, i, names, row) = IF Position(names, node.name) \in 1 .. Len(row)
                                       THEN row[Position(names, node.name)] ELSE Unknown
    BY <1>5 DEF MeantOf, Comparisons
  <2>2. \A k \in 1 .. Len(row) : row[k] \in Value
    BY DEF Row
  <2>3. \A k \in 1 .. Len(row) : row[k] \in Meanings
    BY <2>2, TruthFacts
  <2>4. QED
    BY <1>3, <2>1, <2>3
<1>6. CASE node.op \in Comparisons
  <2>1. MeantOf(M, e, i, names, row) \in {Unknown, Truth(SqlCompares(node.op, left[2], right[2]))}
    BY <1>6 DEF MeantOf, Comparisons
  <2>2. Truth(SqlCompares(node.op, left[2], right[2])) \in {Truth(TRUE), Truth(FALSE)}
    BY DEF Truth
  <2>3. QED
    BY <1>3, <2>1, <2>2
<1>7. CASE node.op \in {"and", "or", "not"}
  <2>1. MeantOf(M, e, i, names, row) \in {Unknown, Truth(TRUE), Truth(FALSE), Truth(left = Truth(FALSE))}
    BY <1>7 DEF MeantOf, Comparisons
  <2>2. QED
    BY <1>3, <2>1
<1>8. CASE node.op = "plus"
  BY <1>1, <1>8 DEF MeantOf, Comparisons, UnaryOps
<1>9. CASE node.op = "minus"
  <2>1. MeantOf(M, e, i, names, row) = <<left[1], -left[2]>> /\ left \in Meanings
    BY <1>1, <1>9 DEF MeantOf, Comparisons, UnaryOps
  <2>2. QED
    BY <2>1 DEF Meanings, OfInt
<1>10. CASE node.op \in {"is null", "is not null"}
  <2>1. MeantOf(M, e, i, names, row) \in {Truth(left = Unknown), Truth(left # Unknown)}
    BY <1>10 DEF MeantOf, Comparisons
  <2>2. QED
    BY <1>3, <2>1
<1>11. CASE node.op \notin {"int", "float", "string", "bool", "column", "and", "or", "not",
                            "minus", "plus", "is null", "is not null"} \cup Comparisons
  <2>1. MeantOf(M, e, i, names, row) = Unknown
    BY <1>11 DEF MeantOf
  <2>2. QED
    BY <1>3, <2>1
<1>12. QED
  BY <1>4, <1>5, <1>6, <1>7, <1>8, <1>9, <1>10, <1>11

LEMMA MeantUnfold ==
    ASSUME NEW e \in Expressions, NEW names, NEW row \in Row
    PROVE  \A i \in DOMAIN e :
             Meant(e, names, row)[i] = MeantOf(Meant(e, names, row), e, i, names, row)
<1> DEFINE F == [i \in DOMAIN e |-> [f \in [DOMAIN e -> Meanings] |-> MeantOf(f, e, i, names, row)]]
           N == Len(e)
<1>1. N \in Nat /\ DOMAIN e = 1 .. N /\ Meanings # {}
  BY ExprFacts, TruthFacts
<1>2. F \in [1 .. N -> [[1 .. N -> Meanings] -> Meanings]]
  <2>1. \A i \in DOMAIN e : \A f \in [DOMAIN e -> Meanings] : MeantOf(f, e, i, names, row) \in Meanings
    BY MeantOfType
  <2>2. QED
    BY <1>1, <2>1
<1>3. LooksAhead(F, N, Meanings)
  <2>1. ASSUME NEW i \in DOMAIN e, NEW f \in [DOMAIN e -> Meanings], NEW g \in [DOMAIN e -> Meanings],
               \A m \in DOMAIN e : m > i => f[m] = g[m]
        PROVE  MeantOf(f, e, i, names, row) = MeantOf(g, e, i, names, row)
    <3>1. /\ e[i].op \in BinaryOps \cup UnaryOps => f[e[i].left] = g[e[i].left]
          /\ e[i].op \in BinaryOps => f[e[i].right] = g[e[i].right]
      BY <2>1, ExprFacts
    <3>2. CASE e[i].op \in BinaryOps
      BY <3>1, <3>2 DEF MeantOf, BinaryOps
    <3>3. CASE e[i].op \in UnaryOps
      BY <3>1, <3>3 DEF MeantOf, UnaryOps, Comparisons
    <3>4. CASE e[i].op \notin BinaryOps \cup UnaryOps
      BY <3>4 DEF MeantOf, BinaryOps, UnaryOps
    <3>5. QED
      BY <3>2, <3>3, <3>4
  <2>2. QED
    BY <1>1, <2>1 DEF LooksAhead
<1>4. PICK f \in [1 .. N -> Meanings] : Unfolds(f, F, N, 1)
  <2> HIDE DEF F, N
  <2>1. QED
    BY <1>1, <1>2, <1>3, Recursion
<1>5. f = [i \in DOMAIN e |-> MeantOf(f, e, i, names, row)]
  BY <1>1, <1>4 DEF Unfolds
<1> DEFINE M == CHOOSE M : M = [i \in DOMAIN e |-> MeantOf(M, e, i, names, row)]
<1>6. M = [i \in DOMAIN e |-> MeantOf(M, e, i, names, row)]
  <2>1. \E g : g = [i \in DOMAIN e |-> MeantOf(g, e, i, names, row)]
    BY <1>5
  <2>2. QED
    BY <2>1, Zenon
<1>7. Meant(e, names, row) = M
  BY DEF Meant
<1> HIDE DEF M
<1>8. QED
  BY <1>6, <1>7

\* The node i is a test, as Sound has it; it is one that evaluateExpression gets right.
TestAt(e, M, i) ==
    e[i].op \in Comparisons \cup {"and", "or", "not", "is null"} \/ M[i][1] = OfBool
SoundAt(e, M, i) ==
    LET node == e[i]
    IN  \/ node.op \in {"string", "bool"}
        \/ node.op = "int"   /\ ToInt(node.value) = node.value
        \/ node.op = "float" /\ ToFloat(node.value) = node.value
        \/ node.op = "column" /\ M[i] # Unknown
        \/ /\ node.op \in Comparisons
           /\ M[node.left][1] = M[node.right][1]
           /\ \A k \in {node.left, node.right} : e[k].op # "is null"
        \/ node.op \in {"and", "or"} /\ TestAt(e, M, node.left) /\ TestAt(e, M, node.right)
        \/ node.op = "not" /\ TestAt(e, M, node.left)
        \/ node.op \in {"plus", "is null"} /\ M[node.left][1] # OfBool

\* The value V of the node i is the one meant, but that IS NULL, which returns its
\* operand, is only as false as it should be.
Agrees(e, V, M, i) ==
    /\ M[i] \in Value
    /\ IF e[i].op = "is null" THEN M[i] = Truth(FALSE) /\ ~IsTrue(V[i]) ELSE V[i] = M[i]
    /\ TestAt(e, M, i) => M[i] \in {Truth(TRUE), Truth(FALSE)}

LEMMA ComparesAsSql ==
    ASSUME NEW op \in Comparisons, NEW a \in Value, NEW b \in Value, a[1] = b[1]
    PROVE  Truth(Compares(op, a, b)) = Truth(SqlCompares(op, a[2], b[2]))
<1>1. a = <<a[1], a[2]>> /\ b = <<b[1], b[2]>> /\ a[2] \in Int /\ b[2] \in Int /\ a[1] \in Int
  BY DEF Value, OfInt, OfDouble
<1>2. a = b <=> a[2] = b[2]
  BY <1>1
<1>3. CASE op = "="
  <2>1. Compares(op, a, b) = (a = b) /\ SqlCompares(op, a[2], b[2]) = (a[2] = b[2])
    BY <1>3 DEF Compares, SqlCompares
  <2>2. QED
    BY <1>2, <2>1 DEF Truth
<1>4. CASE op = "<>"
  <2>1. Compares(op, a, b) = (a # b) /\ SqlCompares(op, a[2], b[2]) = (a[2] # b[2])
    BY <1>4 DEF Compares, SqlCompares
  <2>2. QED
    BY <1>2, <2>1 DEF Truth
<1> DEFINE less(u, v) == u[1] < v[1] \/ (u[1] = v[1] /\ u[2] < v[2])
<1>5. (less(a, b) <=> a[2] < b[2]) /\ (less(b, a) <=> b[2] < a[2])
  BY <1>1
<1>6. CASE op = "<"
  <2>1. Compares(op, a, b) = less(a, b) /\ SqlCompares(op, a[2], b[2]) = (a[2] < b[2])
    BY <1>6 DEF Compares, SqlCompares
  <2> HIDE DEF less
  <2>2. QED
    BY <1>5, <2>1 DEF Truth
<1>7. CASE op = "<="
  <2>1. Compares(op, a, b) = (~less(b, a)) /\ SqlCompares(op, a[2], b[2]) = (a[2] <= b[2])
    BY <1>7 DEF Compares, SqlCompares
  <2> HIDE DEF less
  <2>2. QED
    BY <1>1, <1>5, <2>1 DEF Truth
<1>8. CASE op = ">"
  <2>1. Compares(op, a, b) = less(b, a) /\ SqlCompares(op, a[2], b[2]) = (a[2] > b[2])
    BY <1>8 DEF Compares, SqlCompares
  <2> HIDE DEF less
  <2>2. QED
    BY <1>1, <1>5, <2>1 DEF Truth
<1>9. CASE op = ">="
  <2>1. Compares(op, a, b) = (~less(a, b)) /\ SqlCompares(op, a[2], b[2]) = (a[2] >= b[2])
    BY <1>9 DEF Compares, SqlCompares
  <2> HIDE DEF less
  <2>2. QED
    BY <1>1, <1>5, <2>1 DEF Truth
<1>10. QED
  BY <1>3, <1>4, <1>6, <1>7, <1>8, <1>9 DEF Comparisons

\* What V and M have at a node from what they have at its operands.
LEMMA AgreesAt ==
    ASSUME NEW e \in Expressions, NEW names, NEW other, NEW row \in Row, NEW V, NEW M, NEW i \in DOMAIN e,
           V[i] = ValueOf(V, e, i, other, row), M[i] = MeantOf(M, e, i, names, row),
           SoundAt(e, M, i),
           e[i].op = "column" => Position(other, e[i].name) = Position(names, e[i].name),
           \A j \in DOMAIN e : j > i => Agrees(e, V, M, j)
    PROVE  Agrees(e, V, M, i)
<1> DEFINE node == e[i]
           left == M[node.left]
           right == M[node.right]
<1>1. /\ node \in ExprNode
      /\ node.op \in BinaryOps \cup UnaryOps => Agrees(e, V, M, node.left)
      /\ node.op \in BinaryOps => Agrees(e, V, M, node.right)
      /\ node.op = "bool" => node.value \in {0, 1}
  BY ExprFacts
<1>2. /\ <<OfInt, node.value>> \in Value /\ <<OfFloat, node.value>> \in Value
      /\ <<OfString, node.value>> \in Value
      /\ node.value \in {0, 1} => <<OfBool, node.value>> \in {Truth(TRUE), Truth(FALSE)}
  BY <1>1 DEF ExprNode, Value, Truth, OfInt, OfFloat, OfString, OfBool, OfDouble
<1>3. /\ <<OfInt, node.value>>[1] # OfBool /\ <<OfFloat, node.value>>[1] # OfBool
      /\ <<OfString, node.value>>[1] # OfBool
  BY DEF OfInt, OfFloat, OfString, OfBool
<1>4. CASE node.op = "int"
  <2>1. V[i] = <<OfInt, ToInt(node.value)>> /\ M[i] = <<OfInt, node.value>>
    BY <1>4 DEF ValueOf, MeantOf, Comparisons
  <2>2. ToInt(node.value) = node.value
    BY <1>4 DEF SoundAt, Comparisons
  <2>3. ~TestAt(e, M, i)
    BY <1>3, <1>4, <2>1 DEF TestAt, Comparisons
  <2>4. QED
    BY <1>2, <1>4, <2>1, <2>2, <2>3 DEF Agrees
<1>5. CASE node.op = "float"
  <2>1. V[i] = <<OfFloat, ToFloat(node.value)>> /\ M[i] = <<OfFloat, node.value>>
    BY <1>5 DEF ValueOf, MeantOf, Comparisons
  <2>2. ToFloat(node.value) = node.value
    BY <1>5 DEF SoundAt, Comparisons
  <2>3. ~TestAt(e, M, i)
    BY <1>3, <1>5, <2>1 DEF TestAt, Comparisons
  <2>4. QED
    BY <1>2, <1>5, <2>1, <2>2, <2>3 DEF Agrees
<1>6. CASE node.op = "string"
  <2>1. V[i] = <<OfString, node.value>> /\ M[i] = <<OfString, node.value>>
    BY <1>6 DEF ValueOf, MeantOf, Comparisons
  <2>2. ~TestAt(e, M, i)
    BY <1>3, <1>6, <2>1 DEF TestAt, Comparisons
  <2>3. QED
    BY <1>2, <1>6, <2>1, <2>2 DEF Agrees
<1>7. CASE node.op = "bool"
  <2>1. V[i] = <<OfBool, node.value>> /\ M[i] = <<OfBool, node.value>>
    BY <1>7 DEF ValueOf, MeantOf, Comparisons
  <2>2. QED
    <3>1. Truth(TRUE) \in Value /\ Truth(FALSE) \in Value
      BY TruthFacts
    <3>2. node.value \in {0, 1}
      BY <1>1, <1>7
    <3>3. V[i] = M[i] /\ M[i] \in {Truth(TRUE), Truth(FALSE)}
      BY <1>2, <2>1, <3>2
    <3>4. QED
      BY <1>7, <3>1, <3>3 DEF Agrees
<1>8. CASE node.op = "column"
  <2> DEFINE p == Position(names, node.name)
  <2>1. M[i] # Unknown
    BY <1>8 DEF SoundAt, Comparisons
  <2>2. M[i] = IF p \in 1 .. Len(row) THEN row[p] ELSE Unknown
    BY <1>8 DEF MeantOf, Comparisons
  <2>3. p \in 1 .. Len(row) /\ M[i] = row[p]
    BY <2>1, <2>2
  <2>4. V[i] = row[p]
    BY <1>8, <2>3 DEF ValueOf, ColumnValue, Comparisons
  <2>5. M[i] \in Value
    BY <2>3 DEF Row
  <2>6. QED
    BY <1>8, <2>3, <2>4, <2>5, TruthFacts DEF Agrees, TestAt, Comparisons
<1>9. CASE node.op \in Comparisons
  <2>1. left[1] = right[1] /\ e[node.left].op # "is null" /\ e[node.right].op # "is null"
    BY <1>9 DEF SoundAt, Comparisons
  <2>2. V[node.left] = left /\ V[node.right] = right /\ left \in Value /\ right \in Value
    BY <1>1, <1>9, <2>1 DEF Agrees, BinaryOps
  <2>3. V[i] = Truth(Compares(node.op, left, right))
    BY <1>9, <2>2 DEF ValueOf, Comparisons
  <2>4. M[i] = Truth(SqlCompares(node.op, left[2], right[2]))
    BY <1>9, <2>2, TruthFacts DEF MeantOf, Comparisons
  <2>5. V[i] = M[i]
    BY <1>9, <2>1, <2>2, <2>3, <2>4, ComparesAsSql
  <2>6. M[i] \in {Truth(TRUE), Truth(FALSE)}
    BY <2>4 DEF Truth
  <2>7. QED
    BY <1>9, <2>5, <2>6, TruthFacts DEF Agrees, Comparisons
<1>10. ASSUME NEW k, Agrees(e, V, M, k), TestAt(e, M, k)
       PROVE  M[k] \in {Truth(TRUE), Truth(FALSE)} /\ (IsTrue(V[k]) <=> M[k] = Truth(TRUE))
  BY <1>10, TruthFacts DEF Agrees, IsTrue, Truth
<1>11. ASSUME node.op \in {"and", "or"}
       PROVE  Agrees(e, V, M, i)
  <2>1. /\ left \in {Truth(TRUE), Truth(FALSE)} /\ (IsTrue(V[node.left]) <=> left = Truth(TRUE))
        /\ right \in {Truth(TRUE), Truth(FALSE)} /\ (IsTrue(V[node.right]) <=> right = Truth(TRUE))
    <3>1. TestAt(e, M, node.left) /\ TestAt(e, M, node.right)
      BY <1>11 DEF SoundAt, Comparisons
    <3>2. QED
      BY <1>1, <1>10, <1>11, <3>1 DEF BinaryOps
  <2>2. Unknown \notin {left, right}
    BY <2>1, TruthFacts
  <2>3. V[i] = M[i] /\ M[i] \in {Truth(TRUE), Truth(FALSE)}
    <3>1. CASE node.op = "and"
      <4>1. V[i] = Truth(left = Truth(TRUE) /\ right = Truth(TRUE))
        <5>1. V[i] = Truth(IsTrue(V[node.left]) /\ IsTrue(V[node.right]))
          BY <3>1 DEF ValueOf, Comparisons
        <5>2. QED
          BY <2>1, <5>1 DEF Truth
      <4>2. M[i] = IF Truth(FALSE) \in {left, right} THEN Truth(FALSE) ELSE Truth(TRUE)
        BY <2>2, <3>1 DEF MeantOf, Comparisons
      <4>3. QED
        BY <2>1, <4>1, <4>2, TruthFacts DEF Truth
    <3>2. CASE node.op = "or"
      <4>1. V[i] = Truth(left = Truth(TRUE) \/ right = Truth(TRUE))
        <5>1. V[i] = Truth(IsTrue(V[node.left]) \/ IsTrue(V[node.right]))
          BY <3>2 DEF ValueOf, Comparisons
        <5>2. QED
          BY <2>1, <5>1 DEF Truth
      <4>2. M[i] = IF Truth(TRUE) \in {left, right} THEN Truth(TRUE) ELSE Truth(FALSE)
        BY <2>2, <3>2 DEF MeantOf, Comparisons
      <4>3. QED
        BY <2>1, <4>1, <4>2, TruthFacts DEF Truth
    <3>3. QED
      BY <1>11, <3>1, <3>2
  <2>4. QED
    BY <1>11, <2>3, TruthFacts DEF Agrees
<1>12. CASE node.op = "not"
  <2>1. left \in {Truth(TRUE), Truth(FALSE)} /\ (IsTrue(V[node.left]) <=> left = Truth(TRUE))
    <3>1. TestAt(e, M, node.left)
      BY <1>12 DEF SoundAt, Comparisons
    <3>2. QED
      BY <1>1, <1>10, <1>12, <3>1 DEF UnaryOps
  <2>2. left # Unknown
    BY <2>1, TruthFacts
  <2>3. V[i] = Truth(left # Truth(TRUE)) /\ M[i] = Truth(left = Truth(FALSE))
    <3>1. V[i] = Truth(~IsTrue(V[node.left]))
      BY <1>12 DEF ValueOf, Comparisons
    <3>2. M[i] = Truth(left = Truth(FALSE))
      BY <1>12, <2>2 DEF MeantOf, Comparisons
    <3>3. QED
      BY <2>1, <3>1, <3>2 DEF Truth
  <2>4. V[i] = M[i] /\ M[i] \in {Truth(TRUE), Truth(FALSE)}
    BY <2>1, <2>3, TruthFacts DEF Truth
  <2>5. QED
    BY <1>12, <2>4, TruthFacts DEF Agrees
<1>13. ASSUME node.op \in {"plus", "is null"}
       PROVE  Agrees(e, V, M, i)
  <2>1. left[1] # OfBool
    BY <1>13 DEF SoundAt, Comparisons
  <2>2. left # Truth(FALSE)
    BY <2>1 DEF Truth
  <2>3. V[node.left] = left /\ left \in Value
    BY <1>1, <1>13, <2>2 DEF Agrees, UnaryOps
  <2>4. CASE node.op = "plus"
    <3>1. V[i] = left /\ M[i] = left
      BY <2>3, <2>4 DEF ValueOf, MeantOf, Comparisons
    <3>2. ~TestAt(e, M, i)
      BY <2>1, <2>4, <3>1 DEF TestAt, Comparisons
    <3>3. QED
      BY <2>3, <2>4, <3>1, <3>2 DEF Agrees
  <2>5. CASE node.op = "is null"
    <3>1. V[i] = left /\ ~IsTrue(V[i])
      <4>1. V[i] = left
        BY <2>3, <2>5 DEF ValueOf, Comparisons
      <4>2. QED
        BY <2>1, <4>1, TruthFacts
    <3>2. M[i] = Truth(FALSE)
      <4>1. M[i] = Truth(left = Unknown)
        BY <2>5 DEF MeantOf, Comparisons
      <4>2. left # Unknown
        BY <2>3, TruthFacts
      <4>3. QED
        BY <4>1, <4>2 DEF Truth
    <3>3. QED
      BY <2>5, <3>1, <3>2, TruthFacts DEF Agrees
  <2>6. QED
    BY <1>13, <2>4, <2>5
<1>14. QED
  BY <1>4, <1>5, <1>6, <1>7, <1>8, <1>9, <1>11, <1>12, <1>13 DEF SoundAt

\* The row is kept by FilterOp exactly when it is one that WHERE keeps.
LEMMA AcceptsAsKeeps ==
    ASSUME NEW e \in Expressions, NEW names, NEW other, NEW row \in Row,
           Sound(e, names, row),
           \A i \in DOMAIN e : e[i].op = "column" => Position(other, e[i].name) = Position(names, e[i].name)
    PROVE  Accepts(e, other, row) <=> Keeps(e, names, row)
<1>1. CASE e = <<>>
  BY <1>1 DEF Accepts, Keeps
<1>2. CASE e # <<>>
  <2> DEFINE M == Meant(e, names, row)
  <2>1. PICK V : /\ \A i \in DOMAIN e : V[i] = ValueOf(V, e, i, other, row)
                 /\ Evaluated(e, other, row) = V[1]
    BY EvaluatedUnfold
  <2>2. \A i \in DOMAIN e : M[i] = MeantOf(M, e, i, names, row)
    BY MeantUnfold
  <2>3. TestAt(e, M, 1) /\ \A i \in DOMAIN e : SoundAt(e, M, i)
    BY <1>2 DEF Sound, TestAt, SoundAt
  <2> DEFINE S == {i \in DOMAIN e : Agrees(e, V, M, i)}
  <2> HIDE DEF M
  <2>4. Hereditary(S, Len(e))
    <3>1. \A i \in DOMAIN e : (\A j \in DOMAIN e : j > i => Agrees(e, V, M, j)) => Agrees(e, V, M, i)
      BY <2>1, <2>2, <2>3, AgreesAt
    <3>2. QED
      BY <3>1, ExprFacts DEF Hereditary
  <2>5. 1 \in DOMAIN e /\ Len(e) \in Nat
    BY <1>2, ExprFacts, EmptySeq DEF Expressions
  <2>6. Agrees(e, V, M, 1)
    BY <2>4, <2>5, ExprFacts, Downwards
  <2>7. IsTrue(V[1]) <=> IsTrue(M[1])
    BY <2>3, <2>6, TruthFacts DEF Agrees
  <2>8. QED
    BY <1>2, <2>1, <2>7 DEF Accepts, Keeps, M
<1>3. QED
  BY <1>1, <1>2

-----------------------------------------------------------------------------
(* The columns that an operator finds *)

LEMMA PositionOf ==
    ASSUME NEW names \in Seq(STRING), NEW name, NEW p, {i \in DOMAIN names : names[i] = name} = {p}
    PROVE  Position(names, name) = p /\ p \in DOMAIN names /\ names[p] = name
<1>1. p \in DOMAIN names /\ names[p] = name
  OBVIOUS
<1>2. {i \in 1 .. Len(names) : names[i] = name} = {p}
  OBVIOUS
<1>3. Min({p}) = p
  BY <1>1, MinInSet, {p} \subseteq Nat
<1>4. QED
  BY <1>1, <1>2, <1>3 DEF Position, SelectInSeq

LEMMA ResolvedPosition ==
    ASSUME plan \in Plans, Linkable, NEW n \in Nodes, plan[n].left \in Nodes, NEW name, Resolved(n, name)
    PROVE  /\ Position(Names(n), name) = Position(Columns[plan[n].left], name)
           /\ name \in Range(Columns[plan[n].left])
<1>1. Columns[plan[n].left] \in Seq(STRING)
  BY ColumnsUnfold
<1>2. QED
  BY <1>1, PositionOf DEF Resolved, Range

\* No column is a null projection.
LEMMA NoStar ==
    ASSUME plan \in Plans, Linkable, ProjectsRight
    PROVE  \A n \in Nodes : Star \notin Range(Columns[n])
<1> DEFINE S == {n \in Nodes : Star \notin Range(Columns[n])}
<1>1. ASSUME NEW n \in Nodes, \A c \in Nodes : c > n => c \in S
      PROVE  n \in S
  <2>1. Columns[n] = ColumnsOf(Columns, n)
    BY ColumnsUnfold
  <2>2. CASE plan[n].op = "scan"
    <3>1. Columns[n] = Schema[plan[n].table]
      BY <2>1, <2>2 DEF ColumnsOf, Products
    <3>2. QED
      BY <2>2, <3>1, CatalogAssumption DEF Linkable, TablesKnown
  <2>3. CASE plan[n].op \in Products
    <3> DEFINE l == Columns[plan[n].left]
               r == Columns[plan[n].right]
    <3>1. Columns[n] = l \o r
      BY <2>1, <2>3 DEF ColumnsOf, Products
    <3>2. l \in Seq(STRING) /\ r \in Seq(STRING) /\ Star \notin Range(l) /\ Star \notin Range(r)
      <4>1. /\ plan[n].left \in Nodes /\ plan[n].left > n
            /\ plan[n].right \in Nodes /\ plan[n].right > n
        BY <2>3, Shape DEF Products
      <4>2. QED
        BY <1>1, <4>1, ColumnsUnfold
    <3> HIDE DEF l, r
    <3>3. \A i \in DOMAIN (l \o r) : (l \o r)[i] \in Range(l) \cup Range(r)
      BY <3>2, ConcatProperties DEF Range
    <3>4. QED
      BY <3>1, <3>2, <3>3 DEF Range
  <2>4. CASE plan[n].op = "project"
    <3>1. Columns[n] = plan[n].cols /\ plan[n].left \in Nodes /\ plan[n].left > n
      BY <2>1, <2>4, Shape DEF ColumnsOf, Products, ProjectsRight
    <3>2. \A c \in Range(plan[n].cols) : c \in Range(Columns[plan[n].left])
      BY <2>4, <3>1, ResolvedPosition DEF ProjectsRight
    <3>3. QED
      BY <1>1, <3>1, <3>2
  <2>5. CASE plan[n].op \notin {"scan", "project"} \cup Products
    <3>1. Columns[n] = Columns[plan[n].left] /\ plan[n].left \in Nodes /\ plan[n].left > n
      BY <2>1, <2>5, Shape DEF ColumnsOf
    <3>2. QED
      BY <1>1, <3>1
  <2>6. QED
    BY <2>2, <2>3, <2>4, <2>5
<1>2. Nodes \subseteq S
  <2> HIDE DEF S
  <2>1. QED
    BY <1>1, TreeInduction
<1>3. QED
  BY <1>2

\* A row's columns under two sets of names that have each column at one place.
LEMMA ProjectedSame ==
    ASSUME NEW cols \in Seq(STRING), NEW names, NEW other, NEW row \in Row,
           \A c \in Range(cols) : Position(other, c) = Position(names, c)
    PROVE  Projected(cols, other, row) = Projected(cols, names, row)
<1> DEFINE keep == [i \in DOMAIN cols |-> Position(names, cols[i]) \in 1 .. Len(row)]
           hold == [i \in DOMAIN cols |-> Position(other, cols[i]) \in 1 .. Len(row)]
           found == Selected(cols, keep)
<1>1. keep = hold
  BY DEF Range
<1>2. Projected(cols, other, row) = [i \in DOMAIN found |-> row[Position(other, found[i])]]
  BY <1>1 DEF Projected
<1>3. Projected(cols, names, row) = [i \in DOMAIN found |-> row[Position(names, found[i])]]
  BY DEF Projected
<1>4. ASSUME NEW i \in DOMAIN found
      PROVE  Position(other, found[i]) = Position(names, found[i])
  <2> HIDE DEF keep
  <2>1. SelectedSound(STRING, cols, keep)
    BY SelectedFacts
  <2>2. found[i] \in Range(cols)
    BY <2>1 DEF SelectedSound, Range
  <2>3. QED
    BY <2>2
<1> HIDE DEF found
<1>5. QED
  BY <1>2, <1>3, <1>4

\* What a projection returns of rows, and what it means.
LEMMA ProjectMeaning ==
    ASSUME plan \in Plans, Linkable, tables \in [Tables -> Contents], ProjectsRight,
           NEW n \in Nodes, plan[n].op = "project"
    PROVE  /\ Star \notin Range(plan[n].cols)
           /\ Meaning[n] = Projection(plan[n].cols, Columns[plan[n].left], Meaning[plan[n].left])
           /\ \A all \in Seq(Row) : Projection(plan[n].cols, Names(n), all)
                                      = Projection(plan[n].cols, Columns[plan[n].left], all)
<1> DEFINE cols == plan[n].cols
<1>1. plan[n].left \in Nodes /\ cols \in Seq(STRING) /\ cols # <<>>
  BY Shape DEF PlanNode, ProjectsRight
<1>2. \A c \in Range(cols) : /\ Position(Names(n), c) = Position(Columns[plan[n].left], c)
                             /\ c \in Range(Columns[plan[n].left])
  BY <1>1, ResolvedPosition DEF ProjectsRight
<1>3. Star \notin Range(cols)
  BY <1>1, <1>2, NoStar
<1>4. Meaning[n] = Projection(cols, Columns[plan[n].left], Meaning[plan[n].left])
  <2>1. Meaning[n] = MeaningOf(Meaning, n)
    BY MeaningUnfold
  <2>2. QED
    BY <1>1, <2>1 DEF MeaningOf
<1>5. ASSUME NEW all \in Seq(Row)
      PROVE  Projection(cols, Names(n), all) = Projection(cols, Columns[plan[n].left], all)
  <2>1. \A i \in DOMAIN all : all[i] \in Row
    OBVIOUS
  <2>2. \A i \in DOMAIN all :
          Projected(cols, Names(n), all[i]) = Projected(cols, Columns[plan[n].left], all[i])
    BY <1>1, <1>2, <2>1, ProjectedSame
  <2>3. QED
    BY <2>2 DEF Projection
<1>6. QED
  BY <1>3, <1>4, <1>5

\* A filter that decides its condition returns, of all rows, what it means.
LEMMA FilterMeaning ==
    ASSUME plan \in Plans, Linkable, tables \in [Tables -> Contents],
           NEW n \in Nodes, plan[n].op = "filter", NEW all, all = Meaning[plan[n].left],
           Decides(n, Range(all))
    PROVE  Meaning[n] = Selected(all, [i \in DOMAIN all |-> Accepts(plan[n].cond, Names(n), all[i])])
<1> DEFINE cond == plan[n].cond
           keep == [i \in DOMAIN all |-> Keeps(cond, Columns[n], all[i])]
           hold == [i \in DOMAIN all |-> Accepts(cond, Names(n), all[i])]
<1>1. /\ plan[n].left \in Nodes /\ cond \in Expressions /\ all \in Seq(Row)
      /\ Columns[n] = Columns[plan[n].left]
  <2>1. Columns[n] = ColumnsOf(Columns, n)
    BY ColumnsUnfold
  <2>2. QED
    BY <2>1, Shape, MeaningUnfold DEF PlanNode, ColumnsOf, Products
<1>2. Meaning[n] = Selected(all, keep)
  <2>1. Meaning[n] = MeaningOf(Meaning, n)
    BY MeaningUnfold
  <2>2. QED
    BY <2>1 DEF MeaningOf, Satisfying
<1>3. ASSUME NEW k \in DOMAIN all
      PROVE  keep[k] = hold[k]
  <2>1. all[k] \in Row /\ all[k] \in Range(all)
    BY <1>1 DEF Range
  <2>2. Sound(cond, Columns[n], all[k])
    BY <2>1 DEF Decides
  <2>3. \A i \in DOMAIN cond :
          cond[i].op = "column" => Position(Names(n), cond[i].name) = Position(Columns[n], cond[i].name)
    BY <1>1, ResolvedPosition DEF Decides
  <2>4. Accepts(cond, Names(n), all[k]) <=> Keeps(cond, Columns[n], all[k])
    BY <1>1, <2>1, <2>2, <2>3, AcceptsAsKeeps
  <2>5. Accepts(cond, Names(n), all[k]) = Keeps(cond, Columns[n], all[k])
    BY <2>4 DEF Accepts, Keeps
  <2>6. QED
    BY <2>5
<1> HIDE DEF keep, hold
<1>4. Selected(all, keep) = Selected(all, hold)
  <2>1. Len(all) \in Nat /\ DOMAIN all = 1 .. Len(all)
    BY <1>1
  <2>2. QED
    BY <1>3, <2>1, SelectedSame
<1>5. QED
  BY <1>2, <1>4 DEF hold

-----------------------------------------------------------------------------
(* Which answers are exact *)

\* The rows that the operator n has handed out.
Out(n) == taken[n] \o (IF InHand(n) THEN batch ELSE <<>>)

\* s is the beginning of t.
Opens(s, t) == Len(s) <= Len(t) /\ \A i \in 1 .. Len(s) : s[i] = t[i]

\* The queries that AnswersExact speaks of.
Claimed == Linkable /\ ProjectsRight /\ Exact[1] # "no" /\ Fits

\* The operators that such a query pulls.
Good(n) == Exact[n] # "no" \/ Repeats[n]

\* The rows out are ones that n may have handed out.
Serves(n, out) ==
    /\ out \in Seq(Row)
    /\ Opens(out, Meaning[n])
    /\ Exact[n] = "one" => out \in {<<>>, Meaning[n]}

\* What a limit has handed out, from its counters and the rows taken from its child.
Fills(n, out, op, below) ==
    LET child == plan[n].left
        limit == plan[n].limit
        idle  == out = <<>> /\ op.skipped = 0 /\ op.returned = 0
    IN  /\ limit = 0 => out = <<>>
        /\ limit # 0 /\ Exact[child] = "one" =>
             IF below = <<>> THEN idle ELSE out = Meaning[n]
        /\ limit # 0 /\ Exact[child] # "one" /\ Exact[n] = "one" =>
             idle \/ (out = Meaning[n] /\ op.returned = limit)
        /\ Exact[n] = "many" =>
             /\ out = WithinLimit(n, below)
             /\ limit >= 0 => op.returned = Len(out)

\* What a product has handed out, from its indexes: the pairs before them, but
\* for those it still has in out.
Joins(n, out, op, below, beside) ==
    LET left  == Meaning[plan[n].left]
        right == Meaning[plan[n].right]
    IN  /\ op.left = below /\ op.right = beside
        /\ op.side \in {"right", "ready"} => below = left
        /\ op.side = "ready" =>
             /\ beside = right
             /\ IF op.leftIdx < Len(left) THEN op.rightIdx < Len(right) ELSE op.rightIdx = 0
        /\ out \o op.out = SubSeq(Pairs(left, right), 1, op.leftIdx * Len(right) + op.rightIdx)

\* What n has handed out, from its state and the rows taken from its children.
Progresses(n, out, op, below, beside) ==
    /\ plan[n].op = "project" => out = Projection(plan[n].cols, Columns[plan[n].left], below)
    /\ plan[n].op \in {"filter", "naive"} => out = IF below = <<>> THEN <<>> ELSE Meaning[n]
    /\ plan[n].op = "limit" => Fills(n, out, op, below)
    /\ plan[n].op \in Products => Joins(n, out, op, below, beside)

AnswersAt(n) ==
    /\ Exact[n] # "no" =>
         /\ Serves(n, taken[n]) /\ Serves(n, Out(n))
         /\ n \in ended => Out(n) = Meaning[n]
         /\ Progresses(n, Out(n), ops[n], taken[plan[n].left], taken[plan[n].right])
    /\ InHand(n) =>
         /\ Repeats[n] => batch = Meaning[n]
         /\ batch = <<>> => n \in ended

\* The operators whose next() is in progress.
StackGood == \A i \in 1 .. Len(stack) : Good(stack[i])

AnswerSound ==
    Claimed =>
      /\ LoopEnds
      /\ status # "undefined"
      /\ rows = taken[1]
      /\ StackGood
      /\ \A n \in Nodes : AnswersAt(n)

\* A step that leaves the plan and the tables alone leaves what is claimed alone.
LEMMA SameAnswers ==
    ASSUME plan' = plan, tables' = tables
    PROVE  /\ Exact' = Exact /\ Repeats' = Repeats /\ (Claimed' <=> Claimed)
           /\ \A n : Good(n)' <=> Good(n)
           /\ \A n, out : Serves(n, out)' <=> Serves(n, out)
           /\ \A n, out, op, below, beside :
                Progresses(n, out, op, below, beside)' <=> Progresses(n, out, op, below, beside)
<1>1. /\ Nodes' = Nodes /\ (Linkable' <=> Linkable) /\ Columns' = Columns /\ Meaning' = Meaning
  BY SameMeaning
<1>2. BaseTable' = BaseTable
  BY <1>1 DEF BaseTable
<1>3. (ProjectsRight' <=> ProjectsRight) /\ (Fits' <=> Fits)
  BY <1>1, <1>2 DEF ProjectsRight, Resolved, Names, Fits
<1>4. \A n, all : Decides(n, all)' = Decides(n, all)
  BY <1>1, <1>2 DEF Decides, ProjectsRight, Resolved, Names
<1>5. Repeats' = Repeats
  BY <1>1, <1>4 DEF Repeats, RepeatsOf, CutsNothing
<1>6. Exact' = Exact
  BY <1>1, <1>4, <1>5 DEF Exact, ExactOf, CutsNothing
<1>7. Claimed' <=> Claimed
  BY <1>1, <1>3, <1>6 DEF Claimed
<1>8. \A n : Good(n)' <=> Good(n)
  BY <1>5, <1>6 DEF Good
<1>9. \A n, out : Serves(n, out)' <=> Serves(n, out)
  BY <1>1, <1>6 DEF Serves, Opens
<1>10. \A n, out, op, below : Fills(n, out, op, below)' <=> Fills(n, out, op, below)
  BY <1>1, <1>6 DEF Fills, WithinLimit
<1>11. \A n, out, op, below, beside :
         Joins(n, out, op, below, beside)' <=> Joins(n, out, op, below, beside)
  BY <1>1 DEF Joins, Pairs
<1>12. \A n, out, op, below, beside :
         Progresses(n, out, op, below, beside)' <=> Progresses(n, out, op, below, beside)
  BY <1>1, <1>10, <1>11 DEF Progresses
<1>13. QED
  BY <1>5, <1>6, <1>7, <1>8, <1>9, <1>12

\* What a query claims gives of its plan.
LEMMA ClaimedFacts ==
    ASSUME TypeSound, Claimed
    PROVE  /\ plan \in Plans /\ Linkable /\ tables \in [Tables -> Contents] /\ ProjectsRight
           /\ taken \in [Nodes -> Seq(Row)] /\ batch \in Seq(Row)
           /\ \A n \in Nodes :
                /\ Meaning[n] \in Seq(Row) /\ Meaning[n] = MeaningOf(Meaning, n)
                /\ Len(Meaning[n]) <= MaxRows
                /\ Exact[n] = ExactOf(Exact, n) /\ Exact[n] \in {"one", "many", "no"}
                /\ Repeats[n] = RepeatsOf(Repeats, n) /\ Repeats[n] \in BOOLEAN
                /\ Out(n) \in Seq(Row)
<1>1. /\ plan \in Plans /\ Linkable /\ tables \in [Tables -> Contents] /\ ProjectsRight /\ Fits
      /\ taken \in [Nodes -> Seq(Row)] /\ batch \in Seq(Row)
  BY DEF TypeSound, PullSound, DataSound, Claimed
<1>2. \A n \in Nodes : Out(n) \in Seq(Row)
  <2>1. ASSUME NEW n \in Nodes
        PROVE  Out(n) \in Seq(Row)
    <3>1. taken[n] \in Seq(Row) /\ <<>> \in Seq(Row)
      BY <1>1, RowFacts
    <3>2. QED
      BY <1>1, <3>1, ConcatProperties DEF Out
  <2>2. QED
    BY <2>1
<1>3. QED
  BY <1>1, <1>2, MeaningUnfold, ExactUnfold, RepeatsUnfold DEF Fits

\* The beginnings of a sequence of rows.
LEMMA OpensFacts ==
    ASSUME NEW s \in Seq(Row), NEW t \in Seq(Row)
    PROVE  /\ Opens(<<>>, t) /\ Opens(t, t)
           /\ Opens(s, t) /\ Len(s) >= Len(t) => s = t
           /\ \A u \in Seq(Row) : Opens(s \o u, t) => Opens(s, t)
<1>1. Opens(<<>>, t) /\ Opens(t, t)
  BY DEF Opens
<1>2. Opens(s, t) /\ Len(s) >= Len(t) => s = t
  <2>1. Len(s) \in Nat /\ Len(t) \in Nat
    OBVIOUS
  <2>2. SUFFICES ASSUME Opens(s, t), Len(s) >= Len(t)
                 PROVE  s = t
    OBVIOUS
  <2>3. Len(s) = Len(t) /\ \A i \in 1 .. Len(s) : s[i] = t[i]
    BY <2>1, <2>2 DEF Opens
  <2>4. QED
    BY <2>3
<1>3. ASSUME NEW u \in Seq(Row), Opens(s \o u, t)
      PROVE  Opens(s, t)
  <2>1. /\ Len(s \o u) = Len(s) + Len(u) /\ Len(s) \in Nat /\ Len(u) \in Nat /\ Len(t) \in Nat
        /\ \A i \in 1 .. Len(s) : (s \o u)[i] = s[i]
    BY ConcatProperties
  <2>2. Len(s \o u) <= Len(t) /\ \A i \in 1 .. Len(s \o u) : (s \o u)[i] = t[i]
    BY <1>3 DEF Opens
  <2>3. Len(s) <= Len(t) /\ Len(s) <= Len(s \o u) /\ 1 .. Len(s) \subseteq 1 .. Len(s \o u)
    BY <2>1, <2>2
  <2>4. \A i \in 1 .. Len(s) : s[i] = t[i]
    BY <2>1, <2>2, <2>3
  <2>5. QED
    BY <2>3, <2>4 DEF Opens
<1>4. QED
  BY <1>1, <1>2, <1>3

-----------------------------------------------------------------------------
(* A step of an operator: the ways it can hand out rows *)

\* What is known when the innermost operator takes a step.
AnswerStep(t) ==
    /\ TypeSound
    /\ t \in Nodes /\ t = Top
    /\ status = "running" /\ stack # <<>>
    /\ Claimed
    /\ \A n \in Nodes : AnswersAt(n)
    /\ Good(t)

LEMMA AnswerStepFacts ==
    ASSUME NEW t, AnswerStep(t)
    PROVE  /\ t \in Nodes /\ plan \in Plans /\ Linkable /\ tables \in [Tables -> Contents] /\ ProjectsRight
           /\ taken \in [Nodes -> Seq(Row)] /\ batch \in Seq(Row)
           /\ plan[t] \in PlanNode /\ OpSound(plan[t], ops[t]) /\ t \notin ended /\ Node = plan[t]
           /\ plan[t].op # "scan" => plan[t].left \in Nodes /\ plan[t].left \in Children(plan, t)
           /\ plan[t].op \in Products => plan[t].right \in Nodes /\ plan[t].right \in Children(plan, t)
           /\ ~InHand(t) /\ Out(t) = taken[t]
           /\ returning /\ plan[t].op # "scan" => InHand(Reading)
<1>1. /\ TypeSound /\ t \in Nodes /\ t = Top /\ status = "running" /\ stack # <<>> /\ Claimed
  BY DEF AnswerStep
<1>2. /\ plan \in Plans /\ Linkable /\ tables \in [Tables -> Contents] /\ ProjectsRight /\ Node = plan[t]
      /\ taken \in [Nodes -> Seq(Row)]
      /\ plan[t] \in PlanNode /\ OpSound(plan[t], ops[t]) /\ batch \in Seq(Row) /\ t \notin ended
  BY <1>1, ClaimedFacts, TopSound, TopFacts DEF TypeSound, Node
<1>3. /\ plan[t].op # "scan" => plan[t].left \in Nodes /\ plan[t].left > t
      /\ plan[t].op \in Products => plan[t].right \in Nodes /\ plan[t].right > t
      /\ Nodes = 1 .. Len(plan) /\ Len(plan) \in Nat
  BY <1>1, <1>2, Shape
<1>4. /\ plan[t].op # "scan" => plan[t].left \in Children(plan, t)
      /\ plan[t].op \in Products => plan[t].right \in Children(plan, t)
  BY <1>1, <1>2, PlanFacts
<1>5. ~InHand(t)
  <2>1. plan[t].op = "scan" => plan[t].left = 0
    BY <1>1, <1>2, PlansAssumption DEF Nodes
  <2>2. plan[t].left # t /\ (plan[t].op \in Products => plan[t].right # t)
    BY <1>1, <1>3, <2>1
  <2>3. QED
    BY <1>1, <1>2, <2>2 DEF InHand, Reading
<1>6. Out(t) = taken[t]
  <2>1. taken[t] \in Seq(Row)
    BY <1>1, <1>2
  <2>2. QED
    BY <1>5, <2>1 DEF Out
<1>7. returning /\ plan[t].op # "scan" => InHand(Reading)
  BY <1>1 DEF InHand
<1>8. QED
  BY <1>1, <1>2, <1>3, <1>4, <1>5, <1>6, <1>7

\* What Take leaves taken from an operator is what it has handed out.
LEMMA TakenIs ==
    ASSUME NEW t, AnswerStep(t), Take, returning => plan[t].op # "scan", NEW n \in Nodes
    PROVE  /\ Exact[n] # "no" => taken'[n] = Out(n)
           /\ n \notin Children(plan, t) => taken'[n] = taken[n]
<1>1. /\ TypeSound /\ stack # <<>> /\ Claimed /\ AnswersAt(n) /\ Node = plan[t] /\ t = Top
      /\ taken \in [Nodes -> Seq(Row)] /\ plan \in Plans
  BY AnswerStepFacts DEF AnswerStep
<1>2. /\ InHand(n) => n \in Children(plan, t)
      /\ ~InHand(n) => taken'[n] = taken[n]
  BY <1>1, TakeFacts
<1>3. ASSUME Exact[n] # "no"
      PROVE  taken'[n] = Out(n)
  <2>1. CASE InHand(n)
    <3>1. Out(n) = taken[n] \o batch
      BY <2>1 DEF Out
    <3>2. taken'[n] = Capped(taken[n] \o batch)
      <4>1. returning /\ n = Reading
        BY <1>1, <2>1 DEF InHand
      <4>2. QED
        BY <1>1, <4>1 DEF Take
    <3>3. Out(n) \in Seq(Row) /\ Len(Out(n)) <= MaxRows
      <4>1. Out(n) \in Seq(Row) /\ Meaning[n] \in Seq(Row) /\ Len(Meaning[n]) <= MaxRows
        BY <1>1, ClaimedFacts
      <4>2. Len(Out(n)) <= Len(Meaning[n])
        BY <1>1, <1>3 DEF AnswersAt, Serves, Opens
      <4>3. Len(Out(n)) \in Nat /\ Len(Meaning[n]) \in Nat /\ MaxRows \in Nat
        BY <4>1, OperatorsAssumption
      <4>4. QED
        BY <4>1, <4>2, <4>3
    <3>4. QED
      BY <3>1, <3>2, <3>3, CappedFacts
  <2>2. CASE ~InHand(n)
    <3>1. taken[n] \in Seq(Row)
      BY <1>1
    <3>2. QED
      BY <1>2, <2>2, <3>1 DEF Out
  <2>3. QED
    BY <2>1, <2>2
<1>4. QED
  BY <1>2, <1>3

\* An operator that takes no step keeps what is known of it.
LEMMA OthersAnswer ==
    ASSUME NEW t, AnswerStep(t), UNCHANGED <<plan, tables>>, Take, returning => plan[t].op # "scan",
           ended \subseteq ended', ended' \subseteq ended \cup {t},
           NEW n \in Nodes, n # t, ops'[n] = ops[n], ~InHand(n)'
    PROVE  AnswersAt(n)'
<1>1. AnswersAt(n) /\ plan \in Plans /\ t \in Nodes /\ (n \in ended' <=> n \in ended)
  BY AnswerStepFacts DEF AnswerStep
<1>2. /\ Exact[n] # "no" => taken'[n] = Out(n)
      /\ taken'[n] \in Seq(Row)
  <2>1. taken' \in [Nodes -> Seq(Row)]
    BY TakeType DEF AnswerStep
  <2>2. QED
    BY <2>1, TakenIs
<1>3. Out(n)' = taken'[n]
  BY <1>2 DEF Out
<1>4. plan[n].op # "scan" => taken'[plan[n].left] = taken[plan[n].left]
  <2>1. SUFFICES ASSUME plan[n].op # "scan"
                 PROVE  taken'[plan[n].left] = taken[plan[n].left]
    OBVIOUS
  <2>2. plan[n].left \in Children(plan, n) /\ plan[n].left \in Nodes
    BY <1>1, <2>1, PlanFacts
  <2>3. plan[n].left \notin Children(plan, t)
    BY <1>1, <2>2, PlanFacts
  <2>4. QED
    BY <2>2, <2>3, TakenIs
<1>5. plan[n].op \in Products => taken'[plan[n].right] = taken[plan[n].right]
  <2>1. SUFFICES ASSUME plan[n].op \in Products
                 PROVE  taken'[plan[n].right] = taken[plan[n].right]
    OBVIOUS
  <2>2. plan[n].right \in Children(plan, n) /\ plan[n].right \in Nodes
    BY <1>1, <2>1, PlanFacts
  <2>3. plan[n].right \notin Children(plan, t)
    BY <1>1, <2>2, PlanFacts
  <2>4. QED
    BY <2>2, <2>3, TakenIs
<1>6. ASSUME Exact[n] # "no"
      PROVE  /\ Serves(n, taken'[n]) /\ (n \in ended' => taken'[n] = Meaning[n])
             /\ Progresses(n, taken'[n], ops'[n], taken'[plan[n].left], taken'[plan[n].right])
  <2>1. /\ Serves(n, Out(n)) /\ (n \in ended => Out(n) = Meaning[n])
        /\ Progresses(n, Out(n), ops[n], taken[plan[n].left], taken[plan[n].right])
    BY <1>1, <1>6 DEF AnswersAt
  <2>2. Progresses(n, Out(n), ops[n], taken'[plan[n].left], taken'[plan[n].right])
    BY <1>4, <1>5, <2>1 DEF Progresses, Products
  <2>3. QED
    BY <1>1, <1>2, <1>6, <2>1, <2>2
<1>7. Meaning' = Meaning /\ Exact' = Exact
  BY SameMeaning, SameAnswers
<1>8. PICK got, own, below, beside :
        /\ got = taken'[n] /\ own = ops'[n]
        /\ below = taken'[plan[n].left] /\ beside = taken'[plan[n].right]
  OBVIOUS
<1>9. Exact[n] # "no" => Serves(n, got)' /\ Progresses(n, got, own, below, beside)'
  BY <1>6, <1>8, SameAnswers
<1>10. QED
  BY <1>3, <1>6, <1>7, <1>8, <1>9 DEF AnswersAt

\* The batch that an operator returns goes on with what it has handed out.
LEMMA ReturnAnswers ==
    ASSUME NEW t, AnswerStep(t), NEW result \in Seq(Row), Return(result), returning => plan[t].op # "scan",
           \A n \in Nodes : n # t => ops'[n] = ops[n], ops'[t].side = ops[t].side,
           Exact[t] # "no" =>
             /\ Serves(t, taken[t] \o result) /\ (result = <<>> => taken[t] = Meaning[t])
             /\ Progresses(t, taken[t] \o result, ops'[t], taken'[plan[t].left], taken'[plan[t].right]),
           Repeats[t] => result = Meaning[t]
    PROVE  \A n \in Nodes : AnswersAt(n)'
<1>1. /\ TypeSound /\ t \in Nodes /\ t = Top /\ status = "running" /\ stack # <<>>
      /\ taken[t] \in Seq(Row) /\ t \notin Children(plan, t) /\ Out(t) = taken[t] /\ AnswersAt(t)
  <2>1. t \notin Children(plan, t)
    BY AnswerStepFacts, PlanFacts
  <2>2. QED
    BY <2>1, AnswerStepFacts DEF AnswerStep
<1>2. /\ plan' = plan /\ tables' = tables /\ Take /\ batch' = result /\ returning'
      /\ ended' = IF result = <<>> THEN ended \cup {t} ELSE ended
  BY <1>1 DEF Return
<1>3. \A n : InHand(n)' <=> n = t
  BY <1>1, Handed DEF TypeSound
<1>4. ASSUME NEW n \in Nodes, n # t
      PROVE  AnswersAt(n)'
  BY <1>2, <1>3, <1>4, OthersAnswer
<1>5. AnswersAt(t)'
  <2>1. taken'[t] = taken[t]
    BY <1>1, <1>2, TakenIs
  <2>2. Out(t)' = taken[t] \o result
    BY <1>2, <1>3, <2>1 DEF Out
  <2>3. Exact[t] # "no" => Serves(t, taken[t])
    BY <1>1 DEF AnswersAt
  <2>4. Exact[t] # "no" /\ t \in ended' => taken[t] \o result = Meaning[t]
    <3>1. t \in ended' => result = <<>>
      BY <1>2, AnswerStepFacts
    <3>2. result = <<>> => taken[t] \o result = taken[t]
      BY <1>1
    <3>3. QED
      BY <3>1, <3>2
  <2>5. PICK got, all, own, below, beside :
          /\ got = taken[t] /\ all = taken[t] \o result /\ own = ops'[t]
          /\ below = taken'[plan[t].left] /\ beside = taken'[plan[t].right]
    OBVIOUS
  <2>6. Exact[t] # "no" => Serves(t, got)' /\ Serves(t, all)' /\ Progresses(t, all, own, below, beside)'
    BY <1>2, <2>3, <2>5, SameAnswers
  <2>7. Meaning' = Meaning /\ Exact' = Exact /\ Repeats' = Repeats
    BY <1>2, SameMeaning, SameAnswers
  <2>8. Exact[t] # "no" =>
          /\ Serves(t, taken[t])' /\ Serves(t, Out(t))' /\ (t \in ended' => Out(t)' = Meaning[t])
          /\ Progresses(t, Out(t), ops[t], taken[plan[t].left], taken[plan[t].right])'
    BY <1>2, <2>1, <2>2, <2>4, <2>5, <2>6
  <2>9. (Repeats[t] => batch' = Meaning[t]) /\ (batch' = <<>> => t \in ended')
    BY <1>2
  <2>10. QED
    BY <1>2, <2>7, <2>8, <2>9 DEF AnswersAt
<1>6. QED
  BY <1>4, <1>5

\* A step that hands out nothing.
LEMMA MoveAnswers ==
    ASSUME NEW t, AnswerStep(t), UNCHANGED <<plan, tables, ended>>, Take, returning' = FALSE,
           returning => plan[t].op # "scan",
           \A n \in Nodes : n # t => ops'[n] = ops[n],
           Exact[t] # "no" =>
             Progresses(t, taken[t], ops'[t], taken'[plan[t].left], taken'[plan[t].right])
    PROVE  \A n \in Nodes : AnswersAt(n)'
<1>1. \A n : ~InHand(n)'
  BY DEF InHand
<1>2. ASSUME NEW n \in Nodes, n # t
      PROVE  AnswersAt(n)'
  BY <1>1, <1>2, OthersAnswer
<1>3. AnswersAt(t)'
  <2>1. /\ taken[t] \in Seq(Row) /\ t \notin Children(plan, t) /\ Out(t) = taken[t] /\ AnswersAt(t)
        /\ t \in Nodes
    <3>1. t \notin Children(plan, t)
      BY AnswerStepFacts, PlanFacts
    <3>2. QED
      BY <3>1, AnswerStepFacts DEF AnswerStep
  <2>2. taken'[t] = taken[t]
    BY <2>1, TakenIs
  <2>3. Out(t)' = taken[t]
    <3>1. ~InHand(t)'
      BY <1>1
    <3>2. Out(t)' = taken'[t] \o <<>>
      BY <3>1 DEF Out
    <3>3. QED
      BY <2>1, <2>2, <3>2
  <2>4. Exact[t] # "no" => Serves(t, taken[t]) /\ (t \in ended => taken[t] = Meaning[t])
    BY <2>1 DEF AnswersAt
  <2>5. PICK got, own, below, beside :
          /\ got = taken[t] /\ own = ops'[t]
          /\ below = taken'[plan[t].left] /\ beside = taken'[plan[t].right]
    OBVIOUS
  <2>6. Exact[t] # "no" => Serves(t, got)' /\ Progresses(t, got, own, below, beside)'
    BY <2>4, <2>5, SameAnswers
  <2>7. Meaning' = Meaning /\ Exact' = Exact
    BY SameMeaning, SameAnswers
  <2>8. Exact[t] # "no" =>
          /\ Serves(t, taken[t])' /\ Serves(t, Out(t))' /\ (t \in ended' => Out(t)' = Meaning[t])
          /\ Progresses(t, Out(t), ops[t], taken[plan[t].left], taken[plan[t].right])'
    BY <2>2, <2>3, <2>4, <2>5, <2>6
  <2>9. QED
    BY <1>1, <2>7, <2>8 DEF AnswersAt
<1>4. QED
  BY <1>2, <1>3

\* What the plan gives of an operator that is exact, or whose batches repeat.
LEMMA ExactIs ==
    ASSUME TypeSound, Claimed, NEW n \in Nodes
    PROVE  LET node == plan[n]
               left == plan[n].left
               right == plan[n].right
           IN  /\ node.op = "scan" =>
                    Meaning[n] = tables[node.table] /\ (Exact[n] # "no" => Meaning[n] = <<>>)
               /\ node.op = "project" => Exact[n] = Exact[left] /\ Repeats[n] = Repeats[left]
               /\ node.op = "filter" =>
                    /\ Meaning[n] = Satisfying(n, Meaning[left])
                    /\ Exact[n] # "no" => Exact[left] = "one" /\ Decides(n, Range(Meaning[left]))
                    /\ Repeats[n] => Repeats[left] /\ Decides(n, Range(Meaning[left]))
               /\ node.op = "naive" =>
                    /\ Exact[n] # "no" => Exact[left] = "one" /\ CutsNothing(n)
                    /\ Repeats[n] => Repeats[left] /\ CutsNothing(n)
               /\ node.op = "limit" =>
                    /\ Meaning[n] = WithinLimit(n, Meaning[left]) /\ ~Repeats[n]
                    /\ Exact[n] = "many" => Exact[left] = "many" /\ node.offset = 0 /\ node.limit # 0
                    /\ Exact[n] = "one" => \/ node.limit = 0 \/ Exact[left] = "one"
                                           \/ /\ Repeats[left] /\ node.limit > 0
                                              /\ Len(Meaning[left]) >= node.offset + node.limit
               /\ node.op \in Products =>
                    /\ ~Repeats[n]
                    /\ Exact[n] # "no" =>
                         /\ Exact[left] # "no" /\ Exact[right] # "no"
                         /\ Meaning[right] = <<>> => Meaning[left] = <<>>
                         /\ Meaning[n] = Pairs(Meaning[left], Meaning[right])
                    /\ Exact[n] = "one" => Len(Meaning[n]) <= BatchSize
<1> DEFINE node == plan[n]
           left == plan[n].left
           right == plan[n].right
<1>1. /\ Exact[n] = ExactOf(Exact, n) /\ Repeats[n] = RepeatsOf(Repeats, n)
      /\ Meaning[n] = MeaningOf(Meaning, n) /\ Meaning[n] \in Seq(Row)
      /\ Exact[n] \in {"one", "many", "no"} /\ Repeats[n] \in BOOLEAN /\ plan \in Plans
  BY ClaimedFacts
<1>2. /\ node.op # "scan" => Meaning[left] \in Seq(Row) /\ Exact[left] \in {"one", "many", "no"}
                             /\ Repeats[left] \in BOOLEAN
      /\ node.op \in Products => Meaning[right] \in Seq(Row)
  BY <1>1, Shape, ClaimedFacts
<1>3. CASE node.op = "scan"
  BY <1>1, <1>3 DEF ExactOf, MeaningOf, Products
<1>4. CASE node.op = "project"
  <2>1. Exact[n] = Exact[left]
    BY <1>1, <1>4 DEF ExactOf
  <2>2. Repeats[n] <=> Repeats[left]
    BY <1>1, <1>4 DEF RepeatsOf
  <2>3. Repeats[n] = Repeats[left]
    BY <1>1, <1>2, <1>4, <2>2
  <2>4. QED
    BY <1>4, <2>1, <2>3 DEF Products
<1>5. CASE node.op = "filter"
  <2>1. Meaning[n] = Satisfying(n, Meaning[left])
    BY <1>1, <1>5 DEF MeaningOf
  <2>2. Exact[n] # "no" => Exact[left] = "one" /\ Decides(n, Range(Meaning[left]))
    BY <1>1, <1>5 DEF ExactOf
  <2>3. Repeats[n] => Repeats[left] /\ Decides(n, Range(Meaning[left]))
    BY <1>1, <1>5 DEF RepeatsOf
  <2>4. QED
    BY <1>5, <2>1, <2>2, <2>3 DEF Products
<1>6. CASE node.op = "naive"
  <2>1. Exact[n] # "no" => Exact[left] = "one" /\ CutsNothing(n)
    BY <1>1, <1>6 DEF ExactOf
  <2>2. Repeats[n] => Repeats[left] /\ CutsNothing(n)
    BY <1>1, <1>6 DEF RepeatsOf
  <2>3. QED
    BY <1>6, <2>1, <2>2 DEF Products
<1>7. CASE node.op = "limit"
  <2>1. Meaning[n] = WithinLimit(n, Meaning[left])
    BY <1>1, <1>7 DEF MeaningOf
  <2>2. ~Repeats[n]
    BY <1>1, <1>7 DEF RepeatsOf
  <2>3. /\ Exact[n] = "many" => Exact[left] = "many" /\ node.offset = 0 /\ node.limit # 0
        /\ Exact[n] = "one" => \/ node.limit = 0 \/ Exact[left] = "one"
                               \/ /\ Repeats[left] /\ node.limit > 0
                                  /\ Len(Meaning[left]) >= node.offset + node.limit
    BY <1>1, <1>7 DEF ExactOf
  <2>4. QED
    BY <1>7, <2>1, <2>2, <2>3 DEF Products
<1>8. CASE node.op \in Products
  <2> DEFINE pairs == Pairs(Meaning[left], Meaning[right])
  <2>1. ~Repeats[n]
    BY <1>1, <1>8 DEF RepeatsOf, Products
  <2>2. Exact[n] # "no" =>
          /\ Exact[left] # "no" /\ Exact[right] # "no"
          /\ Meaning[right] = <<>> => Meaning[left] = <<>>
          /\ Len(Meaning[n]) = Len(Meaning[left]) * Len(Meaning[right])
    BY <1>1, <1>8 DEF ExactOf, Products
  <2>3. Exact[n] = "one" => Len(Meaning[n]) <= BatchSize
    BY <1>1, <1>8 DEF ExactOf, Products
  <2>4. Meaning[n] = Satisfying(n, pairs)
    BY <1>1, <1>8 DEF MeaningOf, Products
  <2>5. pairs \in Seq(Row) /\ Len(pairs) = Len(Meaning[left]) * Len(Meaning[right])
    BY <1>2, <1>8, PairsFacts DEF Products
  <2>6. Len(Meaning[n]) = Len(pairs) => Meaning[n] = pairs
    <3> DEFINE keep == [i \in DOMAIN pairs |-> Keeps(plan[n].cond, Columns[n], pairs[i])]
    <3>1. Meaning[n] = Selected(pairs, keep)
      BY <2>4 DEF Satisfying
    <3> HIDE DEF keep, pairs
    <3>2. SelectedSound(Row, pairs, keep)
      BY <2>5, SelectedFacts
    <3>3. QED
      BY <3>1, <3>2 DEF SelectedSound
  <2>7. QED
    BY <1>8, <2>1, <2>2, <2>3, <2>5, <2>6 DEF Products
<1>9. node.op \in {"scan", "project", "filter", "naive", "limit"} \cup Products
  BY ClaimedFacts DEF Linkable, Linked, Supported, Products
<1>10. QED
  BY <1>3, <1>4, <1>5, <1>6, <1>7, <1>8, <1>9

\* An operator pulls only children that are exact or that repeat.
LEMMA GoodChildren ==
    ASSUME NEW t, AnswerStep(t)
    PROVE  /\ plan[t].op \in {"filter", "naive", "project"} => Good(plan[t].left)
           /\ plan[t].op = "limit" => Exact[t] # "no" /\ (plan[t].limit # 0 => Good(plan[t].left))
           /\ plan[t].op \in Products =>
                /\ Exact[t] # "no" /\ Good(plan[t].left) /\ Good(plan[t].right)
<1>1. TypeSound /\ Claimed /\ t \in Nodes /\ Good(t)
  BY DEF AnswerStep
<1>2. Exact[t] \in {"one", "many", "no"}
  BY <1>1, ClaimedFacts
<1>3. CASE plan[t].op \in {"filter", "naive", "project"}
  BY <1>1, <1>3, ExactIs DEF Good, Products
<1>4. CASE plan[t].op = "limit"
  BY <1>1, <1>2, <1>4, ExactIs DEF Good, Products
<1>5. CASE plan[t].op \in Products
  BY <1>1, <1>5, ExactIs DEF Good, Products
<1>6. QED
  BY <1>3, <1>4, <1>5 DEF Products

\* What the batch in hand shows of the child that handed it out.
LEMMA FromChild ==
    ASSUME NEW t, AnswerStep(t), NEW c \in Nodes, InHand(c)
    PROVE  /\ Exact[c] # "no" =>
                /\ Opens(taken[c] \o batch, Meaning[c])
                /\ Exact[c] = "one" => taken[c] \o batch \in {<<>>, Meaning[c]}
                /\ batch = <<>> => taken[c] = Meaning[c]
                /\ Exact[c] = "one" /\ batch # <<>> => taken[c] = <<>> /\ batch = Meaning[c]
           /\ Repeats[c] => batch = Meaning[c]
<1>1. /\ AnswersAt(c) /\ taken[c] \in Seq(Row) /\ batch \in Seq(Row) /\ Meaning[c] \in Seq(Row)
      /\ Out(c) = taken[c] \o batch
  BY AnswerStepFacts, ClaimedFacts DEF AnswerStep, Out
<1>2. Repeats[c] => batch = Meaning[c]
  BY <1>1 DEF AnswersAt
<1>3. ASSUME Exact[c] # "no"
      PROVE  /\ Opens(taken[c] \o batch, Meaning[c])
             /\ Exact[c] = "one" => taken[c] \o batch \in {<<>>, Meaning[c]}
             /\ batch = <<>> => taken[c] = Meaning[c]
  <2>1. /\ Opens(taken[c] \o batch, Meaning[c])
        /\ Exact[c] = "one" => taken[c] \o batch \in {<<>>, Meaning[c]}
        /\ batch = <<>> => taken[c] \o batch = Meaning[c]
    BY <1>1, <1>3 DEF AnswersAt, Serves
  <2>2. batch = <<>> => taken[c] \o batch = taken[c]
    BY <1>1
  <2>3. QED
    BY <2>1, <2>2
<1>4. ASSUME Exact[c] = "one", batch # <<>>
      PROVE  taken[c] = <<>> /\ batch = Meaning[c]
  <2>1. /\ taken[c] \o batch \in {<<>>, Meaning[c]}
        /\ taken[c] \in {<<>>, Meaning[c]}
    BY <1>1, <1>4 DEF AnswersAt, Serves
  <2>2. Len(taken[c] \o batch) = Len(taken[c]) + Len(batch) /\ Len(batch) > 0
    BY <1>1, <1>4, ConcatProperties, EmptySeq
  <2>3. taken[c] \o batch = Meaning[c] /\ taken[c] = <<>>
    BY <1>1, <2>1, <2>2
  <2>4. QED
    BY <1>1, <2>3
<1>5. QED
  BY <1>2, <1>3, <1>4

-----------------------------------------------------------------------------
(* Exact answers: scans, filters and calls passed on *)

LEMMA ScanAnswers ==
    ASSUME NEW t, AnswerStep(t), ScanNext
    PROVE  \A n \in Nodes : AnswersAt(n)'
<1>1. /\ plan[t].op = "scan" /\ ~returning /\ Return(tables[plan[t].table]) /\ ops' = ops
      /\ taken[t] \in Seq(Row) /\ t \in Nodes /\ TypeSound /\ Claimed /\ AnswersAt(t) /\ Out(t) = taken[t]
  BY AnswerStepFacts DEF ScanNext, Calling, AnswerStep
<1>2. Meaning[t] = tables[plan[t].table] /\ Meaning[t] \in Seq(Row)
  BY <1>1, ExactIs, ClaimedFacts
<1>3. ASSUME Exact[t] # "no"
      PROVE  taken[t] = <<>> /\ Meaning[t] = <<>>
  <2>1. Meaning[t] = <<>> /\ Len(taken[t]) <= Len(Meaning[t])
    BY <1>1, <1>3, ExactIs DEF AnswersAt, Serves, Opens
  <2>2. QED
    BY <1>1, <2>1
<1>4. Exact[t] # "no" =>
        /\ Serves(t, taken[t] \o Meaning[t])
        /\ Progresses(t, taken[t] \o Meaning[t], ops'[t], taken'[plan[t].left], taken'[plan[t].right])
  <2>1. Exact[t] # "no" => taken[t] \o Meaning[t] = taken[t]
    <3>1. taken[t] \o <<>> = taken[t]
      BY <1>1
    <3>2. QED
      BY <1>3, <3>1
  <2>2. Exact[t] # "no" => Serves(t, taken[t])
    BY <1>1 DEF AnswersAt
  <2>3. \A out, op, below, beside : Progresses(t, out, op, below, beside)
    BY <1>1 DEF Progresses, Products
  <2>4. QED
    BY <2>1, <2>2, <2>3
<1>5. QED
  BY <1>1, <1>2, <1>3, <1>4, ReturnAnswers

\* A call that is passed on to the child.
LEMMA PullAnswers ==
    ASSUME NEW t, AnswerStep(t), PullInput \/ (LimitNext /\ ~LimitReached)
    PROVE  (\A n \in Nodes : AnswersAt(n)') /\ stack' = Append(stack, plan[t].left) /\ Good(plan[t].left)
<1>1. /\ plan[t].op \in {"filter", "project", "naive", "limit"} /\ ~returning
      /\ Pull(plan[t].left) /\ ops' = ops /\ plan[t] \in PlanNode /\ OpSound(plan[t], ops[t])
      /\ AnswersAt(t) /\ Out(t) = taken[t] /\ t \in Nodes
  BY AnswerStepFacts DEF PullInput, LimitNext, Calling, AnswerStep
<1>2. taken' = taken
  BY <1>1 DEF Pull, Take
<1>3. plan[t].op = "limit" => plan[t].limit # 0
  <2>1. plan[t].op = "limit" => ~LimitReached
    BY AnswerStepFacts DEF PullInput, Calling
  <2>2. ops[t].returned \in Nat
    BY <1>1, OpFields DEF OpSound
  <2>3. QED
    BY <2>1, <2>2, AnswerStepFacts DEF LimitReached, AnswerStep
<1>4. Good(plan[t].left)
  BY <1>1, <1>3, GoodChildren
<1>5. Exact[t] # "no" =>
        Progresses(t, taken[t], ops'[t], taken'[plan[t].left], taken'[plan[t].right])
  BY <1>1, <1>2 DEF AnswersAt
<1>6. \A n \in Nodes : AnswersAt(n)'
  BY <1>1, <1>5, MoveAnswers DEF Pull
<1>7. QED
  BY <1>1, <1>4, <1>6 DEF Pull

\* What the batch of the child is when a filter, a projection or a limit reads it.
LEMMA InputFacts ==
    ASSUME NEW t, AnswerStep(t), Returned({"filter", "project", "naive", "limit"}), NEW result,
           Return(result)
    PROVE  LET c == plan[t].left
           IN  /\ c \in Nodes /\ InHand(c) /\ plan[t].op \in {"filter", "project", "naive", "limit"}
               /\ taken[t] \in Seq(Row) /\ taken[c] \in Seq(Row) /\ batch \in Seq(Row)
               /\ Meaning[t] \in Seq(Row) /\ Meaning[c] \in Seq(Row)
               /\ Exact[t] # "no" =>
                    /\ Serves(t, taken[t])
                    /\ Progresses(t, taken[t], ops[t], taken[c], taken[plan[t].right])
               /\ Exact[c] # "no" => taken'[c] = taken[c] \o batch
<1>1. /\ returning /\ plan[t].op \in {"filter", "project", "naive", "limit"} /\ t \in Nodes
      /\ AnswersAt(t) /\ Out(t) = taken[t] /\ taken[t] \in Seq(Row) /\ batch \in Seq(Row)
      /\ plan[t].left \in Nodes /\ InHand(Reading) /\ taken[plan[t].left] \in Seq(Row)
      /\ Node = plan[t] /\ t = Top
  BY AnswerStepFacts DEF Returned, AnswerStep
<1>2. Reading = plan[t].left
  BY <1>1 DEF Reading, Products
<1>3. Meaning[t] \in Seq(Row) /\ Meaning[plan[t].left] \in Seq(Row)
  BY <1>1, ClaimedFacts DEF AnswerStep
<1>4. Exact[plan[t].left] # "no" => taken'[plan[t].left] = taken[plan[t].left] \o batch
  <2>1. Exact[plan[t].left] # "no" => taken'[plan[t].left] = Out(plan[t].left)
    BY <1>1, TakenIs DEF Return
  <2>2. QED
    BY <1>1, <1>2, <2>1 DEF Out
<1>5. QED
  BY <1>1, <1>2, <1>3, <1>4 DEF AnswersAt

\* Conditions that cut nothing, and that keep nothing of nothing.
LEMMA MeansNothing ==
    ASSUME TypeSound, Claimed, NEW n \in Nodes, plan[n].op # "scan", plan[n].op \notin Products,
           Good(n) \/ plan[n].op = "limit", Meaning[plan[n].left] = <<>>
    PROVE  Meaning[n] = <<>>
<1>1. /\ Meaning[n] \in Seq(Row) /\ plan[n] \in PlanNode /\ Meaning[n] = MeaningOf(Meaning, n)
      /\ tables \in [Tables -> Contents] /\ plan \in Plans /\ Linkable /\ ProjectsRight
  BY ClaimedFacts, NodeFacts
<1>2. CASE plan[n].op \in {"filter", "naive"}
  <2>1. Meaning[n] = Satisfying(n, <<>>)
    BY <1>1, <1>2 DEF MeaningOf
  <2>2. Meaning[n] = Selected(<<>>, [i \in DOMAIN <<>> |-> Keeps(plan[n].cond, Columns[n], <<>>[i])])
    BY <2>1 DEF Satisfying
  <2>3. QED
    BY <2>2, SelectedEmpty
<1>3. CASE plan[n].op = "project"
  <2>1. PICK none \in Seq(Row) : none = Meaning[plan[n].left]
    BY RowFacts
  <2>2. Meaning[n] = Projection(plan[n].cols, Columns[plan[n].left], none)
    <3>1. Meaning[n] = Projection(plan[n].cols, Columns[plan[n].left], Meaning[plan[n].left])
      BY <1>1, <1>3, ProjectMeaning
    <3>2. QED
      BY <2>1, <3>1
  <2>3. plan[n].cols \in Seq(STRING)
    BY <1>1 DEF PlanNode
  <2>4. Len(Meaning[n]) = Len(none)
    <3>1. Len(Projection(plan[n].cols, Columns[plan[n].left], none)) = Len(none)
      BY <2>3, ProjectionType
    <3>2. QED
      BY <2>2, <3>1
  <2>5. Len(none) = 0
    BY <2>1
  <2>6. QED
    BY <1>1, <2>4, <2>5
<1>4. CASE plan[n].op = "limit"
  <2>1. PICK none \in Seq(Row) : none = Meaning[plan[n].left]
    BY RowFacts
  <2>2. Meaning[n] = WithinLimit(n, none)
    BY <1>1, <1>4, <2>1 DEF MeaningOf
  <2>3. plan[n].offset \in Nat /\ plan[n].limit \in Int
    BY <1>1 DEF PlanNode
  <2>4. Len(none) = 0
    BY <2>1
  <2>5. Len(none) - plan[n].offset <= 0
    BY <2>3, <2>4
  <2>6. Len(WithinLimit(n, none)) = 0
    BY <2>3, <2>5, WithinLimitFacts
  <2>7. QED
    BY <1>1, <2>2, <2>6
<1>5. QED
  BY <1>1, <1>2, <1>3, <1>4 DEF Linkable, Linked, Supported, Products

\* No more rows than the limit, and as many if there are enough.
LEMMA WithinBounds ==
    ASSUME NEW n, plan[n].offset \in Nat, plan[n].limit \in Nat, NEW all \in Seq(Row)
    PROVE  /\ WithinLimit(n, all) \in Seq(Row) /\ Len(WithinLimit(n, all)) <= plan[n].limit
           /\ plan[n].limit = 0 => Len(WithinLimit(n, all)) = 0
           /\ Len(all) >= plan[n].offset + plan[n].limit => Len(WithinLimit(n, all)) = plan[n].limit
<1>1. PICK k \in Nat : k = Len(WithinLimit(n, all))
  BY WithinLimitFacts
<1>2. PICK rest \in Int : rest = Len(all) - plan[n].offset
  OBVIOUS
<1>3. k = IF rest <= 0 THEN 0
          ELSE IF plan[n].limit >= 0 /\ plan[n].limit < rest THEN plan[n].limit ELSE rest
  BY <1>1, <1>2, WithinLimitFacts
<1>4. k <= plan[n].limit /\ (Len(all) >= plan[n].offset + plan[n].limit => k = plan[n].limit)
  BY <1>2, <1>3
<1>5. QED
  BY <1>1, <1>4, WithinLimitFacts

\* The empty batch of a child is passed on.
LEMMA PassAnswers ==
    ASSUME NEW t, AnswerStep(t), PassEnd
    PROVE  \A n \in Nodes : AnswersAt(n)'
<1> DEFINE c == plan[t].left
<1>1. Returned({"filter", "project", "naive", "limit"}) /\ batch = <<>> /\ Return(batch) /\ ops' = ops
  BY DEF PassEnd
<1>2. /\ c \in Nodes /\ InHand(c) /\ plan[t].op \in {"filter", "project", "naive", "limit"}
      /\ taken[t] \in Seq(Row) /\ taken[c] \in Seq(Row) /\ batch \in Seq(Row)
      /\ Meaning[t] \in Seq(Row) /\ Meaning[c] \in Seq(Row)
      /\ Exact[t] # "no" =>
           /\ Serves(t, taken[t])
           /\ Progresses(t, taken[t], ops[t], taken[c], taken[plan[t].right])
      /\ TypeSound /\ Claimed /\ t \in Nodes /\ Good(t) /\ plan[t].op \notin {"scan"} \cup Products
  BY <1>1, InputFacts DEF AnswerStep, Products
<1>3. /\ Exact[c] # "no" => taken[c] = Meaning[c]
      /\ Repeats[c] => Meaning[c] = <<>>
  BY <1>1, <1>2, FromChild
<1>4. Meaning[c] = <<>> => Meaning[t] = <<>>
  BY <1>2, MeansNothing
<1>5. Repeats[t] => batch = Meaning[t]
  BY <1>1, <1>2, <1>3, <1>4, ExactIs
<1>6. taken[t] \o batch = taken[t]
  BY <1>1, <1>2
<1>7. ASSUME Exact[t] # "no"
      PROVE  /\ taken[t] = Meaning[t]
             /\ Progresses(t, taken[t], ops'[t], taken'[c], taken'[plan[t].right])
  <2>1. Progresses(t, taken[t], ops[t], taken[c], taken[plan[t].right])
    BY <1>2, <1>7
  <2>2. Exact[c] # "no" => taken'[c] = taken[c] /\ taken[c] = Meaning[c]
    <3>1. taken[c] \o batch = taken[c]
      BY <1>1, <1>2
    <3>2. QED
      BY <1>1, <1>3, <3>1, InputFacts
  <2>3. CASE plan[t].op = "project"
    <3>1. Exact[c] # "no"
      BY <1>2, <1>7, <2>3, ExactIs
    <3>2. taken[t] = Projection(plan[t].cols, Columns[c], Meaning[c])
      BY <2>1, <2>2, <2>3, <3>1 DEF Progresses
    <3>3. taken[t] = Meaning[t]
      BY <1>2, <2>3, <3>2, ProjectMeaning, AnswerStepFacts
    <3>4. QED
      BY <1>2, <2>1, <2>2, <2>3, <3>1, <3>3 DEF Progresses
  <2>4. CASE plan[t].op \in {"filter", "naive"}
    <3>1. Exact[c] = "one"
      BY <1>2, <1>7, <2>4, ExactIs
    <3>2. taken[t] = IF Meaning[c] = <<>> THEN <<>> ELSE Meaning[t]
      BY <2>1, <2>2, <2>4, <3>1 DEF Progresses
    <3>3. QED
      BY <1>2, <1>4, <2>1, <2>2, <2>4, <3>1, <3>2 DEF Progresses
  <2>5. CASE plan[t].op = "limit"
    <3> DEFINE limit == plan[t].limit
    <3>1. Fills(t, taken[t], ops[t], taken[c])
      BY <2>1, <2>5 DEF Progresses
    <3>2. /\ Exact[t] = "many" => Exact[c] = "many" /\ limit # 0
          /\ Exact[t] = "one" => \/ limit = 0 \/ Exact[c] = "one"
                                 \/ /\ Repeats[c] /\ limit > 0
                                    /\ Len(Meaning[c]) >= plan[t].offset + limit
          /\ Exact[t] \in {"one", "many"} /\ Meaning[t] = WithinLimit(t, Meaning[c])
          /\ limit \in Int /\ plan[t].offset \in Nat
      BY <1>2, <1>7, <2>5, ExactIs, ClaimedFacts, AnswerStepFacts DEF PlanNode
    <3>3. taken[t] = Meaning[t]
      <4>1. CASE limit = 0
        <5>1. Len(WithinLimit(t, Meaning[c])) = 0
          BY <1>2, <3>2, <4>1, WithinBounds
        <5>2. QED
          BY <1>2, <3>1, <3>2, <4>1, <5>1 DEF Fills
      <4>2. CASE limit # 0 /\ Exact[c] = "one"
        BY <1>4, <2>2, <3>1, <4>2 DEF Fills
      <4>3. CASE limit # 0 /\ Exact[c] # "one" /\ Exact[t] = "one"
        <5>1. Repeats[c] /\ limit > 0 /\ Len(Meaning[c]) >= plan[t].offset + limit
          BY <3>2, <4>3
        <5>2. Len(Meaning[c]) = 0
          BY <1>2, <1>3, <5>1
        <5>3. QED
          BY <3>2, <5>1, <5>2
      <4>4. CASE limit # 0 /\ Exact[t] = "many"
        BY <2>2, <3>1, <3>2, <4>4 DEF Fills
      <4>5. QED
        BY <3>2, <4>1, <4>2, <4>3, <4>4
    <3>4. Fills(t, taken[t], ops'[t], taken'[c])
      <4>1. Exact[c] = "no" => Exact[t] # "many"
        BY <3>2
      <4>2. QED
        BY <1>1, <2>2, <3>1, <4>1 DEF Fills
    <3>5. QED
      BY <2>5, <3>3, <3>4 DEF Progresses, Products
  <2>6. QED
    BY <1>2, <2>3, <2>4, <2>5
<1>8. QED
  BY <1>1, <1>2, <1>5, <1>6, <1>7, ReturnAnswers

\* One batch of a filter is all that it stands for.
LEMMA OneBatch ==
    ASSUME NEW t, AnswerStep(t), Returned({"filter", "naive"}), batch # <<>>, NEW result \in Seq(Row),
           Return(result), ops' = ops,
           batch = Meaning[plan[t].left] /\ Good(t) => result = Meaning[t]
    PROVE  \A n \in Nodes : AnswersAt(n)'
<1> DEFINE c == plan[t].left
<1>1. /\ c \in Nodes /\ InHand(c) /\ plan[t].op \in {"filter", "naive"}
      /\ taken[t] \in Seq(Row) /\ taken[c] \in Seq(Row) /\ batch \in Seq(Row) /\ Meaning[t] \in Seq(Row)
      /\ Exact[t] # "no" =>
           /\ Serves(t, taken[t])
           /\ Progresses(t, taken[t], ops[t], taken[c], taken[plan[t].right])
      /\ Exact[c] # "no" => taken'[c] = taken[c] \o batch
  <2>1. Returned({"filter", "project", "naive", "limit"}) /\ plan[t].op \in {"filter", "naive"}
    BY AnswerStepFacts DEF Returned
  <2>2. QED
    BY <2>1, InputFacts
<1>2. TypeSound /\ Claimed /\ t \in Nodes /\ Good(t)
  BY DEF AnswerStep
<1>3. /\ Exact[t] # "no" => Exact[c] = "one"
      /\ Repeats[t] => Repeats[c]
  BY <1>1, <1>2, ExactIs
<1>4. Repeats[t] => result = Meaning[t]
  BY <1>1, <1>2, <1>3, FromChild
<1>5. ASSUME Exact[t] # "no"
      PROVE  /\ Serves(t, taken[t] \o result) /\ taken[t] \o result = Meaning[t]
             /\ result = <<>> => taken[t] = Meaning[t]
             /\ Progresses(t, taken[t] \o result, ops'[t], taken'[c], taken'[plan[t].right])
  <2>1. Exact[c] = "one" /\ taken[c] = <<>> /\ batch = Meaning[c]
    BY <1>1, <1>3, <1>5, FromChild
  <2>2. taken[t] = <<>> /\ result = Meaning[t]
    BY <1>1, <1>2, <1>5, <2>1 DEF Progresses
  <2>3. taken[t] \o result = Meaning[t] /\ taken'[c] = batch
    <3>1. <<>> \o Meaning[t] = Meaning[t] /\ <<>> \o batch = batch
      BY <1>1
    <3>2. QED
      BY <1>1, <2>1, <2>2, <3>1
  <2>4. Serves(t, Meaning[t])
    BY <1>1, OpensFacts DEF Serves
  <2>5. QED
    BY <1>1, <2>2, <2>3, <2>4 DEF Progresses, Products
<1>6. QED
  BY <1>1, <1>4, <1>5, ReturnAnswers

LEMMA FilterAnswers ==
    ASSUME NEW t, AnswerStep(t), FilterRows \/ NaiveKeeps
    PROVE  \A n \in Nodes : AnswersAt(n)'
<1> DEFINE c == plan[t].left
<1>1. /\ TypeSound /\ Claimed /\ t \in Nodes /\ batch \in Seq(Row) /\ Node = plan[t] /\ t = Top
      /\ plan \in Plans /\ Linkable /\ tables \in [Tables -> Contents] /\ batch # <<>> /\ ops' = ops
  BY AnswerStepFacts DEF AnswerStep, FilterRows, NaiveKeeps
<1>2. CASE FilterRows
  <2> DEFINE accept == [i \in DOMAIN batch |-> Accepts(plan[t].cond, Names(t), batch[i])]
             result == Selected(batch, accept)
  <2>1. plan[t].op = "filter" /\ Returned({"filter", "naive"}) /\ Return(result)
    BY <1>1, <1>2 DEF FilterRows, Returned
  <2>2. result \in Seq(Row)
    <3> HIDE DEF accept
    <3>1. SelectedSound(Row, batch, accept)
      BY <1>1, SelectedFacts
    <3>2. QED
      BY <3>1 DEF SelectedSound
  <2>3. batch = Meaning[c] /\ Good(t) => result = Meaning[t]
    <3>1. Good(t) => Decides(t, Range(Meaning[c]))
      BY <1>1, <2>1, ExactIs DEF Good
    <3>2. QED
      BY <1>1, <2>1, <3>1, FilterMeaning
  <2> HIDE DEF result
  <2>4. QED
    BY <1>1, <2>1, <2>2, <2>3, OneBatch
<1>3. CASE NaiveKeeps
  <2> DEFINE k == IF Len(batch) < NaiveRows THEN Len(batch) ELSE NaiveRows
             result == SubSeq(batch, 1, k)
  <2>1. plan[t].op = "naive" /\ Returned({"filter", "naive"}) /\ Return(result)
    BY <1>1, <1>3 DEF NaiveKeeps, Returned
  <2>2. k \in Nat /\ k <= Len(batch)
    BY <1>1, OperatorsAssumption
  <2>3. result \in Seq(Row) /\ (k = Len(batch) => result = batch)
    <3> HIDE DEF k
    <3>1. /\ result \in Seq(Row) /\ Len(result) = k
          /\ \A i \in 1 .. k : result[i] = batch[i]
      BY <1>1, <2>2, PrefixFacts
    <3> HIDE DEF result
    <3>2. QED
      BY <1>1, <3>1
  <2>4. batch = Meaning[c] /\ Good(t) => result = Meaning[t]
    <3>1. Good(t) => Meaning[t] = Meaning[c] /\ Len(Meaning[t]) <= NaiveRows
      BY <1>1, <2>1, ExactIs DEF Good, CutsNothing
    <3>2. Len(batch) <= NaiveRows => k = Len(batch)
      BY <1>1, OperatorsAssumption
    <3>3. QED
      BY <2>3, <3>1, <3>2
  <2> HIDE DEF result
  <2>5. QED
    BY <1>1, <2>1, <2>3, <2>4, OneBatch
<1>4. QED
  BY <1>2, <1>3

-----------------------------------------------------------------------------
(* Exact answers: limits *)

\* How many rows of a batch a limit keeps, and which.
LEMMA KeptRows ==
    ASSUME TypeSound, NEW n \in Nodes
    PROVE  /\ Len(Kept(n)) = LET rest == Len(batch) - Skip(n)
                                 room == plan[n].limit - ops[n].returned
                             IN  IF plan[n].limit >= 0 /\ room < rest THEN room ELSE rest
           /\ \A i \in 1 .. Len(Kept(n)) : Kept(n)[i] = batch[Skip(n) + i]
<1> DEFINE skip == Skip(n)
           rest == SubSeq(batch, skip + 1, Len(batch))
           room == plan[n].limit - ops[n].returned
<1>1. /\ batch \in Seq(Row) /\ Len(batch) \in Nat /\ skip \in Nat /\ skip <= Len(batch)
      /\ Kept(n) \in Seq(Row) /\ Len(Kept(n)) <= Len(batch) - skip
      /\ Kept(n) = SubSeq(batch, skip + 1, skip + Len(Kept(n)))
  BY KeptFacts DEF TypeSound, DataSound
<1>2. plan[n].limit \in Int /\ room \in Int /\ (plan[n].limit >= 0 => room >= 0)
  <2>1. plan[n].limit \in Int
    BY NodeFacts DEF TypeSound, PullSound, PlanNode
  <2>2. ops[n].returned \in Nat /\ (ops[n].returned <= plan[n].limit \/ ops[n].returned = 0)
    BY OpFields DEF TypeSound, DataSound, OpSound
  <2>3. QED
    BY <2>1, <2>2
<1>3. rest \in Seq(Row) /\ Len(rest) = Len(batch) - skip
  <2> HIDE DEF skip
  <2>1. /\ rest \in Seq(Row) /\ Len(rest) = IF skip <= Len(batch) THEN Len(batch) - skip ELSE 0
    BY <1>1, CutSub
  <2>2. QED
    BY <1>1, <2>1
<1>4. Kept(n) = IF plan[n].limit >= 0 /\ room < Len(rest) THEN SubSeq(rest, 1, room) ELSE rest
  BY DEF Kept
<1>5. Len(Kept(n)) = IF plan[n].limit >= 0 /\ room < Len(batch) - skip THEN room ELSE Len(batch) - skip
  <2> HIDE DEF rest, room, skip
  <2>1. CASE plan[n].limit >= 0 /\ room < Len(rest)
    <3>1. room \in Nat /\ room <= Len(rest)
      BY <1>1, <1>2, <1>3, <2>1
    <3>2. Len(SubSeq(rest, 1, room)) = room
      BY <1>3, <3>1, PrefixFacts
    <3>3. QED
      BY <1>3, <1>4, <2>1, <3>2
  <2>2. CASE ~(plan[n].limit >= 0 /\ room < Len(rest))
    BY <1>3, <1>4, <2>2
  <2>3. QED
    BY <2>1, <2>2
<1>6. \A i \in 1 .. Len(Kept(n)) : Kept(n)[i] = batch[skip + i]
  <2> HIDE DEF skip
  <2>1. PICK k \in Nat : k = Len(Kept(n))
    <3>1. Kept(n) \in Seq(Row)
      BY <1>1
    <3>2. QED
      BY <3>1
  <2>2. skip + k \in Nat /\ skip + k <= Len(batch) /\ (skip + k) - skip = k
    BY <1>1, <2>1
  <2>3. \A i \in 1 .. k : SubSeq(batch, skip + 1, skip + k)[i] = batch[skip + i]
    BY <1>1, <2>2, CutSub
  <2>4. QED
    BY <1>1, <2>1, <2>3
<1>7. Len(Kept(n)) = LET left == Len(batch) - Skip(n)
                         more == plan[n].limit - ops[n].returned
                     IN  IF plan[n].limit >= 0 /\ more < left THEN more ELSE left
  BY <1>5
<1>8. QED
  BY <1>6, <1>7

\* The batch a limit starts with.
LEMMA LimitStarts ==
    ASSUME TypeSound, NEW n \in Nodes, ops[n].skipped = 0, ops[n].returned = 0
    PROVE  Kept(n) = WithinLimit(n, batch)
<1>1. /\ batch \in Seq(Row) /\ Len(batch) \in Nat /\ plan[n].offset \in Nat /\ plan[n].limit \in Int
      /\ Kept(n) \in Seq(Row)
  BY KeptFacts, NodeFacts DEF TypeSound, PullSound, DataSound, PlanNode
<1>2. PICK skip \in Nat, k \in Nat, b \in Nat, o \in Nat, m \in Int :
        /\ skip = Skip(n) /\ k = Len(Kept(n)) /\ b = Len(batch)
        /\ o = plan[n].offset /\ m = plan[n].limit
  <2>1. Skip(n) \in Nat
    BY KeptFacts
  <2>2. Len(Kept(n)) \in Nat
    BY <1>1
  <2>3. QED
    BY <1>1, <2>1, <2>2
<1>3. skip = IF o < b THEN o ELSE b
  BY <1>1, <1>2 DEF Skip
<1>4. k = IF m >= 0 /\ m < b - skip THEN m ELSE b - skip
  BY <1>1, <1>2, KeptRows
<1>5. WithinLimit(n, batch) \in Seq(Row) /\ Len(WithinLimit(n, batch)) =
        IF b - o <= 0 THEN 0 ELSE IF m >= 0 /\ m < b - o THEN m ELSE b - o
  BY <1>1, <1>2, WithinLimitFacts
<1>6. Len(WithinLimit(n, batch)) = k
  <2>1. IF b - o <= 0 THEN k = 0 ELSE k = IF m >= 0 /\ m < b - o THEN m ELSE b - o
    BY <1>1, <1>2, <1>3, <1>4
  <2>2. QED
    BY <1>5, <2>1
<1>7. ASSUME NEW i \in 1 .. k
      PROVE  Kept(n)[i] = WithinLimit(n, batch)[i]
  <2>1. skip = o
    BY <1>1, <1>2, <1>3, <1>4
  <2>2. Kept(n)[i] = batch[skip + i]
    <3>1. \A j \in 1 .. Len(Kept(n)) : Kept(n)[j] = batch[Skip(n) + j]
      BY KeptRows
    <3>2. QED
      BY <1>2, <3>1
  <2>3. WithinLimit(n, batch)[i] = batch[o + i]
    <3>1. \A j \in 1 .. Len(WithinLimit(n, batch)) : WithinLimit(n, batch)[j] = batch[plan[n].offset + j]
      BY <1>1, WithinLimitFacts
    <3>2. QED
      BY <1>2, <1>6, <3>1
  <2>4. QED
    BY <2>1, <2>2, <2>3
<1>8. QED
  BY <1>1, <1>2, <1>5, <1>6, <1>7, SeqEqual

\* A limit without OFFSET keeps the first rows.
LEMMA FirstRows ==
    ASSUME NEW n, plan[n].offset = 0, plan[n].limit \in Int, NEW all \in Seq(Row)
    PROVE  /\ WithinLimit(n, all) \in Seq(Row)
           /\ Len(WithinLimit(n, all)) =
                IF plan[n].limit >= 0 /\ plan[n].limit < Len(all) THEN plan[n].limit ELSE Len(all)
           /\ \A i \in 1 .. Len(WithinLimit(n, all)) : WithinLimit(n, all)[i] = all[i]
<1>1. PICK k \in Nat : k = Len(WithinLimit(n, all))
  BY WithinLimitFacts
<1>2. PICK r \in Nat : r = Len(all)
  OBVIOUS
<1>3. k = IF r - 0 <= 0 THEN 0
          ELSE IF plan[n].limit >= 0 /\ plan[n].limit < r - 0 THEN plan[n].limit ELSE r - 0
  BY <1>1, <1>2, WithinLimitFacts
<1>4. k = IF plan[n].limit >= 0 /\ plan[n].limit < r THEN plan[n].limit ELSE r
  BY <1>3
<1>5. \A i \in 1 .. k : WithinLimit(n, all)[i] = all[0 + i] /\ 0 + i = i
  BY <1>1, WithinLimitFacts
<1>6. \A i \in 1 .. k : WithinLimit(n, all)[i] = all[i]
  BY <1>5
<1>7. WithinLimit(n, all) \in Seq(Row)
  BY WithinLimitFacts
<1>8. QED
  BY <1>1, <1>2, <1>4, <1>6, <1>7

LEMMA ConcatFacts ==
    ASSUME NEW s \in Seq(Row), NEW t \in Seq(Row)
    PROVE  \E r \in Seq(Row) :
             /\ r = s \o t /\ Len(r) = Len(s) + Len(t)
             /\ \A i \in 1 .. Len(s) + Len(t) : r[i] = IF i <= Len(s) THEN s[i] ELSE t[i - Len(s)]
<1>1. /\ s \o t \in Seq(Row) /\ Len(s \o t) = Len(s) + Len(t)
      /\ \A i \in 1 .. Len(s) + Len(t) : (s \o t)[i] = IF i <= Len(s) THEN s[i] ELSE t[i - Len(s)]
  BY ConcatProperties
<1>2. QED
  BY <1>1

\* The batch a limit without OFFSET goes on with.
LEMMA LimitGoesOn ==
    ASSUME TypeSound, NEW n \in Nodes, plan[n].offset = 0, NEW seen \in Seq(Row), NEW out \in Seq(Row),
           out = WithinLimit(n, seen), plan[n].limit >= 0 => ops[n].returned = Len(out)
    PROVE  out \o Kept(n) = WithinLimit(n, seen \o batch)
<1>1. plan[n].limit \in Int
  BY NodeFacts DEF TypeSound, PullSound, PlanNode
<1>2. batch \in Seq(Row) /\ Kept(n) \in Seq(Row)
  BY KeptFacts DEF TypeSound, DataSound
<1>3. PICK m \in Int : m = plan[n].limit
  BY <1>1
<1>4. PICK got \in Seq(Row) : got = Kept(n)
  BY <1>2
<1>5. PICK all \in Seq(Row) :
        /\ all = seen \o batch /\ Len(all) = Len(seen) + Len(batch)
        /\ \A i \in 1 .. Len(seen) + Len(batch) :
             all[i] = IF i <= Len(seen) THEN seen[i] ELSE batch[i - Len(seen)]
  BY <1>2, ConcatFacts
<1>6. PICK new \in Seq(Row) :
        /\ new = out \o got /\ Len(new) = Len(out) + Len(got)
        /\ \A i \in 1 .. Len(out) + Len(got) :
             new[i] = IF i <= Len(out) THEN out[i] ELSE got[i - Len(out)]
  BY ConcatFacts
<1>7. PICK end \in Seq(Row) :
        /\ end = WithinLimit(n, all)
        /\ Len(end) = IF m >= 0 /\ m < Len(all) THEN m ELSE Len(all)
        /\ \A i \in 1 .. Len(end) : end[i] = all[i]
  BY <1>1, <1>3, FirstRows
<1>8. /\ Len(out) = IF m >= 0 /\ m < Len(seen) THEN m ELSE Len(seen)
      /\ \A i \in 1 .. Len(out) : out[i] = seen[i]
  BY <1>1, <1>3, FirstRows
<1>9. Skip(n) = 0
  <2>1. Skip(n) \in Nat /\ ops[n].skipped + Skip(n) <= 0 /\ ops[n].skipped \in Nat
    BY KeptFacts, OpFields DEF TypeSound, DataSound, OpSound
  <2>2. QED
    BY <2>1
<1>10. PICK b \in Nat, s \in Nat, u \in Nat, k \in Nat :
         b = Len(batch) /\ s = Len(seen) /\ u = Len(out) /\ k = Len(got)
  BY <1>2
<1>11. k = IF m >= 0 /\ m - u < b THEN m - u ELSE b
  <2>1. k = IF m >= 0 /\ m - ops[n].returned < b - 0 THEN m - ops[n].returned ELSE b - 0
    BY <1>3, <1>4, <1>9, <1>10, KeptRows
  <2>2. m >= 0 => ops[n].returned = u
    BY <1>3, <1>10
  <2>3. QED
    BY <2>1, <2>2
<1>12. u = IF m >= 0 /\ m < s THEN m ELSE s
  BY <1>8, <1>10
<1>13. \A i \in 1 .. k : got[i] = batch[i]
  <2>1. \A i \in 1 .. Len(Kept(n)) : Kept(n)[i] = batch[Skip(n) + i]
    BY KeptRows
  <2>2. \A i \in 1 .. k : got[i] = batch[0 + i] /\ 0 + i = i
    BY <1>4, <1>9, <1>10, <2>1
  <2>3. QED
    BY <2>2
<1>14. Len(all) = s + b /\ Len(new) = u + k /\ Len(end) = u + k
  <2>1. Len(all) = s + b /\ Len(new) = u + k
    BY <1>5, <1>6, <1>10
  <2>2. Len(end) = IF m >= 0 /\ m < s + b THEN m ELSE s + b
    BY <1>7, <2>1
  <2>3. u + k = IF m >= 0 /\ m < s + b THEN m ELSE s + b
    BY <1>11, <1>12
  <2>4. QED
    BY <2>1, <2>2, <2>3
<1>15. ASSUME NEW i \in 1 .. u + k
       PROVE  new[i] = end[i]
  <2>1. new[i] = IF i <= u THEN out[i] ELSE got[i - u]
    BY <1>6, <1>10
  <2>2. u + k <= s + b
    BY <1>11, <1>12
  <2>3. end[i] = IF i <= s THEN seen[i] ELSE batch[i - s]
    <3>1. end[i] = all[i]
      BY <1>7, <1>14
    <3>2. i \in 1 .. s + b
      BY <2>2
    <3>3. QED
      BY <1>5, <1>10, <3>1, <3>2
  <2>4. CASE i <= u
    <3>1. i <= s /\ i \in 1 .. u
      BY <1>12, <2>4
    <3>2. QED
      BY <1>8, <1>10, <2>1, <2>3, <2>4, <3>1
  <2>5. CASE i > u
    <3>1. u = s /\ ~(i <= s) /\ i - u \in 1 .. k
      BY <1>11, <1>12, <2>5
    <3>2. QED
      BY <1>13, <2>1, <2>3, <2>5, <3>1
  <2>6. QED
    BY <2>4, <2>5
<1>16. new = end
  BY <1>14, <1>15, SeqEqual
<1>17. QED
  BY <1>4, <1>5, <1>6, <1>7, <1>16

\* The first rows that a limit without OFFSET keeps of the beginning of a sequence.
LEMMA OpensWithin ==
    ASSUME NEW n, plan[n].offset = 0, plan[n].limit \in Int, NEW s \in Seq(Row), NEW t \in Seq(Row),
           Opens(s, t)
    PROVE  Opens(WithinLimit(n, s), WithinLimit(n, t))
<1>1. PICK a \in Nat, b \in Nat : a = Len(s) /\ b = Len(t)
  OBVIOUS
<1>2. a <= b /\ \A i \in 1 .. a : s[i] = t[i]
  BY <1>1 DEF Opens
<1>3. PICK u \in Seq(Row) :
        /\ u = WithinLimit(n, s)
        /\ Len(u) = IF plan[n].limit >= 0 /\ plan[n].limit < a THEN plan[n].limit ELSE a
        /\ \A i \in 1 .. Len(u) : u[i] = s[i]
  BY <1>1, FirstRows
<1>4. PICK v \in Seq(Row) :
        /\ v = WithinLimit(n, t)
        /\ Len(v) = IF plan[n].limit >= 0 /\ plan[n].limit < b THEN plan[n].limit ELSE b
        /\ \A i \in 1 .. Len(v) : v[i] = t[i]
  BY <1>1, FirstRows
<1>5. Len(u) <= Len(v) /\ Len(u) <= a
  BY <1>2, <1>3, <1>4
<1>6. ASSUME NEW i \in 1 .. Len(u)
      PROVE  u[i] = v[i]
  <2>1. PICK k \in Nat, m \in Nat : k = Len(u) /\ m = Len(v)
    OBVIOUS
  <2>2. i \in 1 .. a /\ i \in 1 .. Len(v)
    BY <1>5, <2>1
  <2>3. QED
    BY <1>2, <1>3, <1>4, <2>2
<1>7. QED
  BY <1>3, <1>4, <1>5, <1>6 DEF Opens

\* A limit that is reached has handed out what it means.
LEMMA LimitFilled ==
    ASSUME NEW t, AnswerStep(t), plan[t].op = "limit",
           Exact[t] = "many", plan[t].limit >= 0,
           NEW out \in Seq(Row), Serves(t, out), Len(out) >= plan[t].limit
    PROVE  out = Meaning[t]
<1>1. /\ TypeSound /\ Claimed /\ t \in Nodes /\ plan[t] \in PlanNode /\ Meaning[t] \in Seq(Row)
      /\ plan \in Plans /\ Meaning[plan[t].left] \in Seq(Row)
  BY AnswerStepFacts, ClaimedFacts DEF AnswerStep
<1>2. Meaning[t] = WithinLimit(t, Meaning[plan[t].left])
  BY <1>1, ExactIs
<1>3. plan[t].offset \in Nat /\ plan[t].limit \in Nat
  BY <1>1 DEF PlanNode
<1>4. Len(Meaning[t]) <= plan[t].limit
  BY <1>1, <1>2, <1>3, WithinBounds
<1>5. PICK a \in Nat, b \in Nat : a = Len(out) /\ b = Len(Meaning[t])
  BY <1>1
<1>6. a >= b
  BY <1>3, <1>4, <1>5
<1>7. Opens(out, Meaning[t])
  BY DEF Serves
<1>8. QED
  BY <1>1, <1>5, <1>6, <1>7, OpensFacts

\* What is known of a limit that takes a step.
LEMMA LimitFacts ==
    ASSUME NEW t, AnswerStep(t), plan[t].op = "limit"
    PROVE  LET c == plan[t].left
               limit == plan[t].limit
           IN  /\ c \in Nodes /\ Exact[t] \in {"one", "many"} /\ ~Repeats[t]
               /\ limit \in Int /\ plan[t].offset \in Nat
               /\ Meaning[t] \in Seq(Row) /\ Meaning[c] \in Seq(Row)
               /\ taken[t] \in Seq(Row) /\ taken[c] \in Seq(Row)
               /\ Meaning[t] = WithinLimit(t, Meaning[c])
               /\ Exact[t] = "many" => Exact[c] = "many" /\ plan[t].offset = 0 /\ limit # 0
               /\ Exact[t] = "one" /\ limit # 0 /\ Exact[c] # "one" =>
                    Repeats[c] /\ limit > 0 /\ Len(Meaning[c]) >= plan[t].offset + limit
               /\ limit = 0 => Meaning[t] = <<>>
               /\ Serves(t, taken[t]) /\ Fills(t, taken[t], ops[t], taken[c])
               /\ ops[t].skipped \in Nat /\ ops[t].returned \in Nat
               /\ TypeSound /\ Claimed /\ t \in Nodes /\ Node = plan[t] /\ t = Top
<1>1. /\ TypeSound /\ Claimed /\ t \in Nodes /\ plan[t] \in PlanNode /\ Meaning[t] \in Seq(Row)
      /\ plan[t].left \in Nodes /\ Meaning[plan[t].left] \in Seq(Row) /\ AnswersAt(t) /\ Out(t) = taken[t]
      /\ taken[t] \in Seq(Row) /\ taken[plan[t].left] \in Seq(Row) /\ OpSound(plan[t], ops[t])
      /\ Exact[t] \in {"one", "many"} /\ Node = plan[t] /\ t = Top
  BY AnswerStepFacts, ClaimedFacts, GoodChildren DEF AnswerStep
<1>2. plan[t].limit \in Int /\ plan[t].offset \in Nat
  BY <1>1 DEF PlanNode
<1>3. /\ Meaning[t] = WithinLimit(t, Meaning[plan[t].left]) /\ ~Repeats[t]
      /\ Exact[t] = "many" => Exact[plan[t].left] = "many" /\ plan[t].offset = 0 /\ plan[t].limit # 0
      /\ Exact[t] = "one" /\ plan[t].limit # 0 /\ Exact[plan[t].left] # "one" =>
           /\ Repeats[plan[t].left] /\ plan[t].limit > 0
           /\ Len(Meaning[plan[t].left]) >= plan[t].offset + plan[t].limit
  BY <1>1, ExactIs
<1>4. plan[t].limit = 0 => Meaning[t] = <<>>
  <2>1. plan[t].limit = 0 => Len(WithinLimit(t, Meaning[plan[t].left])) = 0
    BY <1>1, <1>2, WithinBounds
  <2>2. QED
    BY <1>1, <1>3, <2>1
<1>5. Serves(t, taken[t]) /\ Fills(t, taken[t], ops[t], taken[plan[t].left])
  BY <1>1 DEF AnswersAt, Progresses
<1>6. ops[t].skipped \in Nat /\ ops[t].returned \in Nat
  BY <1>1, OpFields DEF OpSound
<1>7. QED
  BY <1>1, <1>2, <1>3, <1>4, <1>5, <1>6

LEMMA LimitReachedAnswers ==
    ASSUME NEW t, AnswerStep(t), LimitNext, LimitReached
    PROVE  \A n \in Nodes : AnswersAt(n)'
<1> DEFINE c == plan[t].left
           limit == plan[t].limit
<1>1. plan[t].op = "limit" /\ ~returning /\ Return(<<>>) /\ ops' = ops /\ taken' = taken
  BY AnswerStepFacts DEF LimitNext, Calling, Return, Take
<1>2. /\ Exact[t] \in {"one", "many"} /\ ~Repeats[t] /\ Serves(t, taken[t])
      /\ Fills(t, taken[t], ops[t], taken[c]) /\ taken[t] \in Seq(Row)
      /\ limit \in Int /\ limit >= 0 /\ ops[t].returned >= limit /\ ops[t].returned \in Nat
      /\ limit = 0 => Meaning[t] = <<>>
  BY <1>1, LimitFacts DEF LimitReached
<1>3. taken[t] = Meaning[t]
  <2>1. CASE limit = 0
    BY <1>2, <2>1 DEF Fills
  <2>2. CASE limit # 0 /\ Exact[t] = "one"
    BY <1>2, <2>2 DEF Fills
  <2>3. CASE limit # 0 /\ Exact[t] = "many"
    <3>1. ops[t].returned = Len(taken[t])
      BY <1>2, <2>3 DEF Fills
    <3>2. QED
      BY <1>1, <1>2, <2>3, <3>1, LimitFilled
  <2>4. QED
    BY <1>2, <2>1, <2>2, <2>3
<1>4. taken[t] \o <<>> = taken[t] /\ <<>> \in Seq(Row)
  BY <1>2, RowFacts
<1>5. Progresses(t, taken[t], ops'[t], taken'[c], taken'[plan[t].right])
  BY <1>1, <1>2 DEF Progresses, Products
<1>6. QED
  BY <1>1, <1>2, <1>3, <1>4, <1>5, ReturnAnswers

LEMMA LimitRowsAnswers ==
    ASSUME NEW t, AnswerStep(t), LimitRows
    PROVE  \A n \in Nodes : AnswersAt(n)'
<1> DEFINE c == plan[t].left
           limit == plan[t].limit
           out == taken[t] \o Kept(t)
<1>1. /\ plan[t].op = "limit" /\ Returned({"filter", "project", "naive", "limit"}) /\ batch # <<>>
      /\ Return(Kept(t)) /\ t \in Nodes /\ TypeSound
      /\ ops' = [ops EXCEPT ![t].skipped = @ + Skip(t),
                            ![t].returned = IF limit < 0 THEN 0 ELSE @ + Len(Kept(t))]
  BY AnswerStepFacts DEF LimitRows, Returned, AnswerStep
<1>2. DOMAIN ops = Nodes /\ ops[t] \in Op
  BY <1>1 DEF TypeSound, PullSound, OpsShaped, DataSound, OpSound
<1>3. /\ ops'[t].returned = IF limit < 0 THEN 0 ELSE ops[t].returned + Len(Kept(t))
      /\ ops'[t].side = ops[t].side
      /\ \A n \in Nodes : n # t => ops'[n] = ops[n]
  BY <1>1, <1>2 DEF Op
<1>4. /\ c \in Nodes /\ InHand(c) /\ batch \in Seq(Row)
      /\ Exact[c] # "no" => taken'[c] = taken[c] \o batch
  BY <1>1, InputFacts
<1>5. /\ Exact[t] \in {"one", "many"} /\ ~Repeats[t] /\ limit \in Int /\ plan[t].offset \in Nat
      /\ Meaning[t] \in Seq(Row) /\ Meaning[c] \in Seq(Row) /\ taken[t] \in Seq(Row) /\ taken[c] \in Seq(Row)
      /\ Meaning[t] = WithinLimit(t, Meaning[c]) /\ (limit = 0 => Meaning[t] = <<>>)
      /\ Serves(t, taken[t]) /\ Fills(t, taken[t], ops[t], taken[c]) /\ ops[t].returned \in Nat
  BY <1>1, LimitFacts
<1>6. Kept(t) \in Seq(Row) /\ (limit >= 0 => ops[t].returned + Len(Kept(t)) <= limit)
  BY <1>1, KeptFacts
<1>7. out \in Seq(Row) /\ (Kept(t) = <<>> => out = taken[t]) /\ (taken[t] = <<>> => out = Kept(t))
      /\ Len(out) = Len(taken[t]) + Len(Kept(t))
  <2>1. PICK p \in Seq(Row), q \in Seq(Row) : p = taken[t] /\ q = Kept(t)
    BY <1>5, <1>6
  <2>2. p \o q \in Seq(Row) /\ Len(p \o q) = Len(p) + Len(q)
    BY ConcatProperties
  <2>3. p \o <<>> = p /\ <<>> \o q = q
    OBVIOUS
  <2>4. QED
    BY <2>1, <2>2, <2>3
<1> HIDE DEF out
<1>8. CASE limit = 0
  <2>1. taken[t] = <<>> /\ Kept(t) = <<>>
    <3>1. Len(Kept(t)) = 0
      BY <1>5, <1>6, <1>8
    <3>2. QED
      BY <1>5, <1>6, <1>8, <3>1 DEF Fills
  <2>2. out = Meaning[t] /\ taken[t] = Meaning[t]
    BY <1>5, <1>7, <1>8, <2>1
  <2>3. Exact[t] # "many"
    BY <1>1, <1>8, LimitFacts
  <2>4. Progresses(t, out, ops'[t], taken'[c], taken'[plan[t].right])
    BY <1>1, <1>5, <1>8, <2>1, <2>2, <2>3 DEF Progresses, Fills, Products
  <2>5. QED
    BY <1>1, <1>3, <1>5, <1>6, <2>2, <2>4, ReturnAnswers DEF out
<1>9. Serves(t, Meaning[t])
  BY <1>5, OpensFacts DEF Serves
<1>10. CASE limit # 0 /\ Exact[c] = "one"
  <2>1. taken[c] = <<>> /\ batch = Meaning[c] /\ taken'[c] = batch
    <3>1. taken[c] = <<>> /\ batch = Meaning[c]
      BY <1>1, <1>4, <1>10, FromChild
    <3>2. <<>> \o batch = batch
      BY <1>4
    <3>3. QED
      BY <1>4, <1>10, <3>1, <3>2
  <2>2. taken[t] = <<>> /\ ops[t].skipped = 0 /\ ops[t].returned = 0
    BY <1>5, <1>10, <2>1 DEF Fills
  <2>3. out = Meaning[t]
    BY <1>1, <1>5, <1>7, <2>1, <2>2, LimitStarts
  <2>4. Exact[t] # "many"
    BY <1>1, <1>10, LimitFacts
  <2>5. Progresses(t, out, ops'[t], taken'[c], taken'[plan[t].right])
    BY <1>1, <1>10, <2>1, <2>3, <2>4 DEF Progresses, Fills, Products
  <2>6. Kept(t) = <<>> => taken[t] = Meaning[t]
    BY <1>7, <2>3
  <2>7. QED
    BY <1>1, <1>3, <1>5, <1>6, <1>9, <2>3, <2>5, <2>6, ReturnAnswers DEF out
<1>11. CASE limit # 0 /\ Exact[c] # "one" /\ Exact[t] = "one"
  <2>1. Repeats[c] /\ limit > 0 /\ Len(Meaning[c]) >= plan[t].offset + limit
    BY <1>1, <1>11, LimitFacts
  <2>2. batch = Meaning[c]
    BY <1>1, <1>4, <2>1, FromChild
  <2>3. out = Meaning[t] /\ ops'[t].returned = limit
    <3>1. CASE taken[t] = <<>> /\ ops[t].skipped = 0 /\ ops[t].returned = 0
      <4>1. Kept(t) = Meaning[t]
        BY <1>1, <1>5, <2>2, <3>1, LimitStarts
      <4>2. Len(Meaning[t]) = limit
        <5>1. limit \in Nat
          BY <1>5, <2>1
        <5>2. QED
          BY <1>5, <2>1, <5>1, WithinBounds
      <4>3. QED
        BY <1>3, <1>5, <1>7, <2>1, <3>1, <4>1, <4>2
    <3>2. CASE taken[t] = Meaning[t] /\ ops[t].returned = limit
      <4>1. PICK kept \in Seq(Row) : kept = Kept(t) /\ limit + Len(kept) <= limit
        BY <1>5, <1>6, <2>1, <3>2
      <4>2. Len(kept) = 0 /\ kept = <<>>
        BY <1>5, <4>1
      <4>3. out = taken[t]
        BY <1>7, <4>1, <4>2
      <4>4. ops'[t].returned = ops[t].returned + Len(Kept(t)) /\ limit \in Int
        <5>1. ~(limit < 0) /\ limit \in Int
          BY <1>5, <2>1
        <5>2. QED
          BY <1>3, <5>1
      <4>5. ops'[t].returned = limit
        <5>1. Len(Kept(t)) = 0 /\ ops[t].returned = limit
          BY <3>2, <4>1, <4>2
        <5>2. limit + 0 = limit
          BY <4>4
        <5>3. QED
          BY <4>4, <5>1, <5>2
      <4>6. QED
        BY <3>2, <4>3, <4>5
    <3>3. QED
      BY <1>5, <1>11, <3>1, <3>2 DEF Fills
  <2>4. Progresses(t, out, ops'[t], taken'[c], taken'[plan[t].right])
    BY <1>1, <1>11, <2>3 DEF Progresses, Fills, Products
  <2>5. Kept(t) = <<>> => taken[t] = Meaning[t]
    BY <1>7, <2>3
  <2>6. QED
    BY <1>1, <1>3, <1>5, <1>6, <1>9, <2>3, <2>4, <2>5, ReturnAnswers DEF out
<1>12. CASE Exact[t] = "many"
  <2>1. Exact[c] = "many" /\ plan[t].offset = 0 /\ limit # 0
    BY <1>1, <1>12, LimitFacts
  <2>2. taken[t] = WithinLimit(t, taken[c]) /\ (limit >= 0 => ops[t].returned = Len(taken[t]))
    BY <1>5, <1>12 DEF Fills
  <2>3. out = WithinLimit(t, taken[c] \o batch)
    BY <1>1, <1>5, <2>1, <2>2, LimitGoesOn DEF out
  <2>4. Serves(t, out)
    <3>1. Opens(taken[c] \o batch, Meaning[c]) /\ taken[c] \o batch \in Seq(Row)
      <4>1. taken[c] \o batch \in Seq(Row)
        BY <1>4, <1>5, ConcatProperties
      <4>2. QED
        BY <1>4, <2>1, <4>1, FromChild
    <3>2. Opens(out, Meaning[t])
      BY <1>5, <2>1, <2>3, <3>1, OpensWithin
    <3>3. QED
      BY <1>7, <1>12, <3>2 DEF Serves
  <2>5. limit >= 0 => ops'[t].returned = Len(out)
    BY <1>3, <1>5, <1>7, <2>2
  <2>6. Progresses(t, out, ops'[t], taken'[c], taken'[plan[t].right])
    BY <1>1, <1>4, <1>12, <2>1, <2>3, <2>5 DEF Progresses, Fills, Products
  <2>7. Kept(t) = <<>> => taken[t] = Meaning[t]
    <3>1. SUFFICES ASSUME Kept(t) = <<>>
                   PROVE  limit >= 0 /\ Len(taken[t]) >= limit
      BY <1>1, <1>5, <1>12, LimitFilled
    <3>2. Len(Kept(t)) = 0 /\ Len(batch) > 0
      BY <1>1, <1>4, <3>1
    <3>3. Skip(t) = 0
      <4>1. Skip(t) \in Nat /\ ops[t].skipped + Skip(t) <= plan[t].offset
        BY <1>1, KeptFacts
      <4>2. ops[t].skipped \in Nat /\ plan[t].offset = 0
        BY <1>1, <2>1, LimitFacts
      <4>3. QED
        BY <4>1, <4>2
    <3>4. Len(Kept(t)) = IF limit >= 0 /\ limit - ops[t].returned < Len(batch) - 0
                         THEN limit - ops[t].returned ELSE Len(batch) - 0
      BY <1>1, <3>3, KeptRows
    <3>5. limit >= 0 /\ limit - ops[t].returned = 0
      BY <1>5, <3>2, <3>4
    <3>6. QED
      BY <1>5, <2>2, <3>5
  <2>8. QED
    BY <1>1, <1>3, <1>5, <1>6, <2>4, <2>6, <2>7, ReturnAnswers DEF out
<1>13. QED
  BY <1>5, <1>8, <1>10, <1>11, <1>12

\* A projection of rows put together, and of the beginning of a sequence.
LEMMA ProjectionFacts ==
    ASSUME NEW cols \in Seq(STRING), NEW names, NEW s \in Seq(Row), NEW t \in Seq(Row)
    PROVE  /\ Projection(cols, names, s) \o Projection(cols, names, t) = Projection(cols, names, s \o t)
           /\ Opens(s, t) => Opens(Projection(cols, names, s), Projection(cols, names, t))
<1> DEFINE P(all) == Projection(cols, names, all)
<1>1. \A all \in Seq(Row) :
        /\ P(all) \in Seq(Row) /\ Len(P(all)) = Len(all)
        /\ \A i \in 1 .. Len(all) : P(all)[i] = Projected(cols, names, all[i])
  <2>1. ASSUME NEW all \in Seq(Row)
        PROVE  /\ P(all) \in Seq(Row) /\ Len(P(all)) = Len(all)
               /\ \A i \in 1 .. Len(all) : P(all)[i] = Projected(cols, names, all[i])
    <3>1. P(all) \in Seq(Row) /\ Len(P(all)) = Len(all)
      BY ProjectionType
    <3>2. DOMAIN all = 1 .. Len(all)
      OBVIOUS
    <3>3. \A i \in 1 .. Len(all) : P(all)[i] = Projected(cols, names, all[i])
      BY <3>2 DEF Projection
    <3>4. QED
      BY <3>1, <3>3
  <2>2. QED
    BY <2>1
<1> HIDE DEF P
<1>2. P(s) \o P(t) = P(s \o t)
  <2>1. PICK all \in Seq(Row) :
          /\ all = s \o t /\ Len(all) = Len(s) + Len(t)
          /\ \A i \in 1 .. Len(s) + Len(t) : all[i] = IF i <= Len(s) THEN s[i] ELSE t[i - Len(s)]
    BY ConcatFacts
  <2>2. PICK p \in Seq(Row), q \in Seq(Row), r \in Seq(Row) : p = P(s) /\ q = P(t) /\ r = P(all)
    BY <1>1
  <2>3. PICK new \in Seq(Row) :
          /\ new = p \o q /\ Len(new) = Len(p) + Len(q)
          /\ \A i \in 1 .. Len(p) + Len(q) : new[i] = IF i <= Len(p) THEN p[i] ELSE q[i - Len(p)]
    BY ConcatFacts
  <2>4. PICK a \in Nat, b \in Nat : a = Len(s) /\ b = Len(t)
    OBVIOUS
  <2>5. Len(p) = a /\ Len(q) = b /\ Len(r) = a + b /\ Len(new) = a + b
    BY <1>1, <2>1, <2>2, <2>3, <2>4
  <2>6. ASSUME NEW i \in 1 .. a + b
        PROVE  new[i] = r[i]
    <3>1. r[i] = Projected(cols, names, all[i])
      BY <1>1, <2>1, <2>2, <2>4
    <3>2. CASE i <= a
      <4>1. i \in 1 .. a
        BY <3>2
      <4>2. new[i] = p[i] /\ p[i] = Projected(cols, names, s[i]) /\ all[i] = s[i]
        BY <1>1, <2>1, <2>2, <2>3, <2>4, <2>5, <3>2, <4>1
      <4>3. QED
        BY <3>1, <4>2
    <3>3. CASE ~(i <= a)
      <4>1. i - a \in 1 .. b
        BY <3>3
      <4>2. new[i] = q[i - a] /\ all[i] = t[i - a]
        BY <2>1, <2>3, <2>4, <2>5, <3>3
      <4>3. q[i - a] = Projected(cols, names, t[i - a])
        BY <1>1, <2>2, <2>4, <4>1
      <4>4. QED
        BY <3>1, <4>2, <4>3
    <3>4. QED
      BY <3>2, <3>3
  <2>7. new = r
    BY <2>5, <2>6, SeqEqual
  <2>8. QED
    BY <2>1, <2>2, <2>3, <2>7
<1>3. ASSUME Opens(s, t)
      PROVE  Opens(P(s), P(t))
  <2>1. PICK a \in Nat, b \in Nat : a = Len(s) /\ b = Len(t)
    OBVIOUS
  <2>2. a <= b /\ \A i \in 1 .. a : s[i] = t[i]
    BY <1>3, <2>1 DEF Opens
  <2>3. Len(P(s)) = a /\ Len(P(t)) = b
    BY <1>1, <2>1
  <2>4. ASSUME NEW i \in 1 .. a
        PROVE  P(s)[i] = P(t)[i]
    <3>1. i \in 1 .. b
      BY <2>2
    <3>2. QED
      BY <1>1, <2>1, <2>2, <3>1
  <2>5. QED
    BY <2>2, <2>3, <2>4 DEF Opens
<1>4. QED
  BY <1>2, <1>3 DEF P

-----------------------------------------------------------------------------
(* Exact answers: projections *)

LEMMA ProjectAnswers ==
    ASSUME NEW t, AnswerStep(t), ProjectRows
    PROVE  ~Undefined /\ \A n \in Nodes : AnswersAt(n)'
<1> DEFINE c == plan[t].left
           P(all) == Projection(plan[t].cols, Columns[c], all)
<1>1. /\ plan[t].op = "project" /\ Returned({"filter", "project", "naive", "limit"}) /\ batch # <<>>
      /\ t \in Nodes /\ TypeSound /\ Claimed /\ t = Top /\ Node = plan[t] /\ returning /\ c \in Nodes
      /\ plan[t].cols \in Seq(STRING) /\ plan[t] \in PlanNode
  <2>1. /\ plan[t].op = "project" /\ returning /\ status = "running" /\ stack # <<>> /\ batch # <<>>
        /\ t \in Nodes /\ TypeSound /\ Claimed /\ t = Top /\ Node = plan[t] /\ c \in Nodes
        /\ plan[t] \in PlanNode
    BY AnswerStepFacts DEF ProjectRows, Returned, AnswerStep
  <2>2. QED
    BY <2>1 DEF Returned, PlanNode
<1>2. /\ Star \notin Range(plan[t].cols) /\ Meaning[t] = P(Meaning[c])
      /\ \A all \in Seq(Row) : Projection(plan[t].cols, Names(t), all) = P(all)
  BY <1>1, AnswerStepFacts, ProjectMeaning
<1>3. Return(Projection(plan[t].cols, Names(t), batch)) /\ ops' = ops
  BY <1>1, <1>2 DEF ProjectRows, Undefined, Return, Take
<1>4. ~Undefined
  BY <1>1, <1>3 DEF Undefined, Return, Returned
<1>5. /\ InHand(c) /\ taken[t] \in Seq(Row) /\ taken[c] \in Seq(Row) /\ batch \in Seq(Row)
      /\ Meaning[t] \in Seq(Row) /\ Meaning[c] \in Seq(Row)
      /\ Exact[t] # "no" => Progresses(t, taken[t], ops[t], taken[c], taken[plan[t].right])
      /\ Exact[c] # "no" => taken'[c] = taken[c] \o batch
  BY <1>1, <1>3, InputFacts
<1>6. Return(P(batch)) /\ P(batch) \in Seq(Row) /\ P(batch) # <<>>
  <2>1. P(batch) \in Seq(Row) /\ Len(P(batch)) = Len(batch)
    BY <1>1, <1>5, ProjectionType
  <2>2. P(batch) # <<>>
    BY <1>1, <1>5, <2>1
  <2>3. QED
    BY <1>2, <1>3, <1>5, <2>1, <2>2
<1>7. Exact[t] = Exact[c] /\ Repeats[t] = Repeats[c]
  BY <1>1, ExactIs
<1>8. Repeats[t] => P(batch) = Meaning[t]
  BY <1>1, <1>2, <1>5, <1>7, FromChild
<1>9. ASSUME Exact[t] # "no"
      PROVE  /\ Serves(t, taken[t] \o P(batch))
             /\ Progresses(t, taken[t] \o P(batch), ops'[t], taken'[c], taken'[plan[t].right])
  <2>1. taken[t] = P(taken[c])
    BY <1>1, <1>5, <1>9 DEF Progresses
  <2>2. PICK all \in Seq(Row) : all = taken[c] \o batch
    <3>1. \E r \in Seq(Row) : r = taken[c] \o batch
      <4>1. taken[c] \in Seq(Row) /\ batch \in Seq(Row)
        BY <1>5
      <4>2. QED
        BY <4>1, ConcatFacts
    <3>2. QED
      BY <3>1
  <2>3. taken[t] \o P(batch) = P(all)
    <3>1. PICK u \in Seq(Row), v \in Seq(Row), cols \in Seq(STRING) :
            u = taken[c] /\ v = batch /\ cols = plan[t].cols
      BY <1>1, <1>5
    <3>2. Projection(cols, Columns[c], u) \o Projection(cols, Columns[c], v)
            = Projection(cols, Columns[c], u \o v)
      BY ProjectionFacts
    <3>3. QED
      BY <2>1, <2>2, <3>1, <3>2
  <2>4. taken'[c] = all
    BY <1>5, <1>7, <1>9, <2>2
  <2>5. Opens(all, Meaning[c]) /\ (Exact[c] = "one" => all \in {<<>>, Meaning[c]})
    BY <1>1, <1>5, <1>7, <1>9, <2>2, FromChild
  <2>6. P(all) \in Seq(Row) /\ Opens(P(all), Meaning[t])
    <3>1. P(all) \in Seq(Row)
      BY <1>1, ProjectionType
    <3>2. Opens(P(all), P(Meaning[c]))
      BY <1>1, <1>5, <2>5, ProjectionFacts
    <3>3. QED
      BY <1>2, <3>1, <3>2
  <2>7. Exact[t] = "one" => P(all) \in {<<>>, Meaning[t]}
    <3>1. all # <<>>
      <4>1. Len(all) = Len(taken[c]) + Len(batch) /\ Len(batch) > 0
        <5>1. Len(taken[c] \o batch) = Len(taken[c]) + Len(batch)
          BY <1>5, ConcatProperties
        <5>2. QED
          BY <1>1, <1>5, <2>2, <5>1
      <4>2. QED
        BY <1>5, <4>1
    <3>2. QED
      BY <1>2, <1>7, <2>5, <3>1
  <2>8. Progresses(t, P(all), ops'[t], taken'[c], taken'[plan[t].right])
    BY <1>1, <2>4 DEF Progresses, Products
  <2>9. QED
    BY <2>3, <2>6, <2>7, <2>8 DEF Serves
<1>10. \A n \in Nodes : AnswersAt(n)'
  BY <1>1, <1>3, <1>6, <1>8, <1>9, ReturnAnswers
<1>11. QED
  BY <1>4, <1>10

-----------------------------------------------------------------------------
(* Exact answers: products *)

\* What is known of a product that takes a step.
LEMMA ProductFacts ==
    ASSUME NEW t, AnswerStep(t), plan[t].op \in Products
    PROVE  LET l == plan[t].left
               r == plan[t].right
           IN  /\ t \in Nodes /\ l \in Nodes /\ r \in Nodes /\ l # r /\ t = Top /\ Node = plan[t]
               /\ Exact[t] \in {"one", "many"} /\ ~Repeats[t] /\ Exact[l] # "no" /\ Exact[r] # "no"
               /\ Meaning[t] \in Seq(Row) /\ Meaning[l] \in Seq(Row) /\ Meaning[r] \in Seq(Row)
               /\ Meaning[t] = Pairs(Meaning[l], Meaning[r])
               /\ Meaning[r] = <<>> => Meaning[l] = <<>>
               /\ Exact[t] = "one" => Len(Meaning[t]) <= BatchSize
               /\ taken[t] \in Seq(Row) /\ taken[l] \in Seq(Row) /\ taken[r] \in Seq(Row)
               /\ batch \in Seq(Row) /\ taken \in [Nodes -> Seq(Row)]
               /\ Serves(t, taken[t]) /\ Joins(t, taken[t], ops[t], taken[l], taken[r])
               /\ DOMAIN ops = Nodes /\ ops[t] \in Op /\ OpSound(plan[t], ops[t])
               /\ TypeSound /\ Claimed
<1>1. /\ t \in Nodes /\ plan[t].left \in Nodes /\ plan[t].right \in Nodes /\ t = Top /\ Node = plan[t]
      /\ TypeSound /\ Claimed /\ plan \in Plans /\ taken \in [Nodes -> Seq(Row)] /\ batch \in Seq(Row)
      /\ OpSound(plan[t], ops[t]) /\ AnswersAt(t) /\ Out(t) = taken[t]
  <2>1. plan[t].op # "scan"
    BY DEF Products
  <2>2. QED
    BY <2>1, AnswerStepFacts DEF AnswerStep
<1>2. plan[t].left # plan[t].right
  BY <1>1, PlansAssumption DEF Nodes
<1>3. DOMAIN ops = Nodes
  BY <1>1 DEF TypeSound, PullSound, OpsShaped
<1>4. /\ Exact[t] \in {"one", "many"}
      /\ Meaning[t] \in Seq(Row) /\ Meaning[plan[t].left] \in Seq(Row) /\ Meaning[plan[t].right] \in Seq(Row)
  BY <1>1, ClaimedFacts, GoodChildren
<1>5. /\ ~Repeats[t] /\ Exact[plan[t].left] # "no" /\ Exact[plan[t].right] # "no"
      /\ Meaning[t] = Pairs(Meaning[plan[t].left], Meaning[plan[t].right])
      /\ Meaning[plan[t].right] = <<>> => Meaning[plan[t].left] = <<>>
      /\ Exact[t] = "one" => Len(Meaning[t]) <= BatchSize
  BY <1>1, <1>4, ExactIs
<1>6. /\ Serves(t, taken[t])
      /\ Joins(t, taken[t], ops[t], taken[plan[t].left], taken[plan[t].right])
  BY <1>1, <1>4 DEF AnswersAt, Progresses
<1>7. QED
  BY <1>1, <1>2, <1>3, <1>4, <1>5, <1>6 DEF OpSound

LEMMA DrainAnswers ==
    ASSUME NEW t, AnswerStep(t), PullLeft \/ DrainLeft \/ DrainRight
    PROVE  \A n \in Nodes : AnswersAt(n)'
<1> DEFINE l == plan[t].left
           r == plan[t].right
<1>1. plan[t].op \in Products /\ t = Top /\ Node = plan[t] /\ t \in Nodes
  BY AnswerStepFacts DEF PullLeft, DrainLeft, DrainRight, Calling, Returned, AnswerStep
<1>2. /\ l \in Nodes /\ r \in Nodes /\ l # r /\ Exact[l] # "no" /\ Exact[r] # "no" /\ DOMAIN ops = Nodes
      /\ Meaning[l] \in Seq(Row) /\ Meaning[r] \in Seq(Row) /\ (Meaning[r] = <<>> => Meaning[l] = <<>>)
      /\ taken[l] \in Seq(Row) /\ taken[r] \in Seq(Row) /\ batch \in Seq(Row) /\ taken \in [Nodes -> Seq(Row)]
      /\ Joins(t, taken[t], ops[t], taken[l], taken[r]) /\ ops[t] \in Op
      /\ ops[t].side # "ready" => ops[t].leftIdx = 0 /\ ops[t].rightIdx = 0
  BY <1>1, ProductFacts DEF OpSound
<1>3. UNCHANGED <<plan, tables, ended>> /\ Take /\ returning' = FALSE
  BY DEF PullLeft, DrainLeft, DrainRight, Pull
<1>4. ASSUME NEW o, ops' = [ops EXCEPT ![t] = o], Joins(t, taken[t], o, taken'[l], taken'[r])
      PROVE  \A n \in Nodes : AnswersAt(n)'
  <2>1. (\A n \in Nodes : n # t => ops'[n] = ops[n]) /\ ops'[t] = o
    BY <1>1, <1>2, <1>4
  <2>2. Progresses(t, taken[t], ops'[t], taken'[l], taken'[r])
    BY <1>1, <1>4, <2>1 DEF Progresses, Products
  <2>3. plan[t].op # "scan"
    BY <1>1 DEF Products
  <2>4. QED
    BY <1>3, <2>1, <2>2, <2>3, MoveAnswers
<1>5. CASE PullLeft
  <2>1. PICK o : o = [ops[t] EXCEPT !.side = "left"]
    OBVIOUS
  <2>2. ops' = [ops EXCEPT ![t] = o] /\ taken' = taken
    BY <1>1, <1>5, <2>1 DEF PullLeft, Calling, Pull, Take
  <2>3. /\ o.side = "left" /\ o.left = ops[t].left /\ o.right = ops[t].right /\ o.out = ops[t].out
        /\ o.leftIdx = ops[t].leftIdx /\ o.rightIdx = ops[t].rightIdx
    BY <1>2, <2>1 DEF Op
  <2>4. Joins(t, taken[t], o, taken'[l], taken'[r])
    BY <1>2, <2>2, <2>3 DEF Joins
  <2>5. QED
    BY <1>4, <2>2, <2>4
<1>6. CASE DrainLeft
  <2>1. /\ returning /\ ops[t].side = "left"
        /\ ops' = IF batch # <<>>
                  THEN [ops EXCEPT ![t] = [ops[t] EXCEPT !.left = Capped(@ \o batch)]]
                  ELSE [ops EXCEPT ![t] = [ops[t] EXCEPT !.side = "right"]]
    BY <1>1, <1>6 DEF DrainLeft, Returned
  <2>2. Reading = l
    BY <1>1, <2>1 DEF Reading
  <2>3. taken'[l] = Capped(taken[l] \o batch) /\ taken'[r] = taken[r]
    BY <1>2, <1>3, <2>1, <2>2 DEF Take
  <2>4. CASE batch # <<>>
    <3>1. PICK o : o = [ops[t] EXCEPT !.left = Capped(@ \o batch)]
      OBVIOUS
    <3>2. ops' = [ops EXCEPT ![t] = o]
      BY <2>1, <2>4, <3>1
    <3>3. /\ o.side = "left" /\ o.left = Capped(ops[t].left \o batch) /\ o.right = ops[t].right
          /\ o.out = ops[t].out /\ o.leftIdx = ops[t].leftIdx /\ o.rightIdx = ops[t].rightIdx
      BY <1>2, <2>1, <3>1 DEF Op
    <3>4. Joins(t, taken[t], o, taken'[l], taken'[r])
      BY <1>2, <2>3, <3>3 DEF Joins
    <3>5. QED
      BY <1>4, <3>2, <3>4
  <2>5. CASE batch = <<>>
    <3>1. InHand(l)
      BY <1>1, <2>1, <2>2, AnswerStepFacts DEF Products
    <3>2. taken'[l] = taken[l] /\ taken[l] = Meaning[l]
      <4>1. taken'[l] = Out(l) /\ Out(l) = taken[l] \o batch
        <5>1. plan[t].op # "scan"
          BY <1>1 DEF Products
        <5>2. QED
          BY <1>2, <1>3, <3>1, <5>1, TakenIs DEF Out
      <4>2. taken[l] \o batch = taken[l]
        BY <1>2, <2>5
      <4>3. taken[l] = Meaning[l]
        BY <1>2, <2>5, <3>1, FromChild
      <4>4. QED
        BY <4>1, <4>2, <4>3
    <3>3. PICK o : o = [ops[t] EXCEPT !.side = "right"]
      OBVIOUS
    <3>4. ops' = [ops EXCEPT ![t] = o]
      BY <2>1, <2>5, <3>3
    <3>5. /\ o.side = "right" /\ o.left = ops[t].left /\ o.right = ops[t].right
          /\ o.out = ops[t].out /\ o.leftIdx = ops[t].leftIdx /\ o.rightIdx = ops[t].rightIdx
      BY <1>2, <3>3 DEF Op
    <3>6. Joins(t, taken[t], o, taken'[l], taken'[r])
      BY <1>2, <2>3, <3>2, <3>5 DEF Joins
    <3>7. QED
      BY <1>4, <3>4, <3>6
  <2>6. QED
    BY <2>4, <2>5
<1>7. CASE DrainRight
  <2>1. /\ returning /\ ops[t].side = "right"
        /\ ops' = IF batch # <<>>
                  THEN [ops EXCEPT ![t] = [ops[t] EXCEPT !.right = Capped(@ \o batch)]]
                  ELSE [ops EXCEPT ![t] = [ops[t] EXCEPT !.side = "ready"]]
    BY <1>1, <1>7 DEF DrainRight, Returned
  <2>2. Reading = r
    BY <1>1, <2>1 DEF Reading
  <2>3. taken'[r] = Capped(taken[r] \o batch) /\ taken'[l] = taken[l]
    BY <1>2, <1>3, <2>1, <2>2 DEF Take
  <2>4. CASE batch # <<>>
    <3>1. PICK o : o = [ops[t] EXCEPT !.right = Capped(@ \o batch)]
      OBVIOUS
    <3>2. ops' = [ops EXCEPT ![t] = o]
      BY <2>1, <2>4, <3>1
    <3>3. /\ o.side = "right" /\ o.right = Capped(ops[t].right \o batch) /\ o.left = ops[t].left
          /\ o.out = ops[t].out /\ o.leftIdx = ops[t].leftIdx /\ o.rightIdx = ops[t].rightIdx
      BY <1>2, <2>1, <3>1 DEF Op
    <3>4. Joins(t, taken[t], o, taken'[l], taken'[r])
      BY <1>2, <2>1, <2>3, <3>3 DEF Joins
    <3>5. QED
      BY <1>4, <3>2, <3>4
  <2>5. CASE batch = <<>>
    <3>1. InHand(r)
      BY <1>1, <2>1, <2>2, AnswerStepFacts DEF Products
    <3>2. taken'[r] = taken[r] /\ taken[r] = Meaning[r]
      <4>1. taken'[r] = Out(r) /\ Out(r) = taken[r] \o batch
        <5>1. plan[t].op # "scan"
          BY <1>1 DEF Products
        <5>2. QED
          BY <1>2, <1>3, <3>1, <5>1, TakenIs DEF Out
      <4>2. taken[r] \o batch = taken[r]
        BY <1>2, <2>5
      <4>3. taken[r] = Meaning[r]
        BY <1>2, <2>5, <3>1, FromChild
      <4>4. QED
        BY <4>1, <4>2, <4>3
    <3>3. PICK o : o = [ops[t] EXCEPT !.side = "ready"]
      OBVIOUS
    <3>4. ops' = [ops EXCEPT ![t] = o]
      BY <2>1, <2>5, <3>3
    <3>5. /\ o.side = "ready" /\ o.left = ops[t].left /\ o.right = ops[t].right
          /\ o.out = ops[t].out /\ o.leftIdx = ops[t].leftIdx /\ o.rightIdx = ops[t].rightIdx
          /\ o.leftIdx = 0 /\ o.rightIdx = 0
      BY <1>2, <2>1, <3>3 DEF Op
    <3>6. 0 < Len(Meaning[l]) => 0 < Len(Meaning[r])
      BY <1>2
    <3>7. Joins(t, taken[t], o, taken'[l], taken'[r])
      BY <1>2, <2>1, <2>3, <3>2, <3>5, <3>6 DEF Joins
    <3>8. QED
      BY <1>4, <3>4, <3>7
  <2>6. QED
    BY <2>4, <2>5
<1>8. QED
  BY <1>5, <1>6, <1>7

\* The pair that comes after the first i * Len(right) + j of them.
LEMMA NextPair ==
    ASSUME NEW left \in Seq(Row), NEW right \in Seq(Row), NEW i \in Nat, NEW j \in Nat,
           i < Len(left), j < Len(right),
           NEW k \in Nat, k = i * Len(right) + j
    PROVE  /\ k + 1 <= Len(Pairs(left, right))
           /\ left[i + 1] \o right[j + 1] \in Row
           /\ Append(SubSeq(Pairs(left, right), 1, k), left[i + 1] \o right[j + 1])
                = SubSeq(Pairs(left, right), 1, k + 1)
<1>1. PICK a \in Nat, b \in Nat : a = Len(left) /\ b = Len(right)
  OBVIOUS
<1>2. k + 1 <= a * b
  <2>1. PICK x \in Nat, y \in Nat : x = i * b /\ y = a * b
    OBVIOUS
  <2>2. (i + 1) * b <= a * b /\ (i + 1) * b = i * b + b
    BY <1>1
  <2>3. x + b <= y
    BY <2>1, <2>2
  <2>4. k = x + j /\ j < b
    BY <1>1, <2>1
  <2>5. k + 1 <= y
    BY <2>3, <2>4
  <2>6. QED
    BY <2>1, <2>5
<1>3. PICK p \in Seq(Row) : p = Pairs(left, right) /\ Len(p) = a * b
  BY <1>1, PairsFacts
<1>4. k \div b = i /\ k % b = j
  BY <1>1, PairNumber
<1>5. p[k + 1] = left[i + 1] \o right[j + 1]
  <2>1. PICK at \in 1 .. a * b : at = k + 1 /\ at - 1 = k
    BY <1>2
  <2>2. Pairs(left, right)[at] = left[((at - 1) \div b) + 1] \o right[((at - 1) % b) + 1]
    BY <1>1, <2>1 DEF Pairs
  <2>3. QED
    BY <1>3, <1>4, <2>1, <2>2
<1>6. left[i + 1] \o right[j + 1] \in Row
  <2>1. i + 1 \in 1 .. Len(left) /\ j + 1 \in 1 .. Len(right)
    OBVIOUS
  <2>2. left[i + 1] \in Row /\ right[j + 1] \in Row
    BY <2>1
  <2>3. QED
    BY <2>2, RowFacts
<1>7. PICK n \in Nat : n = k + 1 /\ n <= Len(p) /\ k <= Len(p)
  BY <1>2, <1>3
<1>8. PICK s \in Seq(Row) : s = SubSeq(p, 1, k) /\ Len(s) = k /\ \A x \in 1 .. k : s[x] = p[x]
  <2>1. /\ SubSeq(p, 1, k) \in Seq(Row) /\ Len(SubSeq(p, 1, k)) = k
        /\ \A x \in 1 .. k : SubSeq(p, 1, k)[x] = p[x]
    BY <1>7, PrefixFacts
  <2>2. QED
    BY <2>1
<1>9. PICK u \in Seq(Row) : u = SubSeq(p, 1, n) /\ Len(u) = n /\ \A x \in 1 .. n : u[x] = p[x]
  <2>1. /\ SubSeq(p, 1, n) \in Seq(Row) /\ Len(SubSeq(p, 1, n)) = n
        /\ \A x \in 1 .. n : SubSeq(p, 1, n)[x] = p[x]
    BY <1>7, PrefixFacts
  <2>2. QED
    BY <2>1
<1>10. PICK e \in Row : e = left[i + 1] \o right[j + 1] /\ e = p[n]
  BY <1>5, <1>6, <1>7
<1>11. /\ Append(s, e) \in Seq(Row) /\ Len(Append(s, e)) = k + 1
       /\ \A x \in 1 .. k : Append(s, e)[x] = s[x]
       /\ Append(s, e)[k + 1] = e
  BY <1>8, AppendProperties
<1>12. ASSUME NEW x \in 1 .. n
       PROVE  Append(s, e)[x] = u[x]
  <2>1. CASE x = n
    BY <1>7, <1>9, <1>10, <1>11, <2>1
  <2>2. CASE x # n
    <3>1. x \in 1 .. k
      BY <1>7, <2>2
    <3>2. QED
      BY <1>8, <1>9, <1>11, <3>1
  <2>3. QED
    BY <2>1, <2>2
<1>13. Append(s, e) = u
  BY <1>7, <1>9, <1>11, <1>12, SeqEqual
<1>14. QED
  BY <1>2, <1>3, <1>6, <1>7, <1>8, <1>9, <1>10, <1>13

\* Rows handed out, and those a product still holds.
LEMMA AppendLast ==
    ASSUME NEW s \in Seq(Row), NEW t \in Seq(Row), NEW e \in Row
    PROVE  s \o Append(t, e) = Append(s \o t, e)
<1>1. <<e>> \in Seq(Row) /\ s \o t \in Seq(Row)
  BY ConcatProperties
<1>2. Append(t, e) = t \o <<e>> /\ Append(s \o t, e) = (s \o t) \o <<e>>
  BY <1>1, AppendIsConcat
<1>3. QED
  BY <1>1, <1>2, ConcatAssociative

\* A product that has read both children: their rows, its indexes i and j, and
\* the number k of the pairs before them.
Joined(t, left, right, pairs, i, j, k) ==
    /\ left = Meaning[plan[t].left] /\ left = ops[t].left
    /\ right = Meaning[plan[t].right] /\ right = ops[t].right
    /\ pairs = Pairs(left, right) /\ pairs = Meaning[t]
    /\ i = ops[t].leftIdx /\ j = ops[t].rightIdx
    /\ i <= Len(left)
    /\ i < Len(left) => j < Len(right)
    /\ i >= Len(left) => j = 0
    /\ k = i * Len(right) + j
    /\ k <= Len(pairs)
    /\ i >= Len(left) => k = Len(pairs)
    /\ taken[t] \o ops[t].out = SubSeq(pairs, 1, k)

LEMMA JoinedFacts ==
    ASSUME NEW t, AnswerStep(t), plan[t].op \in Products, ops[t].side = "ready"
    PROVE  \E left, right, pairs \in Seq(Row), i, j, k \in Nat : Joined(t, left, right, pairs, i, j, k)
<1>1. /\ Joins(t, taken[t], ops[t], taken[plan[t].left], taken[plan[t].right])
      /\ Meaning[plan[t].left] \in Seq(Row) /\ Meaning[plan[t].right] \in Seq(Row)
      /\ Meaning[t] = Pairs(Meaning[plan[t].left], Meaning[plan[t].right])
      /\ ops[t] \in Op /\ ops[t].leftIdx <= Len(ops[t].left)
  BY ProductFacts DEF OpSound
<1>2. PICK left \in Seq(Row), right \in Seq(Row) :
        left = Meaning[plan[t].left] /\ right = Meaning[plan[t].right]
  BY <1>1
<1>3. PICK pairs \in Seq(Row) : pairs = Pairs(left, right) /\ Len(pairs) = Len(left) * Len(right)
  BY PairsFacts
<1>4. PICK i \in Nat, j \in Nat : i = ops[t].leftIdx /\ j = ops[t].rightIdx
  BY <1>1, OpFields
<1>5. /\ left = ops[t].left /\ right = ops[t].right
      /\ IF i < Len(left) THEN j < Len(right) ELSE j = 0
      /\ taken[t] \o ops[t].out = SubSeq(pairs, 1, i * Len(right) + j)
  BY <1>1, <1>2, <1>3, <1>4 DEF Joins
<1>6. PICK a \in Nat, b \in Nat : a = Len(left) /\ b = Len(right)
  OBVIOUS
<1>7. PICK k \in Nat : k = i * b + j
  OBVIOUS
<1>8. i <= a
  BY <1>1, <1>4, <1>5, <1>6
<1>9. /\ left = Meaning[plan[t].left] /\ left = ops[t].left
      /\ right = Meaning[plan[t].right] /\ right = ops[t].right
      /\ pairs = Pairs(left, right) /\ pairs = Meaning[t]
      /\ i = ops[t].leftIdx /\ j = ops[t].rightIdx
      /\ k = i * Len(right) + j
      /\ taken[t] \o ops[t].out = SubSeq(pairs, 1, k)
  BY <1>1, <1>2, <1>3, <1>4, <1>5, <1>6, <1>7
<1>10. SUFFICES /\ i <= Len(left) /\ (i < Len(left) => j < Len(right)) /\ (i >= Len(left) => j = 0)
                /\ k <= Len(pairs) /\ (i >= Len(left) => k = Len(pairs))
  BY <1>9 DEF Joined
<1>11. CASE i < a
  <2>1. j < b
    BY <1>5, <1>6, <1>11
  <2>2. k + 1 <= Len(Pairs(left, right))
    <3>1. i < Len(left) /\ j < Len(right) /\ k = i * Len(right) + j
      BY <1>6, <1>7, <1>11, <2>1
    <3>2. QED
      BY <3>1, NextPair
  <2>3. k <= Len(pairs)
    BY <1>3, <2>2
  <2>4. QED
    BY <1>6, <1>11, <2>1, <2>3
<1>12. CASE i = a
  <2>1. j = 0
    BY <1>5, <1>6, <1>12
  <2>2. k = Len(pairs)
    <3>1. i * b + j = a * b
      BY <1>12, <2>1
    <3>2. QED
      BY <1>3, <1>6, <1>7, <3>1
  <2>3. QED
    BY <1>6, <1>12, <2>1, <2>2
<1>13. QED
  BY <1>6, <1>8, <1>11, <1>12

LEMMA PairAnswers ==
    ASSUME NEW t, AnswerStep(t), PairRows
    PROVE  ~Undefined /\ \A n \in Nodes : AnswersAt(n)'
<1>1. /\ plan[t].op \in Products /\ t = Top /\ Node = plan[t] /\ t \in Nodes /\ TypeSound
      /\ status = "running" /\ ~returning /\ ops[t].side = "ready" /\ MorePairs(ops[t])
  BY AnswerStepFacts DEF PairRows, Calling, AnswerStep
<1>2. PICK left, right, pairs \in Seq(Row), i, j, k \in Nat : Joined(t, left, right, pairs, i, j, k)
  BY <1>1, JoinedFacts
<1>3. /\ left = Meaning[plan[t].left] /\ left = ops[t].left
      /\ right = Meaning[plan[t].right] /\ right = ops[t].right
      /\ pairs = Pairs(left, right) /\ i = ops[t].leftIdx /\ j = ops[t].rightIdx
      /\ i < Len(left) => j < Len(right)
      /\ k = i * Len(right) + j
      /\ taken[t] \o ops[t].out = SubSeq(pairs, 1, k)
  BY <1>2 DEF Joined
<1>4. i < Len(left) /\ j < Len(right)
  BY <1>1, <1>3 DEF MorePairs
<1>5. ~Undefined
  <2>1. status' = status
    <3>1. ~(ops[t].rightIdx >= Len(ops[t].right))
      BY <1>3, <1>4
    <3>2. QED
      BY <1>1, <3>1 DEF PairRows
  <2>2. QED
    BY <1>1, <2>1 DEF Undefined
<1>6. /\ DOMAIN ops = Nodes /\ ops[t] \in Op /\ taken[t] \in Seq(Row) /\ ops[t].out \in Seq(Row)
      /\ Joins(t, taken[t], ops[t], taken[plan[t].left], taken[plan[t].right])
  BY <1>1, ProductFacts, OpFields
<1>7. PICK e : e = left[i + 1] \o right[j + 1]
  OBVIOUS
<1>8. PICK o : o = [ops[t] EXCEPT !.out = Append(@, e),
                                  !.rightIdx = IF j + 1 >= Len(right) THEN 0 ELSE j + 1,
                                  !.leftIdx = IF j + 1 >= Len(right) THEN i + 1 ELSE i]
  OBVIOUS
<1>9. /\ ops' = [ops EXCEPT ![t] = o]
      /\ UNCHANGED <<plan, tables, stack, returning, batch, rows, status, ended, taken>>
  <2>1. LET op == ops[t]
            wraps == op.rightIdx + 1 >= Len(op.right)
        IN  /\ ops' = [ops EXCEPT ![t] =
                 [op EXCEPT !.out = Append(@, op.left[op.leftIdx + 1] \o op.right[op.rightIdx + 1]),
                            !.rightIdx = IF wraps THEN 0 ELSE @ + 1,
                            !.leftIdx = IF wraps THEN @ + 1 ELSE @]]
            /\ UNCHANGED <<plan, tables, stack, returning, batch, rows, status, ended, taken>>
    BY <1>1, <1>5, PairStep
  <2>2. QED
    BY <1>3, <1>7, <1>8, <2>1
<1>10. /\ o.left = left /\ o.right = right /\ o.side = "ready" /\ o.out = Append(ops[t].out, e)
       /\ o.rightIdx = IF j + 1 >= Len(right) THEN 0 ELSE j + 1
       /\ o.leftIdx = IF j + 1 >= Len(right) THEN i + 1 ELSE i
  <2>1. /\ o.left = ops[t].left /\ o.right = ops[t].right /\ o.side = ops[t].side
        /\ o.out = Append(ops[t].out, e)
        /\ o.rightIdx = IF j + 1 >= Len(right) THEN 0 ELSE j + 1
        /\ o.leftIdx = IF j + 1 >= Len(right) THEN i + 1 ELSE i
    BY <1>6, <1>8 DEF Op
  <2>2. o.left = left /\ o.right = right /\ o.side = "ready"
    <3>1. left = ops[t].left /\ right = ops[t].right
      BY <1>3
    <3>2. QED
      BY <1>1, <2>1, <3>1
  <2>3. QED
    BY <2>1, <2>2
<1>11. (\A n \in Nodes : n # t => ops'[n] = ops[n]) /\ ops'[t] = o
  BY <1>1, <1>6, <1>9
<1>12. taken[t] \o o.out = SubSeq(pairs, 1, k + 1)
  <2>1. e \in Row /\ Append(SubSeq(pairs, 1, k), e) = SubSeq(pairs, 1, k + 1)
    <3>1. /\ left[i + 1] \o right[j + 1] \in Row
          /\ Append(SubSeq(Pairs(left, right), 1, k), left[i + 1] \o right[j + 1])
               = SubSeq(Pairs(left, right), 1, k + 1)
      <4>1. k = i * Len(right) + j
        BY <1>3
      <4>2. QED
        BY <1>4, <4>1, NextPair
    <3>2. pairs = Pairs(left, right)
      BY <1>3
    <3>3. QED
      BY <1>7, <3>1, <3>2
  <2>2. PICK s \in Seq(Row), u \in Seq(Row) : s = taken[t] /\ u = ops[t].out
    BY <1>6
  <2>3. s \o Append(u, e) = Append(s \o u, e)
    BY <2>1, AppendLast
  <2>4. QED
    BY <1>3, <1>10, <2>1, <2>2, <2>3
<1>13. PICK a \in Nat, b \in Nat : a = Len(left) /\ b = Len(right)
  OBVIOUS
<1>14. PICK p \in Nat, q \in Nat :
        /\ p = o.leftIdx /\ q = o.rightIdx
        /\ j + 1 >= b => p = i + 1 /\ q = 0
        /\ j + 1 < b => p = i /\ q = j + 1
  <2>1. /\ o.rightIdx = IF j + 1 >= b THEN 0 ELSE j + 1
        /\ o.leftIdx = IF j + 1 >= b THEN i + 1 ELSE i
    BY <1>10, <1>13
  <2>2. CASE j + 1 >= b
    BY <2>1, <2>2
  <2>3. CASE ~(j + 1 >= b)
    BY <2>1, <2>3
  <2>4. QED
    BY <2>2, <2>3
<1>15. p * b + q = k + 1 /\ (IF p < a THEN q < b ELSE q = 0)
  <2>1. k = i * b + j /\ j < b /\ i < a
    BY <1>3, <1>4, <1>13
  <2>2. CASE j + 1 >= b
    <3>1. j = b - 1 /\ p = i + 1 /\ q = 0
      BY <1>14, <2>1, <2>2
    <3>2. p * b = i * b + b
      BY <3>1
    <3>3. p * b + q = k + 1
      BY <2>1, <3>1, <3>2
    <3>4. QED
      BY <2>1, <3>1, <3>3
  <2>3. CASE j + 1 < b
    <3>1. p = i /\ q = j + 1
      BY <1>14, <2>3
    <3>2. p * b + q = k + 1
      BY <2>1, <3>1
    <3>3. QED
      BY <2>1, <2>3, <3>1, <3>2
  <2>4. QED
    BY <2>2, <2>3
<1>16. Joins(t, taken[t], o, taken[plan[t].left], taken[plan[t].right])
  <2>1. left = taken[plan[t].left] /\ right = taken[plan[t].right]
    BY <1>3, <1>6 DEF Joins
  <2>2. taken[t] \o o.out = SubSeq(Pairs(left, right), 1, o.leftIdx * Len(right) + o.rightIdx)
    BY <1>3, <1>12, <1>13, <1>14, <1>15
  <2>3. QED
    BY <1>3, <1>10, <1>13, <1>14, <1>15, <2>1, <2>2 DEF Joins
<1>17. Progresses(t, taken[t], ops'[t], taken'[plan[t].left], taken'[plan[t].right])
  BY <1>1, <1>9, <1>11, <1>16 DEF Progresses, Products
<1>18. returning' = FALSE /\ Take
  BY <1>1, <1>9 DEF Take, TypeSound, DataSound
<1>19. \A n \in Nodes : AnswersAt(n)'
  BY <1>1, <1>9, <1>11, <1>17, <1>18, MoveAnswers
<1>20. QED
  BY <1>5, <1>19

LEMMA ReturnPairsAnswers ==
    ASSUME NEW t, AnswerStep(t), ReturnPairs
    PROVE  \A n \in Nodes : AnswersAt(n)'
<1>1. /\ plan[t].op \in Products /\ t = Top /\ Node = plan[t] /\ t \in Nodes /\ TypeSound
      /\ ~returning /\ ops[t].side = "ready" /\ ~MorePairs(ops[t]) /\ Return(ops[t].out)
      /\ ops' = [ops EXCEPT ![t] = [ops[t] EXCEPT !.out = <<>>]]
  BY AnswerStepFacts DEF ReturnPairs, Calling, AnswerStep
<1>2. PICK left, right, pairs \in Seq(Row), i, j, k \in Nat : Joined(t, left, right, pairs, i, j, k)
  BY <1>1, JoinedFacts
<1>3. /\ left = Meaning[plan[t].left] /\ left = ops[t].left
      /\ right = Meaning[plan[t].right] /\ right = ops[t].right
      /\ pairs = Meaning[t] /\ i = ops[t].leftIdx /\ j = ops[t].rightIdx
      /\ k <= Len(pairs) /\ (i >= Len(left) => k = Len(pairs))
      /\ taken[t] \o ops[t].out = SubSeq(pairs, 1, k)
  BY <1>2 DEF Joined
<1>4. /\ DOMAIN ops = Nodes /\ ops[t] \in Op /\ taken[t] \in Seq(Row) /\ ops[t].out \in Seq(Row)
      /\ Joins(t, taken[t], ops[t], taken[plan[t].left], taken[plan[t].right])
      /\ Exact[t] \in {"one", "many"} /\ ~Repeats[t]
      /\ Exact[t] = "one" => Len(Meaning[t]) <= BatchSize
  BY <1>1, ProductFacts, OpFields
<1>5. PICK got \in Seq(Row), own \in Seq(Row), all \in Seq(Row) :
        /\ got = taken[t] /\ own = ops[t].out /\ all = got \o own
        /\ Len(all) = Len(got) + Len(own) /\ (own = <<>> => all = got)
  <2>1. PICK got \in Seq(Row), own \in Seq(Row) : got = taken[t] /\ own = ops[t].out
    BY <1>4
  <2>2. got \o own \in Seq(Row) /\ Len(got \o own) = Len(got) + Len(own)
    BY ConcatProperties
  <2>3. got \o <<>> = got
    OBVIOUS
  <2>4. QED
    BY <2>1, <2>2, <2>3
<1>6. Len(all) = k /\ \A x \in 1 .. k : all[x] = pairs[x]
  <2>1. /\ Len(SubSeq(pairs, 1, k)) = k
        /\ \A x \in 1 .. k : SubSeq(pairs, 1, k)[x] = pairs[x]
    BY <1>3, PrefixFacts
  <2>2. all = SubSeq(pairs, 1, k)
    BY <1>3, <1>5
  <2>3. QED
    BY <2>1, <2>2
<1>7. Opens(all, pairs)
  BY <1>3, <1>6 DEF Opens
<1>8. k = Len(pairs) => all = pairs
  BY <1>3, <1>5, <1>6, <1>7, OpensFacts
<1>9. i >= Len(left) \/ Len(own) >= BatchSize
  BY <1>1, <1>3, <1>5, OperatorsAssumption DEF MorePairs
<1>10. Exact[t] = "one" => all = pairs
  <2>1. SUFFICES ASSUME Exact[t] = "one", Len(own) >= BatchSize
                 PROVE  k = Len(pairs)
    BY <1>3, <1>8, <1>9
  <2>2. Len(pairs) <= BatchSize
    BY <1>3, <1>4, <2>1
  <2>3. PICK m \in Nat, n \in Nat : m = Len(pairs) /\ n = Len(own)
    OBVIOUS
  <2>4. PICK g \in Nat : g = Len(got)
    OBVIOUS
  <2>5. k = g + n /\ k <= m
    BY <1>3, <1>5, <1>6, <2>3, <2>4
  <2>6. m <= n
    BY <2>1, <2>2, <2>3, OperatorsAssumption
  <2>7. QED
    BY <2>3, <2>5, <2>6
<1>11. own = <<>> => got = pairs
  <2>1. own = <<>> => i >= Len(left)
    BY <1>9, OperatorsAssumption
  <2>2. QED
    BY <1>3, <1>5, <1>8, <2>1
<1>12. Serves(t, all)
  BY <1>3, <1>7, <1>10 DEF Serves
<1>13. taken' = taken
  BY <1>1 DEF Return, Take
<1>14. PICK o : o = [ops[t] EXCEPT !.out = <<>>]
  OBVIOUS
<1>15. /\ o.left = ops[t].left /\ o.right = ops[t].right /\ o.side = ops[t].side /\ o.out = <<>>
       /\ o.leftIdx = ops[t].leftIdx /\ o.rightIdx = ops[t].rightIdx
  BY <1>4, <1>14 DEF Op
<1>16. (\A n \in Nodes : n # t => ops'[n] = ops[n]) /\ ops'[t] = o /\ ops'[t].side = ops[t].side
  BY <1>1, <1>4, <1>14, <1>15
<1>17. Joins(t, all, o, taken[plan[t].left], taken[plan[t].right])
  <2>1. all \o o.out = taken[t] \o ops[t].out
    BY <1>5, <1>15
  <2>2. QED
    BY <1>4, <1>15, <2>1 DEF Joins
<1>18. Progresses(t, all, ops'[t], taken'[plan[t].left], taken'[plan[t].right])
  BY <1>1, <1>13, <1>16, <1>17 DEF Progresses, Products
<1>19. /\ Return(own) /\ taken[t] \o own = all
       /\ own = <<>> => taken[t] = Meaning[t]
  BY <1>1, <1>3, <1>5, <1>11
<1>20. QED
  BY <1>1, <1>4, <1>12, <1>16, <1>18, <1>19, ReturnAnswers

-----------------------------------------------------------------------------
(* Exact answers: the loop *)

\* A step that changes nothing of what the operators show.
LEMMA SameAnswersAt ==
    ASSUME \A n \in Nodes : AnswersAt(n), UNCHANGED <<plan, tables, ops, ended, taken>>,
           UNCHANGED <<stack, batch, returning>> \/ (~returning /\ ~returning')
    PROVE  \A n \in Nodes : AnswersAt(n)'
<1>1. Nodes' = Nodes /\ Meaning' = Meaning /\ Exact' = Exact /\ Repeats' = Repeats
  BY SameMeaning, SameAnswers
<1>2. \A n : InHand(n)' <=> InHand(n)
  BY DEF InHand, Reading, Node, Top
<1>3. ASSUME NEW n \in Nodes
      PROVE  AnswersAt(n)'
  <2>1. AnswersAt(n)
    OBVIOUS
  <2>2. InHand(n) => batch' = batch
    BY DEF InHand
  <2>3. Out(n)' = Out(n)
    BY <1>2, <2>2 DEF Out
  <2>4. PICK got, out, own, below, beside :
          /\ got = taken[n] /\ out = Out(n) /\ own = ops[n]
          /\ below = taken[plan[n].left] /\ beside = taken[plan[n].right]
    OBVIOUS
  <2>5. /\ Serves(n, got)' <=> Serves(n, got)
        /\ Serves(n, out)' <=> Serves(n, out)
        /\ Progresses(n, out, own, below, beside)' <=> Progresses(n, out, own, below, beside)
    BY SameAnswers
  <2>6. Exact[n] # "no" =>
          /\ Serves(n, taken[n])' /\ Serves(n, Out(n))' /\ (n \in ended' => Out(n)' = Meaning[n])
          /\ Progresses(n, Out(n), ops[n], taken[plan[n].left], taken[plan[n].right])'
    BY <2>1, <2>3, <2>4, <2>5 DEF AnswersAt
  <2>7. QED
    BY <1>1, <1>2, <2>1, <2>2, <2>6 DEF AnswersAt
<1>4. QED
  BY <1>3

\* The loop takes the batch of the root.
LEMMA CollectAnswers ==
    ASSUME TypeSound, Claimed, LoopEnds, rows = taken[1], \A n \in Nodes : AnswersAt(n), Collect
    PROVE  LoopEnds' /\ rows' = taken'[1] /\ \A n \in Nodes : AnswersAt(n)'
<1>1. /\ status = "running" /\ stack = <<>> /\ returning
      /\ UNCHANGED <<plan, tables, ops, batch, ended>>
      /\ plan \in Plans /\ Nodes' = Nodes /\ batch \in Seq(Row) /\ taken \in [Nodes -> Seq(Row)]
  BY DEF Collect, LoopEnds, TypeSound, PullSound, DataSound, Nodes
<1>2. 1 \in Nodes /\ \A n : InHand(n) <=> n = 1
  BY <1>1, PlanFacts DEF InHand
<1>3. CASE batch = <<>>
  <2>1. status' = "done" /\ UNCHANGED <<stack, returning, taken, rows>>
    BY <1>1, <1>3 DEF Collect
  <2>2. 1 \in ended'
    BY <1>1, <1>2, <1>3 DEF AnswersAt
  <2>3. LoopEnds'
    BY <2>1, <2>2 DEF LoopEnds
  <2>4. QED
    BY <1>1, <2>1, <2>3, SameAnswersAt
<1>4. CASE batch # <<>>
  <2>1. /\ status' = "running" /\ stack' = <<1>> /\ returning' = FALSE
        /\ taken' = [taken EXCEPT ![1] = Capped(@ \o batch)] /\ rows' = Capped(rows \o batch)
    BY <1>1, <1>4 DEF Collect
  <2>2. LoopEnds'
    BY <2>1 DEF LoopEnds
  <2>3. taken'[1] = Capped(taken[1] \o batch) /\ \A n \in Nodes : n # 1 => taken'[n] = taken[n]
    BY <1>1, <1>2, <2>1
  <2>4. taken'[1] = Out(1)
    <3>1. Out(1) = taken[1] \o batch
      BY <1>2 DEF Out
    <3>2. Out(1) \in Seq(Row) /\ Meaning[1] \in Seq(Row) /\ Len(Meaning[1]) <= MaxRows
      BY <1>2, ClaimedFacts
    <3>3. Len(Out(1)) <= Len(Meaning[1])
      BY <1>2 DEF AnswersAt, Serves, Opens, Claimed
    <3>4. Len(Out(1)) <= MaxRows
      BY <3>2, <3>3, OperatorsAssumption
    <3>5. QED
      BY <2>3, <3>1, <3>2, <3>4, CappedFacts
  <2>5. Meaning' = Meaning /\ Exact' = Exact /\ Repeats' = Repeats
    BY <1>1, SameMeaning, SameAnswers
  <2>6. \A n : ~InHand(n)'
    BY <2>1 DEF InHand
  <2>7. ASSUME NEW n \in Nodes
        PROVE  AnswersAt(n)'
    <3>1. /\ plan[n].op # "scan" => taken'[plan[n].left] = taken[plan[n].left]
          /\ plan[n].op \in Products => taken'[plan[n].right] = taken[plan[n].right]
      BY <1>1, <1>2, <2>3, Shape
    <3>2. taken[n] \in Seq(Row) /\ Out(n) \in Seq(Row)
      BY <1>1, ClaimedFacts
    <3>3. taken'[n] = Out(n)
      <4>1. n # 1 => Out(n) = taken[n]
        <5>1. taken[n] \o <<>> = taken[n]
          BY <3>2
        <5>2. QED
          BY <1>2, <5>1 DEF Out
      <4>2. QED
        BY <2>3, <2>4, <4>1
    <3>4. Out(n)' = Out(n)
      <4>1. Out(n)' = taken'[n] \o <<>>
        BY <2>6 DEF Out
      <4>2. QED
        BY <3>2, <3>3, <4>1
    <3>5. ASSUME Exact[n] # "no"
          PROVE  /\ Serves(n, taken[n])' /\ Serves(n, Out(n))' /\ (n \in ended' => Out(n)' = Meaning[n])
                 /\ Progresses(n, Out(n), ops[n], taken[plan[n].left], taken[plan[n].right])'
      <4>1. /\ Serves(n, Out(n)) /\ (n \in ended => Out(n) = Meaning[n])
            /\ Progresses(n, Out(n), ops[n], taken[plan[n].left], taken[plan[n].right])
        BY <3>5 DEF AnswersAt
      <4>2. Progresses(n, Out(n), ops[n], taken'[plan[n].left], taken'[plan[n].right])
        BY <3>1, <4>1 DEF Progresses, Products
      <4>3. PICK out, own, below, beside :
              /\ out = Out(n) /\ own = ops[n]
              /\ below = taken'[plan[n].left] /\ beside = taken'[plan[n].right]
        OBVIOUS
      <4>4. Serves(n, out)' /\ Progresses(n, out, own, below, beside)'
        BY <1>1, <4>1, <4>2, <4>3, SameAnswers
      <4>5. QED
        BY <1>1, <3>3, <3>4, <4>1, <4>3, <4>4
    <3>6. QED
      BY <2>5, <2>6, <3>5 DEF AnswersAt
  <2>8. QED
    BY <2>1, <2>2, <2>3, <2>7
<1>5. QED
  BY <1>3, <1>4

LEMMA InitAnswers == Init => AnswerSound
<1> SUFFICES ASSUME Init, Claimed
              PROVE  /\ LoopEnds /\ status # "undefined" /\ rows = taken[1] /\ stack = <<>>
                     /\ \A n \in Nodes : AnswersAt(n)
  <2>1. Len(<<>>) = 0
    OBVIOUS
  <2>2. QED
    BY <2>1 DEF AnswerSound, StackGood
<1>1. LoopEnds /\ status # "undefined" /\ stack = <<>>
  BY DEF Init, LoopEnds
<1>2. /\ plan \in Plans /\ Linkable /\ tables \in [Tables -> Contents] /\ 1 \in Nodes
      /\ \A n \in Nodes : taken[n] = <<>> /\ ops[n] = Fresh /\ n \notin ended /\ ~InHand(n)
      /\ rows = <<>> /\ TypeSound
  <2>1. TypeSound
    BY InitType, InitPullSound DEF TypeSound
  <2>2. QED
    BY <2>1, PlanFacts DEF Init, InHand, Claimed
<1>3. ASSUME NEW n \in Nodes
      PROVE  AnswersAt(n)
  <2>1. Out(n) = <<>>
    <3>1. <<>> \o <<>> = <<>>
      BY RowFacts
    <3>2. QED
      BY <1>2, <3>1 DEF Out
  <2>2. Meaning[n] \in Seq(Row) /\ <<>> \in Seq(Row)
    BY <1>2, ClaimedFacts, RowFacts
  <2>3. Serves(n, <<>>)
    BY <2>2, OpensFacts DEF Serves
  <2>4. ASSUME Exact[n] # "no"
        PROVE  Progresses(n, <<>>, Fresh, taken[plan[n].left], taken[plan[n].right])
    <3>1. /\ plan[n].op # "scan" => plan[n].left \in Nodes /\ taken[plan[n].left] = <<>>
          /\ plan[n].op \in Products => plan[n].right \in Nodes /\ taken[plan[n].right] = <<>>
          /\ plan[n] \in PlanNode
      BY <1>2, Shape
    <3>2. plan[n].op = "project" => <<>> = Projection(plan[n].cols, Columns[plan[n].left], <<>>)
      <4>1. Len(Projection(plan[n].cols, Columns[plan[n].left], <<>>)) = 0
        BY <2>2, <3>1, ProjectionType DEF PlanNode
      <4>2. Projection(plan[n].cols, Columns[plan[n].left], <<>>) \in Seq(Row)
        BY <2>2, <3>1, ProjectionType DEF PlanNode
      <4>3. QED
        BY <4>1, <4>2
    <3>3. plan[n].op = "limit" => Fills(n, <<>>, Fresh, <<>>)
      <4>1. SUFFICES ASSUME plan[n].op = "limit", Exact[n] = "many"
                     PROVE  <<>> = WithinLimit(n, <<>>) /\ Fresh.returned = Len(<<>>)
        BY DEF Fills, Fresh
      <4>2. plan[n].offset = 0 /\ plan[n].limit \in Int
        BY <1>2, <3>1, <4>1, ExactIs DEF PlanNode
      <4>3. WithinLimit(n, <<>>) \in Seq(Row) /\ Len(WithinLimit(n, <<>>)) = 0
        <5>1. PICK none \in Seq(Row) : none = <<>> /\ Len(none) = 0
          BY <2>2
        <5>2. /\ WithinLimit(n, none) \in Seq(Row)
              /\ Len(WithinLimit(n, none)) =
                   IF plan[n].limit >= 0 /\ plan[n].limit < Len(none) THEN plan[n].limit ELSE Len(none)
          BY <4>2, FirstRows
        <5>3. QED
          BY <4>2, <5>1, <5>2
      <4>4. QED
        BY <4>3 DEF Fresh
    <3>4. plan[n].op \in Products => Joins(n, <<>>, Fresh, <<>>, <<>>)
      <4>1. SUFFICES ASSUME plan[n].op \in Products
                     PROVE  Joins(n, <<>>, Fresh, <<>>, <<>>)
        OBVIOUS
      <4>2. PICK left \in Seq(Row), right \in Seq(Row) :
              left = Meaning[plan[n].left] /\ right = Meaning[plan[n].right]
        BY <1>2, <3>1, <4>1, ClaimedFacts DEF Products
      <4>3. SubSeq(Pairs(left, right), 1, 0) = <<>> /\ 0 * Len(right) + 0 = 0
        <5>1. PICK pairs \in Seq(Row) : pairs = Pairs(left, right)
          BY PairsFacts
        <5>2. SubSeq(pairs, 1, 0) \in Seq(Row) /\ Len(SubSeq(pairs, 1, 0)) = 0
          BY PrefixFacts
        <5>3. QED
          BY <5>1, <5>2
      <4>4. <<>> \o <<>> = <<>>
        BY RowFacts
      <4>5. QED
        BY <4>2, <4>3, <4>4 DEF Joins, Fresh
    <3>5. QED
      BY <3>1, <3>2, <3>3, <3>4 DEF Progresses, Products
  <2>5. QED
    BY <1>2, <2>1, <2>3, <2>4 DEF AnswersAt
<1>4. QED
  BY <1>1, <1>2, <1>3

LEMMA PushGood ==
    ASSUME TypeSound, StackGood, plan' = plan, tables' = tables, NEW c \in Nodes, Good(c),
           stack' = Append(stack, c)
    PROVE  StackGood'
<1>1. /\ stack \in Seq(Nodes) /\ \A n : Good(n)' <=> Good(n)
  BY SameAnswers DEF TypeSound, PullSound, PathSound
<1>2. PICK k \in Nat : k = Len(stack)
  BY <1>1
<1>3. /\ Len(stack') = k + 1 /\ stack'[k + 1] = c
      /\ \A i \in 1 .. k : stack'[i] = stack[i]
  BY <1>1, <1>2, AppendProperties
<1>4. ASSUME NEW i \in 1 .. k + 1
      PROVE  Good(stack'[i])
  <2>1. CASE i \in 1 .. k
    BY <1>2, <1>3, <2>1 DEF StackGood
  <2>2. CASE i = k + 1
    BY <1>3, <2>2
  <2>3. i \in 1 .. k \/ i = k + 1
    OBVIOUS
  <2>4. QED
    BY <2>1, <2>2, <2>3
<1>5. PICK s : s = stack'
  OBVIOUS
<1>6. \A i \in 1 .. Len(s) : Good(s[i])'
  BY <1>1, <1>3, <1>4, <1>5
<1>7. QED
  BY <1>5, <1>6 DEF StackGood

LEMMA PopGood ==
    ASSUME TypeSound, StackGood, plan' = plan, tables' = tables, stack # <<>>, stack' = Front(stack)
    PROVE  StackGood'
<1>1. /\ stack \in Seq(Nodes) /\ \A n : Good(n)' <=> Good(n)
  BY SameAnswers DEF TypeSound, PullSound, PathSound
<1>2. PICK k \in Nat : k = Len(stack) /\ k # 0
  BY <1>1
<1>3. Len(stack') = k - 1 /\ \A i \in 1 .. k - 1 : stack'[i] = stack[i]
  BY <1>1, <1>2, StackFacts
<1>4. \A i \in 1 .. k - 1 : i \in 1 .. k
  BY <1>2
<1>5. \A i \in 1 .. k - 1 : Good(stack'[i])
  BY <1>2, <1>3, <1>4 DEF StackGood
<1>6. PICK s : s = stack'
  OBVIOUS
<1>7. \A i \in 1 .. Len(s) : Good(s[i])'
  BY <1>1, <1>3, <1>5, <1>6
<1>8. QED
  BY <1>6, <1>7 DEF StackGood

LEMMA OperatorAnswers ==
    ASSUME NEW t, AnswerStep(t),
           \/ ScanNext \/ PullInput \/ PassEnd \/ FilterRows \/ NaiveKeeps \/ ProjectRows
           \/ LimitNext \/ LimitRows \/ PullLeft \/ DrainLeft \/ DrainRight \/ PairRows \/ ReturnPairs
    PROVE  /\ ~Undefined
           /\ \A n \in Nodes : AnswersAt(n)'
           /\ \/ \E c : Pull(c) /\ c \in Nodes /\ Good(c)
              \/ \E r : Return(r)
              \/ /\ UNCHANGED <<plan, tables, stack, rows, status>> /\ returning' = FALSE
                 /\ Take
<1>1. status = "running" /\ t = Top /\ Node = plan[t]
  BY AnswerStepFacts DEF AnswerStep
<1>2. ASSUME \E r : Return(r)
      PROVE  ~Undefined
  BY <1>1, <1>2 DEF Return, Undefined
<1>3. ASSUME \E c : Pull(c)
      PROVE  ~Undefined
  BY <1>1, <1>3 DEF Pull, Undefined
<1>4. CASE ScanNext
  BY <1>2, <1>4, ScanAnswers DEF ScanNext
<1>5. CASE PullInput \/ LimitNext
  <2>1. CASE LimitNext /\ LimitReached
    <3>1. Return(<<>>)
      BY <2>1 DEF LimitNext
    <3>2. QED
      BY <1>2, <2>1, <3>1, LimitReachedAnswers
  <2>2. CASE PullInput \/ (LimitNext /\ ~LimitReached)
    <3>1. Pull(plan[t].left)
      BY <1>1, <2>2 DEF PullInput, LimitNext
    <3>2. plan[t].op # "scan"
      BY <1>1, <2>2 DEF PullInput, LimitNext, Calling
    <3>3. plan[t].left \in Nodes
      BY <3>2, AnswerStepFacts
    <3>4. QED
      BY <1>3, <2>2, <3>1, <3>3, PullAnswers
  <2>3. QED
    BY <1>5, <2>1, <2>2
<1>6. CASE PassEnd
  BY <1>2, <1>6, PassAnswers DEF PassEnd
<1>7. CASE FilterRows \/ NaiveKeeps
  <2>1. \E r : Return(r)
    BY <1>7 DEF FilterRows, NaiveKeeps
  <2>2. QED
    BY <1>2, <1>7, <2>1, FilterAnswers
<1>8. CASE ProjectRows
  <2>1. ~Undefined /\ \A n \in Nodes : AnswersAt(n)'
    BY <1>8, ProjectAnswers
  <2>2. \E r : Return(r)
    BY <1>8, <2>1 DEF ProjectRows
  <2>3. QED
    BY <2>1, <2>2
<1>9. CASE LimitRows
  <2>1. \E r : Return(r)
    BY <1>9 DEF LimitRows
  <2>2. QED
    BY <1>2, <1>9, <2>1, LimitRowsAnswers
<1>10. CASE PullLeft \/ DrainLeft \/ DrainRight
  <2>1. plan[t].op \in Products
    BY <1>1, <1>10 DEF PullLeft, DrainLeft, DrainRight, Calling, Returned
  <2>2. /\ plan[t].left \in Nodes /\ plan[t].right \in Nodes
        /\ Good(plan[t].left) /\ Good(plan[t].right)
    BY <2>1, ProductFacts, GoodChildren
  <2>3. \/ Pull(plan[t].left) \/ Pull(plan[t].right)
        \/ UNCHANGED <<plan, tables, stack, rows, status>> /\ returning' = FALSE /\ Take
    BY <1>1, <1>10 DEF PullLeft, DrainLeft, DrainRight
  <2>4. status' = status
    BY <2>3 DEF Pull
  <2>5. ~Undefined
    BY <1>1, <2>4 DEF Undefined
  <2>6. \A n \in Nodes : AnswersAt(n)'
    BY <1>10, DrainAnswers
  <2>7. QED
    BY <2>2, <2>3, <2>5, <2>6
<1>11. CASE PairRows
  <2>1. ~Undefined /\ \A n \in Nodes : AnswersAt(n)'
    BY <1>11, PairAnswers
  <2>2. UNCHANGED <<plan, tables, stack, returning, rows, status, taken>> /\ ~returning
    BY <1>11, <2>1 DEF PairRows, Calling
  <2>3. returning' = FALSE /\ Take
    BY <2>2 DEF AnswerStep, TypeSound, DataSound, Take
  <2>4. QED
    BY <2>1, <2>2, <2>3
<1>12. CASE ReturnPairs
  BY <1>2, <1>12, ReturnPairsAnswers DEF ReturnPairs
<1>13. QED
  BY <1>4, <1>5, <1>6, <1>7, <1>8, <1>9, <1>10, <1>11, <1>12

LEMMA NextAnswerSound == TypeSound /\ AnswerSound /\ [Next]_vars => AnswerSound'
<1> SUFFICES ASSUME TypeSound, AnswerSound, [Next]_vars, Claimed'
              PROVE  /\ LoopEnds' /\ status' # "undefined" /\ rows' = taken'[1]
                     /\ StackGood' /\ \A n \in Nodes' : AnswersAt(n)'
  BY DEF AnswerSound
<1>1. plan' = plan /\ tables' = tables /\ Nodes' = Nodes
  BY DEF Next, vars, Build, Link, ScanNext, PullInput, PassEnd, FilterRows, NaiveKeeps,
         ProjectRows, LimitNext, LimitRows, PullLeft, DrainLeft, DrainRight, PairRows,
         ReturnPairs, Collect, Stopped, Pull, Return, Undefined, Nodes
<1>2. /\ Claimed /\ LoopEnds /\ status # "undefined" /\ rows = taken[1] /\ StackGood
      /\ \A n \in Nodes : AnswersAt(n)
  <2>1. Claimed
    BY <1>1, SameAnswers
  <2>2. QED
    BY <2>1 DEF AnswerSound
<1>3. /\ plan \in Plans /\ 1 \in Nodes /\ Good(1) /\ (\A n : Good(n)' <=> Good(n))
      /\ stack \in Seq(Nodes)
  BY <1>1, <1>2, PlanFacts, SameAnswers DEF TypeSound, PullSound, PathSound, Claimed, Good
<1>4. stack' = <<1>> => StackGood'
  <2>1. \A i \in 1 .. Len(<<1>>) : Good(<<1>>[i])'
    <3>1. Len(<<1>>) = 1 /\ <<1>>[1] = 1
      OBVIOUS
    <3>2. \A i \in 1 .. 1 : i = 1
      OBVIOUS
    <3>3. QED
      BY <1>3, <3>1, <3>2
  <2>2. QED
    BY <2>1 DEF StackGood
<1>5. ASSUME stack' = stack
      PROVE  StackGood'
  BY <1>2, <1>3, <1>5 DEF StackGood
<1>6. CASE Build \/ Link
  <2>1. /\ UNCHANGED <<plan, tables, ops, returning, ended, taken, rows>> /\ ~returning
        /\ (status' = "running" /\ stack' = <<1>>) \/ (status' = "failed" /\ stack' = stack)
    BY <1>2, <1>6 DEF Build, Link, LoopEnds
  <2>2. LoopEnds'
    BY <2>1 DEF LoopEnds
  <2>3. QED
    BY <1>1, <1>2, <1>4, <1>5, <2>1, <2>2, SameAnswersAt
<1>7. CASE Collect
  <2>1. LoopEnds' /\ rows' = taken'[1] /\ \A n \in Nodes : AnswersAt(n)'
    BY <1>2, <1>7, CollectAnswers
  <2>2. status' # "undefined" /\ (stack' = stack \/ stack' = <<1>>)
    BY <1>7 DEF Collect
  <2>3. QED
    BY <1>1, <1>4, <1>5, <2>1, <2>2
<1>8. CASE Stopped \/ UNCHANGED vars
  <2>1. UNCHANGED <<plan, tables, ops, stack, returning, batch, rows, status, ended, taken>>
    BY <1>8 DEF Stopped, vars
  <2>2. LoopEnds'
    BY <1>2, <2>1 DEF LoopEnds
  <2>3. QED
    BY <1>1, <1>2, <1>5, <2>1, <2>2, SameAnswersAt
<1>9. CASE ScanNext \/ PullInput \/ PassEnd \/ FilterRows \/ NaiveKeeps \/ ProjectRows
             \/ LimitNext \/ LimitRows \/ PullLeft \/ DrainLeft \/ DrainRight \/ PairRows
             \/ ReturnPairs
  <2>1. status = "running" /\ stack # <<>>
    BY <1>9 DEF ScanNext, PullInput, PassEnd, FilterRows, NaiveKeeps, ProjectRows,
           LimitNext, LimitRows, PullLeft, DrainLeft, DrainRight, PairRows,
           ReturnPairs, Calling, Returned
  <2>2. PICK t \in Nodes : AnswerStep(t)
    <3>1. Top \in Nodes /\ Good(Top)
      <4>1. Len(stack) \in Nat \ {0} /\ Top = stack[Len(stack)] /\ Top \in Nodes
        BY <1>3, <2>1, StackFacts DEF Top
      <4>2. Len(stack) \in 1 .. Len(stack)
        BY <4>1
      <4>3. QED
        BY <1>2, <4>1, <4>2 DEF StackGood
    <3>2. QED
      BY <1>2, <2>1, <3>1 DEF AnswerStep
  <2>3. /\ \A n \in Nodes : AnswersAt(n)'
        /\ \/ \E c : Pull(c) /\ c \in Nodes /\ Good(c)
           \/ \E r : Return(r)
           \/ UNCHANGED <<plan, tables, stack, rows, status>> /\ returning' = FALSE /\ Take
    BY <1>9, <2>2, OperatorAnswers
  <2>4. status' = status /\ rows' = rows /\ Take
    BY <2>3 DEF Pull, Return
  <2>5. taken'[1] = taken[1]
    <3>1. 1 \notin Children(plan, t)
      BY <1>3, <2>2, PlanFacts
    <3>2. returning => plan[t].op # "scan"
      <4>1. plan[t].op = "scan" => ScanNext
        BY <1>9, <2>2, AnswerStepFacts DEF ScanNext, PullInput, PassEnd, FilterRows, NaiveKeeps,
               ProjectRows, LimitNext, LimitRows, PullLeft, DrainLeft, DrainRight, PairRows,
               ReturnPairs, Calling, Returned, Products
      <4>2. QED
        BY <4>1 DEF ScanNext, Calling
    <3>3. QED
      BY <1>3, <2>2, <2>4, <3>1, <3>2, TakenIs
  <2>6. StackGood'
    <3>1. CASE \E c : Pull(c) /\ c \in Nodes /\ Good(c)
      BY <1>1, <1>2, <3>1, PushGood DEF Pull
    <3>2. CASE \E r : Return(r)
      BY <1>1, <1>2, <2>1, <3>2, PopGood DEF Return
    <3>3. QED
      BY <1>5, <2>3, <3>1, <3>2
  <2>7. stack' = <<>> => returning'
    <3>1. ASSUME NEW c \in Nodes
          PROVE  Append(stack, c) # <<>>
      BY <1>3, AppendProperties
    <3>2. QED
      BY <2>1, <2>3, <3>1 DEF Pull, Return
  <2>8. LoopEnds'
    BY <2>1, <2>4, <2>7 DEF LoopEnds
  <2>9. QED
    BY <1>1, <1>2, <2>3, <2>4, <2>5, <2>6, <2>8
<1>10. QED
  BY <1>1, <1>6, <1>7, <1>8, <1>9 DEF Next

\* Once the pull loop of execute has ended, a query of the plans that Exact admits
\* has collected exactly the rows SQL gives it, in order, and nothing undefined
\* was done: a limit stops a scan that begins again for ever on the row it must,
\* a product pairs the batches of its two sides without losing, repeating or
\* reordering a pair, and a projection or a filter above them keeps each row that
\* SQL keeps, however the batches fall.
THEOREM AnswersExactHolds == Spec => []AnswersExact
<1>1. TypeSound /\ AnswerSound => AnswersExact
  <2>1. SUFFICES ASSUME TypeSound, AnswerSound, status \in {"done", "undefined"},
                        ProjectsRight, Exact[1] # "no", Fits
                 PROVE  status = "done" /\ rows = Meaning[1]
    BY DEF AnswersExact
  <2>2. Claimed
    BY <2>1 DEF Claimed, TypeSound, DataSound
  <2>3. /\ status = "done" /\ rows = taken[1] /\ 1 \in ended /\ 1 \in Nodes /\ AnswersAt(1)
        /\ taken[1] \in Seq(Row)
    BY <2>1, <2>2, PlanFacts, ClaimedFacts DEF AnswerSound, LoopEnds, TypeSound, PullSound
  <2>4. Out(1) = Meaning[1]
    BY <2>1, <2>3 DEF AnswersAt
  <2>5. Out(1) = taken[1]
    <3>1. InHand(1) => batch = <<>>
      BY <2>1, <2>3 DEF TypeSound, PullSound, EndedSound, InHand
    <3>2. taken[1] \o <<>> = taken[1]
      BY <2>3
    <3>3. QED
      BY <3>1, <3>2 DEF Out
  <2>6. QED
    BY <2>3, <2>4, <2>5
<1>2. Spec => []AnswerSound
  <2>1. Spec => []TypeSound
    BY TypeSoundHolds
  <2>2. QED
    BY <2>1, InitAnswers, NextAnswerSound, PTL DEF Spec
<1>3. QED
  BY <1>1, <1>2, TypeSoundHolds, PTL

-----------------------------------------------------------------------------
(* Rows that SQL could give, of every query *)

LEMMA PossibleUnfold ==
    ASSUME plan \in Plans, Linkable, tables \in [Tables -> Contents]
    PROVE  \A n \in Nodes : Possible[n] = PossibleOf(Possible, n)
<1> DEFINE V == SUBSET Row
           F == [n \in Nodes |-> [f \in [Nodes -> V] |-> PossibleOf(f, n)]]
           N == Len(plan)
<1>1. N \in Nat /\ Nodes = 1 .. N /\ V # {}
  BY Shape
<1>2. ASSUME NEW n \in Nodes, NEW f \in [Nodes -> V]
      PROVE  PossibleOf(f, n) \in V
  <2> SUFFICES Made(f, n) \subseteq Row
    BY DEF PossibleOf
  <2>1. /\ plan[n].op # "scan" => f[plan[n].left] \subseteq Row
        /\ plan[n].op \in Products => f[plan[n].right] \subseteq Row
        /\ plan[n] \in PlanNode
    BY Shape
  <2>2. CASE plan[n].op = "scan"
    <3>1. tables[plan[n].table] \in Seq(Row)
      BY <2>2, CatalogAssumption DEF Linkable, TablesKnown, Row
    <3>2. Range(tables[plan[n].table]) \subseteq Row
      BY <3>1 DEF Range
    <3>3. QED
      BY <2>2, <3>2 DEF Made, Products
  <2>3. CASE plan[n].op = "project"
    <3>1. plan[n].cols \in Seq(STRING)
      BY <2>1 DEF PlanNode
    <3>2. \A row \in f[plan[n].left] : Projected(plan[n].cols, Columns[plan[n].left], row) \in Row
      BY <2>1, <2>3, <3>1, ProjectedType
    <3>3. QED
      BY <2>3, <3>2 DEF Made, Products
  <2>4. CASE plan[n].op \in Products
    <3>1. Together(f[plan[n].left], f[plan[n].right]) \subseteq Row
      BY <2>1, <2>4, RowFacts DEF Products, Together
    <3>2. QED
      BY <2>4, <3>1 DEF Made, Products
  <2>5. CASE plan[n].op \notin {"scan", "project"} \cup Products
    BY <2>1, <2>5 DEF Made
  <2>6. QED
    BY <2>2, <2>3, <2>4, <2>5
<1>3. F \in [1 .. N -> [[1 .. N -> V] -> V]]
  BY <1>1, <1>2
<1>4. LooksAhead(F, N, V)
  <2>1. ASSUME NEW n \in Nodes, NEW f \in [Nodes -> V], NEW g \in [Nodes -> V],
               \A m \in Nodes : m > n => f[m] = g[m]
        PROVE  PossibleOf(f, n) = PossibleOf(g, n)
    <3> SUFFICES Made(f, n) = Made(g, n)
      BY DEF PossibleOf
    <3>1. /\ plan[n].op # "scan" => f[plan[n].left] = g[plan[n].left]
          /\ plan[n].op \in Products => f[plan[n].right] = g[plan[n].right]
      BY <2>1, Shape
    <3>2. CASE plan[n].op = "scan"
      BY <3>2 DEF Made, Products
    <3>3. CASE plan[n].op \in Products
      BY <3>1, <3>3 DEF Made, Products
    <3>4. CASE plan[n].op \notin Products /\ plan[n].op # "scan"
      BY <3>1, <3>4 DEF Made
    <3>5. QED
      BY <3>2, <3>3, <3>4
  <2>2. QED
    BY <1>1, <2>1 DEF LooksAhead
<1>5. PICK f \in [1 .. N -> V] : Unfolds(f, F, N, 1)
  <2> HIDE DEF F, V, N
  <2>1. QED
    BY <1>1, <1>3, <1>4, Recursion
<1>6. f = [n \in Nodes |-> PossibleOf(f, n)]
  BY <1>1, <1>5 DEF Unfolds
<1>7. Possible = [n \in Nodes |-> PossibleOf(Possible, n)]
  BY <1>6 DEF Possible
<1>8. QED
  BY <1>7

\* The queries that OnlyMeantRows speaks of.
Decided == Linkable /\ ProjectsRight /\ ConditionsRight

\* The rows among those that the operator n could give.
May(n, s) == \A i \in DOMAIN s : s[i] \in Possible[n]

\* What a product keeps are rows of its children, and pairs of them.
KeepsPossible(n, op) ==
    plan[n].op \in Products =>
        May(plan[n].left, op.left) /\ May(plan[n].right, op.right) /\ May(n, op.out)

RowsMeant ==
    /\ status = "new" => ~returning
    /\ status = "running" /\ stack = <<>> => returning
    /\ May(1, rows)
    /\ \A n \in Nodes : InHand(n) => May(n, batch)
    /\ \A n \in Nodes : KeepsPossible(n, ops[n])

MeantSound == Decided => RowsMeant

\* A step that leaves the plan and the tables alone leaves what is possible alone.
LEMMA SamePossible ==
    ASSUME plan' = plan, tables' = tables
    PROVE  /\ Nodes' = Nodes /\ Possible' = Possible /\ (Decided' <=> Decided)
           /\ \A n, s : May(n, s)' <=> May(n, s)
           /\ \A n, op : KeepsPossible(n, op)' <=> KeepsPossible(n, op)
<1>1. /\ Nodes' = Nodes /\ (Linkable' <=> Linkable) /\ Columns' = Columns
  BY SameMeaning
<1>2. BaseTable' = BaseTable
  BY <1>1 DEF BaseTable
<1>3. Possible' = Possible
  BY <1>1 DEF Possible, PossibleOf, Made
<1>4. (ProjectsRight' <=> ProjectsRight) /\ (ConditionsRight' <=> ConditionsRight)
  BY <1>1, <1>2, <1>3 DEF ProjectsRight, Resolved, Names, ConditionsRight, Decides
<1>5. Decided' <=> Decided
  BY <1>1, <1>4 DEF Decided
<1>6. \A n, s : May(n, s)' <=> May(n, s)
  BY <1>3 DEF May
<1>7. QED
  BY <1>1, <1>3, <1>5, <1>6 DEF KeepsPossible

\* Sequences of possible rows, put together or cut.
LEMMA MayFacts ==
    ASSUME NEW n
    PROVE  /\ May(n, <<>>)
           /\ \A s, t \in Seq(Row) : May(n, s) /\ May(n, t) => May(n, Capped(s \o t))
           /\ \A s \in Seq(Row), x \in Row : May(n, s) /\ x \in Possible[n] => May(n, Append(s, x))
           /\ \A s \in Seq(Row), m \in Nat : May(n, s) /\ m <= Len(s) => May(n, SubSeq(s, 1, m))
<1>1. May(n, <<>>)
  BY DEF May
<1>2. ASSUME NEW s \in Seq(Row), NEW m \in Nat, May(n, s), m <= Len(s)
      PROVE  May(n, SubSeq(s, 1, m))
  <2>1. /\ SubSeq(s, 1, m) \in Seq(Row) /\ Len(SubSeq(s, 1, m)) = m
        /\ \A i \in 1 .. m : SubSeq(s, 1, m)[i] = s[i]
    BY <1>2, PrefixFacts
  <2>2. \A i \in 1 .. m : i \in 1 .. Len(s)
    BY <1>2
  <2>3. QED
    BY <1>2, <2>1, <2>2 DEF May
<1>3. ASSUME NEW s \in Seq(Row), NEW t \in Seq(Row), May(n, s), May(n, t)
      PROVE  May(n, Capped(s \o t))
  <2>1. PICK r \in Seq(Row) :
          /\ r = s \o t /\ Len(r) = Len(s) + Len(t)
          /\ \A i \in 1 .. Len(s) + Len(t) : r[i] = IF i <= Len(s) THEN s[i] ELSE t[i - Len(s)]
    BY ConcatFacts
  <2>2. May(n, r)
    <3>1. ASSUME NEW i \in 1 .. Len(s) + Len(t)
          PROVE  r[i] \in Possible[n]
      <4>1. CASE i <= Len(s)
        BY <1>3, <2>1, <4>1 DEF May
      <4>2. CASE ~(i <= Len(s))
        <5>1. i - Len(s) \in 1 .. Len(t)
          BY <4>2
        <5>2. QED
          BY <1>3, <2>1, <4>2, <5>1 DEF May
      <4>3. QED
        BY <4>1, <4>2
    <3>2. QED
      BY <2>1, <3>1 DEF May
  <2>3. PICK m \in Nat : m = (IF Len(r) < MaxRows THEN Len(r) ELSE MaxRows) /\ m <= Len(r)
    BY OperatorsAssumption
  <2>4. QED
    BY <1>2, <2>1, <2>2, <2>3 DEF Capped
<1>4. ASSUME NEW s \in Seq(Row), NEW x \in Row, May(n, s), x \in Possible[n]
      PROVE  May(n, Append(s, x))
  <2>1. /\ Append(s, x) \in Seq(Row) /\ Len(Append(s, x)) = Len(s) + 1
        /\ Append(s, x)[Len(s) + 1] = x /\ \A i \in 1 .. Len(s) : Append(s, x)[i] = s[i]
    BY AppendProperties
  <2>2. \A i \in 1 .. Len(s) + 1 : i \in 1 .. Len(s) \/ i = Len(s) + 1
    OBVIOUS
  <2>3. QED
    BY <1>4, <2>1, <2>2 DEF May
<1>5. QED
  BY <1>1, <1>2, <1>3, <1>4

\* What is known when the innermost operator takes a step.
MeantStep(t) ==
    /\ TypeSound
    /\ t \in Nodes /\ t = Top
    /\ status = "running" /\ stack # <<>>
    /\ Decided
    /\ RowsMeant

LEMMA MeantStepFacts ==
    ASSUME NEW t, MeantStep(t)
    PROVE  /\ t \in Nodes /\ plan \in Plans /\ Linkable /\ tables \in [Tables -> Contents] /\ ProjectsRight
           /\ batch \in Seq(Row) /\ Node = plan[t] /\ plan[t] \in PlanNode
           /\ ops[t] \in Op /\ DOMAIN ops = Nodes
           /\ plan[t].op # "scan" => plan[t].left \in Nodes
           /\ plan[t].op \in Products => plan[t].right \in Nodes
           /\ returning /\ plan[t].op # "scan" => May(Reading, batch)
           /\ KeepsPossible(t, ops[t])
           /\ Possible[t] = PossibleOf(Possible, t)
<1>1. /\ TypeSound /\ t \in Nodes /\ t = Top /\ status = "running" /\ stack # <<>>
      /\ Decided /\ RowsMeant
  BY DEF MeantStep
<1>2. /\ plan \in Plans /\ Linkable /\ tables \in [Tables -> Contents] /\ ProjectsRight
      /\ batch \in Seq(Row) /\ Node = plan[t] /\ plan[t] \in PlanNode
      /\ ops[t] \in Op /\ DOMAIN ops = Nodes
  BY <1>1, TopSound DEF TypeSound, PullSound, DataSound, Decided, Node, OpSound
<1>3. /\ plan[t].op # "scan" => plan[t].left \in Nodes
      /\ plan[t].op \in Products => plan[t].right \in Nodes
  BY <1>1, <1>2, Shape
<1>4. returning /\ plan[t].op # "scan" => May(Reading, batch)
  <2>1. plan[t].op # "scan" => Reading \in Nodes
    BY <1>2, <1>3 DEF Reading
  <2>2. returning => InHand(Reading)
    BY <1>1 DEF InHand
  <2>3. QED
    BY <1>1, <2>1, <2>2 DEF RowsMeant
<1>5. QED
  BY <1>1, <1>2, <1>3, <1>4, PossibleUnfold DEF RowsMeant

\* A batch of possible rows may be returned.
LEMMA ReturnMeant ==
    ASSUME NEW t, MeantStep(t), NEW result, Return(result), May(t, result),
           \A n \in Nodes : n # t => ops'[n] = ops[n], ops'[t].side = ops[t].side,
           KeepsPossible(t, ops'[t])
    PROVE  RowsMeant'
<1>1. /\ TypeSound /\ t \in Nodes /\ t = Top /\ status = "running" /\ stack # <<>> /\ RowsMeant
  BY DEF MeantStep
<1>2. /\ plan' = plan /\ tables' = tables /\ batch' = result /\ returning'
      /\ rows' = rows /\ status' = status
  BY <1>1 DEF Return
<1>3. \A n : InHand(n)' <=> n = t
  BY <1>1, Handed DEF TypeSound
<1>4. \A n \in Nodes : InHand(n)' => May(n, batch')
  BY <1>2, <1>3
<1>5. \A n \in Nodes : KeepsPossible(n, ops'[n])
  BY <1>1 DEF RowsMeant
<1>6. PICK all, own : all = batch' /\ own = ops'
  OBVIOUS
<1>7. /\ \A n \in Nodes : InHand(n)' => May(n, all)'
      /\ \A n \in Nodes : KeepsPossible(n, own[n])'
  BY <1>2, <1>4, <1>5, <1>6, SamePossible
<1>8. May(1, rows)'
  BY <1>1, <1>2, SamePossible DEF RowsMeant, May
<1>9. QED
  BY <1>1, <1>2, <1>6, <1>7, <1>8, SamePossible DEF RowsMeant

\* A step that returns nothing.
LEMMA MoveMeant ==
    ASSUME NEW t, MeantStep(t), UNCHANGED <<plan, tables, rows>>, returning' = FALSE,
           status' # "running" \/ stack' # <<>>,
           \A n \in Nodes : n # t => ops'[n] = ops[n],
           KeepsPossible(t, ops'[t])
    PROVE  RowsMeant'
<1>1. RowsMeant
  BY DEF MeantStep
<1>2. \A n : ~InHand(n)'
  BY DEF InHand
<1>3. PICK own : own = ops'
  OBVIOUS
<1>4. \A n \in Nodes : KeepsPossible(n, own[n])'
  BY <1>1, <1>3, SamePossible DEF RowsMeant
<1>5. May(1, rows)'
  BY <1>1, SamePossible DEF RowsMeant, May
<1>6. QED
  BY <1>2, <1>3, <1>4, <1>5, SamePossible DEF RowsMeant

\* Only filters choose among the rows they make.
LEMMA AllMade ==
    ASSUME NEW t, MeantStep(t), plan[t].op # "filter"
    PROVE  Possible[t] = Made(Possible, t)
<1>1. plan[t].cond = <<>> /\ Possible[t] = PossibleOf(Possible, t)
  BY MeantStepFacts DEF MeantStep, Decided, ConditionsRight
<1>2. \A row : Keeps(plan[t].cond, Columns[t], row)
  BY <1>1 DEF Keeps
<1>3. QED
  BY <1>1, <1>2 DEF PossibleOf

LEMMA ScanMeant ==
    ASSUME NEW t, MeantStep(t), ScanNext
    PROVE  RowsMeant'
<1>1. plan[t].op = "scan" /\ Return(tables[plan[t].table]) /\ ops' = ops
  BY MeantStepFacts DEF ScanNext, Calling
<1>2. Possible[t] = Range(tables[plan[t].table])
  BY <1>1, AllMade DEF Made, Products
<1>3. May(t, tables[plan[t].table])
  BY <1>2 DEF May, Range
<1>4. QED
  BY <1>1, <1>3, ReturnMeant, MeantStepFacts

\* Calls that are passed on, and empty batches.
LEMMA PassMeant ==
    ASSUME NEW t, MeantStep(t), PullInput \/ LimitNext \/ PassEnd
    PROVE  RowsMeant'
<1>1. ops' = ops /\ KeepsPossible(t, ops[t]) /\ stack \in Seq(Nodes)
  BY MeantStepFacts DEF PullInput, LimitNext, PassEnd, MeantStep, TypeSound, PullSound, PathSound
<1>2. CASE Return(<<>>)
  BY <1>1, <1>2, MayFacts, ReturnMeant
<1>3. CASE Pull(Node.left)
  <2>1. plan[t].op # "scan"
    <3>1. ~PassEnd
      BY <1>3 DEF PassEnd, Return, Pull
    <3>2. QED
      BY <3>1, MeantStepFacts DEF PullInput, LimitNext, Calling
  <2>2. Node.left \in Nodes /\ stack' # <<>>
    <3>1. Node.left \in Nodes
      BY <2>1, MeantStepFacts
    <3>2. QED
      BY <1>1, <1>3, <3>1, AppendProperties DEF Pull
  <2>3. QED
    BY <1>1, <1>3, <2>2, MoveMeant DEF Pull
<1>4. QED
  BY <1>2, <1>3 DEF PullInput, LimitNext, PassEnd

\* Each row a filter lets through passes its condition, as SQL sees it.
LEMMA FilterMeant ==
    ASSUME NEW t, MeantStep(t), FilterRows
    PROVE  RowsMeant'
<1> DEFINE cond == plan[t].cond
           keep == [i \in DOMAIN batch |-> Accepts(cond, Names(t), batch[i])]
           kept == Selected(batch, keep)
<1>1. /\ plan[t].op = "filter" /\ returning /\ Return(kept) /\ ops' = ops
      /\ t = Top /\ plan \in Plans /\ Linkable /\ batch \in Seq(Row)
      /\ plan[t].left \in Nodes /\ cond \in Expressions
      /\ Possible[t] = PossibleOf(Possible, t) /\ KeepsPossible(t, ops[t])
  BY MeantStepFacts DEF FilterRows, Returned, MeantStep, PlanNode
<1>2. May(plan[t].left, batch) /\ Columns[t] = Columns[plan[t].left]
  <2>1. Columns[t] = ColumnsOf(Columns, t) /\ Reading = plan[t].left
    BY <1>1, ColumnsUnfold, MeantStepFacts DEF Reading, Products
  <2>2. QED
    BY <1>1, <2>1, MeantStepFacts DEF ColumnsOf, Products
<1>3. ASSUME NEW i \in 1 .. Len(batch), keep[i]
      PROVE  batch[i] \in Possible[t]
  <2>1. batch[i] \in Possible[plan[t].left] /\ batch[i] \in Row /\ i \in DOMAIN batch
    BY <1>1, <1>2 DEF May
  <2>2. batch[i] \in Made(Possible, t)
    BY <1>1, <2>1 DEF Made, Products
  <2>3. Accepts(cond, Names(t), batch[i])
    BY <1>3, <2>1, Zenon
  <2>4. CASE cond = <<>>
    BY <1>1, <2>2, <2>4 DEF Keeps, PossibleOf
  <2>5. CASE cond # <<>>
    <3>1. Decides(t, Possible[plan[t].left])
      BY <1>1, <2>5 DEF MeantStep, Decided, ConditionsRight
    <3>2. Sound(cond, Columns[t], batch[i])
      BY <2>1, <3>1 DEF Decides
    <3>3. \A j \in DOMAIN cond :
            cond[j].op = "column" => Position(Names(t), cond[j].name) = Position(Columns[t], cond[j].name)
      BY <1>1, <1>2, <3>1, ResolvedPosition, MeantStepFacts DEF Decides
    <3>4. Keeps(cond, Columns[t], batch[i])
      BY <1>1, <2>1, <2>3, <3>2, <3>3, AcceptsAsKeeps
    <3>5. QED
      BY <1>1, <2>2, <3>4 DEF PossibleOf
  <2>6. QED
    BY <2>4, <2>5
<1>4. May(t, kept)
  <2> HIDE DEF keep
  <2>1. SelectedSound(Row, batch, keep)
    BY <1>1, SelectedFacts
  <2>2. kept \in Seq(Row) /\ \A j \in 1 .. Len(kept) : \E i \in 1 .. Len(batch) : keep[i] /\ kept[j] = batch[i]
    BY <2>1 DEF SelectedSound
  <2>3. QED
    BY <1>3, <2>2 DEF May
<1> HIDE DEF kept
<1>5. QED
  BY <1>1, <1>4, ReturnMeant

LEMMA NaiveMeant ==
    ASSUME NEW t, MeantStep(t), NaiveKeeps
    PROVE  RowsMeant'
<1>1. /\ plan[t].op = "naive" /\ returning /\ ops' = ops /\ batch \in Seq(Row)
      /\ KeepsPossible(t, ops[t]) /\ Reading = plan[t].left
  BY MeantStepFacts DEF NaiveKeeps, Returned, Reading, Products
<1>2. PICK m \in Nat : /\ m = (IF Len(batch) < NaiveRows THEN Len(batch) ELSE NaiveRows)
                       /\ m <= Len(batch)
  BY <1>1, OperatorsAssumption
<1>3. Possible[t] = Possible[plan[t].left]
  BY <1>1, AllMade DEF Made, Products
<1>4. May(t, batch)
  BY <1>1, <1>3, MeantStepFacts DEF May
<1>5. Return(SubSeq(batch, 1, m)) /\ May(t, SubSeq(batch, 1, m))
  BY <1>1, <1>2, <1>4, MayFacts DEF NaiveKeeps
<1>6. QED
  BY <1>1, <1>5, ReturnMeant

LEMMA ProjectMeant ==
    ASSUME NEW t, MeantStep(t), ProjectRows
    PROVE  RowsMeant'
<1> DEFINE cols  == plan[t].cols
           names == Columns[plan[t].left]
           all   == Projection(cols, names, batch)
<1>1. /\ plan[t].op = "project" /\ returning /\ t \in Nodes /\ Node = plan[t] /\ t = Top
      /\ batch \in Seq(Row) /\ KeepsPossible(t, ops[t]) /\ Reading = plan[t].left
  BY MeantStepFacts DEF ProjectRows, Returned, Reading, Products, MeantStep
<1>2. Star \notin Range(cols) /\ Projection(cols, Names(t), batch) = all
  BY <1>1, ProjectMeaning, MeantStepFacts
<1>3. Return(all) /\ ops' = ops
  BY <1>1, <1>2 DEF ProjectRows
<1>4. Possible[t] = {Projected(cols, names, row) : row \in Possible[plan[t].left]}
  BY <1>1, AllMade DEF Made, Products
<1>5. May(plan[t].left, batch)
  BY <1>1, MeantStepFacts
<1>6. May(t, all)
  BY <1>4, <1>5 DEF May, Projection
<1> HIDE DEF all
<1>7. QED
  BY <1>1, <1>3, <1>6, ReturnMeant

LEMMA LimitMeant ==
    ASSUME NEW t, MeantStep(t), LimitRows
    PROVE  RowsMeant'
<1>1. /\ plan[t].op = "limit" /\ returning /\ Return(Kept(t)) /\ t = Top /\ TypeSound /\ t \in Nodes
      /\ batch \in Seq(Row) /\ Reading = plan[t].left /\ ops[t] \in Op /\ DOMAIN ops = Nodes
  BY MeantStepFacts DEF LimitRows, Returned, Reading, Products, MeantStep
<1>2. Possible[t] = Possible[plan[t].left]
  BY <1>1, AllMade DEF Made, Products
<1>3. May(t, batch)
  BY <1>1, <1>2, MeantStepFacts DEF May
<1>4. May(t, Kept(t))
  <2>1. /\ Skip(t) \in Nat /\ Kept(t) \in Seq(Row) /\ Len(Kept(t)) <= Len(batch) - Skip(t)
        /\ \A i \in 1 .. Len(Kept(t)) : Kept(t)[i] = batch[Skip(t) + i]
    BY <1>1, KeptFacts, KeptRows
  <2>2. \A i \in 1 .. Len(Kept(t)) : Skip(t) + i \in 1 .. Len(batch)
    BY <1>1, <2>1
  <2>3. QED
    BY <1>1, <1>3, <2>1, <2>2 DEF May
<1>5. /\ \A n \in Nodes : n # t => ops'[n] = ops[n]
      /\ ops'[t].side = ops[t].side
  BY <1>1 DEF LimitRows, Op
<1>6. KeepsPossible(t, ops'[t])
  BY <1>1 DEF KeepsPossible, Products
<1>7. QED
  BY <1>1, <1>4, <1>5, <1>6, ReturnMeant

\* A product reads its sides, and returns the pairs it has.
LEMMA ProductMeant ==
    ASSUME NEW t, MeantStep(t), PullLeft \/ DrainLeft \/ DrainRight \/ ReturnPairs
    PROVE  RowsMeant'
<1>1. /\ plan[t].op \in Products /\ t \in Nodes /\ t = Top /\ Node = plan[t] /\ stack \in Seq(Nodes)
      /\ stack # <<>> /\ batch \in Seq(Row) /\ ops[t] \in Op /\ DOMAIN ops = Nodes
      /\ plan[t].left \in Nodes /\ plan[t].right \in Nodes
  BY MeantStepFacts DEF PullLeft, DrainLeft, DrainRight, ReturnPairs, Calling, Returned, Products,
     MeantStep, TypeSound, PullSound, PathSound
<1>2. /\ May(plan[t].left, ops[t].left) /\ May(plan[t].right, ops[t].right) /\ May(t, ops[t].out)
      /\ returning => May(Reading, batch)
      /\ ops[t].left \in Seq(Row) /\ ops[t].right \in Seq(Row)
  BY <1>1, MeantStepFacts, OpFields DEF KeepsPossible, Products
<1>3. ASSUME NEW op, ops' = [ops EXCEPT ![t] = op],
             May(plan[t].left, op.left), May(plan[t].right, op.right), May(t, op.out),
             \/ \E c \in Nodes : Pull(c)
             \/ UNCHANGED <<plan, tables, stack, rows>> /\ returning' = FALSE
      PROVE  RowsMeant'
  <2>1. UNCHANGED <<plan, tables, rows>> /\ returning' = FALSE /\ stack' # <<>>
    BY <1>1, <1>3, AppendProperties DEF Pull
  <2>2. (\A n \in Nodes : n # t => ops'[n] = ops[n]) /\ ops'[t] = op
    BY <1>1, <1>3
  <2>3. QED
    BY <1>3, <2>1, <2>2, MoveMeant DEF KeepsPossible
<1>4. CASE PullLeft
  <2>1. ops' = [ops EXCEPT ![t] = [ops[t] EXCEPT !.side = "left"]] /\ Pull(plan[t].left)
    BY <1>1, <1>4 DEF PullLeft
  <2>2. PICK new : new = [ops[t] EXCEPT !.side = "left"]
    OBVIOUS
  <2>3. new.left = ops[t].left /\ new.right = ops[t].right /\ new.out = ops[t].out
    BY <1>1, <2>2 DEF Op
  <2>4. ops' = [ops EXCEPT ![t] = new] /\ \E c \in Nodes : Pull(c)
    BY <1>1, <2>1, <2>2
  <2>5. May(plan[t].left, new.left) /\ May(plan[t].right, new.right) /\ May(t, new.out)
    BY <1>2, <2>3
  <2>6. QED
    BY <1>3, <2>4, <2>5
<1>5. CASE DrainLeft
  <2>1. returning /\ Reading = plan[t].left
    BY <1>1, <1>5 DEF DrainLeft, Returned, Reading
  <2>2. CASE batch # <<>>
    <3>1. /\ ops' = [ops EXCEPT ![t] = [ops[t] EXCEPT !.left = Capped(@ \o batch)]]
          /\ Pull(plan[t].left)
      BY <1>1, <1>5, <2>2 DEF DrainLeft
    <3>2. May(plan[t].left, Capped(ops[t].left \o batch))
      BY <1>1, <1>2, <2>1, MayFacts
    <3>3. PICK new : new = [ops[t] EXCEPT !.left = Capped(@ \o batch)]
      OBVIOUS
    <3>4. /\ new.left = Capped(ops[t].left \o batch)
          /\ new.right = ops[t].right /\ new.out = ops[t].out
      BY <1>1, <3>3 DEF Op
    <3>5. ops' = [ops EXCEPT ![t] = new] /\ \E c \in Nodes : Pull(c)
      BY <1>1, <3>1, <3>3
    <3>6. May(plan[t].left, new.left) /\ May(plan[t].right, new.right) /\ May(t, new.out)
      BY <1>2, <3>2, <3>4
    <3>7. QED
      BY <1>3, <3>5, <3>6
  <2>3. CASE batch = <<>>
    <3>1. ops' = [ops EXCEPT ![t] = [ops[t] EXCEPT !.side = "right"]] /\ Pull(plan[t].right)
      BY <1>1, <1>5, <2>3 DEF DrainLeft
    <3>2. PICK new : new = [ops[t] EXCEPT !.side = "right"]
      OBVIOUS
    <3>3. new.left = ops[t].left /\ new.right = ops[t].right /\ new.out = ops[t].out
      BY <1>1, <3>2 DEF Op
    <3>4. /\ ops' = [ops EXCEPT ![t] = new]
          /\ \E c \in Nodes : Pull(c)
      BY <1>1, <3>1, <3>2
    <3>5. May(plan[t].left, new.left) /\ May(plan[t].right, new.right) /\ May(t, new.out)
      BY <1>2, <3>3
    <3>6. QED
      BY <1>3, <3>4, <3>5
  <2>4. QED
    BY <2>2, <2>3
<1>6. CASE DrainRight
  <2>1. returning /\ Reading = plan[t].right
    BY <1>1, <1>6 DEF DrainRight, Returned, Reading
  <2>2. CASE batch # <<>>
    <3>1. /\ ops' = [ops EXCEPT ![t] = [ops[t] EXCEPT !.right = Capped(@ \o batch)]]
          /\ Pull(plan[t].right)
      BY <1>1, <1>6, <2>2 DEF DrainRight
    <3>2. May(plan[t].right, Capped(ops[t].right \o batch))
      BY <1>1, <1>2, <2>1, MayFacts
    <3>3. PICK new : new = [ops[t] EXCEPT !.right = Capped(@ \o batch)]
      OBVIOUS
    <3>4. /\ new.right = Capped(ops[t].right \o batch)
          /\ new.left = ops[t].left /\ new.out = ops[t].out
      BY <1>1, <3>3 DEF Op
    <3>5. ops' = [ops EXCEPT ![t] = new] /\ \E c \in Nodes : Pull(c)
      BY <1>1, <3>1, <3>3
    <3>6. May(plan[t].left, new.left) /\ May(plan[t].right, new.right) /\ May(t, new.out)
      BY <1>2, <3>2, <3>4
    <3>7. QED
      BY <1>3, <3>5, <3>6
  <2>3. CASE batch = <<>>
    <3>1. /\ ops' = [ops EXCEPT ![t] = [ops[t] EXCEPT !.side = "ready"]]
          /\ UNCHANGED <<plan, tables, stack, rows>> /\ returning' = FALSE
      BY <1>1, <1>6, <2>3 DEF DrainRight
    <3>2. PICK new : new = [ops[t] EXCEPT !.side = "ready"]
      OBVIOUS
    <3>3. new.left = ops[t].left /\ new.right = ops[t].right /\ new.out = ops[t].out
      BY <1>1, <3>2 DEF Op
    <3>4. /\ ops' = [ops EXCEPT ![t] = new]
          /\ UNCHANGED <<plan, tables, stack, rows>> /\ returning' = FALSE
      BY <1>1, <3>1, <3>2
    <3>5. May(plan[t].left, new.left) /\ May(plan[t].right, new.right) /\ May(t, new.out)
      BY <1>2, <3>3
    <3>6. QED
      BY <1>3, <3>4, <3>5
  <2>4. QED
    BY <2>2, <2>3
<1>7. CASE ReturnPairs
  <2>1. ops' = [ops EXCEPT ![t] = [ops[t] EXCEPT !.out = <<>>]] /\ Return(ops[t].out)
    BY <1>1, <1>7 DEF ReturnPairs
  <2>2. /\ \A n \in Nodes : n # t => ops'[n] = ops[n]
        /\ ops'[t].side = ops[t].side /\ ops'[t].left = ops[t].left
        /\ ops'[t].right = ops[t].right /\ ops'[t].out = <<>>
    BY <1>1, <2>1 DEF Op
  <2>3. KeepsPossible(t, ops'[t])
    BY <1>2, <2>2, MayFacts DEF KeepsPossible
  <2>4. QED
    BY <1>2, <2>1, <2>2, <2>3, ReturnMeant
<1>8. QED
  BY <1>4, <1>5, <1>6, <1>7

\* A pair of possible rows is a possible row.
LEMMA PairMeant ==
    ASSUME NEW t, MeantStep(t), PairRows, ~Undefined
    PROVE  RowsMeant'
<1> DEFINE op == ops[t]
           wraps == op.rightIdx + 1 >= Len(op.right)
           l == op.left[op.leftIdx + 1]
           r == op.right[op.rightIdx + 1]
           new == [op EXCEPT !.out = Append(@, l \o r),
                             !.rightIdx = IF wraps THEN 0 ELSE @ + 1,
                             !.leftIdx = IF wraps THEN @ + 1 ELSE @]
<1>1. /\ plan[t].op \in Products /\ t \in Nodes /\ t = Top /\ op \in Op /\ DOMAIN ops = Nodes
      /\ TypeSound /\ ~returning /\ returning \in BOOLEAN /\ stack # <<>> /\ MorePairs(op)
      /\ May(plan[t].left, op.left) /\ May(plan[t].right, op.right) /\ May(t, op.out)
  BY MeantStepFacts DEF PairRows, Calling, MeantStep, TypeSound, DataSound, KeepsPossible
<1>2. /\ op.rightIdx < Len(op.right) /\ ops' = [ops EXCEPT ![t] = new]
      /\ UNCHANGED <<plan, tables, stack, returning, rows>>
  BY <1>1, PairStep
<1>3. /\ op.left \in Seq(Row) /\ op.right \in Seq(Row) /\ op.out \in Seq(Row)
      /\ op.leftIdx \in Nat /\ op.rightIdx \in Nat
  BY <1>1, OpFields
<1> HIDE DEF op
<1>4. op.leftIdx + 1 \in 1 .. Len(op.left) /\ op.rightIdx + 1 \in 1 .. Len(op.right)
  <2>1. op.leftIdx < Len(op.left) /\ Len(op.left) \in Nat /\ Len(op.right) \in Nat
    BY <1>1, <1>3 DEF MorePairs
  <2>2. QED
    BY <1>2, <1>3, <2>1
<1>5. /\ l \in Row /\ r \in Row /\ l \o r \in Row
      /\ l \in Possible[plan[t].left] /\ r \in Possible[plan[t].right]
  BY <1>1, <1>3, <1>4, RowFacts DEF May
<1> HIDE DEF l, r
<1>6. l \o r \in Possible[t]
  <2>1. Possible[t] = Together(Possible[plan[t].left], Possible[plan[t].right])
    BY <1>1, AllMade DEF Made, Products
  <2>2. <<l, r>> \in Possible[plan[t].left] \X Possible[plan[t].right] /\ <<l, r>>[1] = l /\ <<l, r>>[2] = r
    BY <1>5
  <2>3. QED
    BY <2>1, <2>2 DEF Together
<1>7. new.left = op.left /\ new.right = op.right /\ new.out = Append(op.out, l \o r)
  BY <1>1 DEF Op
<1> HIDE DEF new, wraps
<1>8. KeepsPossible(t, new)
  BY <1>1, <1>3, <1>5, <1>6, <1>7, MayFacts DEF KeepsPossible
<1>9. (\A n \in Nodes : n # t => ops'[n] = ops[n]) /\ ops'[t] = new
  BY <1>1, <1>2
<1>10. QED
  BY <1>1, <1>2, <1>8, <1>9, MoveMeant

LEMMA CollectMeant ==
    ASSUME TypeSound, Decided, RowsMeant, Collect
    PROVE  RowsMeant'
<1>1. /\ status = "running" /\ stack = <<>> /\ returning /\ UNCHANGED <<plan, tables, ops, batch>>
      /\ 1 \in Nodes /\ batch \in Seq(Row) /\ rows \in Seq(Row)
  BY PlanFacts DEF Collect, RowsMeant, TypeSound, PullSound, DataSound
<1>2. May(1, batch) /\ May(1, rows)
  BY <1>1 DEF RowsMeant, InHand
<1>3. PICK own, got, all : own = ops' /\ got = batch' /\ all = rows'
  OBVIOUS
<1>4. \A n \in Nodes : KeepsPossible(n, own[n])'
  BY <1>1, <1>3, SamePossible DEF RowsMeant
<1>5. CASE batch = <<>>
  <2>1. status' = "done" /\ UNCHANGED <<stack, returning, rows>>
    BY <1>1, <1>5 DEF Collect
  <2>2. \A n : May(n, got)' /\ May(1, all)'
    BY <1>1, <1>2, <1>3, <1>5, <2>1, MayFacts, SamePossible
  <2>3. QED
    BY <1>1, <1>3, <1>4, <2>1, <2>2, SamePossible DEF RowsMeant
<1>6. CASE batch # <<>>
  <2>1. /\ status' = "running" /\ stack' = <<1>> /\ returning' = FALSE /\ rows' = Capped(rows \o batch)
    BY <1>1, <1>6 DEF Collect
  <2>2. May(1, all)'
    BY <1>1, <1>2, <1>3, <2>1, MayFacts, SamePossible
  <2>3. QED
    BY <1>1, <1>3, <1>4, <2>1, <2>2, SamePossible DEF RowsMeant, InHand
<1>7. QED
  BY <1>5, <1>6

LEMMA InitMeant == Init => MeantSound
<1> SUFFICES ASSUME Init
              PROVE  RowsMeant
  BY DEF MeantSound
<1>1. \A n \in Nodes : KeepsPossible(n, Fresh)
  BY MayFacts DEF KeepsPossible, Fresh
<1>2. QED
  BY <1>1, MayFacts DEF Init, RowsMeant, InHand

LEMMA NextMeantSound == TypeSound /\ MeantSound /\ [Next]_vars => MeantSound'
<1> SUFFICES ASSUME TypeSound, MeantSound, [Next]_vars, Decided'
              PROVE  RowsMeant'
  BY DEF MeantSound
<1>1. plan' = plan /\ tables' = tables
  BY DEF Next, vars, Build, Link, ScanNext, PullInput, PassEnd, FilterRows, NaiveKeeps,
         ProjectRows, LimitNext, LimitRows, PullLeft, DrainLeft, DrainRight, PairRows,
         ReturnPairs, Collect, Stopped, Pull, Return, Undefined
<1>2. Decided /\ RowsMeant
  BY <1>1, SamePossible DEF MeantSound
<1>3. ASSUME UNCHANGED <<ops, batch, rows>>,
             \/ ~returning /\ ~returning' /\ (status' = "running" => stack' # <<>>)
             \/ UNCHANGED <<stack, returning>> /\ status' \in {status, "undefined"}
             \/ UNCHANGED <<stack, returning>> /\ ~returning /\ status' = "failed"
      PROVE  RowsMeant'
  <2>1. PICK own, got, all : own = ops' /\ got = batch' /\ all = rows'
    OBVIOUS
  <2>2. (\A n \in Nodes : KeepsPossible(n, own[n])') /\ May(1, all)'
    BY <1>1, <1>2, <1>3, <2>1, SamePossible DEF RowsMeant
  <2>3. ASSUME NEW n \in Nodes, InHand(n)'
        PROVE  May(n, got)'
    <3>1. InHand(n)
      BY <1>1, <1>3, <2>3 DEF InHand, Reading, Node, Top
    <3>2. QED
      BY <1>1, <1>2, <1>3, <2>1, <3>1, SamePossible DEF RowsMeant
  <2>4. /\ status' = "new" => ~returning'
        /\ status' = "running" /\ stack' = <<>> => returning'
    BY <1>2, <1>3 DEF RowsMeant
  <2>5. QED
    BY <1>1, <2>1, <2>2, <2>3, <2>4, SamePossible DEF RowsMeant
<1>4. CASE Build \/ Link
  <2>1. UNCHANGED <<ops, batch, rows, returning>> /\ ~returning
    BY <1>2, <1>4 DEF Build, Link, RowsMeant
  <2>2. (status' = "running" /\ stack' = <<1>>) \/ (status' = "failed" /\ stack' = stack)
    BY <1>4 DEF Build, Link
  <2>3. QED
    BY <1>3, <2>1, <2>2
<1>5. CASE Collect
  BY <1>2, <1>5, CollectMeant
<1>6. CASE Undefined \/ Stopped \/ UNCHANGED vars
  BY <1>3, <1>6 DEF Undefined, Stopped, vars
<1>7. ASSUME ScanNext \/ PullInput \/ PassEnd \/ FilterRows \/ NaiveKeeps \/ ProjectRows
             \/ LimitNext \/ LimitRows \/ PullLeft \/ DrainLeft \/ DrainRight \/ PairRows
             \/ ReturnPairs,
             ~Undefined
      PROVE  RowsMeant'
  <2>1. status = "running" /\ stack # <<>>
    BY <1>7 DEF ScanNext, PullInput, PassEnd, FilterRows, NaiveKeeps, ProjectRows,
           LimitNext, LimitRows, PullLeft, DrainLeft, DrainRight, PairRows,
           ReturnPairs, Calling, Returned
  <2>2. MeantStep(Top)
    BY <1>2, <2>1, TopFacts DEF MeantStep, TypeSound
  <2>3. CASE ScanNext \/ PullInput \/ LimitNext \/ PassEnd
    BY <2>2, <2>3, ScanMeant, PassMeant
  <2>4. CASE FilterRows \/ NaiveKeeps \/ ProjectRows \/ LimitRows
    BY <2>2, <2>4, FilterMeant, NaiveMeant, ProjectMeant, LimitMeant
  <2>5. CASE PullLeft \/ DrainLeft \/ DrainRight \/ ReturnPairs \/ PairRows
    BY <1>7, <2>2, <2>5, ProductMeant, PairMeant
  <2>6. QED
    BY <1>7, <2>3, <2>4, <2>5
<1>8. QED
  BY <1>4, <1>5, <1>6, <1>7 DEF Next

\* Every row that a query has collected is one that SQL could give, also of a
\* query that never ends, whose rows come again, or whose batches a filter or an
\* OFFSET empties: a product pairs a row of one side with a row of the other, and
\* what a filter lets through is what its condition means.
THEOREM OnlyMeantRowsHolds == Spec => []OnlyMeantRows
<1>1. TypeSound /\ MeantSound => OnlyMeantRows
  BY DEF MeantSound, Decided, OnlyMeantRows, RowsMeant, May, Range
<1>2. Spec => []MeantSound
  <2>1. Spec => []TypeSound
    BY TypeSoundHolds
  <2>2. QED
    BY <2>1, InitMeant, NextMeantSound, PTL DEF Spec
<1>3. QED
  BY <1>1, <1>2, TypeSoundHolds, PTL
=============================================================================
