----------------------------- MODULE SplitsProofs -----------------------------
(***************************************************************************)
(* For any resources, images, modes and numbers of packets, whatever is on *)
(* disk and whatever the agent starts, ends, finishes and aborts, the two  *)
(* proxies agree on the splits under way, the commits due and the slots of *)
(* the message store, and the agent's record fits its proxy.               *)
(*                                                                         *)
(* The two proxies do not exchange their states: the X server's side only  *)
(* reads what the agent's side wrote.  So the argument is about the link.  *)
(* What a side holds, but for what the other cannot know (the data, what   *)
(* was found on disk), is its shape; reading the requests on the link, one *)
(* by one, leads the shape of the X server's side to that of the agent's,  *)
(* and each of them can be read.  A handler of the agent's side appends    *)
(* requests that lead to the new shape, a handler of the X server's side   *)
(* takes the first step.                                                   *)
(*                                                                         *)
(* Beside that, every commit in the store of the agent's side is told by   *)
(* one event, in order; the answers on their way fit the phase that the    *)
(* agent's record gives each resource; and, as long as nothing is aborted, *)
(* the slots that are locked are those of splits under way.                *)
(*                                                                         *)
(* Which images the agent's side may know to be on disk ("known") does not *)
(* matter to the shapes: there it may know of all of them.  It matters to  *)
(* the data, the subject of the last two sections: what is aborted, and so *)
(* complete without packets, is a hit or was found on disk and reported,   *)
(* so that all that is complete has its data, as its size tells.           *)
(***************************************************************************)
EXTENDS Splits, SequenceTheorems, FiniteSetTheorems, WellFoundedInduction, TLAPS

-----------------------------------------------------------------------------
(* Loops and sequences *)

(* Induction on a set of numbers. *)
LEMMA AllNumbers ==
    ASSUME NEW S, 0 \in S, \A n \in Nat : n \in S => n + 1 \in S
    PROVE  Nat \subseteq S
  <1> SUFFICES ASSUME Nat \ S # {}  PROVE FALSE  OBVIOUS
  <1>1. PICK n \in Nat \ S : \A m \in Nat \ S : ~ (<<m, n>> \in OpToRel(<, Nat))
    BY NatLessThanWellFounded, WFMin
  <1>2. n # 0  OBVIOUS
  <1>3. n - 1 \in Nat /\ n - 1 \notin S  BY <1>2
  <1>4. <<n - 1, n>> \in OpToRel(<, Nat)  BY <1>3 DEF OpToRel
  <1>5. QED  BY <1>1, <1>3, <1>4

Repeatable(I, step, h) ==
    \E f \in [Nat -> I] : f[0] = h /\ \A n \in Nat : f[n + 1] = step[f[n]]

(* Repeating a step that stays within a set stays within the set. *)
LEMMA Iterates ==
    ASSUME NEW I, NEW step, \A x \in I : step[x] \in I, NEW h \in I
    PROVE  Repeatable(I, step, h)
  <1> DEFINE Run(n, g) == /\ g \in [0 .. n -> I] /\ g[0] = h
                          /\ \A m \in 0 .. n - 1 : g[m + 1] = step[g[m]]
             S == {n \in Nat : \E g : Run(n, g)}
             T == {n \in Nat : \A k \in Nat : n <= k =>
                      \A g, e : Run(n, g) /\ Run(k, e) => e[n] = g[n]}
  <1>1. 0 \in S
    <2>1. Run(0, [m \in 0 .. 0 |-> h])  OBVIOUS
    <2>2. QED  BY <2>1
  <1>2. ASSUME NEW n \in Nat, n \in S
        PROVE  n + 1 \in S
    <2>1. PICK g : Run(n, g)  BY <1>2
    <2> DEFINE e == [m \in 0 .. n + 1 |-> IF m = n + 1 THEN step[g[n]] ELSE g[m]]
    <2>2. e \in [0 .. n + 1 -> I]  BY <2>1
    <2>3. e[0] = h  BY <2>1
    <2>4. ASSUME NEW m \in 0 .. n
          PROVE  e[m + 1] = step[e[m]]
      <3>1. CASE m = n  BY <3>1, <2>1
      <3>2. CASE m # n  BY <3>2, <2>1
      <3>3. QED  BY <3>1, <3>2
    <2>5. 0 .. (n + 1) - 1 = 0 .. n  OBVIOUS
    <2> HIDE DEF e
    <2>6. Run(n + 1, e)  BY <2>2, <2>3, <2>4, <2>5
    <2>7. QED  BY <2>6
  <1>3. Nat \subseteq S
    <2> HIDE DEF S
    <2>1. QED  BY <1>1, <1>2, AllNumbers
  <1>4. \A n \in Nat : \E g : Run(n, g)  BY <1>3
  <1>5. 0 \in T  OBVIOUS
  <1>6. ASSUME NEW n \in Nat, n \in T
        PROVE  n + 1 \in T
    <2> SUFFICES ASSUME NEW k \in Nat, n + 1 <= k,
                        NEW g, NEW e, Run(n + 1, g), Run(k, e)
                 PROVE  e[n + 1] = g[n + 1]
      OBVIOUS
    <2> DEFINE d == [m \in 0 .. n |-> g[m]]
    <2>1. Run(n, d) /\ d[n] = g[n]  OBVIOUS
    <2>2. n <= k /\ n \in 0 .. k - 1 /\ n \in 0 .. (n + 1) - 1  OBVIOUS
    <2>3. e[n] = g[n]
      <3> HIDE DEF d, Run
      <3>1. QED  BY <1>6, <2>1, <2>2
    <2>4. e[n + 1] = step[e[n]] /\ g[n + 1] = step[g[n]]  BY <2>2
    <2>5. QED  BY <2>3, <2>4
  <1>7. Nat \subseteq T
    <2> HIDE DEF T
    <2>1. QED  BY <1>5, <1>6, AllNumbers
  <1> DEFINE run(n) == CHOOSE g : Run(n, g)
             all == [n \in Nat |-> run(n)[n]]
  <1>8. ASSUME NEW n \in Nat
        PROVE  Run(n, run(n))
    BY <1>4
  <1>9. all \in [Nat -> I]
    <2>1. ASSUME NEW n \in Nat
          PROVE  run(n)[n] \in I
      <3> DEFINE a == run(n)
      <3>1. Run(n, a)
        <4> HIDE DEF Run, run
        <4>1. QED  BY <1>8
      <3> HIDE DEF a
      <3>2. a[n] \in I  BY <3>1
      <3>3. QED  BY <3>2 DEF a
    <2> HIDE DEF run
    <2>2. QED  BY <2>1
  <1>10. all[0] = h  BY <1>8
  <1>11. ASSUME NEW n \in Nat
         PROVE  all[n + 1] = step[all[n]]
    <2>1. n \in T
      <3> HIDE DEF T
      <3>1. QED  BY <1>7
    <2>2. n \in T /\ n + 1 \in Nat /\ n <= n + 1
      <3> HIDE DEF T
      <3>1. QED  BY <2>1
    <2> DEFINE a == run(n)
               b == run(n + 1)
    <2>3. Run(n, a) /\ Run(n + 1, b)
      <3> HIDE DEF Run, run
      <3>1. Run(n, run(n)) /\ Run(n + 1, run(n + 1))  BY <1>8, <2>2
      <3>2. QED  BY <3>1
    <2> HIDE DEF a, b, run
    <2>4. b[n] = a[n]
      <3> HIDE DEF Run
      <3>1. QED  BY <2>2, <2>3
    <2>5. b[n + 1] = step[b[n]]  BY <2>3
    <2>6. all[n] = a[n] /\ all[n + 1] = b[n + 1]  BY DEF a, b
    <2>7. QED  BY <2>4, <2>5, <2>6
  <1> HIDE DEF all
  <1>12. QED  BY <1>9, <1>10, <1>11 DEF Repeatable

(* So the loop, which is such a repetition, ends within it. *)
Loop(step, h) ==
    CHOOSE f : f = [n \in Nat |-> IF n = 0 THEN h ELSE step[f[n - 1]]]

Turns(turn, I, step, h) ==
    /\ turn \in [Nat -> I] /\ turn[0] = h
    /\ \A n \in Nat : turn[n + 1] = step[turn[n]]

(* What each turn of a loop preserves holds after any number of turns. *)
LEMMA Repeats ==
    ASSUME NEW I, NEW step, \A x \in I : step[x] \in I, NEW h \in I,
           NEW turn, turn = Loop(step, h)
    PROVE  Turns(turn, I, step, h)
  <1>10. Repeatable(I, step, h)  BY Iterates
  <1>1. PICK f \in [Nat -> I] : f[0] = h /\ \A n \in Nat : f[n + 1] = step[f[n]]
    BY <1>10 DEF Repeatable
  <1> DEFINE g == [n \in Nat |-> IF n = 0 THEN h ELSE step[f[n - 1]]]
  <1>2. ASSUME NEW n \in Nat
        PROVE  f[n] = g[n]
    <2>1. CASE n = 0  BY <1>1, <2>1
    <2>2. CASE n # 0
      <3>1. n - 1 \in Nat /\ (n - 1) + 1 = n  BY <2>2
      <3>2. f[n] = step[f[n - 1]]  BY <1>1, <3>1
      <3>3. QED  BY <2>2, <3>2
    <2>3. QED  BY <2>1, <2>2
  <1>3. f = g  BY <1>1, <1>2
  <1>4. turn = [n \in Nat |-> IF n = 0 THEN h ELSE step[turn[n - 1]]]
    BY <1>3 DEF Loop
  <1> DEFINE J == {n \in Nat : turn[n] \in I}
  <1>5. turn[0] = h /\ \A n \in Nat : turn[n + 1] = step[turn[n]]
    <2>1. turn[0] = h  BY <1>4
    <2>2. ASSUME NEW n \in Nat
          PROVE  turn[n + 1] = step[turn[n]]
      <3>1. n + 1 \in Nat /\ n + 1 # 0 /\ (n + 1) - 1 = n  OBVIOUS
      <3>2. turn[n + 1] = IF n + 1 = 0 THEN h ELSE step[turn[(n + 1) - 1]]
        BY <1>4, <3>1, Zenon
      <3>3. QED  BY <3>1, <3>2
    <2>3. QED  BY <2>1, <2>2
  <1>6. 0 \in J /\ \A n \in Nat : n \in J => n + 1 \in J  BY <1>5
  <1>7. Nat \subseteq J
    <2> HIDE DEF J
    <2>1. QED  BY <1>6, AllNumbers
  <1>8. QED  BY <1>4, <1>5, <1>7 DEF Turns

-----------------------------------------------------------------------------
(* What the two sides have in common *)

(* The parts of a split that the agent's side decides, and knows. *)
Outlines == [resource : Resource, key : Key, action : Action, next : 0 .. Chunks,
             started : BOOLEAN]
Pairs == Resource \X Key

(* What one side holds, as far as the requests of the agent's side tell, with
   the images that were read for each resource.                              *)
Shapes == [resource : Resource \cup {nothing}, store : [Resource -> Seq(Outlines)],
           commits : Seq(Outlines), held : SUBSET Key, ready : SUBSET Key,
           seen : SUBSET Pairs]

Shape(side, seen) ==
    [resource |-> side.resource,
     store |-> [r \in Resource |-> Skeleton(side.store[r])],
     commits |-> Skeleton(side.commits),
     held |-> {k \in Key : side.cache[k] # Null},
     ready |-> {k \in Key : side.cache[k] # Null /\ ~ side.cache[k].locked},
     seen |-> seen]

Sided(side) ==
    /\ side.resource \in Resource \cup {nothing}
    /\ side.store \in [Resource -> Seq(Split)]
    /\ side.commits \in Seq(Split)
    /\ side.cache \in [Key -> Slot \cup {Null}]

(* The outline of a split, part by part. *)
LEMMA OutlineParts ==
    ASSUME NEW s \in Split
    PROVE  /\ Outline(s) \in Outlines
           /\ Outline(s).resource = s.resource /\ Outline(s).key = s.key
           /\ Outline(s).action = s.action /\ Outline(s).next = s.next
           /\ Outline(s).started = s.started
  BY DEF Outline, Outlines, Split

(* The outlines of a sequence of splits, one by one. *)
LEMMA SkeletonParts ==
    ASSUME NEW s \in Seq(Split)
    PROVE  /\ Skeleton(s) \in Seq(Outlines) /\ Len(Skeleton(s)) = Len(s)
           /\ DOMAIN Skeleton(s) = DOMAIN s
           /\ \A i \in DOMAIN s : Skeleton(s)[i] = Outline(s[i])
           /\ s = <<>> <=> Skeleton(s) = <<>>
  <1>1. Len(s) \in Nat /\ DOMAIN s = 1 .. Len(s)  BY LenProperties
  <1>2. \A i \in 1 .. Len(s) : s[i] \in Split  BY <1>1
  <1>3. Skeleton(s) = [i \in 1 .. Len(s) |-> Outline(s[i])]  BY <1>1 DEF Skeleton
  <1>4. \A i \in 1 .. Len(s) : Outline(s[i]) \in Outlines  BY <1>2, OutlineParts
  <1>5. Skeleton(s) \in [1 .. Len(s) -> Outlines]  BY <1>3, <1>4
  <1>6. Skeleton(s) \in Seq(Outlines)  BY <1>1, <1>5, SeqDef
  <1>7. DOMAIN Skeleton(s) = 1 .. Len(s) /\ Len(Skeleton(s)) = Len(s)
    BY <1>1, <1>5, <1>6, LenProperties
  <1>8. s = <<>> <=> Skeleton(s) = <<>>  BY <1>6, <1>7, EmptySeq
  <1>9. QED  BY <1>1, <1>3, <1>6, <1>7, <1>8

(* Splits with equal outlines cannot be told apart in a skeleton. *)
LEMMA SkeletonSame ==
    ASSUME NEW s \in Seq(Split), NEW t \in Seq(Split), Len(s) = Len(t),
           \A i \in 1 .. Len(s) : Outline(s[i]) = Outline(t[i])
    PROVE  Skeleton(s) = Skeleton(t)
  BY SkeletonParts, SeqEqual, LenProperties

(* A split is added. *)
LEMMA SkeletonAppend ==
    ASSUME NEW s \in Seq(Split), NEW x \in Split
    PROVE  Skeleton(Append(s, x)) = Append(Skeleton(s), Outline(x))
  <1> DEFINE t == Append(s, x)
             u == Append(Skeleton(s), Outline(x))
  <1>1. t \in Seq(Split) /\ Len(t) = Len(s) + 1 /\ Len(s) \in Nat
        /\ \A i \in 1 .. Len(t) : t[i] = IF i = Len(t) THEN x ELSE s[i]
    BY AppendProperties, LenProperties
  <1>2. u \in Seq(Outlines) /\ Len(u) = Len(s) + 1
        /\ \A i \in 1 .. Len(u) : u[i] = IF i = Len(u) THEN Outline(x) ELSE Skeleton(s)[i]
    BY AppendProperties, SkeletonParts, OutlineParts
  <1> HIDE DEF t, u
  <1>3. \A i \in 1 .. Len(u) : Skeleton(t)[i] = u[i]
    BY <1>1, <1>2, SkeletonParts, LenProperties
  <1>4. Skeleton(t) = u  BY <1>1, <1>2, <1>3, SkeletonParts, SeqEqual
  <1>5. QED  BY <1>4 DEF t, u

(* The first split is taken. *)
LEMMA SkeletonTail ==
    ASSUME NEW s \in Seq(Split), s # <<>>
    PROVE  /\ Skeleton(Tail(s)) = Tail(Skeleton(s))
           /\ Head(Skeleton(s)) = Outline(Head(s))
           /\ Head(s) \in Split /\ Head(s) = s[1] /\ 1 \in DOMAIN s
           /\ Tail(s) \in Seq(Split)
  <1> DEFINE t == Tail(s)
             u == Tail(Skeleton(s))
  <1>1. t \in Seq(Split) /\ Len(t) = Len(s) - 1 /\ Len(s) \in Nat \ {0}
        /\ \A i \in 1 .. Len(t) : t[i] = s[i + 1]
    BY HeadTailProperties, EmptySeq
  <1>2. Skeleton(s) \in Seq(Outlines) /\ Skeleton(s) # <<>> /\ Len(Skeleton(s)) = Len(s)
        /\ \A i \in 1 .. Len(s) : Skeleton(s)[i] = Outline(s[i])
    BY SkeletonParts, LenProperties
  <1>3. u \in Seq(Outlines) /\ Len(u) = Len(s) - 1
        /\ \A i \in 1 .. Len(u) : u[i] = Skeleton(s)[i + 1]
    BY <1>2, HeadTailProperties
  <1>4. Head(s) = s[1] /\ Head(Skeleton(s)) = Skeleton(s)[1] /\ DOMAIN s = 1 .. Len(s)
    BY <1>2, LenProperties
  <1> HIDE DEF t, u
  <1>5. \A i \in 1 .. Len(u) : Skeleton(t)[i] = u[i]
    BY <1>1, <1>2, <1>3, SkeletonParts, LenProperties
  <1>6. Skeleton(t) = u  BY <1>1, <1>3, <1>5, SkeletonParts, SeqEqual
  <1>7. Head(s) \in Split  BY HeadTailProperties
  <1>8. QED  BY <1>1, <1>2, <1>4, <1>6, <1>7 DEF t, u

(* The first split is replaced. *)
LEMMA SkeletonFirst ==
    ASSUME NEW s \in Seq(Split), s # <<>>, NEW x \in Split
    PROVE  /\ [s EXCEPT ![1] = x] \in Seq(Split)
           /\ Len([s EXCEPT ![1] = x]) = Len(s)
           /\ \A i \in 1 .. Len(s) : [s EXCEPT ![1] = x][i] = IF i = 1 THEN x ELSE s[i]
           /\ Skeleton([s EXCEPT ![1] = x]) = [Skeleton(s) EXCEPT ![1] = Outline(x)]
  <1> DEFINE t == [s EXCEPT ![1] = x]
             u == [Skeleton(s) EXCEPT ![1] = Outline(x)]
  <1>1. Len(s) \in Nat \ {0}  BY EmptySeq
  <1>2. t \in Seq(Split) /\ Len(t) = Len(s)
        /\ \A i \in 1 .. Len(s) : t[i] = IF i = 1 THEN x ELSE s[i]
    BY <1>1, ExceptSeq
  <1>3. u \in Seq(Outlines) /\ Len(u) = Len(s)
        /\ \A i \in 1 .. Len(s) : u[i] = IF i = 1 THEN Outline(x) ELSE Skeleton(s)[i]
    BY <1>1, ExceptSeq, SkeletonParts, OutlineParts
  <1> HIDE DEF t, u
  <1>4. \A i \in 1 .. Len(u) : Skeleton(t)[i] = u[i]
    BY <1>2, <1>3, SkeletonParts, LenProperties
  <1>5. Skeleton(t) = u  BY <1>2, <1>3, <1>4, SkeletonParts, SeqEqual
  <1>6. QED  BY <1>2, <1>5 DEF t, u

(* The shape of a side, part by part. *)
LEMMA ShapeParts ==
    ASSUME NEW side, Sided(side), NEW seen \in SUBSET Pairs
    PROVE  /\ Shape(side, seen) \in Shapes
           /\ Shape(side, seen).resource = side.resource
           /\ \A r \in Resource : Shape(side, seen).store[r] = Skeleton(side.store[r])
           /\ Shape(side, seen).commits = Skeleton(side.commits)
           /\ Shape(side, seen).held = {k \in Key : side.cache[k] # Null}
           /\ Shape(side, seen).ready
                  = {k \in Key : side.cache[k] # Null /\ ~ side.cache[k].locked}
           /\ Shape(side, seen).seen = seen
  <1>1. \A r \in Resource : Skeleton(side.store[r]) \in Seq(Outlines)
    BY SkeletonParts DEF Sided
  <1>2. Skeleton(side.commits) \in Seq(Outlines)  BY SkeletonParts DEF Sided
  <1>3. [r \in Resource |-> Skeleton(side.store[r])] \in [Resource -> Seq(Outlines)]
    BY <1>1
  <1>4. QED  BY <1>2, <1>3 DEF Shape, Shapes, Sided

(* What becomes of the stores when that of one resource changes. *)
LEMMA ShapeStore ==
    ASSUME NEW a, Sided(a), NEW b, Sided(b), NEW seen \in SUBSET Pairs, NEW more \in SUBSET Pairs,
           NEW r \in Resource, NEW s \in Seq(Split), b.store = [a.store EXCEPT ![r] = s]
    PROVE  Shape(b, more).store = [Shape(a, seen).store EXCEPT ![r] = Skeleton(s)]
  <1>1. Shape(a, seen).store \in [Resource -> Seq(Outlines)]
        /\ Shape(b, more).store \in [Resource -> Seq(Outlines)]
    BY ShapeParts DEF Shapes
  <1>2. \A q \in Resource : Shape(b, more).store[q] = IF q = r THEN Skeleton(s)
                                                     ELSE Shape(a, seen).store[q]
    <2> TAKE q \in Resource
    <2>1. b.store[q] = IF q = r THEN s ELSE a.store[q]  BY DEF Sided
    <2>2. /\ Shape(b, more).store[q] = Skeleton(b.store[q])
          /\ Shape(a, seen).store[q] = Skeleton(a.store[q])
      BY DEF Shape
    <2>3. QED  BY <2>1, <2>2
  <1>3. QED  BY <1>1, <1>2

(* Each part of a shape depends on one part of the side. *)
LEMMA ShapeSame ==
    ASSUME NEW a, Sided(a), NEW b, Sided(b), NEW seen \in SUBSET Pairs, NEW more \in SUBSET Pairs
    PROVE  /\ b.store = a.store => Shape(b, more).store = Shape(a, seen).store
           /\ b.commits = a.commits => Shape(b, more).commits = Shape(a, seen).commits
           /\ b.cache = a.cache => /\ Shape(b, more).held = Shape(a, seen).held
                                   /\ Shape(b, more).ready = Shape(a, seen).ready
  BY DEF Shape

-----------------------------------------------------------------------------
(* The link *)

(* How reading a request changes what a side holds.  "known" are the images
   that the agent's side may know to be on disk at the other side.           *)

Same(a, b, fields) == \A f \in fields : a[f] = b[f]

ReadsOpen(a, m, b) ==
    /\ m.type \in {"start", "end"}
    /\ b.resource = IF m.type = "start" THEN m.resource ELSE nothing
    /\ b.store = a.store /\ b.commits = a.commits
    /\ b.held = a.held /\ b.ready = a.ready /\ b.seen = a.seen

Added(m) == IF m.action = "added" THEN {m.key} ELSE {}

Fresh(a, m) ==
    /\ a.resource \in Resource
    /\ m.action = "hit" => m.key \in a.ready
    /\ m.action = "added" => m.key \notin a.held
    /\ "repeat" \notin May => <<a.resource, m.key>> \notin a.seen

ReadsImage(a, m, b) ==
    /\ m.type = "image" /\ Fresh(a, m)
    /\ b.resource = a.resource /\ b.commits = a.commits
    /\ b.store = IF m.split
                 THEN [a.store EXCEPT ![a.resource] =
                          Append(@, Outline(NewSplit(a.resource, m.key, m.action, "async")))]
                 ELSE a.store
    /\ b.held = a.held \cup Added(m)
    /\ b.ready = IF m.split THEN a.ready ELSE a.ready \cup Added(m)
    /\ b.seen = a.seen \cup {<<a.resource, m.key>>}

Got(split, m) ==
    [resource |-> split.resource, key |-> split.key, action |-> split.action,
     next |-> IF m.abort THEN Chunks ELSE split.next + m.count, started |-> TRUE]

MayAbort(r, split, known) == split.action = "hit" \/ <<r, split.key>> \in known

ReadsData(a, m, b, known) ==
    LET split == Head(a.store[m.resource])
        got == Got(split, m)
    IN /\ m.type = "data" /\ a.store[m.resource] # <<>>
       /\ split.started # m.start
       /\ m.abort => MayAbort(m.resource, split, known)
       /\ b.resource = a.resource
       /\ b.held = a.held /\ b.ready = a.ready /\ b.seen = a.seen
       /\ got.next <= Chunks
       /\ b.store = [a.store EXCEPT ![m.resource] =
                        IF got.next = Chunks THEN Tail(@) ELSE [@ EXCEPT ![1] = got]]
       /\ b.commits = IF got.next = Chunks THEN Append(a.commits, got) ELSE a.commits

Removable(held, splits) ==
    /\ HitsOf(splits) \subseteq held
    /\ \A i, j \in DOMAIN splits :
          splits[i].action = "hit" /\ splits[j].action = "hit"
             /\ splits[i].key = splits[j].key => i = j

ReadsAbort(a, m, b) ==
    /\ m.type = "abort"
    /\ "abort" \in May
    /\ Removable(a.held, a.store[m.resource])
    /\ b.resource = a.resource /\ b.commits = a.commits /\ b.seen = a.seen
    /\ b.store = [a.store EXCEPT ![m.resource] = <<>>]
    /\ b.held = a.held \ HitsOf(a.store[m.resource])
    /\ b.ready = a.ready \ HitsOf(a.store[m.resource])

ReadsCommit(a, m, b) ==
    LET split == Head(a.commits)
    IN /\ m.type = "commit" /\ a.commits # <<>>
       /\ split.resource = m.resource /\ Position(split) = m.position
       /\ split.action = "added" => split.key \in a.held
       /\ b.resource = a.resource /\ b.store = a.store /\ b.seen = a.seen
       /\ b.commits = Tail(a.commits)
       /\ b.held = a.held
       /\ b.ready = a.ready \cup Added(split)

Reads(a, m, b, known) ==
    \/ ReadsOpen(a, m, b) \/ ReadsImage(a, m, b) \/ ReadsData(a, m, b, known)
    \/ ReadsAbort(a, m, b) \/ ReadsCommit(a, m, b)

(* Reading the link leads from one shape to the other. *)
Chain(chain, a, link, b, known) ==
    /\ chain \in [1 .. Len(link) + 1 -> Shapes]
    /\ chain[1] = a /\ chain[Len(link) + 1] = b
    /\ \A i \in 1 .. Len(link) : Reads(chain[i], link[i], chain[i + 1], known)

Leads(a, link, b, known) == \E chain : Chain(chain, a, link, b, known)

(* An empty link leads a side to where it is. *)
LEMMA LeadsNowhere ==
    ASSUME NEW a \in Shapes, NEW known
    PROVE  Leads(a, <<>>, a, known)
  <1> DEFINE chain == [i \in 1 .. 1 |-> a]
  <1>1. Len(<<>>) = 0  BY EmptySeq
  <1>2. Chain(chain, a, <<>>, a, known)  BY <1>1 DEF Chain
  <1>3. QED  BY <1>2 DEF Leads

(* A request that is sent leads one step further. *)
LEMMA LeadsOn ==
    ASSUME NEW F \in Seq(Message), NEW m \in Message, NEW a, NEW b, NEW c \in Shapes, NEW known,
           Leads(a, F, b, known), Reads(b, m, c, known)
    PROVE  Leads(a, Append(F, m), c, known)
  <1> DEFINE G == Append(F, m)
             n == Len(F)
  <1>1. PICK chain : Chain(chain, a, F, b, known)  BY DEF Leads
  <1>2. /\ n \in Nat /\ Len(G) = n + 1 /\ G[n + 1] = m
        /\ \A i \in 1 .. n : G[i] = F[i]
    BY AppendProperties, LenProperties
  <1> HIDE DEF G, n
  <1> DEFINE more == [i \in 1 .. (n + 1) + 1 |-> IF i = n + 2 THEN c ELSE chain[i]]
  <1>3. /\ chain \in [1 .. n + 1 -> Shapes] /\ chain[1] = a /\ chain[n + 1] = b
        /\ \A i \in 1 .. n : Reads(chain[i], F[i], chain[i + 1], known)
    BY <1>1 DEF Chain, n
  <1>4. /\ more \in [1 .. (n + 1) + 1 -> Shapes]
        /\ more[1] = a /\ more[(n + 1) + 1] = c
        /\ \A i \in 1 .. n + 1 : more[i] = chain[i]
    BY <1>2, <1>3
  <1> HIDE DEF more
  <1>5. ASSUME NEW i \in 1 .. n + 1
        PROVE  Reads(more[i], G[i], more[i + 1], known)
    <2>1. CASE i = n + 1
      <3>1. more[i] = b /\ G[i] = m /\ more[i + 1] = c  BY <1>2, <1>3, <1>4, <2>1
      <3>2. QED  BY <3>1
    <2>2. CASE i # n + 1
      <3>1. i \in 1 .. n /\ i + 1 \in 1 .. n + 1  BY <1>2, <2>2
      <3>2. more[i] = chain[i] /\ G[i] = F[i] /\ more[i + 1] = chain[i + 1]
        BY <1>2, <1>4, <3>1
      <3>3. Reads(chain[i], F[i], chain[i + 1], known)  BY <1>3, <3>1
      <3>4. QED  BY <3>2, <3>3
    <2>3. QED  BY <2>1, <2>2
  <1>6. Chain(more, a, G, c, known)  BY <1>2, <1>4, <1>5 DEF Chain
  <1>7. QED  BY <1>6 DEF Leads, G

(* The first request on the link can be read, and the others lead on. *)
LEMMA LeadsFirst ==
    ASSUME NEW F \in Seq(Message), F # <<>>, NEW a, NEW c, NEW known, Leads(a, F, c, known)
    PROVE  \E b \in Shapes : Reads(a, Head(F), b, known) /\ Leads(b, Tail(F), c, known)
  <1> DEFINE G == Tail(F)
             n == Len(F)
  <1>1. PICK chain : Chain(chain, a, F, c, known)  BY DEF Leads
  <1>2. /\ n \in Nat \ {0} /\ Len(G) = n - 1 /\ Head(F) = F[1]
        /\ \A i \in 1 .. n - 1 : G[i] = F[i + 1]
    BY EmptySeq, HeadTailProperties
  <1> HIDE DEF G, n
  <1> DEFINE rest == [i \in 1 .. (n - 1) + 1 |-> chain[i + 1]]
  <1>3. /\ chain \in [1 .. n + 1 -> Shapes] /\ chain[1] = a /\ chain[n + 1] = c
        /\ \A i \in 1 .. n : Reads(chain[i], F[i], chain[i + 1], known)
    BY <1>1 DEF Chain, n
  <1>4. /\ rest \in [1 .. (n - 1) + 1 -> Shapes]
        /\ rest[(n - 1) + 1] = c /\ rest[1] = chain[2] /\ rest[1] \in Shapes
        /\ \A i \in 1 .. n : rest[i] = chain[i + 1]
    BY <1>2, <1>3
  <1> HIDE DEF rest
  <1>5. ASSUME NEW i \in 1 .. n - 1
        PROVE  Reads(rest[i], G[i], rest[i + 1], known)
    <2>1. i + 1 \in 1 .. n /\ i \in 1 .. n  BY <1>2
    <2>2. rest[i] = chain[i + 1] /\ G[i] = F[i + 1] /\ rest[i + 1] = chain[(i + 1) + 1]
      BY <1>2, <1>4, <2>1
    <2>3. Reads(chain[i + 1], F[i + 1], chain[(i + 1) + 1], known)  BY <1>3, <2>1
    <2>4. QED  BY <2>2, <2>3
  <1>6. Chain(rest, chain[2], G, c, known)  BY <1>2, <1>4, <1>5 DEF Chain
  <1>7. Reads(a, Head(F), chain[2], known)
    <2>1. 1 \in 1 .. n /\ chain[1] = a /\ F[1] = Head(F) /\ 1 + 1 = 2  BY <1>2, <1>3
    <2>2. Reads(chain[1], F[1], chain[1 + 1], known)  BY <1>3, <2>1
    <2>3. QED  BY <2>1, <2>2
  <1>8. QED  BY <1>4, <1>6, <1>7 DEF Leads, G

(* When nothing is on the link, the two sides have the same shape. *)
LEMMA LeadsEmpty ==
    ASSUME NEW a, NEW b, NEW known, Leads(a, <<>>, b, known)
    PROVE  a = b
  <1>1. Len(<<>>) = 0  BY EmptySeq
  <1>2. QED  BY <1>1 DEF Leads, Chain

(* What leads on still does when more is known. *)
LEMMA LeadsKnowing ==
    ASSUME NEW F \in Seq(Message), NEW a, NEW b, NEW known, NEW more, known \subseteq more,
           Leads(a, F, b, known)
    PROVE  Leads(a, F, b, more)
  <1>1. PICK chain : Chain(chain, a, F, b, known)  BY DEF Leads
  <1>2. ASSUME NEW i \in 1 .. Len(F)
        PROVE  Reads(chain[i], F[i], chain[i + 1], more)
    <2>1. Reads(chain[i], F[i], chain[i + 1], known)  BY <1>1 DEF Chain
    <2>2. ReadsData(chain[i], F[i], chain[i + 1], known)
              => ReadsData(chain[i], F[i], chain[i + 1], more)
      BY DEF ReadsData, MayAbort
    <2>3. QED  BY <2>1, <2>2 DEF Reads
  <1>3. Chain(chain, a, F, b, more)  BY <1>1, <1>2 DEF Chain
  <1>4. QED  BY <1>3 DEF Leads

-----------------------------------------------------------------------------
(* The events of the agent *)

(* Queues of events. *)
Of(e, types, r) == e.type \in types /\ e.resource = r

NoneOf(queue, types, r) == \A p \in DOMAIN queue : ~ Of(queue[p], types, r)

OneOf(queue, types, r) ==
    \E p \in DOMAIN queue : /\ Of(queue[p], types, r)
                            /\ \A q \in DOMAIN queue : Of(queue[q], types, r) => q = p

CommitOf(split) ==
    [type |-> "commit", resource |-> split.resource, position |-> Position(split)]

(* The commits of the queue are those of the commit store, in order. *)
ToldBy(f, commits, queue) ==
    /\ f \in [DOMAIN commits -> DOMAIN queue]
    /\ \A i, j \in DOMAIN commits : i < j => f[i] < f[j]
    /\ \A i \in DOMAIN commits : queue[f[i]] = CommitOf(commits[i])
    /\ \A p \in DOMAIN queue : queue[p].type = "commit" => \E i \in DOMAIN commits : f[i] = p

Told(commits, queue) == \E f : ToldBy(f, commits, queue)

(* What Append does to the places of a sequence. *)
LEMMA Appended ==
    ASSUME NEW S, NEW s \in Seq(S), NEW x \in S
    PROVE  /\ Append(s, x) \in Seq(S) /\ Len(s) \in Nat
           /\ Len(Append(s, x)) = Len(s) + 1
           /\ DOMAIN s = 1 .. Len(s) /\ DOMAIN Append(s, x) = 1 .. Len(s) + 1
           /\ Append(s, x)[Len(s) + 1] = x
           /\ \A i \in DOMAIN s : Append(s, x)[i] = s[i]
  BY AppendProperties, LenProperties

(* What RemoveAt does to the places of a sequence. *)
LEMMA Removed ==
    ASSUME NEW S, NEW s \in Seq(S), NEW i \in DOMAIN s
    PROVE  /\ RemoveAt(s, i) \in Seq(S) /\ Len(s) \in Nat \ {0} /\ i \in 1 .. Len(s)
           /\ Len(RemoveAt(s, i)) = Len(s) - 1
           /\ DOMAIN s = 1 .. Len(s) /\ DOMAIN RemoveAt(s, i) = 1 .. Len(s) - 1
           /\ \A j \in 1 .. Len(s) - 1 :
                 RemoveAt(s, i)[j] = IF j < i THEN s[j] ELSE s[j + 1]
           /\ i = 1 => RemoveAt(s, i) = Tail(s)
  <1>1. DOMAIN s = 1 .. Len(s) /\ Len(s) \in Nat  BY LenProperties
  <1>2. Len(s) \in Nat \ {0} /\ i \in 1 .. Len(s) /\ s # <<>>  BY <1>1, EmptySeq
  <1> DEFINE a == SubSeq(s, 1, i - 1)
             b == SubSeq(s, i + 1, Len(s))
  <1>3. /\ a \in Seq(S) /\ Len(a) = i - 1
        /\ \A j \in 1 .. i - 1 : a[j] = s[j]
    BY <1>1, <1>2
  <1>4. /\ b \in Seq(S) /\ Len(b) = Len(s) - i
        /\ \A j \in 1 .. Len(s) - i : b[j] = s[j + i]
    BY <1>1, <1>2
  <1> HIDE DEF a, b
  <1>5. /\ a \o b \in Seq(S) /\ Len(a \o b) = Len(s) - 1
        /\ \A j \in 1 .. Len(s) - 1 : (a \o b)[j] = IF j <= i - 1 THEN a[j] ELSE b[j - (i - 1)]
    BY <1>2, <1>3, <1>4, ConcatProperties
  <1>6. \A j \in 1 .. Len(s) - 1 : (a \o b)[j] = IF j < i THEN s[j] ELSE s[j + 1]
    <2> TAKE j \in 1 .. Len(s) - 1
    <2>1. CASE j < i  BY <2>1, <1>2, <1>3, <1>5
    <2>2. CASE ~ (j < i)
      <3>1. j - (i - 1) \in 1 .. Len(s) - i /\ (j - (i - 1)) + i = j + 1 /\ ~ (j <= i - 1)
        BY <1>2, <2>2
      <3>2. QED  BY <1>4, <1>5, <2>2, <3>1
    <2>3. QED  BY <2>1, <2>2
  <1>7. RemoveAt(s, i) = a \o b  BY DEF RemoveAt, a, b
  <1>8. ASSUME i = 1
        PROVE  a \o b = Tail(s)
    <2>1. Tail(s) \in Seq(S) /\ Len(Tail(s)) = Len(s) - 1
          /\ \A j \in 1 .. Len(s) - 1 : Tail(s)[j] = s[j + 1]
      BY <1>2, HeadTailProperties
    <2>2. \A j \in 1 .. Len(s) - 1 : ~ (j < 1)  BY <1>2
    <2>3. QED  BY <1>5, <1>6, <1>8, <2>1, <2>2, SeqEqual
  <1>9. DOMAIN (a \o b) = 1 .. Len(s) - 1  BY <1>5, LenProperties
  <1>10. QED  BY <1>1, <1>2, <1>5, <1>6, <1>7, <1>8, <1>9

(* The events of a kind after one was added. *)
LEMMA OfAppend ==
    ASSUME NEW queue \in Seq(Event), NEW e \in Event, NEW types, NEW r
    PROVE  /\ NoneOf(Append(queue, e), types, r)
                  <=> NoneOf(queue, types, r) /\ ~ Of(e, types, r)
           /\ NoneOf(queue, types, r) /\ Of(e, types, r)
                  => OneOf(Append(queue, e), types, r)
           /\ OneOf(queue, types, r) /\ ~ Of(e, types, r)
                  => OneOf(Append(queue, e), types, r)
  <1> DEFINE more == Append(queue, e)
             n == Len(queue)
  <1>1. /\ n \in Nat /\ DOMAIN queue = 1 .. n /\ DOMAIN more = 1 .. n + 1
        /\ more[n + 1] = e /\ \A i \in 1 .. n : more[i] = queue[i]
    BY Appended
  <1> HIDE DEF more, n
  <1>2. NoneOf(more, types, r) <=> NoneOf(queue, types, r) /\ ~ Of(e, types, r)
    <2>1. \A i \in 1 .. n + 1 : i = n + 1 \/ i \in 1 .. n  BY <1>1
    <2>2. \A i \in 1 .. n : i \in 1 .. n + 1  BY <1>1
    <2>3. n + 1 \in 1 .. n + 1  BY <1>1
    <2>4. QED  BY <1>1, <2>1, <2>2, <2>3 DEF NoneOf
  <1>3. NoneOf(queue, types, r) /\ Of(e, types, r) => OneOf(more, types, r)
    BY <1>1 DEF NoneOf, OneOf
  <1>4. OneOf(queue, types, r) /\ ~ Of(e, types, r) => OneOf(more, types, r)
    BY <1>1 DEF OneOf
  <1>5. QED  BY <1>2, <1>3, <1>4 DEF more

(* The events of a kind after one was taken. *)
LEMMA OfRemoved ==
    ASSUME NEW queue \in Seq(Event), NEW i \in DOMAIN queue, NEW types, NEW r
    PROVE  /\ NoneOf(queue, types, r) => NoneOf(RemoveAt(queue, i), types, r)
           /\ OneOf(queue, types, r) /\ Of(queue[i], types, r)
                  => NoneOf(RemoveAt(queue, i), types, r)
           /\ OneOf(queue, types, r) /\ ~ Of(queue[i], types, r)
                  => OneOf(RemoveAt(queue, i), types, r)
  <1> DEFINE less == RemoveAt(queue, i)
             n == Len(queue)
             old(j) == IF j < i THEN j ELSE j + 1
  <1>1. /\ n \in Nat \ {0} /\ DOMAIN queue = 1 .. n /\ DOMAIN less = 1 .. n - 1
        /\ i \in 1 .. n
        /\ \A j \in 1 .. n - 1 : less[j] = IF j < i THEN queue[j] ELSE queue[j + 1]
    BY Removed
  <1>2. \A j \in 1 .. n - 1 : old(j) \in 1 .. n /\ old(j) # i /\ less[j] = queue[old(j)]
    BY <1>1
  <1>3. \A j, k \in 1 .. n - 1 : old(j) = old(k) => j = k  BY <1>1
  <1>4. \A p \in 1 .. n : p # i => \E j \in 1 .. n - 1 : old(j) = p
    <2> SUFFICES ASSUME NEW p \in 1 .. n, p # i
                 PROVE  \E j \in 1 .. n - 1 : old(j) = p
      OBVIOUS
    <2>1. CASE p < i  BY <1>1, <2>1
    <2>2. CASE p > i
      <3>1. p - 1 \in 1 .. n - 1 /\ old(p - 1) = p  BY <1>1, <2>2
      <3>2. QED  BY <3>1
    <2>3. QED  BY <1>1, <2>1, <2>2
  <1> HIDE DEF less, n, old
  <1>5. NoneOf(queue, types, r) => NoneOf(less, types, r)
    BY <1>1, <1>2 DEF NoneOf
  <1>6. OneOf(queue, types, r) /\ Of(queue[i], types, r) => NoneOf(less, types, r)
    BY <1>1, <1>2 DEF NoneOf, OneOf
  <1>7. ASSUME OneOf(queue, types, r), ~ Of(queue[i], types, r)
        PROVE  OneOf(less, types, r)
    <2>1. PICK p \in 1 .. n : Of(queue[p], types, r)
                              /\ \A q \in 1 .. n : Of(queue[q], types, r) => q = p
      BY <1>1, <1>7 DEF OneOf
    <2>2. PICK j \in 1 .. n - 1 : old(j) = p  BY <1>4, <1>7, <2>1
    <2>3. Of(less[j], types, r)  BY <1>2, <2>1, <2>2
    <2>4. ASSUME NEW k \in 1 .. n - 1, Of(less[k], types, r)
          PROVE  k = j
      BY <1>2, <1>3, <2>1, <2>2, <2>4
    <2>5. QED  BY <1>1, <2>3, <2>4 DEF OneOf
  <1>8. QED  BY <1>5, <1>6, <1>7 DEF less

(* No commit is left in the store when no event tells of one. *)
LEMMA ToldNothing ==
    ASSUME NEW commits \in Seq(Split), NEW queue \in Seq(Event), Told(commits, queue),
           \A p \in DOMAIN queue : queue[p].type # "commit"
    PROVE  commits = <<>>
  <1>1. PICK f : ToldBy(f, commits, queue)  BY DEF Told
  <1>2. ASSUME NEW i \in DOMAIN commits
        PROVE  FALSE
    <2>1. f[i] \in DOMAIN queue /\ queue[f[i]] = CommitOf(commits[i])  BY <1>1 DEF ToldBy
    <2>2. CommitOf(commits[i]).type = "commit"  BY DEF CommitOf
    <2>3. QED  BY <2>1, <2>2
  <1>3. Len(commits) \in Nat /\ DOMAIN commits = 1 .. Len(commits)  BY LenProperties
  <1>4. Len(commits) # 0 => 1 \in DOMAIN commits  BY <1>3
  <1>5. QED  BY <1>2, <1>4, EmptySeq

(* A commit and the event that tells of it are added together. *)
LEMMA ToldCommit ==
    ASSUME NEW commits \in Seq(Split), NEW queue \in Seq(Event), Told(commits, queue),
           NEW s \in Split, NEW e \in Event, e = CommitOf(s)
    PROVE  Told(Append(commits, s), Append(queue, e))
  <1>1. PICK f : ToldBy(f, commits, queue)  BY DEF Told
  <1> DEFINE more == Append(commits, s)
             longer == Append(queue, e)
             n == Len(commits)
             m == Len(queue)
             g == [i \in 1 .. n + 1 |-> IF i = n + 1 THEN m + 1 ELSE f[i]]
  <1>2. /\ n \in Nat /\ DOMAIN commits = 1 .. n /\ DOMAIN more = 1 .. n + 1
        /\ more[n + 1] = s /\ \A i \in 1 .. n : more[i] = commits[i]
    BY Appended
  <1>3. /\ m \in Nat /\ DOMAIN queue = 1 .. m /\ DOMAIN longer = 1 .. m + 1
        /\ longer[m + 1] = e /\ \A i \in 1 .. m : longer[i] = queue[i]
    BY Appended
  <1> HIDE DEF more, longer, n, m
  <1>4. \A i \in 1 .. n : f[i] \in 1 .. m  BY <1>1, <1>2, <1>3 DEF ToldBy
  <1>5. g \in [1 .. n + 1 -> 1 .. m + 1]  BY <1>2, <1>3, <1>4
  <1>6. \A i \in 1 .. n + 1 : g[i] = IF i = n + 1 THEN m + 1 ELSE f[i]  OBVIOUS
  <1> HIDE DEF g
  <1>7. \A i \in 1 .. n + 1 : i = n + 1 \/ i \in 1 .. n  BY <1>2
  <1>8. \A i, j \in 1 .. n + 1 : i < j => g[i] < g[j]
    <2> TAKE i, j \in 1 .. n + 1
    <2>1. CASE j = n + 1  BY <2>1, <1>2, <1>3, <1>4, <1>6
    <2>2. CASE j # n + 1
      <3>1. i < j => i \in 1 .. n /\ j \in 1 .. n  BY <2>2, <1>2
      <3>2. i \in 1 .. n /\ j \in 1 .. n => g[i] = f[i] /\ g[j] = f[j]  BY <1>2, <1>6
      <3>3. i \in 1 .. n /\ j \in 1 .. n /\ i < j => f[i] < f[j]  BY <1>1, <1>2 DEF ToldBy
      <3>4. QED  BY <3>1, <3>2, <3>3
    <2>3. QED  BY <2>1, <2>2
  <1>9. \A i \in 1 .. n + 1 : longer[g[i]] = CommitOf(more[i])
    BY <1>1, <1>2, <1>3, <1>4, <1>6, <1>7 DEF ToldBy
  <1>10. ASSUME NEW p \in 1 .. m + 1, longer[p].type = "commit"
         PROVE  \E i \in 1 .. n + 1 : g[i] = p
    <2>1. CASE p = m + 1  BY <2>1, <1>2, <1>6
    <2>2. CASE p # m + 1
      <3>1. p \in 1 .. m /\ queue[p].type = "commit"  BY <2>2, <1>3, <1>10
      <3>2. PICK i \in 1 .. n : f[i] = p  BY <1>1, <1>2, <1>3, <3>1 DEF ToldBy
      <3>3. i \in 1 .. n + 1 /\ g[i] = p  BY <1>2, <1>6, <3>2
      <3>4. QED  BY <3>3
    <2>3. QED  BY <2>1, <2>2
  <1>11. ToldBy(g, more, longer)  BY <1>2, <1>3, <1>5, <1>8, <1>9, <1>10 DEF ToldBy
  <1>12. QED  BY <1>11 DEF Told, more, longer

(* Any other event tells of no commit. *)
LEMMA ToldOther ==
    ASSUME NEW commits, NEW queue \in Seq(Event), Told(commits, queue),
           NEW e \in Event, e.type # "commit"
    PROVE  Told(commits, Append(queue, e))
  <1>1. PICK f : ToldBy(f, commits, queue)  BY DEF Told
  <1> DEFINE longer == Append(queue, e)
             m == Len(queue)
  <1>3. /\ m \in Nat /\ DOMAIN queue = 1 .. m /\ DOMAIN longer = 1 .. m + 1
        /\ longer[m + 1] = e /\ \A i \in 1 .. m : longer[i] = queue[i]
    BY Appended
  <1> HIDE DEF longer, m
  <1>4. f \in [DOMAIN commits -> DOMAIN longer]  BY <1>1, <1>3 DEF ToldBy
  <1>5. \A i \in DOMAIN commits : f[i] \in 1 .. m /\ longer[f[i]] = CommitOf(commits[i])
    BY <1>1, <1>3 DEF ToldBy
  <1>6. \A p \in 1 .. m + 1 : longer[p].type = "commit" => p \in 1 .. m
    BY <1>3
  <1>7. ToldBy(f, commits, longer)
    BY <1>1, <1>3, <1>4, <1>5, <1>6 DEF ToldBy
  <1>8. QED  BY <1>7 DEF Told, longer

(* The first commit of the queue is that of the head of the commit store. *)
LEMMA ToldFirst ==
    ASSUME NEW commits \in Seq(Split), NEW queue \in Seq(Event), Told(commits, queue),
           NEW i \in DOMAIN queue, queue[i].type = "commit",
           \A j \in DOMAIN queue : j < i => queue[j].type # "commit"
    PROVE  /\ commits # <<>> /\ queue[i] = CommitOf(Head(commits))
           /\ Told(Tail(commits), RemoveAt(queue, i))
  <1>1. PICK f : ToldBy(f, commits, queue)  BY DEF Told
  <1> DEFINE less == RemoveAt(queue, i)
             rest == Tail(commits)
             n == Len(commits)
             m == Len(queue)
  <1>2. PICK h \in DOMAIN commits : f[h] = i  BY <1>1 DEF ToldBy
  <1>3. n \in Nat /\ DOMAIN commits = 1 .. n  BY LenProperties
  <1>4. commits # <<>> /\ n \in Nat \ {0}  BY <1>2, <1>3, EmptySeq
  <1>5. /\ rest \in Seq(Split) /\ Len(rest) = n - 1 /\ Head(commits) = commits[1]
        /\ \A j \in 1 .. n - 1 : rest[j] = commits[j + 1]
    BY <1>4, HeadTailProperties
  <1>6. DOMAIN rest = 1 .. n - 1  BY <1>5, LenProperties
  <1>7. /\ m \in Nat \ {0} /\ DOMAIN queue = 1 .. m /\ DOMAIN less = 1 .. m - 1
        /\ i \in 1 .. m
        /\ \A j \in 1 .. m - 1 : less[j] = IF j < i THEN queue[j] ELSE queue[j + 1]
    BY Removed
  <1> HIDE DEF less, rest, n, m
  <1>8. /\ \A j \in 1 .. n : f[j] \in 1 .. m /\ queue[f[j]] = CommitOf(commits[j])
        /\ \A j, k \in 1 .. n : j < k => f[j] < f[k]
        /\ \A p \in 1 .. m : queue[p].type = "commit" => \E j \in 1 .. n : f[j] = p
    BY <1>1, <1>3, <1>7 DEF ToldBy
  <1>0. \A s : CommitOf(s).type = "commit"  BY DEF CommitOf
  <1>9. \A j \in 1 .. n : queue[f[j]].type = "commit"  BY <1>0, <1>8
  <1>10. h = 1
    <2>1. 1 \in 1 .. n /\ h \in 1 .. n  BY <1>2, <1>3, <1>4
    <2>2. h # 1 => f[1] < f[h]  BY <1>4, <1>8, <2>1
    <2>3. ~ (f[1] < i)  BY <1>7, <1>8, <1>9, <2>1
    <2>4. QED  BY <1>2, <2>2, <2>3
  <1>11. queue[i] = CommitOf(Head(commits))  BY <1>2, <1>3, <1>5, <1>8, <1>10
  <1>12. \A j \in 2 .. n : f[j] > i /\ f[j] \in 1 .. m
    <2> TAKE j \in 2 .. n
    <2>1. 1 \in 1 .. n /\ j \in 1 .. n /\ 1 < j  BY <1>4
    <2>2. f[1] < f[j] /\ f[j] \in 1 .. m  BY <1>8, <2>1
    <2>3. QED  BY <1>2, <1>7, <1>10, <2>2
  <1> DEFINE g == [j \in 1 .. n - 1 |-> f[j + 1] - 1]
  <1>13. \A j \in 1 .. n - 1 : g[j] = f[j + 1] - 1 /\ j + 1 \in 2 .. n  BY <1>4
  <1>14. \A j \in 1 .. n - 1 : f[j + 1] - 1 \in 1 .. m - 1 /\ f[j + 1] > i
    <2> TAKE j \in 1 .. n - 1
    <2>1. f[j + 1] > i /\ f[j + 1] \in 1 .. m  BY <1>12, <1>13
    <2>2. QED  BY <1>7, <2>1
  <1>15. g \in [1 .. n - 1 -> 1 .. m - 1]  BY <1>14
  <1> HIDE DEF g
  <1>16. \A j, k \in 1 .. n - 1 : j < k => g[j] < g[k]
    <2> TAKE j, k \in 1 .. n - 1
    <2>1. j + 1 \in 1 .. n /\ k + 1 \in 1 .. n /\ (j < k => j + 1 < k + 1)  BY <1>4
    <2>2. j < k => f[j + 1] < f[k + 1]  BY <1>8, <2>1
    <2>3. f[j + 1] \in 1 .. m /\ f[k + 1] \in 1 .. m  BY <1>8, <2>1
    <2>4. QED  BY <1>7, <1>13, <2>2, <2>3
  <1>17. \A j \in 1 .. n - 1 : less[g[j]] = CommitOf(rest[j])
    <2> TAKE j \in 1 .. n - 1
    <2>0. g[j] = f[j + 1] - 1 /\ f[j + 1] - 1 \in 1 .. m - 1 /\ f[j + 1] > i
          /\ f[j + 1] \in 1 .. m
      BY <1>12, <1>13, <1>14
    <2>1. g[j] \in 1 .. m - 1 /\ ~ (g[j] < i) /\ g[j] + 1 = f[j + 1]
      BY <1>7, <2>0
    <2>2. less[g[j]] = queue[f[j + 1]]  BY <1>7, <2>1
    <2>3. j + 1 \in 1 .. n  BY <1>4
    <2>4. queue[f[j + 1]] = CommitOf(commits[j + 1])  BY <1>8, <2>3
    <2>5. QED  BY <1>5, <2>2, <2>4
  <1>18. ASSUME NEW p \in 1 .. m - 1, less[p].type = "commit"
         PROVE  \E j \in 1 .. n - 1 : g[j] = p
    <2>1. CASE p < i
      <3>1. p \in 1 .. m /\ queue[p].type = "commit"  BY <1>7, <1>18, <2>1
      <3>2. QED  BY <1>7, <2>1, <3>1
    <2>2. CASE ~ (p < i)
      <3>1. p + 1 \in 1 .. m /\ queue[p + 1].type = "commit"  BY <1>7, <1>18, <2>2
      <3>2. PICK k \in 1 .. n : f[k] = p + 1  BY <1>8, <3>1
      <3>3. k # 1  BY <1>2, <1>7, <1>10, <2>2, <3>2
      <3>4. k - 1 \in 1 .. n - 1 /\ (k - 1) + 1 = k  BY <1>4, <3>3
      <3>5. g[k - 1] = p
        <4>1. g[k - 1] = f[(k - 1) + 1] - 1  BY <1>13, <3>4
        <4>2. (p + 1) - 1 = p  BY <1>7
        <4>3. QED  BY <3>2, <3>4, <4>1, <4>2
      <3>6. QED  BY <3>4, <3>5
    <2>3. QED  BY <2>1, <2>2
  <1>19. ToldBy(g, rest, less)  BY <1>6, <1>7, <1>15, <1>16, <1>17, <1>18 DEF ToldBy
  <1>20. QED  BY <1>4, <1>11, <1>19 DEF Told, less, rest

(* Nothing changes when the agent handles something else. *)
LEMMA ToldDrop ==
    ASSUME NEW commits \in Seq(Split), NEW queue \in Seq(Event), Told(commits, queue),
           NEW i \in DOMAIN queue, queue[i].type # "commit"
    PROVE  Told(commits, RemoveAt(queue, i))
  <1>1. PICK f : ToldBy(f, commits, queue)  BY DEF Told
  <1> DEFINE less == RemoveAt(queue, i)
             n == Len(commits)
             m == Len(queue)
             g == [j \in 1 .. n |-> IF f[j] < i THEN f[j] ELSE f[j] - 1]
  <1>3. n \in Nat /\ DOMAIN commits = 1 .. n  BY LenProperties
  <1>7. /\ m \in Nat \ {0} /\ DOMAIN queue = 1 .. m /\ DOMAIN less = 1 .. m - 1
        /\ i \in 1 .. m
        /\ \A j \in 1 .. m - 1 : less[j] = IF j < i THEN queue[j] ELSE queue[j + 1]
    BY Removed
  <1> HIDE DEF less, n, m
  <1>8. /\ \A j \in 1 .. n : f[j] \in 1 .. m /\ queue[f[j]] = CommitOf(commits[j])
        /\ \A j, k \in 1 .. n : j < k => f[j] < f[k]
        /\ \A p \in 1 .. m : queue[p].type = "commit" => \E j \in 1 .. n : f[j] = p
    BY <1>1, <1>3, <1>7 DEF ToldBy
  <1>0. \A s : CommitOf(s).type = "commit"  BY DEF CommitOf
  <1>9. \A j \in 1 .. n : f[j] # i  BY <1>0, <1>8
  <1>10. g \in [1 .. n -> 1 .. m - 1]
    <2>1. \A j \in 1 .. n : (IF f[j] < i THEN f[j] ELSE f[j] - 1) \in 1 .. m - 1
      BY <1>7, <1>8, <1>9
    <2>2. QED  BY <2>1
  <1>11. \A j \in 1 .. n : g[j] = IF f[j] < i THEN f[j] ELSE f[j] - 1  OBVIOUS
  <1> HIDE DEF g
  <1>12. \A j, k \in 1 .. n : j < k => g[j] < g[k]
    <2> TAKE j, k \in 1 .. n
    <2>1. f[j] \in 1 .. m /\ f[k] \in 1 .. m /\ f[j] # i /\ f[k] # i  BY <1>8, <1>9
    <2>2. j < k => f[j] < f[k]  BY <1>8
    <2>3. QED  BY <1>7, <1>11, <2>1, <2>2
  <1>13. \A j \in 1 .. n : less[g[j]] = CommitOf(commits[j])
    <2> TAKE j \in 1 .. n
    <2>1. f[j] \in 1 .. m /\ f[j] # i /\ queue[f[j]] = CommitOf(commits[j])  BY <1>8, <1>9
    <2>2. g[j] \in 1 .. m - 1  BY <1>10
    <2>3. less[g[j]] = queue[f[j]]  BY <1>7, <1>11, <2>1, <2>2
    <2>4. QED  BY <2>1, <2>3
  <1>14. ASSUME NEW p \in 1 .. m - 1, less[p].type = "commit"
         PROVE  \E j \in 1 .. n : g[j] = p
    <2>1. CASE p < i
      <3>1. p \in 1 .. m /\ queue[p].type = "commit"  BY <1>7, <1>14, <2>1
      <3>2. PICK k \in 1 .. n : f[k] = p  BY <1>8, <3>1
      <3>3. QED  BY <1>11, <2>1, <3>2
    <2>2. CASE ~ (p < i)
      <3>1. p + 1 \in 1 .. m /\ queue[p + 1].type = "commit"  BY <1>7, <1>14, <2>2
      <3>2. PICK k \in 1 .. n : f[k] = p + 1  BY <1>8, <3>1
      <3>3. g[k] = p  BY <1>7, <1>11, <2>2, <3>2
      <3>4. QED  BY <3>3
    <2>3. QED  BY <2>1, <2>2
  <1>15. ToldBy(g, commits, less)
    BY <1>3, <1>7, <1>10, <1>12, <1>13, <1>14 DEF ToldBy
  <1>16. QED  BY <1>15 DEF Told, less

(* The least of a set of places. *)
LEMMA Least ==
    ASSUME NEW S \in SUBSET Nat, S # {}
    PROVE  /\ Min(S) \in S
           /\ \A i \in S : Min(S) <= i
  <1>1. PICK n \in S : \A m \in S : ~ (<<m, n>> \in OpToRel(<, Nat))
    BY NatLessThanWellFounded, WFMin
  <1>2. ASSUME NEW m \in S
        PROVE  n <= m
    <2>1. m \in Nat /\ n \in Nat  OBVIOUS
    <2>2. ~ (n <= m) => <<m, n>> \in OpToRel(<, Nat)  BY <2>1 DEF OpToRel
    <2>3. QED  BY <1>1, <2>2
  <1>3. QED  BY <1>1, <1>2 DEF Min

(* The loop over the events finds the first commit, if there is one. *)
LEMMA SelectCommit ==
    ASSUME NEW queue \in Seq(Event)
    PROVE  LET i == SelectInSeq(queue, IsCommit)
           IN \/ i = 0 /\ \A p \in DOMAIN queue : queue[p].type # "commit"
              \/ /\ i \in DOMAIN queue /\ queue[i].type = "commit"
                 /\ \A p \in DOMAIN queue : p < i => queue[p].type # "commit"
  <1> DEFINE I == {i \in 1 .. Len(queue) : IsCommit(queue[i])}
  <1>1. DOMAIN queue = 1 .. Len(queue) /\ Len(queue) \in Nat  BY LenProperties
  <1>2. SelectInSeq(queue, IsCommit) = IF I # {} THEN Min(I) ELSE 0  BY DEF SelectInSeq
  <1>3. CASE I = {}  BY <1>1, <1>2, <1>3 DEF IsCommit
  <1>4. CASE I # {}
    <2>1. I \in SUBSET Nat  BY <1>1
    <2>2. Min(I) \in I /\ \A i \in I : Min(I) <= i  BY <1>4, <2>1, Least
    <2>3. \A p \in DOMAIN queue : p < Min(I) => p \notin I  BY <1>1, <2>2
    <2>4. QED  BY <1>1, <1>2, <1>4, <2>2, <2>3 DEF IsCommit
  <1>5. QED  BY <1>3, <1>4

(* The search for the answer to a start finds one, if there is any. *)
LEMMA SelectOpening ==
    ASSUME NEW queue \in Seq(Event), SelectInSeq(queue, IsOpening) # 0
    PROVE  /\ SelectInSeq(queue, IsOpening) \in DOMAIN queue
           /\ queue[SelectInSeq(queue, IsOpening)].type \in {"no", "start"}
  <1> DEFINE I == {i \in 1 .. Len(queue) : IsOpening(queue[i])}
  <1>1. DOMAIN queue = 1 .. Len(queue) /\ Len(queue) \in Nat  BY LenProperties
  <1>2. SelectInSeq(queue, IsOpening) = IF I # {} THEN Min(I) ELSE 0  BY DEF SelectInSeq
  <1>3. I \in SUBSET Nat /\ I # {}  BY <1>1, <1>2
  <1>4. Min(I) \in I  BY <1>3, Least
  <1>5. QED  BY <1>1, <1>2, <1>3, <1>4 DEF IsOpening

(* A store is taken off the list of stores. *)
LEMMA RemovedFirst ==
    ASSUME NEW list \in Seq(Resource), NEW r \in Resource, Contains(list, r),
           \A i, j \in DOMAIN list : list[i] = list[j] => i = j
    PROVE  /\ RemoveFirst(list, r) \in Seq(Resource)
           /\ \A i, j \in DOMAIN RemoveFirst(list, r) :
                 RemoveFirst(list, r)[i] = RemoveFirst(list, r)[j] => i = j
           /\ \A q \in Resource :
                 Contains(RemoveFirst(list, r), q) <=> Contains(list, q) /\ q # r
  <1> DEFINE I == {i \in 1 .. Len(list) : list[i] = r}
             p == Min(I)
             less == RemoveAt(list, p)
             n == Len(list)
  <1>1. DOMAIN list = 1 .. n /\ n \in Nat  BY LenProperties
  <1>2. I # {} /\ I \in SUBSET Nat  BY <1>1 DEF Contains
  <1>3. p \in I  BY <1>2, Least
  <1>4. RemoveFirst(list, r) = less  BY <1>2 DEF RemoveFirst, SelectInSeq
  <1>5. p \in 1 .. n /\ list[p] = r  BY <1>3
  <1> HIDE DEF p, I
  <1>6. /\ less \in Seq(Resource) /\ Len(less) = n - 1 /\ DOMAIN less = 1 .. n - 1
        /\ \A j \in 1 .. n - 1 : less[j] = IF j < p THEN list[j] ELSE list[j + 1]
    BY <1>1, <1>5, Removed
  <1> HIDE DEF less, n
  <1>7. \A i, j \in 1 .. n - 1 : less[i] = less[j] => i = j
    <2> TAKE i, j \in 1 .. n - 1
    <2>1. i \in 1 .. n /\ i + 1 \in 1 .. n /\ j \in 1 .. n /\ j + 1 \in 1 .. n  BY <1>1
    <2>2. \A a, b \in 1 .. n : list[a] = list[b] => a = b  BY <1>1
    <2>3. /\ less[i] = IF i < p THEN list[i] ELSE list[i + 1]
          /\ less[j] = IF j < p THEN list[j] ELSE list[j + 1]
      BY <1>6
    <2>4. CASE i < p /\ j < p  BY <2>1, <2>2, <2>3, <2>4
    <2>5. CASE ~ (i < p) /\ ~ (j < p)
      <3>1. less[i] = less[j] => i + 1 = j + 1  BY <2>1, <2>2, <2>3, <2>5
      <3>2. QED  BY <1>1, <3>1
    <2>6. CASE i < p /\ ~ (j < p)
      <3>1. less[i] = less[j] => i = j + 1  BY <2>1, <2>2, <2>3, <2>6
      <3>2. QED  BY <1>1, <1>5, <2>6, <3>1
    <2>7. CASE ~ (i < p) /\ j < p
      <3>1. less[i] = less[j] => i + 1 = j  BY <2>1, <2>2, <2>3, <2>7
      <3>2. QED  BY <1>1, <1>5, <2>7, <3>1
    <2>8. QED  BY <2>4, <2>5, <2>6, <2>7
  <1>8. ASSUME NEW q \in Resource
        PROVE  (\E i \in 1 .. n - 1 : less[i] = q) <=> (\E i \in 1 .. n : list[i] = q) /\ q # r
    <2>1. ASSUME NEW i \in 1 .. n - 1, less[i] = q
          PROVE  (\E j \in 1 .. n : list[j] = q) /\ q # r
      <3>1. CASE i < p
        <4>1. i \in 1 .. n /\ list[i] = q /\ i # p  BY <1>1, <1>5, <1>6, <2>1, <3>1
        <4>2. QED  BY <1>1, <1>5, <4>1
      <3>2. CASE ~ (i < p)
        <4>1. i + 1 \in 1 .. n /\ list[i + 1] = q /\ i + 1 # p
          BY <1>1, <1>5, <1>6, <2>1, <3>2
        <4>2. QED  BY <1>1, <1>5, <4>1
      <3>3. QED  BY <3>1, <3>2
    <2>2. ASSUME NEW i \in 1 .. n, list[i] = q, q # r
          PROVE  \E j \in 1 .. n - 1 : less[j] = q
      <3>1. i # p  BY <1>5, <2>2
      <3>2. CASE i < p
        <4>1. i \in 1 .. n - 1 /\ less[i] = q  BY <1>1, <1>5, <1>6, <2>2, <3>2
        <4>2. QED  BY <4>1
      <3>3. CASE i > p
        <4>1. i - 1 \in 1 .. n - 1 /\ ~ (i - 1 < p) /\ (i - 1) + 1 = i  BY <1>1, <1>5, <3>3
        <4>2. less[i - 1] = q  BY <1>6, <2>2, <4>1
        <4>3. QED  BY <4>1, <4>2
      <3>4. QED  BY <1>5, <3>1, <3>2, <3>3
    <2>3. QED  BY <2>1, <2>2
  <1>9. \A q \in Resource : Contains(less, q) <=> Contains(list, q) /\ q # r
    BY <1>6, <1>8 DEF Contains, n
  <1>10. QED  BY <1>4, <1>6, <1>7, <1>9

-----------------------------------------------------------------------------
(* The agent's side *)

(* The stores of the agent's side: every split is of the resource of its store,
   and the agent knows of every commit.  A store that is not empty is in the
   list of stores.                                                           *)
Listed(c) ==
    /\ \A i, j \in DOMAIN c.list : c.list[i] = c.list[j] => i = j
    /\ \A r \in Resource : c.store[r] # <<>> => Contains(c.list, r)

StoreFits(s, r) == \A i \in DOMAIN s : s[i].resource = r /\ s[i].state # "notified"

StoresFit(c) ==
    /\ \A r \in Resource : StoreFits(c.store[r], r)
    /\ \A i \in DOMAIN c.commits : c.commits[i].state = "notified"
    /\ Listed(c)

(* A sequence that was started has its splits in the store or its end in the
   queue of the agent.                                                       *)
Ending(c, queue, r) ==
    \/ c.store[r] # <<>> /\ NoneOf(queue, {"end"}, r)
    \/ c.store[r] = <<>> /\ ~ Contains(c.list, r) /\ OneOf(queue, {"end"}, r)

(* What the agent's record of a resource says of its proxy and its events. *)
Phase(c, queue, r, state) ==
    /\ c.resource = r <=> state = "open"
    /\ state = "free" => c.store[r] = <<>>
    /\ state \in {"free", "open"} => NoneOf(queue, {"end"}, r)
    /\ state \in {"split", "released"} => Ending(c, queue, r)
    /\ state # "waiting" => NoneOf(queue, {"no", "start"}, r)
    /\ state = "waiting" =>
          /\ OneOf(queue, {"no", "start"}, r)
          /\ \/ NoneOf(queue, {"no"}, r)
             \/ c.store[r] = <<>> /\ NoneOf(queue, {"end"}, r)
          /\ NoneOf(queue, {"start"}, r) \/ Ending(c, queue, r)

Phases(c, queue, ag) == \A r \in Resource : Phase(c, queue, r, ag[r])

AgentStates == {"free", "open", "waiting", "split", "released"}

(* A split after a packet of it was sent, and the packet. *)
LEMMA SentParts ==
    ASSUME NEW s \in Split, NEW count \in {1, Chunks}
    PROVE  /\ Sent(s, count) \in Split
           /\ Sent(s, count).resource = s.resource /\ Sent(s, count).key = s.key
           /\ Sent(s, count).action = s.action
           /\ Sent(s, count).started = TRUE
           /\ Sent(s, count).next - s.next \in 0 .. Chunks
           /\ s.next \in 0 .. Chunks /\ Sent(s, count).next \in 0 .. Chunks
           /\ s.state = "loaded" => Sent(s, count).next = Chunks
           /\ Sent(s, count).state = IF s.state = "loaded" THEN "aborted" ELSE s.state
           /\ DataMessage(s, count) \in Message
           /\ DataMessage(s, count).type = "data"
           /\ DataMessage(s, count).resource = s.resource
           /\ DataMessage(s, count).start = ~ s.started
           /\ DataMessage(s, count).abort = (s.state = "loaded")
           /\ DataMessage(s, count).count = Sent(s, count).next - s.next
  <1> USE SizesAssumption
  <1> DEFINE t == Sent(s, count)
             m == DataMessage(s, count)
  <1>1. s.next \in 0 .. Chunks /\ s.key \in Key /\ s.resource \in Resource
        /\ s.state \in State /\ s.csize \in Format /\ s.started \in BOOLEAN
    BY DEF Split
  <1>2. count \in Nat /\ Chunks \in Nat  OBVIOUS
  <1>3. Compressed(s.key) \in {"plain", "ours", "theirs"}  BY DEF Compressed
  <1>4. /\ t.resource = s.resource /\ t.key = s.key /\ t.action = s.action
        /\ t.started = TRUE
        /\ t.next = IF s.state = "loaded" \/ s.next + count > Chunks THEN Chunks
                    ELSE s.next + count
        /\ t.state = IF s.state = "loaded" THEN "aborted" ELSE s.state
    BY DEF Sent, Split
  <1>5. t.next \in 0 .. Chunks /\ t.next - s.next \in 0 .. Chunks
    BY <1>1, <1>2, <1>4
  <1>6. t \in Split
    <2> DEFINE abort == s.state = "loaded"
               csize == IF s.started \/ abort THEN s.csize ELSE Compressed(s.key)
               next == IF abort \/ s.next + count > Chunks THEN Chunks ELSE s.next + count
               state == IF abort THEN "aborted" ELSE s.state
    <2>1. csize \in Format  BY <1>1, <1>3 DEF Format
    <2>2. next \in 0 .. Chunks  BY <1>1, <1>2
    <2>3. state \in State  BY <1>1 DEF State
    <2>4. t = [s EXCEPT !.started = TRUE, !.csize = csize, !.next = next, !.state = state]
      BY DEF Sent, Split
    <2> HIDE DEF abort, csize, next, state, t
    <2>5. QED  BY <2>1, <2>2, <2>3, <2>4 DEF Split
  <1>7. /\ m.type = "data" /\ m.resource = s.resource /\ m.start = ~ s.started
        /\ m.abort = (s.state = "loaded") /\ m.count = t.next - s.next
    BY DEF DataMessage
  <1>8. m \in Message
    <2> DEFINE format == IF s.state = "loaded" THEN "plain" ELSE Compressed(s.key)
    <2>1. format \in Format  BY <1>3 DEF Format
    <2>2. m = [type |-> "data", resource |-> s.resource, start |-> ~ s.started,
               format |-> format, abort |-> s.state = "loaded", count |-> t.next - s.next]
      BY DEF DataMessage
    <2> HIDE DEF format, m, t
    <2>3. (s.state = "loaded") \in BOOLEAN /\ (~ s.started) \in BOOLEAN  OBVIOUS
    <2>4. QED  BY <1>1, <1>5, <2>1, <2>2, <2>3 DEF Message
  <1>9. QED  BY <1>1, <1>4, <1>5, <1>6, <1>7, <1>8

(* The phase of a resource depends on few parts of the agent's side. *)
LEMMA PhaseSame ==
    ASSUME NEW c, NEW d, NEW queue, NEW r, NEW state,
           c.resource = r <=> d.resource = r, c.store[r] = <<>> <=> d.store[r] = <<>>,
           Contains(c.list, r) <=> Contains(d.list, r), Phase(c, queue, r, state)
    PROVE  Phase(d, queue, r, state)
  BY DEF Phase, Ending

(* An event of another kind or resource changes no phase when it is added. *)
LEMMA PhaseAppend ==
    ASSUME NEW c, NEW queue \in Seq(Event), NEW e \in Event, NEW r, NEW state,
           ~ Of(e, {"no", "start", "end"}, r), Phase(c, queue, r, state)
    PROVE  Phase(c, Append(queue, e), r, state)
  <1>1. /\ ~ Of(e, {"no", "start"}, r) /\ ~ Of(e, {"no"}, r) /\ ~ Of(e, {"start"}, r)
        /\ ~ Of(e, {"end"}, r)
    BY DEF Of
  <1>2. \A types \in {{"no", "start"}, {"no"}, {"start"}, {"end"}} :
           /\ NoneOf(queue, types, r) => NoneOf(Append(queue, e), types, r)
           /\ OneOf(queue, types, r) => OneOf(Append(queue, e), types, r)
    BY <1>1, OfAppend
  <1>3. QED  BY <1>2 DEF Phase, Ending

(* Nor does it when it is taken. *)
LEMMA PhaseRemoved ==
    ASSUME NEW c, NEW queue \in Seq(Event), NEW i \in DOMAIN queue, NEW r, NEW state,
           ~ Of(queue[i], {"no", "start", "end"}, r), Phase(c, queue, r, state)
    PROVE  Phase(c, RemoveAt(queue, i), r, state)
  <1>1. /\ ~ Of(queue[i], {"no", "start"}, r) /\ ~ Of(queue[i], {"no"}, r)
        /\ ~ Of(queue[i], {"start"}, r) /\ ~ Of(queue[i], {"end"}, r)
    BY DEF Of
  <1>2. \A types \in {{"no", "start"}, {"no"}, {"start"}, {"end"}} :
           /\ NoneOf(queue, types, r) => NoneOf(RemoveAt(queue, i), types, r)
           /\ OneOf(queue, types, r) => OneOf(RemoveAt(queue, i), types, r)
    BY <1>1, OfRemoved
  <1>3. QED  BY <1>2 DEF Phase, Ending

(* A resource whose store holds something, and what its record then says. *)
Due(c, queue, r, state) ==
    /\ c.resource = r <=> state = "open"
    /\ state # "free"
    /\ NoneOf(queue, {"end"}, r)
    /\ state # "waiting" => NoneOf(queue, {"no", "start"}, r)
    /\ state = "waiting" => OneOf(queue, {"no", "start"}, r) /\ NoneOf(queue, {"no"}, r)

(* A resource with splits under way has its answer ahead of it. *)
LEMMA PhaseDue ==
    ASSUME NEW c, NEW queue, NEW r, NEW state \in AgentStates,
           Phase(c, queue, r, state), c.store[r] # <<>>
    PROVE  Due(c, queue, r, state)
  <1>1. state = "waiting" => NoneOf(queue, {"end"}, r)
    <2> SUFFICES ASSUME state = "waiting"  PROVE NoneOf(queue, {"end"}, r)  OBVIOUS
    <2>1. OneOf(queue, {"no", "start"}, r) /\ NoneOf(queue, {"no"}, r)  BY DEF Phase
    <2>2. ~ NoneOf(queue, {"start"}, r)  BY <2>1 DEF OneOf, NoneOf, Of
    <2>3. QED  BY <2>2 DEF Phase, Ending
  <1>2. QED  BY <1>1 DEF Phase, Due, Ending, AgentStates

(* That stays so when other events are added. *)
LEMMA DueAppend ==
    ASSUME NEW c, NEW queue \in Seq(Event), NEW e \in Event, NEW r, NEW state,
           ~ Of(e, {"no", "start", "end"}, r), Due(c, queue, r, state)
    PROVE  Due(c, Append(queue, e), r, state)
  <1>1. /\ ~ Of(e, {"no", "start"}, r) /\ ~ Of(e, {"no"}, r) /\ ~ Of(e, {"end"}, r)
    BY DEF Of
  <1>2. \A types \in {{"no", "start"}, {"no"}, {"end"}} :
           /\ NoneOf(queue, types, r) => NoneOf(Append(queue, e), types, r)
           /\ OneOf(queue, types, r) => OneOf(Append(queue, e), types, r)
    BY <1>1, OfAppend
  <1>3. QED  BY <1>2 DEF Due

EndOf(r) == [type |-> "end", resource |-> r]
Empty == [type |-> "empty"]

(* How handleRestart ends for a store. *)
Gone(c, r) == c.store[r] = <<>> /\ r # c.resource

Ended(c, queue, r, d, more) ==
    LET told == IF Gone(c, r) THEN Append(queue, EndOf(r)) ELSE queue
    IN IF Gone(c, r) /\ Contains(c.list, r)
       THEN /\ d = [c EXCEPT !.list = RemoveFirst(@, r)]
            /\ more = IF Total(c) = {} THEN Append(told, Empty) ELSE told
       ELSE d = c /\ more = told

(* The events that the agent is sent. *)
LEMMA EventParts ==
    ASSUME NEW r \in Resource
    PROVE  /\ EndOf(r) \in Event /\ EndOf(r).type = "end" /\ EndOf(r).resource = r
           /\ Empty \in Event /\ Empty.type = "empty"
           /\ \A types, q : Of(EndOf(r), types, q) <=> "end" \in types /\ q = r
           /\ \A types, q : Of(Empty, types, q) => "empty" \in types
           /\ \A s \in Split : /\ CommitOf(s) \in Event /\ CommitOf(s).type = "commit"
                               /\ \A types, q : Of(CommitOf(s), types, q) => "commit" \in types
  <1>1. EndOf(r) \in Event /\ EndOf(r).type = "end" /\ EndOf(r).resource = r
    BY DEF EndOf, Event
  <1>2. Empty \in Event /\ Empty.type = "empty"  BY DEF Empty, Event
  <1>3. ASSUME NEW s \in Split
        PROVE  CommitOf(s) \in Event /\ CommitOf(s).type = "commit"
    <2>1. s.resource \in Resource /\ Position(s) \in Key \cup {Null}
      BY DEF Split, Position
    <2>2. QED  BY <2>1 DEF CommitOf, Event
  <1>4. QED  BY <1>1, <1>2, <1>3 DEF Of

(* A store that was emptied ends its sequence: the event is sent once. *)
LEMMA EndedFits ==
    ASSUME NEW c \in ClientChannel, NEW queue \in Seq(Event), NEW r \in Resource,
           NEW ag \in [Resource -> AgentStates],
           StoresFit(c), Told(c.commits, queue), Contains(c.list, r),
           \A q \in Resource : q # r => Phase(c, queue, q, ag[q]),
           Due(c, queue, r, ag[r]),
           NEW d, NEW more, Ended(c, queue, r, d, more)
    PROVE  /\ d \in ClientChannel /\ more \in Seq(Event)
           /\ StoresFit(d) /\ Told(d.commits, more) /\ Phases(d, more, ag)
           /\ d.resource = c.resource /\ d.store = c.store /\ d.commits = c.commits
           /\ d.cache = c.cache
  <1>1. CASE ~ Gone(c, r)
    <2>1. d = c /\ more = queue  BY <1>1 DEF Ended
    <2>2. Phase(c, queue, r, ag[r])
      <3>1. CASE c.resource = r  BY <3>1 DEF Due, Phase
      <3>2. CASE c.store[r] # <<>>  BY <3>2 DEF Due, Phase, Ending
      <3>3. QED  BY <1>1, <3>1, <3>2 DEF Gone
    <2>3. QED  BY <2>1, <2>2 DEF Phases
  <1>2. CASE Gone(c, r)
    <2> DEFINE told == Append(queue, EndOf(r))
               list == RemoveFirst(c.list, r)
    <2>1. /\ list \in Seq(Resource)
          /\ \A i, j \in DOMAIN list : list[i] = list[j] => i = j
          /\ \A q \in Resource : Contains(list, q) <=> Contains(c.list, q) /\ q # r
      BY RemovedFirst DEF StoresFit, Listed, ClientChannel
    <2>2. told \in Seq(Event)  BY EventParts
    <2>3. Told(c.commits, told)  BY EventParts, ToldOther
    <2> HIDE DEF list
    <2>4. d = [c EXCEPT !.list = list]
          /\ more = IF Total(c) = {} THEN Append(told, Empty) ELSE told
      BY <1>2 DEF Ended, list
    <2>5. d \in ClientChannel  BY <2>1, <2>4 DEF ClientChannel
    <2>6. /\ d.resource = c.resource /\ d.store = c.store /\ d.commits = c.commits
          /\ d.cache = c.cache /\ d.list = list
      BY <2>4 DEF ClientChannel
    <2>7. StoresFit(d)
      <3>1. \A q \in Resource : d.store[q] # <<>> => q # r  BY <1>2, <2>6 DEF Gone
      <3>2. QED  BY <2>1, <2>6, <3>1 DEF StoresFit, Listed
    <2>8. Phases(d, told, ag)
      <3> SUFFICES ASSUME NEW q \in Resource  PROVE Phase(d, told, q, ag[q])
        BY DEF Phases
      <3>1. CASE q # r
        <4>1. Phase(d, queue, q, ag[q])  BY <2>1, <2>6, <3>1, PhaseSame
        <4>2. ~ Of(EndOf(r), {"no", "start", "end"}, q)  BY <3>1, EventParts
        <4>3. QED  BY <4>1, <4>2, EventParts, PhaseAppend
      <3>2. CASE q = r
        <4>1. OneOf(told, {"end"}, r)
          <5>1. NoneOf(queue, {"end"}, r) /\ Of(EndOf(r), {"end"}, r)
            BY EventParts DEF Due
          <5>2. QED  BY <5>1, EventParts, OfAppend
        <4>2. \A types \in {{"no", "start"}, {"no"}} :
                 /\ NoneOf(queue, types, r) => NoneOf(told, types, r)
                 /\ OneOf(queue, types, r) => OneOf(told, types, r)
          <5>1. /\ ~ Of(EndOf(r), {"no", "start"}, r) /\ ~ Of(EndOf(r), {"no"}, r)
            BY EventParts
          <5>2. QED  BY <5>1, EventParts, OfAppend
        <4>3. Ending(d, told, r)  BY <1>2, <2>1, <2>6, <4>1 DEF Ending, Gone
        <4>4. ag[r] \notin {"free", "open"} /\ d.resource # r
          BY <1>2, <2>6 DEF Due, Gone
        <4>5. QED  BY <3>2, <4>2, <4>3, <4>4 DEF Due, Phase
      <3>3. QED  BY <3>1, <3>2
    <2> HIDE DEF told
    <2>9. CASE Total(c) # {}  BY <2>2, <2>3, <2>4, <2>5, <2>6, <2>7, <2>8, <2>9
    <2>10. CASE Total(c) = {}
      <3>1. more = Append(told, Empty)  BY <2>4, <2>10
      <3>2. more \in Seq(Event)  BY <2>2, <3>1, EventParts
      <3>3. Told(d.commits, more)  BY <2>2, <2>3, <2>6, <3>1, EventParts, ToldOther
      <3>4. Phases(d, more, ag)
        <4> SUFFICES ASSUME NEW q \in Resource  PROVE Phase(d, more, q, ag[q])
          BY DEF Phases
        <4>1. ~ Of(Empty, {"no", "start", "end"}, q)  BY EventParts
        <4>2. QED  BY <2>2, <2>8, <3>1, <4>1, EventParts, PhaseAppend DEF Phases
      <3>5. QED  BY <2>5, <2>6, <2>7, <3>2, <3>3, <3>4
    <2>11. QED  BY <2>9, <2>10
  <1>3. QED  BY <1>1, <1>2

-----------------------------------------------------------------------------
(* Sending *)

(* One place of a sequence. *)
LEMMA OneInOrder ==
    ASSUME NEW S, NEW s \in Seq(S), NEW n \in DOMAIN s
    PROVE  InOrder(s, {n}) = <<s[n]>>
  <1> DEFINE i0(p) == Cardinality({q \in {n} : q <= p})
  <1>1. n \in Nat  BY LenProperties
  <1>2. {q \in {n} : q <= n} = {n}  BY <1>1
  <1>3. Cardinality({n}) = 1  BY FS_Singleton
  <1>4. \A i \in 1 .. 1 : (CHOOSE p \in {n} : i0(p) = i) = n
    <2>1. i0(n) = 1  BY <1>2, <1>3
    <2> HIDE DEF i0
    <2>2. QED  BY <2>1
  <1>5. InOrder(s, {n}) = [i \in 1 .. 1 |-> s[CHOOSE p \in {n} : i0(p) = i]]
    BY <1>3 DEF InOrder
  <1> HIDE DEF i0
  <1>6. InOrder(s, {n}) = [i \in 1 .. 1 |-> s[n]]  BY <1>4, <1>5
  <1>7. QED  BY <1>6

Restarted(h, c, queue, r, f) ==
    Ended(c, queue, r, f.c, f.ev) /\ f = [h EXCEPT !.c = f.c, !.ev = f.ev]

(* Where every commit was told, the transfer of a split is told. *)
LEMMA RestartFresh ==
    ASSUME NEW h \in Sender, NEW old \in Seq(Split), NEW split \in Split, NEW r \in Resource,
           h.c.commits = Append(old, split), \A i \in DOMAIN old : old[i].state = "notified",
           split.state # "notified", split.resource = r,
           NEW done, done = [split EXCEPT !.state = "notified"],
           NEW c, c = [h.c EXCEPT !.commits = Append(old, done)],
           NEW queue, queue = Append(h.ev, CommitOf(done)),
           NEW f, f = Restart(h, r)
    PROVE  Restarted(h, c, queue, r, f)
  <1> DEFINE all == h.c.commits
             n == Len(old) + 1
             e == [type |-> "commit", resource |-> r, position |-> Position(split)]
             told == [i \in DOMAIN all |-> [all[i] EXCEPT !.state = "notified"]]
             ended == IF h.c.store[r] = <<>> /\ r # h.c.resource
                      THEN <<EndOf(r)>> ELSE <<>>
             g == [h EXCEPT !.c.commits = told, !.ev = (@ \o <<e>>) \o ended]
  <1>1. /\ Len(old) \in Nat /\ DOMAIN old = 1 .. Len(old) /\ DOMAIN all = 1 .. n
        /\ all[n] = split /\ \A i \in DOMAIN old : all[i] = old[i]
        /\ all \in Seq(Split)
    BY Appended
  <1>2. n \in DOMAIN all  BY <1>1
  <1>3. \A i \in 1 .. n : i = n \/ i \in DOMAIN old  BY <1>1
  <1>4. {i \in DOMAIN all : all[i].state # "notified"} = {n}  BY <1>1, <1>2, <1>3
  <1>5. InOrder(all, {n}) = <<split>>  BY <1>1, <1>2, OneInOrder
  <1>6. Restart(h, r) = RemoveEmpty(g, r)
    <2>1. [i \in 1 .. Len(<<split>>) |-> [type |-> "commit", resource |-> r,
                                         position |-> Position(<<split>>[i])]] = <<e>>
      <3>1. Len(<<split>>) = 1 /\ <<split>>[1] = split  OBVIOUS
      <3>2. <<e>> = [i \in 1 .. 1 |-> e]  OBVIOUS
      <3>3. \A i \in 1 .. 1 : [type |-> "commit", resource |-> r,
                               position |-> Position(<<split>>[i])] = e
        BY <3>1
      <3>4. QED  BY <3>1, <3>2, <3>3
    <2> HIDE DEF all, n, e
    <2>2. QED  BY <1>4, <1>5, <2>1 DEF Restart, EndOf, all
  <1>7. done \in Split /\ Position(done) = Position(split) /\ done.resource = r
    BY DEF Split, Position, State
  <1>8. told = Append(old, done)
    <2>1. /\ Append(old, done) \in Seq(Split) /\ DOMAIN Append(old, done) = 1 .. n
          /\ Append(old, done)[n] = done
          /\ \A i \in DOMAIN old : Append(old, done)[i] = old[i]
      BY <1>7, Appended
    <2>2. \A i \in DOMAIN old : [old[i] EXCEPT !.state = "notified"] = old[i]
      <3>1. \A i \in DOMAIN old : old[i] \in Split  BY <1>1, ElementOfSeq
      <3>2. \A s \in Split : s.state = "notified" => [s EXCEPT !.state = "notified"] = s
        BY DEF Split
      <3>3. QED  BY <3>1, <3>2
    <2>3. \A i \in 1 .. n : told[i] = Append(old, done)[i]
      BY <1>1, <1>3, <2>1, <2>2
    <2>4. told = [i \in 1 .. n |-> told[i]]  BY <1>1
    <2>5. Append(old, done) = [i \in 1 .. n |-> Append(old, done)[i]]  BY <2>1, SeqDef
    <2>6. QED  BY <2>3, <2>4, <2>5
  <1>9. e = CommitOf(done)  BY <1>7 DEF CommitOf
  <1>10. CommitOf(done) \in Event  BY <1>7, EventParts
  <1>11. h.ev \in Seq(Event) /\ h.c \in ClientChannel  BY DEF Sender
  <1>12. g = [h EXCEPT !.c = c, !.ev = queue \o ended]
    <2>1. h.ev \o <<e>> = queue  BY <1>9, <1>10, <1>11
    <2> HIDE DEF e, ended, told
    <2>2. QED  BY <1>8, <2>1
  <1>13. queue \in Seq(Event)  BY <1>10, <1>11
  <1>14. c.store = h.c.store /\ c.resource = h.c.resource /\ c.list = h.c.list
    BY <1>11 DEF ClientChannel
  <1>15. g.c = c /\ g.ev = queue \o ended /\ g = [h EXCEPT !.c = g.c, !.ev = g.ev]
    <2> HIDE DEF ended
    <2>1. QED  BY <1>12 DEF Sender
  <1>16. g.ev = IF Gone(c, r) THEN Append(queue, EndOf(r)) ELSE queue
    <2>1. EndOf(r) \in Event  BY EventParts
    <2>2. queue \o <<EndOf(r)>> = Append(queue, EndOf(r)) /\ queue \o <<>> = queue
      BY <1>13, <2>1
    <2>3. QED  BY <1>14, <1>15, <2>2 DEF Gone
  <1> HIDE DEF g
  <1>17. Ended(c, queue, r, f.c, f.ev) /\ f = [h EXCEPT !.c = f.c, !.ev = f.ev]
    <2>1. CASE Gone(c, r) /\ Contains(c.list, r)
      <3>1. RemoveEmpty(g, r) = [g EXCEPT !.c.list = RemoveFirst(@, r),
                               !.ev = IF Total(g.c) = {} THEN Append(@, Empty) ELSE @]
        BY <1>15, <2>1 DEF RemoveEmpty, Gone, Empty
      <3>2. /\ f.c = [c EXCEPT !.list = RemoveFirst(@, r)]
            /\ f.ev = IF Total(c) = {} THEN Append(g.ev, Empty) ELSE g.ev
            /\ f = [h EXCEPT !.c = f.c, !.ev = f.ev]
        <4> DEFINE list == RemoveFirst(c.list, r)
                   more == IF Total(c) = {} THEN Append(g.ev, Empty) ELSE g.ev
        <4>1. f = [g EXCEPT !.c = [@ EXCEPT !.list = list], !.ev = more]
          BY <1>6, <1>15, <3>1
        <4>2. f = [h EXCEPT !.c = [c EXCEPT !.list = list], !.ev = more]
          <5> HIDE DEF list, more
          <5>1. QED  BY <1>15, <4>1 DEF Sender
        <4>3. f.c = [c EXCEPT !.list = list] /\ f.ev = more
          <5> HIDE DEF list, more
          <5>1. QED  BY <4>2 DEF Sender
        <4>4. QED  BY <4>2, <4>3
      <3>3. QED  BY <1>16, <2>1, <3>2 DEF Ended
    <2>2. CASE ~ (Gone(c, r) /\ Contains(c.list, r))
      <3>1. f = g  BY <1>6, <1>15, <2>2 DEF RemoveEmpty, Gone
      <3>2. QED  BY <1>15, <1>16, <2>2, <3>1 DEF Ended
    <2>3. QED  BY <2>1, <2>2
  <1>18. QED  BY <1>17 DEF Restarted

(* The agent's side aborts only what it knows that the other side has. *)
Knows(c, known) ==
    \A r \in Resource : \A i \in DOMAIN c.store[r] :
        c.store[r][i].state = "loaded" => MayAbort(r, c.store[r][i], known)

Fits(c, link, queue, ag, a, seen, known) ==
    /\ c \in ClientChannel /\ link \in Seq(Message) /\ queue \in Seq(Event)
    /\ StoresFit(c) /\ Told(c.commits, queue) /\ Phases(c, queue, ag)
    /\ Knows(c, known)
    /\ Leads(a, link, Shape(c, seen), known)

(* A resource that is free has no commits. *)
Asked(c, ag) ==
    \A r \in Resource : ag[r] = "free" =>
        \A i \in DOMAIN c.commits : c.commits[i].resource # r

(* A message added to the cache by a split that is still in a store. *)
UnderWay(c, k) ==
    \/ \E i \in DOMAIN c.commits : c.commits[i].key = k /\ c.commits[i].action = "added"
    \/ \E r \in Resource : \E i \in DOMAIN c.store[r] :
          c.store[r][i].key = k /\ c.store[r][i].action = "added"

(* What sending leaves alone. *)
Keeps(c, d) ==
    /\ d.cache = c.cache /\ d.resource = c.resource /\ d.mode = c.mode
    /\ \A k \in Key : UnderWay(d, k) <=> UnderWay(c, k)

(* The store and the commits after a packet of the head of the store of r. *)
Moved(c, r, part, done, d) ==
    \/ /\ part.next # Chunks
       /\ d.store = [c.store EXCEPT ![r] = [@ EXCEPT ![1] = part]]
       /\ d.commits = c.commits
    \/ /\ part.next = Chunks
       /\ d.store = [c.store EXCEPT ![r] = Tail(@)]
       /\ d.commits = Append(c.commits, done)

(* The agent's side is a side, with a list of stores. *)
LEMMA ClientSided ==
    ASSUME NEW c \in ClientChannel
    PROVE  /\ Sided(c) /\ c.list \in Seq(Resource)
           /\ \A r \in Resource : c.store[r] \in Seq(Split)
  BY DEF ClientChannel, Sided

(* The other side can read a packet of the head of a store, and is then
   where the agent's side is.                                                *)
LEMMA DataReads ==
    ASSUME NEW c \in ClientChannel, NEW d \in ClientChannel, NEW seen \in SUBSET Pairs,
           NEW known, NEW r \in Resource, c.store[r] # <<>>, StoreFits(c.store[r], r),
           Knows(c, known), NEW count \in {1, Chunks},
           NEW part, part = Sent(Head(c.store[r]), count),
           NEW done \in Split, Outline(done) = Outline(part), Moved(c, r, part, done, d),
           d.resource = c.resource, d.cache = c.cache
    PROVE  /\ Reads(Shape(c, seen), DataMessage(Head(c.store[r]), count), Shape(d, seen), known)
           /\ Shape(d, seen) \in Shapes
           /\ DataMessage(Head(c.store[r]), count) \in Message
  <1> DEFINE a == Shape(c, seen)
             b == Shape(d, seen)
             s == c.store[r]
             m == DataMessage(Head(s), count)
             o == Outline(Head(s))
  <1>1. Sided(c) /\ Sided(d) /\ s \in Seq(Split)  BY ClientSided
  <1>2. /\ Head(s) \in Split /\ Tail(s) \in Seq(Split) /\ Head(s) = s[1] /\ 1 \in DOMAIN s
        /\ Skeleton(Tail(s)) = Tail(Skeleton(s)) /\ Head(Skeleton(s)) = o
    BY <1>1, SkeletonTail
  <1>3. /\ part \in Split
        /\ part.resource = Head(s).resource /\ part.key = Head(s).key
        /\ part.action = Head(s).action /\ part.started = TRUE
        /\ Head(s).next \in 0 .. Chunks /\ part.next \in 0 .. Chunks
        /\ Head(s).state = "loaded" => part.next = Chunks
        /\ m \in Message /\ m.type = "data" /\ m.resource = Head(s).resource
        /\ m.start = ~ Head(s).started /\ m.abort = (Head(s).state = "loaded")
        /\ m.count = part.next - Head(s).next
    BY <1>2, SentParts
  <1>4. Head(s).resource = r  BY <1>2 DEF StoreFits
  <1>5. /\ o.resource = Head(s).resource /\ o.key = Head(s).key /\ o.action = Head(s).action
        /\ o.next = Head(s).next /\ o.started = Head(s).started /\ o \in Outlines
    BY <1>2, OutlineParts
  <1>6. Got(o, m) = Outline(part)
    <2>1. Head(s).next + (part.next - Head(s).next) = part.next
      <3>1. \A x, y \in 0 .. Chunks : x + (y - x) = y  BY SizesAssumption
      <3>2. QED  BY <1>3, <3>1
    <2>2. (IF m.abort THEN Chunks ELSE o.next + m.count) = part.next
      BY <1>3, <1>5, <2>1
    <2> HIDE DEF o, m
    <2>3. QED  BY <1>3, <1>5, <2>2 DEF Outline, Got
  <1>7. Got(o, m).next = part.next  BY <1>3, <1>6, OutlineParts
  <1>8. /\ a.store \in [Resource -> Seq(Outlines)] /\ a.store[r] = Skeleton(s)
        /\ a.commits = Skeleton(c.commits) /\ b.commits = Skeleton(d.commits)
        /\ a.resource = c.resource /\ b.resource = d.resource
        /\ b.held = a.held /\ b.ready = a.ready /\ b.seen = a.seen /\ b \in Shapes
    BY <1>1, ShapeParts, ShapeSame DEF Shapes
  <1>9. Head(a.store[r]) = o /\ a.store[r] # <<>>  BY <1>1, <1>2, <1>8, SkeletonParts
  <1>10. m.abort => MayAbort(r, o, known)
    <2>1. Head(s).state = "loaded" => MayAbort(r, Head(s), known)  BY <1>2 DEF Knows
    <2>2. QED  BY <1>3, <1>5, <2>1 DEF MayAbort
  <1>11. c.commits \in Seq(Split)  BY DEF ClientChannel
  <1>12. b.store = [a.store EXCEPT ![r] = IF part.next = Chunks THEN Tail(@)
                                         ELSE [@ EXCEPT ![1] = Got(o, m)]]
    <2>1. CASE part.next # Chunks
      <3>1. d.store = [c.store EXCEPT ![r] = [s EXCEPT ![1] = part]]  BY <2>1 DEF Moved
      <3>2. [s EXCEPT ![1] = part] \in Seq(Split)
            /\ Skeleton([s EXCEPT ![1] = part]) = [Skeleton(s) EXCEPT ![1] = Outline(part)]
        BY <1>1, <1>3, SkeletonFirst
      <3>3. b.store = [a.store EXCEPT ![r] = Skeleton([s EXCEPT ![1] = part])]
        <4> DEFINE t == [s EXCEPT ![1] = part]
        <4>1. t \in Seq(Split) /\ d.store = [c.store EXCEPT ![r] = t]  BY <3>1, <3>2
        <4> HIDE DEF t
        <4>2. b.store = [a.store EXCEPT ![r] = Skeleton(t)]  BY <1>1, <4>1, ShapeStore
        <4>3. QED  BY <4>2 DEF t
      <3> HIDE DEF a, b, s, m, o
      <3>4. QED  BY <1>6, <1>8, <2>1, <3>2, <3>3
    <2>2. CASE part.next = Chunks
      <3>1. d.store = [c.store EXCEPT ![r] = Tail(s)]  BY <2>2 DEF Moved
      <3>2. b.store = [a.store EXCEPT ![r] = Skeleton(Tail(s))]
        <4> DEFINE t == Tail(s)
        <4>1. t \in Seq(Split) /\ d.store = [c.store EXCEPT ![r] = t]  BY <1>2, <3>1
        <4> HIDE DEF t
        <4>2. b.store = [a.store EXCEPT ![r] = Skeleton(t)]  BY <1>1, <4>1, ShapeStore
        <4>3. QED  BY <4>2 DEF t
      <3> HIDE DEF a, b, s, m, o
      <3>3. QED  BY <1>2, <1>8, <2>2, <3>2
    <2>3. QED  BY <2>1, <2>2
  <1>13. b.commits = IF part.next = Chunks THEN Append(a.commits, Got(o, m)) ELSE a.commits
    <2>1. CASE part.next # Chunks  BY <1>8, <2>1 DEF Moved
    <2>2. CASE part.next = Chunks
      <3>1. Skeleton(Append(c.commits, done)) = Append(Skeleton(c.commits), Outline(done))
        BY <1>11, SkeletonAppend
      <3> HIDE DEF a, b, s, m, o
      <3>2. QED  BY <1>6, <1>8, <2>2, <3>1 DEF Moved
    <2>3. QED  BY <2>1, <2>2
  <1> HIDE DEF a, b, s, m, o
  <1>14. ReadsData(a, m, b, known)
    <2>1. m.type = "data" /\ m.resource = r /\ o.started # m.start
      <3>1. o.started \in BOOLEAN  BY <1>5 DEF Outlines
      <3>2. QED  BY <1>3, <1>4, <1>5, <3>1
    <2>2. Got(o, m).next <= Chunks  BY <1>3, <1>7, SizesAssumption
    <2>3. QED  BY <1>7, <1>8, <1>9, <1>10, <1>12, <1>13, <2>1, <2>2 DEF ReadsData
  <1>15. QED  BY <1>3, <1>8, <1>14 DEF Reads, a, b, m, s

(* Where the splits are after a packet was sent. *)
LEMMA MovedParts ==
    ASSUME NEW c \in ClientChannel, NEW d \in ClientChannel, NEW r \in Resource,
           c.store[r] # <<>>, NEW part \in Split, NEW done \in Split,
           Moved(c, r, part, done, d)
    PROVE  /\ \A q \in Resource : \A i \in DOMAIN d.store[q] :
                 \/ \E j \in DOMAIN c.store[q] : d.store[q][i] = c.store[q][j]
                 \/ q = r /\ d.store[q][i] = part /\ part.next # Chunks
           /\ \A q \in Resource : \A j \in DOMAIN c.store[q] :
                 \/ \E i \in DOMAIN d.store[q] : d.store[q][i] = c.store[q][j]
                 \/ /\ q = r /\ c.store[q][j] = Head(c.store[r])
                    /\ \/ \E i \in DOMAIN d.store[r] : d.store[r][i] = part
                       \/ part.next = Chunks
           /\ \A i \in DOMAIN d.commits :
                 \/ \E j \in DOMAIN c.commits : d.commits[i] = c.commits[j]
                 \/ d.commits[i] = done /\ part.next = Chunks
           /\ \A j \in DOMAIN c.commits : \E i \in DOMAIN d.commits : d.commits[i] = c.commits[j]
           /\ part.next = Chunks => \E i \in DOMAIN d.commits : d.commits[i] = done
           /\ \A q \in Resource : q # r => d.store[q] = c.store[q]
           /\ part.next # Chunks => d.store[r] # <<>>
  <1> DEFINE s == c.store[r]
             n == Len(s)
             m == Len(c.commits)
  <1>1. s \in Seq(Split) /\ c.commits \in Seq(Split) /\ c.store \in [Resource -> Seq(Split)]
    BY DEF ClientChannel
  <1>2. n \in Nat \ {0} /\ DOMAIN s = 1 .. n /\ Head(s) = s[1]
    BY <1>1, EmptySeq, LenProperties
  <1>3. m \in Nat /\ DOMAIN c.commits = 1 .. m  BY <1>1, LenProperties
  <1>4. CASE part.next # Chunks
    <2> DEFINE t == [s EXCEPT ![1] = part]
    <2>1. d.store = [c.store EXCEPT ![r] = t] /\ d.commits = c.commits
      BY <1>4 DEF Moved
    <2>2. DOMAIN t = 1 .. n /\ \A i \in 1 .. n : t[i] = IF i = 1 THEN part ELSE s[i]
      BY <1>2
    <2>3. t # <<>>
      <3>1. t \in Seq(Split)  BY <1>1, <1>2, SkeletonFirst
      <3>2. 1 \in DOMAIN t  BY <1>2, <2>2
      <3> HIDE DEF t
      <3>3. QED  BY <3>2
    <2>4. d.store[r] = t /\ \A q \in Resource : q # r => d.store[q] = c.store[q]
      BY <1>1, <2>1
    <2>5. t[1] = part /\ 1 \in DOMAIN t  BY <1>2, <2>2
    <2> HIDE DEF s, t, n
    <2>6. \A i \in DOMAIN t : (\E j \in DOMAIN s : t[i] = s[j]) \/ t[i] = part
      BY <1>2, <2>2
    <2>7. \A j \in DOMAIN s : (\E i \in DOMAIN t : t[i] = s[j]) \/ s[j] = Head(s)
      BY <1>2, <2>2
    <2>8. QED  BY <1>4, <2>1, <2>3, <2>4, <2>5, <2>6, <2>7 DEF s
  <1>5. CASE part.next = Chunks
    <2> DEFINE t == Tail(s)
               all == Append(c.commits, done)
    <2>1. d.store = [c.store EXCEPT ![r] = t] /\ d.commits = all
      BY <1>5 DEF Moved
    <2>2. t \in Seq(Split) /\ Len(t) = n - 1 /\ \A i \in 1 .. n - 1 : t[i] = s[i + 1]
      BY <1>1, <1>2, HeadTailProperties
    <2>3. DOMAIN t = 1 .. n - 1  BY <2>2, LenProperties
    <2>4. d.store[r] = t /\ \A q \in Resource : q # r => d.store[q] = c.store[q]
      BY <1>1, <2>1
    <2>5. /\ DOMAIN all = 1 .. m + 1 /\ all[m + 1] = done
          /\ \A i \in 1 .. m : all[i] = c.commits[i]
      BY <1>1, Appended
    <2> HIDE DEF s, t, n, m, all
    <2>6. \A i \in DOMAIN t : \E j \in DOMAIN s : t[i] = s[j]
      <3>1. \A i \in 1 .. n - 1 : i + 1 \in 1 .. n  BY <1>2
      <3>2. QED  BY <1>2, <2>2, <2>3, <3>1
    <2>7. \A j \in DOMAIN s : (\E i \in DOMAIN t : t[i] = s[j]) \/ s[j] = Head(s)
      <3> TAKE j \in DOMAIN s
      <3>1. j # 1 => j - 1 \in 1 .. n - 1 /\ (j - 1) + 1 = j  BY <1>2
      <3>2. QED  BY <1>2, <2>2, <2>3, <3>1
    <2>8. \A i \in DOMAIN all : (\E j \in DOMAIN c.commits : all[i] = c.commits[j])
                                \/ all[i] = done
      <3>1. \A i \in 1 .. m + 1 : i = m + 1 \/ i \in 1 .. m  BY <1>3
      <3>2. QED  BY <1>3, <2>5, <3>1
    <2>9. \A j \in DOMAIN c.commits : \E i \in DOMAIN all : all[i] = c.commits[j]
      <3>1. \A i \in 1 .. m : i \in 1 .. m + 1  BY <1>3
      <3>2. QED  BY <1>3, <2>5, <3>1
    <2>10. m + 1 \in DOMAIN all  BY <1>3, <2>5
    <2>11. QED  BY <1>5, <2>1, <2>4, <2>5, <2>6, <2>7, <2>8, <2>9, <2>10 DEF s
  <1>6. QED  BY <1>4, <1>5

(* Sending a packet leaves the same splits under way. *)
LEMMA MovedKeeps ==
    ASSUME NEW c \in ClientChannel, NEW d \in ClientChannel, NEW r \in Resource,
           c.store[r] # <<>>, NEW part \in Split, NEW done \in Split,
           Moved(c, r, part, done, d), NEW known,
           part.key = Head(c.store[r]).key, part.action = Head(c.store[r]).action,
           done.key = part.key, done.action = part.action,
           part.next # Chunks => part.state # "loaded"
    PROVE  /\ \A k \in Key : UnderWay(d, k) <=> UnderWay(c, k)
           /\ Knows(c, known) => Knows(d, known)
  <1>1. c.store[r] \in Seq(Split)  BY DEF ClientChannel
  <1>2. 1 \in DOMAIN c.store[r] /\ Head(c.store[r]) = c.store[r][1]
    BY <1>1, SkeletonTail
  <1> USE MovedParts
  <1>3. ASSUME NEW k \in Key, UnderWay(d, k)
        PROVE  UnderWay(c, k)
    <2>1. CASE \E i \in DOMAIN d.commits : d.commits[i].key = k /\ d.commits[i].action = "added"
      <3>1. PICK i \in DOMAIN d.commits : d.commits[i].key = k /\ d.commits[i].action = "added"
        BY <2>1
      <3>2. CASE \E j \in DOMAIN c.commits : d.commits[i] = c.commits[j]
        BY <3>1, <3>2 DEF UnderWay
      <3>3. CASE d.commits[i] = done  BY <1>2, <3>1, <3>3 DEF UnderWay
      <3>4. QED  BY <3>2, <3>3
    <2>2. CASE \E q \in Resource : \E i \in DOMAIN d.store[q] :
                  d.store[q][i].key = k /\ d.store[q][i].action = "added"
      <3>1. PICK q \in Resource : \E i \in DOMAIN d.store[q] :
                  d.store[q][i].key = k /\ d.store[q][i].action = "added"
        BY <2>2
      <3>2. PICK i \in DOMAIN d.store[q] :
                  d.store[q][i].key = k /\ d.store[q][i].action = "added"
        BY <3>1
      <3>3. CASE \E j \in DOMAIN c.store[q] : d.store[q][i] = c.store[q][j]
        BY <3>2, <3>3 DEF UnderWay
      <3>4. CASE q = r /\ d.store[q][i] = part  BY <1>2, <3>2, <3>4 DEF UnderWay
      <3>5. QED  BY <3>3, <3>4
    <2>3. QED  BY <1>3, <2>1, <2>2 DEF UnderWay
  <1>4. ASSUME NEW k \in Key, UnderWay(c, k)
        PROVE  UnderWay(d, k)
    <2>1. CASE \E i \in DOMAIN c.commits : c.commits[i].key = k /\ c.commits[i].action = "added"
      BY <2>1 DEF UnderWay
    <2>2. CASE \E q \in Resource : \E i \in DOMAIN c.store[q] :
                  c.store[q][i].key = k /\ c.store[q][i].action = "added"
      <3>1. PICK q \in Resource : \E i \in DOMAIN c.store[q] :
                  c.store[q][i].key = k /\ c.store[q][i].action = "added"
        BY <2>2
      <3>2. PICK i \in DOMAIN c.store[q] :
                  c.store[q][i].key = k /\ c.store[q][i].action = "added"
        BY <3>1
      <3>3. CASE \E j \in DOMAIN d.store[q] : d.store[q][j] = c.store[q][i]
        BY <3>2, <3>3 DEF UnderWay
      <3>4. CASE /\ q = r /\ c.store[q][i] = Head(c.store[r])
                 /\ \E j \in DOMAIN d.store[r] : d.store[r][j] = part
        BY <3>2, <3>4 DEF UnderWay
      <3>5. CASE q = r /\ c.store[q][i] = Head(c.store[r]) /\ part.next = Chunks
        BY <3>2, <3>5 DEF UnderWay
      <3>6. QED  BY <3>3, <3>4, <3>5
    <2>3. QED  BY <1>4, <2>1, <2>2 DEF UnderWay
  <1>5. ASSUME Knows(c, known), NEW q \in Resource, NEW i \in DOMAIN d.store[q],
               d.store[q][i].state = "loaded"
        PROVE  MayAbort(q, d.store[q][i], known)
    BY <1>5 DEF Knows
  <1>6. QED  BY <1>3, <1>4, <1>5 DEF Knows

(* Sending a packet of the head of a store keeps the two sides in step, and
   what the agent knows.                                                     *)
LEMMA SplitSendFits ==
    ASSUME NEW h \in Sender, NEW r \in Resource, h.c.store[r] # <<>>, NEW count \in {1, Chunks},
           NEW ag \in [Resource -> AgentStates], NEW a, NEW seen \in SUBSET Pairs, NEW known,
           Fits(h.c, h.out, h.ev, ag, a, seen, known), Asked(h.c, ag)
    PROVE  LET g == SplitSend(h, r, count)
           IN /\ g \in Sender
              /\ Fits(g.c, g.out, g.ev, ag, a, seen, known) /\ Asked(g.c, ag)
              /\ Keeps(h.c, g.c)
  <1> DEFINE s == h.c.store[r]
             head == Head(s)
             split == Sent(head, count)
             done == [split EXCEPT !.state = "notified"]
             m == DataMessage(head, count)
             out == Append(h.out, m)
             g == SplitSend(h, r, count)
  <1>1. /\ h.c \in ClientChannel /\ h.out \in Seq(Message) /\ h.ev \in Seq(Event)
        /\ s \in Seq(Split) /\ h.c.commits \in Seq(Split) /\ h.c.store \in [Resource -> Seq(Split)]
    BY DEF Sender, ClientChannel
  <1>2. /\ StoresFit(h.c) /\ Told(h.c.commits, h.ev) /\ Phases(h.c, h.ev, ag)
        /\ Knows(h.c, known) /\ Leads(a, h.out, Shape(h.c, seen), known)
    BY DEF Fits
  <1>3. head \in Split /\ Tail(s) \in Seq(Split) /\ head = s[1] /\ 1 \in DOMAIN s
    BY <1>1, SkeletonTail
  <1>4. /\ split \in Split /\ split.resource = head.resource /\ split.key = head.key
        /\ split.action = head.action /\ split.next \in 0 .. Chunks
        /\ head.state = "loaded" => split.next = Chunks
        /\ split.state = IF head.state = "loaded" THEN "aborted" ELSE head.state
        /\ m \in Message
    BY <1>3, SentParts
  <1>5. head.resource = r /\ head.state # "notified" /\ StoreFits(s, r) /\ Listed(h.c)
    BY <1>2, <1>3 DEF StoresFit, StoreFits
  <1>6. /\ done \in Split /\ done.key = split.key /\ done.action = split.action
        /\ done.resource = split.resource /\ done.state = "notified"
        /\ Outline(done) = Outline(split)
    <2> HIDE DEF split
    <2>1. QED  BY <1>4 DEF Split, State, Outline
  <1>7. out \in Seq(Message)  BY <1>1, <1>4
  <1>8. Contains(h.c.list, r)  BY <1>5 DEF Listed
  (* What is left to show, in both cases. *)
  <1>9. ASSUME g \in Sender, g.out = out, Moved(h.c, r, split, done, g.c),
               g.c.resource = h.c.resource, g.c.cache = h.c.cache, g.c.mode = h.c.mode,
               StoresFit(g.c), Told(g.c.commits, g.ev), Phases(g.c, g.ev, ag)
        PROVE  /\ Fits(g.c, g.out, g.ev, ag, a, seen, known) /\ Asked(g.c, ag)
               /\ Keeps(h.c, g.c)
    <2> HIDE DEF g, split, done, head, s
    <2>0. s = h.c.store[r] /\ head = Head(h.c.store[r])  BY DEF s, head
    <2>1. g.c \in ClientChannel /\ g.ev \in Seq(Event) /\ g.out \in Seq(Message)
      BY <1>9 DEF Sender
    <2>2. /\ \A k \in Key : UnderWay(g.c, k) <=> UnderWay(h.c, k)
          /\ Knows(g.c, known)
      <3>1. split.next # Chunks => split.state # "loaded"  BY <1>4
      <3>2. split.key = Head(h.c.store[r]).key /\ split.action = Head(h.c.store[r]).action
            /\ split \in Split
        BY <1>4, <2>0
      <3>3. done.key = split.key /\ done.action = split.action /\ done \in Split  BY <1>6
      <3>4. Moved(h.c, r, split, done, g.c)  BY <1>9
      <3>5. h.c \in ClientChannel /\ g.c \in ClientChannel /\ Knows(h.c, known)
        BY <1>1, <1>2, <2>1
      <3>6. QED  BY <3>1, <3>2, <3>3, <3>4, <3>5, MovedKeeps
    <2>3. /\ Reads(Shape(h.c, seen), DataMessage(Head(h.c.store[r]), count), Shape(g.c, seen),
                   known)
          /\ Shape(g.c, seen) \in Shapes
      BY <1>1, <1>2, <1>4, <1>5, <1>6, <1>9, <2>0, <2>1, DataReads DEF split
    <2>4. Leads(a, out, Shape(g.c, seen), known)
      <3>1. Shape(h.c, seen) \in Shapes  BY <1>1, ClientSided, ShapeParts
      <3>2. QED  BY <1>1, <1>2, <1>4, <2>0, <2>3, LeadsOn
    <2>5. Asked(g.c, ag)
      <3> SUFFICES ASSUME NEW q \in Resource, ag[q] = "free", NEW i \in DOMAIN g.c.commits
                   PROVE  g.c.commits[i].resource # q
        BY DEF Asked
      <3>1. \/ \E j \in DOMAIN h.c.commits : g.c.commits[i] = h.c.commits[j]
            \/ g.c.commits[i] = done
        BY <1>1, <1>4, <1>6, <1>9, <2>0, <2>1, MovedParts
      <3>2. ag[r] # "free"  BY <1>2, <2>0 DEF Phases, Phase
      <3>3. QED  BY <1>4, <1>5, <1>6, <3>1, <3>2 DEF Asked
    <2>6. QED  BY <1>9, <2>1, <2>2, <2>4, <2>5 DEF Fits, Keeps
  <1>10. CASE split.next # Chunks
    <2> DEFINE t == [s EXCEPT ![1] = split]
               c == [h.c EXCEPT !.store = [@ EXCEPT ![r] = t]]
    <2>1. g = [h EXCEPT !.c = c, !.out = out]
      BY <1>10 DEF SplitSend
    <2>2. /\ t \in Seq(Split) /\ Len(t) = Len(s)
          /\ \A i \in 1 .. Len(s) : t[i] = IF i = 1 THEN split ELSE s[i]
      <3>0. s # <<>>  OBVIOUS
      <3> HIDE DEF split, s
      <3>1. QED  BY <1>1, <1>4, <3>0, SkeletonFirst
    <2>3. t # <<>> /\ DOMAIN t = 1 .. Len(s) /\ DOMAIN s = 1 .. Len(s)
      <3> HIDE DEF t
      <3>1. DOMAIN t = 1 .. Len(t) /\ DOMAIN s = 1 .. Len(s)  BY <1>1, <2>2, LenProperties
      <3>2. QED  BY <1>1, <2>2, <3>1, EmptySeq
    <2> HIDE DEF t
    <2>4. c \in ClientChannel  BY <1>1, <2>2 DEF ClientChannel
    <2>5. /\ c.store = [h.c.store EXCEPT ![r] = t] /\ c.commits = h.c.commits
          /\ c.resource = h.c.resource /\ c.cache = h.c.cache /\ c.mode = h.c.mode
          /\ c.list = h.c.list
      BY <1>1 DEF ClientChannel
    <2>6. c.store[r] = t /\ \A q \in Resource : q # r => c.store[q] = h.c.store[q]
      BY <1>1, <2>5
    <2> HIDE DEF c
    <2>7. g \in Sender /\ g.out = out /\ g.c = c /\ g.ev = h.ev
      <3> HIDE DEF g, out
      <3>1. QED  BY <1>1, <1>7, <2>1, <2>4 DEF Sender
    <2> HIDE DEF g, out, split, done, head, m
    <2>8. StoresFit(c)
      <3>1. StoreFits(t, r)
        <4>1. \A i \in 1 .. Len(s) : s[i].resource = r /\ s[i].state # "notified"
          BY <1>5, <2>3 DEF StoreFits
        <4>2. split.resource = r /\ split.state # "notified"  BY <1>4, <1>5
        <4>3. QED  BY <2>2, <2>3, <4>1, <4>2 DEF StoreFits
      <3>2. \A q \in Resource : StoreFits(c.store[q], q)  BY <1>2, <2>6, <3>1 DEF StoresFit
      <3>3. Listed(c)  BY <1>5, <1>8, <2>5, <2>6 DEF Listed
      <3>4. QED  BY <1>2, <2>5, <3>2, <3>3 DEF StoresFit
    <2>9. Phases(c, h.ev, ag)
      <3> SUFFICES ASSUME NEW q \in Resource  PROVE Phase(c, h.ev, q, ag[q])
        BY DEF Phases
      <3>1. c.store[q] = <<>> <=> h.c.store[q] = <<>>  BY <2>3, <2>6
      <3>2. Phase(h.c, h.ev, q, ag[q])  BY <1>2 DEF Phases
      <3>3. QED  BY <2>5, <3>1, <3>2, PhaseSame
    <2>10. Moved(h.c, r, split, done, g.c)
      <3>1. g.c.store = [h.c.store EXCEPT ![r] = [@ EXCEPT ![1] = split]]
        BY <1>1, <2>5, <2>7 DEF t
      <3>2. QED  BY <1>10, <2>5, <2>7, <3>1 DEF Moved
    <2>11. QED  BY <1>2, <1>9, <2>5, <2>7, <2>8, <2>9, <2>10 DEF g
  <1>11. CASE split.next = Chunks
    <2> DEFINE t == Tail(s)
               old == h.c.commits
               c1 == [h.c EXCEPT !.store = [@ EXCEPT ![r] = t], !.commits = Append(old, split)]
               h1 == [h EXCEPT !.c = c1, !.out = out]
               c == [c1 EXCEPT !.commits = Append(old, done)]
               queue == Append(h.ev, CommitOf(done))
    <2>1. g = Restart(h1, r)  BY <1>11 DEF SplitSend
    <2> HIDE DEF split, head, out, m, t
    <2>2. t \in Seq(Split)  BY <1>3 DEF t
    <2>3. \A i \in DOMAIN t : t[i].resource = r /\ t[i].state # "notified"
      <3>1. /\ t \in Seq(Split) /\ Len(t) = Len(s) - 1 /\ Len(s) \in Nat \ {0}
            /\ \A i \in 1 .. Len(t) : t[i] = s[i + 1]
        BY <1>1, EmptySeq, HeadTailProperties DEF t
      <3>2. DOMAIN t = 1 .. Len(s) - 1 /\ DOMAIN s = 1 .. Len(s)
        BY <1>1, <3>1, LenProperties
      <3>3. \A i \in DOMAIN s : s[i].resource = r /\ s[i].state # "notified"
        BY <1>5 DEF StoreFits
      <3>4. \A i \in 1 .. Len(s) - 1 : i + 1 \in 1 .. Len(s)  BY <3>1
      <3>5. QED  BY <3>1, <3>2, <3>3, <3>4
    <2> HIDE DEF s, done
    <2>4. Append(old, split) \in Seq(Split) /\ Append(old, done) \in Seq(Split)
      BY <1>1, <1>4, <1>6
    <2>5. c1 \in ClientChannel /\ c \in ClientChannel
      BY <1>1, <2>2, <2>4 DEF ClientChannel
    <2>6. /\ c.store = [h.c.store EXCEPT ![r] = t] /\ c.commits = Append(old, done)
          /\ c.resource = h.c.resource /\ c.cache = h.c.cache /\ c.mode = h.c.mode
          /\ c.list = h.c.list
          /\ c1.commits = Append(old, split)
      BY <1>1 DEF ClientChannel
    <2>7. c.store[r] = t /\ \A q \in Resource : q # r => c.store[q] = h.c.store[q]
      BY <1>1, <2>6
    <2>8. h1 \in Sender /\ h1.c = c1 /\ h1.out = out /\ h1.ev = h.ev
      BY <1>1, <1>7, <2>5 DEF Sender
    <2>9. Ended(c, queue, r, g.c, g.ev) /\ g = [h1 EXCEPT !.c = g.c, !.ev = g.ev]
      <3> HIDE DEF c1, g, h1
      <3>1. \A i \in DOMAIN old : old[i].state = "notified"  BY <1>2 DEF StoresFit
      <3>2. split.state # "notified" /\ split.resource = r  BY <1>4, <1>5
      <3>3. old \in Seq(Split) /\ split \in Split /\ h1 \in Sender
            /\ h1.c.commits = Append(old, split)
        BY <1>1, <1>4, <2>6, <2>8
      <3> HIDE DEF old
      <3>4. done = [split EXCEPT !.state = "notified"]  BY DEF done
      <3>5. c = [h1.c EXCEPT !.commits = Append(old, done)]
            /\ queue = Append(h1.ev, CommitOf(done))
        BY <2>8
      <3> HIDE DEF c, queue
      <3>6. Restarted(h1, c, queue, r, g)
        BY <2>1, <3>1, <3>2, <3>3, <3>4, <3>5, RestartFresh
      <3>7. QED  BY <3>6 DEF Restarted
    <2> HIDE DEF c, c1, queue
    <2>10. CommitOf(done) \in Event /\ CommitOf(done).type = "commit"
           /\ \A q : ~ Of(CommitOf(done), {"no", "start", "end"}, q)
      BY <1>6, EventParts
    <2>11. queue \in Seq(Event)  BY <1>1, <2>10 DEF queue
    <2>12. Told(c.commits, queue)
      BY <1>1, <1>2, <1>6, <2>6, <2>10, ToldCommit DEF queue
    <2>13. StoresFit(c)
      <3>1. \A q \in Resource : StoreFits(c.store[q], q)
        BY <1>2, <2>3, <2>7 DEF StoresFit, StoreFits
      <3>2. \A i \in DOMAIN c.commits : c.commits[i].state = "notified"
        <4>1. /\ DOMAIN Append(old, done) = 1 .. Len(old) + 1
              /\ Append(old, done)[Len(old) + 1] = done /\ Len(old) \in Nat
              /\ DOMAIN old = 1 .. Len(old)
              /\ \A i \in DOMAIN old : Append(old, done)[i] = old[i]
          BY <1>1, <1>6, Appended
        <4>2. \A i \in DOMAIN old : old[i].state = "notified"  BY <1>2 DEF StoresFit
        <4>3. \A i \in 1 .. Len(old) + 1 : i = Len(old) + 1 \/ i \in 1 .. Len(old)  BY <4>1
        <4>4. QED  BY <1>6, <2>6, <4>1, <4>2, <4>3
      <3>3. Listed(c)  BY <1>5, <1>8, <2>6, <2>7 DEF Listed
      <3>4. QED  BY <3>1, <3>2, <3>3 DEF StoresFit
    <2>14. \A q \in Resource : q # r => Phase(c, queue, q, ag[q])
      <3> SUFFICES ASSUME NEW q \in Resource, q # r  PROVE Phase(c, queue, q, ag[q])
        OBVIOUS
      <3>1. Phase(h.c, h.ev, q, ag[q])  BY <1>2 DEF Phases
      <3>2. Phase(c, h.ev, q, ag[q])  BY <2>6, <2>7, <3>1, PhaseSame
      <3>3. QED  BY <1>1, <2>10, <3>2, PhaseAppend DEF queue
    <2>15. Due(c, queue, r, ag[r])
      <3>1. Phase(h.c, h.ev, r, ag[r]) /\ ag[r] \in AgentStates  BY <1>2 DEF Phases
      <3>2. Due(h.c, h.ev, r, ag[r])  BY <3>1, PhaseDue
      <3>3. Due(c, h.ev, r, ag[r])  BY <2>6, <3>2 DEF Due
      <3>4. QED  BY <1>1, <2>10, <3>3, DueAppend DEF queue
    <2>16. /\ g.c \in ClientChannel /\ g.ev \in Seq(Event)
           /\ StoresFit(g.c) /\ Told(g.c.commits, g.ev) /\ Phases(g.c, g.ev, ag)
           /\ g.c.resource = c.resource /\ g.c.store = c.store /\ g.c.commits = c.commits
           /\ g.c.cache = c.cache
      <3> HIDE DEF g
      <3>1. Contains(c.list, r)  BY <1>8, <2>6
      <3>2. QED  BY <2>5, <2>9, <2>11, <2>12, <2>13, <2>14, <2>15, <3>1, EndedFits
    <2>17. g.c.mode = c.mode
      <3> HIDE DEF g
      <3>1. QED  BY <2>5, <2>9 DEF Ended, ClientChannel
    <2> HIDE DEF g, h1
    <2>18. g \in Sender /\ g.out = out
      BY <2>8, <2>9, <2>16 DEF Sender
    <2>19. Moved(h.c, r, split, done, g.c)
      <3>1. g.c.store = [h.c.store EXCEPT ![r] = Tail(@)]  BY <1>1, <2>6, <2>16 DEF t, s
      <3>2. QED  BY <1>11, <2>6, <2>16, <3>1 DEF Moved
    <2>20. QED  BY <1>9, <2>6, <2>16, <2>17, <2>18, <2>19 DEF g
  <1>12. g \in Sender /\ Fits(g.c, g.out, g.ev, ag, a, seen, known) /\ Asked(g.c, ag)
         /\ Keeps(h.c, g.c)
    BY <1>9, <1>10, <1>11
  <1>13. QED  BY <1>12

(* Nothing depends on the mode, the flag of pending data, or an order of stores
   that keeps them all.                                                      *)
Alike(c, d) ==
    /\ d \in ClientChannel
    /\ d.resource = c.resource /\ d.store = c.store /\ d.commits = c.commits
    /\ d.cache = c.cache
    /\ \A i, j \in DOMAIN d.list : d.list[i] = d.list[j] => i = j
    /\ \A r \in Resource : Contains(d.list, r) <=> Contains(c.list, r)

(* Sides that are alike fit alike. *)
LEMMA AlikeFits ==
    ASSUME NEW c, NEW d, Alike(c, d), NEW link, NEW queue, NEW ag, NEW a, NEW seen, NEW known
    PROVE  /\ Fits(c, link, queue, ag, a, seen, known)
                  => Fits(d, link, queue, ag, a, seen, known)
           /\ Asked(c, ag) => Asked(d, ag)
           /\ \A k \in Key : UnderWay(d, k) <=> UnderWay(c, k)
  <1>1. StoresFit(c) => StoresFit(d)  BY DEF Alike, StoresFit, Listed
  <1>2. Phases(c, queue, ag) => Phases(d, queue, ag)
    <2> SUFFICES ASSUME NEW r \in Resource, Phases(c, queue, ag)
                 PROVE  Phase(d, queue, r, ag[r])
      BY DEF Phases
    <2>1. Phase(c, queue, r, ag[r])  BY DEF Phases
    <2>2. QED  BY <2>1, PhaseSame DEF Alike
  <1>3. Knows(c, known) => Knows(d, known)  BY DEF Alike, Knows
  <1>4. Shape(d, seen) = Shape(c, seen)  BY DEF Alike, Shape
  <1>5. d.commits = c.commits /\ d \in ClientChannel  BY DEF Alike
  <1>6. Asked(c, ag) => Asked(d, ag)  BY <1>5 DEF Asked
  <1>7. \A k \in Key : UnderWay(d, k) <=> UnderWay(c, k)  BY DEF Alike, UnderWay
  <1>8. QED  BY <1>1, <1>2, <1>3, <1>4, <1>5, <1>6, <1>7 DEF Fits

(* Noting that a store has data to send changes nothing else. *)
LEMMA PendingAlike ==
    ASSUME NEW c \in ClientChannel, StoresFit(c)
    PROVE  /\ \A r \in Resource : Alike(c, Pending(c, r)) /\ Pending(c, r).mode = c.mode
           /\ Alike(c, AnyPending(c)) /\ AnyPending(c).mode = c.mode
           /\ Pending(c, Head(c.list)).list = c.list
           /\ AnyPending(c).list = c.list
  <1>1. ASSUME NEW b \in BOOLEAN
        PROVE  LET d == [c EXCEPT !.pending = b]
               IN Alike(c, d) /\ d.mode = c.mode /\ d.list = c.list
    BY DEF Alike, ClientChannel, StoresFit, Listed
  <1>2. \A r : \E b \in BOOLEAN : Pending(c, r) = [c EXCEPT !.pending = b]
    <2> TAKE r
    <2>1. (c.pending \/ HeadCanBeSent(c, r)) \in BOOLEAN  OBVIOUS
    <2>2. QED  BY <2>1 DEF Pending
  <1>3. \E b \in BOOLEAN : AnyPending(c) = [c EXCEPT !.pending = b]
    <2>1. (\E i \in 1 .. Len(c.list) : HeadCanBeSent(c, c.list[i])) \in BOOLEAN  OBVIOUS
    <2>2. QED  BY <2>1 DEF AnyPending
  <1>4. QED  BY <1>1, <1>2, <1>3

(* What the loops that send keep. *)
Sound(ag, a, seen, known, c) ==
    {h \in Sender : /\ Fits(h.c, h.out, h.ev, ag, a, seen, known)
                    /\ Asked(h.c, ag) /\ Keeps(c, h.c)}

(* One turn of the loops that send keeps the two sides in step. *)
LEMMA SendTurnSound ==
    ASSUME NEW ag \in [Resource -> AgentStates], NEW a, NEW seen \in SUBSET Pairs, NEW known,
           NEW c, NEW h \in Sound(ag, a, seen, known, c)
    PROVE  SendTurn[h] \in Sound(ag, a, seen, known, c)
  <1> DEFINE r == Head(h.list)
             split == Head(h.c.store[r])
  <1>1. /\ h \in Sender /\ Fits(h.c, h.out, h.ev, ag, a, seen, known) /\ Asked(h.c, ag)
        /\ Keeps(c, h.c)
    BY DEF Sound
  <1>2. SendTurn[h] =
          IF h.list = <<>> THEN h
          ELSE IF h.c.store[r] = <<>> \/ ~ CanSend(h, split)
          THEN [h EXCEPT !.c = Pending(@, r), !.list = Tail(@)]
          ELSE IF h.all \/ split.state = "loaded" THEN SplitSend(h, r, Chunks)
          ELSE SplitSend([h EXCEPT !.room = @ - 1], r, 1)
    BY <1>1 DEF SendTurn
  <1>3. CASE h.list = <<>>  BY <1>2, <1>3
  <1>4. CASE h.list # <<>>
    <2>1. h.list \in Seq(Resource) /\ h.c \in ClientChannel /\ StoresFit(h.c)
      BY <1>1 DEF Sender, Fits
    <2>2. r \in Resource /\ Tail(h.list) \in Seq(Resource)
      BY <1>4, <2>1, HeadTailProperties
    <2> HIDE DEF r
    <2>3. ASSUME h.c.store[r] # <<>>, NEW count \in {1, Chunks},
                 NEW g \in Sender, g.c = h.c, g.out = h.out, g.ev = h.ev
          PROVE  SplitSend(g, r, count) \in Sound(ag, a, seen, known, c)
      <3> DEFINE f == SplitSend(g, r, count)
      <3>1. f \in Sender /\ Fits(f.c, f.out, f.ev, ag, a, seen, known) /\ Asked(f.c, ag)
            /\ Keeps(g.c, f.c)
        BY <1>1, <2>2, <2>3, SplitSendFits
      <3> HIDE DEF f
      <3>2. Keeps(c, f.c)  BY <1>1, <2>3, <3>1 DEF Keeps
      <3>3. f \in Sound(ag, a, seen, known, c)  BY <3>1, <3>2 DEF Sound
      <3>4. QED  BY <3>3 DEF f
    <2>4. CASE h.c.store[r] = <<>> \/ ~ CanSend(h, split)
      <3> DEFINE d == Pending(h.c, r)
                 g == [h EXCEPT !.c = d, !.list = Tail(h.list)]
      <3>1. SendTurn[h] = g  BY <1>2, <1>4, <2>4
      <3>2. Alike(h.c, d) /\ d.mode = h.c.mode  BY <2>1, <2>2, PendingAlike
      <3> HIDE DEF d
      <3>3. g \in Sender /\ g.c = d /\ g.out = h.out /\ g.ev = h.ev
        BY <1>1, <2>2, <3>2 DEF Sender, Alike
      <3> HIDE DEF g
      <3>4. Fits(d, h.out, h.ev, ag, a, seen, known) /\ Asked(d, ag)
        BY <1>1, <3>2, AlikeFits
      <3>5. \A k \in Key : UnderWay(d, k) <=> UnderWay(h.c, k)  BY <3>2, AlikeFits
      <3>6. Keeps(c, d)  BY <1>1, <3>2, <3>5 DEF Keeps, Alike
      <3>7. QED  BY <3>1, <3>3, <3>4, <3>6 DEF Sound
    <2>5. CASE h.c.store[r] # <<>> /\ CanSend(h, split) /\ (h.all \/ split.state = "loaded")
      <3>1. SendTurn[h] = SplitSend(h, r, Chunks)  BY <1>2, <1>4, <2>5
      <3>2. QED  BY <1>1, <2>3, <2>5, <3>1
    <2>6. CASE h.c.store[r] # <<>> /\ CanSend(h, split) /\ ~ (h.all \/ split.state = "loaded")
      <3> DEFINE g == [h EXCEPT !.room = h.room - 1]
      <3>1. SendTurn[h] = SplitSend(g, r, 1)  BY <1>2, <1>4, <2>6
      <3>2. h.room > 0  BY <2>6 DEF CanSend
      <3>3. h.room - 1 \in 0 .. 1  BY <1>1, <3>2 DEF Sender
      <3>4. g \in Sender /\ g.c = h.c /\ g.out = h.out /\ g.ev = h.ev
        BY <1>1, <3>3 DEF Sender
      <3> HIDE DEF g
      <3>5. QED  BY <2>3, <2>6, <3>1, <3>4
    <2>7. QED  BY <2>4, <2>5, <2>6
  <1>5. QED  BY <1>3, <1>4

(* So do the loops. *)
LEMMA SendAllSound ==
    ASSUME NEW ag \in [Resource -> AgentStates], NEW a, NEW seen \in SUBSET Pairs, NEW known,
           NEW c, NEW h \in Sound(ag, a, seen, known, c), sent \in Seq(Pairs)
    PROVE  SendAll(h) \in Sound(ag, a, seen, known, c)
  <1> DEFINE I == Sound(ag, a, seen, known, c)
             turn == Loop(SendTurn, h)
             last == Len(h.list) + Len(sent) + 1
  <1>1. \A x \in I : SendTurn[x] \in I  BY SendTurnSound
  <1>2. SendAll(h) = turn[last]  BY DEF SendAll, Loop
  <1>3. last \in Nat
    <2>1. h.list \in Seq(Resource)  BY DEF Sound, Sender
    <2>2. QED  BY <2>1, LenProperties
  <1> HIDE DEF I, last
  <1>4. h \in I  BY DEF I
  <1> HIDE DEF turn
  <1>5. turn = Loop(SendTurn, h)  BY DEF turn
  <1>6. turn \in [Nat -> I]  BY <1>1, <1>4, <1>5, Repeats DEF Turns
  <1>7. QED  BY <1>2, <1>3, <1>6 DEF I

(* Splits whose outline stays the same, while their state or size changes. *)
Restated(c, r, t, known, d) ==
    /\ t \in Seq(Split) /\ Len(t) = Len(c.store[r])
    /\ \A i \in 1 .. Len(t) : /\ Outline(t[i]) = Outline(c.store[r][i])
                              /\ t[i].state # "notified"
                              /\ t[i].state = "loaded" => MayAbort(r, t[i], known)
    /\ d = [c EXCEPT !.store = [@ EXCEPT ![r] = t]]

(* So does a change of states and sizes, which the other side is not told. *)
LEMMA RestatedFits ==
    ASSUME NEW c \in ClientChannel, NEW r \in Resource, NEW t,
           NEW known, NEW d, Restated(c, r, t, known, d),
           NEW link, NEW queue, NEW ag, NEW a, NEW seen,
           Fits(c, link, queue, ag, a, seen, known), Asked(c, ag)
    PROVE  /\ d \in ClientChannel
           /\ Fits(d, link, queue, ag, a, seen, known) /\ Asked(d, ag)
           /\ d.cache = c.cache
           /\ \A k \in Key : UnderWay(d, k) <=> UnderWay(c, k)
  <1> USE DEF Restated
  <1> DEFINE s == c.store[r]
  <1>1. c.store \in [Resource -> Seq(Split)] /\ s \in Seq(Split)  BY DEF ClientChannel
  <1>2. /\ d \in ClientChannel /\ d.store = [c.store EXCEPT ![r] = t]
        /\ d.resource = c.resource /\ d.commits = c.commits /\ d.cache = c.cache
        /\ d.list = c.list
    BY DEF ClientChannel
  <1>3. d.store[r] = t /\ \A q \in Resource : q # r => d.store[q] = c.store[q]
    BY <1>1, <1>2
  <1>4. Len(s) \in Nat /\ DOMAIN s = 1 .. Len(s) /\ DOMAIN t = 1 .. Len(s)
        /\ \A i \in 1 .. Len(s) : s[i] \in Split /\ t[i] \in Split
    BY <1>1, LenProperties
  <1>5. t = <<>> <=> s = <<>>  BY <1>1, EmptySeq
  <1>6. \A i \in 1 .. Len(s) : t[i].resource = s[i].resource /\ t[i].key = s[i].key
                               /\ t[i].action = s[i].action
    <2> TAKE i \in 1 .. Len(s)
    <2>1. Outline(t[i]) = Outline(s[i]) /\ s[i] \in Split /\ t[i] \in Split  BY <1>4
    <2> DEFINE x == s[i]
               y == t[i]
    <2> HIDE DEF x, y
    <2>2. x \in Split /\ y \in Split /\ Outline(x) = Outline(y)  BY <2>1 DEF x, y
    <2>3. x.resource = y.resource /\ x.key = y.key /\ x.action = y.action
      BY <2>2, OutlineParts
    <2>4. QED  BY <2>3 DEF x, y
  <1> HIDE DEF s
  <1>7. StoresFit(d)
    <2>1. StoresFit(c)  BY DEF Fits
    <2>2. StoreFits(t, r)
      <3>1. StoreFits(s, r)  BY <2>1 DEF StoresFit, s
      <3>2. QED  BY <1>4, <1>6, <3>1 DEF StoreFits
    <2>3. \A q \in Resource : StoreFits(d.store[q], q)
      BY <1>3, <2>1, <2>2 DEF StoresFit
    <2>4. Listed(d)
      <3>1. \A q \in Resource : d.store[q] # <<>> => c.store[q] # <<>>
        BY <1>3, <1>5 DEF s
      <3>2. QED  BY <1>2, <2>1, <3>1 DEF Listed, StoresFit
    <2>5. QED  BY <1>2, <2>1, <2>3, <2>4 DEF StoresFit
  <1>8. Phases(d, queue, ag)
    <2> SUFFICES ASSUME NEW q \in Resource  PROVE Phase(d, queue, q, ag[q])
      BY DEF Phases
    <2>1. Phase(c, queue, q, ag[q])  BY DEF Fits, Phases
    <2>2. d.store[q] = <<>> <=> c.store[q] = <<>>  BY <1>3, <1>5 DEF s
    <2>3. QED  BY <1>2, <2>1, <2>2, PhaseSame
  <1>9. Knows(d, known)
    <2> SUFFICES ASSUME NEW q \in Resource, NEW i \in DOMAIN d.store[q],
                        d.store[q][i].state = "loaded"
                 PROVE  MayAbort(q, d.store[q][i], known)
      BY DEF Knows
    <2>1. CASE q = r  BY <1>3, <1>4, <2>1
    <2>2. CASE q # r
      <3>1. Knows(c, known)  BY DEF Fits
      <3>2. QED  BY <1>3, <2>2, <3>1 DEF Knows
    <2>3. QED  BY <2>1, <2>2
  <1>10. Shape(d, seen) = Shape(c, seen)
    <2>1. \A q \in Resource : Skeleton(d.store[q]) = Skeleton(c.store[q])
      <3>1. Skeleton(t) = Skeleton(s)
        <4>1. \A i \in 1 .. Len(t) : Outline(t[i]) = Outline(s[i])  BY DEF s
        <4>2. Len(t) = Len(s)  BY DEF s
        <4>3. QED  BY <1>1, <4>1, <4>2, SkeletonSame
      <3>2. QED  BY <1>3, <3>1 DEF s
    <2>2. QED  BY <1>2, <2>1 DEF Shape
  <1>11. Asked(d, ag)  BY <1>2 DEF Asked
  <1>12. ASSUME NEW k \in Key
         PROVE  UnderWay(d, k) <=> UnderWay(c, k)
    <2>1. \A q \in Resource :
             (\E i \in DOMAIN d.store[q] : d.store[q][i].key = k
                                           /\ d.store[q][i].action = "added")
             <=> (\E i \in DOMAIN c.store[q] : c.store[q][i].key = k
                                              /\ c.store[q][i].action = "added")
      <3> TAKE q \in Resource
      <3>1. CASE q = r  BY <1>3, <1>4, <1>6, <3>1 DEF s
      <3>2. CASE q # r  BY <1>3, <3>2
      <3>3. QED  BY <3>1, <3>2
    <2>2. QED  BY <1>2, <2>1 DEF UnderWay
  <1>13. QED  BY <1>2, <1>7, <1>8, <1>9, <1>10, <1>11, <1>12 DEF Fits

(* The stores take their turns to be the first. *)
LEMMA Rotated ==
    ASSUME NEW s \in Seq(Resource), Len(s) > 1, \A i, j \in DOMAIN s : s[i] = s[j] => i = j,
           NEW t, t = Append(Tail(s), Head(s))
    PROVE  /\ t \in Seq(Resource)
           /\ \A i, j \in DOMAIN t : t[i] = t[j] => i = j
           /\ \A r \in Resource : Contains(t, r) <=> Contains(s, r)
  <1> DEFINE n == Len(s)
             u == Tail(s)
             x == Head(s)
  <1>1. n \in Nat /\ DOMAIN s = 1 .. n /\ n > 1 /\ s # <<>>  BY EmptySeq, LenProperties
  <1>2. /\ u \in Seq(Resource) /\ Len(u) = n - 1 /\ \A i \in 1 .. n - 1 : u[i] = s[i + 1]
        /\ x = s[1] /\ x \in Resource
    BY <1>1, HeadTailProperties
  <1> HIDE DEF n, u, x
  <1>3. t = Append(u, x)  BY DEF u, x
  <1>4. /\ t \in Seq(Resource) /\ Len(t) = n /\ DOMAIN t = 1 .. n /\ t[n] = x
        /\ \A i \in 1 .. n - 1 : t[i] = u[i]
    <2>1. DOMAIN u = 1 .. n - 1  BY <1>1, <1>2, LenProperties
    <2>2. /\ t \in Seq(Resource) /\ Len(t) = Len(u) + 1 /\ DOMAIN t = 1 .. Len(u) + 1
          /\ t[Len(u) + 1] = x /\ \A i \in DOMAIN u : t[i] = u[i]
      BY <1>2, <1>3, Appended
    <2>3. (n - 1) + 1 = n  BY <1>1
    <2>4. QED  BY <1>2, <2>1, <2>2, <2>3
  <1>5. \A i \in 1 .. n : t[i] = IF i = n THEN s[1] ELSE s[i + 1]
    BY <1>1, <1>2, <1>4
  <1>6. \A i, j \in 1 .. n : t[i] = t[j] => i = j
    <2> TAKE i, j \in 1 .. n
    <2>1. \A p, q \in 1 .. n : s[p] = s[q] => p = q  BY <1>1
    <2>2. CASE i = n /\ j # n  BY <1>1, <1>5, <2>1, <2>2
    <2>3. CASE i # n /\ j = n  BY <1>1, <1>5, <2>1, <2>3
    <2>4. CASE i # n /\ j # n
      <3>1. i + 1 \in 1 .. n /\ j + 1 \in 1 .. n  BY <1>1, <2>4
      <3>2. t[i] = t[j] => i + 1 = j + 1  BY <1>5, <2>1, <2>4, <3>1
      <3>3. QED  BY <1>1, <3>2
    <2>5. QED  BY <2>2, <2>3, <2>4
  <1>7. ASSUME NEW r \in Resource
        PROVE  (\E i \in 1 .. n : t[i] = r) <=> (\E i \in 1 .. n : s[i] = r)
    <2>1. ASSUME NEW i \in 1 .. n, t[i] = r
          PROVE  \E j \in 1 .. n : s[j] = r
      <3>1. 1 \in 1 .. n /\ (i # n => i + 1 \in 1 .. n)  BY <1>1
      <3>2. QED  BY <1>5, <2>1, <3>1
    <2>2. ASSUME NEW i \in 1 .. n, s[i] = r
          PROVE  \E j \in 1 .. n : t[j] = r
      <3>1. CASE i = 1
        <4>1. n \in 1 .. n /\ t[n] = r  BY <1>1, <1>5, <2>2, <3>1
        <4>2. QED  BY <4>1
      <3>2. CASE i # 1
        <4>1. i - 1 \in 1 .. n /\ i - 1 # n /\ (i - 1) + 1 = i  BY <1>1, <3>2
        <4>2. t[i - 1] = r  BY <1>5, <2>2, <4>1
        <4>3. QED  BY <4>1, <4>2
      <3>3. QED  BY <3>1, <3>2
    <2>3. QED  BY <2>1, <2>2
  <1>8. QED  BY <1>4, <1>6, <1>7 DEF Contains, n

(* The whole of the sending of a handler, from a state of the client that fits. *)
LEMMA Sends ==
    ASSUME TypeOK, NEW c, NEW list \in Seq(Resource), NEW room \in 0 .. 1, NEW all \in BOOLEAN,
           NEW a, NEW known, agent \in [Resource -> AgentStates],
           Fits(c, toServer, events, agent, a, Range(sent), known), Asked(c, agent),
           NEW h, h = SendAll(Sending(c, list, room, all))
    PROVE  h \in Sound(agent, a, Range(sent), known, c)
  <1> DEFINE h0 == Sending(c, list, room, all)
  <1>1. /\ c \in ClientChannel /\ toServer \in Seq(Message) /\ events \in Seq(Event)
        /\ sent \in Seq(Pairs)
    BY DEF Fits, TypeOK, Pairs
  <1>2. Range(sent) \in SUBSET Pairs
    <2>1. \A i \in DOMAIN sent : sent[i] \in Pairs  BY <1>1
    <2>2. QED  BY <2>1 DEF Range
  <1>3. h0 \in Sender /\ h0.c = c /\ h0.out = toServer /\ h0.ev = events
    BY <1>1 DEF Sending, Sender
  <1>4. Keeps(c, c)  BY DEF Keeps
  <1> HIDE DEF h0
  <1>5. h0 \in Sound(agent, a, Range(sent), known, c)  BY <1>3, <1>4 DEF Sound
  <1>6. SendAll(h0) \in Sound(agent, a, Range(sent), known, c)
    BY <1>1, <1>2, <1>5, SendAllSound
  <1>7. QED  BY <1>6 DEF h0

-----------------------------------------------------------------------------
(* Requests and reports *)

(* The state as one formula of what the X server's side has, and what is known
   of it.                                                                    *)
Together(a, known) ==
    /\ Fits(client, toServer, events, agent, a, Range(sent), known)
    /\ Asked(client, agent)

(* The pairs that the reports on their way say are on disk. *)
Heard(known) ==
    \A i \in DOMAIN toClient :
        toClient[i].loaded => <<toClient[i].resource, toClient[i].key>> \in known

(* What the loops have kept holds once their result is stored. *)
LEMMA Handled ==
    ASSUME NEW a, NEW known, NEW c, NEW h \in Sound(agent, a, Range(sent), known, c),
           NEW d, Alike(h.c, d), client' = d, toServer' = h.out, events' = h.ev,
           agent' = agent, sent' = sent
    PROVE  /\ Together(a, known)'
           /\ client'.cache = c.cache
           /\ \A k \in Key : UnderWay(client', k) <=> UnderWay(c, k)
  <1>1. /\ Fits(h.c, h.out, h.ev, agent, a, Range(sent), known) /\ Asked(h.c, agent)
        /\ Keeps(c, h.c)
    BY DEF Sound
  <1>2. /\ Fits(d, h.out, h.ev, agent, a, Range(sent), known) /\ Asked(d, agent)
        /\ \A k \in Key : UnderWay(d, k) <=> UnderWay(h.c, k)
    BY <1>1, AlikeFits
  <1>3. Together(a, known)'  BY <1>2 DEF Together
  <1>4. d.cache = h.c.cache  BY DEF Alike
  <1>5. QED  BY <1>1, <1>2, <1>3, <1>4 DEF Keeps

(* handleSplit *)
LEMMA HandleSplitFits ==
    ASSUME TypeOK, NEW a, NEW known, Together(a, known), HandleSplit
    PROVE  /\ Together(a, known)'
           /\ client'.cache = client.cache
           /\ \A k \in Key : UnderWay(client', k) <=> UnderWay(client, k)
  <1> DEFINE old == client.list
             list == IF Len(old) > 1 THEN Append(Tail(old), Head(old)) ELSE old
             c == [client EXCEPT !.pending = FALSE, !.list = list]
             h == SendAll(Sending(c, list, 1, FALSE))
  <1>1. client' = h.c /\ toServer' = h.out /\ events' = h.ev
    BY DEF HandleSplit, Applied, SplitData
  <1>2. client \in ClientChannel /\ Listed(client) /\ agent \in [Resource -> AgentStates]
    BY DEF Together, Fits, StoresFit, TypeOK, AgentStates
  <1>3. old \in Seq(Resource) /\ \A i, j \in DOMAIN old : old[i] = old[j] => i = j
    BY <1>2 DEF ClientChannel, Listed
  <1>4. /\ list \in Seq(Resource)
        /\ \A i, j \in DOMAIN list : list[i] = list[j] => i = j
        /\ \A r \in Resource : Contains(list, r) <=> Contains(old, r)
    <2>1. CASE Len(old) > 1
      <3> DEFINE more == Append(Tail(old), Head(old))
      <3>1. list = more  BY <2>1
      <3> HIDE DEF old
      <3>2. more = Append(Tail(old), Head(old))  OBVIOUS
      <3> HIDE DEF more, list
      <3>3. /\ more \in Seq(Resource)
            /\ \A i, j \in DOMAIN more : more[i] = more[j] => i = j
            /\ \A r \in Resource : Contains(more, r) <=> Contains(old, r)
        BY <1>3, <2>1, <3>2, Rotated
      <3>4. QED  BY <3>1, <3>3
    <2>2. CASE ~ (Len(old) > 1)  BY <1>3, <2>2
    <2>3. QED  BY <2>1, <2>2
  <1> HIDE DEF list
  <1>5. Alike(client, c)  BY <1>2, <1>4 DEF Alike, ClientChannel
  <1>6. c.cache = client.cache  BY <1>5 DEF Alike
  <1> HIDE DEF c
  <1>7. /\ Fits(c, toServer, events, agent, a, Range(sent), known) /\ Asked(c, agent)
        /\ \A k \in Key : UnderWay(c, k) <=> UnderWay(client, k)
    BY <1>5, AlikeFits DEF Together
  <1>0. h = SendAll(Sending(c, list, 1, FALSE))  OBVIOUS
  <1> HIDE DEF h
  <1>13. 1 \in 0 .. 1 /\ FALSE \in BOOLEAN /\ list \in Seq(Resource)  BY <1>4
  <1>8. h \in Sound(agent, a, Range(sent), known, c)
    BY <1>0, <1>2, <1>7, <1>13, Sends
  <1>9. Alike(h.c, h.c)
    BY <1>8 DEF Sound, Fits, StoresFit, Listed, Alike
  <1>10. agent' = agent /\ sent' = sent  BY DEF HandleSplit
  <1>11. /\ Together(a, known)' /\ client'.cache = c.cache
         /\ \A k \in Key : UnderWay(client', k) <=> UnderWay(c, k)
    BY <1>1, <1>8, <1>9, <1>10, Handled
  <1>12. QED  BY <1>6, <1>7, <1>11

(* handleFinishSplitRequest *)
LEMMA FinishSplitFits ==
    ASSUME TypeOK, NEW a, NEW known, Together(a, known),
           NEW r \in Resource, FinishSplit(r)
    PROVE  /\ Together(a, known)'
           /\ client'.cache = client.cache
           /\ \A k \in Key : UnderWay(client', k) <=> UnderWay(client, k)
  <1> DEFINE h == SendAll(Sending(client, <<r>>, 0, TRUE))
             g == [h EXCEPT !.c = AnyPending(h.c)]
  <1>1. client' = g.c /\ toServer' = g.out /\ events' = g.ev
    BY DEF FinishSplit, Applied, FinishStore
  <1>2. agent \in [Resource -> AgentStates]  BY DEF TypeOK, AgentStates
  <1> DEFINE list == <<r>>
  <1>3. list \in Seq(Resource) /\ 0 \in 0 .. 1 /\ TRUE \in BOOLEAN  OBVIOUS
  <1>0. h = SendAll(Sending(client, list, 0, TRUE))  OBVIOUS
  <1> HIDE DEF h, list
  <1>10. /\ Fits(client, toServer, events, agent, a, Range(sent), known)
         /\ Asked(client, agent)
    BY DEF Together
  <1>4. h \in Sound(agent, a, Range(sent), known, client)
    BY <1>0, <1>2, <1>3, <1>10, Sends
  <1>5. h \in Sender /\ h.c \in ClientChannel /\ StoresFit(h.c)  BY <1>4 DEF Sound, Fits
  <1>6. Alike(h.c, AnyPending(h.c))  BY <1>5, PendingAlike
  <1>7. g.c = AnyPending(h.c) /\ g.out = h.out /\ g.ev = h.ev  BY <1>5 DEF Sender
  <1>8. agent' = agent /\ sent' = sent  BY DEF FinishSplit
  <1>9. QED  BY <1>1, <1>4, <1>6, <1>7, <1>8, Handled

(* What a report makes of a split that it finds. *)
LEMMA SplitRestated ==
    ASSUME NEW s \in Split, NEW size \in Format
    PROVE  /\ [s EXCEPT !.state = "loaded", !.csize = size] \in Split
           /\ Outline([s EXCEPT !.state = "loaded", !.csize = size]) = Outline(s)
           /\ [s EXCEPT !.state = "loaded", !.csize = size].state = "loaded"
           /\ [s EXCEPT !.state = "missed"] \in Split
           /\ Outline([s EXCEPT !.state = "missed"]) = Outline(s)
           /\ [s EXCEPT !.state = "missed"].state = "missed"
  BY DEF Split, State, Outline

Finds(c, r, i, x, known, d) ==
    /\ i \in DOMAIN c.store[r]
    /\ x \in Split /\ Outline(x) = Outline(c.store[r][i]) /\ x.state # "notified"
    /\ x.state = "loaded" => <<r, c.store[r][i].key>> \in known
    /\ d = [c EXCEPT !.store[r][i] = x]

(* A report about a split that waits keeps the two sides in step. *)
LEMMA FoundFits ==
    ASSUME NEW c \in ClientChannel, NEW r \in Resource, NEW i, NEW x, NEW known, NEW d,
           Finds(c, r, i, x, known, d),
           NEW link, NEW queue, NEW ag, NEW a, NEW seen,
           Fits(c, link, queue, ag, a, seen, known), Asked(c, ag)
    PROVE  /\ d \in ClientChannel
           /\ Fits(d, link, queue, ag, a, seen, known) /\ Asked(d, ag)
           /\ d.cache = c.cache
           /\ \A k \in Key : UnderWay(d, k) <=> UnderWay(c, k)
  <1> USE DEF Finds
  <1> DEFINE s == c.store[r]
             y == s[i]
             t == [s EXCEPT ![i] = x]
  <1>1. s \in Seq(Split)  BY DEF ClientChannel
  <1>2. Len(s) \in Nat /\ DOMAIN s = 1 .. Len(s)  BY <1>1, LenProperties
  <1>3. y \in Split  BY <1>1
  <1>4. x.key = y.key
    <2> HIDE DEF y
    <2>1. Outline(x) = Outline(y)  BY DEF y
    <2>2. QED  BY <1>3, <2>1, OutlineParts
  <1>5. x.state = "loaded" => MayAbort(r, x, known)  BY <1>4 DEF MayAbort
  <1>6. d = [c EXCEPT !.store = [@ EXCEPT ![r] = t]]  OBVIOUS
  <1> HIDE DEF s, y
  <1>7. i \in 1 .. Len(s)  BY <1>2 DEF s
  <1>8. t \in Seq(Split) /\ Len(t) = Len(s)
        /\ \A j \in 1 .. Len(s) : t[j] = IF j = i THEN x ELSE s[j]
    BY <1>1, <1>2, <1>7, ExceptSeq
  <1> HIDE DEF t
  <1>9. \A j \in 1 .. Len(s) : /\ s[j].state # "notified"
                               /\ s[j].state = "loaded" => MayAbort(r, s[j], known)
    BY <1>2 DEF Fits, StoresFit, StoreFits, Knows, s
  <1>10. \A j \in 1 .. Len(t) : /\ Outline(t[j]) = Outline(s[j])
                                /\ t[j].state # "notified"
                                /\ t[j].state = "loaded" => MayAbort(r, t[j], known)
    BY <1>5, <1>8, <1>9 DEF s
  <1>11. Len(t) = Len(c.store[r]) /\ \A j \in 1 .. Len(t) :
            /\ Outline(t[j]) = Outline(c.store[r][j])
            /\ t[j].state # "notified"
            /\ t[j].state = "loaded" => MayAbort(r, t[j], known)
    BY <1>8, <1>10 DEF s
  <1>12. Restated(c, r, t, known, d)  BY <1>6, <1>8, <1>11 DEF Restated
  <1>13. QED  BY <1>12, RestatedFits

(* A change of the cache that leaves alone what is there and what is locked. *)
LEMMA CacheFits ==
    ASSUME NEW c \in ClientChannel, NEW cache \in [Key -> Slot \cup {Null}],
           \A k \in Key : /\ cache[k] = Null <=> c.cache[k] = Null
                          /\ cache[k] # Null => cache[k].locked = c.cache[k].locked,
           NEW d, d = [c EXCEPT !.cache = cache],
           NEW link, NEW queue, NEW ag, NEW a, NEW seen, NEW known,
           Fits(c, link, queue, ag, a, seen, known), Asked(c, ag)
    PROVE  /\ d \in ClientChannel /\ d.cache = cache
           /\ Fits(d, link, queue, ag, a, seen, known) /\ Asked(d, ag)
           /\ \A k \in Key : UnderWay(d, k) <=> UnderWay(c, k)
  <1>1. /\ d \in ClientChannel /\ d.cache = cache /\ d.store = c.store
        /\ d.commits = c.commits /\ d.list = c.list /\ d.resource = c.resource
    BY DEF ClientChannel
  <1>2. Shape(d, seen) = Shape(c, seen)
    <2>1. /\ {q \in Key : cache[q] # Null} = {q \in Key : c.cache[q] # Null}
          /\ {q \in Key : cache[q] # Null /\ ~ cache[q].locked}
                 = {q \in Key : c.cache[q] # Null /\ ~ c.cache[q].locked}
      OBVIOUS
    <2>2. [q \in Resource |-> Skeleton(d.store[q])] = [q \in Resource |-> Skeleton(c.store[q])]
      BY <1>1
    <2>3. QED  BY <1>1, <2>1, <2>2 DEF Shape
  <1>3. StoresFit(d)  BY <1>1 DEF Fits, StoresFit, Listed
  <1>4. Phases(d, queue, ag)
    <2> SUFFICES ASSUME NEW q \in Resource  PROVE Phase(d, queue, q, ag[q])
      BY DEF Phases
    <2>1. Phase(c, queue, q, ag[q])  BY DEF Fits, Phases
    <2>2. QED  BY <1>1, <2>1, PhaseSame
  <1>5. Knows(d, known)  BY <1>1 DEF Fits, Knows
  <1>6. Fits(d, link, queue, ag, a, seen, known)  BY <1>1, <1>2, <1>3, <1>4, <1>5 DEF Fits
  <1>7. Asked(d, ag)  BY <1>1 DEF Asked
  <1>8. \A q \in Key : UnderWay(d, q) <=> UnderWay(c, q)  BY <1>1 DEF UnderWay
  <1>9. QED  BY <1>1, <1>6, <1>7, <1>8

(* A state of the client that fits, with nothing sent. *)
LEMMA Handles ==
    ASSUME TypeOK, NEW a, NEW known, NEW c, NEW d, Alike(c, d),
           Fits(c, toServer, events, agent, a, Range(sent), known), Asked(c, agent),
           client' = d, toServer' = toServer, events' = events, agent' = agent, sent' = sent
    PROVE  /\ Together(a, known)'
           /\ client'.cache = c.cache
           /\ \A k \in Key : UnderWay(client', k) <=> UnderWay(c, k)
  <1>1. /\ Fits(d, toServer, events, agent, a, Range(sent), known) /\ Asked(d, agent)
        /\ \A k \in Key : UnderWay(d, k) <=> UnderWay(c, k)
    BY AlikeFits
  <1>2. Together(a, known)'  BY <1>1 DEF Together
  <1>3. d.cache = c.cache  BY DEF Alike
  <1>4. QED  BY <1>1, <1>2, <1>3

(* handleSplitEvent: the agent learns only what the report says. *)
SameSlots(old, new) ==
    \A k \in Key : /\ new[k] = Null <=> old[k] = Null
                   /\ new[k] # Null => new[k].locked = old[k].locked

(* handleSplitEvent: a report from the X server's side is read. *)
LEMMA HandleSplitEventFits ==
    ASSUME TypeOK, NEW a, NEW known, Together(a, known), Heard(known), HandleSplitEvent
    PROVE  /\ Together(a, known)'
           /\ SameSlots(client.cache, client'.cache)
           /\ \A k \in Key : UnderWay(client', k) <=> UnderWay(client, k)
  <1> DEFINE report == Head(toClient)
             r == report.resource
             k == report.key
             size == report.csize
             found == SplitFind(client, r, k)
             i == CHOOSE j \in found : TRUE
             loaded == Loaded(client, r, i, size)
             missed == Missed(client, r, i)
             h == SendAborts(loaded, r)
             g == Reported(client, report)
  <1>1. client' = g.c /\ toServer' = g.out /\ events' = g.ev
        /\ agent' = agent /\ sent' = sent /\ toClient # <<>>
    BY DEF HandleSplitEvent, Applied
  <1>2. client \in ClientChannel /\ agent \in [Resource -> AgentStates]
    BY DEF TypeOK, AgentStates
  <1>3. /\ r \in Resource /\ k \in Key /\ size \in Format /\ report.loaded \in BOOLEAN
        /\ report.loaded => <<r, k>> \in known
    <2>1. toClient \in Seq([resource : Resource, key : Key, loaded : BOOLEAN, csize : Format])
      BY DEF TypeOK
    <2>2. 1 \in DOMAIN toClient /\ report = toClient[1]  BY <1>1, <2>1, EmptySeq
    <2>3. report \in [resource : Resource, key : Key, loaded : BOOLEAN, csize : Format]
      <3> DEFINE T == [resource : Resource, key : Key, loaded : BOOLEAN, csize : Format]
      <3>1. toClient \in Seq(T) /\ toClient # <<>>  BY <1>1, <2>1
      <3> HIDE DEF T
      <3>2. Head(toClient) \in T  BY <3>1, HeadTailProperties
      <3>3. QED  BY <3>2 DEF T
    <2>4. report.loaded => <<r, k>> \in known  BY <2>2 DEF Heard
    <2> HIDE DEF report
    <2>5. QED  BY <2>3, <2>4
  <1>4. /\ Fits(client, toServer, events, agent, a, Range(sent), known) /\ Asked(client, agent)
    BY DEF Together
  <1>5. g = CASE found # {} /\ report.loaded /\ i = 1 -> [h EXCEPT !.c = AnyPending(h.c)]
              [] found # {} /\ report.loaded /\ i # 1 -> Handling(loaded)
              [] found # {} /\ ~ report.loaded -> Handling(Pending(missed, r))
              [] found = {} /\ report.loaded -> Handling(Resized(client, k, size))
              [] found = {} /\ ~ report.loaded -> Handling(client)
    BY DEF Reported
  <1>6. /\ client.store[r] \in Seq(Split)
        /\ \A j \in found : j \in DOMAIN client.store[r] /\ client.store[r][j].key = k
    BY <1>2, <1>3, ClientSided DEF SplitFind
  <1>7. found # {} => i \in DOMAIN client.store[r] /\ client.store[r][i].key = k
    <2> HIDE DEF found
    <2>1. QED  BY <1>6
  <1> DEFINE s == client.store[r][i]
  <1>8. ASSUME found # {}, report.loaded
        PROVE  /\ loaded \in ClientChannel
               /\ Fits(loaded, toServer, events, agent, a, Range(sent), known)
               /\ Asked(loaded, agent)
               /\ loaded.cache = client.cache
               /\ \A q \in Key : UnderWay(loaded, q) <=> UnderWay(client, q)
    <2> DEFINE x == [s EXCEPT !.state = "loaded", !.csize = size]
    <2>1. s \in Split /\ s.key = k  BY <1>6, <1>7, <1>8
    <2>2. i \in DOMAIN client.store[r]  BY <1>7, <1>8
    <2> HIDE DEF found, i
    <2>3. loaded = [client EXCEPT !.store[r][i] = x]  BY DEF Loaded
    <2> HIDE DEF s, report, loaded
    <2>4. x \in Split /\ Outline(x) = Outline(s) /\ x.state = "loaded"
      BY <1>3, <2>1, SplitRestated
    <2>5. <<r, s.key>> \in known  BY <1>3, <1>8, <2>1
    <2> HIDE DEF x
    <2>6. Finds(client, r, i, x, known, loaded)
      BY <2>2, <2>3, <2>4, <2>5 DEF Finds, s
    <2>7. QED  BY <1>2, <1>3, <1>4, <2>6, FoundFits
  <1>9. ASSUME found # {}
        PROVE  /\ missed \in ClientChannel
               /\ Fits(missed, toServer, events, agent, a, Range(sent), known)
               /\ Asked(missed, agent)
               /\ missed.cache = client.cache
               /\ \A q \in Key : UnderWay(missed, q) <=> UnderWay(client, q)
    <2> DEFINE x == [s EXCEPT !.state = "missed"]
    <2>1. s \in Split /\ s.key = k  BY <1>6, <1>7, <1>9
    <2>2. i \in DOMAIN client.store[r]  BY <1>7, <1>9
    <2> HIDE DEF found, i
    <2>3. missed = [client EXCEPT !.store[r][i] = x]  BY DEF Missed
    <2> HIDE DEF s, report, missed
    <2>4. x \in Split /\ Outline(x) = Outline(s) /\ x.state = "missed"
      BY <1>3, <2>1, SplitRestated
    <2> HIDE DEF x
    <2>5. /\ x \in Split /\ Outline(x) = Outline(client.store[r][i]) /\ x.state # "notified"
          /\ x.state = "loaded" => <<r, client.store[r][i].key>> \in known
      BY <2>4 DEF s
    <2>6. Finds(client, r, i, x, known, missed)  BY <2>2, <2>3, <2>5 DEF Finds
    <2>7. QED  BY <1>2, <1>3, <1>4, <2>6, FoundFits
  <1>10. \A c : Handling(c).c = c /\ Handling(c).out = toServer /\ Handling(c).ev = events
    BY DEF Handling
  <1>11. \A c : c.cache = client.cache => SameSlots(client.cache, c.cache)
    BY DEF SameSlots
  <1> HIDE DEF found, i, loaded, missed, g, r, k, size
  <1>12. CASE found # {} /\ report.loaded /\ i = 1
    <2> DEFINE list == <<r>>
               f == [h EXCEPT !.c = AnyPending(h.c)]
    <2>1. list \in Seq(Resource) /\ 0 \in 0 .. 1 /\ FALSE \in BOOLEAN  BY <1>3
    <2>2. h = SendAll(Sending(loaded, list, 0, FALSE))  BY DEF SendAborts
    <2>3. g = [h EXCEPT !.c = AnyPending(h.c)]  BY <1>5, <1>12
    <2> HIDE DEF h, list
    <2>4. h \in Sound(agent, a, Range(sent), known, loaded)
      BY <1>2, <1>8, <1>12, <2>1, <2>2, Sends
    <2>5. h \in Sender /\ h.c \in ClientChannel /\ StoresFit(h.c)  BY <2>4 DEF Sound, Fits
    <2>6. Alike(h.c, AnyPending(h.c))  BY <2>5, PendingAlike
    <2>7. g.c = AnyPending(h.c) /\ g.out = h.out /\ g.ev = h.ev  BY <2>3, <2>5 DEF Sender
    <2>8. /\ Together(a, known)' /\ client'.cache = loaded.cache
          /\ \A q \in Key : UnderWay(client', q) <=> UnderWay(loaded, q)
      BY <1>1, <2>4, <2>6, <2>7, Handled
    <2>9. QED  BY <1>8, <1>11, <1>12, <2>8
  <1>13. CASE found # {} /\ report.loaded /\ i # 1
    <2>1. g = Handling(loaded)  BY <1>5, <1>13
    <2>2. Alike(loaded, loaded)
      BY <1>8, <1>13 DEF Alike, Fits, StoresFit, Listed
    <2>3. /\ Together(a, known)' /\ client'.cache = loaded.cache
          /\ \A q \in Key : UnderWay(client', q) <=> UnderWay(loaded, q)
      BY <1>1, <1>8, <1>10, <1>13, <2>1, <2>2, Handles
    <2>4. QED  BY <1>8, <1>11, <1>13, <2>3
  <1>14. CASE found # {} /\ ~ report.loaded
    <2>1. g = Handling(Pending(missed, r))  BY <1>5, <1>14
    <2>2. Alike(missed, Pending(missed, r))
      BY <1>3, <1>9, <1>14, PendingAlike DEF Fits
    <2>3. /\ Together(a, known)' /\ client'.cache = missed.cache
          /\ \A q \in Key : UnderWay(client', q) <=> UnderWay(missed, q)
      BY <1>1, <1>9, <1>10, <1>14, <2>1, <2>2, Handles
    <2>4. QED  BY <1>9, <1>11, <1>14, <2>3
  <1>15. CASE found = {} /\ report.loaded
    <2> DEFINE c == Resized(client, k, size)
    <2>1. g = Handling(c)  BY <1>5, <1>15
    <2>2. /\ Fits(c, toServer, events, agent, a, Range(sent), known) /\ Asked(c, agent)
          /\ c \in ClientChannel /\ SameSlots(client.cache, c.cache)
          /\ \A q \in Key : UnderWay(c, q) <=> UnderWay(client, q)
      <3>1. CASE size # "plain" /\ client.cache[k] # Null
        <4> DEFINE cache == [client.cache EXCEPT ![k] = [@ EXCEPT !.csize = size]]
        <4>1. c = [client EXCEPT !.cache = cache]  BY <3>1 DEF Resized
        <4>2. client.cache \in [Key -> Slot \cup {Null}]  BY <1>2 DEF ClientChannel
        <4>3. [client.cache[k] EXCEPT !.csize = size] \in Slot
              /\ [client.cache[k] EXCEPT !.csize = size].locked = client.cache[k].locked
              /\ [client.cache[k] EXCEPT !.csize = size] # Null
          BY <1>3, <3>1, <4>2, NullAssumption DEF Slot
        <4>4. cache \in [Key -> Slot \cup {Null}]
              /\ \A q \in Key : cache[q] = IF q = k THEN [client.cache[k] EXCEPT !.csize = size]
                                           ELSE client.cache[q]
          BY <4>2, <4>3
        <4> HIDE DEF c, cache
        <4>5. \A q \in Key : /\ cache[q] = Null <=> client.cache[q] = Null
                             /\ cache[q] # Null => cache[q].locked = client.cache[q].locked
          BY <3>1, <4>3, <4>4
        <4>6. /\ Fits(c, toServer, events, agent, a, Range(sent), known) /\ Asked(c, agent)
              /\ c \in ClientChannel /\ c.cache = cache
              /\ \A q \in Key : UnderWay(c, q) <=> UnderWay(client, q)
          BY <1>2, <1>4, <4>1, <4>4, <4>5, CacheFits
        <4>7. QED  BY <4>5, <4>6 DEF SameSlots
      <3>2. CASE ~ (size # "plain" /\ client.cache[k] # Null)
        <4>1. c = client  BY <3>2 DEF Resized
        <4>2. QED  BY <1>2, <1>4, <1>11, <4>1
      <3>3. QED  BY <3>1, <3>2
    <2> HIDE DEF c
    <2>3. Alike(c, c)  BY <2>2 DEF Alike, Fits, StoresFit, Listed
    <2>4. /\ Together(a, known)' /\ client'.cache = c.cache
          /\ \A q \in Key : UnderWay(client', q) <=> UnderWay(c, q)
      BY <1>1, <1>10, <2>1, <2>2, <2>3, Handles
    <2>5. QED  BY <2>2, <2>4
  <1>16. CASE found = {} /\ ~ report.loaded
    <2>1. g = Handling(client)  BY <1>5, <1>16
    <2>2. Alike(client, client)  BY <1>2, <1>4 DEF Alike, Fits, StoresFit, Listed
    <2>3. /\ Together(a, known)' /\ client'.cache = client.cache
          /\ \A q \in Key : UnderWay(client', q) <=> UnderWay(client, q)
      BY <1>1, <1>4, <1>10, <2>1, <2>2, Handles
    <2>4. QED  BY <1>11, <2>3
  <1>17. QED  BY <1>3, <1>12, <1>13, <1>14, <1>15, <1>16

(* The stores do not tell the modes, nor which sequence is open. *)
LEMMA OpenReads ==
    ASSUME NEW c \in ClientChannel, NEW d \in ClientChannel, NEW seen \in SUBSET Pairs, NEW known,
           d.store = c.store, d.commits = c.commits, d.cache = c.cache,
           NEW m, m.type \in {"start", "end"},
           d.resource = IF m.type = "start" THEN m.resource ELSE nothing
    PROVE  /\ Reads(Shape(c, seen), m, Shape(d, seen), known)
           /\ Shape(d, seen) \in Shapes
  <1> DEFINE a == Shape(c, seen)
             b == Shape(d, seen)
  <1>1. Sided(c) /\ Sided(d)  BY ClientSided
  <1>2. /\ a.store = b.store /\ a.commits = b.commits /\ a.held = b.held
        /\ a.ready = b.ready
    BY <1>1, ShapeSame
  <1>3. a.seen = b.seen /\ b.resource = d.resource /\ b \in Shapes  BY <1>1, ShapeParts
  <1> HIDE DEF a, b
  <1>4. ReadsOpen(a, m, b)  BY <1>2, <1>3 DEF ReadsOpen
  <1>5. QED  BY <1>3, <1>4 DEF Reads, a, b

(* The images that were sent, each for a resource. *)
LEMMA SentPairs ==
    ASSUME TypeOK
    PROVE  sent \in Seq(Pairs) /\ Range(sent) \in SUBSET Pairs
  <1>1. sent \in Seq(Pairs)  BY DEF TypeOK, Pairs
  <1>2. \A i \in DOMAIN sent : sent[i] \in Pairs  BY <1>1
  <1>3. QED  BY <1>1, <1>2 DEF Range

(* What is known of a state that fits. *)
LEMMA TogetherParts ==
    ASSUME TypeOK, NEW a, NEW known, Together(a, known)
    PROVE  /\ client \in ClientChannel /\ toServer \in Seq(Message) /\ events \in Seq(Event)
           /\ StoresFit(client) /\ Told(client.commits, events)
           /\ \A r \in Resource : Phase(client, events, r, agent[r])
           /\ Knows(client, known)
           /\ Leads(a, toServer, Shape(client, Range(sent)), known)
           /\ Asked(client, agent)
           /\ agent \in [Resource -> AgentStates]
           /\ Range(sent) \in SUBSET Pairs
  BY SentPairs DEF Together, Fits, Phases, TypeOK, AgentStates

StartOf(r) == [type |-> "start", resource |-> r]
AbortOf(r) == [type |-> "abort", resource |-> r]

(* The requests that open, close and abort a sequence. *)
LEMMA MessageParts ==
    ASSUME NEW r \in Resource
    PROVE  /\ StartOf(r) \in Message /\ StartOf(r).type = "start" /\ StartOf(r).resource = r
           /\ EndOf(r) \in Message /\ EndOf(r).type = "end" /\ EndOf(r).resource = r
           /\ AbortOf(r) \in Message /\ AbortOf(r).type = "abort" /\ AbortOf(r).resource = r
  <1>1. StartOf(r) \in [type : {"start", "end", "abort"}, resource : Resource]
    BY DEF StartOf
  <1>2. EndOf(r) \in [type : {"start", "end", "abort"}, resource : Resource]
    BY DEF EndOf
  <1>3. AbortOf(r) \in [type : {"start", "end", "abort"}, resource : Resource]
    BY DEF AbortOf
  <1>4. QED  BY <1>1, <1>2, <1>3 DEF Message, StartOf, EndOf, AbortOf

(* handleStartSplitRequest, at the agent's side *)
LEMMA StartSplitFits ==
    ASSUME TypeOK, NEW a, NEW known, Together(a, known),
           NEW r \in Resource, NEW mode \in Modes, StartSplit(r, mode)
    PROVE  /\ Together(a, known)'
           /\ client' \in ClientChannel /\ client'.cache = client.cache
           /\ \A k \in Key : UnderWay(client', k) <=> UnderWay(client, k)
  <1> USE TogetherParts
  <1> DEFINE d == [client EXCEPT !.resource = r, !.mode = mode]
             seen == Range(sent)
             m == StartOf(r)
  <1>1. /\ client' = d /\ toServer' = Append(toServer, m) /\ events' = events
        /\ sent' = sent /\ agent' = [agent EXCEPT ![r] = "open"] /\ agent[r] = "free"
        /\ \A q \in Resource : agent[q] \notin {"open", "waiting"}
    BY DEF StartSplit, Idle, StartOf
  <1>2. /\ d \in ClientChannel /\ d.resource = r
        /\ d.store = client.store /\ d.commits = client.commits /\ d.cache = client.cache
        /\ d.list = client.list
    BY DEF ClientChannel
  <1> HIDE DEF d
  <1>3. /\ Reads(Shape(client, seen), m, Shape(d, seen), known)
        /\ Shape(d, seen) \in Shapes /\ m \in Message
    <2>1. m.type = "start" /\ m.resource = r /\ m \in Message  BY MessageParts
    <2>2. seen \in SUBSET Pairs  OBVIOUS
    <2> HIDE DEF m, seen
    <2>3. QED  BY <1>2, <2>1, <2>2, OpenReads
  <1>4. Leads(a, Append(toServer, m), Shape(d, seen), known)
    BY <1>3, LeadsOn
  <1>5. StoresFit(d)  BY <1>2 DEF StoresFit, Listed
  <1>6. Phases(d, events, agent')
    <2> SUFFICES ASSUME NEW q \in Resource  PROVE Phase(d, events, q, agent'[q])
      BY DEF Phases
    <2>1. Phase(client, events, q, agent[q])  OBVIOUS
    <2>2. agent'[q] = IF q = r THEN "open" ELSE agent[q]  BY <1>1
    <2>3. CASE q = r
      <3>1. Phase(client, events, q, "free") /\ agent'[q] = "open"  BY <1>1, <2>1, <2>2, <2>3
      <3>2. QED  BY <1>2, <2>3, <3>1 DEF Phase
    <2>4. CASE q # r
      <3>1. agent[q] # "open" /\ agent'[q] = agent[q]  BY <1>1, <2>2, <2>4
      <3>2. client.resource # q  BY <2>1, <3>1 DEF Phase
      <3>3. QED  BY <1>2, <2>1, <2>4, <3>1, <3>2, PhaseSame
    <2>5. QED  BY <2>3, <2>4
  <1>7. Knows(d, known)  BY <1>2 DEF Knows
  <1>8. Asked(d, agent')
    <2>1. \A q \in Resource : agent'[q] = "free" => agent[q] = "free"  BY <1>1
    <2>2. QED  BY <1>2, <2>1 DEF Asked
  <1>9. toServer' \in Seq(Message)  BY <1>1, <1>3
  <1>10. Together(a, known)'
    BY <1>1, <1>2, <1>4, <1>5, <1>6, <1>7, <1>8, <1>9 DEF Together, Fits
  <1>11. \A k \in Key : UnderWay(client', k) <=> UnderWay(client, k)
    BY <1>1, <1>2 DEF UnderWay
  <1>12. QED  BY <1>1, <1>2, <1>10, <1>11

OpeningOf(c, r) == [type |-> IF c.store[r] = <<>> THEN "no" ELSE "start", resource |-> r]

(* The answer to the end of a sequence is of that resource. *)
LEMMA OpeningParts ==
    ASSUME NEW c, NEW r \in Resource
    PROVE  /\ OpeningOf(c, r) \in Event /\ OpeningOf(c, r).type \in {"no", "start"}
           /\ \A types, q : Of(OpeningOf(c, r), types, q) =>
                 q = r /\ IF c.store[r] = <<>> THEN "no" \in types ELSE "start" \in types
           /\ Of(OpeningOf(c, r), {"no", "start"}, r)
  <1> DEFINE e == OpeningOf(c, r)
  <1>1. e.resource = r /\ e.type = IF c.store[r] = <<>> THEN "no" ELSE "start"
    BY DEF OpeningOf
  <1>2. e \in Event  BY DEF OpeningOf, Event
  <1> HIDE DEF e
  <1>3. e.type \in {"no", "start"} /\ Of(e, {"no", "start"}, r)  BY <1>1 DEF Of
  <1>4. \A types, q : Of(e, types, q) =>
           q = r /\ IF c.store[r] = <<>> THEN "no" \in types ELSE "start" \in types
    BY <1>1 DEF Of
  <1>5. QED  BY <1>2, <1>3, <1>4 DEF e

(* handleEndSplitRequest, at the agent's side *)
LEMMA EndSplitFits ==
    ASSUME TypeOK, NEW a, NEW known, Together(a, known),
           NEW r \in Resource, EndSplit(r)
    PROVE  /\ Together(a, known)'
           /\ client' \in ClientChannel /\ client'.cache = client.cache
           /\ \A k \in Key : UnderWay(client', k) <=> UnderWay(client, k)
  <1> USE TogetherParts
  <1> DEFINE p == AnyPending(client)
             d == [p EXCEPT !.resource = nothing]
             seen == Range(sent)
             m == EndOf(r)
             e == OpeningOf(client, r)
             queue == Append(events, e)
  <1>1. /\ client' = d /\ toServer' = Append(toServer, m) /\ events' = queue
        /\ sent' = sent /\ agent' = [agent EXCEPT ![r] = "waiting"] /\ agent[r] = "open"
    BY DEF EndSplit, Applied, EndOf, OpeningOf
  <1>2. Alike(client, p)  BY PendingAlike
  <1> HIDE DEF p
  <1>3. /\ d \in ClientChannel /\ d.resource = nothing
        /\ d.store = client.store /\ d.commits = client.commits /\ d.cache = client.cache
        /\ d.list = p.list
    BY <1>2 DEF Alike, ClientChannel
  <1>4. nothing \notin Resource  BY NullAssumption DEF nothing
  <1> HIDE DEF d
  <1>5. /\ Reads(Shape(client, seen), m, Shape(d, seen), known)
        /\ Shape(d, seen) \in Shapes /\ m \in Message
    <2>1. m.type = "end" /\ m.resource = r /\ m \in Message  BY MessageParts
    <2>2. seen \in SUBSET Pairs  OBVIOUS
    <2> HIDE DEF m, seen
    <2>3. QED  BY <1>3, <2>1, <2>2, OpenReads
  <1>6. Leads(a, Append(toServer, m), Shape(d, seen), known)
    BY <1>5, LeadsOn
  <1>7. StoresFit(d)  BY <1>2, <1>3 DEF StoresFit, Listed, Alike
  <1>8. e \in Event /\ e.type \in {"no", "start"}  BY OpeningParts
  <1>9. queue \in Seq(Event) /\ Told(d.commits, queue)
    BY <1>3, <1>8, ToldOther
  <1>10. Phases(d, queue, agent')
    <2> SUFFICES ASSUME NEW q \in Resource  PROVE Phase(d, queue, q, agent'[q])
      BY DEF Phases
    <2>1. Phase(client, events, q, agent[q])  OBVIOUS
    <2>2. agent'[q] = IF q = r THEN "waiting" ELSE agent[q]  BY <1>1
    <2>3. CASE q = r
      <3>1. Phase(client, events, r, "open") /\ agent'[q] = "waiting"
        BY <1>1, <2>1, <2>2, <2>3
      <3>2. NoneOf(events, {"no", "start"}, r) /\ NoneOf(events, {"end"}, r)
        BY <3>1 DEF Phase
      <3>3. NoneOf(events, {"no"}, r) /\ NoneOf(events, {"start"}, r)
        BY <3>2 DEF NoneOf, Of
      <3>4. OneOf(queue, {"no", "start"}, r)
        BY <1>8, <3>2, OpeningParts, OfAppend
      <3>5. NoneOf(queue, {"end"}, r)
        <4>1. ~ Of(e, {"end"}, r)  BY OpeningParts
        <4>2. QED  BY <1>8, <3>2, <4>1, OfAppend
      <3>6. client.store[r] = <<>> => NoneOf(queue, {"start"}, r)
        <4>1. client.store[r] = <<>> => ~ Of(e, {"start"}, r)  BY OpeningParts
        <4>2. QED  BY <1>8, <3>3, <4>1, OfAppend
      <3>7. client.store[r] # <<>> => NoneOf(queue, {"no"}, r)
        <4>1. client.store[r] # <<>> => ~ Of(e, {"no"}, r)  BY OpeningParts
        <4>2. QED  BY <1>8, <3>3, <4>1, OfAppend
      <3> HIDE DEF queue
      <3>8. QED  BY <1>3, <1>4, <2>3, <3>1, <3>4, <3>5, <3>6, <3>7 DEF Phase, Ending
    <2>4. CASE q # r
      <3>1. agent'[q] = agent[q] /\ client.resource = r
        <4>1. Phase(client, events, r, "open")  BY <1>1
        <4>2. QED  BY <2>2, <2>4, <4>1 DEF Phase
      <3>2. Phase(d, events, q, agent[q])
        <4>1. client.resource # q /\ d.resource # q  BY <1>3, <1>4, <2>4, <3>1
        <4>2. Contains(client.list, q) <=> Contains(d.list, q)  BY <1>2, <1>3 DEF Alike
        <4>3. QED  BY <1>3, <2>1, <4>1, <4>2, PhaseSame
      <3>3. ~ Of(e, {"no", "start", "end"}, q)  BY <2>4, OpeningParts
      <3>4. QED  BY <1>8, <3>1, <3>2, <3>3, PhaseAppend
    <2>5. QED  BY <2>3, <2>4
  <1>11. Knows(d, known)  BY <1>3 DEF Knows
  <1>12. Asked(d, agent')
    <2>1. \A q \in Resource : agent'[q] = "free" => agent[q] = "free"  BY <1>1
    <2>2. QED  BY <1>3, <2>1 DEF Asked
  <1>13. toServer' \in Seq(Message)  BY <1>1, <1>5
  <1>14. Together(a, known)'
    <2> HIDE DEF queue
    <2>1. QED  BY <1>1, <1>3, <1>6, <1>7, <1>9, <1>10, <1>11, <1>12, <1>13 DEF Together, Fits
  <1>15. \A k \in Key : UnderWay(client', k) <=> UnderWay(client, k)
    BY <1>1, <1>3 DEF UnderWay
  <1>16. QED  BY <1>1, <1>3, <1>14, <1>15

(* The agent passes over an "empty". *)
LEMMA EmptySplitEventFits ==
    ASSUME TypeOK, NEW a, NEW known, Together(a, known), EmptySplitEvent
    PROVE  Together(a, known)' /\ client' = client
  <1> USE TogetherParts
  <1> DEFINE queue == RemoveAt(events, 1)
  <1>1. /\ events # <<>> /\ events' = Tail(events) /\ Head(events).type = "empty"
        /\ client' = client /\ toServer' = toServer /\ agent' = agent /\ sent' = sent
    BY DEF EmptySplitEvent
  <1>2. 1 \in DOMAIN events /\ Head(events) = events[1]  BY <1>1, EmptySeq
  <1>3. queue = Tail(events) /\ queue \in Seq(Event)  BY <1>2, Removed
  <1> HIDE DEF queue
  <1>4. Told(client.commits, queue)
    <2>1. events[1].type # "commit"  BY <1>1, <1>2
    <2>2. client.commits \in Seq(Split)  BY DEF ClientChannel
    <2>3. QED  BY <1>2, <2>1, <2>2, ToldDrop DEF queue
  <1>5. Phases(client, queue, agent)
    <2> SUFFICES ASSUME NEW q \in Resource  PROVE Phase(client, queue, q, agent[q])
      BY DEF Phases
    <2>1. ~ Of(events[1], {"no", "start", "end"}, q)  BY <1>1, <1>2 DEF Of
    <2>2. QED  BY <1>2, <2>1, PhaseRemoved DEF queue
  <1>6. QED  BY <1>1, <1>3, <1>4, <1>5 DEF Together, Fits

-----------------------------------------------------------------------------
(* Commits *)

(* The slots of the agent's side are those of the splits under way, as long as
   no split is aborted.                                                      *)
CacheFit(c) ==
    \A k \in Key : /\ UnderWay(c, k) => c.cache[k] # Null
                   /\ c.cache[k] # Null /\ c.cache[k].locked => UnderWay(c, k)

(* The request that commits a split. *)
LEMMA CommitMessage ==
    ASSUME NEW r \in Resource, NEW p \in Key \cup {Null}
    PROVE  /\ CommitRequest(r, p) \in Message /\ CommitRequest(r, p).type = "commit"
           /\ CommitRequest(r, p).resource = r /\ CommitRequest(r, p).position = p
  <1> DEFINE told == agent[r] \in {"open", "waiting", "split"}
  <1>1. CommitRequest(r, p) = [type |-> "commit", resource |-> r, position |-> p, commit |-> told]
    BY DEF CommitRequest
  <1>2. told \in BOOLEAN  OBVIOUS
  <1> HIDE DEF told
  <1>3. QED  BY <1>1, <1>2 DEF Message

(* CommitStore::update unlocks the slot of a split that was added. *)
LEMMA UpdateParts ==
    ASSUME NEW cache \in [Key -> Slot \cup {Null}], NEW s \in Split
    PROVE  /\ CommitUpdate(cache, s) \in [Key -> Slot \cup {Null}]
           /\ \A k \in Key : /\ CommitUpdate(cache, s)[k] = Null <=> cache[k] = Null
                             /\ CommitUpdate(cache, s)[k] # Null =>
                                   (CommitUpdate(cache, s)[k].locked
                                      <=> cache[k].locked /\ ~ (s.action = "added" /\ s.key = k))
  <1>1. s.key \in Key /\ s.csize \in Format /\ s.data \in Data  BY DEF Split
  <1>2. CASE s.action = "added" /\ cache[s.key] # Null
    <2> DEFINE slot == UpdatedSlot(cache[s.key], s)
    <2>1. cache[s.key] \in Slot  BY <1>1, <1>2
    <2>2. slot \in Slot /\ slot.locked = FALSE /\ slot # Null
      <3>1. cache[s.key].csize \in Format  BY <2>1 DEF Slot
      <3>2. slot \in Slot  BY <1>1, <3>1 DEF UpdatedSlot, Slot
      <3>3. slot.locked = FALSE  BY DEF UpdatedSlot
      <3>4. QED  BY <3>2, <3>3, NullAssumption
    <2> HIDE DEF slot
    <2>3. CommitUpdate(cache, s) = [cache EXCEPT ![s.key] = slot]
      BY <1>2 DEF CommitUpdate, slot
    <2>4. QED  BY <1>1, <1>2, <2>2, <2>3
  <1>3. CASE ~ (s.action = "added" /\ cache[s.key] # Null)
    <2>1. CommitUpdate(cache, s) = cache  BY <1>3 DEF CommitUpdate
    <2>2. \A k \in Key : cache[k] # Null => ~ (s.action = "added" /\ s.key = k)  BY <1>3
    <2>3. \A k \in Key : cache[k] # Null => cache[k].locked \in BOOLEAN  BY DEF Slot
    <2>4. QED  BY <2>1, <2>2, <2>3
  <1>4. QED  BY <1>2, <1>3

(* The other side can read the commit of the head of the commit store, and
   is then where the agent's side is.                                        *)
LEMMA CommitReads ==
    ASSUME NEW c \in ClientChannel, c.commits # <<>>, NEW seen \in SUBSET Pairs, NEW known,
           NEW s, s = Head(c.commits), s.action = "added" => c.cache[s.key] # Null,
           NEW d, d = Committed(c),
           NEW m, m.type = "commit", m.resource = s.resource, m.position = Position(s)
    PROVE  /\ d \in ClientChannel /\ d.store = c.store /\ d.commits = Tail(c.commits)
           /\ d.resource = c.resource /\ d.list = c.list
           /\ d.cache = CommitUpdate(c.cache, s)
           /\ Reads(Shape(c, seen), m, Shape(d, seen), known)
           /\ Shape(d, seen) \in Shapes
  <1> DEFINE a == Shape(c, seen)
             b == Shape(d, seen)
             cache == CommitUpdate(c.cache, s)
             rest == Tail(c.commits)
             o == Outline(s)
  <1>1. c.commits \in Seq(Split) /\ c.cache \in [Key -> Slot \cup {Null}]  BY DEF ClientChannel
  <1>2. s \in Split /\ rest \in Seq(Split) /\ Skeleton(rest) = Tail(Skeleton(c.commits))
        /\ Head(Skeleton(c.commits)) = o
    BY <1>1, SkeletonTail
  <1>3. /\ cache \in [Key -> Slot \cup {Null}]
        /\ \A k \in Key : /\ cache[k] = Null <=> c.cache[k] = Null
                          /\ cache[k] # Null =>
                                (cache[k].locked
                                   <=> c.cache[k].locked /\ ~ (s.action = "added" /\ s.key = k))
    BY <1>1, <1>2, UpdateParts
  <1>4. d = [c EXCEPT !.cache = cache, !.commits = rest]  BY DEF Committed
  <1> HIDE DEF cache, rest
  <1>5. /\ d \in ClientChannel /\ d.store = c.store /\ d.commits = rest
        /\ d.resource = c.resource /\ d.list = c.list /\ d.cache = cache
    BY <1>2, <1>3, <1>4 DEF ClientChannel
  <1>6. Sided(c) /\ Sided(d)  BY <1>5, ClientSided
  <1>7. /\ o.action = s.action /\ o.key = s.key /\ o.resource = s.resource
        /\ Position(o) = Position(s) /\ s.key \in Key
    BY <1>2, OutlineParts DEF Position, Split
  <1>8. /\ a.commits = Skeleton(c.commits) /\ b.commits = Skeleton(d.commits)
        /\ a.resource = c.resource /\ b.resource = d.resource
        /\ a.seen = seen /\ b.seen = seen /\ b.store = a.store /\ b \in Shapes
        /\ a.held = {k \in Key : c.cache[k] # Null} /\ b.held = {k \in Key : d.cache[k] # Null}
        /\ a.ready = {k \in Key : c.cache[k] # Null /\ ~ c.cache[k].locked}
        /\ b.ready = {k \in Key : d.cache[k] # Null /\ ~ d.cache[k].locked}
    BY <1>5, <1>6, ShapeParts, ShapeSame
  <1> HIDE DEF a, b, o
  <1>9. a.commits # <<>> /\ Head(a.commits) = o /\ b.commits = Tail(a.commits)
    BY <1>1, <1>2, <1>5, <1>8, SkeletonParts
  <1>10. b.held = a.held  BY <1>3, <1>5, <1>8
  <1>11. b.ready = a.ready \cup Added(o)
    <2>1. \A k \in Key : k \in b.ready <=> k \in a.ready \/ (s.action = "added" /\ s.key = k)
      BY <1>3, <1>5, <1>8
    <2>2. b.ready \subseteq Key /\ a.ready \subseteq Key  BY <1>8
    <2>3. \A k : k \in Added(o) <=> s.action = "added" /\ s.key = k  BY <1>7 DEF Added
    <2>4. QED  BY <1>7, <2>1, <2>2, <2>3
  <1>12. o.action = "added" => o.key \in a.held  BY <1>7, <1>8
  <1>13. ReadsCommit(a, m, b)
    BY <1>5, <1>7, <1>8, <1>9, <1>10, <1>11, <1>12 DEF ReadsCommit
  <1>14. QED  BY <1>5, <1>8, <1>13 DEF Reads, a, b, cache, rest

(* The states of the loop that commits, with the agent's record as it will be. *)
CommitsSound(ag, a, seen, known) ==
    {h \in Committer :
        /\ ~ h.failed => Fits(h.c, h.out, h.ev, ag, a, seen, known)
        /\ "abort" \notin May => ~ h.failed /\ CacheFit(h.c)}

FirstCommit(queue, i) ==
    /\ i \in DOMAIN queue /\ queue[i].type = "commit"
    /\ \A j \in DOMAIN queue : j < i => queue[j].type # "commit"

(* A commit unlocks the slot of its split, which is no longer under way. *)
LEMMA CommittedCacheFit ==
    ASSUME NEW c \in ClientChannel, c.commits # <<>>, NEW d \in ClientChannel,
           NEW s, s = Head(c.commits), d.store = c.store, d.commits = Tail(c.commits),
           d.cache = CommitUpdate(c.cache, s), CacheFit(c)
    PROVE  CacheFit(d)
  <1> DEFINE all == c.commits
             n == Len(all)
             rest == Tail(all)
  <1>1. all \in Seq(Split) /\ c.cache \in [Key -> Slot \cup {Null}]  BY DEF ClientChannel
  <1>2. s \in Split /\ s = all[1] /\ 1 \in DOMAIN all  BY <1>1, SkeletonTail
  <1>3. /\ n \in Nat \ {0} /\ DOMAIN all = 1 .. n /\ Len(rest) = n - 1 /\ DOMAIN rest = 1 .. n - 1
        /\ \A i \in 1 .. n - 1 : rest[i] = all[i + 1]
    BY <1>1, EmptySeq, HeadTailProperties, LenProperties
  <1>4. \A k \in Key : /\ d.cache[k] = Null <=> c.cache[k] = Null
                       /\ d.cache[k] # Null =>
                             (d.cache[k].locked
                                <=> c.cache[k].locked /\ ~ (s.action = "added" /\ s.key = k))
    BY <1>1, <1>2, UpdateParts
  <1> HIDE DEF rest, n, all
  <1>5. ASSUME NEW k \in Key, UnderWay(d, k)
        PROVE  UnderWay(c, k)
    <2>1. \A i \in DOMAIN d.commits : \E j \in DOMAIN c.commits : d.commits[i] = c.commits[j]
      <3>1. \A i \in 1 .. n - 1 : i + 1 \in 1 .. n  BY <1>3
      <3>2. QED  BY <1>3, <3>1 DEF rest, all
    <2>2. QED  BY <1>5, <2>1 DEF UnderWay
  <1>6. ASSUME NEW k \in Key, UnderWay(c, k)
        PROVE  UnderWay(d, k) \/ (s.action = "added" /\ s.key = k)
    <2>1. CASE \E i \in DOMAIN c.commits : c.commits[i].key = k /\ c.commits[i].action = "added"
      <3>1. PICK i \in DOMAIN c.commits : c.commits[i].key = k /\ c.commits[i].action = "added"
        BY <2>1
      <3>2. CASE i = 1  BY <1>2, <3>1, <3>2 DEF all
      <3>3. CASE i # 1
        <4>1. i \in 1 .. n  BY <1>3 DEF all
        <4>2. i - 1 \in 1 .. n - 1 /\ (i - 1) + 1 = i  BY <1>3, <3>3, <4>1
        <4>3. i - 1 \in DOMAIN d.commits /\ d.commits[i - 1] = c.commits[i]
          BY <1>3, <4>2 DEF rest, all
        <4>4. QED  BY <3>1, <4>3 DEF UnderWay
      <3>4. QED  BY <3>2, <3>3
    <2>2. CASE \E r \in Resource : \E i \in DOMAIN c.store[r] :
                  c.store[r][i].key = k /\ c.store[r][i].action = "added"
      BY <2>2 DEF UnderWay
    <2>3. QED  BY <1>6, <2>1, <2>2 DEF UnderWay
  <1>7. QED  BY <1>4, <1>5, <1>6 DEF CacheFit

(* The agent commits what the first commit among the events tells. *)
LEMMA CommitFits ==
    ASSUME NEW ag, NEW a, NEW seen \in SUBSET Pairs, NEW known,
           NEW h \in CommitsSound(ag, a, seen, known), ~ h.failed,
           NEW i, FirstCommit(h.ev, i), NEW g, g = Commit(h, i)
    PROVE  /\ g \in CommitsSound(ag, a, seen, known)
           /\ ~ g.failed => g.ev = RemoveAt(h.ev, i) /\ g.c.commits = Tail(h.c.commits)
  <1> DEFINE c == h.c
             s == Head(c.commits)
             e == h.ev[i]
             d == Committed(c)
             m == CommitRequest(e.resource, e.position)
             out == Append(h.out, m)
             queue == RemoveAt(h.ev, i)
  <1>1. /\ h \in Committer /\ Fits(h.c, h.out, h.ev, ag, a, seen, known)
        /\ "abort" \notin May => CacheFit(c)
    BY DEF CommitsSound
  <1>2. /\ c \in ClientChannel /\ h.out \in Seq(Message) /\ h.ev \in Seq(Event)
        /\ StoresFit(c) /\ Told(c.commits, h.ev) /\ Phases(c, h.ev, ag) /\ Knows(c, known)
        /\ Leads(a, h.out, Shape(c, seen), known)
    BY <1>1 DEF Fits
  <1>3. c.commits \in Seq(Split)  BY <1>2 DEF ClientChannel
  <1>4. /\ i \in DOMAIN h.ev /\ e.type = "commit"
        /\ \A j \in DOMAIN h.ev : j < i => h.ev[j].type # "commit"
    BY DEF FirstCommit
  <1>5. c.commits # <<>> /\ e = CommitOf(s) /\ Told(Tail(c.commits), queue)
    BY <1>2, <1>3, <1>4, ToldFirst
  <1>6. s \in Split /\ s = c.commits[1] /\ 1 \in DOMAIN c.commits /\ s.key \in Key
        /\ s.resource \in Resource
    BY <1>3, <1>5, SkeletonTail DEF Split
  <1>7. e.resource = s.resource /\ e.position = Position(s) /\ e.position \in Key \cup {Null}
    BY <1>5, <1>6 DEF CommitOf, Position
  <1> HIDE DEF e, s
  <1>8. CanCommit(c, e.resource, e.position) <=> (s.action = "added" => c.cache[s.key] # Null)
    BY <1>5, <1>7 DEF CanCommit, s
  <1>9. g = IF ~ CanCommit(c, e.resource, e.position) THEN [h EXCEPT !.failed = TRUE]
            ELSE [h EXCEPT !.c = d, !.out = out, !.ev = queue]
    BY DEF Commit, e
  <1>10. CASE ~ CanCommit(c, e.resource, e.position)
    <2>1. g = [h EXCEPT !.failed = TRUE]  BY <1>9, <1>10
    <2>2. g \in Committer /\ g.failed  BY <1>1, <2>1 DEF Committer
    <2>3. "abort" \in May
      <3> SUFFICES ASSUME "abort" \notin May  PROVE FALSE  OBVIOUS
      <3>1. s.action = "added" /\ c.cache[s.key] = Null  BY <1>8, <1>10
      <3>2. UnderWay(c, s.key)
        BY <1>6, <3>1 DEF UnderWay
      <3>3. QED  BY <1>1, <1>6, <3>1, <3>2 DEF CacheFit
    <2>4. QED  BY <2>2, <2>3 DEF CommitsSound
  <1>11. CASE CanCommit(c, e.resource, e.position)
    <2>1. s.action = "added" => c.cache[s.key] # Null  BY <1>8, <1>11
    <2>2. m \in Message /\ m.type = "commit" /\ m.resource = s.resource /\ m.position = Position(s)
      BY <1>6, <1>7, CommitMessage
    <2> HIDE DEF m
    <2> DEFINE x == d
    <2>3. x = Committed(c) /\ s = Head(c.commits)  BY DEF s
    <2> HIDE DEF d, x
    <2>4. /\ x \in ClientChannel /\ x.store = c.store /\ x.commits = Tail(c.commits)
          /\ x.resource = c.resource /\ x.list = c.list
          /\ x.cache = CommitUpdate(c.cache, s)
          /\ Reads(Shape(c, seen), m, Shape(x, seen), known)
          /\ Shape(x, seen) \in Shapes
      BY <1>2, <1>5, <2>1, <2>2, <2>3, CommitReads
    <2>5. x = d  BY DEF x
    <2>6. Leads(a, out, Shape(x, seen), known)  BY <1>2, <2>2, <2>4, LeadsOn
    <2>7. queue \in Seq(Event) /\ out \in Seq(Message)  BY <1>2, <1>4, <2>2, Removed
    <2>8. StoresFit(x)
      <3>1. \A j \in DOMAIN Tail(c.commits) : Tail(c.commits)[j].state = "notified"
        <4> DEFINE all == c.commits
        <4>1. \A j \in DOMAIN all : all[j].state = "notified"  BY <1>2 DEF StoresFit
        <4>2. all \in Seq(Split) /\ all # <<>>  BY <1>3, <1>5
        <4> HIDE DEF all
        <4>3. /\ Len(all) \in Nat /\ DOMAIN all = 1 .. Len(all)
              /\ DOMAIN Tail(all) = 1 .. Len(all) - 1
              /\ \A j \in 1 .. Len(all) - 1 : Tail(all)[j] = all[j + 1]
          BY <4>2, HeadTailProperties, LenProperties
        <4>4. \A j \in 1 .. Len(all) - 1 : j + 1 \in 1 .. Len(all)  BY <4>3
        <4>5. \A j \in DOMAIN Tail(all) : Tail(all)[j].state = "notified"
          BY <4>1, <4>3, <4>4
        <4>6. QED  BY <4>5 DEF all
      <3>2. QED  BY <1>2, <2>4, <3>1 DEF StoresFit, Listed
    <2>9. Phases(x, queue, ag)
      <3> SUFFICES ASSUME NEW q \in Resource  PROVE Phase(x, queue, q, ag[q])
        BY DEF Phases
      <3>1. Phase(c, h.ev, q, ag[q])  BY <1>2 DEF Phases
      <3>2. ~ Of(h.ev[i], {"no", "start", "end"}, q)  BY <1>4 DEF Of, e
      <3>3. Phase(c, queue, q, ag[q])  BY <1>2, <1>4, <3>1, <3>2, PhaseRemoved
      <3> HIDE DEF queue
      <3>4. QED  BY <2>4, <3>3, PhaseSame
    <2>10. Knows(x, known)  BY <1>2, <2>4 DEF Knows
    <2> HIDE DEF queue, out
    <2>11. Fits(x, out, queue, ag, a, seen, known)
      BY <1>5, <2>4, <2>6, <2>7, <2>8, <2>9, <2>10 DEF Fits, queue
    <2>12. "abort" \notin May => CacheFit(x)
      BY <1>1, <1>2, <1>5, <2>3, <2>4, CommittedCacheFit
    <2>13. g = [h EXCEPT !.c = x, !.out = out, !.ev = queue]  BY <1>9, <1>11, <2>5
    <2>14. g \in Committer /\ g.c = x /\ g.out = out /\ g.ev = queue /\ ~ g.failed
      BY <1>1, <2>4, <2>7, <2>13 DEF Committer
    <2>15. g \in CommitsSound(ag, a, seen, known)
      BY <2>11, <2>12, <2>14 DEF CommitsSound
    <2>16. QED  BY <2>4, <2>14, <2>15 DEF queue
  <1>12. QED  BY <1>10, <1>11

CommitFree(queue) == \A p \in DOMAIN queue : queue[p].type # "commit"

(* A commit keeps the type of the agent's side. *)
LEMMA CommittedTyped ==
    ASSUME NEW c \in ClientChannel, c.commits # <<>>
    PROVE  Committed(c) \in ClientChannel
  <1> DEFINE cache == CommitUpdate(c.cache, Head(c.commits))
             rest == Tail(c.commits)
  <1>1. c.commits \in Seq(Split) /\ c.cache \in [Key -> Slot \cup {Null}]  BY DEF ClientChannel
  <1>2. Head(c.commits) \in Split /\ rest \in Seq(Split)  BY <1>1, SkeletonTail
  <1>3. cache \in [Key -> Slot \cup {Null}]  BY <1>1, <1>2, UpdateParts
  <1>4. Committed(c) = [c EXCEPT !.cache = cache, !.commits = rest]  BY DEF Committed
  <1> HIDE DEF cache, rest
  <1>5. QED  BY <1>2, <1>3, <1>4 DEF ClientChannel

(* One turn of nxagentWaitCommitEvent: it takes a commit off the events, if
   there is one.                                                             *)
LEMMA CommitTurnSound ==
    ASSUME NEW ag, NEW a, NEW seen \in SUBSET Pairs, NEW known,
           NEW h \in CommitsSound(ag, a, seen, known)
    PROVE  /\ CommitTurn[h] \in CommitsSound(ag, a, seen, known)
           /\ h.failed => CommitTurn[h].failed
           /\ ~ CommitTurn[h].failed =>
                 IF CommitFree(h.ev) THEN CommitTurn[h] = h
                 ELSE Len(CommitTurn[h].ev) = Len(h.ev) - 1
  <1> DEFINE i == SelectInSeq(h.ev, IsCommit)
  <1>1. h \in Committer /\ h.ev \in Seq(Event) /\ h.c \in ClientChannel /\ h.out \in Seq(Message)
    BY DEF CommitsSound, Committer
  <1>2. CommitTurn[h] = IF i = 0 THEN h ELSE Commit(h, i)
    BY <1>1 DEF CommitTurn
  <1>3. \/ i = 0 /\ CommitFree(h.ev)
        \/ FirstCommit(h.ev, i)
    BY <1>1, SelectCommit DEF CommitFree, FirstCommit
  <1> HIDE DEF i
  <1>4. CASE i = 0
    <2>1. ~ FirstCommit(h.ev, i)
      <3>1. DOMAIN h.ev = 1 .. Len(h.ev)  BY <1>1, LenProperties
      <3>2. QED  BY <1>4, <3>1 DEF FirstCommit
    <2>2. QED  BY <1>2, <1>3, <1>4, <2>1
  <1>5. CASE i # 0
    <2> DEFINE g == Commit(h, i)
    <2>1. FirstCommit(h.ev, i) /\ CommitTurn[h] = g  BY <1>2, <1>3, <1>5
    <2>6. ~ CommitFree(h.ev)  BY <2>1 DEF FirstCommit, CommitFree
    <2>2. h.failed => g.failed
      <3>1. g \in {[h EXCEPT !.failed = TRUE],
                   [h EXCEPT !.c = Committed(h.c),
                             !.out = Append(h.out, CommitRequest(h.ev[i].resource, h.ev[i].position)),
                             !.ev = RemoveAt(h.ev, i)]}
        BY DEF Commit
      <3>2. QED  BY <1>1, <3>1 DEF Committer
    <2>3. CASE ~ h.failed
      <3>1. /\ g \in CommitsSound(ag, a, seen, known)
            /\ ~ g.failed => g.ev = RemoveAt(h.ev, i) /\ g.c.commits = Tail(h.c.commits)
        <4> HIDE DEF g
        <4>1. g = Commit(h, i)  BY DEF g
        <4>2. QED  BY <2>1, <2>3, <4>1, CommitFits
      <3>2. Len(RemoveAt(h.ev, i)) = Len(h.ev) - 1  BY <1>1, <2>1, Removed DEF FirstCommit
      <3> HIDE DEF g
      <3>3. QED  BY <2>1, <2>2, <2>6, <3>1, <3>2
    <2>4. CASE h.failed
      <3> DEFINE e == h.ev[i]
                 s == Head(h.c.commits)
                 d == Committed(h.c)
                 m == CommitRequest(e.resource, e.position)
      <3>1. "abort" \in May  BY <2>4 DEF CommitsSound
      <3>2. g \in Committer
        <4>1. CASE ~ CanCommit(h.c, e.resource, e.position)
          <5>1. g = [h EXCEPT !.failed = TRUE]  BY <4>1 DEF Commit
          <5>2. QED  BY <1>1, <5>1 DEF Committer
        <4>2. CASE CanCommit(h.c, e.resource, e.position)
          <5>1. g = [h EXCEPT !.c = d, !.out = Append(h.out, m), !.ev = RemoveAt(h.ev, i)]
            BY <4>2 DEF Commit
          <5>2. h.c.commits # <<>> /\ s.resource = e.resource /\ Position(s) = e.position
            BY <4>2 DEF CanCommit
          <5>3. h.c.commits \in Seq(Split)  BY <1>1 DEF ClientChannel
          <5>4. s \in Split  BY <5>2, <5>3, SkeletonTail
          <5>5. e.resource \in Resource /\ e.position \in Key \cup {Null}
            <6> HIDE DEF s
            <6>1. s.resource \in Resource /\ Position(s) \in Key \cup {Null}
              BY <5>4 DEF Split, Position
            <6>2. QED  BY <5>2, <6>1
          <5>6. m \in Message  BY <5>5, CommitMessage
          <5> HIDE DEF m
          <5>7. d \in ClientChannel  BY <1>1, <5>2, CommittedTyped
          <5> HIDE DEF d
          <5>8. RemoveAt(h.ev, i) \in Seq(Event)  BY <1>1, <2>1, Removed DEF FirstCommit
          <5>9. Append(h.out, m) \in Seq(Message)  BY <1>1, <5>6
          <5> DEFINE out == Append(h.out, m)
                     queue == RemoveAt(h.ev, i)
          <5>10. g = [h EXCEPT !.c = d, !.out = out, !.ev = queue]  BY <5>1
          <5>11. out \in Seq(Message) /\ queue \in Seq(Event)  BY <5>8, <5>9
          <5> HIDE DEF out, queue, g
          <5>12. QED  BY <1>1, <5>7, <5>10, <5>11 DEF Committer
        <4>3. QED  BY <4>1, <4>2
      <3> HIDE DEF g
      <3>3. QED  BY <2>1, <2>2, <2>4, <3>1, <3>2 DEF CommitsSound
    <2>5. QED  BY <2>3, <2>4
  <1>6. QED  BY <1>4, <1>5

(* nxagentWaitCommitEvent leaves no commit in the queue, nor, as they are those
   of the queue, in the commit store.                                        *)
LEMMA HandleCommitsFits ==
    ASSUME TypeOK, NEW ag, NEW a, NEW known, NEW queue \in Seq(Event),
           Fits(client, toServer, queue, ag, a, Range(sent), known),
           "abort" \notin May => CacheFit(client),
           HandleCommits(queue), agent' = ag, sent' = sent
    PROVE  /\ client' \in ClientChannel /\ toServer' \in Seq(Message) /\ events' \in Seq(Event)
           /\ failed' \in BOOLEAN
           /\ ~ failed' => Together(a, known)'
           /\ "abort" \notin May => ~ failed' /\ CacheFit(client')
  <1> DEFINE I == CommitsSound(ag, a, Range(sent), known)
             h0 == Committing(queue)
             turn == Loop(CommitTurn, h0)
             n == Len(queue)
             h == turn[n]
  <1>1. client' = h.c /\ toServer' = h.out /\ events' = h.ev /\ failed' = h.failed
    BY DEF HandleCommits, Loop, CommitsDone, Applied
  <1>2. Range(sent) \in SUBSET Pairs  BY SentPairs
  <1>3. h0 \in I /\ h0.ev = queue
    <2>1. client \in ClientChannel /\ toServer \in Seq(Message)  BY DEF TypeOK
    <2>2. h0 \in Committer /\ h0.c = client /\ h0.out = toServer /\ h0.ev = queue /\ ~ h0.failed
      BY <2>1 DEF Committing, Committer
    <2> HIDE DEF h0
    <2>3. QED  BY <2>2 DEF CommitsSound
  <1>4. \A x \in I : CommitTurn[x] \in I  BY <1>2, CommitTurnSound
  <1>5. \A x \in I : /\ x.failed => CommitTurn[x].failed
                     /\ ~ CommitTurn[x].failed =>
                           IF CommitFree(x.ev) THEN CommitTurn[x] = x
                           ELSE Len(CommitTurn[x].ev) = Len(x.ev) - 1
    BY <1>2, CommitTurnSound
  <1> HIDE DEF I, h0
  <1>6. turn = Loop(CommitTurn, h0)  OBVIOUS
  <1> HIDE DEF turn, h, n
  <1>7. /\ turn \in [Nat -> I] /\ turn[0] = h0
        /\ \A i \in Nat : turn[i + 1] = CommitTurn[turn[i]]
    <2> DEFINE step == CommitTurn
    <2>1. h0 \in I /\ turn = Loop(step, h0) /\ \A x \in I : step[x] \in I
      BY <1>3, <1>4, <1>6
    <2> HIDE DEF step
    <2>2. Turns(turn, I, step, h0)  BY <2>1, Repeats
    <2>3. QED  BY <2>2 DEF step, Turns
  <1>8. \A x \in I : Len(x.ev) \in Nat
    <2>1. \A x \in I : x.ev \in Seq(Event)  BY DEF I, CommitsSound, Committer
    <2>2. QED  BY <2>1, LenProperties
  <1>9. n \in Nat /\ h = turn[n]  BY LenProperties DEF n, h
  <1> DEFINE S == {i \in Nat : ~ turn[i].failed =>
                      CommitFree(turn[i].ev) \/ Len(turn[i].ev) + i <= n}
  <1>10. 0 \in S
    <2>1. Len(turn[0].ev) + 0 <= n  BY <1>3, <1>7, <1>9 DEF n
    <2>2. QED  BY <2>1
  <1>11. ASSUME NEW i \in Nat, i \in S
         PROVE  i + 1 \in S
    <2> DEFINE x == turn[i]
               y == turn[i + 1]
    <2>1. x \in I /\ y \in I /\ y = CommitTurn[x]
      <3>1. i + 1 \in Nat  OBVIOUS
      <3>2. QED  BY <1>7, <3>1
    <2>2. ~ x.failed => CommitFree(x.ev) \/ Len(x.ev) + i <= n  BY <1>11
    <2> HIDE DEF x, y
    <2>3. ASSUME ~ y.failed
          PROVE  CommitFree(y.ev) \/ Len(y.ev) + (i + 1) <= n
      <3>1. ~ x.failed  BY <1>5, <2>1, <2>3
      <3>2. IF CommitFree(x.ev) THEN y = x ELSE Len(y.ev) = Len(x.ev) - 1
        BY <1>5, <2>1, <2>3
      <3>3. CASE CommitFree(x.ev)  BY <3>2, <3>3
      <3>4. CASE ~ CommitFree(x.ev)
        <4>1. Len(x.ev) + i <= n  BY <2>2, <3>1, <3>4
        <4>2. Len(x.ev) \in Nat  BY <1>8, <2>1
        <4> DEFINE p == Len(x.ev)
                   q == Len(y.ev)
        <4>3. p \in Nat /\ p + i <= n /\ q = p - 1  BY <3>2, <3>4, <4>1, <4>2
        <4> HIDE DEF p, q
        <4>4. q + (i + 1) <= n  BY <1>9, <4>3
        <4>5. QED  BY <4>4 DEF q
      <3>5. QED  BY <3>3, <3>4
    <2>4. i + 1 \in Nat  OBVIOUS
    <2>5. QED  BY <2>3, <2>4 DEF y
  <1>12. Nat \subseteq S
    <2> HIDE DEF S
    <2>1. QED  BY <1>10, <1>11, AllNumbers
  <1>13. h \in I /\ (~ h.failed => CommitFree(h.ev) \/ Len(h.ev) + n <= n)
    BY <1>7, <1>9, <1>12
  <1>14. h \in Committer /\ ("abort" \notin May => ~ h.failed /\ CacheFit(h.c))
         /\ (~ h.failed => Fits(h.c, h.out, h.ev, ag, a, Range(sent), known))
    BY <1>13 DEF I, CommitsSound
  <1>15. h.c \in ClientChannel /\ h.out \in Seq(Message) /\ h.ev \in Seq(Event)
         /\ h.failed \in BOOLEAN
    BY <1>14 DEF Committer
  <1>16. ASSUME ~ h.failed
         PROVE  Together(a, known)'
    <2>1. CommitFree(h.ev)
      <3>1. CASE Len(h.ev) + n <= n
        <4>1. Len(h.ev) = 0  BY <1>8, <1>9, <1>13, <3>1
        <4>2. DOMAIN h.ev = 1 .. 0  BY <1>15, <4>1, LenProperties
        <4>3. QED  BY <4>2 DEF CommitFree
      <3>2. QED  BY <1>13, <1>16, <3>1
    <2>2. Told(h.c.commits, h.ev) /\ h.c.commits \in Seq(Split)
      BY <1>14, <1>15, <1>16 DEF Fits, ClientChannel
    <2>3. h.c.commits = <<>>  BY <1>15, <2>1, <2>2, ToldNothing DEF CommitFree
    <2>4. Asked(h.c, ag)
      <3>1. DOMAIN h.c.commits = {}
        <4>1. Len(h.c.commits) = 0  BY <2>3, EmptySeq
        <4>2. DOMAIN h.c.commits = 1 .. 0  BY <2>2, <4>1, LenProperties
        <4>3. QED  BY <4>2
      <3>2. QED  BY <3>1 DEF Asked
    <2>5. QED  BY <1>1, <1>14, <1>16, <2>4 DEF Together
  <1>17. QED  BY <1>1, <1>14, <1>15, <1>16

AtMostOneOpen(ag) ==
    \A r, q \in Resource : ag[r] \in {"open", "waiting"} /\ ag[q] \in {"open", "waiting"} => r = q

(* What the handling of an event by the agent establishes. *)
Goes(a, known) ==
    /\ client' \in ClientChannel /\ toServer' \in Seq(Message) /\ events' \in Seq(Event)
    /\ failed' \in BOOLEAN
    /\ ~ failed' => Together(a, known)'
    /\ "abort" \notin May => ~ failed' /\ CacheFit(client')

(* nxagentHandleCommitSplitEvent *)
LEMMA CommitSplitEventFits ==
    ASSUME TypeOK, NEW a, NEW known, Together(a, known),
           "abort" \notin May => CacheFit(client), CommitSplitEvent
    PROVE  Goes(a, known)
  <1> DEFINE seen == Range(sent)
             h == Committing(events)
             g == Commit(h, 1)
  <1>1. /\ events # <<>> /\ Head(events).type = "commit"
        /\ client' = g.c /\ toServer' = g.out /\ events' = g.ev /\ failed' = g.failed
        /\ agent' = agent /\ sent' = sent
    BY DEF CommitSplitEvent, CommitsDone, Applied
  <1>2. /\ client \in ClientChannel /\ toServer \in Seq(Message) /\ events \in Seq(Event)
        /\ seen \in SUBSET Pairs /\ Fits(client, toServer, events, agent, a, seen, known)
        /\ Asked(client, agent)
    BY TogetherParts DEF Together
  <1>3. 1 \in DOMAIN events /\ Head(events) = events[1] /\ DOMAIN events = 1 .. Len(events)
    BY <1>1, <1>2, EmptySeq
  <1>4. FirstCommit(events, 1)  BY <1>1, <1>3 DEF FirstCommit
  <1>5. h \in Committer /\ h.c = client /\ h.out = toServer /\ h.ev = events /\ h.failed = FALSE
    BY <1>2 DEF Committing, Committer
  <1> HIDE DEF h, seen
  <1>6. h \in CommitsSound(agent, a, seen, known)  BY <1>2, <1>5 DEF CommitsSound
  <1>7. g = Commit(h, 1)  OBVIOUS
  <1> HIDE DEF g
  <1>8. /\ g \in CommitsSound(agent, a, seen, known)
        /\ ~ g.failed => g.c.commits = Tail(client.commits)
    BY <1>2, <1>4, <1>5, <1>6, <1>7, CommitFits
  <1>9. /\ g \in Committer
        /\ ~ g.failed => Fits(g.c, g.out, g.ev, agent, a, seen, known)
        /\ "abort" \notin May => ~ g.failed /\ CacheFit(g.c)
    BY <1>8 DEF CommitsSound
  <1>10. ASSUME ~ g.failed
         PROVE  Asked(g.c, agent)
    <2> DEFINE all == client.commits
    <2>1. g.c.commits = Tail(all)  BY <1>8, <1>10
    <2>2. all # <<>>
      <3>1. ~ (\A p \in DOMAIN events : events[p].type # "commit")  BY <1>1, <1>3
      <3>2. all \in Seq(Split) /\ Told(all, events)  BY <1>2 DEF ClientChannel, Fits
      <3>3. QED  BY <1>2, <1>4, <3>2, ToldFirst DEF FirstCommit
    <2>3. all \in Seq(Split)  BY <1>2 DEF ClientChannel
    <2> HIDE DEF all
    <2>4. /\ Len(all) \in Nat /\ DOMAIN all = 1 .. Len(all) /\ DOMAIN Tail(all) = 1 .. Len(all) - 1
          /\ \A i \in 1 .. Len(all) - 1 : Tail(all)[i] = all[i + 1]
      BY <2>2, <2>3, HeadTailProperties, LenProperties
    <2>5. \A i \in 1 .. Len(all) - 1 : i + 1 \in 1 .. Len(all)  BY <2>4
    <2>6. \A i \in DOMAIN g.c.commits : \E j \in DOMAIN all : g.c.commits[i] = all[j]
      BY <2>1, <2>4, <2>5
    <2>7. QED  BY <1>2, <2>6 DEF Asked, all
  <1>11. ~ g.failed => Together(a, known)'
    BY <1>1, <1>9, <1>10 DEF Together, seen
  <1>12. QED  BY <1>1, <1>9, <1>11 DEF Goes, Committer

(* The proxy says what became of a sequence that ends. *)
LEMMA WaitSplitEventFits ==
    ASSUME TypeOK, NEW a, NEW known, Together(a, known), AtMostOneOpen(agent),
           "abort" \notin May => CacheFit(client), NEW r \in Resource, WaitSplitEvent(r)
    PROVE  Goes(a, known)
  <1> USE TogetherParts
  <1> DEFINE i == SelectInSeq(events, IsOpening)
             queue == RemoveAt(events, i)
             start == [type |-> "start", resource |-> r]
             new == IF events[i] = start THEN "split" ELSE "free"
             ag == [agent EXCEPT ![r] = new]
  <1>1. /\ agent[r] = "waiting" /\ i # 0 /\ HandleCommits(queue) /\ agent' = ag /\ sent' = sent
    BY DEF WaitSplitEvent
  <1>2. i \in DOMAIN events /\ events[i].type \in {"no", "start"}
    BY <1>1, SelectOpening
  <1> HIDE DEF i, ag
  <1>3. queue \in Seq(Event)  BY <1>2, Removed
  <1>4. events[i].resource \in Resource
    <2>1. events[i] \in Event  BY <1>2, ElementOfSeq
    <2>2. QED  BY <1>2, <2>1 DEF Event
  <1>5. events[i].resource = r
    <2> DEFINE q == events[i].resource
    <2>1. Phase(client, events, q, agent[q]) /\ Of(events[i], {"no", "start"}, q)
      BY <1>2, <1>4 DEF Of
    <2>2. agent[q] = "waiting"  BY <1>2, <2>1 DEF Phase, NoneOf
    <2> HIDE DEF q
    <2>3. q = r  BY <1>1, <1>4, <2>2 DEF AtMostOneOpen, q
    <2>4. QED  BY <2>3 DEF q
  <1>6. events[i] = start <=> events[i].type = "start"
    <2>1. events[i] \in Event  BY <1>2, ElementOfSeq
    <2>2. QED  BY <1>2, <1>5, <2>1 DEF Event
  <1>7. Told(client.commits, queue)
    <2>1. events[i].type # "commit" /\ client.commits \in Seq(Split)  BY <1>2 DEF ClientChannel
    <2>2. QED  BY <1>2, <2>1, ToldDrop
  <1>8. ag \in [Resource -> AgentStates] /\ \A q \in Resource : ag[q] = IF q = r THEN new ELSE agent[q]
    BY DEF ag, AgentStates
  <1>9. Phases(client, queue, ag)
    <2> SUFFICES ASSUME NEW q \in Resource  PROVE Phase(client, queue, q, ag[q])
      BY DEF Phases
    <2>1. CASE q # r
      <3>1. Phase(client, events, q, agent[q])  OBVIOUS
      <3>2. ~ Of(events[i], {"no", "start", "end"}, q)  BY <1>5, <2>1 DEF Of
      <3>3. Phase(client, queue, q, agent[q])  BY <1>2, <3>1, <3>2, PhaseRemoved
      <3>4. QED  BY <1>8, <2>1, <3>3
    <2>2. CASE q = r
      <3>1. Phase(client, events, r, "waiting")  BY <1>1
      <3>2. /\ client.resource # r /\ OneOf(events, {"no", "start"}, r)
            /\ NoneOf(events, {"no"}, r) \/ (client.store[r] = <<>> /\ NoneOf(events, {"end"}, r))
            /\ NoneOf(events, {"start"}, r) \/ Ending(client, events, r)
        BY <3>1 DEF Phase
      <3>3. NoneOf(queue, {"no", "start"}, r)
        <4>1. Of(events[i], {"no", "start"}, r)  BY <1>2, <1>5 DEF Of
        <4>2. QED  BY <1>2, <3>2, <4>1, OfRemoved
      <3>4. ~ Of(events[i], {"end"}, r)  BY <1>2 DEF Of
      <3>5. /\ NoneOf(events, {"end"}, r) => NoneOf(queue, {"end"}, r)
            /\ OneOf(events, {"end"}, r) => OneOf(queue, {"end"}, r)
        BY <1>2, <3>4, OfRemoved
      <3> HIDE DEF queue
      <3>6. CASE events[i].type = "start"
        <4>1. ~ NoneOf(events, {"start"}, r)  BY <1>2, <1>5, <3>6 DEF NoneOf, Of
        <4>2. Ending(client, queue, r)  BY <3>2, <3>5, <4>1 DEF Ending
        <4>3. ag[q] = "split"  BY <1>6, <1>8, <2>2, <3>6
        <4>4. QED  BY <2>2, <3>2, <3>3, <4>2, <4>3 DEF Phase
      <3>7. CASE events[i].type = "no"
        <4>1. ~ NoneOf(events, {"no"}, r)  BY <1>2, <1>5, <3>7 DEF NoneOf, Of
        <4>2. client.store[r] = <<>> /\ NoneOf(queue, {"end"}, r)  BY <3>2, <3>5, <4>1
        <4>3. ag[q] = "free"  BY <1>6, <1>8, <2>2, <3>7
        <4>4. QED  BY <2>2, <3>2, <3>3, <4>2, <4>3 DEF Phase
      <3>8. QED  BY <1>2, <3>6, <3>7
    <2>3. QED  BY <2>1, <2>2
  <1>10. Fits(client, toServer, queue, ag, a, Range(sent), known)
    <2> HIDE DEF queue
    <2>1. QED  BY <1>3, <1>7, <1>9 DEF Fits
  <1> HIDE DEF queue
  <1>11. QED  BY <1>1, <1>3, <1>10, HandleCommitsFits DEF Goes

(* nxagentHandleEndSplitEvent *)
LEMMA EndSplitEventFits ==
    ASSUME TypeOK, NEW a, NEW known, Together(a, known),
           "abort" \notin May => CacheFit(client), EndSplitEvent
    PROVE  Goes(a, known)
  <1> USE TogetherParts
  <1> DEFINE r == Head(events).resource
             queue == RemoveAt(events, 1)
             ag == [agent EXCEPT ![r] = "free"]
  <1>1. /\ \A q \in Resource : agent[q] \notin {"open", "waiting"}
        /\ events # <<>> /\ Head(events).type = "end" /\ sent' = sent
        /\ IF agent[r] = "free"
           THEN failed' = TRUE /\ UNCHANGED <<client, toServer, events, agent>>
           ELSE HandleCommits(Tail(events)) /\ agent' = ag
    BY DEF EndSplitEvent, Idle
  <1>2. 1 \in DOMAIN events /\ Head(events) = events[1]  BY <1>1, EmptySeq
  <1>3. queue = Tail(events) /\ queue \in Seq(Event)  BY <1>2, Removed
  <1>4. r \in Resource /\ Of(events[1], {"end"}, r)
    <2>1. events[1] \in Event  BY <1>2, ElementOfSeq
    <2>2. QED  BY <1>1, <1>2, <2>1 DEF Event, Of
  <1> HIDE DEF r, ag
  <1>5. agent[r] \in AgentStates /\ Phase(client, events, r, agent[r])  BY <1>4
  <1>6. ~ NoneOf(events, {"end"}, r)  BY <1>2, <1>4 DEF NoneOf
  <1>7. agent[r] \in {"split", "released"}
    BY <1>1, <1>4, <1>5, <1>6 DEF Phase, AgentStates
  <1>8. /\ client.store[r] = <<>> /\ OneOf(events, {"end"}, r) /\ client.resource # r
        /\ NoneOf(events, {"no", "start"}, r)
    BY <1>5, <1>6, <1>7 DEF Phase, Ending
  <1>9. Told(client.commits, queue)
    <2>1. events[1].type # "commit" /\ client.commits \in Seq(Split)
      BY <1>1, <1>2 DEF ClientChannel
    <2>2. QED  BY <1>2, <2>1, ToldDrop
  <1>10. ag \in [Resource -> AgentStates]
         /\ \A q \in Resource : ag[q] = IF q = r THEN "free" ELSE agent[q]
    BY DEF ag, AgentStates
  <1>11. Phases(client, queue, ag)
    <2> SUFFICES ASSUME NEW q \in Resource  PROVE Phase(client, queue, q, ag[q])
      BY DEF Phases
    <2>1. CASE q # r
      <3>1. Phase(client, events, q, agent[q])  OBVIOUS
      <3>2. ~ Of(events[1], {"no", "start", "end"}, q)  BY <1>4, <2>1 DEF Of
      <3>3. Phase(client, queue, q, agent[q])  BY <1>2, <3>1, <3>2, PhaseRemoved
      <3>4. QED  BY <1>10, <2>1, <3>3
    <2>2. CASE q = r
      <3>1. NoneOf(queue, {"end"}, r) /\ NoneOf(queue, {"no", "start"}, r)
        BY <1>2, <1>4, <1>8, OfRemoved
      <3>2. ag[q] = "free"  BY <1>10, <2>2
      <3> HIDE DEF queue
      <3>3. QED  BY <1>8, <2>2, <3>1, <3>2 DEF Phase
    <2>3. QED  BY <2>1, <2>2
  <1> HIDE DEF queue
  <1>12. Fits(client, toServer, queue, ag, a, Range(sent), known)
    BY <1>3, <1>9, <1>11 DEF Fits
  <1>13. HandleCommits(queue) /\ agent' = ag  BY <1>1, <1>3, <1>7
  <1>14. QED  BY <1>1, <1>3, <1>12, <1>13, HandleCommitsFits DEF Goes

-----------------------------------------------------------------------------
(* Images *)

(* A resource is put on the list of stores, unless it is there. *)
LEMMA AllocParts ==
    ASSUME NEW list \in Seq(Resource), NEW r \in Resource,
           \A i, j \in DOMAIN list : list[i] = list[j] => i = j
    PROVE  /\ Alloc(list, r) \in Seq(Resource)
           /\ \A i, j \in DOMAIN Alloc(list, r) : Alloc(list, r)[i] = Alloc(list, r)[j] => i = j
           /\ \A q \in Resource : Contains(Alloc(list, r), q) <=> Contains(list, q) \/ q = r
  <1>1. CASE Contains(list, r)  BY <1>1 DEF Alloc
  <1>2. CASE ~ Contains(list, r)
    <2> DEFINE more == Append(list, r)
               n == Len(list)
    <2>1. more \in Seq(Resource) /\ n \in Nat /\ Len(more) = n + 1
          /\ DOMAIN list = 1 .. n /\ DOMAIN more = 1 .. n + 1 /\ more[n + 1] = r
          /\ \A i \in 1 .. n : more[i] = list[i]
      BY Appended
    <2>2. Alloc(list, r) = more  BY <1>2 DEF Alloc
    <2>3. \A i \in 1 .. n : list[i] # r  BY <1>2 DEF Contains
    <2> HIDE DEF more, n
    <2>4. \A i \in 1 .. n + 1 : i = n + 1 \/ i \in 1 .. n  BY <2>1
    <2>5. \A i, j \in 1 .. n + 1 : more[i] = more[j] => i = j  BY <2>1, <2>3, <2>4
    <2>6. \A q \in Resource : Contains(more, q) <=> Contains(list, q) \/ q = r
      <3> TAKE q \in Resource
      <3>1. Contains(more, q) <=> \E i \in 1 .. n + 1 : more[i] = q  BY <2>1 DEF Contains
      <3>2. Contains(list, q) <=> \E i \in 1 .. n : list[i] = q  BY DEF Contains, n
      <3>3. n + 1 \in 1 .. n + 1 /\ \A i \in 1 .. n : i \in 1 .. n + 1  BY <2>1
      <3>4. QED  BY <2>1, <2>4, <3>1, <3>2, <3>3
    <2>7. QED  BY <2>1, <2>2, <2>5, <2>6
  <1>3. QED  BY <1>1, <1>2

(* The request that carries an image. *)
LEMMA ImageParts ==
    ASSUME NEW k \in Key, NEW action \in Action, NEW split \in BOOLEAN, NEW m,
           m = ImageMessage(k, action, split)
    PROVE  /\ m \in Message /\ m.type = "image" /\ m.key = k
           /\ m.action = action /\ m.split = split
  BY DEF ImageMessage, Message

(* An image is sent. *)
LEMMA SentMore ==
    ASSUME sent \in Seq(Pairs), NEW p \in Pairs
    PROVE  /\ Range(Append(sent, p)) = Range(sent) \cup {p}
           /\ Range(Append(sent, p)) \in SUBSET Pairs
           /\ ~ Contains(sent, p) => p \notin Range(sent)
  <1> DEFINE more == Append(sent, p)
             n == Len(sent)
  <1>1. n \in Nat /\ DOMAIN sent = 1 .. n /\ DOMAIN more = 1 .. n + 1 /\ more[n + 1] = p
        /\ \A i \in 1 .. n : more[i] = sent[i]
    BY Appended
  <1>2. \A i \in 1 .. n : sent[i] \in Pairs  BY <1>1
  <1>3. Contains(sent, p) <=> \E i \in 1 .. n : sent[i] = p  BY DEF Contains
  <1> HIDE DEF more, n
  <1>4. n + 1 \in 1 .. n + 1 /\ \A i \in 1 .. n : i \in 1 .. n + 1  BY <1>1
  <1>5. \A i \in 1 .. n + 1 : i = n + 1 \/ i \in 1 .. n  BY <1>1
  <1>6. Range(sent) = {sent[i] : i \in 1 .. n}  BY <1>1 DEF Range
  <1>7. Range(more) = {more[i] : i \in 1 .. n + 1}  BY <1>1 DEF Range
  <1>8. \A x : x \in Range(more) <=> x \in Range(sent) \/ x = p
    BY <1>1, <1>4, <1>5, <1>6, <1>7
  <1>9. Range(sent) \subseteq Pairs  BY <1>2, <1>6
  <1>10. Range(more) = Range(sent) \cup {p}  BY <1>8
  <1>11. QED  BY <1>3, <1>6, <1>9, <1>10 DEF more

(* What the agent's side knows of an image makes it fresh. *)
Usable(c, k, action) ==
    /\ action = "hit" => c.cache[k] # Null /\ ~ c.cache[k].locked
    /\ action = "added" => c.cache[k] = Null

(* What the agent's side encodes, it may encode. *)
LEMMA ActionsUsable ==
    ASSUME NEW k \in Key, NEW action \in Actions(k)
    PROVE  Usable(client, k, action) /\ action \in Action
  <1>1. CASE client.cache[k] = Null  BY <1>1 DEF Actions, Usable, Action
  <1>2. CASE client.cache[k] # Null /\ client.cache[k].locked
    BY <1>2 DEF Actions, Usable, Action
  <1>3. CASE client.cache[k] # Null /\ ~ client.cache[k].locked
    BY <1>3 DEF Actions, Usable, Action
  <1>4. QED  BY <1>1, <1>2, <1>3

(* What the agent's side makes of an image it sends. *)
Kept(c, d, k, action, split) ==
    \A q \in Key : /\ d.cache[q] # Null <=>
                          c.cache[q] # Null \/ (action = "added" /\ q = k)
                   /\ d.cache[q] # Null /\ ~ d.cache[q].locked <=>
                          \/ c.cache[q] # Null /\ ~ c.cache[q].locked
                          \/ action = "added" /\ q = k /\ ~ split

Stored(c, d, r, split, s) ==
    d.store = IF split THEN [c.store EXCEPT ![r] = Append(@, s)] ELSE c.store

Grown(f, g, r, o) == f = [g EXCEPT ![r] = Append(@, o)]

(* A split is added to one store. *)
LEMMA ShapeAppend ==
    ASSUME NEW c, Sided(c), NEW d, Sided(d), NEW seen \in SUBSET Pairs, NEW more \in SUBSET Pairs,
           NEW r \in Resource, NEW s \in Split, Stored(c, d, r, TRUE, s)
    PROVE  Grown(Shape(d, more).store, Shape(c, seen).store, r, Outline(s))
  <1>1. Shape(c, seen).store \in [Resource -> Seq(Outlines)]
        /\ Shape(d, more).store \in [Resource -> Seq(Outlines)]
    BY ShapeParts DEF Shapes
  <1>2. \A q \in Resource : Shape(d, more).store[q]
                              = IF q = r THEN Append(Shape(c, seen).store[r], Outline(s))
                                ELSE Shape(c, seen).store[q]
    <2> TAKE q \in Resource
    <2>1. d.store[q] = IF q = r THEN Append(c.store[r], s) ELSE c.store[q]
      BY DEF Sided, Stored
    <2>2. /\ Shape(d, more).store[q] = Skeleton(d.store[q])
          /\ Shape(c, seen).store[q] = Skeleton(c.store[q])
          /\ Shape(c, seen).store[r] = Skeleton(c.store[r])
      BY DEF Shape
    <2>3. Skeleton(Append(c.store[r], s)) = Append(Skeleton(c.store[r]), Outline(s))
      BY SkeletonAppend DEF Sided
    <2>4. QED  BY <2>1, <2>2, <2>3
  <1>3. QED  BY <1>1, <1>2 DEF Grown

(* The other side can read the request of an image, and is then where the
   agent's side is.                                                          *)
LEMMA ImageReads ==
    ASSUME NEW c \in ClientChannel, NEW d \in ClientChannel, NEW seen \in SUBSET Pairs,
           NEW k \in Key, NEW action \in Action, NEW split \in BOOLEAN, NEW known,
           NEW r \in Resource, c.resource = r, d.resource = r, d.commits = c.commits,
           Usable(c, k, action),
           "repeat" \notin May => <<r, k>> \notin seen,
           NEW s \in Split, Outline(s) = Outline(NewSplit(r, k, action, "async")),
           Stored(c, d, r, split, s),
           Kept(c, d, k, action, split),
           NEW m, m = ImageMessage(k, action, split),
           NEW more, more = seen \cup {<<r, k>>}
    PROVE  /\ Reads(Shape(c, seen), m, Shape(d, more), known)
           /\ Shape(d, more) \in Shapes
  <1> DEFINE a == Shape(c, seen)
             b == Shape(d, more)
             o == Outline(NewSplit(r, k, action, "async"))
  <1>1. Sided(c) /\ Sided(d) /\ c.store[r] \in Seq(Split)  BY ClientSided
  <1>2. more \in SUBSET Pairs  BY DEF Pairs
  <1>3. /\ a.commits = Skeleton(c.commits) /\ b.commits = Skeleton(d.commits)
        /\ a.resource = c.resource /\ b.resource = d.resource
        /\ a.seen = seen /\ b.seen = more /\ b \in Shapes
        /\ a.held = {q \in Key : c.cache[q] # Null} /\ b.held = {q \in Key : d.cache[q] # Null}
        /\ a.ready = {q \in Key : c.cache[q] # Null /\ ~ c.cache[q].locked}
        /\ b.ready = {q \in Key : d.cache[q] # Null /\ ~ d.cache[q].locked}
        /\ a.store \in [Resource -> Seq(Outlines)] /\ a.store[r] = Skeleton(c.store[r])
    <2>1. /\ a.commits = Skeleton(c.commits) /\ a.resource = c.resource /\ a.seen = seen
          /\ a.held = {q \in Key : c.cache[q] # Null}
          /\ a.ready = {q \in Key : c.cache[q] # Null /\ ~ c.cache[q].locked}
          /\ a \in Shapes /\ a.store[r] = Skeleton(c.store[r])
      BY <1>1, ShapeParts
    <2>2. /\ b.commits = Skeleton(d.commits) /\ b.resource = d.resource /\ b.seen = more
          /\ b.held = {q \in Key : d.cache[q] # Null}
          /\ b.ready = {q \in Key : d.cache[q] # Null /\ ~ d.cache[q].locked}
          /\ b \in Shapes
      BY <1>1, <1>2, ShapeParts
    <2> HIDE DEF a, b
    <2>3. QED  BY <2>1, <2>2 DEF Shapes
  <1>4. m.type = "image" /\ m.key = k /\ m.action = action /\ m.split = split  BY ImageParts
  <1>5. b.store = IF split THEN [a.store EXCEPT ![r] = Append(@, o)] ELSE a.store
    <2>1. CASE ~ split
      <3>1. d.store = c.store  BY <2>1 DEF Stored
      <3>2. b.store = a.store  BY <1>1, <1>2, <3>1, ShapeSame
      <3>3. QED  BY <2>1, <3>2
    <2>2. CASE split
      <3>1. Stored(c, d, r, TRUE, s)  BY <2>2
      <3>2. Grown(b.store, a.store, r, Outline(s))
        BY <1>1, <1>2, <3>1, ShapeAppend
      <3>3. Outline(s) = o  OBVIOUS
      <3> HIDE DEF o, a, b
      <3>4. QED  BY <2>2, <3>2, <3>3 DEF Grown
    <2>3. QED  BY <2>1, <2>2
  <1> HIDE DEF a, b
  <1>6. \A q : q \in Added(m) <=> action = "added" /\ q = k  BY <1>4 DEF Added
  <1>7. b.held = a.held \cup Added(m)
    <2>1. \A q \in Key : q \in b.held <=> q \in a.held \/ q \in Added(m)  BY <1>3, <1>6 DEF Kept
    <2>2. QED  BY <1>3, <1>6, <2>1
  <1>8. b.ready = IF m.split THEN a.ready ELSE a.ready \cup Added(m)
    <2>1. \A q \in Key : q \in b.ready <=> q \in a.ready \/ (q \in Added(m) /\ ~ m.split)
      BY <1>3, <1>4, <1>6 DEF Kept
    <2>2. b.ready \subseteq Key /\ a.ready \subseteq Key /\ Added(m) \subseteq Key  BY <1>3, <1>6
    <2>3. CASE m.split
      <3>1. \A q \in Key : q \in b.ready <=> q \in a.ready  BY <2>1, <2>3
      <3>2. QED  BY <2>2, <2>3, <3>1
    <2>4. CASE ~ m.split
      <3>1. \A q \in Key : q \in b.ready <=> q \in a.ready \/ q \in Added(m)  BY <2>1, <2>4
      <3>2. QED  BY <2>2, <2>4, <3>1
    <2>5. QED  BY <2>3, <2>4
  <1>9. Fresh(a, m)  BY <1>3, <1>4 DEF Fresh, Usable
  <1>10. ReadsImage(a, m, b)
    BY <1>3, <1>4, <1>5, <1>7, <1>8, <1>9 DEF ReadsImage
  <1>11. QED  BY <1>3, <1>10 DEF Reads, a, b

SplitOf(c, r, k, action) ==
    [NewSplit(r, k, action, c.mode) EXCEPT !.state =
        CASE action = "hit" -> "loaded"
          [] action # "hit" /\ ~ Checksums -> "missed"
          [] OTHER -> "added"]

(* The split that the agent's side makes of an image. *)
LEMMA SplitOfParts ==
    ASSUME NEW c \in ClientChannel, NEW r \in Resource, NEW k \in Key, NEW action \in Action,
           NEW s, s = SplitOf(c, r, k, action)
    PROVE  /\ s \in Split /\ Outline(s) = Outline(NewSplit(r, k, action, "async"))
           /\ s.resource = r /\ s.key = k /\ s.action = action /\ s.state # "notified"
           /\ s.state = "loaded" => action = "hit"
  <1> DEFINE state == CASE action = "hit" -> "loaded"
                        [] action # "hit" /\ ~ Checksums -> "missed"
                        [] OTHER -> "added"
             new == [resource |-> r, key |-> k, action |-> action, mode |-> c.mode,
                     state |-> state, started |-> FALSE, next |-> 0, csize |-> "plain",
                     format |-> "plain", data |-> "dummy", load |-> FALSE]
  <1>1. state \in State /\ state # "notified" /\ (state = "loaded" => action = "hit")
    BY DEF State
  <1>2. c.mode \in {"async", "sync"}  BY ModesAssumption DEF ClientChannel
  <1>3. 0 \in 0 .. Chunks  BY SizesAssumption
  <1> HIDE DEF state
  <1>4. s = new  BY DEF SplitOf, NewSplit, state
  <1>5. new \in Split  BY <1>1, <1>2, <1>3 DEF Split, Format, Data
  <1>6. Outline(s) = Outline(NewSplit(r, k, action, "async"))  BY <1>4 DEF Outline, NewSplit
  <1>7. QED  BY <1>1, <1>4, <1>5, <1>6

(* What sending an image makes of the agent's side. *)
Put(c, d, r, k, action, split, s) ==
    /\ d \in ClientChannel /\ d.resource = c.resource /\ d.commits = c.commits
    /\ d.list = Alloc(c.list, r)
    /\ Stored(c, d, r, split, s) /\ Kept(c, d, k, action, split)

(* What an image changes at the agent's side. *)
LEMMA PutParts ==
    ASSUME TypeOK, NEW r \in Resource, NEW k \in Key, NEW action \in Action, NEW small \in BOOLEAN,
           PutImage(r, k, action, small), Listed(client),
           NEW s, s = SplitOf(client, r, k, action),
           NEW split, split = ~ SplitRefused(r, action, small)
    PROVE  /\ Put(client, client', r, k, action, split, s)
           /\ toServer' = Append(toServer, ImageMessage(k, action, split))
  <1> DEFINE list == Alloc(client.list, r)
             c == [client EXCEPT !.list = list]
             store == [client.store EXCEPT ![r] = Append(client.store[r], s)]
             whole == [client.cache EXCEPT ![k] = WholeSlot(k)]
             locked == [client.cache EXCEPT ![k] = IF action = "added" THEN LockedSlot
                                                  ELSE client.cache[k]]
  <1>1. client \in ClientChannel /\ client.list \in Seq(Resource)
    BY ClientSided DEF TypeOK
  <1>2. list \in Seq(Resource)  BY <1>1, AllocParts DEF Listed
  <1>3. s \in Split  BY <1>1, SplitOfParts
  <1> HIDE DEF list
  <1>4. c \in ClientChannel /\ c = [client EXCEPT !.list = list]  BY <1>1, <1>2 DEF ClientChannel
  <1>5. /\ c.resource = client.resource /\ c.commits = client.commits /\ c.list = list
        /\ c.store = client.store /\ c.cache = client.cache /\ c.mode = client.mode
        /\ c.pending = client.pending
    BY <1>1 DEF ClientChannel
  <1>6. /\ client' = IF split THEN SplitAdded(c, r, k, action)
                     ELSE IF action = "added" THEN [c EXCEPT !.cache[k] = WholeSlot(k)] ELSE c
        /\ toServer' = Append(toServer, ImageMessage(k, action, split))
        /\ action \in Actions(k)
    <2>1. c = [client EXCEPT !.list = Alloc(@, r)]  BY DEF list
    <2> HIDE DEF c
    <2>2. QED  BY <2>1 DEF PutImage
  <1>7. Usable(client, k, action)  BY <1>6, ActionsUsable
  <1>8. /\ WholeSlot(k) \in Slot /\ WholeSlot(k) # Null /\ ~ WholeSlot(k).locked
        /\ LockedSlot \in Slot /\ LockedSlot # Null /\ LockedSlot.locked
    <2>1. Compressed(k) \in {"plain", "ours", "theirs"}  BY DEF Compressed
    <2>2. WholeSlot(k) \in Slot /\ LockedSlot \in Slot
      BY <2>1 DEF WholeSlot, LockedSlot, Slot, Format, Data
    <2>3. ~ WholeSlot(k).locked /\ LockedSlot.locked  BY DEF WholeSlot, LockedSlot
    <2>4. QED  BY <2>2, <2>3, NullAssumption
  <1> HIDE DEF c
  <1>9. CASE split
    <2>1. s = [NewSplit(r, k, action, c.mode) EXCEPT !.state =
                 CASE action = "hit" -> "loaded"
                   [] action # "hit" /\ ~ Checksums -> "missed"
                   [] OTHER -> "added"]
      BY <1>5 DEF SplitOf
    <2> DEFINE d == [c EXCEPT !.store[r] = Append(@, s),
                              !.cache[k] = IF action = "added" THEN LockedSlot ELSE @]
    <2>2. client' = Pending(d, r)  BY <1>6, <1>9, <2>1 DEF SplitAdded
    <2>3. d = [c EXCEPT !.store = store, !.cache = locked]  BY <1>5
    <2>4. store \in [Resource -> Seq(Split)] /\ locked \in [Key -> Slot \cup {Null}]
      BY <1>1, <1>3, <1>8 DEF ClientChannel
    <2>5. \A q \in Key : locked[q] = IF action = "added" /\ q = k THEN LockedSlot
                                     ELSE client.cache[q]
      BY <1>1 DEF ClientChannel
    <2> HIDE DEF d, store, locked
    <2>6. /\ d \in ClientChannel /\ d.store = store /\ d.cache = locked
          /\ d.resource = c.resource /\ d.commits = c.commits /\ d.list = c.list
      BY <1>4, <2>3, <2>4 DEF ClientChannel
    <2> DEFINE p == d.pending \/ HeadCanBeSent(d, r)
    <2>7. client' = [d EXCEPT !.pending = p]  BY <2>2 DEF Pending
    <2>8. p \in BOOLEAN  BY <2>6 DEF ClientChannel
    <2> HIDE DEF p
    <2>9. /\ client' \in ClientChannel /\ client'.store = store /\ client'.cache = locked
          /\ client'.resource = client.resource /\ client'.commits = client.commits
          /\ client'.list = list
      BY <1>5, <2>6, <2>7, <2>8 DEF ClientChannel
    <2>10. Stored(client, client', r, split, s)  BY <1>9, <2>9 DEF Stored, store
    <2>11. Kept(client, client', k, action, split)
      BY <1>7, <1>8, <1>9, <2>5, <2>9 DEF Kept, Usable
    <2>12. QED  BY <1>6, <2>9, <2>10, <2>11 DEF Put, list
  <1>10. CASE ~ split /\ action = "added"
    <2>1. client' = [c EXCEPT !.cache = whole]  BY <1>5, <1>6, <1>10
    <2>2. whole \in [Key -> Slot \cup {Null}]  BY <1>1, <1>8 DEF ClientChannel
    <2>3. \A q \in Key : whole[q] = IF q = k THEN WholeSlot(k) ELSE client.cache[q]
      BY <1>1 DEF ClientChannel
    <2> HIDE DEF whole
    <2>4. /\ client' \in ClientChannel /\ client'.store = client.store /\ client'.cache = whole
          /\ client'.resource = client.resource /\ client'.commits = client.commits
          /\ client'.list = list
      BY <1>4, <1>5, <2>1, <2>2 DEF ClientChannel
    <2>5. Stored(client, client', r, split, s)  BY <1>10, <2>4 DEF Stored
    <2>6. Kept(client, client', k, action, split)
      BY <1>8, <1>10, <2>3, <2>4 DEF Kept
    <2>7. QED  BY <1>6, <2>4, <2>5, <2>6 DEF Put, list
  <1>11. CASE ~ split /\ action # "added"
    <2>1. client' = c  BY <1>6, <1>11
    <2>2. QED  BY <1>4, <1>5, <1>6, <1>11, <2>1 DEF Put, Stored, Kept, list
  <1>12. QED  BY <1>9, <1>10, <1>11

(* The splits of the stores after an image. *)
LEMMA PutStores ==
    ASSUME NEW c \in ClientChannel, NEW d \in ClientChannel, NEW r \in Resource, NEW s \in Split,
           NEW split \in BOOLEAN, Stored(c, d, r, split, s)
    PROVE  /\ \A q \in Resource : q # r => d.store[q] = c.store[q]
           /\ \A q \in Resource : \A i \in DOMAIN c.store[q] :
                 i \in DOMAIN d.store[q] /\ d.store[q][i] = c.store[q][i]
           /\ \A q \in Resource : \A i \in DOMAIN d.store[q] :
                 \/ i \in DOMAIN c.store[q] /\ d.store[q][i] = c.store[q][i]
                 \/ split /\ q = r /\ d.store[q][i] = s
           /\ split => \E i \in DOMAIN d.store[r] : d.store[r][i] = s
  <1>1. CASE ~ split  BY <1>1 DEF Stored
  <1>2. CASE split
    <2> DEFINE t == c.store[r]
               n == Len(t)
               more == Append(t, s)
    <2>1. t \in Seq(Split) /\ c.store \in [Resource -> Seq(Split)]  BY DEF ClientChannel
    <2>2. n \in Nat /\ DOMAIN t = 1 .. n /\ DOMAIN more = 1 .. n + 1 /\ more[n + 1] = s
          /\ \A i \in 1 .. n : more[i] = t[i]
      BY <2>1, Appended
    <2>3. d.store = [c.store EXCEPT ![r] = more]  BY <1>2 DEF Stored
    <2>4. d.store[r] = more /\ \A q \in Resource : q # r => d.store[q] = c.store[q]
      BY <2>1, <2>3
    <2> HIDE DEF n, more, t
    <2>5. \A i \in 1 .. n + 1 : i \in 1 .. n \/ i = n + 1  BY <2>2
    <2>6. n + 1 \in 1 .. n + 1 /\ \A i \in 1 .. n : i \in 1 .. n + 1  BY <2>2
    <2>7. \A i \in DOMAIN t : i \in DOMAIN more /\ more[i] = t[i]  BY <2>2, <2>6
    <2>8. \A i \in DOMAIN more : (i \in DOMAIN t /\ more[i] = t[i]) \/ more[i] = s
      BY <2>2, <2>5
    <2>9. \E i \in DOMAIN more : more[i] = s  BY <2>2, <2>6
    <2>10. c.store[r] = t  BY DEF t
    <2>11. QED  BY <1>2, <2>4, <2>7, <2>8, <2>9, <2>10
  <1>3. QED  BY <1>1, <1>2

(* handleSplit and handleEncodeCached, of an image at the agent's side *)
LEMMA PutImageFits ==
    ASSUME TypeOK, NEW a, NEW known, Together(a, known),
           NEW r \in Resource, NEW k \in Key, NEW action \in Action, NEW small \in BOOLEAN,
           PutImage(r, k, action, small)
    PROVE  /\ Together(a, known)'
           /\ client' \in ClientChannel
           /\ CacheFit(client) => CacheFit(client')
  <1> USE TogetherParts
  <1> DEFINE seen == Range(sent)
             p == <<r, k>>
             more == seen \cup {p}
             split == ~ SplitRefused(r, action, small)
             s == SplitOf(client, r, k, action)
             m == ImageMessage(k, action, split)
             d == client'
  <1>1. /\ agent[r] = "open" /\ ("repeat" \in May \/ ~ Contains(sent, p))
        /\ action \in Actions(k) /\ sent' = Append(sent, p)
        /\ events' = events /\ agent' = agent
    BY DEF PutImage
  <1>2. client.resource = r  BY <1>1 DEF Phase
  <1>3. split \in BOOLEAN  BY DEF SplitRefused
  <1>4. Listed(client)  BY DEF StoresFit
  <1> HIDE DEF s, split, m
  <1>5. /\ s \in Split /\ Outline(s) = Outline(NewSplit(r, k, action, "async"))
        /\ s.resource = r /\ s.key = k /\ s.action = action /\ s.state # "notified"
        /\ s.state = "loaded" => action = "hit"
    BY SplitOfParts DEF s
  <1>6. Put(client, d, r, k, action, split, s) /\ toServer' = Append(toServer, m)
    BY <1>4, PutParts DEF s, split, m
  <1>7. /\ d \in ClientChannel /\ d.resource = client.resource /\ d.commits = client.commits
        /\ d.list = Alloc(client.list, r)
        /\ Stored(client, d, r, split, s) /\ Kept(client, d, k, action, split)
    BY <1>6 DEF Put
  <1>8. /\ Range(sent') = more /\ more \in SUBSET Pairs
        /\ "repeat" \notin May => p \notin seen
    <2>1. p \in Pairs  BY DEF Pairs
    <2>2. sent \in Seq(Pairs)  BY SentPairs
    <2> HIDE DEF p
    <2>3. QED  BY <1>1, <2>1, <2>2, SentMore
  <1>9. Usable(client, k, action)  BY <1>1, ActionsUsable
  <1>10. m \in Message  BY <1>3, ImageParts DEF m
  <1>11. Reads(Shape(client, seen), m, Shape(d, more), known) /\ Shape(d, more) \in Shapes
    <2>1. "repeat" \notin May => <<r, k>> \notin seen  BY <1>8
    <2>2. seen \in SUBSET Pairs /\ more = seen \cup {<<r, k>>}  OBVIOUS
    <2>3. m = ImageMessage(k, action, split)  BY DEF m
    <2>4. d.resource = r  BY <1>2, <1>7
    <2>5. client \in ClientChannel /\ client.resource = r  BY <1>2
    <2>6. d \in ClientChannel /\ d.commits = client.commits /\ Stored(client, d, r, split, s)
          /\ Kept(client, d, k, action, split)
      BY <1>7
    <2> HIDE DEF d, more, seen, p
    <2>7. QED  BY <1>3, <1>5, <1>9, <2>1, <2>2, <2>3, <2>4, <2>5, <2>6, ImageReads
  <1>12. Leads(a, toServer', Shape(d, more), known)
    <2> HIDE DEF d, more, seen
    <2>1. Leads(a, toServer, Shape(client, seen), known)  BY DEF seen
    <2>2. QED  BY <1>6, <1>10, <1>11, <2>1, LeadsOn
  <1>13. toServer' \in Seq(Message)  BY <1>6, <1>10
  <1> HIDE DEF d
  <1>14. /\ \A q \in Resource : q # r => d.store[q] = client.store[q]
         /\ \A q \in Resource : \A i \in DOMAIN client.store[q] :
               i \in DOMAIN d.store[q] /\ d.store[q][i] = client.store[q][i]
         /\ \A q \in Resource : \A i \in DOMAIN d.store[q] :
               \/ i \in DOMAIN client.store[q] /\ d.store[q][i] = client.store[q][i]
               \/ split /\ q = r /\ d.store[q][i] = s
         /\ split => \E i \in DOMAIN d.store[r] : d.store[r][i] = s
    BY <1>3, <1>5, <1>7, PutStores
  <1>15. /\ \A i, j \in DOMAIN d.list : d.list[i] = d.list[j] => i = j
         /\ \A q \in Resource : Contains(d.list, q) <=> Contains(client.list, q) \/ q = r
    <2> DEFINE list == client.list
    <2>1. list \in Seq(Resource)  BY ClientSided
    <2>2. \A i, j \in DOMAIN list : list[i] = list[j] => i = j  BY <1>4 DEF Listed
    <2>3. d.list = Alloc(list, r)  BY <1>7
    <2> HIDE DEF list
    <2>4. /\ \A i, j \in DOMAIN Alloc(list, r) : Alloc(list, r)[i] = Alloc(list, r)[j] => i = j
          /\ \A q \in Resource : Contains(Alloc(list, r), q) <=> Contains(list, q) \/ q = r
      BY <2>1, <2>2, AllocParts
    <2>5. QED  BY <2>3, <2>4 DEF list
  <1>16. StoresFit(d)
    <2>1. \A q \in Resource : d.store[q] # <<>> => Contains(d.list, q)
      <3> SUFFICES ASSUME NEW q \in Resource, d.store[q] # <<>>, q # r
                   PROVE  Contains(client.list, q)
        BY <1>15
      <3>1. QED  BY <1>4, <1>14 DEF Listed
    <2>2. \A q \in Resource : StoreFits(d.store[q], q)
      BY <1>5, <1>14 DEF StoresFit, StoreFits
    <2>3. QED  BY <1>7, <1>15, <2>1, <2>2 DEF StoresFit, Listed
  <1>17. Phases(d, events, agent)
    <2> SUFFICES ASSUME NEW q \in Resource  PROVE Phase(d, events, q, agent[q])
      BY DEF Phases
    <2>1. Phase(client, events, q, agent[q])  OBVIOUS
    <2>2. CASE q = r
      <3>1. Phase(client, events, r, "open") /\ agent[q] = "open"  BY <1>1, <2>1, <2>2
      <3>2. QED  BY <1>2, <1>7, <2>2, <3>1 DEF Phase
    <2>3. CASE q # r
      <3>1. d.store[q] = client.store[q] /\ (Contains(d.list, q) <=> Contains(client.list, q))
        BY <1>14, <1>15, <2>3
      <3>2. QED  BY <1>7, <2>1, <3>1, PhaseSame
    <2>4. QED  BY <2>2, <2>3
  <1>18. Knows(d, known)
    <2> SUFFICES ASSUME NEW q \in Resource, NEW i \in DOMAIN d.store[q],
                        d.store[q][i].state = "loaded"
                 PROVE  MayAbort(q, d.store[q][i], known)
      BY DEF Knows
    <2>1. CASE i \in DOMAIN client.store[q] /\ d.store[q][i] = client.store[q][i]
      <3>1. Knows(client, known)  OBVIOUS
      <3>2. QED  BY <2>1, <3>1 DEF Knows
    <2>2. CASE d.store[q][i] = s  BY <1>5, <2>2 DEF MayAbort
    <2>3. QED  BY <1>14, <2>1, <2>2
  <1>19. Asked(d, agent)  BY <1>7 DEF Asked
  <1>20. Told(d.commits, events)  BY <1>7
  <1>21. Together(a, known)'
    BY <1>1, <1>7, <1>8, <1>12, <1>13, <1>16, <1>17, <1>18, <1>19, <1>20 DEF Together, Fits, d
  <1>22. ASSUME CacheFit(client)
         PROVE  CacheFit(d)
    <2> SUFFICES ASSUME NEW q \in Key
                 PROVE  /\ UnderWay(d, q) => d.cache[q] # Null
                        /\ d.cache[q] # Null /\ d.cache[q].locked => UnderWay(d, q)
      BY DEF CacheFit
    <2>1. /\ UnderWay(client, q) => client.cache[q] # Null
          /\ client.cache[q] # Null /\ client.cache[q].locked => UnderWay(client, q)
      BY <1>22 DEF CacheFit
    <2>2. UnderWay(client, q) => UnderWay(d, q)  BY <1>7, <1>14 DEF UnderWay
    <2>3. UnderWay(d, q) => UnderWay(client, q) \/ (split /\ action = "added" /\ q = k)
      BY <1>5, <1>7, <1>14 DEF UnderWay
    <2>4. split /\ action = "added" /\ q = k => UnderWay(d, q)
      BY <1>5, <1>14 DEF UnderWay
    <2>5. /\ d.cache[q] # Null <=> client.cache[q] # Null \/ (action = "added" /\ q = k)
          /\ d.cache[q] # Null /\ ~ d.cache[q].locked <=>
                \/ client.cache[q] # Null /\ ~ client.cache[q].locked
                \/ action = "added" /\ q = k /\ ~ split
      BY <1>7 DEF Kept
    <2>6. client.cache[q] # Null => client.cache[q].locked \in BOOLEAN
      BY DEF ClientChannel, Slot
    <2>7. d.cache[q] # Null => d.cache[q].locked \in BOOLEAN
      BY <1>7 DEF ClientChannel, Slot
    <2>8. QED  BY <2>1, <2>2, <2>3, <2>4, <2>5, <2>6, <2>7
  <1>23. QED  BY <1>7, <1>21, <1>22 DEF d

-----------------------------------------------------------------------------
(* Aborts *)

Handler == [c : ClientChannel, out : Seq(Message), ev : Seq(Event)]

(* Where every commit was told, throwing splits away tells none. *)
LEMMA RestartNone ==
    ASSUME NEW h \in Handler, NEW r \in Resource,
           \A i \in DOMAIN h.c.commits : h.c.commits[i].state = "notified",
           NEW f, f = Restart(h, r)
    PROVE  Restarted(h, h.c, h.ev, r, f)
  <1> DEFINE c == h.c
             queue == h.ev
             all == c.commits
             told == [i \in DOMAIN all |-> [all[i] EXCEPT !.state = "notified"]]
             ended == IF c.store[r] = <<>> /\ r # c.resource THEN <<EndOf(r)>> ELSE <<>>
             none == [i \in 1 .. Len(<<>>) |-> [type |-> "commit", resource |-> r,
                                               position |-> Position(<<>>[i])]]
             g == [h EXCEPT !.c.commits = told, !.ev = (@ \o none) \o ended]
  <1>1. c \in ClientChannel /\ queue \in Seq(Event) /\ all \in Seq(Split)
    BY DEF Handler, ClientChannel
  <1>2. {i \in DOMAIN all : all[i].state # "notified"} = {}  OBVIOUS
  <1>3. InOrder(all, {}) = <<>>
    <2>1. Cardinality({}) = 0  BY FS_EmptySet
    <2> DEFINE chosen(i) == CHOOSE p \in {} : Cardinality({q \in {} : q <= p}) = i
    <2>2. InOrder(all, {}) = [i \in 1 .. 0 |-> all[chosen(i)]]  BY <2>1 DEF InOrder
    <2> HIDE DEF chosen, all
    <2>3. QED  BY <2>2
  <1>4. f = RemoveEmpty(g, r)
    <2> HIDE DEF told, ended
    <2>1. QED  BY <1>2, <1>3 DEF Restart, EndOf, told, ended
  <1>5. none = <<>>  OBVIOUS
  <1> HIDE DEF none
  <1>6. told = all
    <2>1. \A i \in DOMAIN all : all[i] \in Split  BY <1>1, ElementOfSeq
    <2>2. \A s \in Split : s.state = "notified" => [s EXCEPT !.state = "notified"] = s
      BY DEF Split
    <2>3. \A i \in DOMAIN all : told[i] = all[i]  BY <2>1, <2>2
    <2>4. DOMAIN all = 1 .. Len(all) /\ all = [i \in 1 .. Len(all) |-> all[i]]  BY <1>1, SeqDef
    <2>5. told = [i \in 1 .. Len(all) |-> told[i]]  BY <2>4
    <2> HIDE DEF told, all
    <2>6. QED  BY <2>3, <2>4, <2>5
  <1>7. [c EXCEPT !.commits = told] = c  BY <1>1, <1>6 DEF ClientChannel
  <1>8. g = [h EXCEPT !.ev = queue \o ended]
    <2>1. queue \o <<>> = queue  BY <1>1
    <2> HIDE DEF ended, told, queue, c
    <2>2. g = [h EXCEPT !.c = c, !.ev = queue \o ended]  BY <1>5, <1>7, <2>1 DEF c, queue
    <2>3. QED  BY <2>2 DEF c, Handler
  <1> HIDE DEF g
  <1>9. /\ g.c = c /\ g.ev = queue \o ended /\ g = [h EXCEPT !.c = g.c, !.ev = g.ev]
    <2> HIDE DEF ended
    <2>1. QED  BY <1>8 DEF Handler
  <1>10. g.ev = IF Gone(c, r) THEN Append(queue, EndOf(r)) ELSE queue
    <2>1. EndOf(r) \in Event  BY EventParts
    <2>2. queue \o <<EndOf(r)>> = Append(queue, EndOf(r)) /\ queue \o <<>> = queue
      BY <1>1, <2>1
    <2> HIDE DEF c, queue
    <2>3. QED  BY <1>9, <2>2 DEF Gone
  <1> HIDE DEF c, queue
  <1>11. Ended(c, queue, r, f.c, f.ev) /\ f = [h EXCEPT !.c = f.c, !.ev = f.ev]
    <2>1. CASE Gone(c, r) /\ Contains(c.list, r)
      <3> DEFINE list == RemoveFirst(c.list, r)
                 more == IF Total(c) = {} THEN Append(g.ev, Empty) ELSE g.ev
      <3>1. f = [g EXCEPT !.c = [@ EXCEPT !.list = list], !.ev = more]
        BY <1>4, <1>9, <2>1 DEF RemoveEmpty, Gone, Empty
      <3> HIDE DEF list, more
      <3>2. f = [h EXCEPT !.c = [c EXCEPT !.list = list], !.ev = more]
        BY <1>9, <3>1 DEF Handler
      <3>3. f.c = [c EXCEPT !.list = list] /\ f.ev = more
        BY <3>2 DEF Handler
      <3>4. f = [h EXCEPT !.c = f.c, !.ev = f.ev]  BY <3>2, <3>3
      <3>5. QED  BY <1>10, <2>1, <3>3, <3>4 DEF Ended, list, more
    <2>2. CASE ~ (Gone(c, r) /\ Contains(c.list, r))
      <3>1. f = g  BY <1>4, <1>9, <2>2 DEF RemoveEmpty, Gone
      <3>2. QED  BY <1>9, <1>10, <2>2, <3>1 DEF Ended
    <2>3. QED  BY <2>1, <2>2
  <1>12. QED  BY <1>11 DEF Restarted, c, queue

(* What aborting the splits of a resource makes of the agent's side. *)
Discards(c, d, r) ==
    /\ d \in ClientChannel /\ d.resource = c.resource /\ d.commits = c.commits
    /\ d.store = [c.store EXCEPT ![r] = <<>>]
    /\ \A k \in Key : d.cache[k] = IF k \in HitsOf(c.store[r]) THEN Null ELSE c.cache[k]

(* Aborting a resource without splits changes nothing. *)
LEMMA DiscardedParts ==
    ASSUME NEW c \in ClientChannel, NEW r \in Resource
    PROVE  /\ Discards(c, Discarded(c, r), r) /\ Discarded(c, r).list = c.list
           /\ c.store[r] = <<>> => Discards(c, c, r)
  <1> DEFINE hits == HitsOf(c.store[r])
             cache == [k \in Key |-> IF k \in hits THEN Null ELSE c.cache[k]]
             store == [c.store EXCEPT ![r] = <<>>]
             d == Discarded(c, r)
  <1>1. c.cache \in [Key -> Slot \cup {Null}] /\ c.store \in [Resource -> Seq(Split)]
    BY DEF ClientChannel
  <1>2. cache \in [Key -> Slot \cup {Null}] /\ store \in [Resource -> Seq(Split)]
    <2>1. <<>> \in Seq(Split)  OBVIOUS
    <2> HIDE DEF hits
    <2>2. QED  BY <1>1, <2>1
  <1>3. d = [c EXCEPT !.cache = cache, !.store = store]  BY DEF Discarded
  <1>4. \A k \in Key : cache[k] = IF k \in hits THEN Null ELSE c.cache[k]  OBVIOUS
  <1> HIDE DEF hits, cache, store, d
  <1>5. /\ d \in ClientChannel /\ d.resource = c.resource /\ d.commits = c.commits
        /\ d.store = store /\ d.cache = cache /\ d.list = c.list
    BY <1>2, <1>3 DEF ClientChannel
  <1>6. Discards(c, d, r)  BY <1>4, <1>5 DEF Discards, store, hits
  <1>7. ASSUME c.store[r] = <<>>
        PROVE  Discards(c, c, r)
    <2>1. HitsOf(<<>>) = {}  BY DEF HitsOf
    <2>2. c.store = [c.store EXCEPT ![r] = <<>>]  BY <1>1, <1>7
    <2>3. QED  BY <1>7, <2>1, <2>2 DEF Discards
  <1>8. QED  BY <1>5, <1>6, <1>7 DEF d

(* Which slots an abort removes shows in the outlines. *)
LEMMA HitsOfSkeleton ==
    ASSUME NEW s \in Seq(Split), NEW cache
    PROVE  /\ HitsOf(Skeleton(s)) = HitsOf(s) /\ HitsOf(s) \subseteq Key
           /\ CanRemove(cache, s) => Removable({k \in Key : cache[k] # Null}, Skeleton(s))
           /\ Removable({k \in Key : cache[k] # Null}, Skeleton(s)) => CanRemove(cache, s)
  <1> DEFINE t == Skeleton(s)
  <1>1. DOMAIN t = DOMAIN s /\ \A i \in DOMAIN s : t[i].key = s[i].key /\ t[i].action = s[i].action
    BY SkeletonParts, OutlineParts, ElementOfSeq
  <1>2. \A i \in DOMAIN s : s[i].key \in Key
    <2>1. \A i \in DOMAIN s : s[i] \in Split  BY ElementOfSeq
    <2>2. QED  BY <2>1 DEF Split
  <1> HIDE DEF t
  <1>3. HitsOf(t) = HitsOf(s)  BY <1>1 DEF HitsOf
  <1>4. HitsOf(s) \subseteq Key  BY <1>2 DEF HitsOf
  <1>5. CanRemove(cache, s) <=> Removable({k \in Key : cache[k] # Null}, t)
    BY <1>1, <1>3, <1>4 DEF CanRemove, Removable
  <1>6. QED  BY <1>3, <1>4, <1>5 DEF t

(* The other side can read an abort, and is then where the agent's side is. *)
LEMMA AbortReads ==
    ASSUME NEW c \in ClientChannel, NEW d, NEW r \in Resource, Discards(c, d, r),
           CanRemove(c.cache, c.store[r]), "abort" \in May,
           NEW seen \in SUBSET Pairs, NEW known, NEW m, m = AbortOf(r)
    PROVE  /\ Reads(Shape(c, seen), m, Shape(d, seen), known)
           /\ Shape(d, seen) \in Shapes
  <1> DEFINE a == Shape(c, seen)
             b == Shape(d, seen)
             hits == HitsOf(c.store[r])
  <1>1. /\ d \in ClientChannel /\ d.resource = c.resource /\ d.commits = c.commits
        /\ d.store = [c.store EXCEPT ![r] = <<>>]
        /\ \A k \in Key : d.cache[k] = IF k \in hits THEN Null ELSE c.cache[k]
    BY DEF Discards
  <1>2. Sided(c) /\ Sided(d) /\ c.store[r] \in Seq(Split)  BY <1>1, ClientSided
  <1>3. /\ a.resource = c.resource /\ b.resource = d.resource /\ a.seen = seen /\ b.seen = seen
        /\ a.commits = b.commits /\ b \in Shapes
        /\ a.store[r] = Skeleton(c.store[r])
        /\ a.held = {k \in Key : c.cache[k] # Null} /\ b.held = {k \in Key : d.cache[k] # Null}
        /\ a.ready = {k \in Key : c.cache[k] # Null /\ ~ c.cache[k].locked}
        /\ b.ready = {k \in Key : d.cache[k] # Null /\ ~ d.cache[k].locked}
    BY <1>1, <1>2, ShapeParts, ShapeSame
  <1>4. HitsOf(a.store[r]) = hits /\ Removable(a.held, a.store[r])
    <2> DEFINE s == c.store[r]
               cache == c.cache
    <2>1. s \in Seq(Split) /\ CanRemove(cache, s)  BY <1>2
    <2>2. a.store[r] = Skeleton(s) /\ a.held = {k \in Key : cache[k] # Null}  BY <1>3
    <2> HIDE DEF a, b, s, cache
    <2>3. HitsOf(Skeleton(s)) = HitsOf(s) /\ Removable({k \in Key : cache[k] # Null}, Skeleton(s))
      BY <2>1, HitsOfSkeleton
    <2>4. QED  BY <2>2, <2>3 DEF s
  <1>5. b.store = [a.store EXCEPT ![r] = <<>>]
    <2>1. <<>> \in Seq(Split) /\ Skeleton(<<>>) = <<>>
      <3>1. <<>> \in Seq(Split)  OBVIOUS
      <3>2. QED  BY <3>1, SkeletonParts
    <2> DEFINE none == <<>>
    <2>2. d.store = [c.store EXCEPT ![r] = none]  BY <1>1
    <2>3. none \in Seq(Split) /\ Skeleton(none) = none  BY <2>1
    <2> HIDE DEF none
    <2>4. b.store = [a.store EXCEPT ![r] = Skeleton(none)]
      BY <1>2, <2>2, <2>3, ShapeStore
    <2>5. QED  BY <2>3, <2>4 DEF none
  <1> HIDE DEF a, b, hits
  <1>6. b.held = a.held \ hits /\ b.ready = a.ready \ hits  BY <1>1, <1>3
  <1>7. m.type = "abort" /\ m.resource = r  BY MessageParts
  <1>8. ReadsAbort(a, m, b)  BY <1>1, <1>3, <1>4, <1>5, <1>6, <1>7 DEF ReadsAbort
  <1>9. QED  BY <1>3, <1>8 DEF Reads, a, b

(* nxagentReleaseSplit and handleAbortSplitRequest, at the agent's side.  What
   is thrown away was sent to the other side, which throws it away as well.   *)
LEMMA AbortSplitFits ==
    ASSUME TypeOK, NEW a, NEW known, Together(a, known), NEW r \in Resource, AbortSplit(r)
    PROVE  /\ client' \in ClientChannel /\ toServer' \in Seq(Message) /\ events' \in Seq(Event)
           /\ failed' \in BOOLEAN
           /\ ~ failed' => Together(a, known)'
  <1> USE TogetherParts
  <1> DEFINE seen == Range(sent)
             m == AbortOf(r)
             c == Discarded(client, r)
             listed == Contains(client.list, r)
             h == [Handling(c) EXCEPT !.out = Append(@, m)]
             e == Restart(h, r)
             f == [e EXCEPT !.c = AnyPending(@)]
             still == [Handling(client) EXCEPT !.out = Append(@, m)]
             ag == [agent EXCEPT ![r] = "released"]
             out == Append(toServer, m)
  <1>1. /\ "abort" \in May /\ agent[r] = "split" /\ agent' = ag
        /\ failed' = ~ CanRemove(client.cache, client.store[r]) /\ sent' = sent
        /\ IF listed THEN Applied(f) ELSE Applied(still)
    BY DEF AbortSplit, AbortOf
  <1>2. m \in Message /\ out \in Seq(Message)  BY MessageParts
  <1>3. /\ Discards(client, c, r) /\ c.list = client.list
        /\ client.store[r] = <<>> => Discards(client, client, r)
    BY DiscardedParts
  <1>4. c \in ClientChannel /\ c.resource = client.resource /\ c.commits = client.commits
        /\ c.store = [client.store EXCEPT ![r] = <<>>]
    BY <1>3 DEF Discards
  <1>5. /\ client.resource # r /\ NoneOf(events, {"no", "start"}, r)
        /\ IF listed THEN client.store[r] # <<>> /\ NoneOf(events, {"end"}, r)
           ELSE client.store[r] = <<>>
    <2>1. Phase(client, events, r, "split")  BY <1>1
    <2>2. Listed(client)  BY DEF StoresFit
    <2>3. QED  BY <2>1, <2>2 DEF Phase, Ending, Listed
  <1> HIDE DEF c, m, out
  <1>6. h \in Handler /\ h.c = c /\ h.out = out /\ h.ev = events
    BY <1>2, <1>4 DEF Handling, Handler, out
  <1>7. still.c = client /\ still.out = out /\ still.ev = events
    BY DEF Handling, out
  <1> HIDE DEF h, still
  <1>8. \A i \in DOMAIN c.commits : c.commits[i].state = "notified"
    BY <1>4 DEF StoresFit
  <1>9. Restarted(h, c, events, r, e)
    BY <1>6, <1>8, RestartNone
  <1> HIDE DEF e
  <1>10. Ended(c, events, r, e.c, e.ev) /\ e.out = out
    <2>1. e = [h EXCEPT !.c = e.c, !.ev = e.ev] /\ Ended(c, events, r, e.c, e.ev)
      BY <1>9 DEF Restarted
    <2>2. QED  BY <1>6, <2>1 DEF Handler
  <1>11. f.c = AnyPending(e.c) /\ f.out = out /\ f.ev = e.ev
    <2>1. e = [h EXCEPT !.c = e.c, !.ev = e.ev]  BY <1>9 DEF Restarted
    <2>2. QED  BY <1>6, <1>10, <2>1 DEF Handler
  <1> HIDE DEF f
  <1>12. ag \in [Resource -> AgentStates]
         /\ \A q \in Resource : ag[q] = IF q = r THEN "released" ELSE agent[q]
    BY DEF AgentStates
  <1> HIDE DEF ag
  <1>13. CASE listed
    <2>1. client' = AnyPending(e.c) /\ toServer' = out /\ events' = e.ev
      BY <1>1, <1>11, <1>13 DEF Applied
    <2>2. StoresFit(c)
      <3>1. \A q \in Resource : c.store[q] = IF q = r THEN <<>> ELSE client.store[q]
        BY <1>4 DEF ClientChannel
      <3>2. \A q \in Resource : StoreFits(c.store[q], q)  BY <3>1 DEF StoresFit, StoreFits
      <3>3. Listed(c)  BY <1>3, <3>1 DEF StoresFit, Listed
      <3>4. QED  BY <1>8, <3>2, <3>3 DEF StoresFit
    <2>3. \A q \in Resource : q # r => Phase(c, events, q, ag[q])
      <3> SUFFICES ASSUME NEW q \in Resource, q # r  PROVE Phase(c, events, q, ag[q])
        OBVIOUS
      <3>1. c.store[q] = client.store[q] /\ ag[q] = agent[q]  BY <1>4, <1>12 DEF ClientChannel
      <3>2. Phase(client, events, q, agent[q])  OBVIOUS
      <3>3. QED  BY <1>3, <1>4, <3>1, <3>2, PhaseSame
    <2>4. Due(c, events, r, ag[r])  BY <1>4, <1>5, <1>12, <1>13 DEF Due
    <2>5. Told(c.commits, events) /\ Contains(c.list, r) /\ events \in Seq(Event)
      BY <1>3, <1>4, <1>13
    <2>6. /\ e.c \in ClientChannel /\ e.ev \in Seq(Event)
          /\ StoresFit(e.c) /\ Told(e.c.commits, e.ev) /\ Phases(e.c, e.ev, ag)
          /\ e.c.resource = c.resource /\ e.c.store = c.store /\ e.c.commits = c.commits
          /\ e.c.cache = c.cache
      BY <1>4, <1>10, <1>12, <2>2, <2>3, <2>4, <2>5, EndedFits
    <2>7. Alike(e.c, AnyPending(e.c))  BY <2>6, PendingAlike
    <2>8. client' \in ClientChannel  BY <2>1, <2>7 DEF Alike
    <2>9. ASSUME ~ failed'
          PROVE  Together(a, known)'
      <3>1. Discards(client, e.c, r)  BY <1>3, <2>6 DEF Discards
      <3>2. CanRemove(client.cache, client.store[r])  BY <1>1, <2>9
      <3> HIDE DEF seen, listed
      <3>3. seen \in SUBSET Pairs  BY DEF seen
      <3>4. Reads(Shape(client, seen), m, Shape(e.c, seen), known) /\ Shape(e.c, seen) \in Shapes
        BY <1>1, <3>1, <3>2, <3>3, AbortReads DEF m
      <3>5. Leads(a, toServer, Shape(client, seen), known)  BY DEF seen
      <3>6. Leads(a, out, Shape(e.c, seen), known)
        BY <1>2, <3>4, <3>5, LeadsOn DEF out
      <3>7. Knows(e.c, known)
        <4>1. \A q \in Resource : e.c.store[q] = IF q = r THEN <<>> ELSE client.store[q]
          BY <1>4, <2>6 DEF ClientChannel
        <4>2. Knows(client, known)  OBVIOUS
        <4>3. QED  BY <4>1, <4>2 DEF Knows
      <3>8. Fits(e.c, out, e.ev, ag, a, seen, known)
        BY <1>2, <2>6, <3>6, <3>7 DEF Fits
      <3>9. Asked(e.c, ag)
        <4>1. \A q \in Resource : ag[q] = "free" => agent[q] = "free"  BY <1>12
        <4>2. e.c.commits = client.commits  BY <1>4, <2>6
        <4>3. QED  BY <4>1, <4>2 DEF Asked
      <3>10. Fits(client', out, e.ev, ag, a, seen, known) /\ Asked(client', ag)
        BY <2>1, <2>7, <3>8, <3>9, AlikeFits
      <3>11. QED  BY <1>1, <2>1, <3>10 DEF Together, seen
    <2>10. QED  BY <1>1, <1>2, <2>1, <2>6, <2>8, <2>9
  <1>14. CASE ~ listed
    <2>1. client' = client /\ toServer' = out /\ events' = events
      BY <1>1, <1>7, <1>14 DEF Applied
    <2>2. Discards(client, client, r) /\ client.store[r] = <<>>  BY <1>3, <1>5, <1>14
    <2>3. ASSUME ~ failed'
          PROVE  Together(a, known)'
      <3>1. CanRemove(client.cache, client.store[r])  BY <1>1, <2>3
      <3> HIDE DEF seen, listed
      <3>2. seen \in SUBSET Pairs /\ Leads(a, toServer, Shape(client, seen), known)  BY DEF seen
      <3>3. Reads(Shape(client, seen), m, Shape(client, seen), known)
            /\ Shape(client, seen) \in Shapes
        BY <1>1, <2>2, <3>1, <3>2, AbortReads DEF m
      <3>4. Leads(a, out, Shape(client, seen), known)
        BY <1>2, <3>2, <3>3, LeadsOn DEF out
      <3>5. Phases(client, events, ag)
        <4> SUFFICES ASSUME NEW q \in Resource  PROVE Phase(client, events, q, ag[q])
          BY DEF Phases
        <4>1. Phase(client, events, q, agent[q])  OBVIOUS
        <4>2. CASE q = r
          <5>1. Phase(client, events, r, "split") /\ ag[q] = "released"
            BY <1>1, <1>12, <4>1, <4>2
          <5>2. QED  BY <4>2, <5>1 DEF Phase
        <4>3. CASE q # r  BY <1>12, <4>1, <4>3
        <4>4. QED  BY <4>2, <4>3
      <3>6. Asked(client, ag)
        <4>1. \A q \in Resource : ag[q] = "free" => agent[q] = "free"  BY <1>12
        <4>2. QED  BY <4>1 DEF Asked
      <3>7. QED  BY <1>1, <1>2, <2>1, <3>4, <3>5, <3>6 DEF Together, Fits, seen
    <2>4. QED  BY <1>1, <1>2, <2>1, <2>3
  <1>15. QED  BY <1>13, <1>14

-----------------------------------------------------------------------------
(* The X server's side *)

(* The X server's side reads what the agent's side sent. *)
Follows(b) ==
    /\ server' \in ServerChannel
    /\ failed' = FALSE
    /\ b = Shape(server', b.seen)

Typed ==
    /\ disk' \in [Key -> File \cup {Null}]
    /\ toClient' \in Seq([resource : Resource, key : Key, loaded : BOOLEAN, csize : Format])
    /\ drawn' \in [key : Key, image : {"whole", "lost", "garbage"}] \cup {Null}

(* The X server's side is a side. *)
LEMMA ServerSided ==
    ASSUME TypeOK
    PROVE  /\ Sided(server) /\ server \in ServerChannel
           /\ \A r \in Resource : server.store[r] \in Seq(Split)
           /\ \A k \in Key : disk[k] \in File \cup {Null}
  BY DEF TypeOK, ServerChannel, Sided

(* Shapes are equal part by part. *)
LEMMA ShapesEqual ==
    ASSUME NEW a \in Shapes, NEW b \in Shapes,
           a.resource = b.resource, a.store = b.store, a.commits = b.commits,
           a.held = b.held, a.ready = b.ready, a.seen = b.seen
    PROVE  a = b
  BY DEF Shapes

(* A shape is that of the server's side. *)
IsShape(d, b) ==
    /\ d \in ServerChannel
    /\ b.resource = d.resource /\ b.commits = Skeleton(d.commits)
    /\ \A r \in Resource : b.store[r] = Skeleton(d.store[r])
    /\ b.held = {k \in Key : d.cache[k] # Null}
    /\ b.ready = {k \in Key : d.cache[k] # Null /\ ~ d.cache[k].locked}

(* The parts of a shape determine it. *)
LEMMA ShapeIs ==
    ASSUME NEW d, NEW b \in Shapes, IsShape(d, b)
    PROVE  b = Shape(d, b.seen)
  <1> DEFINE s == Shape(d, b.seen)
  <1>1. Sided(d)  BY DEF IsShape, ServerChannel, Sided
  <1>2. b.seen \in SUBSET Pairs /\ b.store \in [Resource -> Seq(Outlines)]  BY DEF Shapes
  <1>3. /\ s \in Shapes /\ s.resource = d.resource /\ s.commits = Skeleton(d.commits)
        /\ \A r \in Resource : s.store[r] = Skeleton(d.store[r])
        /\ s.held = {k \in Key : d.cache[k] # Null}
        /\ s.ready = {k \in Key : d.cache[k] # Null /\ ~ d.cache[k].locked}
        /\ s.seen = b.seen
    BY <1>1, <1>2, ShapeParts
  <1> HIDE DEF s
  <1>4. s.store \in [Resource -> Seq(Outlines)]  BY <1>3 DEF Shapes
  <1>5. s.store = b.store  BY <1>2, <1>3, <1>4 DEF IsShape
  <1>6. s = b  BY <1>3, <1>5, ShapesEqual DEF IsShape
  <1>7. QED  BY <1>6 DEF s

(* What the server's side has before it reads, as a shape tells. *)
LEMMA BeforeParts ==
    ASSUME TypeOK, NEW seen \in SUBSET Pairs, NEW a, a = Shape(server, seen)
    PROVE  /\ a \in Shapes /\ IsShape(server, a)
           /\ a.store \in [Resource -> Seq(Outlines)]
  <1>1. Sided(server) /\ server \in ServerChannel  BY ServerSided
  <1>2. a \in Shapes /\ IsShape(server, a)  BY <1>1, ShapeParts DEF IsShape
  <1>3. QED  BY <1>2 DEF Shapes

(* The request that the X server's side reads. *)
LEMMA HeadParts ==
    ASSUME TypeOK, toServer # <<>>, NEW m, m = Head(toServer)
    PROVE  /\ m \in Message
           /\ m.type \in {"start", "end", "abort"} => m.resource \in Resource
           /\ m.type = "image" => /\ m.key \in Key /\ m.action \in Action
                                  /\ m.split \in BOOLEAN
           /\ m.type = "data" => /\ m.resource \in Resource /\ m.start \in BOOLEAN
                                 /\ m.format \in Format /\ m.abort \in BOOLEAN
                                 /\ m.count \in 0 .. Chunks
           /\ m.type = "commit" => /\ m.resource \in Resource /\ m.position \in Key \cup {Null}
                                   /\ m.commit \in BOOLEAN
  <1>1. m \in Message  BY DEF TypeOK
  <1>2. QED  BY <1>1 DEF Message

(* A request is read by its type. *)
LEMMA ReadsByType ==
    ASSUME NEW a, NEW m, NEW b, NEW known, Reads(a, m, b, known)
    PROVE  /\ m.type \in {"start", "end"} => ReadsOpen(a, m, b)
           /\ m.type = "image" => ReadsImage(a, m, b)
           /\ m.type = "data" => ReadsData(a, m, b, known)
           /\ m.type = "abort" => ReadsAbort(a, m, b)
           /\ m.type = "commit" => ReadsCommit(a, m, b)
  BY DEF Reads, ReadsOpen, ReadsImage, ReadsData, ReadsAbort, ReadsCommit

(* Opening and closing a sequence. *)
LEMMA ServerStartEndFits ==
    ASSUME TypeOK, NEW seen \in SUBSET Pairs, NEW known, NEW a, a = Shape(server, seen),
           NEW b \in Shapes, Reads(a, Head(toServer), b, known), ~ failed, ServerStartEnd
    PROVE  Follows(b) /\ Typed
  <1> DEFINE m == Head(toServer)
             resource == IF m.type = "start" THEN m.resource ELSE nothing
  <1>1. /\ toServer # <<>> /\ m.type \in {"start", "end"}
        /\ server' = [server EXCEPT !.resource = resource]
        /\ UNCHANGED <<disk, toClient, drawn, failed>>
    BY DEF ServerStartEnd, Received
  <1>2. m.resource \in Resource  BY <1>1, HeadParts
  <1>3. IsShape(server, a)  BY BeforeParts
  <1>4. ReadsOpen(a, m, b)  BY <1>1, ReadsByType
  <1>5. server \in ServerChannel  BY ServerSided
  <1> HIDE DEF m
  <1>6. resource \in Resource \cup {nothing}  BY <1>2
  <1>7. b.resource = resource  BY <1>4 DEF ReadsOpen
  <1> HIDE DEF resource
  <1>8. /\ server' \in ServerChannel /\ server'.resource = resource
        /\ server'.store = server.store /\ server'.commits = server.commits
        /\ server'.cache = server.cache
    BY <1>1, <1>5, <1>6 DEF ServerChannel
  <1>9. IsShape(server', b)  BY <1>3, <1>4, <1>7, <1>8 DEF IsShape, ReadsOpen
  <1>10. b = Shape(server', b.seen)  BY <1>9, ShapeIs
  <1>11. Typed  BY <1>1 DEF TypeOK, Typed
  <1>12. failed' = FALSE  BY <1>1 DEF TypeOK
  <1>13. QED  BY <1>8, <1>10, <1>11, <1>12 DEF Follows

(* What is drawn of an image. *)
LEMMA ExpandedTyped ==
    ASSUME NEW k \in Key, NEW data, NEW csize
    PROVE  Expanded(k, data, csize) \in [key : Key, image : {"whole", "lost", "garbage"}]
  BY DEF Expanded

(* The slots that are filled and unlocked, or empty and locked. *)
LEMMA SlotParts ==
    ASSUME NEW k \in Key
    PROVE  /\ WholeSlot(k) \in Slot /\ WholeSlot(k) # Null /\ ~ WholeSlot(k).locked
           /\ LockedSlot \in Slot /\ LockedSlot # Null /\ LockedSlot.locked
  <1>1. Compressed(k) \in {"plain", "ours", "theirs"}  BY DEF Compressed
  <1>2. WholeSlot(k) \in Slot /\ LockedSlot \in Slot
    BY <1>1 DEF WholeSlot, LockedSlot, Slot, Format, Data
  <1>3. ~ WholeSlot(k).locked /\ LockedSlot.locked  BY DEF WholeSlot, LockedSlot
  <1>4. QED  BY <1>2, <1>3, NullAssumption

(* Reading an image that is not split. *)
LEMMA ServerImageFits ==
    ASSUME TypeOK, NEW seen \in SUBSET Pairs, NEW known, NEW a, a = Shape(server, seen),
           NEW b \in Shapes, Reads(a, Head(toServer), b, known), ~ failed, ServerImage
    PROVE  Follows(b) /\ Typed
  <1> DEFINE m == Head(toServer)
             k == m.key
             hit == m.action = "hit"
             slot == IF hit THEN server.cache[k] ELSE WholeSlot(k)
             cache == [server.cache EXCEPT ![k] = slot]
  <1>1. /\ toServer # <<>> /\ m.type = "image" /\ ~ m.split
        /\ failed' = (slot = Null)
        /\ drawn' = IF failed' THEN drawn ELSE Expanded(k, slot.data, slot.csize)
        /\ server' = IF m.action = "added" THEN [server EXCEPT !.cache = cache] ELSE server
        /\ UNCHANGED <<disk, toClient>>
    BY DEF ServerImage, Received
  <1>2. k \in Key /\ m.action \in Action  BY <1>1, HeadParts
  <1>3. IsShape(server, a)  BY BeforeParts
  <1>4. ReadsImage(a, m, b)  BY <1>1, ReadsByType
  <1>5. server \in ServerChannel  BY ServerSided
  <1> HIDE DEF m, cache
  <1>6. hit => k \in a.ready  BY <1>4 DEF ReadsImage, Fresh
  <1>7. hit => server.cache[k] # Null  BY <1>3, <1>6 DEF IsShape
  <1>8. slot \in Slot /\ slot # Null /\ (~ hit => ~ slot.locked)
    BY <1>2, <1>5, <1>7, SlotParts DEF ServerChannel
  <1>9. failed' = FALSE  BY <1>1, <1>8
  <1>10. drawn' \in [key : Key, image : {"whole", "lost", "garbage"}] \cup {Null}
    BY <1>1, <1>2, <1>9, ExpandedTyped
  <1>11. Typed  BY <1>1, <1>10 DEF TypeOK, Typed
  <1> HIDE DEF slot
  <1>12. /\ b.resource = a.resource /\ b.commits = a.commits /\ b.store = a.store
         /\ b.held = a.held \cup Added(m) /\ b.ready = a.ready \cup Added(m)
    BY <1>1, <1>4 DEF ReadsImage
  <1>13. CASE m.action = "added"
    <2>1. Added(m) = {k} /\ ~ hit  BY <1>13 DEF Added
    <2>2. cache \in [Key -> Slot \cup {Null}]
          /\ \A q \in Key : cache[q] = IF q = k THEN slot ELSE server.cache[q]
      BY <1>2, <1>5, <1>8 DEF ServerChannel, cache
    <2>3. /\ server' \in ServerChannel /\ server'.resource = server.resource
          /\ server'.store = server.store /\ server'.commits = server.commits
          /\ server'.cache = cache
      BY <1>1, <1>5, <1>13, <2>2 DEF ServerChannel
    <2>4. \A q \in Key : /\ server'.cache[q] # Null <=> server.cache[q] # Null \/ q = k
                         /\ server'.cache[q] # Null /\ ~ server'.cache[q].locked
                               <=> (server.cache[q] # Null /\ ~ server.cache[q].locked) \/ q = k
      BY <1>8, <2>1, <2>2, <2>3
    <2>5. /\ b.held = {q \in Key : server'.cache[q] # Null}
          /\ b.ready = {q \in Key : server'.cache[q] # Null /\ ~ server'.cache[q].locked}
      BY <1>2, <1>3, <1>12, <2>1, <2>4 DEF IsShape
    <2>6. IsShape(server', b)  BY <1>3, <1>12, <2>3, <2>5 DEF IsShape
    <2>7. QED  BY <1>9, <1>11, <2>3, <2>6, ShapeIs DEF Follows
  <1>14. CASE m.action # "added"
    <2>1. server' = server /\ Added(m) = {}  BY <1>1, <1>14 DEF Added
    <2>2. IsShape(server', b)  BY <1>3, <1>12, <2>1 DEF IsShape
    <2>3. QED  BY <1>5, <1>9, <1>11, <2>1, <2>2, ShapeIs DEF Follows
  <1>15. QED  BY <1>13, <1>14

(* What the server's side finds on disk does not show. *)
LEMMA LoadedParts ==
    ASSUME NEW s \in Split, NEW file \in File \cup {Null}
    PROVE  /\ LoadedFrom(s, file) \in Split
           /\ Outline(LoadedFrom(s, file)) = Outline(s)
           /\ FileAfterLoad(s, file) \in File \cup {Null}
           /\ Report(LoadedFrom(s, file))
                 \in [resource : Resource, key : Key, loaded : BOOLEAN, csize : Format]
  <1> DEFINE t == LoadedFrom(s, file)
  <1>1. t \in Split /\ Outline(t) = Outline(s)
    <2>1. CASE ~ Loadable(s, file)
      <3>1. t = [s EXCEPT !.state = "missed"]  BY <2>1 DEF LoadedFrom
      <3>2. QED  BY <3>1 DEF Split, State, Outline
    <2>2. CASE Loadable(s, file)
      <3> DEFINE data == IF file.whole THEN file.data ELSE "dummy"
                 state == IF file.whole THEN "loaded" ELSE "missed"
      <3>1. file \in File  BY <2>2 DEF Loadable
      <3>2. file.csize \in Format /\ data \in Data /\ state \in State
        BY <3>1 DEF File, Data, State
      <3>3. t = [s EXCEPT !.csize = file.csize, !.data = data, !.state = state]
        BY <2>2 DEF LoadedFrom
      <3> HIDE DEF data, state, t
      <3>4. QED  BY <3>2, <3>3 DEF Split, Outline
    <2>3. QED  BY <2>1, <2>2
  <1>2. FileAfterLoad(s, file) \in File \cup {Null}  BY DEF FileAfterLoad
  <1> HIDE DEF t
  <1>3. Report(t) \in [resource : Resource, key : Key, loaded : BOOLEAN, csize : Format]
    BY <1>1 DEF Report, Split
  <1>4. QED  BY <1>1, <1>2, <1>3 DEF t

Asking(r, k, action) == [NewSplit(r, k, action, "async") EXCEPT !.load = Load]

SplitRead(r, k, action) ==
    CASE action = "hit" -> [NewSplit(r, k, action, "async") EXCEPT
                               !.state = "loaded", !.data = HitData(k)]
      [] action # "hit" /\ ~ Checksums ->
             [NewSplit(r, k, action, "async") EXCEPT !.state = "missed"]
      [] action # "hit" /\ Checksums -> LoadedFrom(Asking(r, k, action), disk[k])

(* The split that the X server's side makes of an image. *)
LEMMA SplitReadParts ==
    ASSUME TypeOK, NEW r \in Resource, NEW k \in Key, NEW action \in Action
    PROVE  /\ SplitRead(r, k, action) \in Split
           /\ Outline(SplitRead(r, k, action)) = Outline(NewSplit(r, k, action, "async"))
           /\ FileAfterLoad(Asking(r, k, action), disk[k]) \in File \cup {Null}
           /\ Checksums /\ action # "hit" => Report(SplitRead(r, k, action))
                 \in [resource : Resource, key : Key, loaded : BOOLEAN, csize : Format]
  <1> DEFINE new == NewSplit(r, k, action, "async")
             asked == Asking(r, k, action)
             s == SplitRead(r, k, action)
  <1>1. new \in Split
    <2>1. 0 \in 0 .. Chunks  BY SizesAssumption
    <2>2. QED  BY <2>1 DEF NewSplit, Split, State, Format, Data
  <1>2. asked = [new EXCEPT !.load = Load]  BY DEF Asking
  <1> HIDE DEF new, asked
  <1>3. asked \in Split /\ Outline(asked) = Outline(new)
    BY <1>1, <1>2, FlagsAssumption DEF Split, Outline
  <1>4. disk[k] \in File \cup {Null}  BY ServerSided
  <1>5. /\ LoadedFrom(asked, disk[k]) \in Split
        /\ Outline(LoadedFrom(asked, disk[k])) = Outline(asked)
        /\ FileAfterLoad(asked, disk[k]) \in File \cup {Null}
        /\ Report(LoadedFrom(asked, disk[k]))
                 \in [resource : Resource, key : Key, loaded : BOOLEAN, csize : Format]
    BY <1>3, <1>4, LoadedParts
  <1>6. CASE action = "hit"
    <2>1. s = [new EXCEPT !.state = "loaded", !.data = HitData(k)]  BY <1>6 DEF SplitRead, new
    <2>2. HitData(k) \in Data  BY DEF HitData, Data, Format
    <2>3. s \in Split /\ Outline(s) = Outline(new)
      BY <1>1, <2>1, <2>2 DEF Split, State, Outline
    <2>4. QED  BY <1>5, <1>6, <2>3 DEF asked, new
  <1>7. CASE action # "hit" /\ ~ Checksums
    <2>1. s = [new EXCEPT !.state = "missed"]  BY <1>7 DEF SplitRead, new
    <2>2. s \in Split /\ Outline(s) = Outline(new)
      BY <1>1, <2>1 DEF Split, State, Outline
    <2>3. QED  BY <1>5, <1>7, <2>2 DEF asked, new
  <1>8. CASE action # "hit" /\ Checksums
    <2>1. s = LoadedFrom(asked, disk[k])  BY <1>8 DEF SplitRead, asked
    <2>2. QED  BY <1>3, <1>5, <2>1 DEF asked, new
  <1>9. QED  BY <1>6, <1>7, <1>8

(* Reading an image that is split: what is on disk is reported. *)
LEMMA ServerSplitFits ==
    ASSUME TypeOK, NEW seen \in SUBSET Pairs, NEW known, NEW a, a = Shape(server, seen),
           NEW b \in Shapes, Reads(a, Head(toServer), b, known), ~ failed, ServerSplit
    PROVE  Follows(b) /\ Typed
  <1> DEFINE m == Head(toServer)
             k == m.key
             action == m.action
             r == server.resource
             hit == action = "hit"
             s == SplitRead(r, k, action)
             new == NewSplit(r, k, action, "async")
             store == [server.store EXCEPT ![r] = Append(server.store[r], s)]
             cache == [server.cache EXCEPT ![k] = IF action = "added" THEN LockedSlot
                                                  ELSE server.cache[k]]
             file == FileAfterLoad(Asking(r, k, action), disk[k])
  <1>1. /\ toServer # <<>> /\ m.type = "image" /\ m.split
        /\ failed' = (r = nothing \/ (hit /\ server.cache[k] = Null))
        /\ drawn' = drawn
        /\ failed' = FALSE =>
              /\ server' = [server EXCEPT !.store = store, !.cache = cache]
              /\ disk' = IF ~ hit /\ Checksums THEN [disk EXCEPT ![k] = file] ELSE disk
              /\ toClient' = IF ~ hit /\ Checksums THEN Append(toClient, Report(s)) ELSE toClient
    BY DEF ServerSplit, Received, SplitRead, Asking
  <1>2. k \in Key /\ action \in Action  BY <1>1, HeadParts
  <1>3. IsShape(server, a) /\ a.store \in [Resource -> Seq(Outlines)]  BY BeforeParts
  <1>4. ReadsImage(a, m, b)  BY <1>1, ReadsByType
  <1>5. server \in ServerChannel  BY ServerSided
  <1> HIDE DEF m, cache, store, file
  <1>6. a.resource = r  BY <1>3 DEF IsShape
  <1>7. r \in Resource /\ r # nothing
    <2>1. r \in Resource  BY <1>4, <1>6 DEF ReadsImage, Fresh
    <2>2. QED  BY <2>1, NullAssumption DEF nothing
  <1>8. hit => server.cache[k] # Null
    <2>1. hit => k \in a.ready  BY <1>4 DEF ReadsImage, Fresh
    <2>2. QED  BY <1>3, <2>1 DEF IsShape
  <1>9. failed' = FALSE  BY <1>1, <1>7, <1>8
  <1>10. /\ s \in Split /\ Outline(s) = Outline(new)
         /\ file \in File \cup {Null}
         /\ Checksums /\ ~ hit => Report(s)
                 \in [resource : Resource, key : Key, loaded : BOOLEAN, csize : Format]
    BY <1>2, <1>7, SplitReadParts DEF file
  <1> HIDE DEF r, s
  <1>11. Typed
    <2> DEFINE looks == ~ hit /\ Checksums
               Reports == [resource : Resource, key : Key, loaded : BOOLEAN, csize : Format]
    <2>0. /\ disk \in [Key -> File \cup {Null}] /\ toClient \in Seq(Reports)
          /\ looks => Report(s) \in Reports
          /\ disk' = IF looks THEN [disk EXCEPT ![k] = file] ELSE disk
          /\ toClient' = IF looks THEN Append(toClient, Report(s)) ELSE toClient
      BY <1>1, <1>9, <1>10 DEF TypeOK
    <2> HIDE DEF looks, Reports, k
    <2>1. disk' \in [Key -> File \cup {Null}]
      <3>1. CASE looks
        <4>1. disk' = [disk EXCEPT ![k] = file]  BY <2>0, <3>1
        <4>2. QED  BY <1>10, <2>0, <4>1
      <3>2. CASE ~ looks  BY <2>0, <3>2
      <3>3. QED  BY <3>1, <3>2
    <2>2. toClient' \in Seq(Reports)
      <3>1. CASE looks
        <4>1. toClient' = Append(toClient, Report(s))  BY <2>0, <3>1
        <4>2. QED  BY <2>0, <3>1, <4>1
      <3>2. CASE ~ looks  BY <2>0, <3>2
      <3>3. QED  BY <3>1, <3>2
    <2>3. QED  BY <1>1, <2>1, <2>2 DEF TypeOK, Typed, Reports
  <1>12. server.store[r] \in Seq(Split) /\ Append(server.store[r], s) \in Seq(Split)
    BY <1>5, <1>7, <1>10 DEF ServerChannel
  <1>13. /\ store \in [Resource -> Seq(Split)]
         /\ \A q \in Resource : store[q] = IF q = r THEN Append(server.store[r], s)
                                           ELSE server.store[q]
    BY <1>5, <1>7, <1>12 DEF ServerChannel, store
  <1>14. /\ cache \in [Key -> Slot \cup {Null}]
         /\ \A q \in Key : cache[q] = IF action = "added" /\ q = k THEN LockedSlot
                                      ELSE server.cache[q]
    BY <1>2, <1>5, SlotParts DEF ServerChannel, cache
  <1>15. /\ server' \in ServerChannel /\ server'.resource = server.resource
         /\ server'.store = store /\ server'.commits = server.commits /\ server'.cache = cache
    BY <1>1, <1>5, <1>9, <1>13, <1>14 DEF ServerChannel
  <1>16. /\ b.resource = a.resource /\ b.commits = a.commits
         /\ b.store = [a.store EXCEPT ![r] = Append(@, Outline(new))]
         /\ b.held = a.held \cup Added(m) /\ b.ready = a.ready
    BY <1>1, <1>4, <1>6 DEF ReadsImage, r
  <1> HIDE DEF new
  <1>17. \A q \in Resource : b.store[q] = Skeleton(server'.store[q])
    <2> SUFFICES ASSUME NEW q \in Resource  PROVE b.store[q] = Skeleton(store[q])
      BY <1>15
    <2>1. b.store[q] = IF q = r THEN Append(a.store[r], Outline(new)) ELSE a.store[q]
      BY <1>3, <1>7, <1>16
    <2>2. a.store[q] = Skeleton(server.store[q]) /\ a.store[r] = Skeleton(server.store[r])
      BY <1>3, <1>7 DEF IsShape
    <2>3. Skeleton(Append(server.store[r], s)) = Append(Skeleton(server.store[r]), Outline(new))
      BY <1>10, <1>12, SkeletonAppend
    <2>4. QED  BY <1>13, <2>1, <2>2, <2>3
  <1>18. /\ b.held = {q \in Key : server'.cache[q] # Null}
         /\ b.ready = {q \in Key : server'.cache[q] # Null /\ ~ server'.cache[q].locked}
    <2>1. \A q \in Key : server'.cache[q] # Null
                           <=> server.cache[q] # Null \/ (action = "added" /\ q = k)
      BY <1>14, <1>15, SlotParts
    <2>2. action = "added" => k \notin a.held  BY <1>4 DEF ReadsImage, Fresh
    <2>3. action = "added" => server.cache[k] = Null  BY <1>2, <1>3, <2>2 DEF IsShape
    <2>4. \A q \in Key : server'.cache[q] # Null /\ ~ server'.cache[q].locked
                           <=> server.cache[q] # Null /\ ~ server.cache[q].locked
      BY <1>2, <1>14, <1>15, <2>3, SlotParts
    <2>5. \A q : q \in Added(m) <=> action = "added" /\ q = k  BY DEF Added
    <2> HIDE DEF action, k
    <2>6. \A q \in Key : q \in b.held <=> server'.cache[q] # Null
      BY <1>3, <1>16, <2>1, <2>5 DEF IsShape
    <2>7. \A q \in Key : q \in b.ready <=> server'.cache[q] # Null /\ ~ server'.cache[q].locked
      BY <1>3, <1>16, <2>4 DEF IsShape
    <2>8. b.held \subseteq Key /\ b.ready \subseteq Key  BY DEF Shapes
    <2>9. QED  BY <2>6, <2>7, <2>8
  <1>19. IsShape(server', b)  BY <1>3, <1>15, <1>16, <1>17, <1>18 DEF IsShape
  <1>20. QED  BY <1>9, <1>11, <1>15, <1>19, ShapeIs DEF Follows

DataParts(m) ==
    /\ m.start \in BOOLEAN /\ m.format \in Format /\ m.abort \in BOOLEAN
    /\ m.count \in 0 .. Chunks

(* A split after a packet of it was read. *)
LEMMA ReceiveParts ==
    ASSUME NEW s \in Split, NEW m, DataParts(m), s.started # m.start,
           Got(Outline(s), m).next <= Chunks
    PROVE  /\ Receive(s, m) \in Split
           /\ Outline(Receive(s, m)) = Got(Outline(s), m)
           /\ Receive(s, m).next = Got(Outline(s), m).next
           /\ Receive(s, m).next \in 0 .. Chunks
  <1> DEFINE t == Started(s, m)
             u == Receive(s, m)
             next == IF m.abort THEN Chunks ELSE s.next + m.count
  <1>1. /\ m.start \in BOOLEAN /\ m.format \in Format /\ m.abort \in BOOLEAN
        /\ m.count \in 0 .. Chunks
    BY DEF DataParts
  <1>2. /\ t \in Split /\ t.resource = s.resource /\ t.key = s.key /\ t.action = s.action
        /\ t.next = s.next /\ t.started = TRUE
    <2>1. CASE ~ m.start  BY <1>1, <2>1 DEF Started, Split
    <2>2. CASE m.start /\ s.state = "loaded"
      <3>1. t = [s EXCEPT !.started = TRUE]  BY <2>2 DEF Started
      <3>2. QED  BY <3>1 DEF Split
    <2>3. CASE m.start /\ s.state # "loaded"
      <3> DEFINE csize == IF m.format = "plain" THEN s.csize ELSE m.format
      <3>1. t = [s EXCEPT !.started = TRUE, !.data = "dummy", !.format = m.format,
                          !.csize = csize]
        BY <2>3 DEF Started
      <3>2. csize \in Format /\ "dummy" \in Data  BY <1>1 DEF Split, Data
      <3> HIDE DEF csize
      <3>3. QED  BY <1>1, <3>1, <3>2 DEF Split
    <2>4. QED  BY <2>1, <2>2, <2>3
  <1>3. Got(Outline(s), m) = [resource |-> s.resource, key |-> s.key, action |-> s.action,
                              next |-> next, started |-> TRUE]
    BY DEF Got, Outline
  <1>4. s.next \in 0 .. Chunks  BY DEF Split
  <1>5. next \in 0 .. Chunks
    <2>1. next <= Chunks  BY <1>3
    <2>2. QED  BY <1>1, <1>4, <2>1, SizesAssumption
  <1> HIDE DEF t, next
  <1> DEFINE state == IF m.abort THEN "aborted" ELSE t.state
             data == IF ~ m.abort /\ t.state # "loaded" /\ next = Chunks THEN t.format
                     ELSE t.data
  <1>6. state \in State /\ data \in Data  BY <1>2 DEF Split, State, Data
  <1>7. u = [t EXCEPT !.next = next, !.state = state, !.data = data]
    <2>1. (IF m.abort THEN Chunks ELSE t.next + m.count) = next  BY <1>2 DEF next
    <2> DEFINE p == IF m.abort THEN Chunks ELSE t.next + m.count
    <2>2. u = [t EXCEPT !.next = p,
                        !.state = IF m.abort THEN "aborted" ELSE @,
                        !.data = IF ~ m.abort /\ t.state # "loaded" /\ p = Chunks
                                 THEN t.format ELSE @]
      BY DEF Receive, t
    <2>3. p = next  BY <2>1
    <2> HIDE DEF p, u
    <2>4. QED  BY <2>2, <2>3
  <1> HIDE DEF u, state, data
  <1>8. /\ u \in Split /\ u.next = next /\ u.resource = s.resource /\ u.key = s.key
        /\ u.action = s.action /\ u.started = TRUE
    BY <1>2, <1>5, <1>6, <1>7 DEF Split
  <1>9. Outline(u) = [resource |-> s.resource, key |-> s.key, action |-> s.action,
                      next |-> next, started |-> TRUE]
    BY <1>8 DEF Outline
  <1> DEFINE got == Got(Outline(s), m)
  <1>10. got.next = next /\ Outline(u) = got  BY <1>3, <1>9
  <1> HIDE DEF got
  <1>11. QED  BY <1>5, <1>8, <1>10 DEF u, got

(* A change of the first split that does not show. *)
LEMMA FirstReplaced ==
    ASSUME NEW s \in Seq(Split), s # <<>>, NEW x \in Split, Outline(x) = Outline(Head(s))
    PROVE  /\ <<x>> \o Tail(s) \in Seq(Split)
           /\ Skeleton(<<x>> \o Tail(s)) = Skeleton(s)
  <1> DEFINE t == <<x>> \o Tail(s)
             n == Len(s)
             rest == Tail(s)
  <1>1. n \in Nat \ {0} /\ rest \in Seq(Split) /\ Len(rest) = n - 1 /\ Head(s) = s[1]
        /\ \A i \in 1 .. n - 1 : rest[i] = s[i + 1]
    BY EmptySeq, HeadTailProperties
  <1>2. <<x>> \in Seq(Split) /\ Len(<<x>>) = 1 /\ <<x>>[1] = x  OBVIOUS
  <1> DEFINE one == <<x>>
  <1> HIDE DEF rest, one
  <1>3. /\ one \o rest \in Seq(Split) /\ Len(one \o rest) = 1 + (n - 1)
        /\ \A i \in 1 .. 1 + (n - 1) : (one \o rest)[i] = IF i <= 1 THEN one[i] ELSE rest[i - 1]
    BY <1>1, <1>2, ConcatProperties DEF one
  <1>4. t = one \o rest  BY DEF one, rest
  <1> HIDE DEF t, n
  <1>5. t \in Seq(Split) /\ Len(t) = n  BY <1>1, <1>3, <1>4
  <1>6. \A i \in 1 .. n : Outline(t[i]) = Outline(s[i])
    <2> SUFFICES ASSUME NEW i \in 1 .. n  PROVE Outline(t[i]) = Outline(s[i])
      OBVIOUS
    <2>1. CASE i = 1
      <3>1. t[i] = x  BY <1>1, <1>2, <1>3, <1>4, <2>1 DEF one
      <3>2. QED  BY <1>1, <2>1, <3>1
    <2>2. CASE i # 1
      <3>1. i \in 1 .. 1 + (n - 1) /\ i - 1 \in 1 .. n - 1 /\ ~ (i <= 1) /\ (i - 1) + 1 = i
        BY <1>1, <2>2
      <3>2. t[i] = rest[i - 1]  BY <1>3, <1>4, <3>1
      <3>3. rest[i - 1] = s[i]  BY <1>1, <3>1
      <3>4. QED  BY <3>2, <3>3
    <2>3. QED  BY <2>1, <2>2
  <1>7. Skeleton(t) = Skeleton(s)  BY <1>5, <1>6, SkeletonSame DEF n
  <1>8. QED  BY <1>5, <1>7 DEF t

(* What a complete split leaves on disk. *)
LEMMA SavedParts ==
    ASSUME TypeOK, NEW s \in Split, NEW file,
           file \in IF Saves(s) THEN SavedFiles(s) ELSE {disk[s.key]}
    PROVE  file \in File \cup {Null} /\ s.key \in Key
  <1>1. s.key \in Key /\ s.csize \in Format /\ s.data \in Data  BY DEF Split
  <1>2. SavedFile(s) \in File  BY <1>1 DEF SavedFile, File
  <1>3. disk[s.key] \in File \cup {Null}  BY <1>1, ServerSided
  <1>4. QED  BY <1>1, <1>2, <1>3 DEF SavedFiles

ReportsTyped(reports) ==
    reports \in Seq([resource : Resource, key : Key, loaded : BOOLEAN, csize : Format])

(* What is left of a store when its first split is complete: the next one may
   be read from disk by now, which does not show.                            *)
LEMMA CompletesParts ==
    ASSUME TypeOK, NEW r \in Resource, server.store[r] # <<>>, NEW s \in Split, NEW file,
           file \in IF Saves(s) THEN SavedFiles(s) ELSE {disk[s.key]},
           ServerCompletes(r, s, file)
    PROVE  /\ \E rest \in Seq(Split) :
                 /\ Skeleton(rest) = Tail(Skeleton(server.store[r]))
                 /\ server' = [server EXCEPT !.commits = Append(server.commits, s),
                                             !.store = [server.store EXCEPT ![r] = rest]]
           /\ disk' \in [Key -> File \cup {Null}]
           /\ ReportsTyped(toClient')
  <1> DEFINE files == [disk EXCEPT ![s.key] = file]
             rest == Tail(server.store[r])
             again == Retried(rest)
             k == Head(rest).key
             head == LoadedFrom(Head(rest), files[k])
             left == IF again THEN <<head>> \o Tail(rest) ELSE rest
             last == FileAfterLoad(Head(rest), files[k])
  <1>1. /\ server' = [server EXCEPT !.commits = Append(server.commits, s),
                                    !.store = [server.store EXCEPT ![r] = left]]
        /\ disk' = IF again THEN [files EXCEPT ![k] = last] ELSE files
        /\ toClient' = IF again /\ head.state = "loaded" THEN Append(toClient, Report(head))
                       ELSE toClient
    BY DEF ServerCompletes
  <1>2. file \in File \cup {Null} /\ s.key \in Key  BY SavedParts
  <1>3. files \in [Key -> File \cup {Null}]  BY <1>2 DEF TypeOK
  <1>4. rest \in Seq(Split) /\ Skeleton(rest) = Tail(Skeleton(server.store[r]))
    BY ServerSided, SkeletonTail
  <1>5. ReportsTyped(toClient)  BY DEF TypeOK, ReportsTyped
  <1> HIDE DEF files, rest
  <1>6. CASE again
    <2>1. rest # <<>>  BY <1>6 DEF Retried
    <2>2. Head(rest) \in Split  BY <1>4, <2>1, SkeletonTail
    <2>3. k \in Key  BY <2>2 DEF Split
    <2>4. files[k] \in File \cup {Null}  BY <1>3, <2>3
    <2> DEFINE h == Head(rest)
               was == files[k]
    <2>5. h \in Split /\ was \in File \cup {Null}  BY <2>2, <2>4
    <2>6. head = LoadedFrom(h, was) /\ last = FileAfterLoad(h, was)  OBVIOUS
    <2> HIDE DEF h, was, k, head, last
    <2>7. /\ head \in Split /\ Outline(head) = Outline(h)
          /\ last \in File \cup {Null}
          /\ Report(head) \in [resource : Resource, key : Key, loaded : BOOLEAN, csize : Format]
      BY <2>5, <2>6, LoadedParts
    <2>8. Outline(head) = Outline(Head(rest))  BY <2>7 DEF h
    <2>9. left \in Seq(Split) /\ Skeleton(left) = Skeleton(rest)
      BY <1>4, <1>6, <2>1, <2>7, <2>8, FirstReplaced
    <2>10. disk' \in [Key -> File \cup {Null}]  BY <1>1, <1>3, <1>6, <2>3, <2>7
    <2>11. ReportsTyped(toClient')
      <3>1. CASE head.state = "loaded"
        <4>1. toClient' = Append(toClient, Report(head))  BY <1>1, <1>6, <3>1
        <4>2. QED  BY <1>5, <2>7, <4>1 DEF ReportsTyped
      <3>2. CASE head.state # "loaded"  BY <1>1, <1>5, <3>2
      <3>3. QED  BY <3>1, <3>2
    <2> HIDE DEF left
    <2>12. QED  BY <1>1, <1>4, <2>9, <2>10, <2>11
  <1>7. CASE ~ again
    <2>1. left = rest /\ disk' = files /\ toClient' = toClient  BY <1>1, <1>7
    <2> HIDE DEF left
    <2>2. QED  BY <1>1, <1>3, <1>4, <1>5, <2>1
  <1>8. QED  BY <1>6, <1>7

(* Reading a packet of a split, the last one included. *)
LEMMA ServerDataFits ==
    ASSUME TypeOK, NEW seen \in SUBSET Pairs, NEW known, NEW a, a = Shape(server, seen),
           NEW b \in Shapes, Reads(a, Head(toServer), b, known), ~ failed, ServerData
    PROVE  Follows(b) /\ Typed
  <1> DEFINE m == Head(toServer)
             r == m.resource
             s == Head(server.store[r])
             part == Receive(s, m)
             got == Got(Outline(s), m)
  <1>1. /\ toServer # <<>> /\ m.type = "data" /\ drawn' = drawn
        /\ failed' = (server.store[r] = <<>> \/ s.started = m.start \/ part.next > Chunks)
        /\ failed' = FALSE =>
              IF part.next # Chunks
              THEN /\ server' = [server EXCEPT !.store[r][1] = part]
                   /\ disk' = disk /\ toClient' = toClient
              ELSE \E file \in IF Saves(part) THEN SavedFiles(part) ELSE {disk[part.key]} :
                      ServerCompletes(r, part, file)
    BY DEF ServerData, Received
  <1>2. r \in Resource /\ DataParts(m)  BY <1>1, HeadParts DEF DataParts
  <1>3. IsShape(server, a) /\ a.store \in [Resource -> Seq(Outlines)]  BY BeforeParts
  <1>4. ReadsData(a, m, b, known)  BY <1>1, ReadsByType
  <1>5. server \in ServerChannel /\ server.store[r] \in Seq(Split)
        /\ server.commits \in Seq(Split) /\ server.store \in [Resource -> Seq(Split)]
    BY <1>2, ServerSided DEF ServerChannel
  <1> HIDE DEF m, r, s, got, part
  <1>6. a.store[r] = Skeleton(server.store[r]) /\ a.commits = Skeleton(server.commits)
    BY <1>2, <1>3 DEF IsShape
  <1>7. server.store[r] # <<>>
    <2>1. a.store[r] # <<>>  BY <1>4 DEF ReadsData, r
    <2>2. QED  BY <1>5, <1>6, <2>1, SkeletonParts
  <1>8. /\ s \in Split /\ Head(a.store[r]) = Outline(s)
        /\ Skeleton(Tail(server.store[r])) = Tail(a.store[r])
    BY <1>5, <1>6, <1>7, SkeletonTail DEF s
  <1>9. /\ s.started # m.start /\ got.next <= Chunks
        /\ b.resource = a.resource /\ b.held = a.held /\ b.ready = a.ready
        /\ b.store = [a.store EXCEPT ![r] =
                         IF got.next = Chunks THEN Tail(@) ELSE [@ EXCEPT ![1] = got]]
        /\ b.commits = IF got.next = Chunks THEN Append(a.commits, got) ELSE a.commits
    <2>1. Outline(s).started = s.started  BY <1>8, OutlineParts
    <2>2. Head(a.store[m.resource]) = Outline(s)  BY <1>8 DEF r
    <2>3. QED  BY <1>4, <2>1, <2>2 DEF ReadsData, r, got
  <1>10. /\ part \in Split /\ Outline(part) = got /\ part.next = got.next
         /\ part.next \in 0 .. Chunks
    <2>1. Got(Outline(s), m).next <= Chunks  BY <1>9 DEF got
    <2>2. QED  BY <1>2, <1>8, <1>9, <2>1, ReceiveParts DEF part, got
  <1>11. ~ (part.next > Chunks)  BY <1>10, SizesAssumption
  <1>12. failed' = FALSE  BY <1>1, <1>7, <1>9, <1>11
  <1>13. CASE part.next # Chunks
    <2> DEFINE t == server.store[r]
               new == [t EXCEPT ![1] = part]
               store == [server.store EXCEPT ![r] = new]
    <2>1. server' = [server EXCEPT !.store = store] /\ disk' = disk /\ toClient' = toClient
      BY <1>1, <1>12, <1>13
    <2>2. new \in Seq(Split) /\ Skeleton(new) = [Skeleton(t) EXCEPT ![1] = got]
      BY <1>5, <1>7, <1>10, SkeletonFirst
    <2> HIDE DEF new
    <2>3. store \in [Resource -> Seq(Split)]
          /\ \A q \in Resource : store[q] = IF q = r THEN new ELSE server.store[q]
      BY <1>2, <1>5, <2>2
    <2> HIDE DEF store
    <2>4. /\ server' \in ServerChannel /\ server'.resource = server.resource
          /\ server'.store = store /\ server'.commits = server.commits
          /\ server'.cache = server.cache
      BY <1>5, <2>1, <2>3 DEF ServerChannel
    <2>5. \A q \in Resource : b.store[q] = Skeleton(server'.store[q])
      <3> TAKE q \in Resource
      <3>1. b.store[q] = IF q = r THEN [a.store[r] EXCEPT ![1] = got] ELSE a.store[q]
        BY <1>2, <1>3, <1>9, <1>10, <1>13
      <3>2. a.store[q] = Skeleton(server.store[q])  BY <1>3 DEF IsShape
      <3>3. QED  BY <1>6, <2>2, <2>3, <2>4, <3>1, <3>2
    <2>6. b.commits = a.commits  BY <1>9, <1>10, <1>13
    <2>7. IsShape(server', b)  BY <1>3, <1>9, <2>4, <2>5, <2>6 DEF IsShape
    <2>8. Typed  BY <1>1, <2>1 DEF TypeOK, Typed
    <2>9. QED  BY <1>12, <2>4, <2>7, <2>8, ShapeIs DEF Follows
  <1>14. CASE part.next = Chunks
    <2>1. PICK file \in IF Saves(part) THEN SavedFiles(part) ELSE {disk[part.key]} :
                 ServerCompletes(r, part, file)
      BY <1>1, <1>12, <1>14
    <2>2. /\ \E rest \in Seq(Split) :
                 /\ Skeleton(rest) = Tail(Skeleton(server.store[r]))
                 /\ server' = [server EXCEPT !.commits = Append(server.commits, part),
                                             !.store = [server.store EXCEPT ![r] = rest]]
          /\ disk' \in [Key -> File \cup {Null}]
          /\ ReportsTyped(toClient')
      BY <1>2, <1>7, <1>10, <2>1, CompletesParts
    <2>3. PICK rest \in Seq(Split) :
                 /\ Skeleton(rest) = Tail(Skeleton(server.store[r]))
                 /\ server' = [server EXCEPT !.commits = Append(server.commits, part),
                                             !.store = [server.store EXCEPT ![r] = rest]]
      BY <2>2
    <2> DEFINE commits == Append(server.commits, part)
               store == [server.store EXCEPT ![r] = rest]
    <2>4. commits \in Seq(Split) /\ Skeleton(commits) = Append(a.commits, got)
      BY <1>5, <1>6, <1>10, SkeletonAppend
    <2>5. store \in [Resource -> Seq(Split)]
          /\ \A q \in Resource : store[q] = IF q = r THEN rest ELSE server.store[q]
      BY <1>2, <1>5
    <2>6. server' = [server EXCEPT !.commits = commits, !.store = store]  BY <2>3
    <2> HIDE DEF commits, store
    <2>7. /\ server' \in ServerChannel /\ server'.resource = server.resource
          /\ server'.store = store /\ server'.commits = commits
          /\ server'.cache = server.cache
      BY <1>5, <2>4, <2>5, <2>6 DEF ServerChannel
    <2>8. \A q \in Resource : b.store[q] = Skeleton(server'.store[q])
      <3> TAKE q \in Resource
      <3>1. b.store[q] = IF q = r THEN Tail(a.store[r]) ELSE a.store[q]
        BY <1>2, <1>3, <1>9, <1>10, <1>14
      <3>2. a.store[q] = Skeleton(server.store[q])  BY <1>3 DEF IsShape
      <3>3. QED  BY <1>6, <2>3, <2>5, <2>7, <3>1, <3>2
    <2>9. b.commits = Skeleton(commits)  BY <1>9, <1>10, <1>14, <2>4
    <2>10. IsShape(server', b)
      <3> DEFINE d == server'
      <3>1. d.cache = server.cache /\ d.resource = server.resource /\ d.commits = commits
            /\ d \in ServerChannel /\ \A q \in Resource : b.store[q] = Skeleton(d.store[q])
        BY <2>7, <2>8
      <3>2. /\ b.resource = server.resource
            /\ b.held = {q \in Key : server.cache[q] # Null}
            /\ b.ready = {q \in Key : server.cache[q] # Null /\ ~ server.cache[q].locked}
        BY <1>3, <1>9 DEF IsShape
      <3> HIDE DEF d
      <3>3. IsShape(d, b)  BY <2>9, <3>1, <3>2 DEF IsShape
      <3>4. QED  BY <3>3 DEF d
    <2>11. Typed  BY <1>1, <2>2 DEF TypeOK, Typed, ReportsTyped
    <2>12. QED  BY <1>12, <2>7, <2>10, <2>11, ShapeIs DEF Follows
  <1>15. QED  BY <1>13, <1>14

(* Reading an abort. *)
LEMMA ServerAbortFits ==
    ASSUME TypeOK, NEW seen \in SUBSET Pairs, NEW known, NEW a, a = Shape(server, seen),
           NEW b \in Shapes, Reads(a, Head(toServer), b, known), ~ failed, ServerAbort
    PROVE  Follows(b) /\ Typed
  <1> DEFINE m == Head(toServer)
             r == m.resource
             s == server.store[r]
             hits == HitsOf(s)
             cache == [k \in Key |-> IF k \in hits THEN Null ELSE server.cache[k]]
             store == [server.store EXCEPT ![r] = <<>>]
  <1>1. /\ toServer # <<>> /\ m.type = "abort" /\ drawn' = drawn /\ disk' = disk
        /\ toClient' = toClient
        /\ failed' = ~ CanRemove(server.cache, s)
        /\ server' = [server EXCEPT !.cache = cache, !.store = store]
    BY DEF ServerAbort, Received, Discarded
  <1>2. r \in Resource  BY <1>1, HeadParts
  <1>3. IsShape(server, a) /\ a.store \in [Resource -> Seq(Outlines)]  BY BeforeParts
  <1>4. ReadsAbort(a, m, b)  BY <1>1, ReadsByType
  <1>5. server \in ServerChannel /\ s \in Seq(Split)
        /\ server.store \in [Resource -> Seq(Split)] /\ server.cache \in [Key -> Slot \cup {Null}]
    BY <1>2, ServerSided DEF ServerChannel
  <1> HIDE DEF m, cache, store
  <1>6. a.store[r] = Skeleton(s) /\ a.held = {k \in Key : server.cache[k] # Null}
        /\ a.ready = {k \in Key : server.cache[k] # Null /\ ~ server.cache[k].locked}
    BY <1>2, <1>3 DEF IsShape
  <1>7. /\ Removable(a.held, a.store[r])
        /\ b.resource = a.resource /\ b.commits = a.commits
        /\ b.store = [a.store EXCEPT ![r] = <<>>]
        /\ b.held = a.held \ HitsOf(a.store[r])
        /\ b.ready = a.ready \ HitsOf(a.store[r])
    BY <1>4 DEF ReadsAbort
  <1> HIDE DEF r, s
  <1> DEFINE was == server.cache
  <1>8. HitsOf(Skeleton(s)) = HitsOf(s)
        /\ (Removable({k \in Key : was[k] # Null}, Skeleton(s)) => CanRemove(was, s))
    <2> HIDE DEF was
    <2>1. QED  BY <1>5, HitsOfSkeleton
  <1>9. failed' = FALSE  BY <1>1, <1>6, <1>7, <1>8
  <1>10. cache \in [Key -> Slot \cup {Null}]
         /\ \A k \in Key : cache[k] = IF k \in hits THEN Null ELSE server.cache[k]
    <2> HIDE DEF hits
    <2>1. QED  BY <1>5 DEF cache
  <1>11. store \in [Resource -> Seq(Split)]
         /\ \A q \in Resource : store[q] = IF q = r THEN <<>> ELSE server.store[q]
    <2>1. <<>> \in Seq(Split)  OBVIOUS
    <2>2. QED  BY <1>2, <1>5, <2>1 DEF store
  <1>12. /\ server' \in ServerChannel /\ server'.resource = server.resource
         /\ server'.store = store /\ server'.commits = server.commits /\ server'.cache = cache
    BY <1>1, <1>5, <1>10, <1>11 DEF ServerChannel
  <1>13. \A q \in Resource : b.store[q] = Skeleton(server'.store[q])
    <2> TAKE q \in Resource
    <2>1. b.store[q] = IF q = r THEN <<>> ELSE a.store[q]  BY <1>2, <1>3, <1>7
    <2>2. a.store[q] = Skeleton(server.store[q])  BY <1>3 DEF IsShape
    <2>3. Skeleton(<<>>) = <<>>
      <3>1. <<>> \in Seq(Split)  OBVIOUS
      <3>2. QED  BY <3>1, SkeletonParts
    <2>4. QED  BY <1>11, <1>12, <2>1, <2>2, <2>3
  <1>14. /\ b.held = {k \in Key : server'.cache[k] # Null}
         /\ b.ready = {k \in Key : server'.cache[k] # Null /\ ~ server'.cache[k].locked}
    <2>1. b.held = a.held \ hits /\ b.ready = a.ready \ hits  BY <1>6, <1>7, <1>8
    <2> HIDE DEF hits
    <2>2. QED  BY <1>6, <1>10, <1>12, <2>1
  <1>15. b.resource = server'.resource /\ b.commits = Skeleton(server'.commits)
    BY <1>3, <1>7, <1>12 DEF IsShape
  <1>16. IsShape(server', b)  BY <1>12, <1>13, <1>14, <1>15 DEF IsShape
  <1>17. Typed  BY <1>1 DEF TypeOK, Typed
  <1>18. QED  BY <1>9, <1>12, <1>16, <1>17, ShapeIs DEF Follows

(* Reading a commit. *)
LEMMA ServerCommitFits ==
    ASSUME TypeOK, NEW seen \in SUBSET Pairs, NEW known, NEW a, a = Shape(server, seen),
           NEW b \in Shapes, Reads(a, Head(toServer), b, known), ~ failed, ServerCommit
    PROVE  Follows(b) /\ Typed
  <1> DEFINE m == Head(toServer)
             all == server.commits
             s == Head(all)
             o == Outline(s)
             cache == CommitUpdate(server.cache, s)
             rest == Tail(all)
  <1>1. /\ toServer # <<>> /\ m.type = "commit" /\ disk' = disk /\ toClient' = toClient
        /\ failed' = ~ CanCommit(server, m.resource, m.position)
        /\ failed' = FALSE => server' = [server EXCEPT !.cache = cache, !.commits = rest]
        /\ drawn' = IF failed' \/ ~ m.commit THEN drawn
                    ELSE Expanded(s.key, s.data, s.csize)
    BY DEF ServerCommit, Received, Committed
  <1>2. IsShape(server, a)  BY BeforeParts
  <1>3. ReadsCommit(a, m, b)  BY <1>1, ReadsByType
  <1>4. server \in ServerChannel /\ all \in Seq(Split) /\ server.cache \in [Key -> Slot \cup {Null}]
    BY ServerSided DEF ServerChannel
  <1>5. a.commits = Skeleton(all) /\ a.held = {k \in Key : server.cache[k] # Null}
        /\ a.ready = {k \in Key : server.cache[k] # Null /\ ~ server.cache[k].locked}
        /\ a.resource = server.resource
    BY <1>2 DEF IsShape
  <1> HIDE DEF m, all
  <1>6. all # <<>>
    <2>1. a.commits # <<>>  BY <1>3 DEF ReadsCommit
    <2>2. QED  BY <1>4, <1>5, <2>1, SkeletonParts
  <1>7. s \in Split /\ Head(a.commits) = o /\ rest \in Seq(Split) /\ Skeleton(rest) = Tail(a.commits)
    BY <1>4, <1>5, <1>6, SkeletonTail
  <1> HIDE DEF s, rest
  <1>8. /\ o.action = s.action /\ o.key = s.key /\ o.resource = s.resource /\ s.key \in Key
        /\ Position(o) = Position(s)
    BY <1>7, OutlineParts DEF Position, Split
  <1> HIDE DEF o
  <1>9. /\ s.resource = m.resource /\ Position(s) = m.position
        /\ s.action = "added" => s.key \in a.held
        /\ b.resource = a.resource /\ b.store = a.store /\ b.commits = Tail(a.commits)
        /\ b.held = a.held /\ b.ready = a.ready \cup Added(o)
    BY <1>3, <1>7, <1>8 DEF ReadsCommit
  <1>10. s.action = "added" => server.cache[s.key] # Null  BY <1>5, <1>9
  <1>11. failed' = FALSE
    <2>1. CanCommit(server, m.resource, m.position)
      BY <1>6, <1>9, <1>10 DEF CanCommit, s, all
    <2>2. QED  BY <1>1, <2>1
  <1>12. /\ cache \in [Key -> Slot \cup {Null}]
         /\ \A k \in Key : /\ cache[k] = Null <=> server.cache[k] = Null
                           /\ cache[k] # Null =>
                                 (cache[k].locked <=>
                                    server.cache[k].locked /\ ~ (s.action = "added" /\ s.key = k))
    <2> DEFINE was == server.cache
    <2>1. was \in [Key -> Slot \cup {Null}]  BY <1>4
    <2> HIDE DEF was
    <2>2. CommitUpdate(was, s) \in [Key -> Slot \cup {Null}]
          /\ \A k \in Key : /\ CommitUpdate(was, s)[k] = Null <=> was[k] = Null
                            /\ CommitUpdate(was, s)[k] # Null =>
                                  (CommitUpdate(was, s)[k].locked
                                     <=> was[k].locked /\ ~ (s.action = "added" /\ s.key = k))
      BY <1>7, <2>1, UpdateParts
    <2>3. cache = CommitUpdate(was, s)  BY DEF was
    <2> HIDE DEF cache
    <2>4. QED  BY <2>2, <2>3 DEF was
  <1> HIDE DEF cache
  <1>13. /\ server' \in ServerChannel /\ server'.resource = server.resource
         /\ server'.store = server.store /\ server'.commits = rest /\ server'.cache = cache
    BY <1>1, <1>4, <1>7, <1>11, <1>12 DEF ServerChannel
  <1>14. \A k : k \in Added(o) <=> s.action = "added" /\ k = s.key
    BY <1>8 DEF Added
  <1>15. /\ b.held = {k \in Key : server'.cache[k] # Null}
         /\ b.ready = {k \in Key : server'.cache[k] # Null /\ ~ server'.cache[k].locked}
    <2>1. \A k \in Key : k \in b.held <=> server'.cache[k] # Null
      BY <1>5, <1>9, <1>12, <1>13
    <2>2. \A k \in Key : k \in b.ready <=> server'.cache[k] # Null /\ ~ server'.cache[k].locked
      BY <1>5, <1>9, <1>10, <1>12, <1>13, <1>14
    <2>3. b.held \subseteq Key /\ b.ready \subseteq Key  BY DEF Shapes
    <2>4. QED  BY <2>1, <2>2, <2>3
  <1>16. \A q \in Resource : b.store[q] = Skeleton(server'.store[q])
    BY <1>2, <1>9, <1>13 DEF IsShape
  <1>17. b.resource = server'.resource /\ b.commits = Skeleton(server'.commits)
    BY <1>5, <1>7, <1>9, <1>13
  <1>18. IsShape(server', b)  BY <1>13, <1>15, <1>16, <1>17 DEF IsShape
  <1>19. drawn' \in [key : Key, image : {"whole", "lost", "garbage"}] \cup {Null}
    BY <1>1, <1>8, ExpandedTyped DEF TypeOK
  <1>20. Typed  BY <1>1, <1>19 DEF TypeOK, Typed
  <1>21. QED  BY <1>11, <1>13, <1>18, <1>20, ShapeIs DEF Follows

-----------------------------------------------------------------------------
(* The invariant *)

(* What reading the link leads to, with the images that were read so far. *)
Agree ==
    \E seen \in SUBSET Pairs : \E a \in Shapes : a = Shape(server, seen) /\ Together(a, Pairs)

Inv ==
    /\ TypeOK
    /\ AtMostOneOpen(agent)
    /\ ~ failed => Agree
    /\ "abort" \notin May => ~ failed /\ CacheFit(client)

(* Every report is of an image of a resource. *)
LEMMA HeardOfAll ==
    ASSUME TypeOK
    PROVE  Heard(Pairs)
  <1> SUFFICES ASSUME NEW i \in DOMAIN toClient
               PROVE  <<toClient[i].resource, toClient[i].key>> \in Pairs
    BY DEF Heard
  <1> DEFINE Reports == [resource : Resource, key : Key, loaded : BOOLEAN, csize : Format]
  <1>0. toClient \in Seq(Reports)  BY DEF TypeOK
  <1>1. toClient[i] \in Reports
    <2> HIDE DEF Reports
    <2>1. QED  BY <1>0
  <1>2. QED  BY <1>1 DEF Pairs

(* The cache fits as long as the slots and the splits under way are the same. *)
LEMMA CacheFitSame ==
    ASSUME NEW c, NEW d, SameSlots(c.cache, d.cache),
           \A k \in Key : UnderWay(d, k) <=> UnderWay(c, k), CacheFit(c)
    PROVE  CacheFit(d)
  BY DEF SameSlots, CacheFit

(* A step of the agent's side reads the first report, or none. *)
Hears == toClient' = toClient \/ (toClient # <<>> /\ toClient' = Tail(toClient))

(* What remains to be said of a step of the agent's side. *)
Steps(a, known) ==
    /\ server' = server /\ disk' = disk /\ drawn' = drawn
    /\ Hears
    /\ agent' \in [Resource -> AgentStates] /\ AtMostOneOpen(agent')
    /\ sent' \in Seq(Pairs)
    /\ client' \in ClientChannel /\ toServer' \in Seq(Message) /\ events' \in Seq(Event)
    /\ failed' \in BOOLEAN
    /\ ~ failed' => Together(a, known)'
    /\ "abort" \notin May => ~ failed' /\ CacheFit(client')

(* The reports on their way, and the record of the agent. *)
LEMMA ReportsParts ==
    ASSUME TypeOK
    PROVE  /\ toClient \in Seq([resource : Resource, key : Key, loaded : BOOLEAN, csize : Format])
           /\ toClient # <<>> => Tail(toClient)
                 \in Seq([resource : Resource, key : Key, loaded : BOOLEAN, csize : Format])
           /\ agent \in [Resource -> AgentStates]
  <1> DEFINE Reports == [resource : Resource, key : Key, loaded : BOOLEAN, csize : Format]
  <1>1. toClient \in Seq(Reports)  BY DEF TypeOK
  <1>2. toClient # <<>> => Tail(toClient) \in Seq(Reports)
    <2> HIDE DEF Reports
    <2>1. QED  BY <1>1
  <1>3. agent \in [Resource -> AgentStates]  BY DEF TypeOK, AgentStates
  <1>4. QED  BY <1>1, <1>2, <1>3

(* A step of the agent's side that keeps the two in step keeps the
   invariant.                                                                *)
LEMMA StepsKeep ==
    ASSUME Inv, NEW seen \in SUBSET Pairs, NEW a \in Shapes, a = Shape(server, seen),
           Steps(a, Pairs)
    PROVE  Inv'
  <1>0. toClient' \in Seq([resource : Resource, key : Key, loaded : BOOLEAN, csize : Format])
    BY ReportsParts DEF Inv, Steps, Hears
  <1>1. TypeOK'  BY <1>0 DEF Inv, TypeOK, Steps, AgentStates, Pairs
  <1>2. ASSUME ~ failed'
        PROVE  Agree'
    <2>1. a = Shape(server', seen) /\ Together(a, Pairs)'  BY <1>2 DEF Steps
    <2>2. QED  BY <2>1 DEF Agree
  <1>3. AtMostOneOpen(agent)'  BY DEF Steps
  <1>4. "abort" \notin May => ~ failed' /\ CacheFit(client')  BY DEF Steps
  <1>5. QED  BY <1>1, <1>2, <1>3, <1>4 DEF Inv

(* The invariant holds when nothing was sent. *)
LEMMA InvInit ==
    ASSUME Init
    PROVE  Inv
  <1> DEFINE empty == [r \in Resource |-> <<>>]
             slots == [k \in Key |-> Null]
             mode == CHOOSE m \in Modes : TRUE
  <1>1. /\ client = [resource |-> nothing, mode |-> mode, list |-> <<>>, store |-> empty,
                     commits |-> <<>>, pending |-> FALSE, cache |-> slots]
        /\ server = [resource |-> nothing, store |-> empty, commits |-> <<>>, cache |-> slots]
        /\ toServer = <<>> /\ toClient = <<>> /\ events = <<>> /\ drawn = Null /\ sent = <<>>
        /\ agent = [r \in Resource |-> "free"] /\ failed = FALSE
        /\ disk \in [Key -> {Null} \cup OldFiles]
    BY DEF Init
  <1>2. mode \in Modes  BY ModesAssumption
  <1>3. /\ empty \in [Resource -> Seq(Split)] /\ slots \in [Key -> Slot \cup {Null}]
        /\ \A S : <<>> \in Seq(S)
    OBVIOUS
  <1>4. \A r \in Resource : empty[r] = <<>>  OBVIOUS
  <1>5. \A k \in Key : slots[k] = Null  OBVIOUS
  <1> HIDE DEF empty, slots, mode
  <1>6. client \in ClientChannel /\ server \in ServerChannel
    BY <1>1, <1>2, <1>3 DEF ClientChannel, ServerChannel
  <1>7. disk \in [Key -> File \cup {Null}]
    <2>0. \A whole \in BOOLEAN : OldFile(whole) \in File  BY DEF OldFile, File, Format, Data
    <2>1. OldFiles \subseteq File
      <3>1. OldFiles \subseteq {OldFile(TRUE), OldFile(FALSE)}  BY DEF OldFiles
      <3>2. QED  BY <2>0, <3>1
    <2>2. QED  BY <1>1, <2>1
  <1>8. TypeOK
    BY <1>1, <1>3, <1>6, <1>7 DEF TypeOK
  <1>9. AtMostOneOpen(agent)  BY <1>1 DEF AtMostOneOpen
  <1>10. \A k \in Key : ~ UnderWay(client, k)
    BY <1>1, <1>4 DEF UnderWay
  <1>11. CacheFit(client)  BY <1>1, <1>5, <1>10 DEF CacheFit
  <1>12. Agree
    <2> DEFINE a == Shape(server, {})
    <2>1. {} \in SUBSET Pairs /\ a \in Shapes
      <3>1. Sided(server)  BY <1>8, ServerSided
      <3>2. QED  BY <3>1, ShapeParts
    <2>2. Range(sent) = {}  BY <1>1 DEF Range
    <2>3. Shape(client, {}) = a
      BY <1>1 DEF Shape
    <2> HIDE DEF a
    <2>4. Leads(a, toServer, Shape(client, Range(sent)), Pairs)
      BY <1>1, <2>1, <2>2, <2>3, LeadsNowhere
    <2>5. StoresFit(client)
      BY <1>1, <1>4 DEF StoresFit, StoreFits, Listed
    <2>6. Told(client.commits, events)
      <3>1. ToldBy([i \in DOMAIN <<>> |-> 0], <<>>, <<>>)  BY DEF ToldBy
      <3>2. QED  BY <1>1, <3>1 DEF Told
    <2>7. Phases(client, events, agent)
      <3> SUFFICES ASSUME NEW r \in Resource  PROVE Phase(client, events, r, "free")
        BY <1>1 DEF Phases
      <3>1. client.resource # r  BY <1>1, NullAssumption DEF nothing
      <3>2. \A types : NoneOf(events, types, r)  BY <1>1 DEF NoneOf
      <3>3. client.store[r] = <<>>  BY <1>1, <1>4
      <3>4. QED  BY <3>1, <3>2, <3>3 DEF Phase
    <2>8. Knows(client, Pairs)  BY <1>1, <1>4 DEF Knows
    <2>9. Asked(client, agent)  BY <1>1 DEF Asked
    <2>10. toServer \in Seq(Message) /\ events \in Seq(Event)  BY <1>8 DEF TypeOK
    <2>11. Together(a, Pairs)
      BY <1>6, <2>4, <2>5, <2>6, <2>7, <2>8, <2>9, <2>10 DEF Together, Fits
    <2>12. QED  BY <2>1, <2>11 DEF Agree, a
  <1>13. QED  BY <1>1, <1>8, <1>9, <1>11, <1>12 DEF Inv

(* A request or event that keeps what the agent's side has of slots and splits. *)
Calm(a, known) ==
    /\ server' = server /\ disk' = disk /\ drawn' = drawn /\ failed' = failed
    /\ Hears
    /\ sent' = sent
    /\ agent' \in [Resource -> AgentStates] /\ AtMostOneOpen(agent')
    /\ Together(a, known)'
    /\ SameSlots(client.cache, client'.cache)
    /\ \A k \in Key : UnderWay(client', k) <=> UnderWay(client, k)

(* Such steps keep the two sides in step. *)
LEMMA CalmSteps ==
    ASSUME Inv, ~ failed, NEW a, NEW known, Calm(a, known)
    PROVE  Steps(a, known)
  <1>1. client' \in ClientChannel /\ toServer' \in Seq(Message) /\ events' \in Seq(Event)
    BY DEF Calm, Together, Fits
  <1>2. "abort" \notin May => CacheFit(client')
    <2>1. CASE "abort" \notin May
      <3>1. CacheFit(client)  BY <2>1 DEF Inv
      <3>2. SameSlots(client.cache, client'.cache)
            /\ \A k \in Key : UnderWay(client', k) <=> UnderWay(client, k)
        BY DEF Calm
      <3> DEFINE c == client
                 d == client'
      <3>3. CacheFit(c) /\ SameSlots(c.cache, d.cache)
            /\ \A k \in Key : UnderWay(d, k) <=> UnderWay(c, k)
        BY <3>1, <3>2
      <3> HIDE DEF c, d
      <3>4. CacheFit(d)  BY <3>3, CacheFitSame
      <3>5. QED  BY <3>4 DEF d
    <2>2. QED  BY <2>1
  <1>3. sent \in Seq(Pairs)  BY SentPairs DEF Inv
  <1>4. failed \in BOOLEAN  BY DEF Inv, TypeOK
  <1>5. QED  BY <1>1, <1>2, <1>3, <1>4 DEF Calm, Steps

(* A cache has the slots it has. *)
LEMMA SameSlotsSelf ==
    ASSUME NEW cache, NEW new, new = cache
    PROVE  SameSlots(cache, new)
  BY DEF SameSlots

(* The requests of the agent that open, close and finish a sequence. *)
LEMMA RequestsStep ==
    ASSUME Inv, ~ failed, NEW a, NEW known, Together(a, known), NEW r \in Resource,
           \/ \E mode \in Modes : StartSplit(r, mode)
           \/ EndSplit(r)
           \/ FinishSplit(r)
    PROVE  Steps(a, known)
  <1>1. TypeOK /\ AtMostOneOpen(agent)  BY DEF Inv
  <1>2. /\ toClient \in Seq([resource : Resource, key : Key, loaded : BOOLEAN, csize : Format])
        /\ agent \in [Resource -> AgentStates]
    BY <1>1, ReportsParts
  <1>3. ASSUME NEW mode \in Modes, StartSplit(r, mode)
        PROVE  Steps(a, known)
    <2>1. /\ Together(a, known)' /\ client'.cache = client.cache
          /\ \A k \in Key : UnderWay(client', k) <=> UnderWay(client, k)
      BY <1>1, <1>3, StartSplitFits
    <2>2. agent' = [agent EXCEPT ![r] = "open"]
          /\ \A q \in Resource : agent[q] \notin {"open", "waiting"}
      BY <1>3 DEF StartSplit, Idle
    <2>3. agent' \in [Resource -> AgentStates] /\ AtMostOneOpen(agent')
      BY <1>2, <2>2 DEF AgentStates, AtMostOneOpen
    <2>4. SameSlots(client.cache, client'.cache)  BY <2>1, SameSlotsSelf
    <2>5. Calm(a, known)  BY <1>2, <1>3, <2>1, <2>3, <2>4 DEF StartSplit, Calm, Hears
    <2>6. QED  BY <2>5, CalmSteps
  <1>4. ASSUME EndSplit(r)
        PROVE  Steps(a, known)
    <2>1. /\ Together(a, known)' /\ client'.cache = client.cache
          /\ \A k \in Key : UnderWay(client', k) <=> UnderWay(client, k)
      BY <1>1, <1>4, EndSplitFits
    <2>2. agent' = [agent EXCEPT ![r] = "waiting"] /\ agent[r] = "open"
      BY <1>4 DEF EndSplit
    <2>3. agent' \in [Resource -> AgentStates] /\ AtMostOneOpen(agent')
      BY <1>1, <1>2, <2>2 DEF AgentStates, AtMostOneOpen
    <2>4. SameSlots(client.cache, client'.cache)  BY <2>1, SameSlotsSelf
    <2>5. Calm(a, known)  BY <1>2, <1>4, <2>1, <2>3, <2>4 DEF EndSplit, Calm, Hears
    <2>6. QED  BY <2>5, CalmSteps
  <1>5. ASSUME FinishSplit(r)
        PROVE  Steps(a, known)
    <2>1. /\ Together(a, known)' /\ client'.cache = client.cache
          /\ \A k \in Key : UnderWay(client', k) <=> UnderWay(client, k)
      BY <1>1, <1>5, FinishSplitFits
    <2>2. SameSlots(client.cache, client'.cache)  BY <2>1, SameSlotsSelf
    <2>3. Calm(a, known)  BY <1>1, <1>2, <1>5, <2>1, <2>2 DEF FinishSplit, Calm, Hears
    <2>4. QED  BY <2>3, CalmSteps
  <1>6. QED  BY <1>3, <1>4, <1>5

(* The loops of the agent's proxy, and the events that tell nothing. *)
LEMMA ProxyStep ==
    ASSUME Inv, ~ failed, NEW a, NEW known, Together(a, known), Heard(known),
           HandleSplit \/ HandleSplitEvent \/ EmptySplitEvent
    PROVE  Steps(a, known)
  <1>1. TypeOK /\ AtMostOneOpen(agent)  BY DEF Inv
  <1>2. /\ toClient \in Seq([resource : Resource, key : Key, loaded : BOOLEAN, csize : Format])
        /\ toClient # <<>> => Tail(toClient)
                 \in Seq([resource : Resource, key : Key, loaded : BOOLEAN, csize : Format])
        /\ agent \in [Resource -> AgentStates]
    BY <1>1, ReportsParts
  <1>3. CASE HandleSplit
    <2>1. /\ Together(a, known)' /\ client'.cache = client.cache
          /\ \A k \in Key : UnderWay(client', k) <=> UnderWay(client, k)
      BY <1>1, <1>3, HandleSplitFits
    <2>2. SameSlots(client.cache, client'.cache)  BY <2>1, SameSlotsSelf
    <2>3. Calm(a, known)  BY <1>1, <1>2, <1>3, <2>1, <2>2 DEF HandleSplit, Calm, Hears
    <2>4. QED  BY <2>3, CalmSteps
  <1>4. CASE HandleSplitEvent
    <2>1. /\ Together(a, known)' /\ SameSlots(client.cache, client'.cache)
          /\ \A k \in Key : UnderWay(client', k) <=> UnderWay(client, k)
      BY <1>1, <1>4, HandleSplitEventFits
    <2>2. Calm(a, known)  BY <1>1, <1>2, <1>4, <2>1 DEF HandleSplitEvent, Calm, Hears
    <2>3. QED  BY <2>2, CalmSteps
  <1>5. CASE EmptySplitEvent
    <2>1. Together(a, known)' /\ client' = client
      BY <1>1, <1>5, EmptySplitEventFits
    <2>2. SameSlots(client.cache, client'.cache)  BY <2>1, SameSlotsSelf
    <2>3. \A k \in Key : UnderWay(client', k) <=> UnderWay(client, k)  BY <2>1
    <2>4. Calm(a, known)  BY <1>1, <1>2, <1>5, <2>1, <2>2, <2>3 DEF EmptySplitEvent, Calm, Hears
    <2>5. QED  BY <2>4, CalmSteps
  <1>6. QED  BY <1>3, <1>4, <1>5

(* The events that the agent waits for. *)
LEMMA EventsStep ==
    ASSUME Inv, ~ failed, NEW a, NEW known, Together(a, known),
           CommitSplitEvent \/ EndSplitEvent \/ \E r \in Resource : WaitSplitEvent(r)
    PROVE  Steps(a, known)
  <1>1. TypeOK /\ AtMostOneOpen(agent) /\ ("abort" \notin May => CacheFit(client))
    BY DEF Inv
  <1>2. /\ toClient \in Seq([resource : Resource, key : Key, loaded : BOOLEAN, csize : Format])
        /\ agent \in [Resource -> AgentStates] /\ sent \in Seq(Pairs)
    BY <1>1, ReportsParts, SentPairs
  <1>3. ASSUME Goes(a, known), agent' \in [Resource -> AgentStates], AtMostOneOpen(agent'),
               UNCHANGED <<server, disk, toClient, drawn, sent>>
        PROVE  Steps(a, known)
    BY <1>2, <1>3 DEF Goes, Steps, Hears
  <1>4. CASE CommitSplitEvent
    <2>1. Goes(a, known)  BY <1>1, <1>4, CommitSplitEventFits
    <2>2. QED  BY <1>1, <1>2, <1>3, <1>4, <2>1 DEF CommitSplitEvent
  <1>5. CASE EndSplitEvent
    <2>1. Goes(a, known)  BY <1>1, <1>5, EndSplitEventFits
    <2>2. agent' = agent \/ \E q : agent' = [agent EXCEPT ![q] = "free"]
      BY <1>5 DEF EndSplitEvent
    <2>3. agent' \in [Resource -> AgentStates] /\ AtMostOneOpen(agent')
      BY <1>1, <1>2, <2>2 DEF AgentStates, AtMostOneOpen
    <2>4. QED  BY <1>3, <1>5, <2>1, <2>3 DEF EndSplitEvent
  <1>6. ASSUME NEW r \in Resource, WaitSplitEvent(r)
        PROVE  Steps(a, known)
    <2>1. Goes(a, known)  BY <1>1, <1>6, WaitSplitEventFits
    <2>2. \E state \in {"split", "free"} : agent' = [agent EXCEPT ![r] = state]
      BY <1>6 DEF WaitSplitEvent
    <2>3. agent' \in [Resource -> AgentStates] /\ AtMostOneOpen(agent')
      BY <1>1, <1>2, <2>2 DEF AgentStates, AtMostOneOpen
    <2>4. QED  BY <1>3, <1>6, <2>1, <2>3 DEF WaitSplitEvent
  <1>7. QED  BY <1>4, <1>5, <1>6

(* The images of the agent, and its aborts. *)
LEMMA ImagesStep ==
    ASSUME Inv, ~ failed, NEW a, NEW known, Together(a, known), NEW r \in Resource,
           \/ AbortSplit(r)
           \/ \E k \in Key, action \in Action, small \in BOOLEAN : PutImage(r, k, action, small)
    PROVE  Steps(a, known)
  <1>1. TypeOK /\ AtMostOneOpen(agent) /\ ("abort" \notin May => CacheFit(client))
    BY DEF Inv
  <1>2. /\ toClient \in Seq([resource : Resource, key : Key, loaded : BOOLEAN, csize : Format])
        /\ agent \in [Resource -> AgentStates] /\ sent \in Seq(Pairs)
    BY <1>1, ReportsParts, SentPairs
  <1>3. CASE AbortSplit(r)
    <2>1. /\ client' \in ClientChannel /\ toServer' \in Seq(Message) /\ events' \in Seq(Event)
          /\ failed' \in BOOLEAN
          /\ ~ failed' => Together(a, known)'
      BY <1>1, <1>3, AbortSplitFits
    <2>2. /\ "abort" \in May /\ agent' = [agent EXCEPT ![r] = "released"]
          /\ UNCHANGED <<server, disk, toClient, drawn, sent>>
      BY <1>3 DEF AbortSplit
    <2>3. agent' \in [Resource -> AgentStates] /\ AtMostOneOpen(agent')
      BY <1>1, <1>2, <2>2 DEF AgentStates, AtMostOneOpen
    <2>4. QED  BY <1>2, <2>1, <2>2, <2>3 DEF Steps, Hears
  <1>4. ASSUME NEW k \in Key, NEW action \in Action, NEW small \in BOOLEAN,
               PutImage(r, k, action, small)
        PROVE  Steps(a, known)
    <2>1. /\ Together(a, known)' /\ client' \in ClientChannel
          /\ CacheFit(client) => CacheFit(client')
      BY <1>1, <1>4, PutImageFits
    <2>2. /\ sent' = Append(sent, <<r, k>>) /\ agent' = agent /\ failed' = failed
          /\ UNCHANGED <<server, disk, toClient, drawn>>
      BY <1>4 DEF PutImage
    <2>3. sent' \in Seq(Pairs)
      <3> DEFINE p == <<r, k>>
      <3>1. p \in Pairs  BY DEF Pairs
      <3> HIDE DEF p
      <3>2. Append(sent, p) \in Seq(Pairs)  BY <1>2, <3>1
      <3>3. QED  BY <2>2, <3>2 DEF p
    <2>4. toServer' \in Seq(Message) /\ events' \in Seq(Event)
      BY <2>1 DEF Together, Fits
    <2>5. failed \in BOOLEAN  BY <1>1 DEF TypeOK
    <2>6. QED  BY <1>1, <1>2, <2>1, <2>2, <2>3, <2>4, <2>5 DEF Steps, Hears
  <1>5. QED  BY <1>3, <1>4

(* The X server's side reads a request. *)
LEMMA ServerStep ==
    ASSUME Inv, ~ failed, Server
    PROVE  Inv'
  <1>1. TypeOK /\ AtMostOneOpen(agent) /\ ("abort" \notin May => CacheFit(client))
    BY DEF Inv
  <1>2. /\ toServer # <<>> /\ toServer' = Tail(toServer)
        /\ client' = client /\ events' = events /\ agent' = agent /\ sent' = sent
    BY DEF Server, ServerStartEnd, ServerImage, ServerSplit, ServerData, ServerAbort,
           ServerCommit, Received
  <1>3. PICK seen \in SUBSET Pairs, a \in Shapes : a = Shape(server, seen) /\ Together(a, Pairs)
    BY DEF Inv, Agree
  <1>4. /\ client \in ClientChannel /\ toServer \in Seq(Message) /\ events \in Seq(Event)
        /\ StoresFit(client) /\ Told(client.commits, events) /\ Phases(client, events, agent)
        /\ Knows(client, Pairs) /\ Leads(a, toServer, Shape(client, Range(sent)), Pairs)
        /\ Asked(client, agent)
    BY <1>3 DEF Together, Fits
  <1>5. PICK b \in Shapes : /\ Reads(a, Head(toServer), b, Pairs)
                            /\ Leads(b, Tail(toServer), Shape(client, Range(sent)), Pairs)
    <2> DEFINE c == Shape(client, Range(sent))
    <2>1. Leads(a, toServer, c, Pairs)  BY <1>4
    <2> HIDE DEF c
    <2>2. \E b \in Shapes : Reads(a, Head(toServer), b, Pairs) /\ Leads(b, Tail(toServer), c, Pairs)
      BY <1>2, <1>4, <2>1, LeadsFirst
    <2>3. QED  BY <2>2 DEF c
  <1>6. Follows(b) /\ Typed
    BY <1>1, <1>3, <1>5, ServerStartEndFits, ServerImageFits, ServerSplitFits, ServerDataFits,
       ServerAbortFits, ServerCommitFits DEF Server
  <1>7. toServer' \in Seq(Message)  BY <1>2, <1>4
  <1>8. Together(b, Pairs)'
    BY <1>2, <1>4, <1>5, <1>7 DEF Together, Fits
  <1>9. TypeOK'
    BY <1>1, <1>2, <1>6, <1>7 DEF TypeOK, Follows, Typed
  <1>10. Agree'
    <2>1. b.seen \in SUBSET Pairs  BY DEF Shapes
    <2>2. b = Shape(server', b.seen)  BY <1>6 DEF Follows
    <2>3. QED  BY <1>8, <2>1, <2>2 DEF Agree
  <1>11. ~ failed'  BY <1>6 DEF Follows
  <1>12. QED  BY <1>1, <1>2, <1>9, <1>10, <1>11 DEF Inv

(* The keeper removes a file: nothing else changes. *)
LEMMA KeeperStep ==
    ASSUME Inv, NEW k \in Key, KeeperRemoves(k)
    PROVE  Inv'
  <1>1. /\ disk' = [disk EXCEPT ![k] = Null]
        /\ UNCHANGED <<client, server, toServer, toClient, events, agent, drawn, sent, failed>>
    BY DEF KeeperRemoves
  <1>2. disk' \in [Key -> File \cup {Null}]  BY <1>1 DEF Inv, TypeOK
  <1>3. TypeOK'  BY <1>1, <1>2 DEF Inv, TypeOK
  <1>4. Agree => Agree'  BY <1>1 DEF Agree, Together
  <1>5. QED  BY <1>1, <1>3, <1>4 DEF Inv

(* Every step keeps the invariant. *)
LEMMA InvNext ==
    ASSUME Inv, [Next]_vars
    PROVE  Inv'
  <1>1. CASE UNCHANGED vars
    <2>1. Agree => Agree'  BY <1>1 DEF vars, Agree, Together
    <2>2. QED  BY <1>1, <2>1 DEF vars, Inv, TypeOK
  <1>2. CASE Next
    <2>1. ~ failed  BY <1>2 DEF Next
    <2>2. PICK seen \in SUBSET Pairs, a \in Shapes : a = Shape(server, seen) /\ Together(a, Pairs)
      BY <2>1 DEF Inv, Agree
    <2>3. CASE Server  BY <2>1, <2>3, ServerStep
    <2>4. CASE \E k \in Key : KeeperRemoves(k)  BY <2>4, KeeperStep
    <2>5. CASE ~ Server /\ ~ \E k \in Key : KeeperRemoves(k)
      <3>0. Heard(Pairs)  BY HeardOfAll DEF Inv
      <3>1. Steps(a, Pairs)
        BY <1>2, <2>1, <2>2, <2>5, <3>0, RequestsStep, ImagesStep, EventsStep, ProxyStep
           DEF Next, AgentEvent
      <3>2. QED  BY <2>2, <3>1, StepsKeep
    <2>6. QED  BY <2>3, <2>4, <2>5
  <1>3. QED  BY <1>1, <1>2

(* The invariant holds in every state. *)
LEMMA Invariance == Spec => []Inv
  <1>1. Init => Inv  BY InvInit
  <1>2. Inv /\ [Next]_vars => Inv'  BY InvNext
  <1>3. QED  BY <1>1, <1>2, PTL DEF Spec

(* Both proxies and the agent's record always hold values of their types, for
   any resources, images, modes and numbers of packets, with and without aborts:
   no handler of handleSplit's sequences leaves a store, a slot or a request
   that another handler does not know.                                       *)
THEOREM TypeCorrect == Spec => []TypeOK
  <1>1. Inv => TypeOK  BY DEF Inv
  <1>2. QED  BY <1>1, Invariance, PTL

(* When nothing is on the link, the message caches of the two proxies have the
   same images, and the same ones locked: aborts remove the same hits from both,
   and both unlock an image with the same commit.                            *)
LEMMA SlotsInStep ==
    ASSUME Inv, toServer = <<>>, ~ failed, NEW k \in Key
    PROVE  SlotsAlike(k)
  <1>1. TypeOK  BY DEF Inv
  <1>2. PICK seen \in SUBSET Pairs, a \in Shapes : a = Shape(server, seen) /\ Together(a, Pairs)
    BY DEF Inv, Agree
  <1>3. Sided(client) /\ Sided(server) /\ Range(sent) \in SUBSET Pairs
    BY <1>1, ClientSided, ServerSided, SentPairs DEF TypeOK
  <1> DEFINE b == Shape(client, Range(sent))
  <1>4. Leads(a, <<>>, b, Pairs)  BY <1>2 DEF Together, Fits
  <1>5. a = b
    <2> HIDE DEF b
    <2>1. QED  BY <1>4, LeadsEmpty
  <1>6. /\ a.held = {j \in Key : server.cache[j] # Null}
        /\ a.ready = {j \in Key : server.cache[j] # Null /\ ~ server.cache[j].locked}
    BY <1>2, <1>3, ShapeParts
  <1>7. /\ b.held = {j \in Key : client.cache[j] # Null}
        /\ b.ready = {j \in Key : client.cache[j] # Null /\ ~ client.cache[j].locked}
    BY <1>3, ShapeParts
  <1>8. /\ client.cache[k] # Null <=> server.cache[k] # Null
        /\ (client.cache[k] # Null /\ ~ client.cache[k].locked)
              <=> (server.cache[k] # Null /\ ~ server.cache[k].locked)
    <2> HIDE DEF b
    <2>1. QED  BY <1>5, <1>6, <1>7
  <1>9. ASSUME client.cache[k] # Null
        PROVE  client.cache[k].locked \in BOOLEAN /\ server.cache[k].locked \in BOOLEAN
    <2>1. client.cache[k] \in Slot /\ server.cache[k] \in Slot
      BY <1>3, <1>8, <1>9 DEF Sided
    <2>2. QED  BY <2>1 DEF Slot
  <1>10. QED  BY <1>8, <1>9 DEF SlotsAlike

(* When nothing is on the link, the split stores and the commit stores of the
   two proxies hold the same splits, as far along, in the same order, and their
   message caches the same images, the same ones locked, whatever was sent,
   aborted, missed, finished and committed before: ServerChannel reads each
   request in the state in which ClientChannel wrote it.                     *)
THEOREM StoresAreInStep == Spec => []StoresInStep
  <1>1. ASSUME Inv, toServer = <<>>, ~ failed
        PROVE  /\ \A r \in Resource : Skeleton(client.store[r]) = Skeleton(server.store[r])
               /\ Skeleton(client.commits) = Skeleton(server.commits)
    <2>1. TypeOK  BY <1>1 DEF Inv
    <2>2. PICK seen \in SUBSET Pairs, a \in Shapes : a = Shape(server, seen) /\ Together(a, Pairs)
      BY <1>1 DEF Inv, Agree
    <2>3. Sided(client) /\ Sided(server) /\ Range(sent) \in SUBSET Pairs
      BY <2>1, ClientSided, ServerSided, SentPairs DEF TypeOK
    <2> DEFINE b == Shape(client, Range(sent))
    <2>4. Leads(a, <<>>, b, Pairs)  BY <1>1, <2>2 DEF Together, Fits
    <2>5. a = b
      <3> HIDE DEF b
      <3>1. QED  BY <2>4, LeadsEmpty
    <2>6. \A r \in Resource : a.store[r] = Skeleton(server.store[r])
      BY <2>2, <2>3, ShapeParts
    <2>7. a.commits = Skeleton(server.commits)  BY <2>2, <2>3, ShapeParts
    <2>8. \A r \in Resource : b.store[r] = Skeleton(client.store[r])
      BY <2>3, ShapeParts
    <2>9. b.commits = Skeleton(client.commits)  BY <2>3, ShapeParts
    <2> HIDE DEF b
    <2>10. QED  BY <2>5, <2>6, <2>7, <2>8, <2>9
  <1>2. Inv => StoresInStep  BY <1>1, SlotsInStep DEF StoresInStep
  <1>3. QED  BY <1>2, Invariance, PTL

(* A resource that nxagent takes for free has no split under way at its proxy,
   no commit due and no event on its way: what nxagentReleaseSplit gives back
   can be given to another drawable.                                         *)
THEOREM FreeResourcesAreIdle == Spec => []FreeIsIdle
  <1>1. ASSUME Inv, NEW r \in Resource, agent[r] = "free", ~ failed
        PROVE  /\ client.store[r] = <<>>
               /\ \A i \in DOMAIN client.commits : client.commits[i].resource # r
               /\ \A i \in DOMAIN events : events[i].type # "empty" => events[i].resource # r
    <2>1. PICK a : Together(a, Pairs)  BY <1>1 DEF Inv, Agree
    <2>2. /\ Phase(client, events, r, "free") /\ Told(client.commits, events)
          /\ Asked(client, agent) /\ client \in ClientChannel /\ events \in Seq(Event)
      BY <1>1, <2>1 DEF Together, Fits, Phases
    <2>3. \A i \in DOMAIN client.commits : client.commits[i].resource # r
      BY <1>1, <2>2 DEF Asked
    <2>4. ASSUME NEW i \in DOMAIN events, events[i].type # "empty"
          PROVE  events[i].resource # r
      <3>1. events[i] \in Event  BY <2>2, ElementOfSeq
      <3>2. CASE events[i].type \in {"no", "start", "end"}
        <4>1. ~ Of(events[i], {"no", "start"}, r) /\ ~ Of(events[i], {"end"}, r)
          BY <2>2 DEF Phase, NoneOf
        <4>2. QED  BY <3>2, <4>1 DEF Of
      <3>3. CASE events[i].type = "commit"
        <4>1. PICK f : ToldBy(f, client.commits, events)  BY <2>2 DEF Told
        <4>2. PICK j \in DOMAIN client.commits : f[j] = i  BY <3>3, <4>1 DEF ToldBy
        <4>3. events[i] = CommitOf(client.commits[j])  BY <4>1, <4>2 DEF ToldBy
        <4>4. QED  BY <2>3, <4>3 DEF CommitOf
      <3>4. QED  BY <2>4, <3>1, <3>2, <3>3 DEF Event
    <2>5. QED  BY <2>2, <2>3, <2>4 DEF Phase
  <1>2. Inv => FreeIsIdle  BY <1>1 DEF FreeIsIdle
  <1>3. QED  BY <1>2, Invariance, PTL

(* Where nxagent aborts no sequence, neither proxy meets a commit, a packet or a
   reference that it does not know of and gives up the session.              *)
THEOREM NoneGivesUp ==
    ASSUME "abort" \notin May
    PROVE  Spec => []NobodyGivesUp
  <1>1. Inv => NobodyGivesUp  BY DEF Inv, NobodyGivesUp
  <1>2. QED  BY <1>1, Invariance, PTL

(* Where nxagent aborts no sequence, a slot that is locked belongs to a split
   that is under way, and so is unlocked by its commit.                      *)
THEOREM LockedAreUnderWay ==
    ASSUME "abort" \notin May
    PROVE  Spec => []LockedIsUnderWay
  <1>1. Inv => LockedIsUnderWay  BY DEF Inv, LockedIsUnderWay, CacheFit, UnderWay
  <1>2. QED  BY <1>1, Invariance, PTL

-----------------------------------------------------------------------------
(* The data *)

(* The commits, for "nothing", and the store of each resource. *)
Lines == Resource \cup {nothing}

Line(d, w) == IF w = nothing THEN d.commits ELSE d.store[w]

Adds(d, w, i) == i \in DOMAIN Line(d, w) /\ Line(d, w)[i].action = "added"

(* Each message added to the cache has one split, as long as it is locked. *)
Lone(d) ==
    \A w, x \in Lines : \A i, j :
        Adds(d, w, i) /\ Adds(d, x, j) /\ Line(d, w)[i].key = Line(d, x)[j].key
            => w = x /\ i = j

Locks(d) ==
    \A w \in Lines : \A i :
        Adds(d, w, i) => LET slot == d.cache[Line(d, w)[i].key] IN slot # Null /\ slot.locked

(* The data has the form that the size says, once it is there. *)
Whole(x) == x.data = x.csize

SlotWhole(slot) == IF slot.locked THEN slot.csize = "plain" ELSE Whole(slot)

FilesWhole(files) == \A k \in Key : files[k] # Null => files[k].whole /\ Whole(files[k])

(* A split in a store: its data was found, or is on its way in its format, and
   it was found if the other side may know so.                               *)
SplitWhole(s, r, known) ==
    \/ s.state = "loaded" /\ Whole(s)
    \/ /\ s.state = "missed" /\ s.action # "hit" /\ <<r, s.key>> \notin known
       /\ s.csize = IF s.started THEN s.format ELSE "plain"

(* No image is twice in a store, and those that are were read. *)
StoreWhole(s, r, seen, known) ==
    \A i \in DOMAIN s :
        /\ s[i].resource = r /\ SplitWhole(s[i], r, known)
        /\ <<r, s[i].key>> \in seen
        /\ \A j \in DOMAIN s : s[i].key = s[j].key => i = j

ServerWhole(d, seen, known) ==
    /\ Lone(d) /\ Locks(d)
    /\ \A r \in Resource : StoreWhole(d.store[r], r, seen, known)
    /\ \A i \in DOMAIN d.commits : Whole(d.commits[i])
    /\ \A k \in Key : d.cache[k] # Null => SlotWhole(d.cache[k])

(* What is known was read and reported. *)
DataWhole(seen, known) ==
    /\ ServerWhole(server, seen, known) /\ FilesWhole(disk)
    /\ known \subseteq seen /\ Heard(known)
    /\ DrawnIsWhole

(* A packet leaves a split sound, and complete if it is the last. *)
LEMMA ReceivedWhole ==
    ASSUME NEW s, NEW r, NEW known, SplitWhole(s, r, known), s \in Split,
           NEW m, DataParts(m), s.started # m.start, Got(Outline(s), m).next <= Chunks,
           m.abort => MayAbort(r, s, known)
    PROVE  LET t == Receive(s, m)
           IN /\ t.key = s.key /\ t.action = s.action
              /\ t.next # Chunks => SplitWhole(t, r, known)
              /\ t.next = Chunks => Whole(t)
  <1> DEFINE t == Started(s, m)
             u == Receive(s, m)
  <1>1. m.start \in BOOLEAN /\ m.format \in Format /\ m.abort \in BOOLEAN  BY DEF DataParts
  <1>2. /\ t \in Split /\ t.key = s.key /\ t.action = s.action /\ t.started = TRUE
        /\ t.state = s.state
        /\ IF s.state = "loaded" THEN t.data = s.data /\ t.csize = s.csize
           ELSE t.csize = t.format
    <2>0. s.started \in BOOLEAN  BY DEF Split
    <2>1. CASE ~ m.start
      <3>1. t = s /\ s.started  BY <1>1, <2>0, <2>1 DEF Started
      <3>2. QED  BY <3>1 DEF SplitWhole
    <2>2. CASE m.start /\ s.state = "loaded"
      <3>1. t = [s EXCEPT !.started = TRUE]  BY <2>2 DEF Started
      <3>2. QED  BY <2>2, <3>1 DEF Split
    <2>3. CASE m.start /\ s.state # "loaded"
      <3> DEFINE csize == IF m.format = "plain" THEN s.csize ELSE m.format
      <3>1. t = [s EXCEPT !.started = TRUE, !.data = "dummy", !.format = m.format,
                          !.csize = csize]
        BY <2>3 DEF Started
      <3>2. csize = m.format  BY <1>1, <2>0, <2>3 DEF SplitWhole
      <3>3. csize \in Format /\ "dummy" \in Data  BY <1>1, <3>2 DEF Data
      <3> HIDE DEF csize
      <3>4. QED  BY <1>1, <2>3, <3>1, <3>2, <3>3 DEF Split
    <2>4. QED  BY <1>1, <2>1, <2>2, <2>3
  <1> HIDE DEF t
  <1> DEFINE next == IF m.abort THEN Chunks ELSE t.next + m.count
             state == IF m.abort THEN "aborted" ELSE t.state
             data == IF ~ m.abort /\ t.state # "loaded" /\ next = Chunks THEN t.format
                     ELSE t.data
  <1>3. u = [t EXCEPT !.next = next,
                      !.state = IF m.abort THEN "aborted" ELSE @,
                      !.data = IF ~ m.abort /\ t.state # "loaded" /\ next = Chunks
                               THEN t.format ELSE @]
    BY DEF Receive, t
  <1> HIDE DEF next, u
  <1>4. /\ u.next = next /\ u.state = state /\ u.data = data /\ u.key = t.key
        /\ u.action = t.action /\ u.csize = t.csize /\ u.started = t.started
        /\ u.format = t.format
    BY <1>2, <1>3 DEF Split
  <1> HIDE DEF state, data
  <1>5. m.abort => s.state = "loaded"  BY DEF SplitWhole, MayAbort
  <1>6. u.next # Chunks => SplitWhole(u, r, known)
    <2> SUFFICES ASSUME next # Chunks  PROVE SplitWhole(u, r, known)
      BY <1>4
    <2>1. ~ m.abort  BY DEF next
    <2>2. state = t.state /\ data = t.data  BY <2>1 DEF state, data
    <2>3. QED  BY <1>2, <1>4, <2>2 DEF SplitWhole, Whole
  <1>7. u.next = Chunks => Whole(u)
    <2> SUFFICES ASSUME next = Chunks  PROVE Whole(u)
      BY <1>4
    <2>1. CASE s.state = "loaded"
      <3>1. data = t.data  BY <1>2, <2>1 DEF data
      <3>2. s.data = s.csize  BY <2>1 DEF SplitWhole, Whole
      <3>3. QED  BY <1>2, <1>4, <2>1, <3>1, <3>2 DEF Whole
    <2>2. CASE s.state # "loaded"
      <3>1. data = t.format  BY <1>2, <1>5, <2>2 DEF data
      <3>2. QED  BY <1>2, <1>4, <2>2, <3>1 DEF Whole
    <2>3. QED  BY <2>1, <2>2
  <1>8. QED  BY <1>2, <1>4, <1>6, <1>7 DEF u

(* A split that is looked for on disk is sound, and known when it is found. *)
LEMMA LoadedWhole ==
    ASSUME NEW s, NEW r, NEW known, NEW more, s \in Split, NEW file,
           SplitWhole(s, r, known) \/ (s.csize = "plain" /\ ~ s.started),
           s.state # "loaded", s.action # "hit",
           file \in File \cup {Null}, file # Null => file.whole /\ Whole(file),
           <<r, s.key>> \in more <=> LoadedFrom(s, file).state = "loaded"
    PROVE  /\ SplitWhole(LoadedFrom(s, file), r, more)
           /\ LoadedFrom(s, file).key = s.key /\ LoadedFrom(s, file).action = s.action
           /\ LoadedFrom(s, file).state \in {"loaded", "missed"}
           /\ FileAfterLoad(s, file) = file
  <1> DEFINE t == LoadedFrom(s, file)
  <1>0. s.csize = IF s.started THEN s.format ELSE "plain"  BY DEF SplitWhole
  <1>1. CASE ~ Loadable(s, file)
    <2>1. t = [s EXCEPT !.state = "missed"]  BY <1>1 DEF LoadedFrom
    <2>2. /\ t.state = "missed" /\ t.key = s.key /\ t.action = s.action
          /\ t.csize = s.csize /\ t.started = s.started /\ t.format = s.format
      BY <2>1 DEF Split
    <2>3. FileAfterLoad(s, file) = file  BY <1>1 DEF FileAfterLoad
    <2> HIDE DEF t
    <2>4. <<r, t.key>> \notin more  BY <2>2 DEF t
    <2>5. SplitWhole(t, r, more)  BY <1>0, <2>2, <2>4 DEF SplitWhole
    <2>6. QED  BY <2>2, <2>3, <2>5 DEF t
  <1>2. CASE Loadable(s, file)
    <2>1. file.whole /\ file.data = file.csize  BY <1>2 DEF Loadable, Whole
    <2>2. t = [s EXCEPT !.csize = file.csize, !.data = file.data, !.state = "loaded"]
      BY <1>2, <2>1 DEF LoadedFrom
    <2>3. /\ t.state = "loaded" /\ t.key = s.key /\ t.action = s.action
          /\ t.csize = file.csize /\ t.data = file.data
      BY <2>2 DEF Split
    <2>4. FileAfterLoad(s, file) = file  BY <2>1 DEF FileAfterLoad
    <2> HIDE DEF t
    <2>5. SplitWhole(t, r, more)  BY <2>1, <2>3 DEF SplitWhole, Whole
    <2>6. QED  BY <2>3, <2>4, <2>5 DEF t
  <1>3. QED  BY <1>1, <1>2

(* A split that is not the one that becomes known stays sound. *)
LEMMA OthersWhole ==
    ASSUME NEW s, NEW r, NEW known, SplitWhole(s, r, known), NEW q, NEW k, r # q \/ s.key # k,
           NEW more, more \subseteq known \cup {<<q, k>>}
    PROVE  SplitWhole(s, r, more)
  BY DEF SplitWhole

(* What is on the lines are splits. *)
LEMMA LineTyped ==
    ASSUME NEW d \in ServerChannel, NEW w \in Lines, NEW i \in DOMAIN Line(d, w)
    PROVE  Line(d, w) \in Seq(Split) /\ Line(d, w)[i] \in Split /\ Line(d, w)[i].key \in Key
  <1> DEFINE s == Line(d, w)
  <1>1. s \in Seq(Split)  BY NullAssumption DEF Lines, Line, ServerChannel
  <1> HIDE DEF s
  <1>2. i \in DOMAIN s  BY DEF s
  <1>3. s[i] \in Split  BY <1>1, <1>2, ElementOfSeq, LenProperties
  <1>4. s[i].key \in Key  BY <1>3 DEF Split
  <1>5. QED  BY <1>1, <1>3, <1>4 DEF s

(* More images may have been read. *)
LEMMA SeenMore ==
    ASSUME NEW d, NEW seen, NEW more, seen \subseteq more, NEW known, ServerWhole(d, seen, known)
    PROVE  ServerWhole(d, more, known)
  BY DEF ServerWhole, StoreWhole

(* Each split of e that adds a message is one of d's, at the line and place that
   are given, and no two are the same.                                       *)
From(d, e, line, place) ==
    \A w \in Lines : \A i :
        Adds(e, w, i) =>
            /\ line[w][i] \in Lines
            /\ Adds(d, line[w][i], place[w][i])
            /\ Line(e, w)[i].key = Line(d, line[w][i])[place[w][i]].key
            /\ \A x \in Lines : \A j :
                  Adds(e, x, j) /\ line[w][i] = line[x][j] /\ place[w][i] = place[x][j]
                      => w = x /\ i = j

LEMMA LoneFrom ==
    ASSUME NEW d, NEW e, Lone(d), NEW line, NEW place, From(d, e, line, place)
    PROVE  Lone(e)
  <1> SUFFICES ASSUME NEW w \in Lines, NEW x \in Lines, NEW i, NEW j,
                      Adds(e, w, i), Adds(e, x, j), Line(e, w)[i].key = Line(e, x)[j].key
               PROVE  w = x /\ i = j
    BY DEF Lone
  <1>1. /\ line[w][i] \in Lines /\ line[x][j] \in Lines
        /\ Adds(d, line[w][i], place[w][i]) /\ Adds(d, line[x][j], place[x][j])
        /\ Line(d, line[w][i])[place[w][i]].key = Line(d, line[x][j])[place[x][j]].key
    BY DEF From
  <1>2. line[w][i] = line[x][j] /\ place[w][i] = place[x][j]  BY <1>1 DEF Lone
  <1>3. QED  BY <1>2 DEF From

(* A sequence that is opened or closed. *)
LEMMA ServerStartEndWhole ==
    ASSUME TypeOK, NEW seen \in SUBSET Pairs, NEW known, NEW a, a = Shape(server, seen),
           NEW b \in Shapes, Reads(a, Head(toServer), b, known), ~ failed, ServerStartEnd,
           DataWhole(seen, known)
    PROVE  DataWhole(b.seen, known)'
  <1> DEFINE m == Head(toServer)
             d == server
             e == server'
  <1>1. /\ m.type \in {"start", "end"}
        /\ \E resource : server' = [server EXCEPT !.resource = resource]
        /\ UNCHANGED <<disk, toClient, drawn>>
    BY DEF ServerStartEnd
  <1>2. ReadsOpen(a, m, b)  BY <1>1, ReadsByType
  <1>3. b.seen = seen
    <2>1. a.seen = seen  BY DEF Shape
    <2>2. QED  BY <1>2, <2>1 DEF ReadsOpen
  <1>4. e.store = d.store /\ e.commits = d.commits /\ e.cache = d.cache
    BY <1>1, ServerSided DEF ServerChannel
  <1>5. ServerWhole(d, seen, known)  BY DEF DataWhole
  <1> HIDE DEF d, e
  <1>6. ServerWhole(e, seen, known)
    <2>1. \A w : Line(e, w) = Line(d, w)  BY <1>4 DEF Line
    <2>2. Lone(e) /\ Locks(e)  BY <1>4, <1>5, <2>1 DEF ServerWhole, Lone, Locks, Adds
    <2>3. QED  BY <1>4, <1>5, <2>2 DEF ServerWhole
  <1>7. QED  BY <1>1, <1>3, <1>6 DEF DataWhole, Heard, FilesWhole, DrawnIsWhole, e

(* What is drawn of data that fits its size. *)
LEMMA ExpandedWhole ==
    ASSUME NEW k, NEW x, Whole(x)
    PROVE  Expanded(k, x.data, x.csize).image = "whole"
  BY DEF Whole, Expanded

(* An image that came in one piece, or that is a hit on one that is there. *)
LEMMA ServerImageWhole ==
    ASSUME TypeOK, NEW seen \in SUBSET Pairs, NEW known, NEW a, a = Shape(server, seen),
           NEW b \in Shapes, Reads(a, Head(toServer), b, known), ~ failed, ServerImage,
           DataWhole(seen, known)
    PROVE  DataWhole(b.seen, known)'
  <1> DEFINE m == Head(toServer)
             k == m.key
             hit == m.action = "hit"
             d == server
             e == server'
             slot == IF hit THEN d.cache[k] ELSE WholeSlot(k)
             cache == [d.cache EXCEPT ![k] = slot]
  <1>1. /\ toServer # <<>> /\ m.type = "image"
        /\ failed' = (slot = Null)
        /\ drawn' = IF failed' THEN drawn ELSE Expanded(k, slot.data, slot.csize)
        /\ e = IF m.action = "added" THEN [d EXCEPT !.cache = cache] ELSE d
        /\ UNCHANGED <<disk, toClient>>
    BY DEF ServerImage, Received
  <1>2. k \in Key /\ m.action \in Action  BY <1>1, HeadParts
  <1>3. IsShape(d, a)  BY BeforeParts
  <1>4. ReadsImage(a, m, b)  BY <1>1, ReadsByType
  <1>5. d \in ServerChannel  BY ServerSided
  <1>6. seen \subseteq b.seen
    <2>1. a.seen = seen  BY DEF Shape
    <2>2. QED  BY <1>4, <2>1 DEF ReadsImage
  <1>7. ServerWhole(d, seen, known)  BY DEF DataWhole
  <1> HIDE DEF m, d, e
  <1>8. hit => d.cache[k] # Null /\ ~ d.cache[k].locked
    <2>1. hit => k \in a.ready  BY <1>4 DEF ReadsImage, Fresh
    <2>2. QED  BY <1>3, <2>1 DEF IsShape
  <1>9. m.action = "added" => d.cache[k] = Null
    <2>1. m.action = "added" => k \notin a.held  BY <1>4 DEF ReadsImage, Fresh
    <2>2. QED  BY <1>2, <1>3, <2>1 DEF IsShape
  <1>10. Whole(slot) /\ slot # Null /\ (~ hit => ~ slot.locked)
    <2>1. CASE hit
      <3>1. SlotWhole(d.cache[k])  BY <1>2, <1>7, <1>8, <2>1 DEF ServerWhole
      <3>2. QED  BY <1>8, <2>1, <3>1 DEF SlotWhole
    <2>2. CASE ~ hit
      <3>1. Whole(WholeSlot(k))  BY DEF WholeSlot, Whole
      <3>2. QED  BY <1>2, <2>2, <3>1, SlotParts
    <2>3. QED  BY <2>1, <2>2
  <1> HIDE DEF slot
  <1>11. DrawnIsWhole'
    <2>1. drawn' = Expanded(k, slot.data, slot.csize)  BY <1>1, <1>10
    <2>2. Expanded(k, slot.data, slot.csize).image = "whole"  BY <1>10, ExpandedWhole
    <2>3. QED  BY <2>1, <2>2 DEF DrawnIsWhole
  <1>12. ServerWhole(e, seen, known)
    <2>1. CASE m.action # "added"  BY <1>1, <1>7, <2>1
    <2>2. CASE m.action = "added"
      <3>0. d.cache \in [Key -> Slot \cup {Null}] /\ e = [d EXCEPT !.cache = cache] /\ ~ hit
        BY <1>1, <1>5, <2>2 DEF ServerChannel
      <3>1. \A q \in Key : cache[q] = IF q = k THEN slot ELSE d.cache[q]
        BY <1>2, <3>0
      <3> HIDE DEF cache
      <3>2. e.store = d.store /\ e.commits = d.commits /\ e.cache = cache
        BY <1>5, <3>0 DEF ServerChannel
      <3>3. \A w : Line(e, w) = Line(d, w)  BY <3>2 DEF Line
      <3>4. Lone(e)  BY <1>7, <3>3 DEF ServerWhole, Lone, Adds
      <3>5. Locks(e)
        <4> SUFFICES ASSUME NEW w \in Lines, NEW i, Adds(d, w, i)
                     PROVE  /\ cache[Line(d, w)[i].key] # Null
                            /\ cache[Line(d, w)[i].key].locked
          BY <3>2, <3>3 DEF Locks, Adds
        <4> DEFINE q == Line(d, w)[i].key
        <4>1. d.cache[q] # Null /\ d.cache[q].locked  BY <1>7 DEF ServerWhole, Locks
        <4>2. q \in Key  BY <1>5, LineTyped DEF Adds
        <4>3. q # k  BY <1>9, <2>2, <4>1
        <4> HIDE DEF q
        <4>4. cache[q] # Null /\ cache[q].locked  BY <3>1, <4>1, <4>2, <4>3
        <4>5. QED  BY <4>4 DEF q
      <3>6. ASSUME NEW q \in Key, cache[q] # Null
            PROVE  SlotWhole(cache[q])
        <4>1. CASE q = k  BY <1>10, <3>0, <3>1, <4>1 DEF SlotWhole
        <4>2. CASE q # k  BY <1>7, <3>1, <3>6, <4>2 DEF ServerWhole
        <4>3. QED  BY <4>1, <4>2
      <3>7. QED  BY <1>7, <3>2, <3>4, <3>5, <3>6 DEF ServerWhole
    <2>3. QED  BY <2>1, <2>2
  <1>13. ServerWhole(e, b.seen, known)  BY <1>6, <1>12, SeenMore
  <1>14. QED  BY <1>1, <1>6, <1>11, <1>13 DEF DataWhole, Heard, FilesWhole, e

(* A report of what is known was sent. *)
LEMMA HeardReport ==
    ASSUME TypeOK, NEW known, Heard(known), NEW more, known \subseteq more, NEW s \in Split,
           s.state = "loaded" => <<s.resource, s.key>> \in more,
           toClient' = Append(toClient, Report(s))
    PROVE  Heard(more)'
  <1> DEFINE q == toClient
             n == Len(q)
             p == toClient'
             Reports == [resource : Resource, key : Key, loaded : BOOLEAN, csize : Format]
  <1>0. Report(s) \in Reports  BY DEF Report, Split
  <1>1. q \in Seq(Reports)  BY DEF TypeOK
  <1> HIDE DEF Reports
  <1>2. /\ n \in Nat /\ DOMAIN q = 1 .. n /\ DOMAIN p = 1 .. n + 1
        /\ p[n + 1] = Report(s) /\ \A i \in 1 .. n : p[i] = q[i]
    BY <1>0, <1>1, AppendProperties, LenProperties
  <1> HIDE DEF n, q, p
  <1>3. \A i \in 1 .. n : q[i].loaded => <<q[i].resource, q[i].key>> \in more
    BY <1>2 DEF Heard, q
  <1>4. Report(s).loaded => <<Report(s).resource, Report(s).key>> \in more
    BY DEF Report
  <1>5. \A i \in 1 .. n + 1 : p[i].loaded => <<p[i].resource, p[i].key>> \in more
    <2> TAKE i \in 1 .. n + 1
    <2>1. CASE i = n + 1  BY <1>2, <1>4, <2>1
    <2>2. CASE i # n + 1
      <3>1. i \in 1 .. n  BY <1>2, <2>2
      <3>2. QED  BY <1>2, <1>3, <3>1
    <2>3. QED  BY <2>1, <2>2
  <1>6. QED  BY <1>2, <1>5 DEF Heard, p

(* What is known once a split was looked for. *)
Learned(s, r, known) ==
    IF s.action # "hit" /\ s.state = "loaded" THEN known \cup {<<r, s.key>>} ELSE known

(* The split that is made of an image is sound. *)
LEMMA SplitReadWhole ==
    ASSUME TypeOK, NEW r \in Resource, NEW k \in Key, NEW action \in Action, FilesWhole(disk),
           action = "hit" => Whole(server.cache[k]),
           NEW known, <<r, k>> \notin known
    PROVE  LET s == SplitRead(r, k, action)
           IN /\ SplitWhole(s, r, Learned(s, r, known))
              /\ s.key = k /\ s.action = action
              /\ action # "hit" /\ Checksums => FileAfterLoad(Asking(r, k, action), disk[k]) = disk[k]
  <1> DEFINE new == NewSplit(r, k, action, "async")
             asked == Asking(r, k, action)
             s == SplitRead(r, k, action)
             file == disk[k]
             more == Learned(s, r, known)
  <1>1. new \in Split
    <2>1. 0 \in 0 .. Chunks  BY SizesAssumption
    <2>2. QED  BY <2>1 DEF NewSplit, Split, State, Format, Data
  <1>2. /\ new.key = k /\ new.action = action /\ new.csize = "plain" /\ new.started = FALSE
        /\ new.state = "added"
    BY DEF NewSplit
  <1>3. asked = [new EXCEPT !.load = Load]  BY DEF Asking
  <1> HIDE DEF new, asked
  <1>4. asked \in Split /\ asked.key = k /\ asked.action = action /\ asked.csize = "plain"
        /\ asked.started = FALSE /\ asked.state = "added"
    BY <1>1, <1>2, <1>3, FlagsAssumption DEF Split
  <1>5. file \in File \cup {Null} /\ (file # Null => file.whole /\ Whole(file))
    BY ServerSided DEF FilesWhole
  <1> HIDE DEF file
  <1>6. CASE action = "hit"
    <2>1. s = [new EXCEPT !.state = "loaded", !.data = HitData(k)]  BY <1>6 DEF SplitRead, new
    <2>2. HitData(k) = "plain"  BY <1>6 DEF HitData, Whole
    <2> HIDE DEF s
    <2>3. /\ s.key = k /\ s.action = action /\ s.state = "loaded" /\ s.data = "plain"
          /\ s.csize = "plain"
      BY <1>1, <1>2, <2>1, <2>2 DEF Split
    <2>4. SplitWhole(s, r, more)  BY <2>3 DEF SplitWhole, Whole
    <2>5. QED  BY <1>6, <2>3, <2>4 DEF s
  <1>7. CASE action # "hit" /\ ~ Checksums
    <2>1. s = [new EXCEPT !.state = "missed"]  BY <1>7 DEF SplitRead, new
    <2> HIDE DEF s
    <2>2. /\ s.key = k /\ s.action = action /\ s.state = "missed" /\ s.started = FALSE
          /\ s.csize = "plain"
      BY <1>1, <1>2, <2>1 DEF Split
    <2>3. more = known  BY <2>2 DEF Learned
    <2> HIDE DEF more
    <2>4. SplitWhole(s, r, more)  BY <1>7, <2>2, <2>3 DEF SplitWhole
    <2>5. QED  BY <1>7, <2>2, <2>4 DEF s, more
  <1>8. CASE action # "hit" /\ Checksums
    <2>1. s = LoadedFrom(asked, file)  BY <1>8 DEF SplitRead, asked, file
    <2> HIDE DEF s
    <2>2. \A f : <<r, asked.key>> \in f <=> <<r, k>> \in f  BY <1>4
    <2>3. s.key = k /\ s.action = action
      <3>1. \A f \in {FALSE, TRUE} : asked.action # "hit"  BY <1>4, <1>8
      <3> DEFINE other == IF s.state = "loaded" THEN {<<r, asked.key>>} ELSE {}
      <3>2. <<r, asked.key>> \in other <=> LoadedFrom(asked, file).state = "loaded"  BY <2>1
      <3> HIDE DEF other
      <3>3. LoadedFrom(asked, file).key = asked.key /\ LoadedFrom(asked, file).action = asked.action
        BY <1>4, <1>5, <1>8, <3>2, LoadedWhole
      <3>4. QED  BY <1>4, <2>1, <3>3
    <2>4. <<r, asked.key>> \in more <=> LoadedFrom(asked, file).state = "loaded"
      BY <1>4, <1>8, <2>1, <2>3 DEF Learned
    <2> HIDE DEF more
    <2>5. /\ SplitWhole(LoadedFrom(asked, file), r, more) /\ FileAfterLoad(asked, file) = file
      BY <1>4, <1>5, <1>8, <2>4, LoadedWhole
    <2>6. QED  BY <2>1, <2>3, <2>5 DEF s, more, asked, file
  <1>9. QED  BY <1>6, <1>7, <1>8

(* An image whose data follows, and what is on disk of it. *)
LEMMA ServerSplitWhole ==
    ASSUME TypeOK, NEW seen \in SUBSET Pairs, NEW known, NEW a, a = Shape(server, seen),
           NEW b \in Shapes, Reads(a, Head(toServer), b, known), ~ failed, ServerSplit,
           DataWhole(seen, known), "repeat" \notin May
    PROVE  \E more : known \subseteq more /\ DataWhole(b.seen, more)'
  <1> DEFINE m == Head(toServer)
             k == m.key
             action == m.action
             d == server
             e == server'
             r == d.resource
             hit == action = "hit"
             s == SplitRead(r, k, action)
             was == d.store[r]
             store == [d.store EXCEPT ![r] = Append(was, s)]
             slot == IF action = "added" THEN LockedSlot ELSE d.cache[k]
             cache == [d.cache EXCEPT ![k] = slot]
             file == FileAfterLoad(Asking(r, k, action), disk[k])
  <1>0. PICK more : more = Learned(s, r, known)  OBVIOUS
  <1>1. /\ toServer # <<>> /\ m.type = "image" /\ m.split
        /\ failed' = (r = nothing \/ (hit /\ d.cache[k] = Null))
        /\ drawn' = drawn
        /\ failed' = FALSE =>
              /\ e = [d EXCEPT !.store = store, !.cache = cache]
              /\ disk' = IF ~ hit /\ Checksums THEN [disk EXCEPT ![k] = file] ELSE disk
              /\ toClient' = IF ~ hit /\ Checksums THEN Append(toClient, Report(s)) ELSE toClient
    BY DEF ServerSplit, Received, SplitRead, Asking
  <1>2. k \in Key /\ action \in Action  BY <1>1, HeadParts
  <1>3. failed' = FALSE
    <2>1. Follows(b)  BY ServerSplitFits
    <2>2. QED  BY <2>1 DEF Follows
  <1>4. ReadsImage(a, m, b) /\ IsShape(d, a)  BY <1>1, ReadsByType, BeforeParts
  <1>5. d \in ServerChannel  BY ServerSided
  <1>6. ServerWhole(d, seen, known) /\ FilesWhole(disk) /\ known \subseteq seen
        /\ Heard(known) /\ DrawnIsWhole
    BY DEF DataWhole
  <1> HIDE DEF m, d, e, cache, store, file
  <1>7. a.resource = r /\ a.seen = seen  BY <1>4 DEF IsShape, Shape, d
  <1>8. r \in Resource /\ r # nothing
    <2>1. r \in Resource  BY <1>4, <1>7 DEF ReadsImage, Fresh
    <2>2. QED  BY <2>1, NullAssumption DEF nothing
  <1>9. <<r, k>> \notin seen /\ b.seen = seen \cup {<<r, k>>}
    BY <1>4, <1>7 DEF ReadsImage, Fresh
  <1>10. hit => Whole(d.cache[k])
    <2>1. hit => k \in a.ready  BY <1>4 DEF ReadsImage, Fresh
    <2>2. hit => d.cache[k] # Null /\ ~ d.cache[k].locked  BY <1>4, <2>1 DEF IsShape
    <2>3. hit => SlotWhole(d.cache[k])  BY <1>2, <1>6, <2>2 DEF ServerWhole
    <2>4. QED  BY <2>2, <2>3 DEF SlotWhole
  <1>11. action = "added" => d.cache[k] = Null
    <2>1. action = "added" => k \notin a.held  BY <1>4 DEF ReadsImage, Fresh
    <2>2. QED  BY <1>2, <1>4, <2>1 DEF IsShape
  <1>12. /\ SplitWhole(s, r, more) /\ s.key = k /\ s.action = action
         /\ ~ hit /\ Checksums => file = disk[k]
    <2>1. <<r, k>> \notin known  BY <1>6, <1>9
    <2>2. hit => Whole(server.cache[k])  BY <1>10 DEF d
    <2>3. /\ SplitWhole(s, r, Learned(s, r, known)) /\ s.key = k /\ s.action = action
          /\ ~ hit /\ Checksums => file = disk[k]
      BY <1>2, <1>6, <1>8, <2>1, <2>2, SplitReadWhole DEF file
    <2>4. QED  BY <1>0, <2>3
  <1>13. s \in Split /\ s.resource = r
    <2>1. s \in Split /\ Outline(s) = Outline(NewSplit(r, k, action, "async"))
      BY <1>2, <1>8, SplitReadParts
    <2>2. s.resource = NewSplit(r, k, action, "async").resource  BY <2>1 DEF Outline
    <2>3. QED  BY <2>1, <2>2 DEF NewSplit
  <1>14. disk' = disk
    <2>1. disk \in [Key -> File \cup {Null}]  BY DEF TypeOK
    <2>2. QED  BY <1>1, <1>2, <1>3, <1>12, <2>1
  <1> HIDE DEF s
  <1>15. known \subseteq more /\ more \subseteq b.seen
         /\ more \subseteq known \cup {<<r, k>>}
    BY <1>0, <1>6, <1>9, <1>12 DEF Learned
  <1>16. Heard(more)'
    <2>1. CASE ~ hit /\ Checksums
      <3>1. toClient' = Append(toClient, Report(s))  BY <1>1, <1>3, <2>1
      <3>2. s.state = "loaded" => <<s.resource, s.key>> \in more
        BY <1>0, <1>12, <1>13, <2>1 DEF Learned
      <3>3. QED  BY <1>6, <1>13, <1>15, <3>1, <3>2, HeardReport
    <2>2. CASE ~ (~ hit /\ Checksums)
      <3>1. toClient' = toClient  BY <1>1, <1>3, <2>2
      <3>2. QED  BY <1>6, <1>15, <3>1 DEF Heard
    <2>3. QED  BY <2>1, <2>2
  <1>17. was \in Seq(Split) /\ d.store \in [Resource -> Seq(Split)]
         /\ d.cache \in [Key -> Slot \cup {Null}]
    BY <1>5, <1>8 DEF ServerChannel
  <1> DEFINE n == Len(was)
             grown == Append(was, s)
  <1>18. /\ n \in Nat /\ DOMAIN was = 1 .. n /\ DOMAIN grown = 1 .. n + 1
         /\ grown[n + 1] = s /\ \A i \in 1 .. n : grown[i] = was[i]
    BY <1>13, <1>17, AppendProperties, LenProperties
  <1>19. \A q \in Resource : store[q] = IF q = r THEN grown ELSE d.store[q]
    BY <1>8, <1>17 DEF store
  <1>20. \A q \in Key : cache[q] = IF q = k THEN slot ELSE d.cache[q]
    BY <1>2, <1>17 DEF cache
  <1>21. e.store = store /\ e.commits = d.commits /\ e.cache = cache
    BY <1>1, <1>3, <1>5 DEF ServerChannel
  <1>22. \A w \in Lines : Line(e, w) = IF w = r THEN grown ELSE Line(d, w)
    BY <1>8, <1>19, <1>21 DEF Line, Lines
  <1>23. Line(d, r) = was  BY <1>8 DEF Line
  <1> HIDE DEF grown, was, n, slot
  <1>24. \A w \in Lines : \A i :
            Adds(e, w, i) => \/ Adds(d, w, i) /\ Line(e, w)[i] = Line(d, w)[i]
                             \/ w = r /\ i = n + 1 /\ Line(e, w)[i] = s /\ action = "added"
    <2> SUFFICES ASSUME NEW w \in Lines, NEW i, Adds(e, w, i)
                 PROVE  \/ Adds(d, w, i) /\ Line(e, w)[i] = Line(d, w)[i]
                        \/ w = r /\ i = n + 1 /\ Line(e, w)[i] = s /\ action = "added"
      OBVIOUS
    <2>1. CASE w = r
      <3>1. i \in 1 .. n + 1 /\ grown[i].action = "added"  BY <1>18, <1>22, <2>1 DEF Adds
      <3>2. i \in 1 .. n \/ i = n + 1  BY <1>18, <3>1
      <3>3. QED  BY <1>12, <1>18, <1>22, <1>23, <2>1, <3>1, <3>2 DEF Adds
    <2>2. CASE w # r  BY <1>22, <2>2 DEF Adds
    <2>3. QED  BY <2>1, <2>2
  <1>25. \A w \in Lines : \A i :
            Adds(d, w, i) => LET q == Line(d, w)[i].key
                             IN /\ q \in Key /\ d.cache[q] # Null /\ d.cache[q].locked
                                /\ action = "added" => q # k
    <2> SUFFICES ASSUME NEW w \in Lines, NEW i, Adds(d, w, i)
                 PROVE  LET q == Line(d, w)[i].key
                        IN /\ q \in Key /\ d.cache[q] # Null /\ d.cache[q].locked
                           /\ action = "added" => q # k
      OBVIOUS
    <2> DEFINE q == Line(d, w)[i].key
    <2>1. q \in Key  BY <1>5, LineTyped DEF Adds
    <2>2. d.cache[q] # Null /\ d.cache[q].locked  BY <1>6 DEF ServerWhole, Locks
    <2>3. QED  BY <1>11, <2>1, <2>2
  <1>26. Lone(e)
    <2>1. Lone(d)  BY <1>6 DEF ServerWhole
    <2> SUFFICES ASSUME NEW w \in Lines, NEW x \in Lines, NEW i, NEW j,
                        Adds(e, w, i), Adds(e, x, j), Line(e, w)[i].key = Line(e, x)[j].key
                 PROVE  w = x /\ i = j
      BY DEF Lone
    <2>2. CASE Adds(d, w, i) /\ Line(e, w)[i] = Line(d, w)[i]
      <3>1. CASE Adds(d, x, j) /\ Line(e, x)[j] = Line(d, x)[j]
        BY <2>1, <2>2, <3>1 DEF Lone
      <3>2. CASE Line(e, x)[j] = s /\ action = "added"
        BY <1>12, <1>25, <2>2, <3>2
      <3>3. QED  BY <1>24, <3>1, <3>2
    <2>3. CASE w = r /\ i = n + 1 /\ Line(e, w)[i] = s /\ action = "added"
      <3>1. CASE Adds(d, x, j) /\ Line(e, x)[j] = Line(d, x)[j]
        BY <1>12, <1>25, <2>3, <3>1
      <3>2. CASE x = r /\ j = n + 1  BY <2>3, <3>2
      <3>3. QED  BY <1>24, <3>1, <3>2
    <2>4. QED  BY <1>24, <2>2, <2>3
  <1>27. Locks(e)
    <2> SUFFICES ASSUME NEW w \in Lines, NEW i, Adds(e, w, i)
                 PROVE  /\ cache[Line(e, w)[i].key] # Null
                        /\ cache[Line(e, w)[i].key].locked
      BY <1>21 DEF Locks
    <2>1. CASE Adds(d, w, i) /\ Line(e, w)[i] = Line(d, w)[i]
      <3> DEFINE q == Line(d, w)[i].key
      <3>1. /\ q \in Key /\ d.cache[q] # Null /\ d.cache[q].locked
            /\ action = "added" => q # k
        BY <1>25, <2>1
      <3> HIDE DEF q
      <3>2. cache[q] = d.cache[q]  BY <1>20, <3>1 DEF slot
      <3>3. QED  BY <2>1, <3>1, <3>2 DEF q
    <2>2. CASE Line(e, w)[i] = s /\ action = "added"
      <3>1. cache[k] = LockedSlot  BY <1>2, <1>20, <2>2 DEF slot
      <3>2. QED  BY <1>2, <1>12, <2>2, <3>1, SlotParts
    <2>3. QED  BY <1>24, <2>1, <2>2
  <1>28. ASSUME NEW q \in Resource
         PROVE  StoreWhole(e.store[q], q, b.seen, more)
    <2>1. StoreWhole(d.store[q], q, seen, known)  BY <1>6 DEF ServerWhole
    <2>2. CASE q # r
      <3>1. e.store[q] = d.store[q]  BY <1>19, <1>21, <2>2
      <3> DEFINE t == d.store[q]
      <3>2. ASSUME NEW i \in DOMAIN t  PROVE SplitWhole(t[i], q, more)
        <4>1. SplitWhole(t[i], q, known)  BY <2>1 DEF StoreWhole
        <4>2. QED  BY <1>15, <2>2, <4>1, OthersWhole
      <3>3. QED  BY <1>9, <2>1, <3>1, <3>2 DEF StoreWhole
    <2>3. CASE q = r
      <3>1. e.store[q] = grown  BY <1>19, <1>21, <2>3
      <3>2. StoreWhole(was, r, seen, known)  BY <2>1, <2>3 DEF was
      <3>3. ASSUME NEW i \in 1 .. n
            PROVE  /\ was[i].resource = r /\ SplitWhole(was[i], r, more)
                   /\ <<r, was[i].key>> \in b.seen /\ was[i].key # k
        <4>1. /\ was[i].resource = r /\ SplitWhole(was[i], r, known)
              /\ <<r, was[i].key>> \in seen
          BY <1>18, <3>2 DEF StoreWhole
        <4>2. was[i].key # k  BY <1>9, <4>1
        <4>3. SplitWhole(was[i], r, more)  BY <1>15, <4>1, <4>2, OthersWhole
        <4>4. QED  BY <1>9, <4>1, <4>2, <4>3
      <3>4. ASSUME NEW i \in 1 .. n + 1
            PROVE  /\ grown[i].resource = r /\ SplitWhole(grown[i], r, more)
                   /\ <<r, grown[i].key>> \in b.seen
                   /\ \A j \in 1 .. n + 1 : grown[i].key = grown[j].key => i = j
        <4>1. \A j \in 1 .. n + 1 : j \in 1 .. n \/ j = n + 1  BY <1>18
        <4>2. <<r, k>> \in b.seen  BY <1>9
        <4>3. CASE i = n + 1
          <5>1. grown[i] = s  BY <1>18, <4>3
          <5>2. \A j \in 1 .. n : grown[j].key # s.key  BY <1>12, <1>18, <3>3
          <5>3. QED  BY <1>12, <1>13, <4>1, <4>2, <4>3, <5>1, <5>2
        <4>4. CASE i \in 1 .. n
          <5>1. grown[i] = was[i] /\ was[i].key # s.key  BY <1>12, <1>18, <3>3, <4>4
          <5>2. \A j \in 1 .. n : was[i].key = was[j].key => i = j
            BY <1>18, <3>2, <4>4 DEF StoreWhole
          <5>3. QED  BY <1>18, <3>3, <4>1, <4>4, <5>1, <5>2
        <4>5. QED  BY <4>1, <4>3, <4>4
      <3>5. StoreWhole(grown, r, b.seen, more)  BY <1>18, <3>4 DEF StoreWhole
      <3>6. QED  BY <2>3, <3>1, <3>5
    <2>4. QED  BY <2>2, <2>3
  <1>29. ASSUME NEW q \in Key, cache[q] # Null
         PROVE  SlotWhole(cache[q])
    <2>1. CASE q = k /\ action = "added"
      <3>1. cache[q] = LockedSlot  BY <1>20, <2>1 DEF slot
      <3>2. QED  BY <3>1 DEF LockedSlot, SlotWhole
    <2>2. CASE ~ (q = k /\ action = "added")
      <3>1. cache[q] = d.cache[q]  BY <1>20, <2>2 DEF slot
      <3>2. QED  BY <1>6, <1>29, <3>1 DEF ServerWhole
    <2>3. QED  BY <2>1, <2>2
  <1>30. ServerWhole(e, b.seen, more)
    BY <1>6, <1>21, <1>26, <1>27, <1>28, <1>29 DEF ServerWhole
  <1>31. DataWhole(b.seen, more)'
    <2>1. FilesWhole(disk')  BY <1>6, <1>14
    <2>2. DrawnIsWhole'  BY <1>1, <1>6 DEF DrawnIsWhole
    <2>3. QED  BY <1>15, <1>16, <1>30, <2>1, <2>2 DEF DataWhole, e
  <1>32. QED  BY <1>15, <1>31

(* A complete split goes from the head of its store to the end of the commits. *)
Taken(d, r, x, e) ==
    /\ d \in ServerChannel /\ e \in ServerChannel /\ r \in Resource /\ d.store[r] # <<>>
    /\ x \in Split /\ x.key = Head(d.store[r]).key /\ x.action = Head(d.store[r]).action
    /\ e.commits = Append(d.commits, x) /\ e.cache = d.cache
    /\ \A q \in Resource \ {r} : e.store[q] = d.store[q]
    /\ Len(e.store[r]) = Len(d.store[r]) - 1
    /\ \A i \in 1 .. Len(d.store[r]) - 1 : /\ e.store[r][i].key = d.store[r][i + 1].key
                                           /\ e.store[r][i].action = d.store[r][i + 1].action

(* It has still the only split of its message. *)
LEMMA TakenLone ==
    ASSUME NEW d, NEW r, NEW x, NEW e, Taken(d, r, x, e), Lone(d), Locks(d)
    PROVE  Lone(e) /\ Locks(e)
  <1> DEFINE s == d.store[r]
             t == e.store[r]
             c == d.commits
             f == e.commits
             n == Len(c)
             m == Len(s)
             last(w, i) == w = nothing /\ i = n + 1
             line == [w \in Lines |-> [i \in Nat |-> IF last(w, i) THEN r ELSE w]]
             place == [w \in Lines |-> [i \in Nat |->
                          IF last(w, i) THEN 1 ELSE IF w = r THEN i + 1 ELSE i]]
  <1>1. /\ r \in Resource /\ r # nothing /\ r \in Lines /\ nothing \in Lines
        /\ \A w \in Lines : w # nothing => w \in Resource
    BY NullAssumption DEF Taken, Lines, nothing
  <1>2. /\ s \in Seq(Split) /\ t \in Seq(Split) /\ c \in Seq(Split) /\ f = Append(c, x)
        /\ x \in Split /\ s # <<>> /\ Len(t) = Len(s) - 1
        /\ x.key = Head(s).key /\ x.action = Head(s).action
        /\ \A i \in 1 .. Len(s) - 1 : t[i].key = s[i + 1].key /\ t[i].action = s[i + 1].action
    BY <1>1 DEF Taken, ServerChannel
  <1>3. \A w \in Lines : /\ Line(d, w) = IF w = nothing THEN c ELSE d.store[w]
                         /\ Line(e, w) = IF w = nothing THEN f ELSE e.store[w]
    BY DEF Line
  <1>4. \A q \in Resource : q # r => e.store[q] = d.store[q]  BY DEF Taken
  <1>5. ASSUME NEW q \in Resource
        PROVE  DOMAIN d.store[q] \subseteq Nat \ {0}
    <2>1. d.store[q] \in Seq(Split)  BY DEF Taken, ServerChannel
    <2>2. QED  BY <2>1, LenProperties
  <1>6. d.cache = e.cache  BY DEF Taken
  <1> HIDE DEF s, t, c, f
  <1>7. /\ n \in Nat /\ DOMAIN c = 1 .. n /\ DOMAIN f = 1 .. n + 1 /\ f[n + 1] = x
        /\ \A i \in 1 .. n : f[i] = c[i]
    BY <1>2, AppendProperties, LenProperties
  <1>8. /\ m \in Nat \ {0} /\ DOMAIN s = 1 .. m /\ DOMAIN t = 1 .. m - 1 /\ Head(s) = s[1]
    BY <1>2, EmptySeq, LenProperties
  <1> HIDE DEF n, m
  <1>9. \A w \in Lines : \A i : Adds(e, w, i) =>
            /\ i \in Nat \ {0}
            /\ IF last(w, i)
               THEN /\ Adds(d, r, 1) /\ Line(e, w)[i].key = Line(d, r)[1].key
               ELSE IF w = r
               THEN /\ Adds(d, r, i + 1) /\ Line(e, w)[i].key = Line(d, r)[i + 1].key
               ELSE /\ Adds(d, w, i) /\ Line(e, w)[i].key = Line(d, w)[i].key
    <2> SUFFICES ASSUME NEW w \in Lines, NEW i, Adds(e, w, i)
                 PROVE  /\ i \in Nat \ {0}
                        /\ IF last(w, i)
                           THEN /\ Adds(d, r, 1) /\ Line(e, w)[i].key = Line(d, r)[1].key
                           ELSE IF w = r
                           THEN /\ Adds(d, r, i + 1)
                                /\ Line(e, w)[i].key = Line(d, r)[i + 1].key
                           ELSE /\ Adds(d, w, i) /\ Line(e, w)[i].key = Line(d, w)[i].key
      OBVIOUS
    <2>1. Line(d, r) = s /\ Line(e, r) = t  BY <1>1, <1>3 DEF s, t
    <2>2. CASE w = nothing
      <3>1. Line(e, w) = f /\ Line(d, w) = c  BY <1>3, <2>2
      <3>2. i \in 1 .. n + 1 /\ f[i].action = "added"  BY <1>7, <3>1 DEF Adds
      <3>3. CASE i = n + 1
        <4>1. f[i] = x /\ 1 \in DOMAIN s  BY <1>7, <1>8, <3>3
        <4>2. s[1].action = "added" /\ f[i].key = s[1].key  BY <1>2, <1>8, <3>2, <4>1
        <4>3. Adds(d, r, 1)  BY <2>1, <4>1, <4>2 DEF Adds
        <4>4. i \in Nat \ {0}  BY <1>7, <3>2
        <4>5. QED  BY <2>1, <2>2, <3>1, <3>3, <4>2, <4>3, <4>4
      <3>4. CASE i # n + 1
        <4>1. i \in 1 .. n /\ i \in Nat \ {0}  BY <1>7, <3>2, <3>4
        <4>2. f[i] = c[i]  BY <1>7, <4>1
        <4>3. Adds(d, w, i)  BY <1>7, <3>1, <3>2, <4>1, <4>2 DEF Adds
        <4>4. QED  BY <1>1, <2>2, <3>1, <3>4, <4>1, <4>2, <4>3
      <3>5. QED  BY <3>3, <3>4
    <2>3. CASE w = r
      <3>1. i \in 1 .. m - 1 /\ t[i].action = "added"  BY <1>8, <2>1, <2>3 DEF Adds
      <3>2. i \in Nat \ {0} /\ i + 1 \in 1 .. m  BY <1>8, <3>1
      <3>3. t[i].key = s[i + 1].key /\ t[i].action = s[i + 1].action
        BY <1>2, <3>1 DEF m
      <3>4. Adds(d, r, i + 1)  BY <1>8, <2>1, <3>1, <3>2, <3>3 DEF Adds
      <3>5. QED  BY <1>1, <2>1, <2>3, <3>2, <3>3, <3>4
    <2>4. CASE w # nothing /\ w # r
      <3>1. Line(e, w) = Line(d, w) /\ Line(d, w) = d.store[w]  BY <1>1, <1>3, <1>4, <2>4
      <3>2. i \in Nat \ {0}  BY <1>1, <1>5, <2>4, <3>1 DEF Adds
      <3>3. Adds(d, w, i)  BY <3>1 DEF Adds
      <3>4. QED  BY <2>4, <3>1, <3>2, <3>3
    <2>5. QED  BY <2>2, <2>3, <2>4
  <1>10. \A w \in Lines : \A i \in Nat :
            /\ line[w][i] = IF last(w, i) THEN r ELSE w
            /\ place[w][i] = IF last(w, i) THEN 1 ELSE IF w = r THEN i + 1 ELSE i
    OBVIOUS
  <1> HIDE DEF line, place
  <1>11. \A w \in Lines : \A i : Adds(e, w, i) =>
            /\ line[w][i] \in Lines
            /\ Adds(d, line[w][i], place[w][i])
            /\ Line(e, w)[i].key = Line(d, line[w][i])[place[w][i]].key
    <2> TAKE w \in Lines
    <2> TAKE i
    <2> HAVE Adds(e, w, i)
    <2>1. CASE last(w, i)
      <3>1. line[w][i] = r /\ place[w][i] = 1  BY <1>9, <1>10, <2>1
      <3>2. QED  BY <1>1, <1>9, <2>1, <3>1
    <2>2. CASE ~ last(w, i) /\ w = r
      <3>1. line[w][i] = r /\ place[w][i] = i + 1  BY <1>9, <1>10, <2>2
      <3>2. QED  BY <1>1, <1>9, <2>2, <3>1
    <2>3. CASE ~ last(w, i) /\ w # r
      <3>1. line[w][i] = w /\ place[w][i] = i  BY <1>9, <1>10, <2>3
      <3>2. QED  BY <1>9, <2>3, <3>1
    <2>4. QED  BY <2>1, <2>2, <2>3
  <1>12. \A w, x0 \in Lines : \A i, j :
            /\ Adds(e, w, i) /\ Adds(e, x0, j)
            /\ line[w][i] = line[x0][j] /\ place[w][i] = place[x0][j]
            => w = x0 /\ i = j
    <2> SUFFICES ASSUME NEW w \in Lines, NEW x0 \in Lines, NEW i, NEW j,
                        Adds(e, w, i), Adds(e, x0, j),
                        line[w][i] = line[x0][j], place[w][i] = place[x0][j]
                 PROVE  w = x0 /\ i = j
      OBVIOUS
    <2>1. i \in Nat \ {0} /\ j \in Nat \ {0}  BY <1>9
    <2>2. w = r => i + 1 # 1  BY <2>1
    <2>3. x0 = r => j + 1 # 1  BY <2>1
    <2>4. /\ line[w][i] = IF last(w, i) THEN r ELSE w
          /\ line[x0][j] = IF last(x0, j) THEN r ELSE x0
          /\ place[w][i] = IF last(w, i) THEN 1 ELSE IF w = r THEN i + 1 ELSE i
          /\ place[x0][j] = IF last(x0, j) THEN 1 ELSE IF x0 = r THEN j + 1 ELSE j
      BY <1>10, <2>1
    <2>5. CASE last(w, i)
      <3>1. line[w][i] = r /\ place[w][i] = 1  BY <2>4, <2>5
      <3>2. last(x0, j)  BY <2>3, <2>4, <3>1
      <3>3. QED  BY <2>5, <3>2
    <2>6. CASE ~ last(w, i)
      <3>1. line[w][i] = w /\ place[w][i] = IF w = r THEN i + 1 ELSE i  BY <2>4, <2>6
      <3>2. ~ last(x0, j)  BY <2>2, <2>4, <3>1
      <3>3. w = x0  BY <2>4, <3>1, <3>2
      <3>4. CASE w = r
        <4>1. i + 1 = j + 1  BY <2>4, <3>1, <3>2, <3>3, <3>4
        <4>2. QED  BY <2>1, <3>3, <4>1
      <3>5. CASE w # r  BY <2>4, <3>1, <3>2, <3>3, <3>5
      <3>6. QED  BY <3>4, <3>5
    <2>7. QED  BY <2>5, <2>6
  <1>13. Lone(e)
    <2> HIDE DEF last
    <2>1. From(d, e, line, place)  BY <1>11, <1>12 DEF From
    <2>2. QED  BY <2>1, LoneFrom
  <1>14. Locks(e)
    <2> SUFFICES ASSUME NEW w \in Lines, NEW i, Adds(e, w, i)
                 PROVE  /\ e.cache[Line(e, w)[i].key] # Null
                        /\ e.cache[Line(e, w)[i].key].locked
      BY DEF Locks
    <2>1. /\ line[w][i] \in Lines
          /\ Adds(d, line[w][i], place[w][i])
          /\ Line(e, w)[i].key = Line(d, line[w][i])[place[w][i]].key
      BY <1>11
    <2>2. QED  BY <1>6, <2>1 DEF Locks
  <1>15. QED  BY <1>13, <1>14

(* A commit takes the first of the commits and unlocks its message. *)
LEMMA CommittedWhole ==
    ASSUME NEW d \in ServerChannel, d.commits # <<>>, NEW seen, NEW known,
           ServerWhole(d, seen, known), NEW e, e = Committed(d)
    PROVE  ServerWhole(e, seen, known)
  <1> DEFINE c == d.commits
             s == Head(c)
             was == d.cache
             cache == CommitUpdate(was, s)
             rest == Tail(c)
             n == Len(c)
  <1>1. c \in Seq(Split) /\ was \in [Key -> Slot \cup {Null}]  BY DEF ServerChannel
  <1>2. e = [d EXCEPT !.cache = cache, !.commits = rest]  BY DEF Committed
  <1> HIDE DEF cache, rest
  <1>3. e.store = d.store /\ e.commits = rest /\ e.cache = cache
    BY <1>2 DEF ServerChannel
  <1> HIDE DEF c, was
  <1>4. /\ n \in Nat \ {0} /\ DOMAIN c = 1 .. n /\ DOMAIN rest = 1 .. n - 1 /\ s = c[1]
        /\ \A i \in 1 .. n - 1 : rest[i] = c[i + 1]
    BY <1>1, EmptySeq, HeadTailProperties, LenProperties DEF rest, c
  <1>5. s \in Split /\ s.key \in Key
    <2>1. s \in Split  BY <1>1, <1>4, ElementOfSeq
    <2>2. QED  BY <2>1 DEF Split
  <1> HIDE DEF s, n
  <1>6. /\ nothing \in Lines /\ nothing \notin Resource /\ Line(d, nothing) = c
        /\ Line(e, nothing) = rest
        /\ \A w \in Lines : w # nothing => Line(e, w) = Line(d, w)
    BY <1>3, NullAssumption DEF Lines, Line, nothing, c
  <1>7. \A w \in Lines : \A i : Adds(e, w, i) =>
            IF w = nothing
            THEN /\ i \in Nat \ {0} /\ Adds(d, w, i + 1) /\ Line(e, w)[i] = Line(d, w)[i + 1]
            ELSE Adds(d, w, i) /\ Line(e, w)[i] = Line(d, w)[i]
    <2> SUFFICES ASSUME NEW w \in Lines, NEW i, Adds(e, w, i)
                 PROVE  IF w = nothing
                        THEN /\ i \in Nat \ {0} /\ Adds(d, w, i + 1)
                             /\ Line(e, w)[i] = Line(d, w)[i + 1]
                        ELSE Adds(d, w, i) /\ Line(e, w)[i] = Line(d, w)[i]
      OBVIOUS
    <2>1. CASE w = nothing
      <3>1. i \in 1 .. n - 1 /\ rest[i].action = "added"  BY <1>4, <1>6, <2>1 DEF Adds
      <3>2. i \in Nat \ {0} /\ i + 1 \in 1 .. n /\ rest[i] = c[i + 1]  BY <1>4, <3>1
      <3>3. Adds(d, w, i + 1)  BY <1>4, <1>6, <2>1, <3>1, <3>2 DEF Adds
      <3>4. QED  BY <1>6, <2>1, <3>2, <3>3
    <2>2. CASE w # nothing  BY <1>6, <2>2 DEF Adds
    <2>3. QED  BY <2>1, <2>2
  <1>8. Lone(e)
    <2>1. Lone(d)  BY DEF ServerWhole
    <2> SUFFICES ASSUME NEW w \in Lines, NEW x \in Lines, NEW i, NEW j,
                        Adds(e, w, i), Adds(e, x, j), Line(e, w)[i].key = Line(e, x)[j].key
                 PROVE  w = x /\ i = j
      BY DEF Lone
    <2>2. CASE w = nothing
      <3>1. /\ i \in Nat \ {0} /\ Adds(d, w, i + 1) /\ Line(e, w)[i] = Line(d, w)[i + 1]
        BY <1>7, <2>2
      <3>2. CASE x = nothing
        <4>1. /\ j \in Nat \ {0} /\ Adds(d, x, j + 1) /\ Line(e, x)[j] = Line(d, x)[j + 1]
          BY <1>7, <3>2
        <4>2. i + 1 = j + 1  BY <2>1, <3>1, <4>1 DEF Lone
        <4>3. QED  BY <2>2, <3>1, <3>2, <4>1, <4>2
      <3>3. CASE x # nothing
        <4>1. Adds(d, x, j) /\ Line(e, x)[j] = Line(d, x)[j]  BY <1>7, <3>3
        <4>2. w = x  BY <2>1, <3>1, <4>1 DEF Lone
        <4>3. QED  BY <2>2, <3>3, <4>2
      <3>4. QED  BY <3>2, <3>3
    <2>3. CASE w # nothing
      <3>1. Adds(d, w, i) /\ Line(e, w)[i] = Line(d, w)[i]  BY <1>7, <2>3
      <3>2. CASE x = nothing
        <4>1. Adds(d, x, j + 1) /\ Line(e, x)[j] = Line(d, x)[j + 1]  BY <1>7, <3>2
        <4>2. w = x  BY <2>1, <3>1, <4>1 DEF Lone
        <4>3. QED  BY <2>3, <3>2, <4>2
      <3>3. CASE x # nothing
        <4>1. Adds(d, x, j) /\ Line(e, x)[j] = Line(d, x)[j]  BY <1>7, <3>3
        <4>2. QED  BY <2>1, <3>1, <4>1 DEF Lone
      <3>4. QED  BY <3>2, <3>3
    <2>4. QED  BY <2>2, <2>3
  <1>9. s.action = "added" => Adds(d, nothing, 1) /\ Line(d, nothing)[1] = s
    BY <1>4, <1>6 DEF Adds
  <1>10. s.action = "added" => was[s.key] # Null /\ was[s.key].locked
    BY <1>6, <1>9 DEF ServerWhole, Locks, was
  <1>11. \A k \in Key : cache[k] = IF s.action = "added" /\ k = s.key
                                   THEN UpdatedSlot(was[k], s) ELSE was[k]
    BY <1>1, <1>5, <1>10 DEF CommitUpdate, cache
  <1>12. Locks(e)
    <2> SUFFICES ASSUME NEW w \in Lines, NEW i, Adds(e, w, i)
                 PROVE  /\ cache[Line(e, w)[i].key] # Null
                        /\ cache[Line(e, w)[i].key].locked
      BY <1>3 DEF Locks
    <2>1. PICK j : /\ Adds(d, w, j) /\ Line(e, w)[i] = Line(d, w)[j]
                   /\ w = nothing => j # 1
      <3>1. CASE w = nothing
        <4>1. i \in Nat \ {0} /\ Adds(d, w, i + 1) /\ Line(e, w)[i] = Line(d, w)[i + 1]
          BY <1>7, <3>1
        <4>2. i + 1 # 1  BY <4>1
        <4>3. QED  BY <4>1, <4>2
      <3>2. CASE w # nothing  BY <1>7, <3>2
      <3>3. QED  BY <3>1, <3>2
    <2> DEFINE q == Line(d, w)[j].key
    <2>2. was[q] # Null /\ was[q].locked  BY <2>1 DEF ServerWhole, Locks, was
    <2>3. s.action = "added" => q # s.key
      BY <1>6, <1>9, <2>1 DEF ServerWhole, Lone
    <2>4. q \in Key  BY <2>1, LineTyped DEF Adds
    <2> HIDE DEF q
    <2>5. cache[q] = was[q]  BY <1>11, <2>3, <2>4
    <2>6. QED  BY <2>1, <2>2, <2>5 DEF q
  <1>13. \A i \in DOMAIN rest : Whole(rest[i])
    <2> SUFFICES ASSUME NEW i \in 1 .. n - 1  PROVE Whole(rest[i])
      BY <1>4
    <2>1. i + 1 \in 1 .. n /\ rest[i] = c[i + 1]  BY <1>4
    <2>2. QED  BY <1>4, <2>1 DEF ServerWhole, c
  <1>14. Whole(s)  BY <1>4 DEF ServerWhole, c
  <1>15. ASSUME NEW k \in Key, cache[k] # Null
         PROVE  SlotWhole(cache[k])
    <2>1. CASE s.action = "added" /\ k = s.key
      <3> DEFINE slot == was[k]
      <3>1. slot # Null /\ slot.locked /\ SlotWhole(slot)
        BY <1>10, <2>1 DEF ServerWhole, was
      <3>2. slot.csize = "plain"  BY <3>1 DEF SlotWhole
      <3>3. cache[k] = UpdatedSlot(slot, s)  BY <1>11, <2>1
      <3> HIDE DEF slot
      <3>4. UpdatedSlot(slot, s) = [locked |-> FALSE, csize |-> s.csize, data |-> s.data]
        BY <3>2 DEF UpdatedSlot
      <3>5. QED  BY <1>14, <3>3, <3>4 DEF SlotWhole, Whole
    <2>2. CASE ~ (s.action = "added" /\ k = s.key)
      <3>1. cache[k] = was[k]  BY <1>11, <2>2
      <3>2. QED  BY <1>15, <3>1 DEF ServerWhole, was
    <2>3. QED  BY <2>1, <2>2
  <1>16. QED  BY <1>3, <1>8, <1>12, <1>13, <1>15 DEF ServerWhole

(* The image of a split that is committed is drawn. *)
LEMMA ServerCommitWhole ==
    ASSUME TypeOK, NEW seen \in SUBSET Pairs, NEW known, NEW a, a = Shape(server, seen),
           NEW b \in Shapes, Reads(a, Head(toServer), b, known), ~ failed, ServerCommit,
           DataWhole(seen, known)
    PROVE  DataWhole(b.seen, known)'
  <1> DEFINE m == Head(toServer)
             d == server
             e == server'
             s == Head(d.commits)
  <1>1. /\ m.type = "commit" /\ disk' = disk /\ toClient' = toClient
        /\ failed' = ~ CanCommit(d, m.resource, m.position)
        /\ failed' = FALSE => e = Committed(d)
        /\ drawn' = IF failed' \/ ~ m.commit THEN drawn
                    ELSE Expanded(s.key, s.data, s.csize)
    BY DEF ServerCommit
  <1>2. failed' = FALSE
    <2>1. Follows(b)  BY ServerCommitFits
    <2>2. QED  BY <2>1 DEF Follows
  <1>3. d.commits # <<>>  BY <1>1, <1>2 DEF CanCommit
  <1>4. b.seen = seen
    <2>1. ReadsCommit(a, m, b)  BY <1>1, ReadsByType
    <2>2. a.seen = seen  BY DEF Shape
    <2>3. QED  BY <2>1, <2>2 DEF ReadsCommit
  <1>5. ServerWhole(d, seen, known)  BY DEF DataWhole
  <1>6. d \in ServerChannel  BY ServerSided
  <1> HIDE DEF d, e
  <1>7. ServerWhole(e, seen, known)  BY <1>1, <1>2, <1>3, <1>5, <1>6, CommittedWhole
  <1>8. Whole(s)
    <2>1. d.commits \in Seq(Split)  BY <1>6 DEF ServerChannel
    <2>2. 1 \in DOMAIN d.commits /\ s = d.commits[1]  BY <1>3, <2>1, SkeletonTail
    <2>3. QED  BY <1>5, <2>2 DEF ServerWhole
  <1>9. DrawnIsWhole'
    <2>1. DrawnIsWhole  BY DEF DataWhole
    <2>2. Expanded(s.key, s.data, s.csize).image = "whole"  BY <1>8, ExpandedWhole
    <2>3. QED  BY <1>1, <2>1, <2>2 DEF DrawnIsWhole
  <1>10. QED  BY <1>1, <1>4, <1>7, <1>9 DEF DataWhole, Heard, FilesWhole, e

(* A split that is complete leaves a sound file, and the next one may be found. *)
LEMMA CompletesWhole ==
    ASSUME TypeOK, NEW r \in Resource, server.store[r] # <<>>, NEW s \in Split,
           s.key = Head(server.store[r]).key, s.action = Head(server.store[r]).action, Whole(s),
           NEW file, file \in IF Saves(s) THEN SavedFiles(s) ELSE {disk[s.key]},
           ServerCompletes(r, s, file), server' \in ServerChannel, drawn' = drawn,
           NEW seen, NEW known, DataWhole(seen, known)
    PROVE  \E more : known \subseteq more /\ DataWhole(seen, more)'
  <1> DEFINE d == server
             e == server'
             was == d.store[r]
             files == [disk EXCEPT ![s.key] = file]
             rest == Tail(was)
             again == Retried(rest)
             next == Head(rest)
             k == next.key
             head == LoadedFrom(next, files[k])
             left == IF again THEN <<head>> \o Tail(rest) ELSE rest
             last == FileAfterLoad(next, files[k])
             n == Len(was)
  <1>0. PICK more : more = IF again /\ head.state = "loaded" THEN known \cup {<<r, k>>} ELSE known
    OBVIOUS
  <1>1. /\ e = [d EXCEPT !.commits = Append(d.commits, s),
                         !.store = [d.store EXCEPT ![r] = left]]
        /\ disk' = IF again THEN [files EXCEPT ![k] = last] ELSE files
        /\ toClient' = IF again /\ head.state = "loaded" THEN Append(toClient, Report(head))
                       ELSE toClient
    BY DEF ServerCompletes
  <1>2. file \in File \cup {Null} /\ s.key \in Key  BY SavedParts
  <1>3. d \in ServerChannel /\ was \in Seq(Split) /\ was # <<>>
    BY ServerSided DEF ServerChannel
  <1>4. /\ ServerWhole(d, seen, known) /\ FilesWhole(disk) /\ known \subseteq seen
        /\ Heard(known) /\ DrawnIsWhole
    BY DEF DataWhole
  <1>5. files \in [Key -> File \cup {Null}] /\ FilesWhole(files)
    <2>1. disk \in [Key -> File \cup {Null}]  BY DEF TypeOK
    <2>2. file # Null => file.whole /\ Whole(file)
      <3>1. CASE Saves(s)
        <4>1. file \in SavedFiles(s)  BY <3>1
        <4>2. file = Null \/ file = SavedFile(s)  BY <4>1 DEF SavedFiles
        <4>3. SavedFile(s).whole /\ Whole(SavedFile(s))  BY DEF SavedFile, Whole
        <4>4. QED  BY <4>2, <4>3
      <3>2. CASE ~ Saves(s)
        <4>1. file = disk[s.key]  BY <3>2
        <4>2. QED  BY <1>2, <1>4, <4>1 DEF FilesWhole
      <3>3. QED  BY <3>1, <3>2
    <2>3. \A q \in Key : files[q] = IF q = s.key THEN file ELSE disk[q]  BY <1>2, <2>1
    <2>4. files \in [Key -> File \cup {Null}]  BY <1>2, <2>1
    <2> HIDE DEF files
    <2>5. FilesWhole(files)  BY <1>4, <2>2, <2>3 DEF FilesWhole
    <2>6. QED  BY <2>4, <2>5
  <1> HIDE DEF d, e, was, files
  <1>6. /\ n \in Nat \ {0} /\ DOMAIN was = 1 .. n /\ Head(was) = was[1]
        /\ rest \in Seq(Split) /\ Len(rest) = n - 1 /\ DOMAIN rest = 1 .. n - 1
        /\ \A i \in 1 .. n - 1 : rest[i] = was[i + 1]
    BY <1>3, EmptySeq, HeadTailProperties, LenProperties
  <1> HIDE DEF rest
  <1>7. StoreWhole(was, r, seen, known)  BY <1>4 DEF ServerWhole, was
  <1> HIDE DEF n
  <1>8. again => /\ n - 1 # 0 /\ 1 \in 1 .. n - 1 /\ next = rest[1] /\ next \in Split
                 /\ k \in Key /\ next.action = "discarded" /\ next.state = "missed"
    <2> SUFFICES ASSUME again
                 PROVE  /\ n - 1 # 0 /\ 1 \in 1 .. n - 1 /\ next = rest[1] /\ next \in Split
                        /\ k \in Key /\ next.action = "discarded" /\ next.state = "missed"
      OBVIOUS
    <2>1. rest # <<>> /\ next.action = "discarded" /\ next.state = "missed"  BY DEF Retried
    <2>2. next = rest[1] /\ next \in Split /\ 1 \in DOMAIN rest  BY <1>6, <2>1, SkeletonTail
    <2>3. 1 \in 1 .. n - 1 /\ n - 1 # 0  BY <1>6, <2>2
    <2>4. k \in Key  BY <2>2 DEF Split
    <2>5. QED  BY <2>1, <2>2, <2>3, <2>4
  <1>9. ASSUME NEW i \in 1 .. n - 1
        PROVE  /\ rest[i].resource = r /\ SplitWhole(rest[i], r, known)
               /\ <<r, rest[i].key>> \in seen
               /\ \A j \in 1 .. n - 1 : rest[i].key = rest[j].key => i = j
    <2>1. i + 1 \in 1 .. n /\ rest[i] = was[i + 1]  BY <1>6
    <2>2. ASSUME NEW j \in 1 .. n - 1, rest[i].key = rest[j].key
          PROVE  i = j
      <3>1. j + 1 \in 1 .. n /\ rest[j] = was[j + 1]  BY <1>6
      <3>2. i + 1 = j + 1  BY <1>6, <1>7, <2>1, <2>2, <3>1 DEF StoreWhole
      <3>3. i \in Nat /\ j \in Nat  BY <1>6
      <3>4. QED  BY <3>2, <3>3
    <2>3. /\ was[i + 1].resource = r /\ SplitWhole(was[i + 1], r, known)
          /\ <<r, was[i + 1].key>> \in seen
      BY <1>6, <1>7, <2>1 DEF StoreWhole
    <2>4. QED  BY <2>1, <2>2, <2>3
  <1>10. again => /\ head \in Split /\ head.resource = r /\ head.key = k
                  /\ head.action = next.action /\ SplitWhole(head, r, more) /\ last = files[k]
    <2> SUFFICES ASSUME again
                 PROVE  /\ head \in Split /\ head.resource = r /\ head.key = k
                        /\ head.action = next.action /\ SplitWhole(head, r, more)
                        /\ last = files[k]
      OBVIOUS
    <2> DEFINE f == files[k]
    <2>1. f \in File \cup {Null} /\ (f # Null => f.whole /\ Whole(f))
      BY <1>5, <1>8 DEF FilesWhole
    <2>2. /\ next \in Split /\ next.resource = r /\ SplitWhole(next, r, known)
          /\ next.state # "loaded" /\ next.action # "hit"
      BY <1>8, <1>9
    <2>3. <<r, k>> \notin known  BY <2>2 DEF SplitWhole
    <2>4. <<r, k>> \in more <=> LoadedFrom(next, f).state = "loaded"  BY <1>0, <2>3
    <2>5. head = LoadedFrom(next, f) /\ last = FileAfterLoad(next, f)  OBVIOUS
    <2> HIDE DEF f, next, head, last
    <2>6. <<r, next.key>> \in more <=> LoadedFrom(next, f).state = "loaded"  BY <2>4
    <2>7. /\ SplitWhole(LoadedFrom(next, f), r, more)
          /\ LoadedFrom(next, f).key = next.key /\ LoadedFrom(next, f).action = next.action
          /\ FileAfterLoad(next, f) = f
      BY <2>1, <2>2, <2>6, LoadedWhole
    <2>8. head \in Split /\ Outline(head) = Outline(next)  BY <2>1, <2>2, <2>5, LoadedParts
    <2>9. head.resource = r  BY <2>2, <2>8 DEF Outline
    <2>10. QED  BY <2>5, <2>7, <2>8, <2>9 DEF f
  <1>11. disk' = files  BY <1>1, <1>5, <1>8, <1>10
  <1>12. /\ known \subseteq more /\ more \subseteq seen
         /\ more \subseteq known \cup {<<r, k>>}
         /\ ~ again => more = known
    <2>1. again => <<r, k>> \in seen  BY <1>8, <1>9
    <2>2. QED  BY <1>0, <1>4, <2>1
  <1>13. Heard(more)'
    <2>1. CASE again /\ head.state = "loaded"
      <3>1. toClient' = Append(toClient, Report(head))  BY <1>1, <2>1
      <3>2. <<head.resource, head.key>> \in more  BY <1>0, <1>10, <2>1
      <3>3. head \in Split  BY <1>10, <2>1
      <3> HIDE DEF head
      <3>4. QED  BY <1>4, <1>12, <3>1, <3>2, <3>3, HeardReport
    <2>2. CASE ~ (again /\ head.state = "loaded")
      <3>1. toClient' = toClient  BY <1>1, <2>2
      <3>2. QED  BY <1>4, <1>12, <3>1 DEF Heard
    <2>3. QED  BY <2>1, <2>2
  <1> HIDE DEF next, head, last
  <1>14. /\ left \in Seq(Split) /\ Len(left) = n - 1 /\ DOMAIN left = 1 .. n - 1
         /\ \A i \in 1 .. n - 1 : left[i] = IF again /\ i = 1 THEN head ELSE rest[i]
    <2>1. CASE again
      <3> DEFINE one == <<head>>
                 tail == Tail(rest)
      <3>1. head \in Split /\ rest # <<>>  BY <1>10, <2>1 DEF Retried
      <3>2. one \in Seq(Split) /\ Len(one) = 1 /\ one[1] = head  BY <3>1
      <3>3. /\ tail \in Seq(Split) /\ Len(tail) = n - 2 /\ n - 1 \in Nat /\ n - 1 # 0
            /\ \A i \in 1 .. n - 2 : tail[i] = rest[i + 1]
        BY <1>6, <1>8, <2>1, <3>1, HeadTailProperties
      <3>4. left = one \o tail  BY <2>1
      <3> HIDE DEF one, tail, left
      <3>5. /\ left \in Seq(Split) /\ Len(left) = 1 + (n - 2)
            /\ \A i \in 1 .. 1 + (n - 2) : left[i] = IF i <= 1 THEN one[i] ELSE tail[i - 1]
        <4> DEFINE both == one \o tail
        <4>1. /\ both \in Seq(Split) /\ Len(both) = Len(one) + Len(tail)
              /\ \A i \in 1 .. Len(one) + Len(tail) :
                    both[i] = IF i <= Len(one) THEN one[i] ELSE tail[i - Len(one)]
          BY <3>2, <3>3, ConcatProperties
        <4>2. left = both  BY <3>4
        <4> HIDE DEF both
        <4>3. QED  BY <3>2, <3>3, <4>1, <4>2
      <3>6. Len(left) = n - 1 /\ DOMAIN left = 1 .. n - 1
        BY <1>6, <3>5, LenProperties
      <3>7. ASSUME NEW i \in 1 .. n - 1
            PROVE  left[i] = IF again /\ i = 1 THEN head ELSE rest[i]
        <4>1. CASE i = 1
          <5>1. left[i] = one[1]  BY <1>6, <3>5, <4>1
          <5>2. QED  BY <2>1, <3>2, <4>1, <5>1
        <4>2. CASE i # 1
          <5>1. i \in 1 .. 1 + (n - 2) /\ i - 1 \in 1 .. n - 2 /\ ~ (i <= 1) /\ (i - 1) + 1 = i
            BY <1>6, <4>2
          <5>2. left[i] = tail[i - 1] /\ tail[i - 1] = rest[i]  BY <3>3, <3>5, <5>1
          <5>3. QED  BY <4>2, <5>2
        <4>3. QED  BY <4>1, <4>2
      <3>8. QED  BY <3>5, <3>6, <3>7
    <2>2. CASE ~ again
      <3>1. left = rest  BY <2>2
      <3>2. QED  BY <1>6, <2>2, <3>1
    <2>3. QED  BY <2>1, <2>2
  <1> HIDE DEF again, left
  <1>15. ASSUME NEW i \in 1 .. n - 1
         PROVE  left[i].key = rest[i].key /\ left[i].action = rest[i].action
    <2>1. again => head.key = rest[1].key /\ head.action = rest[1].action  BY <1>8, <1>10
    <2>2. QED  BY <1>14, <2>1
  <1>16. StoreWhole(left, r, seen, more)
    <2> SUFFICES ASSUME NEW i \in 1 .. n - 1
                 PROVE  /\ left[i].resource = r /\ SplitWhole(left[i], r, more)
                        /\ <<r, left[i].key>> \in seen
                        /\ \A j \in 1 .. n - 1 : left[i].key = left[j].key => i = j
      BY <1>14 DEF StoreWhole
    <2>1. \A j \in 1 .. n - 1 : left[i].key = left[j].key => i = j  BY <1>9, <1>15
    <2>2. <<r, left[i].key>> \in seen  BY <1>9, <1>15
    <2>3. CASE again /\ i = 1
      <3>1. left[i] = head  BY <1>14, <2>3
      <3>2. QED  BY <1>10, <2>1, <2>2, <2>3, <3>1
    <2>4. CASE ~ (again /\ i = 1)
      <3>1. left[i] = rest[i]  BY <1>14, <2>4
      <3>2. rest[i].resource = r /\ SplitWhole(rest[i], r, known)  BY <1>9
      <3>3. again => rest[i].key # k  BY <1>8, <1>9, <2>4
      <3>4. SplitWhole(rest[i], r, more)
        <4>1. CASE again  BY <1>12, <3>2, <3>3, <4>1, OthersWhole
        <4>2. CASE ~ again  BY <1>12, <3>2, <4>2
        <4>3. QED  BY <4>1, <4>2
      <3>5. QED  BY <2>1, <2>2, <3>1, <3>2, <3>4
    <2>5. QED  BY <2>3, <2>4
  <1>17. /\ e \in ServerChannel /\ d.commits \in Seq(Split)
         /\ d.store \in [Resource -> Seq(Split)]
    BY <1>3 DEF ServerChannel, e
  <1>18. /\ e.commits = Append(d.commits, s) /\ e.cache = d.cache
         /\ \A q \in Resource : e.store[q] = IF q = r THEN left ELSE d.store[q]
    BY <1>1, <1>3, <1>17 DEF ServerChannel
  <1>19. Lone(e) /\ Locks(e)
    <2>1. /\ Len(e.store[r]) = Len(d.store[r]) - 1
          /\ \A i \in 1 .. Len(d.store[r]) - 1 :
                /\ e.store[r][i].key = d.store[r][i + 1].key
                /\ e.store[r][i].action = d.store[r][i + 1].action
      BY <1>6, <1>14, <1>15, <1>18 DEF n, was
    <2>2. s.key = Head(d.store[r]).key /\ s.action = Head(d.store[r]).action  BY DEF d
    <2>3. d.store[r] # <<>>  BY <1>3 DEF was
    <2>4. Taken(d, r, s, e)  BY <1>3, <1>17, <1>18, <2>1, <2>2, <2>3 DEF Taken
    <2>5. QED  BY <1>4, <2>4, TakenLone DEF ServerWhole
  <1>20. ASSUME NEW q \in Resource
         PROVE  StoreWhole(e.store[q], q, seen, more)
    <2>1. CASE q = r  BY <1>16, <1>18, <2>1
    <2>2. CASE q # r
      <3> DEFINE t == d.store[q]
      <3>1. e.store[q] = t /\ StoreWhole(t, q, seen, known)
        BY <1>4, <1>18, <2>2 DEF ServerWhole
      <3> HIDE DEF t
      <3>2. ASSUME NEW i \in DOMAIN t  PROVE SplitWhole(t[i], q, more)
        <4>1. SplitWhole(t[i], q, known)  BY <3>1 DEF StoreWhole
        <4>2. QED  BY <1>12, <2>2, <4>1, OthersWhole
      <3>3. QED  BY <3>1, <3>2 DEF StoreWhole
    <2>3. QED  BY <2>1, <2>2
  <1>21. \A i \in DOMAIN e.commits : Whole(e.commits[i])
    <2> DEFINE c == d.commits
               f == Append(c, s)
    <2>1. /\ Len(c) \in Nat /\ DOMAIN c = 1 .. Len(c) /\ DOMAIN f = 1 .. Len(c) + 1
          /\ f[Len(c) + 1] = s /\ \A i \in 1 .. Len(c) : f[i] = c[i]
      BY <1>17, AppendProperties, LenProperties
    <2>2. \A i \in DOMAIN c : Whole(c[i])  BY <1>4 DEF ServerWhole
    <2>3. e.commits = f  BY <1>18
    <2> HIDE DEF c, f
    <2>4. ASSUME NEW i \in 1 .. Len(c) + 1  PROVE Whole(f[i])
      <3>1. i \in 1 .. Len(c) \/ i = Len(c) + 1  BY <2>1
      <3>2. QED  BY <2>1, <2>2, <3>1
    <2>5. QED  BY <2>1, <2>3, <2>4
  <1>22. ServerWhole(e, seen, more)
    BY <1>4, <1>18, <1>19, <1>20, <1>21 DEF ServerWhole
  <1>23. DataWhole(seen, more)'
    <2>1. FilesWhole(disk')  BY <1>5, <1>11
    <2>2. DrawnIsWhole'  BY <1>4 DEF DrawnIsWhole
    <2>3. QED  BY <1>12, <1>13, <1>22, <2>1, <2>2 DEF DataWhole, e
  <1>24. QED  BY <1>12, <1>23

(* A split that is not complete stays at the head of its store. *)
LEMMA FirstWhole ==
    ASSUME NEW d \in ServerChannel, NEW r \in Resource, d.store[r] # <<>>, NEW s \in Split,
           s.key = Head(d.store[r]).key, s.action = Head(d.store[r]).action, s.resource = r,
           NEW seen, NEW known, SplitWhole(s, r, known), ServerWhole(d, seen, known),
           NEW e, e = [d EXCEPT !.store[r][1] = s]
    PROVE  ServerWhole(e, seen, known)
  <1> DEFINE was == d.store[r]
             new == [was EXCEPT ![1] = s]
             store == [d.store EXCEPT ![r] = new]
             n == Len(was)
  <1>1. was \in Seq(Split) /\ was # <<>> /\ d.store \in [Resource -> Seq(Split)]
    BY DEF ServerChannel
  <1>2. e = [d EXCEPT !.store = store]  OBVIOUS
  <1> HIDE DEF store
  <1>3. e.store = store /\ e.commits = d.commits /\ e.cache = d.cache
    BY <1>2 DEF ServerChannel
  <1>4. \A q \in Resource : store[q] = IF q = r THEN new ELSE d.store[q]
    BY <1>1 DEF store
  <1>5. s.key = was[1].key /\ s.action = was[1].action
    <2> HIDE DEF was
    <2>1. Head(was) = was[1]  BY <1>1, SkeletonTail
    <2>2. QED  BY <2>1 DEF was
  <1> HIDE DEF was, new
  <1>6. /\ n \in Nat \ {0} /\ DOMAIN was = 1 .. n /\ DOMAIN new = 1 .. n
        /\ \A i \in 1 .. n : new[i] = IF i = 1 THEN s ELSE was[i]
    BY <1>1, EmptySeq, LenProperties, SkeletonFirst DEF new
  <1> HIDE DEF n
  <1>7. \A i \in 1 .. n : new[i].key = was[i].key /\ new[i].action = was[i].action
    BY <1>5, <1>6
  <1>8. \A w \in Lines : \A i :
            /\ Adds(e, w, i) <=> Adds(d, w, i)
            /\ Adds(d, w, i) => Line(e, w)[i].key = Line(d, w)[i].key
    <2> SUFFICES ASSUME NEW w \in Lines, NEW i
                 PROVE  /\ Adds(e, w, i) <=> Adds(d, w, i)
                        /\ Adds(d, w, i) => Line(e, w)[i].key = Line(d, w)[i].key
      OBVIOUS
    <2>1. CASE w = r
      <3>1. Line(e, w) = new /\ Line(d, w) = was
        BY <1>3, <1>4, <2>1, NullAssumption DEF Line, nothing, was
      <3>2. QED  BY <1>6, <1>7, <3>1 DEF Adds
    <2>2. CASE w # r
      <3>1. Line(e, w) = Line(d, w)  BY <1>3, <1>4, <2>2 DEF Line, Lines
      <3>2. QED  BY <3>1 DEF Adds
    <2>3. QED  BY <2>1, <2>2
  <1>9. Lone(e) /\ Locks(e)  BY <1>3, <1>8 DEF ServerWhole, Lone, Locks
  <1>10. StoreWhole(was, r, seen, known)  BY DEF ServerWhole, was
  <1>11. StoreWhole(new, r, seen, known)
    <2> SUFFICES ASSUME NEW i \in 1 .. n
                 PROVE  /\ new[i].resource = r /\ SplitWhole(new[i], r, known)
                        /\ <<r, new[i].key>> \in seen
                        /\ \A j \in 1 .. n : new[i].key = new[j].key => i = j
      BY <1>6 DEF StoreWhole
    <2>1. /\ was[i].resource = r /\ SplitWhole(was[i], r, known)
          /\ <<r, was[i].key>> \in seen
          /\ \A j \in 1 .. n : was[i].key = was[j].key => i = j
      BY <1>6, <1>10 DEF StoreWhole
    <2>2. new[i].resource = r /\ SplitWhole(new[i], r, known)  BY <1>6, <2>1
    <2>3. QED  BY <1>7, <2>1, <2>2
  <1>12. \A q \in Resource : StoreWhole(e.store[q], q, seen, known)
    BY <1>3, <1>4, <1>11 DEF ServerWhole
  <1>13. QED  BY <1>3, <1>9, <1>12 DEF ServerWhole

(* A packet of a split, the last one included. *)
LEMMA ServerDataWhole ==
    ASSUME TypeOK, NEW seen \in SUBSET Pairs, NEW known, NEW a, a = Shape(server, seen),
           NEW b \in Shapes, Reads(a, Head(toServer), b, known), ~ failed, ServerData,
           DataWhole(seen, known)
    PROVE  \E more : known \subseteq more /\ DataWhole(b.seen, more)'
  <1> DEFINE m == Head(toServer)
             r == m.resource
             d == server
             s == Head(d.store[r])
             part == Receive(s, m)
             got == Got(Outline(s), m)
  <1>1. /\ toServer # <<>> /\ m.type = "data" /\ drawn' = drawn
        /\ failed' = (d.store[r] = <<>> \/ s.started = m.start \/ part.next > Chunks)
        /\ failed' = FALSE =>
              IF part.next # Chunks
              THEN /\ server' = [d EXCEPT !.store[r][1] = part]
                   /\ disk' = disk /\ toClient' = toClient
              ELSE \E file \in IF Saves(part) THEN SavedFiles(part) ELSE {disk[part.key]} :
                      ServerCompletes(r, part, file)
    BY DEF ServerData, Received
  <1>2. r \in Resource /\ DataParts(m)  BY <1>1, HeadParts DEF DataParts
  <1>3. IsShape(d, a)  BY BeforeParts
  <1>4. ReadsData(a, m, b, known)  BY <1>1, ReadsByType
  <1>5. d \in ServerChannel /\ d.store[r] \in Seq(Split)
    BY <1>2, ServerSided DEF ServerChannel
  <1>6. failed' = FALSE /\ server' \in ServerChannel
    <2>1. Follows(b)  BY ServerDataFits
    <2>2. QED  BY <2>1 DEF Follows
  <1>7. ServerWhole(d, seen, known)  BY DEF DataWhole
  <1>8. b.seen = seen
    <2>1. a.seen = seen  BY DEF Shape
    <2>2. QED  BY <1>4, <2>1 DEF ReadsData
  <1> HIDE DEF m, d, r, s, got, part
  <1>9. a.store[r] = Skeleton(d.store[r])  BY <1>2, <1>3 DEF IsShape
  <1>10. d.store[r] # <<>>
    <2>1. a.store[r] # <<>>  BY <1>4 DEF ReadsData, r
    <2>2. QED  BY <1>5, <1>9, <2>1, SkeletonParts
  <1>11. /\ s \in Split /\ Head(a.store[r]) = Outline(s)
         /\ s = d.store[r][1] /\ 1 \in DOMAIN d.store[r]
    BY <1>5, <1>9, <1>10, SkeletonTail DEF s
  <1>12. /\ s.started # m.start /\ got.next <= Chunks
         /\ m.abort => MayAbort(r, s, known)
    <2>1. Outline(s).started = s.started /\ Outline(s).action = s.action
          /\ Outline(s).key = s.key
      BY <1>11, OutlineParts
    <2>2. Head(a.store[m.resource]) = Outline(s)  BY <1>11 DEF r
    <2>3. m.abort => MayAbort(r, Outline(s), known)  BY <1>4, <2>2 DEF ReadsData, r
    <2>4. QED  BY <1>4, <2>1, <2>2, <2>3 DEF ReadsData, MayAbort, got
  <1>13. SplitWhole(s, r, known) /\ s.resource = r
    BY <1>2, <1>7, <1>11 DEF ServerWhole, StoreWhole
  <1>14. /\ part \in Split /\ Outline(part) = got
         /\ part.key = s.key /\ part.action = s.action /\ part.resource = r
         /\ part.next # Chunks => SplitWhole(part, r, known)
         /\ part.next = Chunks => Whole(part)
    <2>1. Got(Outline(s), m).next <= Chunks  BY <1>12 DEF got
    <2>2. part \in Split /\ Outline(part) = got
      BY <1>2, <1>11, <1>12, <2>1, ReceiveParts DEF part, got
    <2>3. /\ part.key = s.key /\ part.action = s.action
          /\ part.next # Chunks => SplitWhole(part, r, known)
          /\ part.next = Chunks => Whole(part)
      BY <1>2, <1>11, <1>12, <1>13, <2>1, ReceivedWhole DEF part
    <2>4. part.resource = r
      <3>1. got.resource = Outline(s).resource  BY DEF Got, got
      <3>2. Outline(s).resource = s.resource /\ Outline(part).resource = part.resource
        BY <1>11, <2>2, OutlineParts
      <3>3. QED  BY <1>13, <2>2, <3>1, <3>2
    <2>5. QED  BY <2>2, <2>3, <2>4
  <1>15. CASE part.next # Chunks
    <2>1. /\ server' = [d EXCEPT !.store[r][1] = part]
          /\ disk' = disk /\ toClient' = toClient
      BY <1>1, <1>6, <1>15
    <2> DEFINE e == server'
    <2> HIDE DEF e
    <2>2. e = [d EXCEPT !.store[r][1] = part]  BY <2>1 DEF e
    <2>3. ServerWhole(e, seen, known)
      BY <1>2, <1>5, <1>7, <1>10, <1>14, <1>15, <2>2, FirstWhole DEF s
    <2>4. DataWhole(seen, known)'
      BY <1>1, <2>1, <2>3 DEF DataWhole, Heard, FilesWhole, DrawnIsWhole, e
    <2>5. QED  BY <1>8, <2>4
  <1>16. CASE part.next = Chunks
    <2>1. PICK file \in IF Saves(part) THEN SavedFiles(part) ELSE {disk[part.key]} :
                 ServerCompletes(r, part, file)
      BY <1>1, <1>6, <1>16
    <2>2. /\ server.store[r] # <<>> /\ part.key = Head(server.store[r]).key
          /\ part.action = Head(server.store[r]).action
      BY <1>10, <1>14 DEF s, d
    <2>3. \E more : known \subseteq more /\ DataWhole(seen, more)'
      BY <1>1, <1>2, <1>6, <1>14, <1>16, <2>1, <2>2, CompletesWhole
    <2>4. QED  BY <1>8, <2>3
  <1>17. QED  BY <1>15, <1>16

-----------------------------------------------------------------------------
(* What is drawn *)

DataInv ==
    /\ Inv
    /\ \E seen \in SUBSET Pairs, a \in Shapes : \E known :
          a = Shape(server, seen) /\ Together(a, known) /\ DataWhole(seen, known)

(* Where no file of an earlier session is cut short, all that are there are sound. *)
LEMMA OldFilesWhole ==
    ASSUME "cut files" \notin May, NEW file \in OldFiles
    PROVE  file.whole /\ Whole(file)
  <1>1. file = OldFile(TRUE)  BY Zenon DEF OldFiles
  <1>2. QED  BY <1>1 DEF OldFile, Whole

(* The invariant holds when nothing was sent. *)
LEMMA DataInit ==
    ASSUME Init, \A file \in OldFiles : file.whole /\ Whole(file)
    PROVE  DataInv
  <1> DEFINE empty == [r \in Resource |-> <<>>]
             slots == [k \in Key |-> Null]
             d == server
             a == Shape(server, {})
  <1>1. /\ server = [resource |-> nothing, store |-> empty, commits |-> <<>>, cache |-> slots]
        /\ toServer = <<>> /\ toClient = <<>> /\ drawn = Null /\ sent = <<>>
        /\ disk \in [Key -> {Null} \cup OldFiles] /\ failed = FALSE
    BY DEF Init
  <1>2. Inv  BY InvInit
  <1>3. FilesWhole(disk)
    <2> SUFFICES ASSUME NEW k \in Key, disk[k] # Null
                 PROVE  disk[k].whole /\ Whole(disk[k])
      BY DEF FilesWhole
    <2>1. disk[k] \in OldFiles  BY <1>1
    <2>2. QED  BY <2>1
  <1>4. /\ \A r \in Resource : d.store[r] = <<>>
        /\ d.commits = <<>> /\ \A k \in Key : d.cache[k] = Null
    BY <1>1
  <1> HIDE DEF d
  <1>5. \A w \in Lines : Line(d, w) = <<>>  BY <1>4, NullAssumption DEF Lines, Line, nothing
  <1>6. Lone(d) /\ Locks(d)  BY <1>5 DEF Lone, Locks, Adds
  <1>7. ServerWhole(d, {}, {})  BY <1>4, <1>6 DEF ServerWhole, StoreWhole
  <1>8. DataWhole({}, {})
    BY <1>1, <1>3, <1>7 DEF DataWhole, Heard, DrawnIsWhole, d
  <1>9. {} \in SUBSET Pairs /\ a \in Shapes
    <2>1. Sided(server)  BY <1>2, ServerSided DEF Inv
    <2>2. QED  BY <2>1, ShapeParts
  <1>10. Together(a, {})
    <2>1. PICK p : Together(p, Pairs)  BY <1>1, <1>2 DEF Inv, Agree
    <2>2. /\ client \in ClientChannel /\ toServer \in Seq(Message) /\ events \in Seq(Event)
          /\ StoresFit(client) /\ Told(client.commits, events)
          /\ Phases(client, events, agent) /\ Asked(client, agent)
      BY <2>1 DEF Together, Fits
    <2>3. Range(sent) = {}  BY <1>1 DEF Range
    <2>4. Shape(client, {}) = a  BY DEF Init, Shape
    <2>5. Leads(a, toServer, Shape(client, Range(sent)), {})
      <3> HIDE DEF a
      <3>1. QED  BY <1>1, <1>9, <2>3, <2>4, LeadsNowhere
    <2>6. \A r \in Resource : client.store[r] = <<>>  BY DEF Init
    <2>7. Knows(client, {})  BY <2>6 DEF Knows
    <2> HIDE DEF a
    <2>8. QED  BY <2>2, <2>5, <2>7 DEF Together, Fits
  <1>11. QED  BY <1>2, <1>8, <1>9, <1>10 DEF DataInv

(* A step of the agent's side leaves the data as it is. *)
LEMMA StepsWhole ==
    ASSUME Inv, NEW seen, NEW a, NEW known, Steps(a, known), DataWhole(seen, known)
    PROVE  DataWhole(seen, known)'
  <1> DEFINE q == toClient
  <1>1. Heard(known)'
    <2>1. Heard(known)  BY DEF DataWhole
    <2>2. CASE toClient' = toClient  BY <2>1, <2>2 DEF Heard
    <2>3. CASE toClient # <<>> /\ toClient' = Tail(toClient)
      <3> DEFINE p == toClient'
                 n == Len(q)
                 Reports == [resource : Resource, key : Key, loaded : BOOLEAN, csize : Format]
      <3>1. q \in Seq(Reports)  BY DEF Inv, TypeOK
      <3> HIDE DEF Reports
      <3>2. p = Tail(q) /\ q # <<>>  BY <2>3
      <3> HIDE DEF p, q
      <3>3. /\ n \in Nat \ {0} /\ DOMAIN q = 1 .. n /\ DOMAIN p = 1 .. n - 1
            /\ \A i \in 1 .. n - 1 : p[i] = q[i + 1]
        BY <3>1, <3>2, EmptySeq, HeadTailProperties, LenProperties
      <3>4. \A i \in 1 .. n : q[i].loaded => <<q[i].resource, q[i].key>> \in known
        BY <2>1, <3>3 DEF Heard, q
      <3> HIDE DEF n
      <3>5. ASSUME NEW i \in 1 .. n - 1, p[i].loaded
            PROVE  <<p[i].resource, p[i].key>> \in known
        <4>1. i + 1 \in 1 .. n /\ p[i] = q[i + 1]  BY <3>3
        <4>2. QED  BY <3>4, <3>5, <4>1
      <3>6. QED  BY <3>3, <3>5 DEF Heard, p
    <2>4. QED  BY <2>2, <2>3 DEF Steps, Hears
  <1>2. QED  BY <1>1 DEF Steps, DataWhole, FilesWhole, DrawnIsWhole

(* The X server's side reads a request. *)
LEMMA ServerWholeStep ==
    ASSUME DataInv, ~ failed, Server, "abort" \notin May, "repeat" \notin May
    PROVE  DataInv'
  <1>1. Inv /\ TypeOK  BY DEF DataInv, Inv
  <1>2. Inv'  BY <1>1, ServerStep
  <1>0. PICK seen \in SUBSET Pairs, a \in Shapes : \E known :
               a = Shape(server, seen) /\ Together(a, known) /\ DataWhole(seen, known)
    BY DEF DataInv
  <1>3. PICK known :
               a = Shape(server, seen) /\ Together(a, known) /\ DataWhole(seen, known)
    BY <1>0
  <1>4. /\ toServer # <<>> /\ toServer' = Tail(toServer)
        /\ client' = client /\ events' = events /\ agent' = agent /\ sent' = sent
    BY DEF Server, ServerStartEnd, ServerImage, ServerSplit, ServerData, ServerAbort,
           ServerCommit, Received
  <1>5. /\ client \in ClientChannel /\ toServer \in Seq(Message) /\ events \in Seq(Event)
        /\ StoresFit(client) /\ Told(client.commits, events) /\ Phases(client, events, agent)
        /\ Knows(client, known) /\ Leads(a, toServer, Shape(client, Range(sent)), known)
        /\ Asked(client, agent)
    BY <1>3 DEF Together, Fits
  <1>6. PICK b \in Shapes : /\ Reads(a, Head(toServer), b, known)
                            /\ Leads(b, Tail(toServer), Shape(client, Range(sent)), known)
    <2> DEFINE c == Shape(client, Range(sent))
    <2>1. Leads(a, toServer, c, known)  BY <1>5
    <2> HIDE DEF c
    <2>2. \E b \in Shapes : /\ Reads(a, Head(toServer), b, known)
                            /\ Leads(b, Tail(toServer), c, known)
      BY <1>4, <1>5, <2>1, LeadsFirst
    <2>3. QED  BY <2>2 DEF c
  <1>7. ~ ServerAbort
    <2> SUFFICES ASSUME ServerAbort  PROVE FALSE
      OBVIOUS
    <2>1. Head(toServer).type = "abort"  BY DEF ServerAbort
    <2>2. ReadsAbort(a, Head(toServer), b)  BY <1>6, <2>1, ReadsByType
    <2>3. QED  BY <2>2 DEF ReadsAbort
  <1>8. \E more : known \subseteq more /\ DataWhole(b.seen, more)'
    <2>1. CASE ServerStartEnd
      <3>1. DataWhole(b.seen, known)'  BY <1>1, <1>3, <1>6, <2>1, ServerStartEndWhole
      <3>2. QED  BY <3>1
    <2>2. CASE ServerImage
      <3>1. DataWhole(b.seen, known)'  BY <1>1, <1>3, <1>6, <2>2, ServerImageWhole
      <3>2. QED  BY <3>1
    <2>3. CASE ServerCommit
      <3>1. DataWhole(b.seen, known)'  BY <1>1, <1>3, <1>6, <2>3, ServerCommitWhole
      <3>2. QED  BY <3>1
    <2>4. CASE ServerSplit  BY <1>1, <1>3, <1>6, <2>4, ServerSplitWhole
    <2>5. CASE ServerData  BY <1>1, <1>3, <1>6, <2>5, ServerDataWhole
    <2>6. QED  BY <1>7, <2>1, <2>2, <2>3, <2>4, <2>5 DEF Server
  <1>9. PICK more : known \subseteq more /\ DataWhole(b.seen, more)'  BY <1>8
  <1>10. b.seen \in SUBSET Pairs /\ b = Shape(server', b.seen)
    <2>1. Follows(b)
      BY <1>1, <1>3, <1>6, <1>7, ServerStartEndFits, ServerImageFits, ServerSplitFits,
         ServerDataFits, ServerCommitFits DEF Server
    <2>2. QED  BY <2>1 DEF Follows, Shapes
  <1>11. Together(b, more)'
    <2> DEFINE c == Shape(client, Range(sent))
               rest == Tail(toServer)
    <2>1. rest \in Seq(Message)  BY <1>4, <1>5
    <2>2. Leads(b, rest, c, known)  BY <1>6
    <2> HIDE DEF c, rest
    <2>3. Leads(b, rest, c, more)  BY <1>9, <2>1, <2>2, LeadsKnowing
    <2>4. Knows(client, more)  BY <1>5, <1>9 DEF Knows, MayAbort
    <2>5. QED  BY <1>4, <1>5, <2>1, <2>3, <2>4 DEF Together, Fits, c, rest
  <1>12. QED  BY <1>2, <1>9, <1>10, <1>11 DEF DataInv

(* The keeper removes a file: the others are sound. *)
LEMMA KeeperWholeStep ==
    ASSUME DataInv, NEW k \in Key, KeeperRemoves(k)
    PROVE  DataInv'
  <1>1. /\ disk' = [disk EXCEPT ![k] = Null]
        /\ UNCHANGED <<client, server, toServer, toClient, events, agent, drawn, sent, failed>>
    BY DEF KeeperRemoves
  <1>2. Inv'  BY KeeperStep DEF DataInv
  <1>0. PICK seen \in SUBSET Pairs, a \in Shapes : \E known :
               a = Shape(server, seen) /\ Together(a, known) /\ DataWhole(seen, known)
    BY DEF DataInv
  <1>3. PICK known :
               a = Shape(server, seen) /\ Together(a, known) /\ DataWhole(seen, known)
    BY <1>0
  <1>4. FilesWhole(disk')
    <2>1. \A q \in Key : disk'[q] = Null \/ disk'[q] = disk[q]
      BY <1>1 DEF DataInv, Inv, TypeOK
    <2>2. FilesWhole(disk)  BY <1>3 DEF DataWhole
    <2>3. QED  BY <2>1, <2>2 DEF FilesWhole
  <1>5. DataWhole(seen, known)'
    BY <1>1, <1>3, <1>4 DEF DataWhole, Heard, DrawnIsWhole
  <1>6. a = Shape(server', seen) /\ Together(a, known)'  BY <1>1, <1>3 DEF Together
  <1>7. QED  BY <1>2, <1>5, <1>6 DEF DataInv

(* Every step keeps the invariant. *)
LEMMA DataNext ==
    ASSUME DataInv, [Next]_vars, "abort" \notin May, "repeat" \notin May
    PROVE  DataInv'
  <1>1. Inv /\ Inv'  BY InvNext DEF DataInv
  <1>0. PICK seen \in SUBSET Pairs, a \in Shapes : \E known :
               a = Shape(server, seen) /\ Together(a, known) /\ DataWhole(seen, known)
    BY DEF DataInv
  <1>2. PICK known :
               a = Shape(server, seen) /\ Together(a, known) /\ DataWhole(seen, known)
    BY <1>0
  <1>3. CASE UNCHANGED vars
    <2>1. a = Shape(server', seen) /\ Together(a, known)'
      BY <1>2, <1>3 DEF vars, Together
    <2>2. DataWhole(seen, known)'
      BY <1>2, <1>3 DEF vars, DataWhole, Heard, FilesWhole, DrawnIsWhole
    <2>3. QED  BY <1>1, <2>1, <2>2 DEF DataInv
  <1>4. CASE Next
    <2>1. ~ failed  BY <1>4 DEF Next
    <2>2. CASE Server  BY <2>1, <2>2, ServerWholeStep
    <2>3. CASE \E k \in Key : KeeperRemoves(k)  BY <2>3, KeeperWholeStep
    <2>4. CASE ~ Server /\ ~ \E k \in Key : KeeperRemoves(k)
      <3>0. Heard(known)  BY <1>2 DEF DataWhole
      <3>1. Steps(a, known)
        BY <1>1, <1>2, <1>4, <2>1, <2>4, <3>0, RequestsStep, ImagesStep, EventsStep, ProxyStep
           DEF Next, AgentEvent
      <3>2. DataWhole(seen, known)'  BY <1>1, <1>2, <3>1, StepsWhole
      <3>3. a = Shape(server', seen) /\ Together(a, known)'  BY <1>2, <3>1 DEF Steps
      <3>4. QED  BY <1>1, <3>2, <3>3 DEF DataInv
    <2>5. QED  BY <2>2, <2>3, <2>4
  <1>5. QED  BY <1>3, <1>4

(* Where nxagent aborts no sequence and repeats no image for a resource, and no
   file on disk is cut short, what ServerChannel draws of a split or from the
   cache is the image that was sent: CommitStore::expand finds its data in the
   form that its compressed size tells, whether it came over the link, from
   disk or from the cache, and whichever side was first to know.             *)
THEOREM DrawnAreWhole ==
    ASSUME "abort" \notin May, "repeat" \notin May, "cut files" \notin May
    PROVE  Spec => []DrawnIsWhole
  <1>1. Init => DataInv
    <2>1. \A file \in OldFiles : file.whole /\ Whole(file)  BY OldFilesWhole
    <2>2. QED  BY <2>1, DataInit
  <1>2. DataInv /\ [Next]_vars => DataInv'  BY DataNext
  <1>3. DataInv => DrawnIsWhole  BY DEF DataInv, DataWhole
  <1>4. QED  BY <1>1, <1>2, <1>3, PTL DEF Spec

=============================================================================
