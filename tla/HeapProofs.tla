------------------------------ MODULE HeapProofs ------------------------------
(***************************************************************************)
(* What is proved of the heap for every heap size, header size, rounding   *)
(* and smallest remainder, and every sequence of calls.                    *)
(***************************************************************************)
EXTENDS HeapWalk, FiniteSetTheorems, WellFoundedInduction, TLAPS

----------------------------------------------------------------------------
\* Facts about a single heap.

\* Addresses are positive numbers and NULL is none of them.
LEMMA AddressFacts ==
    /\ NULL \notin Address
    /\ heap_head \in Address
    /\ HeapEnd \in Nat
    /\ \A a \in Address : a \in Nat /\ KERNEL_HEAP_START <= a /\ a < HeapEnd
    /\ \A a \in Int : KERNEL_HEAP_START <= a /\ a < HeapEnd => a \in Address
  BY HeapConstants DEF Address, HeapEnd, heap_head, NULL

\* The fields of a header of a well-typed heap.
LEMMA HeaderFacts ==
    ASSUME NEW h, IsHeap(h), NEW b \in DOMAIN h
    PROVE  /\ b \in Address /\ b \in Nat
           /\ h[b] = [size |-> h[b].size, is_free |-> h[b].is_free,
                      next |-> h[b].next, prev |-> h[b].prev]
           /\ h[b].size \in Nat /\ h[b].is_free \in {0, 1}
           /\ h[b].next \in Address \cup {NULL}
           /\ h[b].prev \in Address \cup {NULL}
           /\ End(h, b) \in Nat /\ End(h, b) = b + HDR + h[b].size /\ b < End(h, b)
  <1>1. b \in Address /\ b \in Nat /\ h[b] \in Header
    BY AddressFacts DEF IsHeap
  <1>2. h[b].size \in Nat
    BY <1>1, HeapConstants DEF Header
  <1>3. End(h, b) \in Nat /\ End(h, b) = b + HDR + h[b].size /\ b < End(h, b)
    BY <1>1, <1>2, HeapConstants DEF End
  <1> QED BY <1>1, <1>2, <1>3 DEF Header

\* Every block ends inside the heap.
LEMMA EndsInside ==
    ASSUME NEW h, IsHeap(h), IsTiled(h), NEW b \in DOMAIN h
    PROVE  End(h, b) <= HeapEnd /\ h[b].size <= KERNEL_HEAP_SIZE
  <1>1. /\ b \in Address /\ b \in Nat /\ h[b].size \in Nat
        /\ End(h, b) = b + HDR + h[b].size
    BY HeaderFacts
  <1>2. End(h, b) <= HeapEnd
    <2>1. CASE h[b].next = NULL
      BY <1>1, <2>1, AddressFacts DEF IsTiled, NextAdjacent
    <2>2. CASE h[b].next # NULL
      <3>1. h[b].next = End(h, b) /\ h[b].next \in Address
        BY <2>2 DEF IsTiled, NextAdjacent, IsHeap
      <3> QED BY <3>1, AddressFacts
    <2> QED BY <2>1, <2>2
  <1>3. b >= KERNEL_HEAP_START
    BY <1>1, AddressFacts
  <1> QED BY <1>1, <1>2, <1>3, HeapConstants DEF HeapEnd

\* Changing is_free leaves the list alone.
LEMMA MarkKeepsTiled ==
    ASSUME NEW h, IsHeap(h), IsTiled(h), NEW b \in DOMAIN h, NEW f \in {0, 1}
    PROVE  LET g == [h EXCEPT ![b].is_free = f]
           IN  /\ IsHeap(g) /\ IsTiled(g)
               /\ DOMAIN g = DOMAIN h
               /\ g[b].is_free = f
               /\ \A a \in DOMAIN h : g[a].size = h[a].size
               /\ \A a \in DOMAIN h \ {b} : g[a].is_free = h[a].is_free
  <1> DEFINE g == [h EXCEPT ![b].is_free = f]
  <1>1. /\ DOMAIN g = DOMAIN h /\ IsHeap(g)
        /\ g[b].is_free = f
        /\ \A a \in DOMAIN h \ {b} : g[a].is_free = h[a].is_free
        /\ \A a \in DOMAIN h : /\ g[a].size = h[a].size
                               /\ g[a].next = h[a].next
                               /\ g[a].prev = h[a].prev
    BY DEF IsHeap, Header
  <1> HIDE DEF g
  <1>2. \A a \in DOMAIN h : End(g, a) = End(h, a)
    BY <1>1 DEF End
  <1>3. NextAdjacent(g) /\ Disjoint(g)
    BY <1>1, <1>2 DEF IsTiled, NextAdjacent, Disjoint
  <1>4. LinksInverse(g)
    BY <1>1 DEF IsTiled, LinksInverse, NextAdjacent
  <1>5. IsTiled(g)
    BY <1>1, <1>3, <1>4 DEF IsTiled
  <1> QED BY <1>1, <1>5 DEF g

----------------------------------------------------------------------------
\* split_block and the merging step keep the blocks a tiling.

\* split_block cuts the block into one of the size asked for and a free one.
LEMMA SplitKeepsTiled ==
    ASSUME NEW h, IsHeap(h), IsTiled(h), NEW b \in DOMAIN h,
           NEW size \in Nat, size <= h[b].size
    PROVE  LET g == split_block(h, b, size)
           IN  /\ IsHeap(g) /\ IsTiled(g)
               /\ DOMAIN h \subseteq DOMAIN g
               /\ \A a \in DOMAIN h : g[a].is_free = h[a].is_free
               /\ \A a \in DOMAIN g \ DOMAIN h : g[a].is_free = 1
               /\ g[b].size >= size
               /\ \A a \in DOMAIN h \ {b} : g[a].size = h[a].size
  <1>1. CASE ~(h[b].size > size + HDR + MIN_SPLIT)
    <2>1. split_block(h, b, size) = h
      BY <1>1 DEF split_block
    <2>2. h[b].size >= size
      BY HeaderFacts
    <2> QED BY <2>1, <2>2
  <1>2. CASE h[b].size > size + HDR + MIN_SPLIT
    <2> DEFINE n == b + HDR + size
               c == h[b].next
               g == split_block(h, b, size)
    <2> SUFFICES /\ IsHeap(g) /\ IsTiled(g)
                 /\ DOMAIN h \subseteq DOMAIN g
                 /\ \A a \in DOMAIN h : g[a].is_free = h[a].is_free
                 /\ \A a \in DOMAIN g \ DOMAIN h : g[a].is_free = 1
                 /\ g[b].size >= size
                 /\ \A a \in DOMAIN h \ {b} : g[a].size = h[a].size
      OBVIOUS
    <2>1. /\ b \in Address /\ b \in Nat /\ h[b].size \in Nat
          /\ End(h, b) = b + HDR + h[b].size /\ End(h, b) \in Nat
          /\ End(h, b) <= HeapEnd /\ h[b].size <= KERNEL_HEAP_SIZE
          /\ b >= KERNEL_HEAP_START
      BY HeaderFacts, EndsInside, AddressFacts
    <2>2. n \in Nat /\ b < n /\ n < End(h, b) /\ n \in Address /\ n # NULL
      <3>1. n \in Nat /\ b < n /\ n < End(h, b)
        BY <1>2, <2>1, HeapConstants
      <3>2. KERNEL_HEAP_START <= n /\ n < HeapEnd
        BY <2>1, <3>1, AddressFacts, HeapConstants
      <3> HIDE DEF n
      <3> QED BY <3>1, <3>2, AddressFacts
    <2>3. n \notin DOMAIN h
      <3> SUFFICES ASSUME n \in DOMAIN h PROVE FALSE
        OBVIOUS
      <3>1. End(h, b) <= n
        BY <2>2 DEF IsTiled, Disjoint
      <3> QED BY <2>1, <2>2, <3>1
    <2>4. h[b].size - size - HDR \in 0 .. KERNEL_HEAP_SIZE /\ size \in 0 .. KERNEL_HEAP_SIZE
      BY <1>2, <2>1, HeapConstants
    <2>5. /\ c \in Address \cup {NULL}
          /\ c # NULL => c \in DOMAIN h /\ c = End(h, b) /\ c # b /\ c # n /\ h[c].prev = b
          /\ c = NULL => End(h, b) = HeapEnd
      BY <2>1, <2>2, HeaderFacts DEF IsTiled, NextAdjacent, LinksInverse
    <2>6. g = [a \in DOMAIN h \cup {n} |->
                IF a = b
                THEN [size |-> size, is_free |-> h[b].is_free,
                      next |-> n, prev |-> h[b].prev]
                ELSE IF a = n
                THEN [size |-> h[b].size - size - HDR, is_free |-> 1,
                      next |-> h[b].next, prev |-> b]
                ELSE IF a = h[b].next
                THEN [h[a] EXCEPT !.prev = n]
                ELSE h[a]]
      BY <1>2 DEF split_block
    <2> HIDE DEF n, g
    <2>7. /\ DOMAIN g = DOMAIN h \cup {n}
          /\ g[b] = [size |-> size, is_free |-> h[b].is_free,
                     next |-> n, prev |-> h[b].prev]
          /\ g[n] = [size |-> h[b].size - size - HDR, is_free |-> 1,
                     next |-> c, prev |-> b]
          /\ c # NULL => g[c] = [h[c] EXCEPT !.prev = n]
          /\ \A a \in DOMAIN h \ {b, c} : g[a] = h[a]
      BY <2>2, <2>3, <2>5, <2>6
    <2>8. /\ g[b].size = size /\ g[b].is_free = h[b].is_free
          /\ g[b].next = n /\ g[b].prev = h[b].prev
          /\ g[n].size = h[b].size - size - HDR /\ g[n].is_free = 1
          /\ g[n].next = c /\ g[n].prev = b
      BY <2>7
    <2>9. c # NULL => /\ g[c].size = h[c].size /\ g[c].is_free = h[c].is_free
                      /\ g[c].next = h[c].next /\ g[c].prev = n
                      /\ g[c] \in Header
      <3> SUFFICES ASSUME c # NULL
                   PROVE  /\ g[c].size = h[c].size /\ g[c].is_free = h[c].is_free
                          /\ g[c].next = h[c].next /\ g[c].prev = n
                          /\ g[c] \in Header
        OBVIOUS
      <3>1. h[c] \in Header /\ g[c] = [h[c] EXCEPT !.prev = n]
        BY <2>5, <2>7 DEF IsHeap
      <3> QED BY <2>2, <3>1 DEF Header
    <2> HIDE DEF c
    <2>a. \A a \in DOMAIN h \ {b} :
              /\ a # NULL /\ a # n
              /\ g[a].size = h[a].size /\ g[a].is_free = h[a].is_free
              /\ g[a].next = h[a].next
              /\ a # c => g[a].prev = h[a].prev
              /\ g[a] \in Header
      <3> TAKE a \in DOMAIN h \ {b}
      <3>1. a # NULL /\ a # n /\ h[a] \in Header
        BY <2>3, AddressFacts DEF IsHeap
      <3>2. CASE a = c
        BY <2>9, <3>1, <3>2
      <3>3. CASE a # c
        BY <2>7, <3>1, <3>3
      <3> QED BY <3>2, <3>3
    <2>10. IsHeap(g)
      <3>1. g[b] \in Header
        BY <2>2, <2>4, <2>7, HeaderFacts DEF Header
      <3>2. g[n] \in Header
        BY <2>1, <2>4, <2>5, <2>7 DEF Header
      <3>3. \A a \in DOMAIN g : g[a] \in Header
        BY <2>7, <2>a, <3>1, <3>2
      <3>4. DOMAIN g \subseteq Address
        BY <2>2, <2>7 DEF IsHeap
      <3> QED BY <2>6, <3>3, <3>4 DEF IsHeap
    <2>11. /\ End(g, b) = n /\ End(g, n) = End(h, b)
           /\ \A a \in DOMAIN h \ {b} : End(g, a) = End(h, a)
      <3>1. End(g, b) = n
        BY <2>8 DEF End, n
      <3>2. End(g, n) = End(h, b)
        BY <2>1, <2>2, <2>8, HeapConstants DEF End, n
      <3>3. \A a \in DOMAIN h \ {b} : End(g, a) = End(h, a)
        BY <2>a DEF End
      <3> QED BY <3>1, <3>2, <3>3
    <2>12. NextAdjacent(g)
      <3> SUFFICES ASSUME NEW a \in DOMAIN g
                   PROVE  IF g[a].next = NULL THEN End(g, a) = HeapEnd
                          ELSE g[a].next \in DOMAIN g /\ g[a].next = End(g, a)
        BY DEF NextAdjacent
      <3>1. CASE a = b
        BY <2>2, <2>7, <2>8, <2>11, <3>1
      <3>2. CASE a = n
        BY <2>5, <2>7, <2>8, <2>11, <3>2
      <3>3. CASE a # b /\ a # n
        <4>1. a \in DOMAIN h /\ g[a].next = h[a].next
          BY <2>7, <2>a, <3>3
        <4> QED BY <2>7, <2>11, <3>3, <4>1 DEF IsTiled, NextAdjacent
      <3> QED BY <3>1, <3>2, <3>3
    <2>13. LinksInverse(g)
      <3>0. ASSUME NEW a \in DOMAIN h, h[a].next # NULL
            PROVE  h[a].next \in DOMAIN h /\ h[h[a].next].prev = a /\ h[a].next # a
        BY <3>0, HeaderFacts DEF IsTiled, NextAdjacent, LinksInverse
      <3>a. ASSUME NEW a \in DOMAIN h, h[a].prev # NULL
            PROVE  h[a].prev \in DOMAIN h /\ h[h[a].prev].next = a
        BY <3>a DEF IsTiled, LinksInverse
      <3>b. \A a \in DOMAIN h : h[a].prev = NULL => a = heap_head
        BY DEF IsTiled, LinksInverse
      <3>c. b # NULL /\ \A a \in DOMAIN h : a # NULL
        BY AddressFacts DEF IsHeap
      <3>1. ASSUME NEW a \in DOMAIN g, g[a].next # NULL
            PROVE  g[g[a].next].prev = a
        <4>1. CASE a = b
          BY <2>8, <4>1
        <4>2. CASE a = n
          BY <2>8, <2>9, <3>1, <4>2
        <4>3. CASE a # b /\ a # n
          <5>1. a \in DOMAIN h /\ g[a].next = h[a].next
            BY <2>7, <2>a, <4>3
          <5>2. h[a].next \in DOMAIN h /\ h[h[a].next].prev = a
            BY <3>0, <3>1, <5>1
          <5>3. h[a].next # c
            BY <2>5, <3>c, <4>3, <5>2
          <5>4. g[h[a].next].prev = h[h[a].next].prev
            BY <2>8, <2>a, <5>2, <5>3
          <5> QED BY <5>1, <5>2, <5>4
        <4> QED BY <4>1, <4>2, <4>3
      <3>2. ASSUME NEW a \in DOMAIN g
            PROVE  IF g[a].prev = NULL THEN a = heap_head
                   ELSE g[a].prev \in DOMAIN g /\ g[g[a].prev].next = a
        <4>1. CASE a = n
          BY <2>7, <2>8, <3>c, <4>1
        <4>2. CASE a # n /\ a = c
          BY <2>2, <2>5, <2>7, <2>8, <2>9, <3>c, <4>2
        <4>3. CASE a # n /\ a # c
          <5>1. a \in DOMAIN h /\ g[a].prev = h[a].prev
            BY <2>7, <2>8, <2>a, <4>3
          <5>2. CASE h[a].prev = NULL
            BY <3>b, <5>1, <5>2
          <5>3. CASE h[a].prev # NULL
            <6>1. h[a].prev \in DOMAIN h /\ h[h[a].prev].next = a
              BY <3>a, <5>1, <5>3
            <6>2. h[a].prev # b
              BY <4>3, <6>1 DEF c
            <6>3. g[h[a].prev].next = h[h[a].prev].next
              BY <2>a, <6>1, <6>2
            <6> QED BY <2>7, <5>1, <5>3, <6>1, <6>3
          <5> QED BY <5>2, <5>3
        <4> QED BY <4>1, <4>2, <4>3
      <3> QED BY <3>1, <3>2 DEF LinksInverse
    <2>14. Disjoint(g)
      <3>0. \A a \in DOMAIN h : a \in Nat /\ End(h, a) \in Nat /\ a < End(h, a)
        BY HeaderFacts
      <3> SUFFICES ASSUME NEW a \in DOMAIN g, NEW d \in DOMAIN g, a < d
                   PROVE  End(g, a) <= d
        BY DEF Disjoint
      <3>1. CASE a = b
        <4>1. CASE d = n
          BY <2>2, <2>11, <3>1, <4>1
        <4>2. CASE d # n
          <5>1. d \in DOMAIN h /\ End(h, b) <= d
            BY <2>7, <3>1, <4>2 DEF IsTiled, Disjoint
          <5> QED BY <2>2, <2>11, <3>0, <3>1, <5>1
        <4> QED BY <4>1, <4>2
      <3>2. CASE a = n
        <4>1. d \in DOMAIN h /\ b < d
          BY <2>1, <2>2, <2>7, <3>0, <3>2
        <4> QED BY <2>11, <3>2, <4>1 DEF IsTiled, Disjoint
      <3>3. CASE a # b /\ a # n
        <4>1. a \in DOMAIN h /\ End(g, a) = End(h, a)
          BY <2>7, <2>11, <3>3
        <4>2. CASE d = n
          <5>1. a < b
            <6> SUFFICES ASSUME b < a PROVE FALSE
              BY <2>1, <3>0, <3>3, <4>1
            <6>1. End(h, b) <= a
              BY <4>1 DEF IsTiled, Disjoint
            <6> QED BY <2>1, <2>2, <3>0, <4>1, <4>2, <6>1
          <5>2. End(h, a) <= b
            BY <4>1, <5>1 DEF IsTiled, Disjoint
          <5> QED BY <2>1, <2>2, <3>0, <4>1, <4>2, <5>2
        <4>3. CASE d # n
          BY <2>7, <4>1, <4>3 DEF IsTiled, Disjoint
        <4> QED BY <4>2, <4>3
      <3> QED BY <3>1, <3>2, <3>3
    <2>15. IsTiled(g)
      BY <2>7, <2>12, <2>13, <2>14 DEF IsTiled
    <2>16. \A a \in DOMAIN h : g[a].is_free = h[a].is_free
      BY <2>8, <2>a
    <2>17. \A a \in DOMAIN h \ {b} : g[a].size = h[a].size
      BY <2>a
    <2> QED
      BY <2>7, <2>8, <2>10, <2>15, <2>16, <2>17
  <1> QED BY <1>1, <1>2

\* g is h with block b and its successor joined into one.
Joined(g, h, b) ==
    /\ IsHeap(g) /\ IsTiled(g)
    /\ h[b].next \in DOMAIN h /\ h[b].next # b
    /\ DOMAIN g = DOMAIN h \ {h[b].next}
    /\ \A a \in DOMAIN g : g[a].is_free = h[a].is_free
    /\ \A a \in DOMAIN g \ {b} : g[a].size = h[a].size

\* An iteration of merge_free_blocks joins a block and its successor.
LEMMA AbsorbKeepsTiled ==
    ASSUME NEW h, IsHeap(h), IsTiled(h), NEW b \in DOMAIN h, h[b].next # NULL
    PROVE  Joined(absorb(h, b), h, b)
  <1> DEFINE n == h[b].next
             c == h[n].next
             g == absorb(h, b)
  <1> SUFFICES /\ IsHeap(g) /\ IsTiled(g)
               /\ n \in DOMAIN h /\ n # b
               /\ DOMAIN g = DOMAIN h \ {n}
               /\ \A a \in DOMAIN g : g[a].is_free = h[a].is_free
               /\ \A a \in DOMAIN g \ {b} : g[a].size = h[a].size
    BY DEF Joined
  <1>0. \A a \in DOMAIN h : /\ a \in Address /\ a \in Nat /\ a # NULL
                            /\ End(h, a) \in Nat /\ a < End(h, a)
                            /\ h[a] \in Header
    BY HeaderFacts, AddressFacts DEF IsHeap
  <1>1. n \in DOMAIN h /\ n = End(h, b) /\ n # b /\ h[n].prev = b
    BY <1>0 DEF IsTiled, NextAdjacent, LinksInverse
  <1>2. /\ b \in Nat /\ n \in Nat /\ b < n /\ End(h, n) \in Nat /\ n < End(h, n)
        /\ h[b].size \in Nat /\ h[n].size \in Nat
        /\ n = b + HDR + h[b].size /\ End(h, n) = n + HDR + h[n].size
        /\ End(h, n) <= HeapEnd /\ b >= KERNEL_HEAP_START
    BY <1>0, <1>1, HeaderFacts, EndsInside, AddressFacts
  <1>3. /\ c \in Address \cup {NULL}
        /\ c # NULL => c \in DOMAIN h /\ c = End(h, n) /\ c # b /\ c # n /\ h[c].prev = n
        /\ c = NULL => End(h, n) = HeapEnd
    <2>1. c \in Address \cup {NULL}
      BY <1>0, <1>1 DEF Header
    <2>2. c # NULL => c \in DOMAIN h /\ c = End(h, n) /\ h[c].prev = n
      BY <1>1 DEF IsTiled, NextAdjacent, LinksInverse
    <2>3. c = NULL => End(h, n) = HeapEnd
      BY <1>1 DEF IsTiled, NextAdjacent
    <2>4. c # NULL => c # b /\ c # n
      BY <1>2, <2>2
    <2> QED BY <2>1, <2>2, <2>3, <2>4
  <1>4. h[b].size + h[n].size + HDR \in 0 .. KERNEL_HEAP_SIZE
    BY <1>2, HeapConstants DEF HeapEnd
  <1>5. g = [a \in DOMAIN h \ {n} |->
            IF a = b
            THEN [size |-> h[b].size + h[n].size + HDR, is_free |-> h[b].is_free,
                  next |-> h[n].next, prev |-> h[b].prev]
            ELSE IF a = h[n].next
            THEN [h[a] EXCEPT !.prev = b]
            ELSE h[a]]
    BY DEF absorb
  <1> HIDE DEF g
  <1>6. /\ DOMAIN g = DOMAIN h \ {n} /\ b \in DOMAIN g
        /\ g[b] = [size |-> h[b].size + h[n].size + HDR, is_free |-> h[b].is_free,
                   next |-> c, prev |-> h[b].prev]
        /\ c # NULL => g[c] = [h[c] EXCEPT !.prev = b] /\ c \in DOMAIN g
        /\ \A a \in DOMAIN g \ {b, c} : g[a] = h[a]
    BY <1>1, <1>3, <1>5
  <1>7. /\ g[b].size = h[b].size + h[n].size + HDR /\ g[b].is_free = h[b].is_free
        /\ g[b].next = c /\ g[b].prev = h[b].prev
    BY <1>6
  <1>n. h[b].next = n /\ h[n].next = c
    OBVIOUS
  <1> HIDE DEF n, c
  <1>8. c # NULL => g[c].prev = b
    BY <1>0, <1>3, <1>6 DEF Header
  <1>9. \A a \in DOMAIN g \ {b} :
            /\ g[a].size = h[a].size /\ g[a].is_free = h[a].is_free
            /\ g[a].next = h[a].next
            /\ a # c => g[a].prev = h[a].prev
            /\ g[a] \in Header
    <2> TAKE a \in DOMAIN g \ {b}
    <2>1. a \in DOMAIN h /\ a # NULL /\ h[a] \in Header /\ b \in Address
      BY <1>0, <1>6
    <2>2. CASE a = c
      <3>1. g[a] = [h[a] EXCEPT !.prev = b]
        BY <1>6, <2>1, <2>2
      <3> QED BY <2>1, <2>2, <3>1 DEF Header
    <2>3. CASE a # c
      BY <1>6, <2>1, <2>3
    <2> QED BY <2>2, <2>3
  <1>10. IsHeap(g)
    <2>1. g[b] \in Header
      BY <1>0, <1>3, <1>4, <1>6 DEF Header
    <2>2. \A a \in DOMAIN g : g[a] \in Header
      BY <1>9, <2>1
    <2>3. DOMAIN g \subseteq Address
      BY <1>0, <1>6
    <2> QED BY <1>5, <2>2, <2>3 DEF IsHeap
  <1>11. /\ End(g, b) = End(h, n)
         /\ \A a \in DOMAIN g \ {b} : End(g, a) = End(h, a)
    <2>1. End(g, b) = End(h, n)
      BY <1>2, <1>7, HeapConstants DEF End
    <2> QED BY <1>9, <2>1 DEF End
  <1>12. NextAdjacent(g)
    <2> SUFFICES ASSUME NEW a \in DOMAIN g
                 PROVE  IF g[a].next = NULL THEN End(g, a) = HeapEnd
                        ELSE g[a].next \in DOMAIN g /\ g[a].next = End(g, a)
      BY DEF NextAdjacent
    <2>1. CASE a = b
      BY <1>3, <1>6, <1>7, <1>11, <2>1
    <2>2. CASE a # b
      <3>1. /\ a \in DOMAIN h /\ g[a].next = h[a].next /\ End(g, a) = End(h, a)
        BY <1>6, <1>9, <1>11, <2>2
      <3>2. h[a].next # NULL => h[a].next \in DOMAIN h /\ h[h[a].next].prev = a
        BY <3>1 DEF IsTiled, NextAdjacent, LinksInverse
      <3>3. h[a].next # n
        BY <1>0, <1>1, <2>2, <3>2
      <3> QED BY <1>6, <3>1, <3>3 DEF IsTiled, NextAdjacent
    <2> QED BY <2>1, <2>2
  <1>13. LinksInverse(g)
    <2>1. ASSUME NEW a \in DOMAIN g, g[a].next # NULL
          PROVE  g[g[a].next].prev = a
      <3>1. CASE a = b
        BY <1>7, <1>8, <2>1, <3>1
      <3>2. CASE a # b
        <4>1. a \in DOMAIN h /\ a # n /\ g[a].next = h[a].next
          BY <1>6, <1>9, <3>2
        <4>2. h[a].next \in DOMAIN h /\ h[h[a].next].prev = a
          BY <2>1, <4>1 DEF IsTiled, NextAdjacent, LinksInverse
        <4>3. h[a].next # n /\ h[a].next # c
          BY <1>0, <1>1, <1>3, <3>2, <4>1, <4>2
        <4>4. g[h[a].next].prev = h[h[a].next].prev
          BY <1>6, <1>7, <1>9, <4>2, <4>3
        <4> QED BY <4>1, <4>2, <4>4
      <3> QED BY <3>1, <3>2
    <2>2. ASSUME NEW a \in DOMAIN g
          PROVE  IF g[a].prev = NULL THEN a = heap_head
                 ELSE g[a].prev \in DOMAIN g /\ g[g[a].prev].next = a
      <3>0. a \in DOMAIN h /\ a # n /\ a # NULL /\ b # NULL
        BY <1>0, <1>6
      <3>1. CASE a = c
        BY <1>6, <1>7, <1>8, <3>0, <3>1
      <3>2. CASE a # c
        <4>1. g[a].prev = h[a].prev
          BY <1>7, <1>9, <3>2
        <4>2. CASE h[a].prev = NULL
          BY <3>0, <4>1, <4>2 DEF IsTiled, LinksInverse
        <4>3. CASE h[a].prev # NULL
          <5>1. h[a].prev \in DOMAIN h /\ h[h[a].prev].next = a
            BY <3>0, <4>3 DEF IsTiled, LinksInverse
          <5>2. h[a].prev # n /\ h[a].prev # b
            BY <1>n, <3>0, <3>2, <5>1
          <5> QED BY <1>6, <1>9, <4>1, <4>3, <5>1, <5>2
        <4> QED BY <4>2, <4>3
      <3> QED BY <3>1, <3>2
    <2> QED BY <2>1, <2>2 DEF LinksInverse
  <1>14. Disjoint(g)
    <2> SUFFICES ASSUME NEW a \in DOMAIN g, NEW d \in DOMAIN g, a < d
                 PROVE  End(g, a) <= d
      BY DEF Disjoint
    <2>0. a \in DOMAIN h /\ d \in DOMAIN h /\ d # n /\ a \in Nat /\ d \in Nat
      BY <1>0, <1>6
    <2>1. CASE a = b
      <3>1. n <= d
        BY <1>1, <2>0, <2>1 DEF IsTiled, Disjoint
      <3>2. n < d
        BY <1>2, <2>0, <3>1
      <3> QED BY <1>1, <1>11, <2>0, <2>1, <3>2 DEF IsTiled, Disjoint
    <2>2. CASE a # b
      BY <1>11, <2>0, <2>2 DEF IsTiled, Disjoint
    <2> QED BY <2>1, <2>2
  <1>15. heap_head \in DOMAIN g
    BY <1>2, <1>6, HeapConstants DEF IsTiled, heap_head
  <1>16. IsTiled(g)
    BY <1>12, <1>13, <1>14, <1>15 DEF IsTiled
  <1>17. /\ \A a \in DOMAIN g : g[a].is_free = h[a].is_free
         /\ \A a \in DOMAIN g \ {b} : g[a].size = h[a].size
    BY <1>7, <1>9
  <1> QED
    BY <1>1, <1>6, <1>10, <1>16, <1>17

----------------------------------------------------------------------------
\* Arithmetic of sizes and counters.

LEMMA ModFacts ==
    ASSUME NEW x \in Nat, NEW n \in Nat \ {0}
    PROVE  x % n \in 0 .. n - 1 /\ x % n <= x /\ (x < n => x % n = x)
  <1>1. x % n \in 0 .. n - 1
    OBVIOUS
  <1>2. x < n => x % n = x
    OBVIOUS
  <1> QED BY <1>1, <1>2

\* AlignUp returns a size, and a large enough one unless the sum wraps around.
LEMMA AlignUpFacts ==
    ASSUME NEW size \in Nat
    PROVE  /\ AlignUp(size) \in Nat
           /\ size + ALIGN - 1 < SIZE_MOD => AlignUp(size) >= size
  <1> DEFINE raw == size + ALIGN - 1
             sum == raw % SIZE_MOD
  <1>1. /\ raw \in Nat /\ SIZE_MOD \in Nat \ {0} /\ ALIGN \in Nat \ {0}
        /\ raw = size + ALIGN - 1
    BY HeapConstants
  <1> HIDE DEF raw
  <1>2. sum \in Nat /\ (raw < SIZE_MOD => sum = raw)
    <2>1. raw % SIZE_MOD \in 0 .. SIZE_MOD - 1 /\ (raw < SIZE_MOD => raw % SIZE_MOD = raw)
      BY <1>1, ModFacts
    <2> QED BY <1>1, <2>1
  <1> HIDE DEF sum
  <1>3. sum % ALIGN \in 0 .. ALIGN - 1 /\ sum % ALIGN <= sum
    BY <1>1, <1>2, ModFacts
  <1>4. AlignUp(size) = sum - (sum % ALIGN)
    BY DEF AlignUp, sum, raw
  <1> DEFINE low == sum % ALIGN
  <1>5. low \in 0 .. ALIGN - 1 /\ low <= sum /\ AlignUp(size) = sum - low
    BY <1>3, <1>4
  <1> HIDE DEF low
  <1> QED BY <1>1, <1>2, <1>5

\* kcalloc's overflow check lets through only products that did not overflow.
LEMMA OverflowCheckExact ==
    ASSUME NEW count \in Nat \ {0}, NEW size \in Nat, NEW total \in Nat,
           total = (count * size) % SIZE_MOD, total \div count = size
    PROVE  total = count * size
  <1>1. count * size \in Nat
    OBVIOUS
  <1>2. total <= count * size
    <2> DEFINE product == count * size
    <2>1. product \in Nat /\ SIZE_MOD \in Nat \ {0} /\ total = product % SIZE_MOD
      BY <1>1, HeapConstants
    <2> HIDE DEF product
    <2>2. total <= product
      BY <2>1, ModFacts
    <2> QED BY <2>2 DEF product
  <1>3. count * (total \div count) <= total
    OBVIOUS
  <1> QED BY <1>1, <1>2, <1>3

StatsType == [free_memory : Nat, used_memory : Nat,
              num_allocations : 0 .. MaxAllocs, num_frees : Nat,
              largest_free_block : Nat]

LEMMA CountTypes ==
    ASSUME NEW stats \in StatsType, NEW size \in Nat
    PROVE  /\ stats.num_allocations < MaxAllocs => CountAlloc(stats, size) \in StatsType
           /\ CountFree(stats, size) \in StatsType
  <1>1. \A x \in Nat : (x + size) % SIZE_MOD \in Nat /\ (x - size) % SIZE_MOD \in Nat
    <2> TAKE x \in Nat
    <2>1. x + size \in Int /\ x - size \in Int /\ SIZE_MOD \in Nat \ {0}
      BY HeapConstants
    <2>2. \A y \in Int, m \in Nat \ {0} : y % m \in Nat
      OBVIOUS
    <2> QED BY <2>1, <2>2
  <1>2. /\ (stats.used_memory + size) % SIZE_MOD \in Nat
        /\ (stats.free_memory - size) % SIZE_MOD \in Nat
        /\ (stats.used_memory - size) % SIZE_MOD \in Nat
        /\ (stats.free_memory + size) % SIZE_MOD \in Nat
    BY <1>1 DEF StatsType
  <1>3. /\ stats.num_frees + 1 \in Nat
        /\ stats.num_allocations < MaxAllocs => stats.num_allocations + 1 \in 0 .. MaxAllocs
    BY HeapConstants DEF StatsType
  <1> QED BY <1>2, <1>3 DEF CountAlloc, CountFree, StatsType

\* What a caller's pointer table looks like after a grant and a return.
LEMMA GrantFacts ==
    ASSUME TypeOK, NEW b \in Address, NEW ptr \in Int, NEW req \in Nat
    PROVE  LET l == Granted(b, ptr, req)
           IN  /\ DOMAIN l = DOMAIN live \cup {b} /\ DOMAIN l \subseteq Address
               /\ l \in [DOMAIN l -> Grant]
               /\ l[b].ptr = ptr /\ l[b].req = req
               /\ \A a \in DOMAIN live \ {b} : l[a] = live[a]
  BY DEF Granted, Grant, TypeOK

LEMMA ReturnFacts ==
    ASSUME NEW l, DOMAIN l \subseteq Address, l \in [DOMAIN l -> Grant], NEW b
    PROVE  LET m == Returned(l, b)
           IN  /\ DOMAIN m = DOMAIN l \ {b} /\ DOMAIN m \subseteq Address
               /\ m \in [DOMAIN m -> Grant]
               /\ \A a \in DOMAIN m : m[a] = l[a]
  BY DEF Returned

----------------------------------------------------------------------------
\* The inductive invariant.
HeapInv == TypeOK /\ Tiled /\ UsedIsLive /\ MergingFree

\* kmalloc's part of a step: block b of the list, which nobody held, is used
\* afterwards and large enough.
LEMMA TakenFacts ==
    ASSUME HeapInv, NEW size \in Nat, NEW b \in find_free_block(size)
    PROVE  LET g == taken(b, size)
           IN  /\ b \in DOMAIN hdr /\ b \in Address /\ b \notin DOMAIN live
               /\ hdr[b].is_free = 1
               /\ IsHeap(g) /\ IsTiled(g)
               /\ DOMAIN hdr \subseteq DOMAIN g
               /\ g[b].is_free = 0 /\ g[b].size >= size /\ g[b].size \in Nat
               /\ \A a \in DOMAIN hdr \ {b} :
                     g[a].is_free = hdr[a].is_free /\ g[a].size = hdr[a].size
               /\ \A a \in DOMAIN g \ DOMAIN hdr : g[a].is_free = 1
  <1>1. /\ b \in DOMAIN hdr /\ hdr[b].is_free = 1 /\ size <= hdr[b].size
        /\ IsHeap(hdr) /\ IsTiled(hdr)
    <2>1. b \in DOMAIN hdr /\ Fits(b, size) /\ IsHeap(hdr) /\ IsTiled(hdr)
      BY DEF find_free_block, HeapInv, TypeOK, Tiled
    <2>2. hdr[b].size \in Nat
      BY <2>1, HeaderFacts
    <2> QED BY <2>1, <2>2 DEF Fits
  <1>2. b \in Address /\ b \notin DOMAIN live
    BY <1>1 DEF IsHeap, HeapInv, UsedIsLive
  <1> DEFINE h == split_block(hdr, b, size)
             g == [h EXCEPT ![b].is_free = 0]
  <1>3. /\ IsHeap(h) /\ IsTiled(h)
        /\ DOMAIN hdr \subseteq DOMAIN h
        /\ \A a \in DOMAIN hdr : h[a].is_free = hdr[a].is_free
        /\ \A a \in DOMAIN h \ DOMAIN hdr : h[a].is_free = 1
        /\ h[b].size >= size
        /\ \A a \in DOMAIN hdr \ {b} : h[a].size = hdr[a].size
    BY <1>1, SplitKeepsTiled
  <1> HIDE DEF h
  <1>4. /\ IsHeap(g) /\ IsTiled(g)
        /\ DOMAIN g = DOMAIN h
        /\ g[b].is_free = 0
        /\ \A a \in DOMAIN h : g[a].size = h[a].size
        /\ \A a \in DOMAIN h \ {b} : g[a].is_free = h[a].is_free
    BY <1>1, <1>3, MarkKeepsTiled
  <1>5. taken(b, size) = g
    BY DEF taken, h
  <1> HIDE DEF g
  <1>6. g[b].size \in Nat
    BY <1>1, <1>3, <1>4, HeaderFacts
  <1> QED BY <1>1, <1>2, <1>3, <1>4, <1>5, <1>6

\* A step that takes a block and grants it keeps the invariant.
LEMMA TakeKeeps ==
    ASSUME HeapInv, NEW size \in Nat, NEW b, NEW ptr \in Int, NEW req \in Nat,
           Take(size, b), live' = Granted(b, ptr, req)
    PROVE  HeapInv'
  <1> DEFINE n == AlignUp(size)
             g == taken(b, n)
             l == Granted(b, ptr, req)
  <1>1. n \in Nat /\ b \in find_free_block(n) /\ hdr' = g
    BY AlignUpFacts DEF Take
  <1>2. /\ b \in DOMAIN hdr /\ b \in Address /\ b \notin DOMAIN live
        /\ IsHeap(g) /\ IsTiled(g)
        /\ DOMAIN hdr \subseteq DOMAIN g
        /\ g[b].is_free = 0 /\ g[b].size \in Nat
        /\ \A a \in DOMAIN hdr \ {b} : g[a].is_free = hdr[a].is_free
        /\ \A a \in DOMAIN g \ DOMAIN hdr : g[a].is_free = 1
    <2> HIDE DEF n
    <2> QED BY <1>1, TakenFacts
  <1>3. /\ DOMAIN l = DOMAIN live \cup {b} /\ DOMAIN l \subseteq Address
        /\ l \in [DOMAIN l -> Grant]
    BY <1>2, GrantFacts DEF HeapInv
  <1> HIDE DEF g, l
  <1>4. mem_stats' \in StatsType
    <2>1. mem_stats \in StatsType /\ mem_stats.num_allocations < MaxAllocs
      BY DEF HeapInv, TypeOK, StatsType, Take
    <2>2. mem_stats' = CountAlloc(mem_stats, g[b].size)
      BY <1>1 DEF Take
    <2> QED BY <1>2, <2>1, <2>2, CountTypes
  <1>5. live' = l /\ hdr' = g
    BY <1>1 DEF l
  <1>6. UNCHANGED <<pc, block>> /\ pc = "idle"
    BY DEF Take
  <1>7. TypeOK'
    BY <1>2, <1>3, <1>4, <1>5, <1>6 DEF HeapInv, TypeOK, StatsType
  <1>8. Tiled'
    BY <1>2, <1>5 DEF Tiled
  <1>9. UsedIsLive'
    <2>1. DOMAIN l \subseteq DOMAIN g
      BY <1>2, <1>3 DEF HeapInv, UsedIsLive
    <2>2. \A a \in DOMAIN g : g[a].is_free = 0 <=> a \in DOMAIN l
      BY <1>2, <1>3 DEF HeapInv, UsedIsLive
    <2> QED BY <1>5, <2>1, <2>2 DEF UsedIsLive
  <1>10. MergingFree'
    BY <1>6 DEF MergingFree
  <1> QED BY <1>7, <1>8, <1>9, <1>10 DEF HeapInv

----------------------------------------------------------------------------
\* The requests whose size the rounding of kmalloc does not wrap around.
NoWrap ==
    /\ \A size \in Sizes : size + ALIGN - 1 < SIZE_MOD
    /\ \A args \in CallocArgs :
          args[1] * args[2] < SIZE_MOD => args[1] * args[2] + ALIGN - 1 < SIZE_MOD
    /\ \A args \in AlignedArgs : args[1] + args[2] + PTR + ALIGN - 1 < SIZE_MOD
    /\ \A size \in ReallocSizes : size + ALIGN - 1 < SIZE_MOD

\* kmalloc, kmalloc_aligned and kcalloc seen alike: kmalloc(size) takes block b
\* and the caller gets the area of req bytes at ptr.
Allocates(size, b, ptr, req) ==
    /\ Take(size, b)
    /\ live' = Granted(b, ptr, req)
    /\ NoWrap => b + HDR <= ptr /\ ptr + req <= b + HDR + AlignUp(size)

SomeAllocation ==
    \E size \in Nat, b \in DOMAIN hdr, ptr \in Int, req \in Nat :
        Allocates(size, b, ptr, req)

LEMMA KmallocAllocates ==
    ASSUME HeapInv, NEW size \in Sizes, kmalloc(size)
    PROVE  SomeAllocation
  <1>1. PICK b \in DOMAIN hdr : Take(size, b) /\ live' = Granted(b, b + HDR, size)
    BY DEF kmalloc
  <1>2. size \in Nat /\ b \in Nat /\ b + HDR \in Int
    BY HeapConstants, HeaderFacts DEF HeapInv, TypeOK
  <1>3. AlignUp(size) \in Nat /\ (NoWrap => AlignUp(size) >= size)
    BY <1>2, AlignUpFacts DEF NoWrap
  <1>4. NoWrap => b + HDR <= b + HDR /\ (b + HDR) + size <= b + HDR + AlignUp(size)
    BY <1>2, <1>3, HeapConstants
  <1> QED BY <1>1, <1>2, <1>4 DEF SomeAllocation, Allocates

\* The aligned area and the pointer stored below it fit into the enlarged block.
LEMMA AlignedAllocates ==
    ASSUME HeapInv, NEW args \in AlignedArgs, kmalloc_aligned(args[1], args[2])
    PROVE  SomeAllocation
  <1> DEFINE size == args[1]
             alignment == args[2]
             asked == size + alignment + PTR
             total == asked % SIZE_MOD
  <1>1. /\ size \in Nat /\ alignment \in Nat \ {0} /\ asked \in Nat
        /\ asked = size + alignment + PTR
        /\ SIZE_MOD \in Nat \ {0} /\ HDR \in Nat /\ PTR \in Nat /\ ALIGN \in Nat
    BY HeapConstants
  <1>2. PICK b \in DOMAIN hdr :
          /\ Take(total, b)
          /\ live' = Granted(b, (b + HDR + PTR + alignment - 1)
                                - ((b + HDR + PTR + alignment - 1) % alignment), size)
    BY DEF kmalloc_aligned
  <1>w. NoWrap => asked + ALIGN - 1 < SIZE_MOD
    BY DEF NoWrap
  <1>b. b \in Nat
    BY HeaderFacts DEF HeapInv, TypeOK
  <1> DEFINE sum == b + HDR + PTR + alignment - 1
             low == sum % alignment
             ptr == sum - low
  <1>3. live' = Granted(b, ptr, size)
    BY <1>2
  <1> HIDE DEF size, alignment, asked
  <1>4. total \in Nat /\ (asked < SIZE_MOD => total = asked)
    <2>1. asked % SIZE_MOD \in 0 .. SIZE_MOD - 1 /\ (asked < SIZE_MOD => asked % SIZE_MOD = asked)
      BY <1>1, ModFacts
    <2> QED BY <1>1, <2>1
  <1>5. sum \in Nat /\ sum = b + HDR + PTR + alignment - 1
    BY <1>1, <1>b
  <1> HIDE DEF sum
  <1>6. low \in 0 .. alignment - 1
    BY <1>1, <1>5, ModFacts
  <1> HIDE DEF low, total
  <1>7. ptr \in Int /\ b + HDR + PTR <= ptr /\ ptr < b + HDR + PTR + alignment
    BY <1>1, <1>b, <1>5, <1>6
  <1> HIDE DEF ptr
  <1>8. AlignUp(total) \in Nat /\ (NoWrap => total = asked /\ AlignUp(total) >= total)
    <2>1. NoWrap => total = asked
      BY <1>1, <1>4, <1>w, HeapConstants
    <2>2. NoWrap => total + ALIGN - 1 < SIZE_MOD
      BY <1>w, <2>1
    <2> QED BY <1>4, <2>1, <2>2, AlignUpFacts
  <1>9. NoWrap => b + HDR <= ptr /\ ptr + size <= b + HDR + AlignUp(total)
    BY <1>1, <1>b, <1>7, <1>8
  <1> QED
    BY <1>1, <1>2, <1>3, <1>4, <1>7, <1>9 DEF SomeAllocation, Allocates

LEMMA KcallocAllocates ==
    ASSUME HeapInv, NEW args \in CallocArgs, kcalloc(args[1], args[2])
    PROVE  \/ SomeAllocation
           \/ pc' = "fault" /\ UNCHANGED <<hdr, mem_stats, live, block>>
  <1> DEFINE count == args[1]
             size == args[2]
             total == (count * size) % SIZE_MOD
  <1>1. count \in Nat /\ size \in Nat /\ count * size \in Nat /\ HDR \in Nat
    BY HeapConstants
  <1>t. total \in Nat
    <2> DEFINE product == count * size
    <2>1. product \in Nat /\ SIZE_MOD \in Nat \ {0}
      BY <1>1, HeapConstants
    <2> HIDE DEF product
    <2>2. product % SIZE_MOD \in Nat
      BY <2>1, ModFacts
    <2> QED BY <2>2 DEF product
  <1>2. CASE count # 0 /\ total \div count = size
             /\ \E b \in DOMAIN hdr :
                   Take(total, b) /\ live' = Granted(b, b + HDR, count * size)
    <2>1. PICK b \in DOMAIN hdr : Take(total, b) /\ live' = Granted(b, b + HDR, count * size)
      BY <1>2
    <2>2. total = count * size
      BY <1>1, <1>t, <1>2, OverflowCheckExact
    <2>3. b \in Nat
      BY HeaderFacts DEF HeapInv, TypeOK
    <2>4. total < SIZE_MOD
      <3> DEFINE product == count * size
      <3>1. product \in Nat /\ SIZE_MOD \in Nat \ {0}
        BY <1>1, HeapConstants
      <3> HIDE DEF product
      <3>2. product % SIZE_MOD < SIZE_MOD
        BY <3>1, ModFacts
      <3> QED BY <3>2 DEF product
    <2>5. NoWrap => count * size + ALIGN - 1 < SIZE_MOD
      BY <2>2, <2>4 DEF NoWrap
    <2>6. Take(count * size, b)
      BY <2>1, <2>2
    <2> DEFINE product == count * size
    <2>7. /\ product \in Nat /\ Take(product, b) /\ live' = Granted(b, b + HDR, product)
          /\ NoWrap => product + ALIGN - 1 < SIZE_MOD
      BY <1>1, <2>1, <2>5, <2>6
    <2> HIDE DEF product
    <2>8. AlignUp(product) \in Nat /\ (NoWrap => AlignUp(product) >= product)
      BY <2>7, AlignUpFacts
    <2>9. /\ b + HDR \in Int
          /\ NoWrap => b + HDR <= b + HDR /\ (b + HDR) + product <= b + HDR + AlignUp(product)
      BY <1>1, <2>3, <2>7, <2>8
    <2> QED BY <2>7, <2>9 DEF SomeAllocation, Allocates
  <1>3. CASE count = 0 /\ pc' = "fault" /\ UNCHANGED <<hdr, mem_stats, live, block>>
    BY <1>3
  <1> QED BY <1>2, <1>3 DEF kcalloc

----------------------------------------------------------------------------
\* Freeing, merging and reallocating.

\* kfree's marking, from the heap g in which b is a used block.
LEMMA ReleaseFacts ==
    ASSUME NEW g, IsHeap(g), IsTiled(g), NEW b \in DOMAIN g
    PROVE  LET r == released(g, b)
           IN  /\ IsHeap(r) /\ IsTiled(r) /\ DOMAIN r = DOMAIN g
               /\ r[b].is_free = 1
               /\ \A a \in DOMAIN g : r[a].size = g[a].size
               /\ \A a \in DOMAIN g \ {b} : r[a].is_free = g[a].is_free
  BY MarkKeepsTiled DEF released

LEMMA KfreeKeeps ==
    ASSUME HeapInv, NEW b \in DOMAIN live, kfree(b)
    PROVE  HeapInv'
  <1> DEFINE r == released(hdr, b)
             l == Returned(live, b)
  <1>1. b \in DOMAIN hdr /\ IsHeap(hdr) /\ IsTiled(hdr) /\ b \in Address
    BY DEF HeapInv, UsedIsLive, TypeOK, Tiled
  <1>2. /\ IsHeap(r) /\ IsTiled(r) /\ DOMAIN r = DOMAIN hdr
        /\ r[b].is_free = 1
        /\ \A a \in DOMAIN hdr \ {b} : r[a].is_free = hdr[a].is_free
    BY <1>1, ReleaseFacts
  <1>3. /\ DOMAIN l = DOMAIN live \ {b} /\ DOMAIN l \subseteq Address
        /\ l \in [DOMAIN l -> Grant]
    BY ReturnFacts DEF HeapInv, TypeOK
  <1> HIDE DEF r, l
  <1>4. hdr' = r /\ live' = l /\ pc' = "next" /\ block' = b
    BY DEF kfree, r, l
  <1>5. mem_stats' \in StatsType
    <2>1. mem_stats \in StatsType /\ hdr[b].size \in Nat
      BY <1>1, HeaderFacts DEF HeapInv, TypeOK, StatsType
    <2> QED BY <2>1, CountTypes DEF kfree
  <1>6. TypeOK'
    BY <1>1, <1>2, <1>3, <1>4, <1>5 DEF TypeOK, StatsType
  <1>7. UsedIsLive'
    <2>1. \A a \in DOMAIN r : r[a].is_free = 0 <=> a \in DOMAIN l
      BY <1>2, <1>3 DEF HeapInv, UsedIsLive
    <2>2. DOMAIN l \subseteq DOMAIN r
      BY <1>2, <1>3 DEF HeapInv, UsedIsLive
    <2> QED BY <1>4, <2>1, <2>2 DEF UsedIsLive
  <1>8. Tiled' /\ MergingFree'
    BY <1>1, <1>2, <1>4 DEF Tiled, MergingFree
  <1> QED BY <1>6, <1>7, <1>8 DEF HeapInv

\* A merging iteration that joins b and its free successor.
LEMMA AbsorbKeeps ==
    ASSUME HeapInv, NEW b \in DOMAIN hdr, hdr[b].next # NULL,
           hdr[hdr[b].next].is_free = 1, hdr[b].is_free = 1,
           hdr' = absorb(hdr, b), block' = b,
           pc' = pc, UNCHANGED <<mem_stats, live>>
    PROVE  /\ HeapInv'
           /\ \A a \in DOMAIN live : a \in DOMAIN hdr' /\ hdr'[a].size = hdr[a].size
  <1> DEFINE g == absorb(hdr, b)
             n == hdr[b].next
  <1>1. IsHeap(hdr) /\ IsTiled(hdr) /\ b \in Address
    BY DEF HeapInv, TypeOK, Tiled, IsHeap
  <1>2. /\ IsHeap(g) /\ IsTiled(g) /\ n \in DOMAIN hdr /\ n # b
        /\ DOMAIN g = DOMAIN hdr \ {n}
        /\ \A a \in DOMAIN g : g[a].is_free = hdr[a].is_free
        /\ \A a \in DOMAIN g \ {b} : g[a].size = hdr[a].size
    <2>1. Joined(absorb(hdr, b), hdr, b)
      BY <1>1, AbsorbKeepsTiled
    <2> QED BY <2>1 DEF Joined
  <1>3. hdr[n].is_free = 1 /\ hdr' = g
    OBVIOUS
  <1> HIDE DEF g, n
  <1>4. TypeOK'
    BY <1>1, <1>2, <1>3 DEF HeapInv, TypeOK
  <1>5. UsedIsLive'
    <2>1. n \notin DOMAIN live
      BY <1>2, <1>3 DEF HeapInv, UsedIsLive
    <2>2. \A a \in DOMAIN g : g[a].is_free = 0 <=> a \in DOMAIN live
      BY <1>2 DEF HeapInv, UsedIsLive
    <2>3. DOMAIN live \subseteq DOMAIN g
      BY <1>2, <2>1 DEF HeapInv, UsedIsLive
    <2> QED BY <1>3, <2>2, <2>3 DEF UsedIsLive
  <1>6. Tiled' /\ MergingFree'
    BY <1>2, <1>3 DEF Tiled, MergingFree
  <1>7. \A a \in DOMAIN live : a \in DOMAIN g /\ g[a].size = hdr[a].size
    <2>1. \A a \in DOMAIN live : a # b /\ a # n /\ a \in DOMAIN hdr
      BY <1>2, <1>3 DEF HeapInv, UsedIsLive
    <2> QED BY <1>2, <2>1
  <1> QED BY <1>3, <1>4, <1>5, <1>6, <1>7 DEF HeapInv

LEMMA MergeKeeps ==
    ASSUME HeapInv, merge_free_blocks
    PROVE  /\ HeapInv'
           /\ live' = live
           /\ \A a \in DOMAIN live : a \in DOMAIN hdr' /\ hdr'[a].size = hdr[a].size
  <1>0. /\ live' = live /\ mem_stats' = mem_stats
        /\ block \in DOMAIN hdr /\ hdr[block].is_free = 1
        /\ DOMAIN live \subseteq DOMAIN hdr
    BY DEF merge_free_blocks, merge_next, merge_prev, HeapInv, MergingFree, UsedIsLive
  <1>1. CASE /\ pc = "next" /\ FreeBlock(hdr[block].next)
             /\ hdr' = absorb(hdr, block) /\ UNCHANGED <<pc, block>>
    <2>1. PICK b \in DOMAIN hdr : b = block
      BY <1>0
    <2>2. /\ hdr[b].next # NULL /\ hdr[hdr[b].next].is_free = 1 /\ hdr[b].is_free = 1
          /\ hdr' = absorb(hdr, b) /\ block' = b /\ pc' = pc
          /\ UNCHANGED <<mem_stats, live>>
      BY <1>0, <1>1, <2>1 DEF FreeBlock
    <2> QED BY <1>0, <2>2, AbsorbKeeps
  <1>2. CASE /\ pc = "prev" /\ FreeBlock(hdr[block].prev)
             /\ hdr' = absorb(hdr, hdr[block].prev) /\ block' = hdr[block].prev
             /\ UNCHANGED pc
    <2>1. hdr[block].prev \in DOMAIN hdr /\ hdr[hdr[block].prev].next = block
      BY <1>0, <1>2 DEF FreeBlock, HeapInv, Tiled, IsTiled, LinksInverse
    <2>2. PICK b \in DOMAIN hdr : b = hdr[block].prev
      BY <2>1
    <2>3. block # NULL
      BY <1>0, AddressFacts DEF HeapInv, TypeOK, IsHeap
    <2>4. /\ hdr[b].next # NULL /\ hdr[hdr[b].next].is_free = 1 /\ hdr[b].is_free = 1
          /\ hdr' = absorb(hdr, b) /\ block' = b /\ pc' = pc
          /\ UNCHANGED <<mem_stats, live>>
      BY <1>0, <1>2, <2>1, <2>2, <2>3 DEF FreeBlock
    <2> QED BY <1>0, <2>4, AbsorbKeeps
  <1>3. CASE /\ UNCHANGED hdr
             /\ \/ pc' = "prev" /\ block' = block
                \/ pc' = "idle" /\ block' = NULL
    BY <1>0, <1>3 DEF HeapInv, TypeOK, Tiled, UsedIsLive, MergingFree
  <1> QED
    BY <1>1, <1>2, <1>3 DEF merge_free_blocks, merge_next, merge_prev

LEMMA ShrinkKeeps ==
    ASSUME HeapInv, NEW b \in DOMAIN live, NEW new_size \in ReallocSizes,
           krealloc_shrink(b, new_size)
    PROVE  /\ HeapInv'
           /\ b \in DOMAIN hdr' /\ hdr'[b].size >= new_size
           /\ \A a \in DOMAIN live \ {b} :
                 a \in DOMAIN hdr' /\ hdr'[a].size = hdr[a].size
  <1> DEFINE g == split_block(hdr, b, new_size)
             l == Granted(b, b + HDR, new_size)
  <1>1. /\ b \in DOMAIN hdr /\ IsHeap(hdr) /\ IsTiled(hdr) /\ b \in Address
        /\ b + HDR \in Int /\ new_size \in Nat /\ hdr[b].size \in Nat
        /\ new_size <= hdr[b].size
    <2>1. b \in DOMAIN hdr /\ IsHeap(hdr) /\ IsTiled(hdr)
      BY DEF HeapInv, UsedIsLive, TypeOK, Tiled
    <2>2. b \in Nat /\ hdr[b].size \in Nat /\ new_size \in Nat /\ b \in Address
      BY <2>1, HeaderFacts, HeapConstants
    <2> QED BY <2>1, <2>2, HeapConstants DEF krealloc_shrink
  <1>2. /\ IsHeap(g) /\ IsTiled(g) /\ DOMAIN hdr \subseteq DOMAIN g
        /\ \A a \in DOMAIN hdr : g[a].is_free = hdr[a].is_free
        /\ \A a \in DOMAIN g \ DOMAIN hdr : g[a].is_free = 1
        /\ g[b].size >= new_size
        /\ \A a \in DOMAIN hdr \ {b} : g[a].size = hdr[a].size
    BY <1>1, SplitKeepsTiled
  <1>3. /\ DOMAIN l = DOMAIN live \cup {b} /\ DOMAIN l \subseteq Address
        /\ l \in [DOMAIN l -> Grant]
    BY <1>1, GrantFacts DEF HeapInv
  <1> HIDE DEF g, l
  <1>4. hdr' = g /\ live' = l /\ UNCHANGED <<mem_stats, pc, block>> /\ pc = "idle"
    BY DEF krealloc_shrink, g, l
  <1>5. TypeOK'
    BY <1>2, <1>3, <1>4 DEF HeapInv, TypeOK
  <1>6. UsedIsLive'
    <2>0. DOMAIN l = DOMAIN live
      BY <1>3
    <2>1. \A a \in DOMAIN g : g[a].is_free = 0 <=> a \in DOMAIN l
      BY <1>2, <2>0 DEF HeapInv, UsedIsLive
    <2>2. DOMAIN l \subseteq DOMAIN g
      BY <1>2, <2>0 DEF HeapInv, UsedIsLive
    <2> QED BY <1>4, <2>1, <2>2 DEF UsedIsLive
  <1>7. Tiled' /\ MergingFree'
    BY <1>2, <1>4 DEF Tiled, MergingFree
  <1>8. \A a \in DOMAIN live \ {b} : a \in DOMAIN g /\ g[a].size = hdr[a].size
    BY <1>2 DEF HeapInv, UsedIsLive
  <1> QED BY <1>1, <1>2, <1>4, <1>5, <1>6, <1>7, <1>8 DEF HeapInv

LEMMA MoveKeeps ==
    ASSUME HeapInv, NEW b \in DOMAIN live, NEW new_size \in ReallocSizes,
           krealloc_move(b, new_size)
    PROVE  /\ HeapInv'
           /\ \E c \in DOMAIN hdr :
                 /\ c # b /\ c \notin DOMAIN live /\ c \in DOMAIN hdr'
                 /\ live' = Returned(Granted(c, c + HDR, new_size), b)
                 /\ hdr'[c].size >= AlignUp(new_size) /\ hdr'[c].size \in Nat
                 /\ hdr'[b].size = hdr[b].size /\ b \in DOMAIN hdr'
                 /\ \A a \in DOMAIN live \ {b} :
                       a \in DOMAIN hdr' /\ hdr'[a].size = hdr[a].size
  <1> DEFINE n == AlignUp(new_size)
  <1>1. n \in Nat /\ new_size \in Nat
    BY AlignUpFacts, HeapConstants
  <1>2. PICK c \in find_free_block(n) :
          /\ hdr' = released(taken(c, n), b)
          /\ mem_stats' = CountFree(CountAlloc(mem_stats, taken(c, n)[c].size),
                                    taken(c, n)[b].size)
          /\ live' = Returned(Granted(c, c + HDR, new_size), b)
    BY DEF krealloc_move
  <1> DEFINE h == taken(c, n)
             r == released(h, b)
             m == Granted(c, c + HDR, new_size)
             l == Returned(m, b)
  <1> HIDE DEF n
  <1>3. /\ c \in DOMAIN hdr /\ c \in Address /\ c \notin DOMAIN live
        /\ IsHeap(h) /\ IsTiled(h) /\ DOMAIN hdr \subseteq DOMAIN h
        /\ h[c].is_free = 0 /\ h[c].size >= n /\ h[c].size \in Nat
        /\ \A a \in DOMAIN hdr \ {c} :
              h[a].is_free = hdr[a].is_free /\ h[a].size = hdr[a].size
        /\ \A a \in DOMAIN h \ DOMAIN hdr : h[a].is_free = 1
    BY <1>1, TakenFacts
  <1>4. b \in DOMAIN hdr /\ b # c /\ b \in DOMAIN h /\ b \in Address /\ c \in Nat
    BY <1>3, AddressFacts DEF HeapInv, UsedIsLive, TypeOK
  <1> HIDE DEF h
  <1>5. /\ IsHeap(r) /\ IsTiled(r) /\ DOMAIN r = DOMAIN h
        /\ r[b].is_free = 1
        /\ \A a \in DOMAIN h : r[a].size = h[a].size
        /\ \A a \in DOMAIN h \ {b} : r[a].is_free = h[a].is_free
    BY <1>3, <1>4, ReleaseFacts
  <1>6. /\ DOMAIN m = DOMAIN live \cup {c} /\ DOMAIN m \subseteq Address
        /\ m \in [DOMAIN m -> Grant]
    <2>1. c + HDR \in Int
      BY <1>4, HeapConstants
    <2> QED BY <1>1, <1>3, <2>1, GrantFacts DEF HeapInv
  <1> HIDE DEF m
  <1>7. /\ DOMAIN l = DOMAIN m \ {b} /\ DOMAIN l \subseteq Address
        /\ l \in [DOMAIN l -> Grant]
    BY <1>6, ReturnFacts
  <1>8. mem_stats' \in StatsType
    <2>1. mem_stats \in StatsType /\ mem_stats.num_allocations < MaxAllocs
      BY DEF HeapInv, TypeOK, StatsType, krealloc_move
    <2>2. CountAlloc(mem_stats, h[c].size) \in StatsType
      BY <1>3, <2>1, CountTypes
    <2>3. h[b].size \in Nat
      BY <1>3, <1>4, HeaderFacts
    <2>4. mem_stats' = CountFree(CountAlloc(mem_stats, h[c].size), h[b].size)
      BY <1>2 DEF h
    <2> QED BY <2>2, <2>3, <2>4, CountTypes
  <1>9. hdr' = r /\ live' = l
    BY <1>2 DEF h, m
  <1>10. pc' = "next" /\ block' = b
    BY DEF krealloc_move
  <1> HIDE DEF r, l
  <1>11. TypeOK'
    BY <1>4, <1>5, <1>7, <1>8, <1>9, <1>10 DEF HeapInv, TypeOK, StatsType
  <1>12. UsedIsLive'
    <2>1. \A a \in DOMAIN r : r[a].is_free = 0 <=> a \in DOMAIN l
      BY <1>3, <1>4, <1>5, <1>6, <1>7 DEF HeapInv, UsedIsLive
    <2>2. DOMAIN l \subseteq DOMAIN r
      BY <1>3, <1>4, <1>5, <1>6, <1>7 DEF HeapInv, UsedIsLive
    <2> QED BY <1>9, <2>1, <2>2 DEF UsedIsLive
  <1>13. Tiled' /\ MergingFree'
    BY <1>4, <1>5, <1>9, <1>10 DEF Tiled, MergingFree
  <1>14. /\ c \in DOMAIN r /\ r[c].size >= n /\ r[c].size \in Nat
         /\ r[b].size = hdr[b].size /\ b \in DOMAIN r
         /\ \A a \in DOMAIN live \ {b} : a \in DOMAIN r /\ r[a].size = hdr[a].size
    BY <1>3, <1>4, <1>5 DEF HeapInv, UsedIsLive
  <1>15. live' = Returned(Granted(c, c + HDR, new_size), b)
    BY <1>2
  <1> QED
    BY <1>3, <1>4, <1>9, <1>11, <1>12, <1>13, <1>14, <1>15 DEF HeapInv, n

----------------------------------------------------------------------------
\* The invariant is inductive, and what it gives for every behaviour.

\* What a step can be, with the three ways to allocate seen alike.
LEMMA StepCases ==
    ASSUME HeapInv, [Next]_vars
    PROVE  \/ SomeAllocation
           \/ \E b \in DOMAIN live : kfree(b)
           \/ merge_free_blocks
           \/ \E b \in DOMAIN live, n \in ReallocSizes : krealloc_shrink(b, n)
           \/ \E b \in DOMAIN live, n \in ReallocSizes : krealloc_move(b, n)
           \/ mm_get_stats
           \/ pc' = "fault" /\ UNCHANGED <<hdr, mem_stats, live, block>>
           \/ UNCHANGED vars
  BY KmallocAllocates, AlignedAllocates, KcallocAllocates
  DEF Next, CoreNext, Halted, krealloc

LEMMA HeapStep == HeapInv /\ [Next]_vars => HeapInv'
  <1> SUFFICES ASSUME HeapInv, [Next]_vars PROVE HeapInv'
    OBVIOUS
  <1>1. CASE SomeAllocation
    BY <1>1, TakeKeeps DEF SomeAllocation, Allocates
  <1>2. CASE \E b \in DOMAIN live : kfree(b)
    BY <1>2, KfreeKeeps
  <1>3. CASE merge_free_blocks
    BY <1>3, MergeKeeps
  <1>4. CASE \E b \in DOMAIN live, n \in ReallocSizes : krealloc_shrink(b, n)
    BY <1>4, ShrinkKeeps
  <1>5. CASE \E b \in DOMAIN live, n \in ReallocSizes : krealloc_move(b, n)
    BY <1>5, MoveKeeps
  <1>6. CASE mm_get_stats
    <2>1. PICK largest \in FreeBlockSizes \cup {0} :
            mem_stats' = [mem_stats EXCEPT !.largest_free_block = largest]
      BY <1>6 DEF mm_get_stats
    <2>2. largest \in Nat
      BY HeaderFacts DEF FreeBlockSizes, HeapInv, TypeOK
    <2>3. UNCHANGED <<hdr, live, pc, block>>
      BY <1>6 DEF mm_get_stats
    <2>4. TypeOK'
      BY <2>1, <2>2, <2>3 DEF HeapInv, TypeOK
    <2> QED
      BY <2>3, <2>4 DEF HeapInv, Tiled, UsedIsLive, MergingFree
  <1>7. CASE pc' = "fault" /\ UNCHANGED <<hdr, mem_stats, live, block>>
    BY <1>7 DEF HeapInv, TypeOK, Tiled, UsedIsLive, MergingFree
  <1>8. CASE UNCHANGED vars
    BY <1>8 DEF vars, HeapInv, TypeOK, Tiled, UsedIsLive, MergingFree
  <1> QED
    BY <1>1, <1>2, <1>3, <1>4, <1>5, <1>6, <1>7, <1>8, StepCases

LEMMA HeapStart == Init => HeapInv
  <1> SUFFICES ASSUME Init PROVE HeapInv
    OBVIOUS
  <1>1. /\ DOMAIN hdr = {heap_head} /\ hdr = FreshHeap
        /\ hdr[heap_head] = [size |-> KERNEL_HEAP_SIZE - HDR, is_free |-> 1,
                             next |-> NULL, prev |-> NULL]
        /\ DOMAIN live = {} /\ pc = "idle" /\ block = NULL
    BY DEF Init, FreshHeap
  <1>2. /\ hdr[heap_head].size = KERNEL_HEAP_SIZE - HDR /\ hdr[heap_head].is_free = 1
        /\ hdr[heap_head].next = NULL /\ hdr[heap_head].prev = NULL
        /\ KERNEL_HEAP_SIZE - HDR \in 0 .. KERNEL_HEAP_SIZE
    BY <1>1, HeapConstants
  <1>3. IsHeap(hdr)
    BY <1>1, <1>2, AddressFacts DEF IsHeap, Header, FreshHeap
  <1>4. TypeOK
    <2>1. mem_stats \in StatsType
      BY <1>2, HeapConstants DEF Init, StatsType
    <2>2. live \in [DOMAIN live -> Grant] /\ DOMAIN live \subseteq Address
      BY <1>1 DEF Init
    <2> QED BY <1>1, <1>3, <2>1, <2>2 DEF TypeOK, StatsType
  <1>5. End(hdr, heap_head) = HeapEnd
    BY <1>2, HeapConstants DEF End, HeapEnd, heap_head
  <1>6. Tiled
    <2>1. NextAdjacent(hdr)
      BY <1>1, <1>2, <1>5 DEF NextAdjacent
    <2>2. LinksInverse(hdr)
      BY <1>1, <1>2 DEF LinksInverse
    <2>3. Disjoint(hdr)
      BY <1>1, AddressFacts DEF Disjoint
    <2> QED BY <1>1, <2>1, <2>2, <2>3 DEF Tiled, IsTiled
  <1>7. UsedIsLive /\ MergingFree
    BY <1>1, <1>2 DEF UsedIsLive, MergingFree
  <1> QED BY <1>4, <1>6, <1>7 DEF HeapInv

\* Whatever callers do, krealloc included, the blocks tile the heap at every
\* step, and the used blocks are exactly those that callers hold.
THEOREM HeapCorrect == Spec => [](TypeOK /\ Tiled /\ UsedIsLive)
  <1>1. HeapInv => TypeOK /\ Tiled /\ UsedIsLive
    BY DEF HeapInv
  <1> QED
    BY <1>1, HeapStart, HeapStep, PTL DEF Spec

----------------------------------------------------------------------------
\* Requests that do not wrap are served in full.

LEMMA FitsStep ==
    ASSUME NoWrap, HeapInv, RequestFits, [Next]_vars
    PROVE  RequestFits'
  <1>0. /\ IsHeap(hdr) /\ IsTiled(hdr) /\ DOMAIN live \subseteq DOMAIN hdr
        /\ \A a \in DOMAIN live : a \in Nat /\ live[a].ptr \in Int /\ live[a].req \in Nat
        /\ live \in [DOMAIN live -> Grant]
        /\ HDR \in Nat
    BY HeaderFacts, HeapConstants DEF HeapInv, TypeOK, Tiled, UsedIsLive, Grant
  <1>1. CASE SomeAllocation
    <2>1. PICK size \in Nat, b \in DOMAIN hdr, ptr \in Int, req \in Nat :
            Allocates(size, b, ptr, req)
      BY <1>1 DEF SomeAllocation
    <2>2. /\ hdr' = taken(b, AlignUp(size)) /\ b \in find_free_block(AlignUp(size))
          /\ live' = Granted(b, ptr, req) /\ AlignUp(size) \in Nat
          /\ b + HDR <= ptr /\ ptr + req <= b + HDR + AlignUp(size)
      BY <2>1, AlignUpFacts DEF Allocates, Take
    <2>3. /\ b \in Address /\ b \notin DOMAIN live
          /\ hdr'[b].size >= AlignUp(size) /\ hdr'[b].size \in Nat
          /\ \A a \in DOMAIN hdr \ {b} : hdr'[a].size = hdr[a].size
      BY <2>2, TakenFacts
    <2>4. /\ DOMAIN live' = DOMAIN live \cup {b}
          /\ live'[b].ptr = ptr /\ live'[b].req = req
          /\ \A a \in DOMAIN live \ {b} : live'[a] = live[a]
      BY <2>2 DEF Granted
    <2>5. ASSUME NEW a \in DOMAIN live'
          PROVE  b + HDR <= ptr /\ a + HDR <= live'[a].ptr
                 /\ live'[a].ptr + live'[a].req <= a + HDR + hdr'[a].size
      <3>1. CASE a = b
        <4>1. b \in Nat
          BY <2>3, AddressFacts
        <4> QED BY <1>0, <2>2, <2>3, <2>4, <3>1, <4>1
      <3>2. CASE a # b
        <4>1. a \in DOMAIN live /\ live'[a] = live[a] /\ hdr'[a].size = hdr[a].size
          BY <1>0, <2>3, <2>4, <3>2
        <4> QED BY <2>2, <4>1 DEF RequestFits, End
      <3> QED BY <3>1, <3>2
    <2> QED BY <2>5 DEF RequestFits, End
  <1>2. ASSUME NEW b \in DOMAIN live, kfree(b) PROVE RequestFits'
    <2>1. /\ hdr' = released(hdr, b) /\ live' = Returned(live, b) /\ b \in DOMAIN hdr
      BY <1>0, <1>2 DEF kfree
    <2>2. \A a \in DOMAIN hdr : hdr'[a].size = hdr[a].size
      BY <1>0, <2>1, ReleaseFacts
    <2>3. DOMAIN live' = DOMAIN live \ {b} /\ \A a \in DOMAIN live' : live'[a] = live[a]
      BY <2>1 DEF Returned
    <2> QED BY <1>0, <2>2, <2>3 DEF RequestFits, End
  <1>3. CASE merge_free_blocks
    <2>1. live' = live /\ \A a \in DOMAIN live : hdr'[a].size = hdr[a].size
      BY <1>3, MergeKeeps
    <2> QED BY <2>1 DEF RequestFits, End
  <1>4. ASSUME NEW b \in DOMAIN live, NEW n \in ReallocSizes, krealloc_shrink(b, n)
        PROVE  RequestFits'
    <2>1. live' = Granted(b, b + HDR, n)
      BY <1>4 DEF krealloc_shrink
    <2>2. /\ hdr'[b].size >= n
          /\ \A a \in DOMAIN live \ {b} : hdr'[a].size = hdr[a].size
      BY <1>4, ShrinkKeeps
    <2>3. HeapInv'
      BY <1>4, ShrinkKeeps
    <2>4. hdr'[b].size \in Nat /\ n \in Nat /\ b \in Nat /\ b \in Address
      <3>1. IsHeap(hdr') /\ b \in DOMAIN hdr'
        BY <1>4, <2>3, ShrinkKeeps DEF HeapInv, TypeOK
      <3> QED BY <1>0, <3>1, HeaderFacts, HeapConstants
    <2>5. /\ DOMAIN live' = DOMAIN live
          /\ live'[b].ptr = b + HDR /\ live'[b].req = n
          /\ \A a \in DOMAIN live \ {b} : live'[a] = live[a]
      BY <2>1 DEF Granted
    <2>6. ASSUME NEW a \in DOMAIN live'
          PROVE  a + HDR <= live'[a].ptr
                 /\ live'[a].ptr + live'[a].req <= a + HDR + hdr'[a].size
      <3>1. CASE a = b
        BY <1>0, <2>2, <2>4, <2>5, <3>1
      <3>2. CASE a # b
        BY <2>2, <2>5, <3>2 DEF RequestFits, End
      <3> QED BY <3>1, <3>2
    <2> QED BY <2>6 DEF RequestFits, End
  <1>5. ASSUME NEW b \in DOMAIN live, NEW n \in ReallocSizes, krealloc_move(b, n)
        PROVE  RequestFits'
    <2>1. PICK c \in DOMAIN hdr :
             /\ c # b /\ c \notin DOMAIN live
             /\ live' = Returned(Granted(c, c + HDR, n), b)
             /\ hdr'[c].size >= AlignUp(n) /\ hdr'[c].size \in Nat
             /\ \A a \in DOMAIN live \ {b} : hdr'[a].size = hdr[a].size
      BY <1>5, MoveKeeps
    <2>2. /\ n \in Nat /\ c \in Nat /\ AlignUp(n) \in Nat /\ AlignUp(n) >= n
      <3>1. n \in Nat /\ c \in Nat /\ n + ALIGN - 1 < SIZE_MOD
        BY <1>0, HeaderFacts, HeapConstants DEF NoWrap
      <3> QED BY <3>1, AlignUpFacts
    <2>3. /\ DOMAIN live' = (DOMAIN live \cup {c}) \ {b}
          /\ live'[c].ptr = c + HDR /\ live'[c].req = n
          /\ \A a \in DOMAIN live \ {b} : live'[a] = live[a]
      BY <2>1 DEF Granted, Returned
    <2>4. ASSUME NEW a \in DOMAIN live'
          PROVE  a + HDR <= live'[a].ptr
                 /\ live'[a].ptr + live'[a].req <= a + HDR + hdr'[a].size
      <3>1. CASE a = c
        BY <1>0, <2>1, <2>2, <2>3, <3>1
      <3>2. CASE a # c
        BY <2>1, <2>3, <3>2 DEF RequestFits, End
      <3> QED BY <3>1, <3>2
    <2> QED BY <2>4 DEF RequestFits, End
  <1>6. CASE UNCHANGED <<hdr, live>>
    BY <1>6 DEF RequestFits, End
  <1> QED
    BY <1>1, <1>2, <1>3, <1>4, <1>5, <1>6, StepCases DEF mm_get_stats, vars

\* Every caller has the bytes it asked for, as long as no request is within
\* ALIGN - 1 of the largest size_t.
THEOREM RequestsFit == ASSUME NoWrap PROVE Spec => []RequestFits
  <1>1. Init => RequestFits
    BY DEF Init, RequestFits
  <1>2. HeapInv /\ RequestFits /\ [Next]_vars => RequestFits'
    BY FitsStep
  <1> QED
    BY <1>1, <1>2, HeapStart, HeapStep, PTL DEF Spec

----------------------------------------------------------------------------
\* The block list implements the abstract allocator.

Area(l, a) == [lo |-> l[a].ptr, len |-> l[a].req]

\* Every area lies in the payload of its own block.
Placed(h, l) ==
    /\ IsHeap(h) /\ IsTiled(h)
    /\ DOMAIN l \subseteq DOMAIN h
    /\ \A a \in DOMAIN l : /\ l[a].ptr \in Int /\ l[a].req \in Nat
                           /\ a + HDR <= l[a].ptr
                           /\ l[a].ptr + l[a].req <= End(h, a)

LEMMA AreaFacts ==
    ASSUME NEW h, NEW l, Placed(h, l)
    PROVE  /\ \A a \in DOMAIN l : A!Inside(Area(l, a))
           /\ \A a, b \in DOMAIN l : a # b =>
                 A!Apart(Area(l, a), Area(l, b)) /\ Area(l, a) # Area(l, b)
  <1>0. /\ HDR \in Nat \ {0} /\ KERNEL_HEAP_START \in Nat /\ KERNEL_HEAP_SIZE \in Nat
        /\ HeapEnd = KERNEL_HEAP_START + KERNEL_HEAP_SIZE
    BY HeapConstants DEF HeapEnd
  <1>1. \A a \in DOMAIN l :
            /\ a \in DOMAIN h /\ a \in Nat /\ KERNEL_HEAP_START <= a
            /\ End(h, a) \in Nat /\ End(h, a) <= HeapEnd
            /\ Area(l, a).lo = l[a].ptr /\ Area(l, a).len = l[a].req
    <2> TAKE a \in DOMAIN l
    <2>1. a \in DOMAIN h
      BY DEF Placed
    <2> QED
      BY <2>1, HeaderFacts, EndsInside, AddressFacts DEF Placed, Area
  <1>2. ASSUME NEW a \in DOMAIN l PROVE A!Inside(Area(l, a))
    BY <1>0, <1>1 DEF Placed, A!Inside
  <1>3. ASSUME NEW a \in DOMAIN l, NEW b \in DOMAIN l, a < b
        PROVE  l[a].ptr + l[a].req <= l[b].ptr /\ l[a].ptr < l[b].ptr
    <2>1. End(h, a) <= b
      BY <1>1, <1>3 DEF Placed, IsTiled, Disjoint
    <2> QED BY <1>0, <1>1, <2>1 DEF Placed
  <1>4. ASSUME NEW a \in DOMAIN l, NEW b \in DOMAIN l, a # b
        PROVE  A!Apart(Area(l, a), Area(l, b)) /\ Area(l, a) # Area(l, b)
    <2>1. a < b \/ b < a
      BY <1>1, <1>4
    <2>2. l[a].ptr # l[b].ptr
      BY <1>3, <2>1 DEF Placed
    <2>3. Area(l, a) # Area(l, b)
      BY <1>1, <2>2
    <2> QED BY <1>1, <1>3, <2>1, <2>3 DEF A!Apart
  <1> QED BY <1>2, <1>4

\* The invariants place every area.
LEMMA InvPlaced ==
    HeapInv /\ RequestFits => Placed(hdr, live)
  BY DEF HeapInv, RequestFits, Placed, TypeOK, Tiled, UsedIsLive, Grant

LEMMA InvPlacedNext ==
    HeapInv' /\ RequestFits' => Placed(hdr', live')
  BY DEF HeapInv, RequestFits, Placed, TypeOK, Tiled, UsedIsLive, Grant

LEMMA AreasAre ==
    /\ Areas = {Area(live, a) : a \in DOMAIN live}
    /\ Areas' = {Area(live', a) : a \in DOMAIN live'}
  BY DEF Areas, Area

\* A new block granted: Alloc.
LEMMA GrantIsAlloc ==
    ASSUME Placed(hdr', live'), NEW b, b \notin DOMAIN live,
           DOMAIN live' = DOMAIN live \cup {b},
           \A a \in DOMAIN live : live'[a] = live[a]
    PROVE  A!AllocatorNext
  <1>1. PICK x : x = Area(live', b)
    OBVIOUS
  <1>2. \A a \in DOMAIN live : Area(live, a) = Area(live', a)
    BY DEF Area
  <1>3. Areas' = Areas \cup {x} /\ x \in Areas'
    BY <1>1, <1>2, AreasAre
  <1>4. A!Inside(x)
    BY <1>1, AreaFacts
  <1>5. \A y \in Areas : A!Apart(x, y)
    <2> TAKE y \in Areas
    <2>1. PICK a \in DOMAIN live : y = Area(live', a)
      BY <1>2, AreasAre
    <2>2. a # b /\ a \in DOMAIN live' /\ b \in DOMAIN live'
      BY <2>1
    <2> QED BY <1>1, <2>1, <2>2, AreaFacts
  <1>6. A!Alloc(x)
    BY <1>3, <1>4, <1>5 DEF A!Alloc
  <1> QED BY <1>3, <1>6 DEF A!AllocatorNext

\* A block returned: Free.
LEMMA ReturnIsFree ==
    ASSUME Placed(hdr, live), NEW b \in DOMAIN live,
           DOMAIN live' = DOMAIN live \ {b},
           \A a \in DOMAIN live' : live'[a] = live[a]
    PROVE  A!AllocatorNext
  <1>1. PICK x : x = Area(live, b)
    OBVIOUS
  <1>2. \A a \in DOMAIN live' : Area(live', a) = Area(live, a)
    BY DEF Area
  <1>3. \A a \in DOMAIN live \ {b} : Area(live, a) # x
    BY <1>1, AreaFacts
  <1>4. Areas' = Areas \ {x} /\ x \in Areas
    BY <1>1, <1>2, <1>3, AreasAre
  <1>5. A!Free(x)
    BY <1>4 DEF A!Free
  <1> QED BY <1>4, <1>5 DEF A!AllocatorNext

\* A block resized where it is: Resize.
LEMMA ShrinkIsResize ==
    ASSUME Placed(hdr, live), Placed(hdr', live'), NEW b \in DOMAIN live,
           DOMAIN live' = DOMAIN live, live'[b].ptr = live[b].ptr,
           \A a \in DOMAIN live \ {b} : live'[a] = live[a]
    PROVE  A!AllocatorNext
  <1>1. PICK x, y : x = Area(live, b) /\ y = Area(live', b)
    OBVIOUS
  <1>2. \A a \in DOMAIN live \ {b} : Area(live', a) = Area(live, a)
    BY DEF Area
  <1>3. \A a \in DOMAIN live \ {b} : Area(live, a) # x
    BY <1>1, AreaFacts
  <1>4. Areas' = (Areas \ {x}) \cup {y} /\ x \in Areas /\ y \in Areas'
    BY <1>1, <1>2, <1>3, AreasAre
  <1>5. y.lo = x.lo
    BY <1>1 DEF Area
  <1>6. A!Inside(y)
    BY <1>1, AreaFacts
  <1>7. \A z \in Areas \ {x} : A!Apart(y, z)
    <2> TAKE z \in Areas \ {x}
    <2>1. PICK a \in DOMAIN live : z = Area(live, a)
      BY AreasAre
    <2>2. a # b /\ a \in DOMAIN live' /\ b \in DOMAIN live'
      BY <1>1, <2>1
    <2>3. z = Area(live', a)
      BY <1>2, <2>1, <2>2
    <2> QED BY <1>1, <2>2, <2>3, AreaFacts
  <1>8. A!Resize(x, y)
    BY <1>4, <1>5, <1>6, <1>7 DEF A!Resize
  <1> QED BY <1>4, <1>8 DEF A!AllocatorNext

\* A block replaced by a new one, with m the grants while both exist: Move.
LEMMA MoveIsMove ==
    ASSUME Placed(hdr, live), NEW m, Placed(hdr', m),
           NEW b \in DOMAIN live, NEW c, c \notin DOMAIN live,
           DOMAIN m = DOMAIN live \cup {c}, DOMAIN live' = DOMAIN m \ {b},
           \A a \in DOMAIN live : m[a] = live[a],
           \A a \in DOMAIN live' : live'[a] = m[a]
    PROVE  A!AllocatorNext
  <1>1. PICK x, y : x = Area(live, b) /\ y = Area(m, c)
    OBVIOUS
  <1>2. /\ \A a \in DOMAIN live : Area(m, a) = Area(live, a)
        /\ \A a \in DOMAIN live' : Area(live', a) = Area(m, a)
    BY DEF Area
  <1>3. \A a \in DOMAIN live \ {b} : Area(live, a) # x
    BY <1>1, AreaFacts
  <1>4. Areas' = (Areas \ {x}) \cup {y} /\ x \in Areas /\ y \in Areas'
    <2>1. b # c /\ c \in DOMAIN live' /\ DOMAIN live' = (DOMAIN live \ {b}) \cup {c}
      OBVIOUS
    <2>2. Areas' = {Area(live, a) : a \in DOMAIN live \ {b}} \cup {y}
      BY <1>1, <1>2, <2>1, AreasAre
    <2>3. {Area(live, a) : a \in DOMAIN live \ {b}} = Areas \ {x}
      BY <1>1, <1>3, AreasAre
    <2>4. x \in Areas
      BY <1>1, AreasAre
    <2> QED BY <2>2, <2>3, <2>4
  <1>6. A!Inside(y)
    BY <1>1, AreaFacts
  <1>7. \A z \in Areas : A!Apart(y, z)
    <2> TAKE z \in Areas
    <2>1. PICK a \in DOMAIN live : z = Area(live, a)
      BY AreasAre
    <2>2. a # c /\ a \in DOMAIN m /\ c \in DOMAIN m
      BY <2>1
    <2>3. z = Area(m, a)
      BY <1>2, <2>1
    <2> QED BY <1>1, <2>2, <2>3, AreaFacts
  <1>8. A!Move(x, y)
    BY <1>4, <1>6, <1>7 DEF A!Move
  <1> QED BY <1>4, <1>8 DEF A!AllocatorNext

\* Every step of the heap is a step of the allocator or leaves it alone.
LEMMA RefinementStep ==
    ASSUME NoWrap, HeapInv, RequestFits, [Next]_vars
    PROVE  [A!AllocatorNext]_Areas
  <1>0. HeapInv' /\ RequestFits'
    BY HeapStep, FitsStep
  <1>a. Placed(hdr, live) /\ Placed(hdr', live')
    BY <1>0, InvPlaced, InvPlacedNext
  <1>1. CASE SomeAllocation
    <2>1. PICK size \in Nat, b \in DOMAIN hdr, ptr \in Int, req \in Nat :
            Allocates(size, b, ptr, req)
      BY <1>1 DEF SomeAllocation
    <2>2. /\ b \in find_free_block(AlignUp(size)) /\ AlignUp(size) \in Nat
          /\ live' = Granted(b, ptr, req)
      BY <2>1, AlignUpFacts DEF Allocates, Take
    <2>3. b \notin DOMAIN live
      BY <2>2, TakenFacts
    <2>4. DOMAIN live' = DOMAIN live \cup {b} /\ \A a \in DOMAIN live : live'[a] = live[a]
      BY <2>2, <2>3 DEF Granted
    <2>5. A!AllocatorNext
      BY <1>a, <2>3, <2>4, GrantIsAlloc
    <2> QED BY <2>5
  <1>2. ASSUME NEW b \in DOMAIN live, kfree(b) PROVE A!AllocatorNext
    <2>1. live' = Returned(live, b)
      BY <1>2 DEF kfree
    <2>2. DOMAIN live' = DOMAIN live \ {b} /\ \A a \in DOMAIN live' : live'[a] = live[a]
      BY <2>1 DEF Returned
    <2> QED BY <1>a, <2>2, ReturnIsFree
  <1>4. ASSUME NEW b \in DOMAIN live, NEW n \in ReallocSizes, krealloc_shrink(b, n)
        PROVE  A!AllocatorNext
    <2>1. live' = Granted(b, b + HDR, n) /\ live[b].ptr = b + HDR
      BY <1>4 DEF krealloc_shrink, Freeable
    <2>2. /\ DOMAIN live' = DOMAIN live /\ live'[b].ptr = live[b].ptr
          /\ \A a \in DOMAIN live \ {b} : live'[a] = live[a]
      BY <2>1 DEF Granted
    <2> QED BY <1>a, <2>2, ShrinkIsResize
  <1>5. ASSUME NEW b \in DOMAIN live, NEW n \in ReallocSizes, krealloc_move(b, n)
        PROVE  A!AllocatorNext
    <2>1. PICK c \in DOMAIN hdr :
             /\ c # b /\ c \notin DOMAIN live /\ c \in DOMAIN hdr'
             /\ live' = Returned(Granted(c, c + HDR, n), b)
             /\ hdr'[b].size = hdr[b].size /\ b \in DOMAIN hdr'
      BY <1>5, MoveKeeps
    <2>2. PICK m : m = Granted(c, c + HDR, n)
      OBVIOUS
    <2>3. /\ DOMAIN m = DOMAIN live \cup {c} /\ DOMAIN live' = DOMAIN m \ {b}
          /\ \A a \in DOMAIN live : m[a] = live[a]
          /\ \A a \in DOMAIN live' : live'[a] = m[a]
      BY <2>1, <2>2 DEF Granted, Returned
    <2>4. Placed(hdr', m)
      <3>1. ASSUME NEW a \in DOMAIN m
            PROVE  /\ a \in DOMAIN hdr'
                   /\ m[a].ptr \in Int /\ m[a].req \in Nat
                   /\ a + HDR <= m[a].ptr
                   /\ m[a].ptr + m[a].req <= End(hdr', a)
        <4>1. CASE a = b
          BY <1>a, <2>1, <2>3, <4>1 DEF Placed, End
        <4>2. CASE a # b
          <5>1. a \in DOMAIN live' /\ m[a] = live'[a]
            BY <2>3, <4>2
          <5> QED BY <1>a, <5>1 DEF Placed
        <4> QED BY <4>1, <4>2
      <3> QED BY <1>a, <3>1 DEF Placed
    <2> QED BY <1>a, <2>1, <2>3, <2>4, MoveIsMove
  <1>6. CASE UNCHANGED live
    BY <1>6 DEF Areas
  <1> QED
    BY <1>1, <1>2, <1>4, <1>5, <1>6, StepCases, MergeKeeps DEF mm_get_stats, vars

\* The block list implements the abstract allocator, krealloc included: no
\* area handed out overlaps one in use, whatever the sequence of calls.
THEOREM Implements == ASSUME NoWrap PROVE Spec => ImplementsAllocator
  <1>1. Init => A!AllocatorInit
    BY DEF Init, A!AllocatorInit, Areas
  <1>2. Init => RequestFits
    BY DEF Init, RequestFits
  <1>3. HeapInv /\ RequestFits /\ [Next]_vars => RequestFits' /\ [A!AllocatorNext]_Areas
    BY FitsStep, RefinementStep
  <1> QED
    BY <1>1, <1>2, <1>3, HeapStart, HeapStep, PTL
    DEF Spec, ImplementsAllocator, A!AllocatorSpec

----------------------------------------------------------------------------
\* What merge_free_blocks achieves.

\* Block b and its successor are both free.
FreePair(h, b) ==
    b \in DOMAIN h /\ h[b].is_free = 1 /\ h[b].next # NULL /\ h[h[b].next].is_free = 1

\* The links and marks after split_block and the marking by kmalloc: the block is
\* used, and only the remainder is new.
LEMMA TakenLinks ==
    ASSUME HeapInv, NEW size \in Nat, NEW b \in find_free_block(size)
    PROVE  LET g == taken(b, size)
               n == b + HDR + size
           IN  /\ DOMAIN g \subseteq DOMAIN hdr \cup {n}
               /\ \A a \in DOMAIN hdr \ {b} : g[a].next = hdr[a].next
               /\ \A a \in DOMAIN g \ DOMAIN hdr : g[a].next = hdr[b].next
  <1>1. b \in DOMAIN hdr /\ IsHeap(hdr)
    BY DEF find_free_block, HeapInv, TypeOK
  <1>2. CASE ~(hdr[b].size > size + HDR + MIN_SPLIT)
    <2>1. taken(b, size) = [hdr EXCEPT ![b].is_free = 0]
      BY <1>2 DEF taken, split_block
    <2> QED BY <2>1
  <1>3. CASE hdr[b].size > size + HDR + MIN_SPLIT
    <2> DEFINE h == split_block(hdr, b, size)
               n == b + HDR + size
    <2>1. h = [a \in DOMAIN hdr \cup {n} |->
                IF a = b
                THEN [size |-> size, is_free |-> hdr[b].is_free,
                      next |-> n, prev |-> hdr[b].prev]
                ELSE IF a = n
                THEN [size |-> hdr[b].size - size - HDR, is_free |-> 1,
                      next |-> hdr[b].next, prev |-> b]
                ELSE IF a = hdr[b].next
                THEN [hdr[a] EXCEPT !.prev = n]
                ELSE hdr[a]]
      BY <1>3 DEF split_block
    <2>2. b \in Nat /\ HDR \in Nat \ {0} /\ n # b
      BY <1>1, HeaderFacts, HeapConstants
    <2>3. n \notin DOMAIN hdr
      <3>1. hdr[b].size \in Nat /\ End(hdr, b) = b + HDR + hdr[b].size
        BY <1>1, HeaderFacts DEF End
      <3>2. b < n /\ n < End(hdr, b)
        BY <1>3, <2>2, <3>1, HeapConstants
      <3> QED
        BY <1>1, <3>1, <3>2, HeaderFacts DEF HeapInv, Tiled, IsTiled, Disjoint
    <2>4. \A a \in DOMAIN hdr \ {b} : h[a].next = hdr[a].next
      <3> TAKE a \in DOMAIN hdr \ {b}
      <3>1. h[a] = IF a = hdr[b].next THEN [hdr[a] EXCEPT !.prev = n] ELSE hdr[a]
        BY <2>1, <2>3
      <3>2. hdr[a] \in Header
        BY <1>1 DEF IsHeap
      <3> QED BY <3>1, <3>2 DEF Header
    <2>5. DOMAIN h = DOMAIN hdr \cup {n} /\ h[n].next = hdr[b].next
      BY <2>1, <2>2
    <2> HIDE DEF h
    <2>6. taken(b, size) = [h EXCEPT ![b].is_free = 0]
      BY DEF taken, h
    <2> QED BY <1>1, <2>2, <2>4, <2>5, <2>6
  <1> QED BY <1>2, <1>3

\* kmalloc in a heap without two free neighbours makes none.
LEMMA TakenPairs ==
    ASSUME HeapInv, NEW size \in Nat, NEW b \in find_free_block(size),
           \A a : ~FreePair(hdr, a)
    PROVE  \A a : ~FreePair(taken(b, size), a)
  <1> DEFINE g == taken(b, size)
  <1>1. /\ DOMAIN hdr \subseteq DOMAIN g /\ b \in DOMAIN hdr
        /\ hdr[b].is_free = 1 /\ g[b].is_free = 0
        /\ \A a \in DOMAIN hdr \ {b} : g[a].is_free = hdr[a].is_free
    BY TakenFacts
  <1>2. /\ \A a \in DOMAIN hdr \ {b} : g[a].next = hdr[a].next
        /\ \A a \in DOMAIN g \ DOMAIN hdr : g[a].next = hdr[b].next
    BY TakenLinks
  <1>3. \A a \in DOMAIN hdr : hdr[a].next # NULL => hdr[a].next \in DOMAIN hdr
    BY DEF HeapInv, Tiled, IsTiled, NextAdjacent
  <1> HIDE DEF g
  <1>4. ASSUME NEW a, FreePair(g, a) PROVE FALSE
    <2>1. a # b /\ g[a].next # b
      BY <1>1, <1>4 DEF FreePair
    <2>2. CASE a \in DOMAIN hdr
      <3>1. FreePair(hdr, a)
        BY <1>1, <1>2, <1>3, <1>4, <2>1, <2>2 DEF FreePair
      <3> QED BY <3>1
    <2>3. CASE a \notin DOMAIN hdr
      <3>1. FreePair(hdr, b)
        BY <1>1, <1>2, <1>3, <1>4, <2>1, <2>3 DEF FreePair
      <3> QED BY <3>1
    <2> QED BY <2>2, <2>3
  <1> QED BY <1>4 DEF g

\* kfree's marking makes pairs only of the block itself.
LEMMA ReleasedPairs ==
    ASSUME NEW g, IsHeap(g), IsTiled(g), NEW b \in DOMAIN g,
           \A a : ~FreePair(g, a),
           NEW a, FreePair(released(g, b), a)
    PROVE  b \in {a, released(g, b)[a].next}
  <1> DEFINE r == released(g, b)
  <1>1. /\ DOMAIN r = DOMAIN g
        /\ \A c \in DOMAIN g \ {b} : r[c] = g[c]
    BY DEF released
  <1>2. /\ a \in DOMAIN g /\ r[a].is_free = 1 /\ r[a].next # NULL
        /\ r[r[a].next].is_free = 1
    BY <1>1 DEF FreePair
  <1>3. ASSUME a # b, r[a].next # b PROVE FALSE
    <2>1. r[a] = g[a]
      BY <1>1, <1>2, <1>3
    <2>2. r[a].next \in DOMAIN g
      BY <1>2, <2>1 DEF IsTiled, NextAdjacent
    <2>3. r[r[a].next] = g[g[a].next]
      BY <1>1, <1>3, <2>1, <2>2
    <2>4. FreePair(g, a)
      BY <1>2, <2>1, <2>3 DEF FreePair
    <2> QED BY <2>4
  <1> QED BY <1>3

\* The links after an iteration of merge_free_blocks.
LEMMA AbsorbLinks ==
    ASSUME NEW h, IsHeap(h), IsTiled(h), NEW b \in DOMAIN h, h[b].next # NULL
    PROVE  LET g == absorb(h, b)
               n == h[b].next
           IN  /\ g[b].next = h[n].next
               /\ \A a \in DOMAIN g \ {b} : g[a].next = h[a].next /\ g[a].next # n
  <1> DEFINE n == h[b].next
             g == absorb(h, b)
  <1>1. /\ n \in DOMAIN h /\ n # b
        /\ DOMAIN g = DOMAIN h \ {n}
    BY AbsorbKeepsTiled DEF Joined
  <1>2. g = [a \in DOMAIN h \ {n} |->
            IF a = b
            THEN [size |-> h[b].size + h[n].size + HDR, is_free |-> h[b].is_free,
                  next |-> h[n].next, prev |-> h[b].prev]
            ELSE IF a = h[n].next
            THEN [h[a] EXCEPT !.prev = b]
            ELSE h[a]]
    BY DEF absorb
  <1>3. g[b].next = h[n].next
    BY <1>1, <1>2
  <1>4. ASSUME NEW a \in DOMAIN g \ {b} PROVE g[a].next = h[a].next /\ g[a].next # n
    <2>1. a \in DOMAIN h /\ g[a] = IF a = h[n].next THEN [h[a] EXCEPT !.prev = b] ELSE h[a]
      BY <1>1, <1>2
    <2>2. h[a] \in Header
      BY <2>1 DEF IsHeap
    <2>3. g[a].next = h[a].next
      BY <2>1, <2>2 DEF Header
    <2>4. h[a].next # n
      BY <1>1, <1>4, <2>1 DEF IsTiled, LinksInverse
    <2> QED BY <2>3, <2>4
  <1> QED BY <1>3, <1>4

\* The second loop runs only when the first one has taken in every free
\* successor.
NextDone == pc = "prev" => ~FreeBlock(hdr[block].next)

\* An iteration of the merging loops as a step: what it joins, or that it ends
\* the loop it is in.
LEMMA MergeCases ==
    ASSUME HeapInv, merge_free_blocks
    PROVE  \/ \E b \in DOMAIN hdr :
                 /\ hdr[b].next # NULL /\ hdr' = absorb(hdr, b) /\ block' = b
                 /\ pc' = pc
                 /\ \/ pc = "next" /\ b = block
                    \/ pc = "prev" /\ hdr[b].next = block
           \/ /\ pc = "next" /\ pc' = "prev" /\ ~FreeBlock(hdr[block].next)
              /\ UNCHANGED <<hdr, block>>
           \/ /\ pc = "prev" /\ pc' = "idle" /\ ~FreeBlock(hdr[block].prev)
              /\ UNCHANGED hdr
  <1>1. block \in DOMAIN hdr /\ block # NULL
    BY AddressFacts
    DEF merge_free_blocks, merge_next, merge_prev, HeapInv, MergingFree, TypeOK, IsHeap
  <1>2. hdr[block].prev # NULL =>
            hdr[block].prev \in DOMAIN hdr /\ hdr[hdr[block].prev].next = block
    BY <1>1 DEF HeapInv, Tiled, IsTiled, LinksInverse
  <1>3. CASE merge_next
    BY <1>1, <1>3 DEF merge_next, FreeBlock
  <1>4. CASE merge_prev
    BY <1>1, <1>2, <1>4 DEF merge_prev, FreeBlock
  <1> QED BY <1>3, <1>4 DEF merge_free_blocks

LEMMA NextDoneStep ==
    ASSUME HeapInv, NextDone, [Next]_vars
    PROVE  NextDone'
  <1>1. CASE merge_free_blocks
    <2>1. ASSUME NEW b \in DOMAIN hdr, hdr[b].next # NULL, hdr' = absorb(hdr, b),
                 block' = b, pc' = pc,
                 \/ pc = "next" /\ b = block
                 \/ pc = "prev" /\ hdr[b].next = block
          PROVE  NextDone'
      <3>1. CASE pc = "next"
        BY <2>1, <3>1 DEF NextDone
      <3>2. CASE pc = "prev"
        <4> DEFINE c == hdr[block].next
        <4>1. IsHeap(hdr) /\ IsTiled(hdr) /\ hdr[b].next = block
          BY <2>1, <3>2 DEF HeapInv, TypeOK, Tiled
        <4>2. /\ hdr'[b].next = c
              /\ block \in DOMAIN hdr /\ DOMAIN hdr' = DOMAIN hdr \ {block}
              /\ \A a \in DOMAIN hdr' : hdr'[a].is_free = hdr[a].is_free
          <5>1. Joined(hdr', hdr, b)
            BY <2>1, <4>1, AbsorbKeepsTiled
          <5>2. absorb(hdr, b)[b].next = hdr[hdr[b].next].next
            BY <2>1, <4>1, AbsorbLinks
          <5> QED BY <2>1, <4>1, <5>1, <5>2 DEF Joined
        <4>3. c = NULL \/ (c # NULL /\ c \in DOMAIN hdr /\ c # block /\ hdr[c].is_free # 1)
          <5>1. c # NULL => c \in DOMAIN hdr /\ c = End(hdr, block)
            BY <4>1, <4>2 DEF IsTiled, NextAdjacent
          <5>2. End(hdr, block) # block
            BY <4>1, <4>2, HeaderFacts, HeapConstants DEF End
          <5> QED BY <3>2, <5>1, <5>2 DEF NextDone, FreeBlock
        <4> HIDE DEF c
        <4> QED BY <2>1, <4>2, <4>3 DEF NextDone, FreeBlock
      <3> QED BY <2>1, <3>1, <3>2
    <2>2. CASE /\ pc = "next" /\ pc' = "prev" /\ ~FreeBlock(hdr[block].next)
               /\ UNCHANGED <<hdr, block>>
      BY <2>2 DEF NextDone, FreeBlock
    <2>3. CASE pc' = "idle"
      BY <2>3 DEF NextDone
    <2> QED BY <1>1, <2>1, <2>2, <2>3, MergeCases
  <1>2. CASE ~merge_free_blocks
    <2>1. pc' # "prev" \/ UNCHANGED <<hdr, pc, block>>
      BY <1>2, StepCases
      DEF SomeAllocation, Allocates, Take, kfree, krealloc_shrink, krealloc_move,
          mm_get_stats, vars
    <2> QED BY <2>1 DEF NextDone, FreeBlock
  <1> QED BY <1>1, <1>2

\* A heap in which the block without free neighbours is free, and nothing is
\* used, is the one of mm_init.
LEMMA OneFreeBlock ==
    ASSUME HeapInv, NEW b \in DOMAIN hdr, hdr[b].is_free = 1,
           hdr[b].next = NULL, hdr[b].prev = NULL
    PROVE  hdr = FreshHeap
  <1>1. IsHeap(hdr) /\ b = heap_head /\ End(hdr, b) = HeapEnd
    BY DEF HeapInv, TypeOK, Tiled, IsTiled, LinksInverse, NextAdjacent
  <1>2. DOMAIN hdr = {heap_head}
    <2>1. ASSUME NEW c \in DOMAIN hdr, c # b PROVE FALSE
      <3>1. c \in Address /\ c \in Nat /\ b \in Nat /\ b < c /\ c < HeapEnd
        BY <1>1, <2>1, HeaderFacts, AddressFacts DEF heap_head
      <3>2. End(hdr, b) <= c
        BY <3>1 DEF HeapInv, Tiled, IsTiled, Disjoint
      <3> QED BY <1>1, <3>1, <3>2, AddressFacts
    <2> QED BY <1>1, <2>1
  <1>3. hdr[b] = [size |-> KERNEL_HEAP_SIZE - HDR, is_free |-> 1,
                  next |-> NULL, prev |-> NULL]
    <2>1. /\ hdr[b] = [size |-> hdr[b].size, is_free |-> hdr[b].is_free,
                      next |-> hdr[b].next, prev |-> hdr[b].prev]
          /\ hdr[b].size \in Nat
      BY <1>1, HeaderFacts
    <2>2. hdr[b].size = KERNEL_HEAP_SIZE - HDR
      BY <1>1, <2>1, HeapConstants DEF End, HeapEnd, heap_head
    <2> QED BY <2>1, <2>2
  <1>4. hdr = [c \in {heap_head} |-> hdr[c]]
    BY <1>1, <1>2 DEF IsHeap
  <1> QED BY <1>1, <1>3, <1>4 DEF FreshHeap

LEMMA RestoreStep ==
    ASSUME HeapInv, NextDone, AllFreedRestores, [Next]_vars
    PROVE  AllFreedRestores'
  <1> SUFFICES ASSUME pc' = "idle", live' = << >> PROVE hdr' = FreshHeap
    BY DEF AllFreedRestores, FreshHeap, heap_head, NULL
  <1>0. DOMAIN live' = {}
    OBVIOUS
  <1>1. CASE merge_free_blocks
    <2>1. /\ pc = "prev" /\ ~FreeBlock(hdr[block].prev) /\ UNCHANGED hdr
          /\ live' = live
      BY <1>1, MergeCases DEF merge_free_blocks, merge_next, merge_prev
    <2>2. /\ block \in DOMAIN hdr /\ hdr[block].is_free = 1
          /\ ~FreeBlock(hdr[block].next)
      BY <2>1 DEF HeapInv, MergingFree, NextDone
    <2>3. \A a \in DOMAIN hdr : hdr[a].is_free = 1
      <3> TAKE a \in DOMAIN hdr
      <3>1. hdr[a].is_free \in {0, 1}
        BY DEF HeapInv, TypeOK, IsHeap, Header
      <3> QED BY <1>0, <2>1, <3>1 DEF HeapInv, UsedIsLive
    <2>4. /\ hdr[block].next # NULL => hdr[block].next \in DOMAIN hdr
          /\ hdr[block].prev # NULL => hdr[block].prev \in DOMAIN hdr
      BY <2>2 DEF HeapInv, Tiled, IsTiled, NextAdjacent, LinksInverse
    <2>5. hdr[block].next = NULL /\ hdr[block].prev = NULL
      BY <2>1, <2>2, <2>3, <2>4 DEF FreeBlock
    <2> QED BY <2>1, <2>2, <2>5, OneFreeBlock
  <1>2. CASE SomeAllocation
    <2>1. PICK b : b \in DOMAIN live'
      BY <1>2 DEF SomeAllocation, Allocates, Granted
    <2> QED BY <1>0, <2>1
  <1>3. CASE \E b \in DOMAIN live, n \in ReallocSizes : krealloc_shrink(b, n)
    <2>1. PICK b : b \in DOMAIN live'
      BY <1>3 DEF krealloc_shrink, Granted
    <2> QED BY <1>0, <2>1
  <1>4. CASE UNCHANGED <<hdr, live, pc>>
    BY <1>4 DEF AllFreedRestores
  <1> QED
    BY <1>1, <1>2, <1>3, <1>4, StepCases DEF kfree, krealloc_move, mm_get_stats, vars

\* When every pointer has been returned, merge_free_blocks has put the heap back
\* into the single block of mm_init, whatever calls, krealloc included, have cut
\* it up before: no memory is lost to fragmentation for good.
THEOREM Restores == Spec => []AllFreedRestores
  <1>1. Init => NextDone /\ AllFreedRestores
    BY DEF Init, NextDone, AllFreedRestores
  <1>2. HeapInv /\ NextDone /\ AllFreedRestores /\ [Next]_vars
            => NextDone' /\ AllFreedRestores'
    BY NextDoneStep, RestoreStep
  <1> QED
    BY <1>1, <1>2, HeapStart, HeapStep, PTL DEF Spec

----------------------------------------------------------------------------
\* Until krealloc splits a block in place.

\* A step with the history variable is a step of the heap.
LEMMA HistoryIsHeap == [HistoryNext]_historyVars => [Next]_vars
  BY DEF HistoryNext, historyVars, Next, krealloc, vars

\* The step leaves used_memory and free_memory alone.
SameMemory ==
    /\ mem_stats'.used_memory = mem_stats.used_memory
    /\ mem_stats'.free_memory = mem_stats.free_memory

LEMMA QuietMemory ==
    ASSUME HeapInv, mm_get_stats
    PROVE  SameMemory
  <1>1. PICK largest : mem_stats' = [mem_stats EXCEPT !.largest_free_block = largest]
    BY DEF mm_get_stats
  <1>2. mem_stats \in StatsType
    BY DEF HeapInv, TypeOK, StatsType
  <1> QED BY <1>1, <1>2 DEF SameMemory, StatsType

\* The steps before a block is split in place.
LEMMA HistoryCases ==
    ASSUME HeapInv, [HistoryNext]_historyVars, ~shrunk'
    PROVE  /\ ~shrunk
           /\ \/ SomeAllocation
              \/ \E b \in DOMAIN live : kfree(b)
              \/ merge_free_blocks
              \/ \E b \in DOMAIN live, n \in ReallocSizes : krealloc_move(b, n)
              \/ UNCHANGED <<hdr, pc, block>> /\ SameMemory
              \/ /\ UNCHANGED <<hdr, block>> /\ pc = "idle" /\ pc' = "fault"
                 /\ SameMemory
  <1>1. CASE CoreNext /\ UNCHANGED shrunk
    <2>1. ASSUME NEW args \in CallocArgs, kcalloc(args[1], args[2])
          PROVE  SomeAllocation \/ (/\ UNCHANGED <<hdr, block>> /\ pc = "idle" /\ pc' = "fault"
                                    /\ SameMemory)
      BY <2>1, KcallocAllocates DEF kcalloc, Take, SameMemory
    <2>2. mm_get_stats \/ Halted => UNCHANGED <<hdr, pc, block>> /\ SameMemory
      BY QuietMemory DEF mm_get_stats, Halted, vars, SameMemory
    <2>3. ~shrunk
      BY <1>1
    <2> QED
      BY <1>1, <2>1, <2>2, <2>3, KmallocAllocates, AlignedAllocates DEF CoreNext
  <1>2. CASE \E b \in DOMAIN live, n \in ReallocSizes :
                krealloc_move(b, n) /\ UNCHANGED shrunk
    BY <1>2
  <1>3. CASE \E b \in DOMAIN live, n \in ReallocSizes :
                krealloc_shrink(b, n) /\ shrunk' = (shrunk \/ hdr' # hdr)
    BY <1>3 DEF krealloc_shrink, SameMemory
  <1>4. CASE UNCHANGED historyVars
    BY <1>4 DEF historyVars, vars, SameMemory
  <1> QED BY <1>1, <1>2, <1>3, <1>4 DEF HistoryNext

\* Two free neighbours exist only while merge_free_blocks is at one of them: what
\* makes Coalesced inductive, with NextDone.
PairsAtBlock ==
    ~shrunk => \A a : FreePair(hdr, a) =>
                  pc \in {"next", "prev"} /\ block \in {a, hdr[a].next}

LEMMA PairsStep ==
    ASSUME HeapInv, NextDone, PairsAtBlock, [HistoryNext]_historyVars
    PROVE  PairsAtBlock'
  <1> SUFFICES ASSUME ~shrunk', NEW a, FreePair(hdr', a)
               PROVE  pc' \in {"next", "prev"} /\ block' \in {a, hdr'[a].next}
    BY DEF PairsAtBlock
  <1>0. /\ ~shrunk
        /\ \A c : FreePair(hdr, c) =>
              pc \in {"next", "prev"} /\ block \in {c, hdr[c].next}
        /\ IsHeap(hdr) /\ IsTiled(hdr)
    BY HistoryCases DEF PairsAtBlock, HeapInv, TypeOK, Tiled
  <1>1. CASE SomeAllocation
    <2>1. PICK size \in Nat, b \in DOMAIN hdr, ptr \in Int, req \in Nat :
            Allocates(size, b, ptr, req)
      BY <1>1 DEF SomeAllocation
    <2>2. /\ AlignUp(size) \in Nat /\ b \in find_free_block(AlignUp(size))
          /\ hdr' = taken(b, AlignUp(size)) /\ pc = "idle"
      BY <2>1, AlignUpFacts DEF Allocates, Take
    <2>3. \A c : ~FreePair(hdr, c)
      BY <1>0, <2>2
    <2>4. ~FreePair(hdr', a)
      BY <2>2, <2>3, TakenPairs
    <2> QED BY <2>4
  <1>2. ASSUME NEW b \in DOMAIN live, kfree(b)
        PROVE  pc' \in {"next", "prev"} /\ block' \in {a, hdr'[a].next}
    <2>1. pc = "idle" /\ pc' = "next" /\ block' = b /\ hdr' = released(hdr, b)
      BY <1>2 DEF kfree
    <2>2. b \in DOMAIN hdr /\ \A c : ~FreePair(hdr, c)
      BY <1>0, <2>1 DEF HeapInv, UsedIsLive
    <2>3. b \in {a, hdr'[a].next}
      BY <1>0, <2>1, <2>2, ReleasedPairs
    <2> QED BY <2>1, <2>3
  <1>3. ASSUME NEW b \in DOMAIN live, NEW n \in ReallocSizes, krealloc_move(b, n)
        PROVE  pc' \in {"next", "prev"} /\ block' \in {a, hdr'[a].next}
    <2>1. PICK size \in Nat, c \in DOMAIN hdr :
            c \in find_free_block(size) /\ hdr' = released(taken(c, size), b)
      <3>1. n \in Nat /\ AlignUp(n) \in Nat
        BY AlignUpFacts, HeapConstants
      <3> QED BY <1>3, <3>1 DEF krealloc_move, find_free_block
    <2>2. pc = "idle" /\ pc' = "next" /\ block' = b
      BY <1>3 DEF krealloc_move
    <2>3. \A d : ~FreePair(hdr, d)
      BY <1>0, <2>2
    <2> DEFINE g == taken(c, size)
    <2>4. /\ IsHeap(g) /\ IsTiled(g) /\ b \in DOMAIN g
          /\ \A d : ~FreePair(g, d)
      BY <2>1, <2>3, TakenFacts, TakenPairs DEF HeapInv, UsedIsLive
    <2> HIDE DEF g
    <2>5. hdr' = released(g, b)
      BY <2>1 DEF g
    <2>6. b \in {a, hdr'[a].next}
      BY <2>4, <2>5, ReleasedPairs
    <2> QED BY <2>2, <2>6
  <1>4. CASE merge_free_blocks
    <2>1. ASSUME NEW b \in DOMAIN hdr, hdr[b].next # NULL, hdr' = absorb(hdr, b),
                 block' = b, pc' = pc,
                 \/ pc = "next" /\ b = block
                 \/ pc = "prev" /\ hdr[b].next = block
          PROVE  pc' \in {"next", "prev"} /\ block' \in {a, hdr'[a].next}
      <3>1. CASE a = b
        BY <2>1, <3>1
      <3>2. CASE a # b
        <4>1. Joined(hdr', hdr, b)
          BY <1>0, <2>1, AbsorbKeepsTiled
        <4>2. /\ a \in DOMAIN hdr' /\ hdr'[a].is_free = 1
              /\ hdr'[a].next # NULL /\ hdr'[hdr'[a].next].is_free = 1
          BY DEF FreePair
        <4>3. /\ hdr'[a].next = hdr[a].next /\ hdr[a].next # hdr[b].next
          BY <1>0, <2>1, <3>2, <4>2, AbsorbLinks
        <4>4. /\ a \in DOMAIN hdr /\ a # hdr[b].next /\ hdr[a].is_free = 1
              /\ hdr[a].next # NULL /\ hdr[a].next \in DOMAIN hdr'
          <5>1. a \in DOMAIN hdr /\ a # hdr[b].next /\ hdr[a].is_free = 1
            BY <4>1, <4>2 DEF Joined
          <5>2. hdr[a].next \in DOMAIN hdr
            BY <1>0, <4>2, <4>3, <5>1 DEF IsTiled, NextAdjacent
          <5> QED BY <4>1, <4>2, <4>3, <5>1, <5>2 DEF Joined
        <4>5. FreePair(hdr, a)
          BY <4>1, <4>2, <4>3, <4>4 DEF Joined, FreePair
        <4> QED BY <1>0, <2>1, <3>2, <4>3, <4>4, <4>5
      <3> QED BY <3>1, <3>2
    <2>2. CASE /\ pc = "next" /\ pc' = "prev" /\ UNCHANGED <<hdr, block>>
      BY <1>0, <2>2
    <2>3. CASE /\ pc = "prev" /\ ~FreeBlock(hdr[block].prev) /\ UNCHANGED hdr
      <3>1. FreePair(hdr, a) /\ block \in {a, hdr[a].next}
        BY <1>0, <2>3
      <3>2. CASE block = a
        BY <2>3, <3>1, <3>2 DEF NextDone, FreeBlock, FreePair
      <3>3. CASE block = hdr[a].next
        <4>1. hdr[block].prev = a /\ a # NULL
          BY <1>0, <3>1, <3>3, HeaderFacts, AddressFacts
          DEF FreePair, IsTiled, LinksInverse
        <4> QED BY <2>3, <3>1, <4>1 DEF FreeBlock, FreePair
      <3> QED BY <3>1, <3>2, <3>3
    <2> QED BY <1>4, <2>1, <2>2, <2>3, MergeCases
  <1>5. CASE UNCHANGED <<hdr, pc, block>>
    BY <1>0, <1>5
  <1>6. CASE UNCHANGED <<hdr, block>> /\ pc = "idle"
    BY <1>0, <1>6
  <1> QED BY <1>1, <1>2, <1>3, <1>4, <1>5, <1>6, HistoryCases

\* Until krealloc splits a block in place, merge_free_blocks leaves no two free
\* neighbours, in whatever order blocks are freed or moved.
THEOREM MergesAll == HistorySpec => []Coalesced
  <1>1. HistoryInit => HeapInv /\ NextDone /\ PairsAtBlock
    BY HeapStart
    DEF HistoryInit, Init, NextDone, PairsAtBlock, FreePair, FreshHeap
  <1>2. HeapInv /\ NextDone /\ PairsAtBlock /\ [HistoryNext]_historyVars
            => HeapInv' /\ NextDone' /\ PairsAtBlock'
    BY HistoryIsHeap, HeapStep, NextDoneStep, PairsStep
  <1>3. HeapInv /\ PairsAtBlock => Coalesced
    <2> SUFFICES ASSUME HeapInv, PairsAtBlock, ~shrunk, pc = "idle",
                        NEW b \in DOMAIN hdr, hdr[b].is_free = 1, hdr[b].next # NULL
                 PROVE  hdr[hdr[b].next].is_free = 0
      BY DEF Coalesced
    <2>1. hdr[b].next \in DOMAIN hdr /\ IsHeap(hdr)
      BY DEF HeapInv, TypeOK, Tiled, IsTiled, NextAdjacent
    <2>2. hdr[hdr[b].next].is_free \in {0, 1}
      BY <2>1 DEF IsHeap, Header
    <2> QED BY <2>2 DEF PairsAtBlock, FreePair
  <1> QED
    BY <1>1, <1>2, <1>3, PTL DEF HistorySpec

----------------------------------------------------------------------------
\* Alignment.

Aligned(x) == x % ALIGN = 0

\* Division with remainder, and that a multiple leaves none.
LEMMA DivMod ==
    ASSUME NEW n \in Nat \ {0}, NEW x \in Int
    PROVE  \E q \in Int, r \in 0 .. n - 1 : r = x % n /\ n * q \in Int /\ x = n * q + r
  <1>1. x % n \in 0 .. n - 1
    OBVIOUS
  <1>2. x \div n \in Int
    OBVIOUS
  <1>3. x = n * (x \div n) + (x % n)
    OBVIOUS
  <1>4. PICK q \in Int, r \in 0 .. n - 1 : q = x \div n /\ r = x % n
    BY <1>1, <1>2
  <1>5. x = n * q + r
    BY <1>3, <1>4
  <1>6. n * q \in Int
    OBVIOUS
  <1> QED BY <1>4, <1>5, <1>6

LEMMA Multiple ==
    ASSUME NEW n \in Nat \ {0}, NEW q \in Int
    PROVE  (n * q) % n = 0
  <1> DEFINE x == n * q
             d == x \div n
             r == x % n
  <1>1. x \in Int
    OBVIOUS
  <1> HIDE DEF x
  <1>2. x = n * d + r /\ d \in Int /\ r \in 0 .. n - 1
    BY <1>1
  <1> HIDE DEF d, r
  <1>3. n * (q - d) = r
    BY <1>2 DEF x
  <1>4. PICK k \in Int : k = q - d
    BY <1>2
  <1>5. n * k = r
    BY <1>3, <1>4
  <1>6. k < 1
    <2>1. k >= 1 => n * k >= n
      BY <1>4
    <2> QED BY <1>2, <1>4, <1>5, <2>1
  <1>7. k > -1
    <2>1. k <= -1 => n * k <= -n
      BY <1>4
    <2> QED BY <1>2, <1>4, <1>5, <2>1
  <1>8. k = 0
    BY <1>4, <1>6, <1>7
  <1> QED BY <1>2, <1>5, <1>8 DEF r, x

\* Sums of multiples are multiples, and rounding makes one.
LEMMA AlignedIs ==
    ASSUME NEW x \in Nat, Aligned(x)
    PROVE  \E q \in Int : x = ALIGN * q
  <1>1. ALIGN \in Nat \ {0} /\ x \in Int
    BY HeapConstants
  <1>2. PICK q \in Int, r \in 0 .. ALIGN - 1 :
          r = x % ALIGN /\ ALIGN * q \in Int /\ x = ALIGN * q + r
    BY <1>1, DivMod
  <1>3. r = 0
    BY <1>2 DEF Aligned
  <1>4. x = ALIGN * q
    BY <1>2, <1>3
  <1> QED BY <1>4

LEMMA AlignedSum ==
    ASSUME NEW x \in Nat, NEW y \in Nat, Aligned(x), Aligned(y)
    PROVE  Aligned(x + y)
  <1>1. ALIGN \in Nat \ {0}
    BY HeapConstants
  <1>2. PICK p \in Int : x = ALIGN * p
    BY AlignedIs
  <1>3. PICK q \in Int : y = ALIGN * q
    BY AlignedIs
  <1>4. x + y = ALIGN * (p + q) /\ p + q \in Int
    BY <1>1, <1>2, <1>3
  <1>5. (ALIGN * (p + q)) % ALIGN = 0
    BY <1>1, <1>4, Multiple
  <1> QED BY <1>4, <1>5 DEF Aligned

LEMMA AlignedUp ==
    ASSUME NEW size \in Nat
    PROVE  Aligned(AlignUp(size))
  <1> DEFINE sum == (size + ALIGN - 1) % SIZE_MOD
  <1>1. ALIGN \in Nat \ {0} /\ SIZE_MOD \in Nat \ {0} /\ size + ALIGN - 1 \in Int
    BY HeapConstants
  <1>2. sum \in Int
    <2>1. PICK r \in 0 .. SIZE_MOD - 1 : r = sum
      BY <1>1, DivMod
    <2> QED BY <2>1
  <1> HIDE DEF sum
  <1>3. PICK q \in Int, r \in 0 .. ALIGN - 1 :
          r = sum % ALIGN /\ ALIGN * q \in Int /\ sum = ALIGN * q + r
    BY <1>1, <1>2, DivMod
  <1>4. sum - r = ALIGN * q
    BY <1>2, <1>3
  <1>5. sum - (sum % ALIGN) = ALIGN * q
    BY <1>3, <1>4
  <1>6. (ALIGN * q) % ALIGN = 0
    BY <1>1, Multiple
  <1> QED BY <1>5, <1>6 DEF AlignUp, Aligned, sum

\* Every block starts at a multiple of ALIGN.
BlocksAligned == ~shrunk => \A b \in DOMAIN hdr : Aligned(b)

LEMMA TakenAligned ==
    ASSUME HeapInv, NEW size \in Nat, NEW b \in find_free_block(AlignUp(size)),
           \A a \in DOMAIN hdr : Aligned(a)
    PROVE  \A a \in DOMAIN taken(b, AlignUp(size)) : Aligned(a)
  <1> DEFINE up == AlignUp(size)
  <1>1. up \in Nat /\ Aligned(up)
    BY AlignUpFacts, AlignedUp
  <1> HIDE DEF up
  <1>2. b \in find_free_block(up)
    BY DEF up
  <1>3. DOMAIN taken(b, up) \subseteq DOMAIN hdr \cup {b + HDR + up}
    BY <1>1, <1>2, TakenLinks
  <1>4. b \in Nat /\ Aligned(b) /\ HDR \in Nat /\ Aligned(HDR)
    <2>1. b \in DOMAIN hdr /\ b \in Address
      BY <1>1, <1>2, TakenFacts
    <2> QED BY <2>1, AddressFacts, HeapConstants, AlignedConstants DEF Aligned
  <1>5. Aligned(b + HDR) /\ b + HDR \in Nat
    BY <1>4, AlignedSum
  <1>6. Aligned(b + HDR + up)
    BY <1>1, <1>5, AlignedSum
  <1> QED BY <1>3, <1>6 DEF up

LEMMA AlignedStep ==
    ASSUME HeapInv, BlocksAligned, [HistoryNext]_historyVars
    PROVE  BlocksAligned'
  <1> SUFFICES ASSUME ~shrunk', NEW a \in DOMAIN hdr' PROVE Aligned(a)
    BY DEF BlocksAligned, Aligned
  <1>0. ~shrunk /\ \A b \in DOMAIN hdr : Aligned(b)
    BY HistoryCases DEF BlocksAligned
  <1>1. CASE SomeAllocation
    <2>1. PICK size \in Nat, b \in DOMAIN hdr, ptr \in Int, req \in Nat :
            Allocates(size, b, ptr, req)
      BY <1>1 DEF SomeAllocation
    <2>2. b \in find_free_block(AlignUp(size)) /\ hdr' = taken(b, AlignUp(size))
      BY <2>1 DEF Allocates, Take
    <2> QED BY <1>0, <2>2, TakenAligned
  <1>2. CASE \E b \in DOMAIN live : kfree(b)
    <2>1. DOMAIN hdr' = DOMAIN hdr
      BY <1>2 DEF kfree, released
    <2> QED BY <1>0, <2>1
  <1>3. ASSUME NEW b \in DOMAIN live, NEW n \in ReallocSizes, krealloc_move(b, n)
        PROVE  Aligned(a)
    <2>1. PICK c \in find_free_block(AlignUp(n)) : hdr' = released(taken(c, AlignUp(n)), b)
      BY <1>3 DEF krealloc_move
    <2>2. a \in DOMAIN taken(c, AlignUp(n)) /\ n \in Nat
      BY <2>1, HeapConstants DEF released
    <2> QED BY <1>0, <2>2, TakenAligned
  <1>4. CASE merge_free_blocks
    <2>1. DOMAIN hdr' \subseteq DOMAIN hdr
      BY <1>4, MergeCases DEF absorb
    <2> QED BY <1>0, <2>1
  <1>5. CASE UNCHANGED hdr
    BY <1>0, <1>5
  <1> QED BY <1>1, <1>2, <1>3, <1>4, <1>5, HistoryCases

\* Until krealloc splits a block in place, every pointer kmalloc and kcalloc hand
\* out is aligned, for every alignment of which the header and the start of the
\* heap are multiples.
THEOREM PointersAligned == HistorySpec => []PayloadsAligned
  <1>1. HistoryInit => HeapInv /\ BlocksAligned
    BY HeapStart, AlignedConstants
    DEF HistoryInit, Init, BlocksAligned, FreshHeap, Aligned, heap_head
  <1>2. HeapInv /\ BlocksAligned /\ [HistoryNext]_historyVars => HeapInv' /\ BlocksAligned'
    BY HistoryIsHeap, HeapStep, AlignedStep
  <1>3. HeapInv /\ BlocksAligned => PayloadsAligned
    <2> SUFFICES ASSUME HeapInv, BlocksAligned, ~shrunk, NEW b \in DOMAIN hdr
                 PROVE  Aligned(b + HDR)
      BY DEF PayloadsAligned, Aligned
    <2>1. b \in Nat /\ HDR \in Nat /\ Aligned(b) /\ Aligned(HDR)
      BY AddressFacts, HeapConstants, AlignedConstants
      DEF HeapInv, TypeOK, IsHeap, BlocksAligned, Aligned
    <2> QED BY <2>1, AlignedSum
  <1> QED
    BY <1>1, <1>2, <1>3, PTL DEF HistorySpec

----------------------------------------------------------------------------
\* The counters.

\* CountsAgree, said of what callers hold.
CountInv ==
    /\ IsFiniteSet(DOMAIN live)
    /\ Cardinality(DOMAIN live) = mem_stats.num_allocations - mem_stats.num_frees

LEMMA CountFields ==
    ASSUME NEW stats \in StatsType, NEW size
    PROVE  /\ CountAlloc(stats, size).num_allocations = stats.num_allocations + 1
           /\ CountAlloc(stats, size).num_frees = stats.num_frees
           /\ CountFree(stats, size).num_allocations = stats.num_allocations
           /\ CountFree(stats, size).num_frees = stats.num_frees + 1
           /\ stats.num_allocations \in Nat /\ stats.num_frees \in Nat
  <1>1. stats.num_allocations \in Nat /\ stats.num_frees \in Nat
    BY HeapConstants DEF StatsType
  <1>2. /\ CountAlloc(stats, size).num_allocations = stats.num_allocations + 1
        /\ CountAlloc(stats, size).num_frees = stats.num_frees
    BY DEF CountAlloc, StatsType
  <1>3. /\ CountFree(stats, size).num_allocations = stats.num_allocations
        /\ CountFree(stats, size).num_frees = stats.num_frees + 1
    BY DEF CountFree, StatsType
  <1> QED BY <1>1, <1>2, <1>3

\* A free block is held by nobody.
LEMMA FoundUnheld ==
    ASSUME HeapInv, NEW size, NEW c \in find_free_block(size)
    PROVE  c \in Address /\ c \notin DOMAIN live
  <1>1. c \in DOMAIN hdr /\ hdr[c].is_free = 1
    BY DEF find_free_block, Fits
  <1>2. c \in Address
    BY <1>1 DEF HeapInv, TypeOK, IsHeap
  <1> QED BY <1>1, <1>2 DEF HeapInv, UsedIsLive

LEMMA CountStep ==
    ASSUME HeapInv, CountInv, [Next]_vars
    PROVE  CountInv'
  <1> DEFINE held == DOMAIN live
             allocs == mem_stats.num_allocations
             frees == mem_stats.num_frees
  <1>0. /\ mem_stats \in StatsType /\ allocs \in Nat /\ frees \in Nat
        /\ IsFiniteSet(held) /\ Cardinality(held) \in Nat
        /\ Cardinality(held) = allocs - frees
    <2>1. mem_stats \in StatsType
      BY DEF HeapInv, TypeOK, StatsType
    <2>2. allocs \in Nat /\ frees \in Nat
      BY <2>1, CountFields
    <2>3. IsFiniteSet(held) /\ Cardinality(held) = allocs - frees
      BY DEF CountInv
    <2>4. Cardinality(held) \in Nat
      BY <2>3, FS_CardinalityType
    <2> QED BY <2>1, <2>2, <2>3, <2>4
  <1>1. CASE SomeAllocation
    <2>1. PICK size \in Nat, b \in DOMAIN hdr, ptr \in Int, req \in Nat :
            Take(size, b) /\ live' = Granted(b, ptr, req)
      BY <1>1 DEF SomeAllocation, Allocates
    <2>2. b \notin held /\ DOMAIN live' = held \cup {b}
      BY <2>1, FoundUnheld DEF Take, Granted
    <2>3. mem_stats'.num_allocations = allocs + 1 /\ mem_stats'.num_frees = frees
      BY <1>0, <2>1, CountFields DEF Take
    <2>4. IsFiniteSet(held \cup {b}) /\ Cardinality(held \cup {b}) = Cardinality(held) + 1
      BY <1>0, <2>2, FS_AddElement
    <2>5. (allocs + 1) - frees = Cardinality(held) + 1
      BY <1>0
    <2> QED BY <2>2, <2>3, <2>4, <2>5 DEF CountInv
  <1>2. ASSUME NEW b \in DOMAIN live, kfree(b)
        PROVE  CountInv'
    <2>1. DOMAIN live' = held \ {b}
      BY <1>2 DEF kfree, Returned
    <2>2. mem_stats'.num_allocations = allocs /\ mem_stats'.num_frees = frees + 1
      BY <1>0, <1>2, CountFields DEF kfree
    <2>3. IsFiniteSet(held \ {b}) /\ Cardinality(held \ {b}) = Cardinality(held) - 1
      BY <1>0, FS_RemoveElement
    <2>4. allocs - (frees + 1) = Cardinality(held) - 1
      BY <1>0
    <2> QED BY <2>1, <2>2, <2>3, <2>4 DEF CountInv
  <1>3. ASSUME NEW b \in DOMAIN live, NEW n \in ReallocSizes, krealloc_move(b, n)
        PROVE  CountInv'
    <2>1. PICK c \in find_free_block(AlignUp(n)) :
            LET h == taken(c, AlignUp(n))
            IN  /\ mem_stats' = CountFree(CountAlloc(mem_stats, h[c].size), h[b].size)
                /\ live' = Returned(Granted(c, c + HDR, n), b)
      BY <1>3 DEF krealloc_move
    <2>2. c \notin held /\ DOMAIN live' = (held \cup {c}) \ {b} /\ b \in held \cup {c}
      BY <2>1, FoundUnheld DEF Returned, Granted
    <2>3. mem_stats'.num_allocations = allocs + 1 /\ mem_stats'.num_frees = frees + 1
      <3>1. PICK s, size, other : /\ s = CountAlloc(mem_stats, size)
                                  /\ mem_stats' = CountFree(s, other)
        BY <2>1
      <3>2. s.num_allocations = allocs + 1 /\ s.num_frees = frees
        BY <1>0, <3>1, CountFields
      <3>3. DOMAIN s = DOMAIN mem_stats
        BY <3>1 DEF CountAlloc
      <3>4. /\ mem_stats'.num_allocations = s.num_allocations
            /\ mem_stats'.num_frees = s.num_frees + 1
        BY <1>0, <3>1, <3>3 DEF CountFree, StatsType
      <3> QED BY <3>2, <3>4
    <2>4. /\ IsFiniteSet((held \cup {c}) \ {b})
          /\ Cardinality((held \cup {c}) \ {b}) = Cardinality(held \cup {c}) - 1
          /\ Cardinality(held \cup {c}) = Cardinality(held) + 1
      <3>1. IsFiniteSet(held \cup {c}) /\ Cardinality(held \cup {c}) = Cardinality(held) + 1
        BY <1>0, <2>2, FS_AddElement
      <3> QED BY <2>2, <3>1, FS_RemoveElement
    <2>5. (allocs + 1) - (frees + 1) = (Cardinality(held) + 1) - 1
      BY <1>0
    <2> QED BY <2>2, <2>3, <2>4, <2>5 DEF CountInv
  <1>4. ASSUME NEW b \in DOMAIN live, NEW n \in ReallocSizes, krealloc_shrink(b, n)
        PROVE  CountInv'
    <2>1. DOMAIN live' = held /\ mem_stats' = mem_stats
      BY <1>4 DEF krealloc_shrink, Granted
    <2> QED BY <2>1 DEF CountInv
  <1>5. CASE mm_get_stats
    <2>1. live' = live /\ \E largest : mem_stats' = [mem_stats EXCEPT !.largest_free_block = largest]
      BY <1>5 DEF mm_get_stats
    <2>2. mem_stats'.num_allocations = allocs /\ mem_stats'.num_frees = frees
      BY <1>0, <2>1 DEF StatsType
    <2> QED BY <2>1, <2>2 DEF CountInv
  <1>6. CASE UNCHANGED <<mem_stats, live>>
    BY <1>6 DEF CountInv
  <1>7. CASE merge_free_blocks
    BY <1>6, <1>7 DEF merge_free_blocks, merge_next, merge_prev
  <1> QED BY <1>1, <1>2, <1>3, <1>4, <1>5, <1>6, <1>7, StepCases DEF vars

\* num_allocations less num_frees is the number of blocks in use at every step,
\* inside merge_free_blocks and after krealloc too.
THEOREM CountsRight == Spec => []CountsAgree
  <1>1. Init => CountInv
    <2> SUFFICES ASSUME Init PROVE CountInv
      OBVIOUS
    <2>1. DOMAIN live = {} /\ mem_stats.num_allocations = 0 /\ mem_stats.num_frees = 0
      BY DEF Init
    <2> QED BY <2>1, FS_EmptySet DEF CountInv
  <1>2. HeapInv /\ CountInv /\ [Next]_vars => CountInv'
    BY CountStep
  <1>3. HeapInv /\ CountInv => CountsAgree
    <2> SUFFICES ASSUME HeapInv, CountInv PROVE CountsAgree
      OBVIOUS
    <2>1. {b \in DOMAIN hdr : hdr[b].is_free = 0} = DOMAIN live
      BY DEF HeapInv, UsedIsLive
    <2> QED BY <2>1 DEF CountsAgree, CountInv
  <1> QED BY <1>1, <1>2, <1>3, HeapStart, HeapStep, PTL DEF Spec

----------------------------------------------------------------------------
\* The walks along the list.  They are recursive functions, so what they compute
\* is shown by induction: on the distance to the end of the heap, as the
\* existence of a least number that has a property.

\* Every set of numbers has a least element.
LEMMA LeastNumber ==
    ASSUME NEW T, T \subseteq Nat, T # {}
    PROVE  \E x \in T : \A y \in T : x <= y
  <1>1. PICK x \in T : \A y \in T : ~(<<y, x>> \in OpToRel(<, Nat))
    BY NatLessThanWellFounded, WFMin, Zenon
  <1>2. ASSUME NEW y \in T PROVE x <= y
    <2>1. x \in Nat /\ y \in Nat
      OBVIOUS
    <2>2. ~(y < x)
      BY <1>1, <2>1 DEF OpToRel
    <2> QED BY <2>1, <2>2
  <1> QED BY <1>2

\* Every set of blocks has a last and a first one.
LEMMA LastBlock ==
    ASSUME NEW T, T \subseteq Address, T # {}
    PROVE  /\ \E x \in T : \A y \in T : y <= x
           /\ \E x \in T : \A y \in T : x <= y
  <1> DEFINE D == {HeapEnd - c : c \in T}
  <1>1. D \subseteq Nat /\ D # {} /\ T \subseteq Nat
    BY AddressFacts
  <1>2. PICK d \in D : \A e \in D : d <= e
    BY <1>1, LeastNumber
  <1>3. PICK x \in T : d = HeapEnd - x
    BY <1>2
  <1>4. ASSUME NEW y \in T PROVE y <= x
    <2>1. HeapEnd - y \in D /\ y \in Nat /\ x \in Nat /\ HeapEnd \in Nat
      BY AddressFacts
    <2>2. HeapEnd - x <= HeapEnd - y
      BY <1>2, <1>3, <2>1
    <2> QED BY <2>1, <2>2
  <1> QED BY <1>1, <1>4, LeastNumber

\* The successor is the next higher block, and the last block has none.
LEMMA Successor ==
    ASSUME HeapInv, NEW c \in DOMAIN hdr
    PROVE  /\ c \in Address /\ c # NULL /\ hdr[c].next \in Blocks
           /\ hdr[c].next = NULL => \A b \in DOMAIN hdr : b <= c
           /\ hdr[c].next # NULL =>
                 /\ hdr[c].next \in DOMAIN hdr /\ c < hdr[c].next
                 /\ \A b \in DOMAIN hdr : b <= c \/ hdr[c].next <= b
  <1>1. IsHeap(hdr) /\ IsTiled(hdr)
    BY DEF HeapInv, TypeOK, Tiled
  <1>2. /\ c \in Address /\ c # NULL /\ c \in Nat /\ End(hdr, c) \in Nat
        /\ c < End(hdr, c) /\ End(hdr, c) <= HeapEnd
    BY <1>1, HeaderFacts, EndsInside, AddressFacts
  <1>3. \A b \in DOMAIN hdr : b \in Nat /\ b < HeapEnd /\ (b <= c \/ End(hdr, c) <= b)
    <2> TAKE b \in DOMAIN hdr
    <2>1. b \in Nat /\ b < HeapEnd
      BY <1>1, AddressFacts DEF IsHeap
    <2> QED BY <1>1, <1>2, <2>1 DEF IsTiled, Disjoint
  <1>4. CASE hdr[c].next = NULL
    <2>1. End(hdr, c) = HeapEnd
      BY <1>1, <1>4 DEF IsTiled, NextAdjacent
    <2> QED BY <1>2, <1>3, <1>4, <2>1, AddressFacts DEF Blocks
  <1>5. CASE hdr[c].next # NULL
    <2>1. hdr[c].next \in DOMAIN hdr /\ hdr[c].next = End(hdr, c)
      BY <1>1, <1>5 DEF IsTiled, NextAdjacent
    <2> QED BY <1>2, <1>3, <1>5, <2>1 DEF Blocks
  <1> QED BY <1>4, <1>5

\* What the walk of find_free_block returns from block c on: the lowest block from
\* there on that fits, or NULL.
FoundFrom(c, size, b) ==
    \/ /\ b \in DOMAIN hdr /\ c <= b /\ Fits(b, size)
       /\ \A e \in DOMAIN hdr : c <= e /\ Fits(e, size) => b <= e
    \/ /\ b = NULL
       /\ \A e \in DOMAIN hdr : c <= e => ~Fits(e, size)

LEMMA FoundExists ==
    ASSUME HeapInv, NEW c \in DOMAIN hdr, NEW size
    PROVE  \E b : FoundFrom(c, size, b)
  <1> DEFINE T == {e \in DOMAIN hdr : c <= e /\ Fits(e, size)}
  <1>1. T \subseteq Address
    BY DEF HeapInv, TypeOK, IsHeap
  <1>2. CASE T = {}
    BY <1>2 DEF FoundFrom
  <1>3. CASE T # {}
    <2>1. PICK b \in T : \A e \in T : b <= e
      BY <1>1, <1>3, LastBlock
    <2> QED BY <2>1 DEF FoundFrom
  <1> QED BY <1>2, <1>3

LEMMA FoundUnique ==
    ASSUME HeapInv, NEW c \in DOMAIN hdr, NEW size, NEW b, NEW d,
           FoundFrom(c, size, b), FoundFrom(c, size, d)
    PROVE  b = d
  <1>1. \A e \in DOMAIN hdr : e \in Nat
    BY AddressFacts DEF HeapInv, TypeOK, IsHeap
  <1>2. CASE b = NULL \/ d = NULL
    BY <1>1, <1>2, Successor DEF FoundFrom
  <1>3. CASE b # NULL /\ d # NULL
    <2>1. b \in DOMAIN hdr /\ d \in DOMAIN hdr /\ b <= d /\ d <= b
      BY <1>3 DEF FoundFrom
    <2> QED BY <1>1, <2>1
  <1> QED BY <1>2, <1>3

\* One iteration of the walk: a block that fits is found, and past a block that
\* does not the walk goes on with the successor.
LEMMA FoundStep ==
    ASSUME HeapInv, NEW c \in DOMAIN hdr, NEW size
    PROVE  /\ Fits(c, size) => FoundFrom(c, size, c)
           /\ ~Fits(c, size) /\ hdr[c].next = NULL => FoundFrom(c, size, NULL)
           /\ ~Fits(c, size) /\ hdr[c].next # NULL =>
                 \A b : FoundFrom(hdr[c].next, size, b) => FoundFrom(c, size, b)
  <1>1. \A e \in DOMAIN hdr : e \in Nat
    BY AddressFacts DEF HeapInv, TypeOK, IsHeap
  <1>2. Fits(c, size) => FoundFrom(c, size, c)
    BY <1>1 DEF FoundFrom
  <1>3. ASSUME ~Fits(c, size), hdr[c].next = NULL PROVE FoundFrom(c, size, NULL)
    <2>1. \A e \in DOMAIN hdr : c <= e => e = c
      BY <1>1, <1>3, Successor
    <2> QED BY <1>3, <2>1 DEF FoundFrom
  <1>4. ASSUME ~Fits(c, size), hdr[c].next # NULL, NEW b, FoundFrom(hdr[c].next, size, b)
        PROVE  FoundFrom(c, size, b)
    <2>1. PICK n \in DOMAIN hdr : n = hdr[c].next
      BY <1>4, Successor
    <2>2. c < n /\ \A e \in DOMAIN hdr : c <= e => e = c \/ n <= e
      BY <1>1, <1>4, <2>1, Successor
    <2>3. FoundFrom(n, size, b)
      BY <1>4, <2>1
    <2>4. \A e \in DOMAIN hdr : n <= e => c <= e
      BY <1>1, <2>2
    <2> QED BY <1>4, <2>2, <2>3, <2>4 DEF FoundFrom
  <1> QED BY <1>2, <1>3, <1>4

\* The walk of find_free_block finds what FoundFrom says.  Such a function
\* satisfies the equation of the walk, so the walk is well defined; were there a
\* block from which it found something else, its successor would be another.
LEMMA WalkFinds ==
    ASSUME HeapInv, NEW size, NEW c \in DOMAIN hdr
    PROVE  FoundFrom(c, size, FindFrom(c, size))
  <1> DEFINE Walk(w) == [e \in Blocks |-> IF e = NULL THEN NULL
                                          ELSE IF Fits(e, size) THEN e
                                          ELSE w[hdr[e].next]]
             g == [e \in Blocks |-> IF e = NULL THEN NULL
                                    ELSE CHOOSE b : FoundFrom(e, size, b)]
             f == CHOOSE w : w = Walk(w)
  <1>1. \A e \in DOMAIN hdr : e # NULL /\ e \in Blocks /\ FoundFrom(e, size, g[e])
    BY FoundExists, Successor DEF Blocks
  <1>2. g[NULL] = NULL
    BY DEF Blocks
  <1>3. g = Walk(g)
    <2>1. ASSUME NEW e \in Blocks PROVE g[e] = Walk(g)[e]
      <3>1. CASE e = NULL
        BY <1>2, <3>1
      <3>2. CASE e # NULL
        <4>1. e \in DOMAIN hdr /\ FoundFrom(e, size, g[e])
          BY <1>1, <3>2 DEF Blocks
        <4> HIDE DEF g
        <4>2. FoundFrom(e, size, Walk(g)[e])
          <5>1. Walk(g)[e] = IF Fits(e, size) THEN e ELSE g[hdr[e].next]
            BY <3>2
          <5> HIDE DEF Walk
          <5> QED BY <1>1, <1>2, <4>1, <5>1, FoundStep, Successor
        <4> HIDE DEF Walk
        <4> QED BY <4>1, <4>2, FoundUnique
      <3> QED BY <3>1, <3>2
    <2> QED BY <2>1
  <1> HIDE DEF g
  <1>4. f = Walk(f)
    BY <1>3
  <1>5. FindFrom(c, size) = f[c]
    BY DEF FindFrom
  <1> HIDE DEF f
  <1>6. /\ f[NULL] = NULL
        /\ \A e \in DOMAIN hdr : f[e] = IF Fits(e, size) THEN e ELSE f[hdr[e].next]
    <2>1. NULL \in Blocks /\ \A e \in DOMAIN hdr : e \in Blocks /\ e # NULL
      BY Successor DEF Blocks
    <2> QED BY <1>4, <2>1
  <1> DEFINE T == {e \in DOMAIN hdr : ~FoundFrom(e, size, f[e])}
  <1>7. T = {}
    <2> SUFFICES ASSUME T # {} PROVE FALSE
      OBVIOUS
    <2>1. T \subseteq Address
      BY DEF HeapInv, TypeOK, IsHeap
    <2>2. PICK e \in T : \A y \in T : y <= e
      BY <2>1, LastBlock
    <2>3. ASSUME hdr[e].next # NULL PROVE FoundFrom(hdr[e].next, size, f[hdr[e].next])
      <3>1. PICK n \in DOMAIN hdr : n = hdr[e].next /\ e < n /\ e \in Nat /\ n \in Nat
        BY <2>3, Successor, AddressFacts DEF HeapInv, TypeOK, IsHeap
      <3>2. n \notin T
        BY <2>2, <3>1
      <3> QED BY <3>1, <3>2
    <2>4. FoundFrom(e, size, f[e])
      BY <1>6, <2>3, FoundStep
    <2> QED BY <2>4
  <1> QED BY <1>5, <1>7

\* find_free_block returns the lowest block that fits whenever there is one, in
\* every reachable heap, inside merge_free_blocks and after krealloc too.
THEOREM WalkRight == HistorySpec => []WalkFindsLowest
  <1>1. HeapInv => WalkFindsLowest
    <2> SUFFICES ASSUME HeapInv, NEW size \in 0 .. KERNEL_HEAP_SIZE,
                        NEW b, b = FindFrom(heap_head, size)
                 PROVE  find_free_block(size) = IF b = NULL THEN {} ELSE {b}
      BY DEF WalkFindsLowest
    <2>1. heap_head \in DOMAIN hdr /\ \A e \in DOMAIN hdr : e \in Nat /\ e # NULL /\ heap_head <= e
      BY AddressFacts DEF HeapInv, TypeOK, IsHeap, Tiled, IsTiled, heap_head
    <2>2. FoundFrom(heap_head, size, b)
      BY <2>1, WalkFinds
    <2>3. CASE b = NULL
      BY <2>1, <2>2, <2>3 DEF FoundFrom, find_free_block
    <2>4. CASE b # NULL
      <3>1. /\ b \in DOMAIN hdr /\ Fits(b, size)
            /\ \A e \in DOMAIN hdr : Fits(e, size) => b <= e
        BY <2>1, <2>2, <2>4 DEF FoundFrom
      <3>2. \A e \in find_free_block(size) : e = b
        <4> TAKE e \in find_free_block(size)
        <4>1. e \in DOMAIN hdr /\ e <= b /\ b <= e
          BY <3>1 DEF find_free_block
        <4> QED BY <2>1, <3>1, <4>1
      <3>3. b \in find_free_block(size)
        BY <3>1 DEF find_free_block
      <3> QED BY <2>4, <3>2, <3>3
    <2> QED BY <2>3, <2>4
  <1>2. HeapInv /\ [HistoryNext]_historyVars => HeapInv'
    BY HistoryIsHeap, HeapStep
  <1>3. HistoryInit => HeapInv
    BY HeapStart DEF HistoryInit
  <1> QED BY <1>1, <1>2, <1>3, PTL DEF HistorySpec

\* What is left to add up from c on.
Remaining(c) == IF c = NULL THEN 0 ELSE HeapEnd - c

LEMMA RemainingStep ==
    ASSUME HeapInv, NEW c \in DOMAIN hdr
    PROVE  /\ c # NULL /\ KERNEL_HEAP_START <= c /\ c < HeapEnd
           /\ hdr[c].next # NULL => hdr[hdr[c].next].prev = c
           /\ hdr[c].size \in Nat /\ HDR \in Nat
           /\ Remaining(c) \in Nat /\ Remaining(hdr[c].next) \in Nat
           /\ Remaining(c) = hdr[c].size + HDR + Remaining(hdr[c].next)
  <1>1. IsHeap(hdr) /\ IsTiled(hdr)
    BY DEF HeapInv, TypeOK, Tiled
  <1>2. /\ c \in Nat /\ c # NULL /\ KERNEL_HEAP_START <= c /\ c < HeapEnd
        /\ hdr[c].size \in Nat /\ End(hdr, c) = c + HDR + hdr[c].size
        /\ End(hdr, c) <= HeapEnd
    BY <1>1, HeaderFacts, EndsInside, AddressFacts
  <1>3. hdr[c].next # NULL => hdr[hdr[c].next].prev = c
    BY <1>1 DEF IsTiled, LinksInverse
  <1>4. Remaining(c) = HeapEnd - c /\ Remaining(hdr[c].next) = HeapEnd - End(hdr, c)
    <2>1. CASE hdr[c].next = NULL
      <3>1. End(hdr, c) = HeapEnd /\ HeapEnd \in Nat
        BY <1>1, <2>1, AddressFacts DEF IsTiled, NextAdjacent
      <3> QED BY <1>2, <2>1, <3>1 DEF Remaining
    <2>2. CASE hdr[c].next # NULL
      <3>1. hdr[c].next = End(hdr, c)
        BY <1>1, <2>2 DEF IsTiled, NextAdjacent
      <3> QED BY <1>2, <2>2, <3>1 DEF Remaining
    <2> QED BY <2>1, <2>2
  <1>5. HDR \in Nat /\ HeapEnd \in Nat
    BY HeapConstants, AddressFacts
  <1> QED
    <2>1. PICK e, s, r, q : /\ e = HeapEnd /\ s = hdr[c].size
                            /\ r = Remaining(c) /\ q = Remaining(hdr[c].next)
      OBVIOUS
    <2>2. /\ e \in Nat /\ s \in Nat /\ c \in Nat /\ HDR \in Nat /\ c < e
          /\ r = e - c /\ q = e - (c + HDR + s) /\ c + HDR + s <= e
      BY <1>2, <1>4, <1>5, <2>1
    <2>3. r \in Nat /\ q \in Nat /\ r = s + HDR + q
      BY <2>2
    <2> QED BY <1>2, <1>3, <1>5, <2>1, <2>3

Verdict(total) == IF total <= KERNEL_HEAP_SIZE THEN 1 ELSE 0

\* mm_check_heap_integrity, called with total so far, compares the size of the
\* heap with total and all that is left.
LEMMA WalkIntact ==
    ASSUME HeapInv, NEW c \in DOMAIN hdr, NEW total \in Nat
    PROVE  IntactFrom(c, total) = Verdict(total + Remaining(c))
  <1> DEFINE Walk(w) ==
                 [e \in Blocks |->
                     [t \in Nat |->
                         IF e = NULL THEN Verdict(t)
                         ELSE IF /\ KERNEL_HEAP_START <= e /\ e < HeapEnd
                                 /\ hdr[e].next # NULL => hdr[hdr[e].next].prev = e
                         THEN w[hdr[e].next][t + hdr[e].size + HDR]
                         ELSE 0]]
             g == [e \in Blocks |-> [t \in Nat |-> Verdict(t + Remaining(e))]]
             f == CHOOSE w : w = Walk(w)
  <1>1. NULL \in Blocks /\ \A e \in DOMAIN hdr : e \in Blocks /\ hdr[e].next \in Blocks
    BY Successor DEF Blocks
  <1>2. g = Walk(g)
    <2>1. ASSUME NEW e \in Blocks, NEW t \in Nat PROVE g[e][t] = Walk(g)[e][t]
      <3>1. CASE e = NULL
        BY <1>1, <3>1 DEF Remaining
      <3>2. CASE e # NULL
        <4>1. e \in DOMAIN hdr
          BY <3>2 DEF Blocks
        <4>2. /\ t + hdr[e].size + HDR \in Nat
              /\ (t + hdr[e].size + HDR) + Remaining(hdr[e].next) = t + Remaining(e)
          BY <4>1, RemainingStep
        <4>3. g[hdr[e].next][t + hdr[e].size + HDR] = Verdict(t + Remaining(e))
          BY <1>1, <4>1, <4>2
        <4>4. g[e][t] = Verdict(t + Remaining(e))
          BY <1>1
        <4> HIDE DEF g
        <4>5. Walk(g)[e][t] = g[hdr[e].next][t + hdr[e].size + HDR]
          BY <3>2, <4>1, RemainingStep
        <4> QED BY <4>3, <4>4, <4>5
      <3> QED BY <3>1, <3>2
    <2>2. ASSUME NEW e \in Blocks PROVE g[e] = Walk(g)[e]
      BY <2>1
    <2> QED BY <2>2
  <1> HIDE DEF g
  <1>3. f = Walk(f)
    <2> HIDE DEF Walk
    <2> QED BY <1>2
  <1>4. IntactFrom(c, total) = f[c][total]
    BY DEF IntactFrom, Verdict
  <1> HIDE DEF f
  <1>5. \A t \in Nat : f[NULL][t] = Verdict(t)
    BY <1>1, <1>3
  <1>6. ASSUME NEW e \in DOMAIN hdr, NEW t \in Nat
        PROVE  f[e][t] = f[hdr[e].next][t + hdr[e].size + HDR]
    <2>1. e \in Blocks /\ e # NULL
      BY <1>1, RemainingStep
    <2>2. /\ KERNEL_HEAP_START <= e /\ e < HeapEnd
          /\ hdr[e].next # NULL => hdr[hdr[e].next].prev = e
      BY RemainingStep
    <2>3. f[e] = Walk(f)[e]
      <3> HIDE DEF Walk
      <3> QED BY <1>3
    <2>4. Walk(f)[e][t] = f[hdr[e].next][t + hdr[e].size + HDR]
      BY <2>1, <2>2
    <2> QED BY <2>3, <2>4
  <1> DEFINE Right(e) == \A t \in Nat : f[e][t] = Verdict(t + Remaining(e))
             T == {e \in DOMAIN hdr : ~Right(e)}
  <1>7. T = {}
    <2> SUFFICES ASSUME T # {} PROVE FALSE
      OBVIOUS
    <2>1. T \subseteq Address
      BY DEF HeapInv, TypeOK, IsHeap
    <2>2. PICK e \in T : \A y \in T : y <= e
      BY <2>1, LastBlock
    <2>3. Right(hdr[e].next)
      <3>1. CASE hdr[e].next = NULL
        BY <1>5, <3>1 DEF Remaining
      <3>2. CASE hdr[e].next # NULL
        <4>1. PICK n \in DOMAIN hdr : n = hdr[e].next /\ e < n /\ e \in Nat /\ n \in Nat
          BY <3>2, Successor, AddressFacts DEF HeapInv, TypeOK, IsHeap
        <4>2. n \notin T
          BY <2>2, <4>1
        <4> QED BY <4>1, <4>2
      <3> QED BY <3>1, <3>2
    <2>4. ASSUME NEW t \in Nat PROVE f[e][t] = Verdict(t + Remaining(e))
      <3>1. /\ t + hdr[e].size + HDR \in Nat
            /\ (t + hdr[e].size + HDR) + Remaining(hdr[e].next) = t + Remaining(e)
        BY RemainingStep
      <3> QED BY <1>6, <2>3, <3>1
    <2> QED BY <2>4
  <1> QED BY <1>4, <1>7

\* mm_check_heap_integrity returns 1 in every reachable heap.
THEOREM IntegrityRight == HistorySpec => []IntegrityHolds
  <1>1. HeapInv => IntegrityHolds
    <2> SUFFICES ASSUME HeapInv PROVE IntegrityHolds
      OBVIOUS
    <2>1. heap_head \in DOMAIN hdr
      BY DEF HeapInv, Tiled, IsTiled
    <2>2. IntactFrom(heap_head, 0) = Verdict(0 + Remaining(heap_head))
      BY <2>1, WalkIntact
    <2>3. 0 + Remaining(heap_head) <= KERNEL_HEAP_SIZE
      BY HeapConstants DEF Remaining, heap_head, HeapEnd, NULL
    <2> QED BY <2>2, <2>3 DEF Verdict, IntegrityHolds, mm_check_heap_integrity
  <1>2. HeapInv /\ [HistoryNext]_historyVars => HeapInv'
    BY HistoryIsHeap, HeapStep
  <1>3. HistoryInit => HeapInv
    BY HeapStart DEF HistoryInit
  <1> QED BY <1>1, <1>2, <1>3, PTL DEF HistorySpec

----------------------------------------------------------------------------
\* used_memory and free_memory.

\* The bytes of the blocks in use are at most the heap without its first header.
LEMMA BytesBound ==
    ASSUME NEW h, IsHeap(h), IsTiled(h)
    PROVE  /\ IsFiniteSet(UsedBytes(h)) /\ Cardinality(UsedBytes(h)) \in Nat
           /\ Cardinality(UsedBytes(h)) <= KERNEL_HEAP_SIZE - HDR
  <1> DEFINE lo == KERNEL_HEAP_START + HDR
             hi == HeapEnd - 1
  <1>1. /\ lo \in Int /\ hi \in Int /\ ~(lo > hi)
        /\ hi - lo + 1 = KERNEL_HEAP_SIZE - HDR
    BY HeapConstants DEF HeapEnd
  <1>2. UsedBytes(h) \subseteq lo .. hi
    <2> SUFFICES ASSUME NEW x \in UsedBytes(h) PROVE x \in lo .. hi
      OBVIOUS
    <2>1. PICK b \in DOMAIN h : b + HDR <= x
      BY DEF UsedBytes
    <2>2. x \in Nat /\ x < HeapEnd /\ b \in Nat /\ KERNEL_HEAP_START <= b /\ HeapEnd \in Nat
      BY AddressFacts DEF UsedBytes, IsHeap
    <2> QED BY <2>1, <2>2, HeapConstants
  <1>3. IsFiniteSet(lo .. hi) /\ Cardinality(lo .. hi) = hi - lo + 1
    <2> HIDE DEF lo, hi
    <2> QED BY <1>1, FS_Interval
  <1>4. /\ IsFiniteSet(UsedBytes(h))
        /\ Cardinality(UsedBytes(h)) <= Cardinality(lo .. hi)
    <2> HIDE DEF lo, hi
    <2> QED BY <1>2, <1>3, FS_Subset
  <1>5. Cardinality(UsedBytes(h)) \in Nat
    BY <1>4, FS_CardinalityType
  <1> HIDE DEF lo, hi
  <1> QED BY <1>1, <1>3, <1>4, <1>5

\* In g the blocks in use are those of h, and b.
OneMore(g, h, b) ==
    /\ b \in DOMAIN g /\ g[b].is_free = 0
    /\ \A a \in DOMAIN h : h[a].is_free = 0 =>
          /\ a # b /\ a \in DOMAIN g
          /\ g[a].is_free = 0 /\ g[a].size = h[a].size
    /\ \A a \in DOMAIN g : g[a].is_free = 0 =>
          a = b \/ (a \in DOMAIN h /\ h[a].is_free = 0)

\* Using one more block adds its payload, no byte of which was in use.
LEMMA BytesOfOneMore ==
    ASSUME NEW g, IsHeap(g), IsTiled(g), NEW h, IsHeap(h), IsTiled(h),
           NEW b, OneMore(g, h, b)
    PROVE  Cardinality(UsedBytes(g)) = Cardinality(UsedBytes(h)) + g[b].size
  <1> DEFINE lo == b + HDR
             hi == End(g, b) - 1
             P == lo .. hi
  <1>1. /\ b \in DOMAIN g /\ b \in Nat /\ g[b].size \in Nat /\ End(g, b) \in Nat
        /\ End(g, b) = b + HDR + g[b].size /\ End(g, b) <= HeapEnd
        /\ KERNEL_HEAP_START <= b
    BY HeaderFacts, EndsInside, AddressFacts DEF OneMore
  <1>2. UsedBytes(g) = UsedBytes(h) \cup P
    <2>1. ASSUME NEW x \in UsedBytes(g) PROVE x \in UsedBytes(h) \cup P
      <3>1. PICK a \in DOMAIN g : g[a].is_free = 0 /\ a + HDR <= x /\ x < End(g, a)
        BY DEF UsedBytes
      <3>2. x \in Address /\ x \in Nat
        BY AddressFacts DEF UsedBytes
      <3>3. CASE a = b
        BY <1>1, <3>1, <3>2, <3>3, HeapConstants
      <3>4. CASE a # b
        <4>1. a \in DOMAIN h /\ h[a].is_free = 0 /\ End(h, a) = End(g, a)
          BY <3>1, <3>4 DEF OneMore, End
        <4> QED BY <3>1, <3>2, <4>1 DEF UsedBytes
      <3> QED BY <3>3, <3>4
    <2>2. ASSUME NEW x \in UsedBytes(h) PROVE x \in UsedBytes(g)
      <3>1. PICK a \in DOMAIN h : h[a].is_free = 0 /\ a + HDR <= x /\ x < End(h, a)
        BY DEF UsedBytes
      <3>2. a \in DOMAIN g /\ g[a].is_free = 0 /\ End(h, a) = End(g, a)
        BY <3>1 DEF OneMore, End
      <3> QED BY <3>1, <3>2 DEF UsedBytes
    <2>3. ASSUME NEW x \in P PROVE x \in UsedBytes(g)
      <3>1. x \in Int /\ b + HDR <= x /\ x < End(g, b)
        BY <1>1, HeapConstants
      <3>2. x \in Address
        BY <1>1, <3>1, HeapConstants, AddressFacts
      <3> QED BY <1>1, <3>1, <3>2 DEF UsedBytes, OneMore
    <2> QED BY <2>1, <2>2, <2>3
  <1>3. UsedBytes(h) \cap P = {}
    <2> SUFFICES ASSUME NEW x \in UsedBytes(h), x \in P PROVE FALSE
      OBVIOUS
    <2>1. PICK a \in DOMAIN h : h[a].is_free = 0 /\ a + HDR <= x /\ x < End(h, a)
      BY DEF UsedBytes
    <2>2. a \in DOMAIN g /\ a # b /\ End(h, a) = End(g, a)
      BY <2>1 DEF OneMore, End
    <2>3. a \in Nat /\ End(g, a) \in Nat /\ HDR \in Nat
      BY <2>2, HeaderFacts, HeapConstants
    <2>4. x \in Int /\ b + HDR <= x /\ x < End(g, b)
      BY <1>1, HeapConstants
    <2>5. a < b \/ b < a
      <3>1. \A i, j \in Nat : i # j => i < j \/ j < i
        OBVIOUS
      <3> QED BY <1>1, <2>2, <2>3, <3>1
    <2>6. End(g, a) <= b \/ End(g, b) <= a
      BY <1>1, <2>2, <2>5 DEF IsTiled, Disjoint
    <2> QED BY <1>1, <2>1, <2>2, <2>3, <2>4, <2>6
  <1>4. IsFiniteSet(P) /\ Cardinality(P) = g[b].size
    <2>1. lo \in Int /\ hi \in Int /\ (IF lo > hi THEN 0 ELSE hi - lo + 1) = g[b].size
      BY <1>1, HeapConstants
    <2> HIDE DEF lo, hi
    <2> QED BY <2>1, FS_Interval
  <1> HIDE DEF P
  <1>5. IsFiniteSet(UsedBytes(h)) /\ Cardinality(UsedBytes(h)) \in Nat
    BY BytesBound
  <1>6. Cardinality(UsedBytes(h) \cup P) = Cardinality(UsedBytes(h)) + Cardinality(P) - Cardinality({})
    BY <1>3, <1>4, <1>5, FS_Union
  <1> QED BY <1>1, <1>2, <1>4, <1>5, <1>6, FS_EmptySet

\* What accounting does while used_memory and free_memory add up: neither wraps.
LEMMA MemoryFields ==
    ASSUME NEW stats \in StatsType, NEW size \in Nat,
           stats.used_memory + stats.free_memory = KERNEL_HEAP_SIZE - HDR
    PROVE  /\ stats.used_memory + size <= KERNEL_HEAP_SIZE - HDR =>
                /\ CountAlloc(stats, size).used_memory = stats.used_memory + size
                /\ CountAlloc(stats, size).free_memory = stats.free_memory - size
           /\ size <= stats.used_memory =>
                /\ CountFree(stats, size).used_memory = stats.used_memory - size
                /\ CountFree(stats, size).free_memory = stats.free_memory + size
  <1>1. PICK u \in Nat, f \in Nat : u = stats.used_memory /\ f = stats.free_memory
    BY DEF StatsType
  <1>2. \A x \in Nat : x <= KERNEL_HEAP_SIZE - HDR => x % SIZE_MOD = x
    <2>1. \A x \in Nat, m \in Nat : x < m => x % m = x
      OBVIOUS
    <2> QED BY <2>1, HeapConstants
  <1>3. KERNEL_HEAP_SIZE - HDR \in Nat /\ u + f = KERNEL_HEAP_SIZE - HDR
    BY <1>1, HeapConstants
  <1>4. u + size <= KERNEL_HEAP_SIZE - HDR =>
            (u + size) % SIZE_MOD = u + size /\ (f - size) % SIZE_MOD = f - size
    BY <1>2, <1>3
  <1>5. size <= u => (u - size) % SIZE_MOD = u - size /\ (f + size) % SIZE_MOD = f + size
    BY <1>2, <1>3
  <1>6. /\ CountAlloc(stats, size).used_memory = (u + size) % SIZE_MOD
        /\ CountAlloc(stats, size).free_memory = (f - size) % SIZE_MOD
    BY <1>1 DEF CountAlloc, StatsType
  <1>7. /\ CountFree(stats, size).used_memory = (u - size) % SIZE_MOD
        /\ CountFree(stats, size).free_memory = (f + size) % SIZE_MOD
    BY <1>1 DEF CountFree, StatsType
  <1> QED BY <1>1, <1>4, <1>5, <1>6, <1>7

\* The part of StatsAgree that holds until krealloc splits a block in place.
Accounted(stats, h) ==
    /\ stats.used_memory = Cardinality(UsedBytes(h))
    /\ stats.used_memory + stats.free_memory = KERNEL_HEAP_SIZE - HDR

MemoryInv == ~shrunk => Accounted(mem_stats, hdr)

\* Accounting for a block that is used in addition, and for one returned.
LEMMA AccountedMore ==
    ASSUME NEW g, IsHeap(g), IsTiled(g), NEW h, IsHeap(h), IsTiled(h),
           NEW b, OneMore(g, h, b), NEW stats \in StatsType, NEW size, size = g[b].size
    PROVE  /\ Accounted(stats, h) => Accounted(CountAlloc(stats, size), g)
           /\ Accounted(stats, g) => Accounted(CountFree(stats, size), h)
  <1>1. PICK m, n : m = Cardinality(UsedBytes(g)) /\ n = Cardinality(UsedBytes(h))
    OBVIOUS
  <1>2. /\ m \in Nat /\ n \in Nat /\ size \in Nat /\ m = n + size
        /\ m <= KERNEL_HEAP_SIZE - HDR
    BY <1>1, BytesBound, BytesOfOneMore, HeaderFacts DEF OneMore
  <1>3. PICK u \in Nat, f \in Nat : u = stats.used_memory /\ f = stats.free_memory
    BY DEF StatsType
  <1>4. ASSUME Accounted(stats, h) PROVE Accounted(CountAlloc(stats, size), g)
    <2>1. u = n /\ u + f = KERNEL_HEAP_SIZE - HDR /\ u + size <= KERNEL_HEAP_SIZE - HDR
      BY <1>1, <1>2, <1>3, <1>4 DEF Accounted
    <2>2. /\ CountAlloc(stats, size).used_memory = u + size
          /\ CountAlloc(stats, size).free_memory = f - size
      <3>1. /\ stats.used_memory + stats.free_memory = KERNEL_HEAP_SIZE - HDR
            /\ stats.used_memory + size <= KERNEL_HEAP_SIZE - HDR
        BY <1>3, <2>1
      <3> QED BY <1>2, <1>3, <3>1, MemoryFields
    <2>3. u + size = m /\ (u + size) + (f - size) = KERNEL_HEAP_SIZE - HDR
      BY <1>2, <2>1
    <2> QED BY <1>1, <2>2, <2>3 DEF Accounted
  <1>5. ASSUME Accounted(stats, g) PROVE Accounted(CountFree(stats, size), h)
    <2>1. u = m /\ u + f = KERNEL_HEAP_SIZE - HDR /\ size <= u
      <3>1. u = m /\ u + f = KERNEL_HEAP_SIZE - HDR
        BY <1>1, <1>3, <1>5 DEF Accounted
      <3>2. size <= m
        BY <1>2
      <3> QED BY <3>1, <3>2
    <2>2. /\ CountFree(stats, size).used_memory = u - size
          /\ CountFree(stats, size).free_memory = f + size
      <3>1. /\ stats.used_memory + stats.free_memory = KERNEL_HEAP_SIZE - HDR
            /\ size <= stats.used_memory
        BY <1>3, <2>1
      <3> QED BY <1>2, <1>3, <3>1, MemoryFields
    <2>3. u - size = n /\ (u - size) + (f + size) = KERNEL_HEAP_SIZE - HDR
      BY <1>2, <2>1
    <2> QED BY <1>1, <2>2, <2>3 DEF Accounted
  <1> QED BY <1>4, <1>5

LEMMA MemoryStep ==
    ASSUME HeapInv, MemoryInv, [HistoryNext]_historyVars
    PROVE  MemoryInv'
  <1> SUFFICES ASSUME ~shrunk' PROVE Accounted(mem_stats', hdr')
    BY DEF MemoryInv
  <1>0. /\ Accounted(mem_stats, hdr) /\ mem_stats \in StatsType
        /\ IsHeap(hdr) /\ IsTiled(hdr)
        /\ DOMAIN live \subseteq DOMAIN hdr
        /\ \A a \in DOMAIN hdr : hdr[a].is_free = 0 <=> a \in DOMAIN live
    <2>1. ~shrunk
      BY HistoryCases
    <2> QED BY <2>1 DEF MemoryInv, HeapInv, TypeOK, StatsType, Tiled, UsedIsLive
  <1>1. CASE SomeAllocation
    <2>1. PICK size \in Nat, b \in DOMAIN hdr : Take(size, b)
      BY <1>1 DEF SomeAllocation, Allocates
    <2>2. PICK n \in Nat : n = AlignUp(size) /\ b \in find_free_block(n)
      BY <2>1, AlignUpFacts DEF Take
    <2>3. PICK g : g = taken(b, n)
      OBVIOUS
    <2>4. hdr' = g /\ mem_stats' = CountAlloc(mem_stats, g[b].size)
      BY <2>1, <2>2, <2>3 DEF Take
    <2>5. IsHeap(g) /\ IsTiled(g) /\ OneMore(g, hdr, b)
      BY <1>0, <2>2, <2>3, TakenFacts DEF OneMore
    <2> QED BY <1>0, <2>4, <2>5, AccountedMore
  <1>2. ASSUME NEW b \in DOMAIN live, kfree(b)
        PROVE  Accounted(mem_stats', hdr')
    <2>1. PICK r : r = released(hdr, b)
      OBVIOUS
    <2>2. hdr' = r /\ mem_stats' = CountFree(mem_stats, hdr[b].size)
      BY <1>2, <2>1 DEF kfree
    <2>3. IsHeap(r) /\ IsTiled(r) /\ OneMore(hdr, r, b)
      BY <1>0, <2>1, ReleaseFacts DEF OneMore
    <2> QED BY <1>0, <2>2, <2>3, AccountedMore
  <1>3. CASE merge_free_blocks
    <2>1. HeapInv' /\ live' = live /\ mem_stats' = mem_stats
      BY <1>3, MergeKeeps DEF merge_free_blocks, merge_next, merge_prev
    <2>2. PICK g : g = hdr'
      OBVIOUS
    <2>3. /\ DOMAIN live \subseteq DOMAIN g
          /\ \A a \in DOMAIN g : g[a].is_free = 0 <=> a \in DOMAIN live
      BY <2>1, <2>2 DEF HeapInv, UsedIsLive
    <2>4. \A a \in DOMAIN live : g[a].size = hdr[a].size
      BY <1>3, <2>2, MergeKeeps
    <2>5. UsedBytes(g) = UsedBytes(hdr)
      <3>1. \A a \in DOMAIN live : End(g, a) = End(hdr, a)
        BY <2>4 DEF End
      <3> QED BY <1>0, <2>3, <3>1 DEF UsedBytes
    <2> QED BY <1>0, <2>1, <2>2, <2>5 DEF Accounted
  <1>4. ASSUME NEW b \in DOMAIN live, NEW n \in ReallocSizes, krealloc_move(b, n)
        PROVE  Accounted(mem_stats', hdr')
    <2>1. PICK s \in Nat : s = AlignUp(n)
      BY AlignUpFacts, HeapConstants
    <2>2. PICK c \in find_free_block(s) :
            /\ hdr' = released(taken(c, s), b)
            /\ mem_stats' = CountFree(CountAlloc(mem_stats, taken(c, s)[c].size),
                                      taken(c, s)[b].size)
      BY <1>4, <2>1 DEF krealloc_move
    <2>3. PICK h, r : h = taken(c, s) /\ r = released(h, b)
      OBVIOUS
    <2>4. /\ IsHeap(h) /\ IsTiled(h) /\ OneMore(h, hdr, c)
          /\ b \in DOMAIN h /\ h[b].is_free = 0 /\ h[c].size \in Nat
      BY <1>0, <2>2, <2>3, TakenFacts DEF OneMore
    <2>5. IsHeap(r) /\ IsTiled(r) /\ OneMore(h, r, b)
      <3>1. /\ IsHeap(r) /\ IsTiled(r) /\ DOMAIN r = DOMAIN h /\ r[b].is_free = 1
            /\ \A a \in DOMAIN h : r[a].size = h[a].size
            /\ \A a \in DOMAIN h \ {b} : r[a].is_free = h[a].is_free
        <4>1. IsHeap(h) /\ IsTiled(h) /\ b \in DOMAIN h /\ r = released(h, b)
          BY <2>3, <2>4
        <4> QED BY <4>1, ReleaseFacts, Zenon
      <3> QED BY <2>4, <3>1 DEF OneMore
    <2>6. PICK stats : stats = CountAlloc(mem_stats, h[c].size)
      OBVIOUS
    <2>7. stats \in StatsType
      BY <1>0, <1>4, <2>4, <2>6, CountTypes DEF krealloc_move
    <2>8. Accounted(stats, h)
      BY <1>0, <2>4, <2>6, AccountedMore
    <2>9. Accounted(CountFree(stats, h[b].size), r)
      BY <2>4, <2>5, <2>7, <2>8, AccountedMore
    <2> QED BY <2>2, <2>3, <2>6, <2>9
  <1>5. CASE UNCHANGED hdr /\ SameMemory
    <2>1. hdr' = hdr /\ mem_stats'.used_memory = mem_stats.used_memory
          /\ mem_stats'.free_memory = mem_stats.free_memory
      BY <1>5 DEF SameMemory
    <2> QED BY <1>0, <2>1 DEF Accounted
  <1> QED BY <1>1, <1>2, <1>3, <1>4, <1>5, HistoryCases

\* The statistics agree with the heap at every step: the counts always, and the
\* memory until krealloc splits a block in place.
THEOREM StatsRight == HistorySpec => []StatsAgree
  <1>1. HistoryInit => HeapInv /\ CountInv /\ MemoryInv
    <2> SUFFICES ASSUME HistoryInit PROVE CountInv /\ MemoryInv
      BY HeapStart DEF HistoryInit
    <2>1. DOMAIN live = {} /\ mem_stats.num_allocations = 0 /\ mem_stats.num_frees = 0
      BY DEF HistoryInit, Init
    <2>2. CountInv
      BY <2>1, FS_EmptySet DEF CountInv
    <2>3. /\ mem_stats.used_memory = 0 /\ mem_stats.free_memory = KERNEL_HEAP_SIZE - HDR
          /\ UsedBytes(hdr) = {}
      BY DEF HistoryInit, Init, FreshHeap, UsedBytes
    <2>4. MemoryInv
      BY <2>3, FS_EmptySet, HeapConstants DEF MemoryInv, Accounted
    <2> QED BY <2>2, <2>4
  <1>2. HeapInv /\ CountInv /\ MemoryInv /\ [HistoryNext]_historyVars
            => HeapInv' /\ CountInv' /\ MemoryInv'
    BY HistoryIsHeap, HeapStep, CountStep, MemoryStep
  <1>3. HeapInv /\ CountInv /\ MemoryInv => StatsAgree
    <2> SUFFICES ASSUME HeapInv, CountInv, MemoryInv PROVE StatsAgree
      OBVIOUS
    <2>1. {b \in DOMAIN hdr : hdr[b].is_free = 0} = DOMAIN live
      BY DEF HeapInv, UsedIsLive
    <2>2. CountsAgree
      BY <2>1 DEF CountsAgree, CountInv
    <2> QED BY <2>2 DEF StatsAgree, MemoryInv, Accounted
  <1> QED BY <1>1, <1>2, <1>3, PTL DEF HistorySpec
=============================================================================
