------------------------- MODULE TreiberPool_proofs --------------------------
(***************************************************************************)
(* Proofs about TreiberPool, for every number of blocks and clients and    *)
(* every width of the generation counter.                                  *)
(***************************************************************************)
EXTENDS TreiberPool, SequenceTheorems, FiniteSetTheorems, TLAPS

(***************************************************************************)
(* The inductive invariant.                                                *)
(***************************************************************************)

\* The blocks that client c answers for.
Owned(c) == held[c] \cup Returning(c)

\* What the locals of a client hold at each of its steps: it is freeing a
\* block exactly between free_block's first load and its compare-exchange,
\* alloc_block goes on only with a head that named a block, and once free_block
\* has linked its block nobody else writes that link.
LocalsOK ==
  \A c \in Clients :
    /\ pc[c] \in {"link", "free"} <=> blk[c] # NoBlock
    /\ pc[c] \in {"read", "alloc"} => old[c].idx # NoBlock
    /\ pc[c] = "free" => next[blk[c]] = old[c].idx

\* Every block is on the stack or with exactly one client.
Ownership ==
  /\ \A c \in Clients : held[c] \cap Returning(c) = {}
  /\ \A c, d \in Clients : c # d => Owned(c) \cap Owned(d) = {}
  /\ \A b \in Blocks : b \in Range(stack) <=> \A c \in Clients : b \notin Owned(c)

\* What a loaded copy of pool_head is worth: its generation is lag changes
\* behind, modulo the width; with no change it is pool_head, and the link read
\* through it is the link of the first block.
CopyOK ==
  \A c \in Clients :
    InFlight(c) =>
      /\ old[c].gen + lag[c] \in {head.gen, head.gen + GenMod}
      /\ lag[c] = 0 => old[c] = head
      /\ lag[c] = 0 /\ pc[c] = "alloc" => link[c] = next[head.idx]

PoolInv == TypeOK /\ LocalsOK /\ FreeListIntact /\ Ownership /\ CopyOK

(***************************************************************************)
(* Facts about the operators of the model.                                 *)
(***************************************************************************)

\* gen.wrapping_add(1) stays within the width, and a copy that was lag changes
\* behind is lag + 1 behind afterwards, as long as lag + 1 is below the width.
LEMMA WrapIncLag ==
  ASSUME NEW g \in 0 .. GenMod - 1, NEW o \in 0 .. GenMod - 1, NEW l \in Nat,
         l + 1 < GenMod, o + l \in {g, g + GenMod}
  PROVE  o + (l + 1) \in {WrapInc(g), WrapInc(g) + GenMod}
  BY GenModAssumption DEF WrapInc

LEMMA WrapIncType == \A g \in 0 .. GenMod - 1 : WrapInc(g) \in 0 .. GenMod - 1
  BY GenModAssumption DEF WrapInc

\* The ABA argument: a copy that still equals pool_head is not a stale one.
LEMMA CopyFresh ==
  ASSUME TypeOK, CopyOK, NEW c \in Clients, InFlight(c), head = old[c]
  PROVE  lag[c] = 0
  <1>1. lag[c] \in Nat /\ lag[c] < GenMod /\ head.gen \in Nat
    BY GenModAssumption DEF TypeOK, Heads
  <1>2. head.gen + lag[c] \in {head.gen, head.gen + GenMod} BY DEF CopyOK
  <1> QED BY <1>1, <1>2, GenModAssumption

LEMMA LinkFacts == NoBlock \notin Blocks /\ Blocks \subseteq Links /\ NoBlock \in Links
  BY NoBlockAssumption, BlockCountAssumption DEF Blocks, Links

\* Popping and pushing, in terms of what the stack holds.
LEMMA PopStack ==
  ASSUME NEW s \in Seq(Blocks), s # <<>>, IsInjective(s)
  PROVE  /\ Tail(s) \in Seq(Blocks) /\ IsInjective(Tail(s))
         /\ Len(Tail(s)) = Len(s) - 1
         /\ \A i \in 1 .. Len(Tail(s)) : Tail(s)[i] = s[i + 1]
         /\ s[1] \in Range(s) /\ s[1] \in Blocks
         /\ Range(Tail(s)) = Range(s) \ {s[1]}
  <1>1. /\ Tail(s) \in Seq(Blocks) /\ Len(Tail(s)) = Len(s) - 1
        /\ \A i \in 1 .. Len(Tail(s)) : Tail(s)[i] = s[i + 1]
        /\ Len(s) \in Nat \ {0} /\ DOMAIN s = 1 .. Len(s)
        /\ DOMAIN Tail(s) = 1 .. Len(Tail(s))
    BY HeadTailProperties, EmptySeq, LenProperties
  <1>2. IsInjective(Tail(s)) BY <1>1 DEF IsInjective
  <1>3. s[1] \in Range(s) /\ s[1] \in Blocks BY <1>1, ElementOfSeq DEF Range
  <1>4. Range(Tail(s)) = Range(s) \ {s[1]}
    <2>1. ASSUME NEW x \in Range(Tail(s)) PROVE x \in Range(s) \ {s[1]}
      <3>1. PICK i \in 1 .. Len(Tail(s)) : x = s[i + 1] BY <1>1 DEF Range
      <3>2. i + 1 \in DOMAIN s /\ 1 \in DOMAIN s /\ i + 1 # 1 BY <1>1
      <3> QED BY <3>1, <3>2 DEF Range, IsInjective
    <2>2. ASSUME NEW x \in Range(s), x # s[1] PROVE x \in Range(Tail(s))
      <3>1. PICK i \in 1 .. Len(s) : x = s[i] BY <1>1 DEF Range
      <3>2. i - 1 \in 1 .. Len(Tail(s)) /\ (i - 1) + 1 = i BY <1>1, <2>2, <3>1
      <3>3. Tail(s)[i - 1] = s[(i - 1) + 1] BY <1>1, <3>2
      <3> QED BY <1>1, <3>1, <3>2, <3>3 DEF Range
    <2> QED BY <2>1, <2>2
  <1> QED BY <1>1, <1>2, <1>3, <1>4

LEMMA PushStack ==
  ASSUME NEW s \in Seq(Blocks), IsInjective(s), NEW b \in Blocks \ Range(s)
  PROVE  /\ <<b>> \o s \in Seq(Blocks) /\ IsInjective(<<b>> \o s) /\ <<b>> \o s # <<>>
         /\ Len(<<b>> \o s) = Len(s) + 1 /\ (<<b>> \o s)[1] = b
         /\ \A i \in 1 .. Len(s) : (<<b>> \o s)[i + 1] = s[i]
         /\ Range(<<b>> \o s) = Range(s) \cup {b}
  <1> DEFINE t == <<b>> \o s
  <1>1. <<b>> \in Seq(Blocks) /\ Len(<<b>>) = 1 /\ <<b>>[1] = b OBVIOUS
  <1>2. /\ t \in Seq(Blocks) /\ Len(t) = 1 + Len(s)
        /\ \A i \in 1 .. 1 + Len(s) : t[i] = IF i <= 1 THEN <<b>>[i] ELSE s[i - 1]
    BY <1>1, ConcatProperties
  <1>3. /\ Len(s) \in Nat /\ DOMAIN s = 1 .. Len(s) /\ DOMAIN t = 1 .. Len(s) + 1
    BY <1>2, LenProperties
  <1>4. t[1] = b BY <1>1, <1>2, <1>3
  <1>5. \A i \in 1 .. Len(s) : t[i + 1] = s[i] BY <1>2, <1>3
  <1>6. \A i \in DOMAIN t : i # 1 => i - 1 \in DOMAIN s /\ t[i] = s[i - 1] BY <1>2, <1>3
  <1> HIDE DEF t
  <1>7. IsInjective(t)
    <2> SUFFICES ASSUME NEW i \in DOMAIN t, NEW j \in DOMAIN t, t[i] = t[j]
                 PROVE  i = j
      BY DEF IsInjective
    <2>1. CASE i = 1 BY <1>4, <1>6, <2>1 DEF Range
    <2>2. CASE j = 1 BY <1>4, <1>6, <2>2 DEF Range
    <2>3. CASE i # 1 /\ j # 1
      <3>1. i - 1 = j - 1 BY <1>6, <2>3 DEF IsInjective
      <3> QED BY <1>3, <3>1
    <2> QED BY <2>1, <2>2, <2>3
  <1>8. Range(t) = Range(s) \cup {b}
    <2>1. ASSUME NEW x \in Range(t) PROVE x \in Range(s) \cup {b}
      BY <1>4, <1>6 DEF Range
    <2>2. ASSUME NEW x \in Range(s) PROVE x \in Range(t)
      <3>1. PICK i \in 1 .. Len(s) : x = s[i] BY <1>3 DEF Range
      <3>2. i + 1 \in DOMAIN t /\ t[i + 1] = x BY <1>3, <1>5, <3>1
      <3> QED BY <3>2 DEF Range
    <2>3. b \in Range(t) BY <1>3, <1>4 DEF Range
    <2> QED BY <2>1, <2>2, <2>3
  <1>9. t # <<>> BY <1>2, <1>3, EmptySeq
  <1> QED BY <1>2, <1>3, <1>4, <1>5, <1>7, <1>8, <1>9 DEF t

(***************************************************************************)
(* The invariant holds initially and every action preserves it.            *)
(***************************************************************************)
LEMMA InitInv == Init => PoolInv
  <1> SUFFICES ASSUME Init PROVE PoolInv OBVIOUS
  <1>0. 0 \in Blocks /\ 0 \in 0 .. GenMod - 1
    BY BlockCountAssumption, GenModAssumption DEF Blocks
  <1>1. /\ stack \in Seq(Blocks) /\ Len(stack) = BlockCount /\ DOMAIN stack = 1 .. BlockCount
        /\ \A i \in 1 .. BlockCount : stack[i] = i - 1
    <2>1. stack = [i \in 1 .. BlockCount |-> i - 1] BY DEF Init
    <2>2. stack \in [1 .. BlockCount -> Blocks] BY <2>1, BlockCountAssumption DEF Blocks
    <2>3. stack \in Seq(Blocks) BY <2>2, SeqDef, BlockCountAssumption
    <2> QED BY <2>1, <2>3, LenProperties, BlockCountAssumption
  <1>2. TypeOK
    <2>1. next \in [Blocks -> Links]
      BY LinkFacts, BlockCountAssumption DEF Init, Blocks, Links
    <2> QED BY <1>0, <1>1, <2>1, LinkFacts DEF Init, TypeOK, Heads
  <1>3. LocalsOK BY DEF Init, LocalsOK
  <1>4. FreeListIntact
    <2>1. stack # <<>> /\ stack[1] = 0 BY <1>1, BlockCountAssumption, EmptySeq
    <2>2. head.idx = stack[1] BY <2>1 DEF Init
    <2>3. ASSUME NEW i \in 1 .. BlockCount
          PROVE  next[stack[i]] = IF i = BlockCount THEN NoBlock ELSE stack[i + 1]
      <3>1. i - 1 \in Blocks /\ stack[i] = i - 1 BY <1>1, BlockCountAssumption DEF Blocks
      <3>2. next[i - 1] = IF i < BlockCount THEN i ELSE NoBlock
        BY <3>1, BlockCountAssumption DEF Init
      <3> QED BY <1>1, <3>1, <3>2, BlockCountAssumption
    <2>4. IsInjective(stack) BY <1>1, BlockCountAssumption DEF IsInjective
    <2> QED BY <1>1, <2>1, <2>2, <2>3, <2>4 DEF FreeListIntact
  <1>5. Ownership
    <2>1. \A c \in Clients : Owned(c) = {} /\ held[c] = {}
      BY DEF Init, Owned, Returning
    <2>2. ASSUME NEW b \in Blocks PROVE b \in Range(stack)
      <3>1. b + 1 \in 1 .. BlockCount /\ (b + 1) - 1 = b BY BlockCountAssumption DEF Blocks
      <3> QED BY <1>1, <3>1 DEF Range
    <2> QED BY <2>1, <2>2 DEF Ownership
  <1>6. CopyOK BY DEF Init, CopyOK, InFlight
  <1> QED BY <1>2, <1>3, <1>4, <1>5, <1>6 DEF PoolInv

\* A load of pool_head gives a copy that is worth everything CopyOK asks for.
LEMMA LoadCopy ==
  ASSUME PoolInv, NEW c \in Clients, LoadHead(c), head' = head, next' = next,
         pc' \in [Clients -> {"idle", "read", "alloc", "link", "free"}], pc'[c] # "alloc",
         \A d \in Clients \ {c} : pc'[d] = pc[d] /\ link'[d] = link[d]
  PROVE  /\ old' \in [Clients -> Heads] /\ lag' \in [Clients -> 0 .. GenMod - 1]
         /\ old'[c] = head /\ \A d \in Clients \ {c} : old'[d] = old[d]
         /\ CopyOK'
  <1> USE DEF PoolInv, TypeOK, LoadHead
  <1>1. 0 \in 0 .. GenMod - 1 /\ head.gen + 0 = head.gen BY GenModAssumption DEF Heads
  <1>2. /\ old' \in [Clients -> Heads] /\ lag' \in [Clients -> 0 .. GenMod - 1]
        /\ old'[c] = head /\ lag'[c] = 0
        /\ \A d \in Clients \ {c} : old'[d] = old[d] /\ lag'[d] = lag[d]
    BY <1>1
  <1>3. ASSUME NEW d \in Clients, InFlight(d)'
        PROVE  /\ old'[d].gen + lag'[d] \in {head.gen, head.gen + GenMod}
               /\ lag'[d] = 0 => old'[d] = head
               /\ lag'[d] = 0 /\ pc'[d] = "alloc" => link'[d] = next[head.idx]
    <2>1. CASE d = c BY <1>1, <1>2, <2>1
    <2>2. CASE d # c BY <1>2, <1>3, <2>2 DEF CopyOK, InFlight
    <2> QED BY <2>1, <2>2
  <1> QED BY <1>2, <1>3 DEF CopyOK

\* A successful compare-exchange leaves every other copy one change further
\* behind, and the winner with none.
LEMMA SwingCopy ==
  ASSUME PoolInv, NEW c \in Clients, NEW i \in Links, SwingHead(c, i), Return(c)
  PROVE  /\ head' \in Heads /\ head'.idx = i
         /\ pc' \in [Clients -> {"idle", "read", "alloc", "link", "free"}]
         /\ old' \in [Clients -> Heads] /\ blk' \in [Clients -> Links]
         /\ link' \in [Clients -> Links] /\ lag' \in [Clients -> 0 .. GenMod - 1]
         /\ pc'[c] = "idle" /\ blk'[c] = NoBlock
         /\ \A d \in Clients \ {c} : pc'[d] = pc[d] /\ old'[d] = old[d] /\ blk'[d] = blk[d]
         /\ CopyOK'
  <1> USE DEF PoolInv, TypeOK, Return
  <1>1. 0 \in 0 .. GenMod - 1 /\ head.gen \in 0 .. GenMod - 1
    BY GenModAssumption DEF Heads
  <1>2. head' = [gen |-> WrapInc(head.gen), idx |-> i] BY DEF SwingHead
  <1>3. head' \in Heads BY <1>1, <1>2, WrapIncType DEF Heads
  <1>4. [gen |-> 0, idx |-> NoBlock] \in Heads BY <1>1, LinkFacts DEF Heads
  <1>5. /\ pc' \in [Clients -> {"idle", "read", "alloc", "link", "free"}]
        /\ old' \in [Clients -> Heads] /\ blk' \in [Clients -> Links]
        /\ link' \in [Clients -> Links]
        /\ pc'[c] = "idle" /\ blk'[c] = NoBlock
        /\ \A d \in Clients \ {c} : pc'[d] = pc[d] /\ old'[d] = old[d] /\ blk'[d] = blk[d]
    BY <1>4, LinkFacts
  <1>6. ASSUME NEW d \in Clients
        PROVE  /\ lag'[d] \in 0 .. GenMod - 1
               /\ d # c /\ InFlight(d) => lag'[d] = lag[d] + 1 /\ lag[d] + 1 < GenMod
    BY GenModAssumption DEF SwingHead
  <1>7. lag' \in [Clients -> 0 .. GenMod - 1] BY <1>6 DEF SwingHead
  <1>8. ASSUME NEW d \in Clients, InFlight(d)'
        PROVE  /\ old'[d].gen + lag'[d] \in {head'.gen, head'.gen + GenMod}
               /\ lag'[d] # 0
    <2>1. d # c /\ InFlight(d) BY <1>5, <1>8 DEF InFlight
    <2>2. lag'[d] = lag[d] + 1 /\ lag[d] + 1 < GenMod /\ lag[d] \in Nat BY <1>6, <2>1
    <2>3. old[d].gen \in 0 .. GenMod - 1 /\ old[d].gen + lag[d] \in {head.gen, head.gen + GenMod}
      BY <2>1 DEF CopyOK, Heads
    <2>4. old[d].gen + (lag[d] + 1) \in {WrapInc(head.gen), WrapInc(head.gen) + GenMod}
      BY <1>1, <2>2, <2>3, WrapIncLag
    <2> QED BY <1>2, <1>5, <2>1, <2>2, <2>4
  <1>9. CopyOK' BY <1>8 DEF CopyOK
  <1> QED BY <1>2, <1>3, <1>5, <1>7, <1>9

\* alloc_block's and free_block's loads and their retries.
LEMMA LoadStepInv ==
  ASSUME PoolInv, NEW c \in Clients,
         \/ AllocLoad(c) \/ AllocRetry(c) \/ FreeRetry(c)
         \/ \E b \in Blocks : FreeLoad(c, b)
  PROVE  PoolInv'
  <1> USE LinkFacts DEF PoolInv
  <1>1. CASE AllocLoad(c)
    <2> USE <1>1 DEF AllocLoad
    <2>1. /\ pc' \in [Clients -> {"idle", "read", "alloc", "link", "free"}]
          /\ pc'[c] = "read" /\ \A d \in Clients \ {c} : pc'[d] = pc[d]
      BY DEF TypeOK
    <2>2. /\ old' \in [Clients -> Heads] /\ lag' \in [Clients -> 0 .. GenMod - 1]
          /\ old'[c] = head /\ \A d \in Clients \ {c} : old'[d] = old[d]
          /\ CopyOK'
      BY <2>1, LoadCopy
    <2>3. TypeOK' BY <2>1, <2>2 DEF TypeOK
    <2>4. LocalsOK' BY <2>1, <2>2 DEF LocalsOK
    <2>5. FreeListIntact' BY DEF FreeListIntact
    <2>6. Ownership' BY DEF Ownership, Owned, Returning
    <2> QED BY <2>2, <2>3, <2>4, <2>5, <2>6
  <1>2. CASE AllocRetry(c)
    <2> USE <1>2 DEF AllocRetry
    <2>1. FreeListIntact' BY DEF FreeListIntact
    <2>2. CASE head.idx # NoBlock
      <3>1. /\ pc' \in [Clients -> {"idle", "read", "alloc", "link", "free"}]
            /\ link' \in [Clients -> Links] /\ blk' = blk
            /\ LoadHead(c) /\ pc'[c] = "read"
            /\ \A d \in Clients \ {c} : pc'[d] = pc[d] /\ link'[d] = link[d]
        BY ZenonT(30), <2>2 DEF TypeOK
      <3>2. /\ old' \in [Clients -> Heads] /\ lag' \in [Clients -> 0 .. GenMod - 1]
            /\ old'[c] = head /\ \A d \in Clients \ {c} : old'[d] = old[d]
            /\ CopyOK'
        BY <3>1, LoadCopy
      <3>3. TypeOK' BY <3>1, <3>2 DEF TypeOK
      <3>4. LocalsOK' BY <2>2, <3>1, <3>2 DEF LocalsOK
      <3>5. Ownership' BY <3>1 DEF Ownership, Owned, Returning
      <3> QED BY <2>1, <3>2, <3>3, <3>4, <3>5
    <2>3. CASE head.idx = NoBlock
      <3>1. Return(c) /\ lag' = [lag EXCEPT ![c] = 0] BY <2>3
      <3>2. blk[c] = NoBlock BY DEF LocalsOK
      <3>3. blk' = blk BY <3>1, <3>2 DEF Return, TypeOK
      <3>4. TypeOK'
        <4>1. 0 \in 0 .. GenMod - 1 BY GenModAssumption
        <4>2. [gen |-> 0, idx |-> NoBlock] \in Heads BY <4>1 DEF Heads
        <4> QED BY <3>1, <3>3, <4>1, <4>2 DEF TypeOK, Return
      <3>5. LocalsOK' BY <3>1, <3>2, <3>3 DEF LocalsOK, TypeOK, Return
      <3>6. Ownership' BY <3>3 DEF Ownership, Owned, Returning
      <3>7. CopyOK' BY <3>1 DEF CopyOK, InFlight, Return, TypeOK
      <3> QED BY <2>1, <3>4, <3>5, <3>6, <3>7
    <2> QED BY <2>2, <2>3
  <1>3. CASE FreeRetry(c)
    <2> USE <1>3 DEF FreeRetry
    <2>1. /\ pc' \in [Clients -> {"idle", "read", "alloc", "link", "free"}]
          /\ pc'[c] = "link" /\ \A d \in Clients \ {c} : pc'[d] = pc[d]
      BY DEF TypeOK
    <2>2. /\ old' \in [Clients -> Heads] /\ lag' \in [Clients -> 0 .. GenMod - 1]
          /\ old'[c] = head /\ \A d \in Clients \ {c} : old'[d] = old[d]
          /\ CopyOK'
      BY <2>1, LoadCopy
    <2>3. TypeOK' BY <2>1, <2>2 DEF TypeOK
    <2>4. LocalsOK' BY <2>1, <2>2 DEF LocalsOK
    <2>5. FreeListIntact' BY DEF FreeListIntact
    <2>6. Ownership' BY DEF Ownership, Owned, Returning
    <2> QED BY <2>2, <2>3, <2>4, <2>5, <2>6
  <1>4. ASSUME NEW b \in Blocks, FreeLoad(c, b) PROVE PoolInv'
    <2> USE <1>4 DEF FreeLoad
    <2>1. /\ pc' \in [Clients -> {"idle", "read", "alloc", "link", "free"}]
          /\ pc'[c] = "link" /\ \A d \in Clients \ {c} : pc'[d] = pc[d]
      BY DEF TypeOK
    <2>2. /\ old' \in [Clients -> Heads] /\ lag' \in [Clients -> 0 .. GenMod - 1]
          /\ old'[c] = head /\ \A d \in Clients \ {c} : old'[d] = old[d]
          /\ CopyOK'
      BY <2>1, LoadCopy
    <2>3. TypeOK' BY <2>1, <2>2 DEF TypeOK
    <2>4. /\ blk'[c] = b /\ blk[c] = NoBlock /\ held'[c] = held[c] \ {b}
          /\ \A d \in Clients \ {c} : blk'[d] = blk[d] /\ held'[d] = held[d]
      BY DEF TypeOK, LocalsOK
    <2>5. LocalsOK' BY <2>1, <2>2, <2>4 DEF LocalsOK
    <2>6. FreeListIntact' BY DEF FreeListIntact
    <2>7. \A d \in Clients : Owned(d)' = Owned(d)
      BY <2>4 DEF Owned, Returning
    <2>8. \A d \in Clients : (held[d] \cap Returning(d))' = {}
      BY <2>4 DEF Ownership, Returning
    <2>9. Ownership' BY <2>7, <2>8 DEF Ownership
    <2> QED BY <2>2, <2>3, <2>5, <2>6, <2>9
  <1> QED BY <1>1, <1>2, <1>3, <1>4

\* The read of a link by alloc_block and the write of one by free_block.
LEMMA LinkStepInv ==
  ASSUME PoolInv, NEW c \in Clients, AllocReadNext(c) \/ FreeLink(c)
  PROVE  PoolInv'
  <1> USE LinkFacts DEF PoolInv
  <1>1. CASE AllocReadNext(c)
    <2> USE <1>1 DEF AllocReadNext
    <2>1. old[c].idx \in Blocks BY DEF LocalsOK, TypeOK, Heads, Links
    <2>2. TypeOK' BY <2>1 DEF TypeOK
    <2>3. LocalsOK' BY DEF LocalsOK, TypeOK
    <2>4. FreeListIntact' BY DEF FreeListIntact
    <2>5. Ownership' BY DEF Ownership, Owned, Returning
    <2>6. CopyOK' BY DEF CopyOK, InFlight, TypeOK
    <2> QED BY <2>2, <2>3, <2>4, <2>5, <2>6
  <1>2. CASE FreeLink(c)
    <2> USE <1>2 DEF FreeLink
    <2>1. blk[c] \in Blocks /\ blk[c] \in Owned(c)
      BY DEF LocalsOK, TypeOK, Links, Owned, Returning
    <2>2. blk[c] \notin Range(stack) BY <2>1 DEF Ownership
    <2>3. /\ next'[blk[c]] = old[c].idx
          /\ \A b \in Blocks : b # blk[c] => next'[b] = next[b]
      BY <2>1 DEF TypeOK
    <2>4. TypeOK' BY <2>1 DEF TypeOK, Heads
    <2>5. ASSUME NEW d \in Clients, d # c, pc[d] = "free" PROVE blk[d] \in Blocks /\ blk[d] # blk[c]
      BY <2>1, <2>5 DEF LocalsOK, Ownership, Owned, Returning, TypeOK, Links
    <2>6. LocalsOK' BY <2>3, <2>5 DEF LocalsOK, TypeOK
    <2>7. \A i \in 1 .. Len(stack) : stack[i] \in Blocks /\ next'[stack[i]] = next[stack[i]]
      BY <2>2, <2>3, LenProperties DEF TypeOK, Range
    <2>8. FreeListIntact' BY <2>7 DEF FreeListIntact
    <2>9. Ownership' BY DEF Ownership, Owned, Returning
    <2>10. head.idx # NoBlock => next'[head.idx] = next[head.idx]
      <3> SUFFICES ASSUME head.idx # NoBlock PROVE next'[head.idx] = next[head.idx] OBVIOUS
      <3>1. stack # <<>> /\ head.idx = stack[1] BY DEF FreeListIntact
      <3>2. 1 \in 1 .. Len(stack) BY <3>1, EmptySeq DEF TypeOK
      <3> QED BY <2>7, <3>1, <3>2
    <2>11. CopyOK' BY <2>10 DEF CopyOK, InFlight, TypeOK, LocalsOK
    <2> QED BY <2>4, <2>6, <2>8, <2>9, <2>11
  <1> QED BY <1>1, <1>2

\* A successful compare-exchange of alloc_block takes the first block, and
\* nothing else, off the list: its copy is not stale, so the link it read is
\* still the link of the first block.
LEMMA AllocCasInv ==
  ASSUME PoolInv, NEW c \in Clients, AllocCas(c)
  PROVE  /\ PoolInv'
         /\ \E b \in Range(stack) : Range(stack)' = Range(stack) \ {b}
  <1> USE LinkFacts DEF PoolInv, AllocCas
  <1>1. InFlight(c) /\ head = old[c] BY DEF InFlight, SwingHead
  <1>2. lag[c] = 0 BY <1>1, CopyFresh
  <1>3. link[c] = next[head.idx] /\ head.idx # NoBlock /\ blk[c] = NoBlock
    BY <1>1, <1>2 DEF CopyOK, LocalsOK
  <1>4. /\ stack \in Seq(Blocks) /\ stack # <<>> /\ IsInjective(stack)
        /\ head.idx = stack[1] /\ Len(stack) \in Nat \ {0}
    BY <1>3, EmptySeq DEF FreeListIntact, TypeOK
  <1>5. /\ Tail(stack) \in Seq(Blocks) /\ IsInjective(Tail(stack))
        /\ Len(Tail(stack)) = Len(stack) - 1
        /\ \A i \in 1 .. Len(Tail(stack)) : Tail(stack)[i] = stack[i + 1]
        /\ stack[1] \in Range(stack) /\ stack[1] \in Blocks
        /\ Range(Tail(stack)) = Range(stack) \ {stack[1]}
    BY <1>4, PopStack
  <1>6. link[c] \in Links BY DEF TypeOK
  <1>7. /\ head' \in Heads /\ head'.idx = link[c]
        /\ pc' \in [Clients -> {"idle", "read", "alloc", "link", "free"}]
        /\ old' \in [Clients -> Heads] /\ blk' \in [Clients -> Links]
        /\ link' \in [Clients -> Links] /\ lag' \in [Clients -> 0 .. GenMod - 1]
        /\ pc'[c] = "idle" /\ blk'[c] = NoBlock
        /\ \A d \in Clients \ {c} : pc'[d] = pc[d] /\ old'[d] = old[d] /\ blk'[d] = blk[d]
        /\ CopyOK'
    BY <1>6, SwingCopy
  <1>8. /\ held' \in [Clients -> SUBSET Blocks] /\ held'[c] = held[c] \cup {stack[1]}
        /\ \A d \in Clients \ {c} : held'[d] = held[d]
    BY <1>1, <1>4, <1>5 DEF TypeOK
  <1>9. TypeOK' BY <1>5, <1>7, <1>8 DEF TypeOK
  <1>10. LocalsOK' BY SMTT(30), <1>7 DEF LocalsOK
  <1>11. FreeListIntact'
    <2>0. 1 \in 1 .. Len(stack) /\ 1 + 1 = 2 BY <1>4
    <2>1. next[stack[1]] = IF Len(stack) = 1 THEN NoBlock ELSE stack[2]
      <3>1. next[stack[1]] = IF 1 = Len(stack) THEN NoBlock ELSE stack[1 + 1]
        BY <2>0 DEF FreeListIntact
      <3> QED BY <2>0, <3>1
    <2>2. CASE Len(stack) = 1
      <3>1. Tail(stack) = <<>> BY <1>5, <2>2, EmptySeq
      <3>2. Len(Tail(stack)) = 0 BY <1>5, <2>2
      <3> QED BY <1>3, <1>4, <1>5, <1>7, <2>1, <2>2, <3>1, <3>2 DEF FreeListIntact
    <2>3. CASE Len(stack) # 1
      <3>0. Len(Tail(stack)) \in Nat \ {0}
        <4>1. Len(stack) \in Nat \ {0, 1} BY <1>4, <2>3
        <4> QED BY <1>5, <4>1
      <3>1. Tail(stack) # <<>> /\ 1 \in 1 .. Len(Tail(stack))
        <4>1. Len(<<>>) = 0 /\ Len(Tail(stack)) # 0 BY <3>0, EmptySeq
        <4>2. Tail(stack) # <<>> BY <4>1, Zenon
        <4> QED BY <3>0, <4>2
      <3>2. Tail(stack)[1] = stack[2] BY <1>5, <3>1
      <3>3. head'.idx = Tail(stack)[1] BY <1>3, <1>4, <1>7, <2>1, <2>3, <3>2
      <3>4. ASSUME NEW i \in 1 .. Len(Tail(stack))
            PROVE  next[Tail(stack)[i]] =
                     IF i = Len(Tail(stack)) THEN NoBlock ELSE Tail(stack)[i + 1]
        <4>0. Len(stack) \in Nat \ {0} /\ Len(Tail(stack)) = Len(stack) - 1 BY <1>4, <1>5
        <4>1. i + 1 \in 1 .. Len(stack) /\ (i + 1 = Len(stack) <=> i = Len(Tail(stack)))
          BY <3>0, <4>0
        <4>2. next[stack[i + 1]] = IF i + 1 = Len(stack) THEN NoBlock ELSE stack[(i + 1) + 1]
          BY <4>1 DEF FreeListIntact
        <4>3. i # Len(Tail(stack)) => Tail(stack)[i + 1] = stack[(i + 1) + 1]
          <5>1. i # Len(Tail(stack)) => i + 1 \in 1 .. Len(Tail(stack)) BY <3>0
          <5> QED BY <1>5, <5>1
        <4> QED BY <1>5, <4>1, <4>2, <4>3
      <3> QED BY <1>5, <3>1, <3>3, <3>4 DEF FreeListIntact
    <2> QED BY <2>2, <2>3
  <1>12. Ownership'
    <2>1. Owned(c)' = Owned(c) \cup {stack[1]} /\ Returning(c)' = {}
      BY <1>3, <1>7, <1>8 DEF Owned, Returning
    <2>2. \A d \in Clients \ {c} : Owned(d)' = Owned(d) /\ Returning(d)' = Returning(d)
      BY <1>7, <1>8 DEF Owned, Returning
    <2>3. \A d \in Clients : stack[1] \notin Owned(d) BY <1>5 DEF Ownership
    <2>4. \A d \in Clients : (held[d] \cap Returning(d))' = {}
      BY <1>8, <2>1, <2>2 DEF Ownership
    <2>5. \A d, e \in Clients : d # e => (Owned(d) \cap Owned(e))' = {}
      BY <2>1, <2>2, <2>3 DEF Ownership
    <2>6. \A b \in Blocks : b \in Range(Tail(stack)) <=> \A d \in Clients : b \notin Owned(d)'
      BY <1>5, <2>1, <2>2 DEF Ownership
    <2> QED BY <2>4, <2>5, <2>6 DEF Ownership
  <1> QED BY <1>5, <1>7, <1>9, <1>10, <1>11, <1>12

\* A successful compare-exchange of free_block puts its block first.
LEMMA FreeCasInv ==
  ASSUME PoolInv, NEW c \in Clients, FreeCas(c)
  PROVE  /\ PoolInv'
         /\ \E b \in Blocks \ Range(stack) : Range(stack)' = Range(stack) \cup {b}
  <1> USE LinkFacts DEF PoolInv, FreeCas
  <1>1. /\ head = old[c] /\ blk[c] \in Blocks /\ Owned(c) = held[c] \cup {blk[c]}
        /\ next[blk[c]] = head.idx
    BY DEF SwingHead, LocalsOK, TypeOK, Links, Owned, Returning
  <1>2. blk[c] \in Blocks \ Range(stack) BY <1>1 DEF Ownership
  <1>3. stack \in Seq(Blocks) /\ IsInjective(stack) /\ Len(stack) \in Nat
    BY LenProperties DEF TypeOK, FreeListIntact
  <1>4. /\ stack' \in Seq(Blocks) /\ IsInjective(stack') /\ stack' # <<>>
        /\ Len(stack') = Len(stack) + 1 /\ stack'[1] = blk[c]
        /\ \A i \in 1 .. Len(stack) : stack'[i + 1] = stack[i]
        /\ Range(stack') = Range(stack) \cup {blk[c]}
    BY <1>2, <1>3, PushStack
  <1>5. blk[c] \in Links BY <1>1
  <1>6. /\ head' \in Heads /\ head'.idx = blk[c]
        /\ pc' \in [Clients -> {"idle", "read", "alloc", "link", "free"}]
        /\ old' \in [Clients -> Heads] /\ blk' \in [Clients -> Links]
        /\ link' \in [Clients -> Links] /\ lag' \in [Clients -> 0 .. GenMod - 1]
        /\ pc'[c] = "idle" /\ blk'[c] = NoBlock
        /\ \A d \in Clients \ {c} : pc'[d] = pc[d] /\ old'[d] = old[d] /\ blk'[d] = blk[d]
        /\ CopyOK'
    BY <1>5, SwingCopy
  <1>7. TypeOK' BY <1>4, <1>6 DEF TypeOK
  <1>8. LocalsOK' BY <1>6 DEF LocalsOK
  <1>9. FreeListIntact'
    <2>1. ASSUME NEW i \in 1 .. Len(stack')
          PROVE  next[stack'[i]] = IF i = Len(stack') THEN NoBlock ELSE stack'[i + 1]
      <3>1. CASE i = 1
        <4>1. CASE stack = <<>>
          <5>1. Len(stack) = 0 /\ head.idx = NoBlock BY <4>1 DEF FreeListIntact
          <5> QED BY <1>1, <1>4, <3>1, <5>1
        <4>2. CASE stack # <<>>
          <5>1. Len(stack) \in Nat \ {0} /\ head.idx = stack[1]
            BY <1>3, <4>2, EmptySeq DEF FreeListIntact
          <5>2. stack'[2] = stack[1] BY <1>4, <5>1
          <5> QED BY <1>1, <1>4, <3>1, <5>1, <5>2
        <4> QED BY <4>1, <4>2
      <3>2. CASE i # 1
        <4>1. /\ i - 1 \in 1 .. Len(stack) /\ (i - 1) + 1 = i
              /\ i - 1 = Len(stack) <=> i = Len(stack')
          BY <1>3, <1>4, <3>2
        <4>2. stack'[i] = stack[i - 1] BY <1>4, <4>1
        <4>3. next[stack[i - 1]] = IF i - 1 = Len(stack) THEN NoBlock ELSE stack[i]
          BY <4>1 DEF FreeListIntact
        <4>4. i # Len(stack') => i \in 1 .. Len(stack) BY <1>3, <1>4
        <4>5. i # Len(stack') => stack'[i + 1] = stack[i] BY <1>4, <4>4
        <4> QED BY <4>1, <4>2, <4>3, <4>5
      <3> QED BY <3>1, <3>2
    <2> QED BY <1>4, <1>6, <2>1 DEF FreeListIntact
  <1>10. Ownership'
    <2>1. Owned(c)' = held[c] /\ Returning(c)' = {} BY <1>6 DEF Owned, Returning
    <2>2. \A d \in Clients \ {c} : Owned(d)' = Owned(d) /\ Returning(d)' = Returning(d)
      BY <1>6 DEF Owned, Returning
    <2>3. blk[c] \notin held[c] BY <1>1 DEF Ownership, Returning
    <2>4. \A d \in Clients : (held[d] \cap Returning(d))' = {}
      BY <2>1, <2>2 DEF Ownership
    <2>5. \A d, e \in Clients : d # e => (Owned(d) \cap Owned(e))' = {}
      BY <1>1, <2>1, <2>2 DEF Ownership
    <2>6. ASSUME NEW b \in Blocks
          PROVE  b \in Range(stack') <=> \A d \in Clients : b \notin Owned(d)'
      <3>1. CASE b = blk[c]
        <4>1. \A d \in Clients \ {c} : b \notin Owned(d) BY <1>1, <3>1 DEF Ownership
        <4> QED BY SMTT(30), <1>4, <2>1, <2>2, <2>3, <3>1, <4>1
      <3>2. CASE b # blk[c]
        <4>1. b \in Range(stack') <=> b \in Range(stack) BY <1>4, <3>2
        <4>2. \A d \in Clients : b \in Owned(d)' <=> b \in Owned(d)
          BY <1>1, <2>1, <2>2, <3>2
        <4> QED BY <4>1, <4>2 DEF Ownership
      <3> QED BY <3>1, <3>2
    <2> QED BY <2>4, <2>5, <2>6 DEF Ownership
  <1> QED BY <1>2, <1>4, <1>6, <1>7, <1>8, <1>9, <1>10

LEMMA NextInv == PoolInv /\ [Next]_vars => PoolInv'
  <1> SUFFICES ASSUME PoolInv, [Next]_vars PROVE PoolInv' OBVIOUS
  <1>1. ASSUME NEW c \in Clients,
               \/ AllocLoad(c) \/ AllocReadNext(c) \/ AllocCas(c) \/ AllocRetry(c)
               \/ \E b \in Blocks : FreeLoad(c, b)
               \/ FreeLink(c) \/ FreeCas(c) \/ FreeRetry(c)
        PROVE  PoolInv'
    BY <1>1, LoadStepInv, LinkStepInv, AllocCasInv, FreeCasInv
  <1>2. CASE UNCHANGED vars
    BY <1>2 DEF vars, PoolInv, TypeOK, LocalsOK, FreeListIntact, Ownership, Owned, Returning,
                CopyOK, InFlight
  <1> QED BY <1>1, <1>2 DEF Next

LEMMA InvAlways == Spec => []PoolInv
  BY InitInv, NextInv, PTL DEF Spec


(***************************************************************************)
(* The list in shared memory and the stack hold the same blocks.           *)
(***************************************************************************)

\* A non-empty set of naturals has a least element.  (By the well-founded
\* order of the intervals 1 .. n by inclusion.)
LEMMA LeastNatural ==
  ASSUME NEW T, T \subseteq Nat, T # {}
  PROVE  \E n \in T : \A k \in T : n <= k
  <1> DEFINE I == {1 .. n : n \in T}
  <1>1. I # {} OBVIOUS
  <1>2. I \subseteq FiniteSubsetsOf(Nat)
    <2> SUFFICES ASSUME NEW n \in T PROVE 1 .. n \in FiniteSubsetsOf(Nat) OBVIOUS
    <2>1. IsFiniteSet(1 .. n) BY FS_Interval
    <2> QED BY <2>1 DEF FiniteSubsetsOf
  <1>3. IsWellFoundedOn(StrictSubsetOrdering(Nat), FiniteSubsetsOf(Nat))
    BY FS_StrictSubsetOrderingWellFounded
  <1> HIDE DEF I
  <1>4. PICK J \in I : \A K \in I : ~ (<<K, J>> \in StrictSubsetOrdering(Nat))
    BY <1>1, <1>2, <1>3, WFMin
  <1>5. PICK n \in T : J = 1 .. n BY DEF I
  <1>6. ASSUME NEW k \in T PROVE n <= k
    <2>1. SUFFICES ASSUME k < n PROVE FALSE BY <1>6
    <2>2. 1 .. k \in I BY DEF I
    <2>3. n \in 1 .. n /\ n \notin 1 .. k /\ 1 .. k \subseteq 1 .. n BY <2>1
    <2>4. 1 .. k \in SUBSET Nat /\ 1 .. n \in SUBSET Nat OBVIOUS
    <2>5. <<1 .. k, 1 .. n>> \in StrictSubsetOrdering(Nat)
      BY <2>3, <2>4 DEF StrictSubsetOrdering
    <2> QED BY <1>4, <1>5, <2>2, <2>5
  <1> QED BY <1>6

\* Following the links from pool_head reaches the blocks of the stack and no
\* other: every closed set has them all, by induction along the list.
LEMMA ListIsStack ==
  ASSUME TypeOK, FreeListIntact
  PROVE  OnList = Range(stack)
  <1>1. /\ Len(stack) \in Nat /\ DOMAIN stack = 1 .. Len(stack)
        /\ \A i \in 1 .. Len(stack) : stack[i] \in Blocks
    BY LenProperties, ElementOfSeq DEF TypeOK
  <1>2. Range(stack) \in SUBSET Blocks BY <1>1 DEF Range
  <1>3. Chain(Range(stack))
    <2>1. head.idx \in Range(stack) \cup {NoBlock}
      <3>1. CASE stack = <<>> BY <3>1 DEF FreeListIntact
      <3>2. CASE stack # <<>>
        <4>1. 1 \in 1 .. Len(stack) BY <1>1, <3>2, EmptySeq DEF TypeOK
        <4> QED BY <1>1, <3>2, <4>1 DEF FreeListIntact, Range
      <3> QED BY <3>1, <3>2
    <2>2. ASSUME NEW b \in Range(stack) PROVE next[b] \in Range(stack) \cup {NoBlock}
      <3>1. PICK i \in 1 .. Len(stack) : b = stack[i] BY <1>1 DEF Range
      <3>2. i # Len(stack) => i + 1 \in 1 .. Len(stack)
        <4>1. Len(stack) \in Nat BY <1>1
        <4> QED BY <4>1
      <3>3. next[b] = IF i = Len(stack) THEN NoBlock ELSE stack[i + 1]
        BY <3>1 DEF FreeListIntact
      <3> QED BY <1>1, <3>2, <3>3 DEF Range
    <2> QED BY <2>1, <2>2 DEF Chain
  <1>4. ASSUME NEW S \in SUBSET Blocks, Chain(S), NEW b \in Range(stack)
        PROVE  b \in S
    <2> DEFINE T == {i \in 1 .. Len(stack) : stack[i] \notin S}
    <2>1. SUFFICES ASSUME T # {} PROVE FALSE BY <1>1, <1>4 DEF Range
    <2>2. T \subseteq Nat BY <1>1
    <2> HIDE DEF T
    <2>3. PICK n \in T : \A k \in T : n <= k BY <2>1, <2>2, LeastNatural
    <2>4. n \in 1 .. Len(stack) /\ stack[n] \notin S BY DEF T
    <2>5. n # 1
      <3> SUFFICES ASSUME n = 1 PROVE FALSE OBVIOUS
      <3>1. stack # <<>>
        <4>1. Len(<<>>) = 0 BY EmptySeq
        <4> QED BY <1>1, <2>4, <4>1
      <3>2. head.idx = stack[1] BY <3>1 DEF FreeListIntact
      <3>3. stack[1] \in Blocks BY <1>1, <2>4
      <3> QED BY <1>4, <2>4, <3>2, <3>3, LinkFacts DEF Chain
    <2>6. n - 1 \in 1 .. Len(stack) /\ n - 1 # Len(stack) /\ (n - 1) + 1 = n /\ ~ (n <= n - 1)
      BY <1>1, <2>4, <2>5
    <2>7. stack[n - 1] \in S BY <2>2, <2>3, <2>6 DEF T
    <2>8. next[stack[n - 1]] = stack[n] BY <2>6 DEF FreeListIntact
    <2>9. stack[n] \in Blocks BY <1>1, <2>4
    <2> QED BY <1>4, <2>4, <2>7, <2>8, <2>9, LinkFacts DEF Chain
  <1>5. OnList \subseteq Range(stack) BY <1>2, <1>3 DEF OnList
  <1>6. Range(stack) \subseteq OnList BY <1>2, <1>4 DEF OnList
  <1> QED BY <1>5, <1>6

LEMMA PoolList == PoolInv => OnList = Range(stack)
  BY ListIsStack DEF PoolInv

(***************************************************************************)
(* Results.                                                                *)
(***************************************************************************)

\* Type correctness of the pool's shared words and of every client's locals;
\* in particular the generation and the lag stay within the counter's width.
THEOREM TypeCorrect == Spec => []TypeOK
  BY InvAlways, PTL DEF PoolInv

\* The free list is never damaged, whatever alloc_block and free_block calls
\* are between their load of pool_head and their compare-exchange.
THEOREM ListIntact == Spec => []FreeListIntact
  BY InvAlways, PTL DEF PoolInv

\* alloc_block never hands one block to two clients and no block is lost: each
\* one can be reached from pool_head or is with exactly one client.
THEOREM Exclusive == Spec => []ExclusiveAllocation
  <1>1. PoolInv => ExclusiveAllocation
    <2> SUFFICES ASSUME PoolInv PROVE ExclusiveAllocation OBVIOUS
    <2>1. OnList = Range(stack) BY PoolList
    <2>2. Range(stack) \in SUBSET Blocks BY RangeOfSeq DEF PoolInv, TypeOK
    <2>3. Range(stack) = Blocks \ UNION {held[c] \cup Returning(c) : c \in Clients}
      BY <2>2 DEF PoolInv, Ownership, Owned
    <2> QED BY <2>1, <2>3 DEF PoolInv, Ownership, Owned, ExclusiveAllocation
  <1> QED BY <1>1, InvAlways, PTL

\* The lock-free list implements the abstract pool of BlockPool: initially all
\* blocks are free, and every step of every client takes one free block, gives
\* one block back, or leaves the set of free blocks alone.
THEOREM PoolRefinement == Spec => ImplementsPool
  <1>1. Init => Pool!Init
    <2> SUFFICES ASSUME Init PROVE OnList = Blocks BY DEF Pool!Init
    <2>1. PoolInv BY InitInv
    <2>2. OnList = Range(stack) /\ Range(stack) \in SUBSET Blocks
      BY <2>1, PoolList, RangeOfSeq DEF PoolInv, TypeOK
    <2>3. \A c \in Clients : Owned(c) = {} BY DEF Init, Owned, Returning
    <2> QED BY <2>1, <2>2, <2>3 DEF PoolInv, Ownership
  <1>2. PoolInv' => (OnList = Range(stack))' BY PoolList, PTL
  <1>3. PoolInv /\ PoolInv' /\ [Next]_vars => [Pool!Next]_OnList
    <2> SUFFICES ASSUME PoolInv, PoolInv', [Next]_vars,
                        OnList = Range(stack), OnList' = Range(stack)'
                 PROVE  [Pool!Next]_OnList
      BY <1>2, PoolList
    <2>1. ASSUME NEW c \in Clients, AllocCas(c) PROVE Pool!Next
      <3>1. PICK b \in Range(stack) : Range(stack)' = Range(stack) \ {b}
        BY <2>1, AllocCasInv
      <3>2. b \in Blocks BY RangeOfSeq DEF PoolInv, TypeOK
      <3> QED BY <3>1, <3>2 DEF Pool!Next, Pool!Take
    <2>2. ASSUME NEW c \in Clients, FreeCas(c) PROVE Pool!Next
      <3>1. PICK b \in Blocks \ Range(stack) : Range(stack)' = Range(stack) \cup {b}
        BY <2>2, FreeCasInv
      <3> QED BY <3>1 DEF Pool!Next, Pool!Give
    <2>3. ASSUME NEW c \in Clients,
                 \/ AllocLoad(c) \/ AllocReadNext(c) \/ AllocRetry(c)
                 \/ \E b \in Blocks : FreeLoad(c, b)
                 \/ FreeLink(c) \/ FreeRetry(c)
          PROVE  stack' = stack
      BY <2>3 DEF AllocLoad, AllocReadNext, AllocRetry, FreeLoad, FreeLink, FreeRetry
    <2>4. CASE stack' = stack BY <2>4 DEF Range
    <2>5. CASE UNCHANGED vars BY <2>4, <2>5 DEF vars
    <2> QED BY <2>1, <2>2, <2>3, <2>4, <2>5 DEF Next
  <1> QED BY <1>1, <1>3, InvAlways, PTL DEF Spec, ImplementsPool, Pool!Spec

=============================================================================
