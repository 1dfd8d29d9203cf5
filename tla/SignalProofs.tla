---------------------------- MODULE SignalProofs ----------------------------
(***************************************************************************)
(* Proofs about Signal, for any set of signals and deadlines and any depth *)
(* of handlers: the saved stacks, the handlers on the user stack and the   *)
(* references to the frames always fit together, a sleep keeps its         *)
(* deadline, and no signal that could be delivered stays behind.           *)
(***************************************************************************)
EXTENDS Signal, ListLemmas

-----------------------------------------------------------------------------
(* The inductive invariant.                                                *)

\* Saved stacks and user stack: what HandlerStack says, with its count of the
\* pending signals as "no signal is saved twice".
Nested(k) ==
  /\ k.sig \cap k.pending = {}
  /\ k.pending = {k.sigstack[i].sig : i \in 1 .. Len(k.sigstack)}
  /\ \A i, j \in 1 .. Len(k.sigstack) :
       k.sigstack[i].sig = k.sigstack[j].sig => i = j
  /\ \A i \in 1 .. Len(k.sigstack) : i <= Len(k.ctx) =>
       /\ k.sigstack[i].sig = k.ctx[Len(k.ctx) - i + 1].sig
       /\ k.sigstack[i].ctx = SubSeq(k.ctx, 1, Len(k.ctx) - i)

\* Some saved stack is in frame p.
Saved(k, p) == \E i \in 1 .. Len(k.sigstack) : k.sigstack[i].stack = p

\* What StackFramesExact says: no frame holds two saved stacks
FramesCounted(k) ==
  /\ \A i, j \in 1 .. Len(k.sigstack) :
       k.sigstack[i].stack = k.sigstack[j].stack => i = j
  /\ \A p \in Stacks :
       k.ref[p] = (IF k.mapped = p THEN 1 ELSE 0) + (IF Saved(k, p) THEN 1 ELSE 0)

\* The call saved with a stack finds its own deadline.
SleepsSaved(k) ==
  \A i \in 1 .. Len(k.sigstack) :
    k.sigstack[i].call # NoCall => k.sigstack[i].sleep \in {0, k.sigstack[i].call}

Good(k) == k \in SignalStates /\ Nested(k) /\ FramesCounted(k) /\ SleepsSaved(k)

\* The kernel stack the task is on, and the call it is in
Modes ==
  /\ mode \in {"user", "blocked", "signals"} => kstack = 1
  /\ mode = "user" => call = NoCall

IndInv ==
  /\ TypeOK
  /\ Good(sg)
  /\ Modes
  /\ SleepRestored
  /\ LeftoverExplained
  /\ panic \notin {"sigstack", "pop_stack", "page_insert"}

-----------------------------------------------------------------------------
(* The operators on the signal state.                                      *)

\* The bits of the mask are at most as many as the signals.
LEMMA BitsFinite ==
  /\ IsFiniteSet(Bits) /\ Bits \subseteq 0 .. 31
  /\ Cardinality(Bits) \in Nat /\ Cardinality(Signals) \in Nat
  /\ Cardinality(Bits) <= Cardinality(Signals)
  /\ IsFiniteSet(Stacks) /\ Cardinality(Stacks) = Cardinality(Signals) + 1
PROOF
  <1>1. IsFiniteSet(Signals) /\ Signals \subseteq 0 .. 32
    BY SignalAssumption
  <1>2. \A s \in Signals : Bit(s) \in 0 .. 31
    BY <1>1 DEF Bit
  <1>3. Bits \subseteq 0 .. 31
    BY <1>2 DEF Bits
  <1>4. Cardinality(Signals) \in Nat
    BY <1>1, FS_CardinalityType
  <1>5. IsFiniteSet(Bits) /\ Cardinality(Bits) <= Cardinality(Signals)
    <2> DEFINE f == [s \in Signals |-> Bit(s)]
    <2>1. f \in Surjection(Signals, Bits)
      BY DEF Surjection, Bits
    <2> QED
      BY <1>1, <2>1, FS_Surjection
  <1>6. Cardinality(Bits) \in Nat
    BY <1>5, FS_CardinalityType
  <1>7. IsFiniteSet(Stacks) /\ Cardinality(Stacks) = Cardinality(Signals) + 1
    BY <1>4, FS_Interval DEF Stacks
  <1> QED
    BY <1>3, <1>4, <1>5, <1>6, <1>7

\* A kernel stack with no handler on it is in order.
LEMMA ClearedGood ==
  ASSUME NEW c \in Seq(Frames), NEW d \in Calls
  PROVE  /\ Good(Cleared(c, d))
         /\ Cleared(c, d).sig = {} /\ Cleared(c, d).sleep = d
PROOF
  <1>1. Cleared(c, d) \in SignalStates
    BY DEF Cleared, SignalStates
  <1>2. /\ Cleared(c, d).sigstack = <<>> /\ Cleared(c, d).sig = {}
        /\ Cleared(c, d).pending = {} /\ Cleared(c, d).mapped = 0
        /\ Cleared(c, d).ref = [p \in Stacks |-> 0]
        /\ Cleared(c, d).sleep = d
    BY DEF Cleared
  <1>3. 1 .. Len(Cleared(c, d).sigstack) = {}
    BY <1>2
  <1>4. \A p \in Stacks : p # 0
    BY BitsFinite DEF Stacks
  <1>5. Nested(Cleared(c, d)) /\ SleepsSaved(Cleared(c, d))
    BY <1>2, <1>3 DEF Nested, SleepsSaved
  <1>6. FramesCounted(Cleared(c, d))
    BY <1>2, <1>3, <1>4 DEF FramesCounted, Saved
  <1> QED
    BY <1>1, <1>2, <1>5, <1>6 DEF Good

\* A signal is sent, or the loop takes it.
LEMMA SigGood ==
  ASSUME NEW k, Good(k), NEW S \in SUBSET Bits, S \cap k.pending = {}
  PROVE  Good([k EXCEPT !.sig = S]) /\ [k EXCEPT !.sig = S].sig = S
         /\ [k EXCEPT !.sig = S].sleep = k.sleep
PROOF
  <1> DEFINE h == [k EXCEPT !.sig = S]
  <1>1. /\ h \in SignalStates /\ h.sig = S /\ h.pending = k.pending
        /\ h.ctx = k.ctx /\ h.sigstack = k.sigstack /\ h.sleep = k.sleep
        /\ h.mapped = k.mapped /\ h.ref = k.ref
    BY DEF Good, SignalStates
  <1> HIDE DEF h
  <1>2. Nested(h)
    BY <1>1 DEF Good, Nested
  <1>3. FramesCounted(h) /\ SleepsSaved(h)
    BY <1>1 DEF Good, FramesCounted, Saved, SleepsSaved
  <1> QED
    BY <1>1, <1>2, <1>3 DEF Good, h

\* Another deadline keeps a kernel stack in order.
LEMMA SleepGood ==
  ASSUME NEW k, Good(k), NEW d \in Calls
  PROVE  Good([k EXCEPT !.sleep = d]) /\ [k EXCEPT !.sleep = d].sig = k.sig
         /\ [k EXCEPT !.sleep = d].sleep = d
PROOF
  <1> DEFINE h == [k EXCEPT !.sleep = d]
  <1>1. /\ h \in SignalStates /\ h.sig = k.sig /\ h.pending = k.pending
        /\ h.ctx = k.ctx /\ h.sigstack = k.sigstack /\ h.sleep = d
        /\ h.mapped = k.mapped /\ h.ref = k.ref
    BY DEF Good, SignalStates
  <1> HIDE DEF h
  <1>2. Nested(h)
    BY <1>1 DEF Good, Nested
  <1>3. FramesCounted(h) /\ SleepsSaved(h)
    BY <1>1 DEF Good, FramesCounted, Saved, SleepsSaved
  <1> QED
    BY <1>1, <1>2, <1>3 DEF Good, h

\* exec: without a user context there is nothing to compare.
LEMMA CtxGood ==
  ASSUME NEW k, Good(k)
  PROVE  Good([k EXCEPT !.ctx = <<>>]) /\ [k EXCEPT !.ctx = <<>>].sig = k.sig
         /\ [k EXCEPT !.ctx = <<>>].sleep = k.sleep
PROOF
  <1> DEFINE h == [k EXCEPT !.ctx = <<>>]
  <1>1. /\ h \in SignalStates /\ h.sig = k.sig /\ h.pending = k.pending
        /\ h.ctx = <<>> /\ h.sigstack = k.sigstack /\ h.sleep = k.sleep
        /\ h.mapped = k.mapped /\ h.ref = k.ref
    BY EmptySeq DEF Good, SignalStates
  <1> HIDE DEF h
  <1>2. \A i \in 1 .. Len(h.sigstack) : ~(i <= Len(h.ctx))
    BY <1>1 DEF SignalStates
  <1>3. Nested(h)
    BY <1>1, <1>2 DEF Good, Nested
  <1>4. FramesCounted(h) /\ SleepsSaved(h)
    BY <1>1 DEF Good, FramesCounted, Saved, SleepsSaved
  <1> QED
    BY <1>1, <1>3, <1>4 DEF Good, h

\* Fewer stacks are saved than there are signals, so that a frame is free for
\* one more.
LEMMA NewStackFree ==
  ASSUME NEW k, Good(k), NEW b \in k.sig
  PROVE  NewStack(k) \in Stacks /\ k.ref[NewStack(k)] = 0
PROOF
  <1>1. /\ k.sigstack \in Seq(Records) /\ k.pending \in SUBSET Bits
        /\ b \in Bits /\ b \notin k.pending
    BY DEF Good, Nested, SignalStates
  <1>2. Len(k.sigstack) \in Nat
    BY <1>1
  <1> DEFINE n == Len(k.sigstack)
             used == {k.mapped} \cup {k.sigstack[i].stack : i \in 1 .. n}
  <1>3. /\ IsFiniteSet(k.pending) /\ Cardinality(k.pending) \in Nat
        /\ Cardinality(k.pending) < Cardinality(Bits)
    <2>1. IsFiniteSet(k.pending \cup {b}) /\ IsFiniteSet(k.pending)
      BY <1>1, BitsFinite, FS_Subset
    <2>2. Cardinality(k.pending \cup {b}) <= Cardinality(Bits)
      BY <1>1, BitsFinite, FS_Subset
    <2>3. Cardinality(k.pending \cup {b}) = Cardinality(k.pending) + 1
      BY <1>1, <2>1, FS_AddElement
    <2>4. Cardinality(k.pending) \in Nat
      BY <2>1, FS_CardinalityType
    <2> QED
      BY <2>1, <2>2, <2>3, <2>4, BitsFinite
  <1>4. Cardinality(k.pending) = n
    <2> DEFINE f == [i \in 1 .. n |-> k.sigstack[i].sig]
    <2>1. f \in Bijection(1 .. n, k.pending)
      BY DEF Good, Nested, Bijection, Injection, Surjection, IsInjective
    <2>2. IsFiniteSet(1 .. n) /\ Cardinality(1 .. n) = n
      BY <1>2, IndexCount
    <2>3. ExistsBijection(1 .. n, k.pending)
      BY <2>1 DEF ExistsBijection
    <2> QED
      BY <2>2, <2>3, FS_Bijection
  <1>5. IsFiniteSet(used) /\ Cardinality(used) <= n + 1
    <2> DEFINE g == [i \in 0 .. n |-> IF i = 0 THEN k.mapped ELSE k.sigstack[i].stack]
    <2>1. g \in Surjection(0 .. n, used)
      <3>1. \A i \in 1 .. n : i \in 0 .. n /\ g[i] = k.sigstack[i].stack
        BY <1>2
      <3>2. 0 \in 0 .. n /\ g[0] = k.mapped
        BY <1>2
      <3>3. \A i \in 0 .. n : i # 0 => i \in 1 .. n
        BY <1>2
      <3>4. g \in [0 .. n -> used]
        BY <3>3
      <3>5. \A u \in used : \E i \in 0 .. n : g[i] = u
        BY <3>1, <3>2
      <3> QED
        BY <3>4, <3>5 DEF Surjection
    <2>2. IsFiniteSet(0 .. n) /\ Cardinality(0 .. n) = n + 1
      BY <1>2, FS_Interval, SMTT(30)
    <2> QED
      BY <2>1, <2>2, FS_Surjection
  <1>6. ~(Stacks \subseteq used)
    <2>1. ASSUME Stacks \subseteq used PROVE FALSE
      <3>1. Cardinality(Stacks) <= Cardinality(used)
        BY <2>1, <1>5, FS_Subset
      <3>2. Cardinality(used) \in Nat
        BY <1>5, FS_CardinalityType
      <3> QED
        BY <3>1, <3>2, <1>2, <1>3, <1>4, <1>5, BitsFinite
    <2> QED
      BY <2>1
  <1>7. PICK p \in Stacks : p \notin used
    BY <1>6
  <1>8. k.ref[p] = 0
    <2>1. k.mapped # p /\ ~Saved(k, p)
      BY <1>7 DEF Saved
    <2> QED
      BY <2>1 DEF Good, FramesCounted
  <1> QED
    BY <1>8 DEF NewStack

\* A handler is started: its record is the first of sigstack.
LEMMA PushGood ==
  ASSUME NEW k, Good(k), NEW b \in k.sig, act[b] \in {"handler", "bad"},
         call \in Calls, call # NoCall => k.sleep \in {0, call}
  PROVE  /\ Good(start_handler(k, b))
         /\ start_handler(k, b).sig = k.sig \ {b}
         /\ start_handler(k, b).sleep = k.sleep
PROOF
  <1> DEFINE p == NewStack(k)
             r == [sig |-> b, ctx |-> k.ctx, call |-> call,
                   sleep |-> k.sleep, stack |-> p]
             f == [sig |-> b, code |-> act[b]]
             h == start_handler(k, b)
             n == Len(k.sigstack)
  <1>1. p \in Stacks /\ k.ref[p] = 0
    BY NewStackFree
  <1>2. /\ k.sigstack \in Seq(Records) /\ k.pending \in SUBSET Bits
        /\ k.sig \in SUBSET Bits /\ k.ctx \in Seq(Frames) /\ k.sleep \in Calls
        /\ k.mapped \in {0} \cup Stacks /\ k.ref \in [Stacks -> 0 .. 2]
        /\ b \in Bits /\ b \notin k.pending
    BY DEF Good, Nested, SignalStates
  <1>3. r \in Records /\ f \in Frames
    BY <1>1, <1>2 DEF Records, Frames
  <1>4. /\ h.sig = k.sig \ {b} /\ h.pending = k.pending \cup {b}
        /\ h.ctx = Append(k.ctx, f) /\ h.sigstack = <<r>> \o k.sigstack
        /\ h.sleep = k.sleep /\ h.mapped = p
        /\ h.ref = [q \in Stacks |-> IF q = p THEN 2
                                     ELSE IF q = k.mapped THEN k.ref[q] - 1
                                     ELSE k.ref[q]]
    BY DEF Good, SignalStates, start_handler, push_stack
  <1>5. \A R, C, F : h.sigstack \in R /\ h.ctx \in C /\ h.ref \in F =>
          h \in [sig : SUBSET Bits, pending : SUBSET Bits, ctx : C,
                sigstack : R, sleep : Calls, mapped : {0} \cup Stacks, ref : F]
    BY <1>1, <1>2, <1>4 DEF Good, SignalStates, start_handler, push_stack
  <1>6. r.sig = b /\ r.ctx = k.ctx /\ r.call = call /\ r.sleep = k.sleep
        /\ r.stack = p /\ f.sig = b
    OBVIOUS
  <1> HIDE DEF h, r, f, p
  <1>7. /\ h.sigstack \in Seq(Records) /\ Len(h.sigstack) = n + 1 /\ n \in Nat
        /\ h.sigstack[1] = r
        /\ \A i \in 1 .. n : h.sigstack[i + 1] = k.sigstack[i]
    BY <1>2, <1>3, <1>4, ConcatProperties
  <1>8. \A i \in 1 .. n + 1 : i = 1 \/ (i - 1 \in 1 .. n /\ h.sigstack[i] = k.sigstack[i - 1])
    BY <1>7
  <1>9. /\ h.ctx \in Seq(Frames) /\ Len(h.ctx) = Len(k.ctx) + 1
        /\ Len(k.ctx) \in Nat /\ h.ctx[Len(k.ctx) + 1] = f
        /\ \A i \in 1 .. Len(k.ctx) : h.ctx[i] = k.ctx[i]
    BY <1>2, <1>3, <1>4, AppendProperties
  <1>10. Nested(h)
    <2>1. h.sig \cap h.pending = {}
      BY <1>4 DEF Good, Nested
    <2>2. h.pending = {h.sigstack[i].sig : i \in 1 .. n + 1}
      <3>1. k.pending = {k.sigstack[i].sig : i \in 1 .. n}
        BY DEF Good, Nested
      <3>2. ASSUME NEW x \in k.pending PROVE \E j \in 1 .. n + 1 : h.sigstack[j].sig = x
        <4>1. PICK i \in 1 .. n : x = k.sigstack[i].sig
          BY <3>1
        <4>2. i + 1 \in 1 .. n + 1
          BY <1>7
        <4> QED
          BY <4>1, <4>2, <1>7
      <3>3. 1 \in 1 .. n + 1 /\ h.sigstack[1].sig = b
        BY <1>6, <1>7
      <3>4. ASSUME NEW i \in 1 .. n + 1 PROVE h.sigstack[i].sig \in h.pending
        BY <1>4, <1>6, <1>7, <1>8, <3>1, SMTT(30)
      <3>5. \A x \in h.pending : \E j \in 1 .. n + 1 : h.sigstack[j].sig = x
        BY <1>4, <3>2, <3>3
      <3> QED
        BY <3>4, <3>5
    <2>3. ASSUME NEW i \in 1 .. n + 1, NEW j \in 1 .. n + 1,
                 h.sigstack[i].sig = h.sigstack[j].sig
          PROVE  i = j
      <3>1. \A x \in 1 .. n : k.sigstack[x].sig # b
        BY <1>2 DEF Good, Nested
      <3>2. \A x, y \in 1 .. n : k.sigstack[x].sig = k.sigstack[y].sig => x = y
        BY DEF Good, Nested
      <3>3. CASE i = 1 \/ j = 1
        BY <3>1, <3>3, <2>3, <1>6, <1>7, <1>8, ZenonT(30)
      <3>4. CASE i # 1 /\ j # 1
        <4>1. i - 1 \in 1 .. n /\ j - 1 \in 1 .. n
              /\ k.sigstack[i - 1].sig = k.sigstack[j - 1].sig
          BY <3>4, <2>3, <1>8
        <4>2. i - 1 = j - 1
          BY <4>1, <3>2
        <4> QED
          BY <4>2
      <3> QED
        BY <3>3, <3>4
    <2>4. SubSeq(h.ctx, 1, Len(h.ctx) - 1) = k.ctx
      <3>1. Len(h.ctx) - 1 = Len(k.ctx)
        BY <1>9
      <3>2. SubSeq(h.ctx, 1, Len(k.ctx)) = k.ctx
        BY <1>2, <1>9, SubSeqProperties, SeqEqual
      <3> QED
        BY <3>1, <3>2
    <2>5. ASSUME NEW i \in 1 .. n, i <= Len(k.ctx)
          PROVE  SubSeq(h.ctx, 1, Len(k.ctx) - i) = SubSeq(k.ctx, 1, Len(k.ctx) - i)
      <3> DEFINE m == Len(k.ctx) - i
      <3>1. m \in Nat /\ m <= Len(k.ctx)
        BY <1>9, <1>7, <2>5
      <3> HIDE DEF m
      <3>2. SubSeq(h.ctx, 1, m) = SubSeq(k.ctx, 1, m)
        BY <1>2, <1>9, <3>1, SubSeqProperties, SeqEqual
      <3> QED
        BY <3>2 DEF m
    <2>6. ASSUME NEW i \in 1 .. n + 1, i <= Len(h.ctx)
          PROVE  /\ h.sigstack[i].sig = h.ctx[Len(h.ctx) - i + 1].sig
                 /\ h.sigstack[i].ctx = SubSeq(h.ctx, 1, Len(h.ctx) - i)
      <3>1. CASE i = 1
        BY <3>1, <2>4, <1>6, <1>7, <1>9
      <3>2. CASE i # 1
        <4> DEFINE j == i - 1
        <4>1. j \in 1 .. n /\ h.sigstack[i] = k.sigstack[j] /\ j <= Len(k.ctx)
          BY <3>2, <2>6, <1>8, <1>9
        <4>2. /\ k.sigstack[j].sig = k.ctx[Len(k.ctx) - j + 1].sig
              /\ k.sigstack[j].ctx = SubSeq(k.ctx, 1, Len(k.ctx) - j)
          BY <4>1 DEF Good, Nested
        <4>3. Len(h.ctx) - i + 1 = Len(k.ctx) - j + 1 /\ Len(h.ctx) - i = Len(k.ctx) - j
              /\ Len(k.ctx) - j + 1 \in 1 .. Len(k.ctx)
          BY <4>1, <1>9, <1>7
        <4> HIDE DEF j
        <4> QED
          BY <4>1, <4>2, <4>3, <2>5, <1>9
      <3> QED
        BY <3>1, <3>2
    <2> QED
      BY <2>1, <2>2, <2>3, <2>6, <1>7 DEF Nested
  <1>11. \A q \in Stacks : q # p => (Saved(h, q) <=> Saved(k, q))
    <2> SUFFICES ASSUME NEW q \in Stacks, q # p
                 PROVE  Saved(h, q) <=> Saved(k, q)
      OBVIOUS
    <2>1. ASSUME NEW i \in 1 .. n, k.sigstack[i].stack = q PROVE Saved(h, q)
      <3>1. i + 1 \in 1 .. Len(h.sigstack) /\ h.sigstack[i + 1] = k.sigstack[i]
        BY <1>7
      <3> QED
        BY <3>1, <2>1 DEF Saved
    <2>2. ASSUME NEW i \in 1 .. n + 1, h.sigstack[i].stack = q PROVE Saved(k, q)
      <3>1. i # 1
        BY <2>2, <1>6, <1>7
      <3> QED
        BY <3>1, <2>2, <1>8 DEF Saved
    <2> QED
      BY <2>1, <2>2, <1>7 DEF Saved
  <1>12. Saved(h, p) /\ ~Saved(k, p) /\ k.mapped # p
    <2>1. 1 \in 1 .. Len(h.sigstack)
      BY <1>7
    <2>2. Saved(h, p)
      BY <2>1, <1>6, <1>7 DEF Saved
    <2> QED
      BY <1>1, <2>2 DEF Good, FramesCounted
  <1>13. FramesCounted(h)
    <2>1. ASSUME NEW i \in 1 .. n + 1, NEW j \in 1 .. n + 1,
                 h.sigstack[i].stack = h.sigstack[j].stack
          PROVE  i = j
      <3>1. \A x \in 1 .. n : k.sigstack[x].stack # p
        BY <1>12 DEF Saved
      <3>2. \A x, y \in 1 .. n : k.sigstack[x].stack = k.sigstack[y].stack => x = y
        BY DEF Good, FramesCounted
      <3>3. CASE i = 1 \/ j = 1
        BY <3>1, <3>3, <2>1, <1>6, <1>7, <1>8
      <3>4. CASE i # 1 /\ j # 1
        <4>1. i - 1 \in 1 .. n /\ j - 1 \in 1 .. n
              /\ k.sigstack[i - 1].stack = k.sigstack[j - 1].stack
          BY <3>4, <2>1, <1>8
        <4>2. i - 1 = j - 1
          BY <4>1, <3>2
        <4> QED
          BY <4>2
      <3> QED
        BY <3>3, <3>4
    <2>2. ASSUME NEW q \in Stacks
          PROVE  h.ref[q] = (IF h.mapped = q THEN 1 ELSE 0) + (IF Saved(h, q) THEN 1 ELSE 0)
      <3>1. k.ref[q] = (IF k.mapped = q THEN 1 ELSE 0) + (IF Saved(k, q) THEN 1 ELSE 0)
        BY DEF Good, FramesCounted
      <3> QED
        BY <3>1, <1>4, <1>11, <1>12
    <2> QED
      BY <2>1, <2>2, <1>7 DEF FramesCounted
  <1>14. SleepsSaved(h)
    <2>1. ASSUME NEW i \in 1 .. n + 1, h.sigstack[i].call # NoCall
          PROVE  h.sigstack[i].sleep \in {0, h.sigstack[i].call}
      <3>1. CASE i = 1
        BY <2>1, <3>1, <1>6, <1>7
      <3>2. CASE i # 1
        BY <2>1, <3>2, <1>8 DEF Good, SleepsSaved
      <3> QED
        BY <3>1, <3>2
    <2> QED
      BY <2>1, <1>7 DEF SleepsSaved
  <1>15. h.ref \in [Stacks -> 0 .. 2]
    <2>1. \A q \in Stacks : h.ref[q] \in 0 .. 2
      BY <1>13 DEF FramesCounted
    <2> QED
      BY <2>1, <1>4
  <1>16. h \in SignalStates
    BY <1>1, <1>2, <1>4, <1>5, <1>7, <1>9, <1>15, ZenonT(30) DEF SignalStates
  <1> QED
    BY <1>4, <1>10, <1>13, <1>14, <1>16 DEF Good, h

\* signal_return finds the record of the handler that returns, page_insert
\* returns 2, and what is left is in order.
LEMMA PopGood ==
  ASSUME NEW k0, Good(k0), k0.ctx # <<>>, k0.pending # {},
         NEW k, k = [k0 EXCEPT !.pending = @ \ {Last(k0.ctx).sig}]
  PROVE  /\ k0.sigstack # <<>> /\ inserted(k) = 2
         /\ ~(k.pending = {} /\ Len(k0.sigstack) > 1)
         /\ Good(pop_stack(k))
         /\ pop_stack(k).sig = k0.sig
         /\ Head(k0.sigstack).call \in Calls
         /\ Head(k0.sigstack).call # NoCall
              => pop_stack(k).sleep \in {0, Head(k0.sigstack).call}
PROOF
  <1> DEFINE n == Len(k0.sigstack)
             s == Head(k0.sigstack)
             m == Len(k0.ctx)
             h == pop_stack(k)
             t == Tail(k0.sigstack)
  <1>1. /\ k0.sigstack \in Seq(Records) /\ k0.pending \in SUBSET Bits
        /\ k0.sig \in SUBSET Bits /\ k0.ctx \in Seq(Frames)
        /\ k0.mapped \in {0} \cup Stacks /\ k0.ref \in [Stacks -> 0 .. 2]
        /\ n \in Nat /\ m \in Nat
    BY DEF Good, SignalStates
  <1>2. k0.sigstack # <<>>
    BY DEF Good, Nested
  <1>3. m >= 1
    BY <1>1, EmptySeq
  <1>4. /\ s \in Records /\ s = k0.sigstack[1] /\ n >= 1
        /\ t \in Seq(Records) /\ Len(t) = n - 1
        /\ \A i \in 1 .. n - 1 : t[i] = k0.sigstack[i + 1]
    BY <1>1, <1>2, HeadTailProperties
  <1>5. \A i \in 1 .. n - 1 : i + 1 \in 1 .. n /\ t[i] = k0.sigstack[i + 1]
    BY <1>1, <1>4
  <1>6. \A i \in 1 .. n : i = 1 \/ (i - 1 \in 1 .. n - 1 /\ t[i - 1] = k0.sigstack[i])
    BY <1>1, <1>4
  <1>7. 1 \in 1 .. n
    BY <1>1, <1>4
  <1>8. s.sig = Last(k0.ctx).sig /\ s.ctx = SubSeq(k0.ctx, 1, m - 1)
    <2>1. s.sig = k0.ctx[m - 1 + 1].sig /\ s.ctx = SubSeq(k0.ctx, 1, m - 1)
      BY <1>3, <1>4, <1>7 DEF Good, Nested
    <2>2. m - 1 + 1 = m
      BY <1>1
    <2> QED
      BY <2>1, <2>2 DEF Last
  <1>9. /\ s.stack \in Stacks /\ s.ctx \in Seq(Frames) /\ s.call \in Calls
        /\ s.sleep \in Calls
    BY <1>4 DEF Records
  <1>10. /\ k.sig = k0.sig /\ k.pending = k0.pending \ {s.sig} /\ k.ctx = k0.ctx
         /\ k.sigstack = k0.sigstack /\ k.sleep = k0.sleep
         /\ k.mapped = k0.mapped /\ k.ref = k0.ref
    BY <1>8 DEF Good, SignalStates
  <1>11. /\ h.sig = k0.sig /\ h.pending = k0.pending \ {s.sig} /\ h.ctx = s.ctx
         /\ h.sigstack = t /\ h.sleep = s.sleep /\ h.mapped = s.stack
         /\ h.ref = [q \in Stacks |-> IF q = k0.mapped THEN k0.ref[q] - 1 ELSE k0.ref[q]]
    BY <1>8 DEF Good, SignalStates, pop_stack
  <1>12. \A F : h.ref \in F =>
          h \in [sig : SUBSET Bits, pending : SUBSET Bits, ctx : Seq(Frames),
                sigstack : Seq(Records), sleep : Calls, mapped : {0} \cup Stacks,
                ref : F]
    BY <1>1, <1>4, <1>9, <1>11 DEF Good, SignalStates, pop_stack
  <1>13. inserted(k) = IF s.stack = k0.mapped THEN k0.ref[s.stack] ELSE k0.ref[s.stack] + 1
    BY <1>10 DEF inserted
  <1> HIDE DEF h, s, m, n, t
  <1>14. \A i, j \in 1 .. n : k0.sigstack[i].sig = k0.sigstack[j].sig => i = j
    BY DEF Good, Nested, n
  <1>15. k0.pending = {k0.sigstack[i].sig : i \in 1 .. n}
    BY DEF Good, Nested, n
  <1>16. ~(k.pending = {} /\ n > 1)
    <2>1. ASSUME n > 1 PROVE k.pending # {}
      <3>1. 2 \in 1 .. n
        BY <1>1, <2>1
      <3>2. k0.sigstack[2].sig \in k0.pending /\ k0.sigstack[2].sig # s.sig
        BY <1>4, <1>7, <1>14, <1>15, <3>1
      <3> QED
        BY <3>2, <1>10
    <2> QED
      BY <2>1
  <1>17. Nested(h)
    <2>1. h.sig \cap h.pending = {}
      BY <1>11 DEF Good, Nested
    <2>2. ASSUME NEW x \in h.pending PROVE \E j \in 1 .. n - 1 : t[j].sig = x
      <3>1. PICK i \in 1 .. n : x = k0.sigstack[i].sig
        BY <1>11, <1>15
      <3>2. i # 1
        BY <1>4, <1>11, <3>1
      <3> QED
        BY <3>1, <3>2, <1>6
    <2>3. ASSUME NEW j \in 1 .. n - 1 PROVE t[j].sig \in h.pending
      <3>1. j + 1 \in 1 .. n /\ t[j] = k0.sigstack[j + 1] /\ j + 1 # 1
        BY <1>1, <1>5
      <3>2. k0.sigstack[j + 1].sig # s.sig
        BY <3>1, <1>4, <1>7, <1>14
      <3> QED
        BY <3>1, <3>2, <1>11, <1>15
    <2>4. h.pending = {t[i].sig : i \in 1 .. n - 1}
      BY <2>2, <2>3
    <2>5. ASSUME NEW i \in 1 .. n - 1, NEW j \in 1 .. n - 1, t[i].sig = t[j].sig
          PROVE  i = j
      <3>1. i + 1 = j + 1
        BY <1>5, <1>14, <2>5
      <3> QED
        BY <3>1
    <2>6. /\ Len(s.ctx) = m - 1
          /\ \A j \in 1 .. m - 1 : s.ctx[j] = k0.ctx[j]
      <3>1. m - 1 \in Nat /\ m - 1 <= Len(k0.ctx)
        BY <1>1, <1>3 DEF m
      <3> DEFINE c == m - 1
      <3> HIDE DEF c
      <3>2. Len(SubSeq(k0.ctx, 1, c)) = c /\ \A j \in 1 .. c : SubSeq(k0.ctx, 1, c)[j] = k0.ctx[j]
        BY <1>1, <3>1, SubSeqProperties DEF c
      <3> QED
        BY <3>2, <1>8 DEF c
    <2>7. ASSUME NEW i \in 1 .. n - 1, i <= m - 1
          PROVE  /\ t[i].sig = s.ctx[m - 1 - i + 1].sig
                 /\ t[i].ctx = SubSeq(s.ctx, 1, m - 1 - i)
      <3>1. i + 1 \in 1 .. n /\ t[i] = k0.sigstack[i + 1] /\ i + 1 <= m
        BY <1>1, <1>3, <1>5, <2>7
      <3>2. /\ k0.sigstack[i + 1].sig = k0.ctx[m - (i + 1) + 1].sig
            /\ k0.sigstack[i + 1].ctx = SubSeq(k0.ctx, 1, m - (i + 1))
        BY <3>1 DEF Good, Nested, n, m
      <3> DEFINE d == m - 1 - i
      <3>3. /\ d \in Nat /\ m - (i + 1) = d /\ m - (i + 1) + 1 = d + 1
            /\ m - 1 - i + 1 = d + 1 /\ d + 1 \in 1 .. m - 1 /\ d <= m - 1
        BY <1>1, <1>3, <2>7
      <3> HIDE DEF d
      <3>4. SubSeq(s.ctx, 1, d) = SubSeq(k0.ctx, 1, d)
        <4>1. \A j \in 1 .. d : j \in 1 .. m - 1
          BY <1>1, <3>3
        <4>2. d <= Len(s.ctx) /\ d <= Len(k0.ctx)
          BY <1>1, <3>3, <2>6, SMTT(30) DEF m
        <4> QED
          BY <4>1, <4>2, <1>1, <1>9, <2>6, <3>3, SamePrefix
      <3> QED
        BY <3>1, <3>2, <3>3, <3>4, <2>6 DEF d
    <2>8. Len(h.sigstack) = n - 1 /\ Len(h.ctx) = m - 1
      BY <1>4, <1>11, <2>6
    <2>9. \A i \in 1 .. Len(h.sigstack) : i <= Len(h.ctx) =>
             /\ h.sigstack[i].sig = h.ctx[Len(h.ctx) - i + 1].sig
             /\ h.sigstack[i].ctx = SubSeq(h.ctx, 1, Len(h.ctx) - i)
      BY <1>11, <2>7, <2>8
    <2>10. /\ h.pending = {h.sigstack[i].sig : i \in 1 .. Len(h.sigstack)}
           /\ \A i, j \in 1 .. Len(h.sigstack) :
                h.sigstack[i].sig = h.sigstack[j].sig => i = j
      BY <1>11, <2>4, <2>5, <2>8
    <2> QED
      BY <2>1, <2>9, <2>10 DEF Nested
  <1>18. \A i, j \in 1 .. n : k0.sigstack[i].stack = k0.sigstack[j].stack => i = j
    BY DEF Good, FramesCounted, n
  <1>19. Saved(k0, s.stack) /\ ~Saved(h, s.stack)
    <2>1. Saved(k0, s.stack)
      BY <1>4, <1>7 DEF Saved, n
    <2>2. ASSUME NEW i \in 1 .. n - 1 PROVE t[i].stack # s.stack
      <3>1. i + 1 \in 1 .. n /\ t[i] = k0.sigstack[i + 1] /\ i + 1 # 1
        BY <1>1, <1>5
      <3> QED
        BY <3>1, <1>4, <1>7, <1>18
    <2> QED
      BY <1>4, <1>11, <2>1, <2>2 DEF Saved
  <1>20. ASSUME NEW q \in Stacks, q # s.stack PROVE Saved(h, q) <=> Saved(k0, q)
    <2>1. ASSUME NEW i \in 1 .. n - 1, t[i].stack = q PROVE Saved(k0, q)
      BY <2>1, <1>5 DEF Saved, n
    <2>2. ASSUME NEW i \in 1 .. n, k0.sigstack[i].stack = q PROVE Saved(h, q)
      <3>1. i - 1 \in 1 .. n - 1 /\ t[i - 1].stack = q
        BY <2>2, <1>4, <1>6, <1>20
      <3> QED
        BY <3>1, <1>4, <1>11 DEF Saved
    <2> QED
      BY <2>1, <2>2, <1>4, <1>11 DEF Saved, n
  <1>21. \A q \in Stacks : k0.ref[q] = (IF k0.mapped = q THEN 1 ELSE 0)
                                      + (IF Saved(k0, q) THEN 1 ELSE 0)
    BY DEF Good, FramesCounted
  <1>22. inserted(k) = 2
    BY <1>9, <1>13, <1>19, <1>21
  <1>23. FramesCounted(h)
    <2>1. ASSUME NEW i \in 1 .. n - 1, NEW j \in 1 .. n - 1, t[i].stack = t[j].stack
          PROVE  i = j
      <3>1. i + 1 = j + 1
        BY <1>5, <1>18, <2>1
      <3> QED
        BY <3>1
    <2>2. ASSUME NEW q \in Stacks
          PROVE  h.ref[q] = (IF h.mapped = q THEN 1 ELSE 0) + (IF Saved(h, q) THEN 1 ELSE 0)
      BY <1>11, <1>19, <1>20, <1>21
    <2> QED
      BY <1>4, <1>11, <2>1, <2>2 DEF FramesCounted
  <1>24. SleepsSaved(h)
    <2>1. ASSUME NEW i \in 1 .. n - 1, t[i].call # NoCall
          PROVE  t[i].sleep \in {0, t[i].call}
      BY <2>1, <1>5 DEF Good, SleepsSaved, n
    <2> QED
      BY <2>1, <1>4, <1>11 DEF SleepsSaved
  <1>25. s.call # NoCall => h.sleep \in {0, s.call}
    BY <1>4, <1>7, <1>11 DEF Good, SleepsSaved, n
  <1>26. h.ref \in [Stacks -> 0 .. 2]
    <2>1. \A q \in Stacks : h.ref[q] \in 0 .. 2
      BY <1>23 DEF FramesCounted
    <2> QED
      BY <2>1, <1>11
  <1>27. h \in SignalStates
    BY <1>12, <1>26 DEF SignalStates
  <1> QED
    BY <1>2, <1>9, <1>11, <1>16, <1>17, <1>22, <1>23, <1>24, <1>25, <1>27
       DEF Good, h, s, n

\* The loop of check_signals finds the highest of the signals it is due.
LEMMA CurrentDue ==
  ASSUME sg.sig \in SUBSET Bits, Due # {}
  PROVE  Current \in Due
PROOF
  <1>1. Due \subseteq 0 .. 31
    BY BitsFinite DEF Due
  <1> DEFINE I == {31 - b : b \in Due}
  <1>2. I \in SUBSET Nat /\ I # {}
    <2>1. \A b \in Due : 31 - b \in Nat
      BY <1>1
    <2>2. \E b \in Due : 31 - b \in I
      OBVIOUS
    <2> QED
      BY <2>1, <2>2
  <1>3. PICK x \in I : \A y \in I : x <= y
    BY <1>2, LeastNatural
  <1>4. PICK b \in Due : x = 31 - b
    BY <1>3
  <1>5. ASSUME NEW d \in Due PROVE d <= b
    <2>1. 31 - d \in I
      OBVIOUS
    <2>2. 31 - b <= 31 - d
      BY <2>1, <1>3, <1>4
    <2> QED
      BY <2>2, <1>1
  <1> QED
    BY <1>4, <1>5 DEF Current

-----------------------------------------------------------------------------
(* Every step keeps the invariant.                                         *)

\* A task that is a zombie, or a kernel that stands still, is in order.
LEMMA EndedInv ==
  ASSUME NEW m \in {"user", "ready", "signals", "dead"},
         NEW w \in {"none", "stack 2", "stopped", "resumed", "free_sigstack"},
         Ended(m, w), w = "none" => m = "dead"
  PROVE  IndInv'
PROOF
  <1>1. /\ mode' = m /\ panic' = w /\ act' = DefaultActions
        /\ sg' = Cleared(<<>>, 0) /\ call' = NoCall /\ kstack' = 1 /\ self' = {}
    BY DEF Ended
  <1>2. Good(sg') /\ sg'.sig = {}
    BY <1>1, ClearedGood, EmptySeq DEF Calls
  <1>3. TypeOK'
    BY <1>1, <1>2 DEF TypeOK, DefaultActions, Good, Calls, NoCall
  <1>4. Modes' /\ SleepRestored' /\ LeftoverExplained'
    BY <1>1, <1>2 DEF Modes, SleepRestored, LeftoverExplained, Running
  <1> QED
    BY <1>1, <1>2, <1>3, <1>4 DEF IndInv

\* The task starts in user mode with no signal.
LEMMA InitInv == Init => IndInv
PROOF
  <1> SUFFICES ASSUME Init PROVE IndInv
    OBVIOUS
  <1>1. Good(sg) /\ sg.sig = {}
    BY ClearedGood, EmptySeq DEF Calls, Init
  <1>2. TypeOK
    BY <1>1 DEF TypeOK, DefaultActions, Good, Calls, NoCall, Init
  <1>3. Modes /\ SleepRestored /\ LeftoverExplained
    BY <1>1 DEF Modes, SleepRestored, LeftoverExplained, Running, Init
  <1> QED
    BY <1>1, <1>2, <1>3 DEF IndInv, Init

\* Every signal has a bit.
LEMMA BitInBits == \A s \in Signals : Bit(s) \in Bits
PROOF
  <1> QED
    BY DEF Bits

\* check_signals starts a handler, pushing the stack it needs.
LEMMA StepDeliver == IndInv /\ deliver => IndInv'
PROOF
  <1> SUFFICES ASSUME IndInv, deliver PROVE IndInv'
    OBVIOUS
  <1> DEFINE b == Current
  <1>1. Running /\ mode \in {"ready", "signals"} /\ b \in Due /\ Handled(b)
    <2>1. sg.sig \in SUBSET Bits
      BY DEF IndInv, TypeOK, SignalStates
    <2> QED
      BY <2>1, CurrentDue DEF deliver, Checking
  <1> HIDE DEF b
  <1>2. CASE kstack = 2 /\ Ended(mode, "stack 2")
    BY <1>1, <1>2, EndedInv
  <1>3. CASE /\ kstack = 1 /\ sg' = start_handler(sg, b) /\ mode' = "signals"
             /\ self' = self \ {b} /\ UNCHANGED <<act, call, kstack, panic>>
    <2>1. b \in sg.sig /\ b \in Bits /\ act[b] \in {"handler", "bad"}
      BY <1>1 DEF Due, Handled, IndInv, TypeOK, SignalStates
    <2>2. call \in Calls /\ (call # NoCall => sg.sleep \in {0, call})
      BY <1>1 DEF IndInv, TypeOK, SleepRestored
    <2>3. Good(sg') /\ sg'.sig = sg.sig \ {b} /\ sg'.sleep = sg.sleep
      BY <1>3, <2>1, <2>2, PushGood DEF IndInv
    <2>4. TypeOK'
      BY <1>3, <2>3 DEF IndInv, TypeOK, Good
    <2>5. Modes' /\ SleepRestored' /\ LeftoverExplained'
      BY <1>3, <2>2, <2>3 DEF Modes, SleepRestored, LeftoverExplained
    <2> QED
      BY <1>3, <2>3, <2>4, <2>5 DEF IndInv
  <1> QED
    BY <1>2, <1>3 DEF deliver, b

\* check_signals takes the default action.
LEMMA StepDefaultAction == IndInv /\ default_action => IndInv'
PROOF
  <1> SUFFICES ASSUME IndInv, default_action PROVE IndInv'
    OBVIOUS
  <1>1. mode \in {"ready", "signals"}
    BY DEF default_action, Checking
  <1>2. Ended(mode, "stopped") \/ Ended("dead", "none")
    BY DEF default_action
  <1> QED
    BY <1>1, <1>2, EndedInv

\* Nothing pending means nothing saved, so that the assertion at the end of
\* schedule holds.
LEMMA StepCheckSignals == IndInv /\ check_signals => IndInv'
PROOF
  <1> SUFFICES ASSUME IndInv, check_signals PROVE IndInv'
    OBVIOUS
  <1>1. /\ Running /\ mode \in {"ready", "signals"} /\ Due = {}
        /\ mode' = IF kstack = 1 THEN "user" ELSE "kernel"
        /\ call' = IF kstack = 1 THEN NoCall ELSE call
        /\ UNCHANGED <<act, sg, kstack, self>>
    BY DEF check_signals, Checking, loop_done
  <1>2. sg.pending = {} => sg.sigstack = <<>>
    <2>1. sg.sigstack \in Seq(Records)
      BY DEF IndInv, TypeOK, SignalStates
    <2>2. Len(sg.sigstack) \in Nat
      BY <2>1
    <2>3. Len(sg.sigstack) # 0 => 1 \in 1 .. Len(sg.sigstack)
      BY <2>2
    <2>4. sg.pending = {} => Len(sg.sigstack) = 0
      <3>1. sg.pending = {sg.sigstack[i].sig : i \in 1 .. Len(sg.sigstack)}
        BY DEF IndInv, Good, Nested
      <3>2. 1 \in 1 .. Len(sg.sigstack) => sg.sigstack[1].sig \in sg.pending
        BY <3>1
      <3> QED
        BY <2>3, <3>2
    <2> QED
      BY <2>1, <2>4, EmptySeq
  <1>3. panic' = "none"
    BY <1>2 DEF check_signals
  <1>4. sg.sig \subseteq {0} \cup SIG_DI \cup SIG_DC
    <2>1. \A x \in sg.sig : x \in Bits
      BY DEF IndInv, TypeOK, SignalStates
    <2>2. \A x \in sg.sig : ~Handled(x) /\ ~Deadly(x)
      BY <1>1 DEF Due
    <2> QED
      BY <2>1, <2>2 DEF Handled, Deadly
  <1>5. call' # NoCall => sg.sleep \in {0, call'}
    BY <1>1 DEF IndInv, SleepRestored
  <1>6. TypeOK'
    BY <1>1, <1>3 DEF IndInv, TypeOK, Calls, NoCall
  <1>7. Modes' /\ SleepRestored' /\ LeftoverExplained'
    BY <1>1, <1>4, <1>5 DEF IndInv, TypeOK, Modes, SleepRestored, LeftoverExplained
  <1> QED
    BY <1>1, <1>3, <1>6, <1>7 DEF IndInv

\* Another task sends a signal.
LEMMA StepSend ==
  ASSUME IndInv, NEW s \in Signals, NEW d \in BOOLEAN, send_signal(s, d)
  PROVE  IndInv'
PROOF
  <1>1. /\ Running /\ mode \in {"ready", "blocked"} /\ Bit(s) \notin sg.pending
        /\ sg' = [sg EXCEPT !.sig = sg.sig \cup {Bit(s)}]
        /\ mode' \in {"ready", "blocked"}
        /\ mode' = "blocked" => mode = "blocked" /\ Bit(s) \in SIG_DI \cup SIG_DC
        /\ UNCHANGED <<act, call, kstack, self, panic>>
    BY DEF send_signal, wakes, IndInv, TypeOK, SignalStates
  <1>2. sg.sig \cup {Bit(s)} \in SUBSET Bits /\ (sg.sig \cup {Bit(s)}) \cap sg.pending = {}
    BY <1>1, BitInBits, ZenonT(30) DEF IndInv, TypeOK, SignalStates, Good, Nested
  <1>3. Good(sg') /\ sg'.sig = sg.sig \cup {Bit(s)} /\ sg'.sleep = sg.sleep
    BY <1>1, <1>2, SigGood DEF IndInv
  <1>4. TypeOK'
    BY <1>1, <1>3 DEF IndInv, TypeOK, Good
  <1>5. Modes' /\ SleepRestored' /\ LeftoverExplained'
    BY <1>1, <1>3 DEF IndInv, TypeOK, Modes, SleepRestored, LeftoverExplained
  <1> QED
    BY <1>1, <1>3, <1>4, <1>5 DEF IndInv

\* A task sends a signal to itself.
LEMMA StepKillSelf ==
  ASSUME IndInv, NEW s \in Signals, kill_self(s)
  PROVE  IndInv'
PROOF
  <1>1. /\ Running /\ mode = "user" /\ Bit(s) \notin sg.pending
        /\ sg' = [sg EXCEPT !.sig = sg.sig \cup {Bit(s)}]
        /\ self' = self \cup {Bit(s)}
        /\ UNCHANGED <<act, call, mode, kstack, panic>>
    BY DEF kill_self, UserCode, IndInv, TypeOK, SignalStates
  <1>2. sg.sig \cup {Bit(s)} \in SUBSET Bits /\ (sg.sig \cup {Bit(s)}) \cap sg.pending = {}
    BY <1>1, BitInBits, ZenonT(30) DEF IndInv, TypeOK, SignalStates, Good, Nested
  <1>3. Good(sg') /\ sg'.sig = sg.sig \cup {Bit(s)} /\ sg'.sleep = sg.sleep
    BY <1>1, <1>2, SigGood DEF IndInv
  <1>4. TypeOK'
    BY <1>1, <1>3 DEF IndInv, TypeOK, Good
  <1>5. Modes' /\ SleepRestored' /\ LeftoverExplained'
    BY <1>1, <1>3 DEF IndInv, TypeOK, Modes, SleepRestored, LeftoverExplained
  <1> QED
    BY <1>1, <1>3, <1>4, <1>5 DEF IndInv

\* The calls that do not touch the signal state
LEMMA StepQuiet ==
  ASSUME IndInv,
         \/ \E s \in Signals, a \in {"dfl", "handler", "bad"} : signal(s, a)
         \/ preempt \/ pause \/ return_from_trap \/ preempt_kernel
  PROVE  IndInv'
PROOF
  <1>1. Running /\ sg' = sg /\ self' = self /\ panic' = panic
    BY DEF signal, preempt, pause, return_from_trap, preempt_kernel, UserCode
  <1>2. act' \in [Bits -> {"dfl", "handler", "bad"}]
    BY DEF signal, preempt, pause, return_from_trap, preempt_kernel, IndInv, TypeOK
  <1>3. /\ mode \in {"user", "kernel"} /\ mode' \in {"user", "ready", "blocked"}
        /\ (mode' \in {"user", "blocked"} => kstack' = 1) /\ kstack' \in {1, 2}
        /\ (mode' = "user" => call' = NoCall)
        /\ call' \in {NoCall, call}
    BY DEF signal, preempt, pause, return_from_trap, preempt_kernel, IndInv,
           TypeOK, UserCode, Modes
  <1>4. TypeOK'
    BY <1>1, <1>2, <1>3 DEF IndInv, TypeOK, NoCall, Calls
  <1>5. call' # NoCall => sg.sleep \in {0, call'}
    BY <1>1, <1>3 DEF IndInv, SleepRestored, Modes
  <1>6. Modes' /\ SleepRestored' /\ LeftoverExplained'
    BY <1>1, <1>3, <1>5 DEF IndInv, Modes, SleepRestored, LeftoverExplained, Running
  <1> QED
    BY <1>1, <1>4, <1>6 DEF IndInv

\* A task sleeps with a deadline.
LEMMA StepSleep ==
  ASSUME IndInv, (\E d \in Deadlines : sleep(d)) \/ check_sleep_list
  PROVE  IndInv'
PROOF
  <1>1. CASE \E d \in Deadlines : sleep(d)
    <2>1. PICK d \in Deadlines : sleep(d)
      BY <1>1
    <2>2. /\ Running /\ mode = "user" /\ sg' = [sg EXCEPT !.sleep = d] /\ d \in Calls
          /\ mode' = "blocked" /\ call' = d /\ UNCHANGED <<act, kstack, self, panic>>
      BY <2>1 DEF sleep, UserCode, Calls
    <2>3. Good(sg') /\ sg'.sig = sg.sig /\ sg'.sleep = d
      BY <2>2, SleepGood DEF IndInv
    <2>4. TypeOK'
      BY <2>2, <2>3 DEF IndInv, TypeOK, Good
    <2>5. Modes' /\ SleepRestored' /\ LeftoverExplained'
      BY <2>2, <2>3 DEF IndInv, Modes, SleepRestored, LeftoverExplained
    <2> QED
      BY <2>2, <2>3, <2>4, <2>5 DEF IndInv
  <1>2. CASE check_sleep_list
    <2>1. /\ Running /\ mode = "blocked" /\ sg' = [sg EXCEPT !.sleep = 0] /\ 0 \in Calls
          /\ mode' = "ready" /\ UNCHANGED <<act, call, kstack, self, panic>>
      BY <1>2 DEF check_sleep_list, Calls
    <2>2. Good(sg') /\ sg'.sig = sg.sig /\ sg'.sleep = 0
      BY <2>1, SleepGood DEF IndInv
    <2>3. TypeOK'
      BY <2>1, <2>2 DEF IndInv, TypeOK, Good
    <2>4. Modes' /\ SleepRestored' /\ LeftoverExplained'
      BY <2>1, <2>2 DEF IndInv, Modes, SleepRestored, LeftoverExplained
    <2> QED
      BY <2>1, <2>2, <2>3, <2>4 DEF IndInv
  <1> QED
    BY <1>1, <1>2

\* signal_return pops the handler's stack.
LEMMA StepSignalReturn == IndInv /\ signal_return => IndInv'
PROOF
  <1> SUFFICES ASSUME IndInv, signal_return PROVE IndInv'
    OBVIOUS
  <1> DEFINE k == [sg EXCEPT !.pending = @ \ {Last(sg.ctx).sig}]
             s == Head(sg.sigstack)
  <1>1. Running /\ mode = "user" /\ sg.ctx # <<>> /\ sg.pending # {} /\ Good(sg)
    BY DEF signal_return, UserCode, IndInv
  <1>2. /\ sg.sigstack # <<>> /\ inserted(k) = 2
        /\ ~(k.pending = {} /\ Len(sg.sigstack) > 1)
        /\ Good(pop_stack(k)) /\ pop_stack(k).sig = sg.sig /\ s.call \in Calls
        /\ s.call # NoCall => pop_stack(k).sleep \in {0, s.call}
    BY <1>1, PopGood
  <1>3. \/ Ended(mode, "resumed")
        \/ /\ sg.sig = {} /\ sg' = pop_stack(k) /\ call' = s.call
           /\ mode' = "kernel" /\ kstack' = 2 /\ UNCHANGED <<act, self, panic>>
    BY <1>2 DEF signal_return
  <1> HIDE DEF k, s
  <1>4. CASE Ended(mode, "resumed")
    BY <1>1, <1>4, EndedInv
  <1>5. CASE /\ sg.sig = {} /\ sg' = pop_stack(k) /\ call' = s.call
             /\ mode' = "kernel" /\ kstack' = 2 /\ UNCHANGED <<act, self, panic>>
    <2>1. TypeOK'
      BY <1>2, <1>5 DEF IndInv, TypeOK, Good
    <2>2. Modes' /\ SleepRestored' /\ LeftoverExplained'
      BY <1>2, <1>5 DEF Modes, SleepRestored, LeftoverExplained
    <2> QED
      BY <1>2, <1>5, <2>1, <2>2 DEF IndInv
  <1> QED
    BY <1>3, <1>4, <1>5

\* exit, exec and fork
LEMMA StepProcess ==
  ASSUME IndInv, do_exit \/ execve \/ fork_child \/ bad_fork_copy_kernel_stack
  PROVE  IndInv'
PROOF
  <1>1. CASE do_exit
    BY <1>1, EndedInv DEF do_exit
  <1>2. CASE bad_fork_copy_kernel_stack
    BY <1>2, EndedInv DEF bad_fork_copy_kernel_stack, UserCode
  <1>3. CASE execve
    <2>1. /\ Running /\ mode = "user" /\ sg' = [sg EXCEPT !.ctx = <<>>]
          /\ UNCHANGED <<call, mode, kstack, self, panic>>
          /\ act' \in [Bits -> {"dfl", "handler", "bad"}]
      BY <1>3 DEF execve, UserCode
    <2>2. Good(sg') /\ sg'.sig = sg.sig /\ sg'.sleep = sg.sleep
      BY <2>1, CtxGood DEF IndInv
    <2>3. TypeOK'
      BY <2>1, <2>2 DEF IndInv, TypeOK, Good
    <2>4. Modes' /\ SleepRestored' /\ LeftoverExplained'
      BY <2>1, <2>2 DEF IndInv, Modes, SleepRestored, LeftoverExplained
    <2> QED
      BY <2>1, <2>2, <2>3, <2>4 DEF IndInv
  <1>4. CASE fork_child
    <2>1. /\ Running /\ mode = "user" /\ sg' = Cleared(sg.ctx, sg.sleep) /\ self' = {}
          /\ UNCHANGED <<act, call, mode, kstack, panic>>
          /\ sg.ctx \in Seq(Frames) /\ sg.sleep \in Calls
      BY <1>4 DEF fork_child, UserCode, IndInv, TypeOK, SignalStates
    <2>2. Good(sg') /\ sg'.sig = {}
      BY <2>1, ClearedGood
    <2>3. TypeOK'
      BY <2>1, <2>2 DEF IndInv, TypeOK, Good
    <2>4. Modes' /\ SleepRestored' /\ LeftoverExplained'
      BY <2>1, <2>2 DEF IndInv, Modes, SleepRestored, LeftoverExplained
    <2> QED
      BY <2>1, <2>2, <2>3, <2>4 DEF IndInv
  <1> QED
    BY <1>1, <1>2, <1>3, <1>4

\* Every step keeps the invariant.
LEMMA StepInv == IndInv /\ [Next]_vars => IndInv'
PROOF
  <1> SUFFICES ASSUME IndInv, [Next]_vars PROVE IndInv'
    OBVIOUS
  <1>1. CASE UNCHANGED vars
    <2>1. Good(sg') = Good(sg) /\ sg' = sg
      BY <1>1 DEF vars
    <2> QED
      BY <1>1, <2>1 DEF vars, IndInv, TypeOK, Modes, SleepRestored,
                        LeftoverExplained, Running
  <1>2. CASE Next
    BY <1>2, StepDeliver, StepDefaultAction, StepCheckSignals, StepSend,
       StepKillSelf, StepQuiet, StepSleep, StepSignalReturn, StepProcess DEF Next
  <1> QED
    BY <1>1, <1>2

\* Whatever signals arrive and whenever, the stacks, frames, deadlines and
\* pending signals of signal.cpp stay in order.
THEOREM Invariance == Spec => []IndInv
PROOF
  <1> QED
    BY InitInv, StepInv, PTL DEF Spec

-----------------------------------------------------------------------------
(* The properties the run checks.                                          *)

\* The state of Signal keeps its types, and no stop other than the ones the
\* code can reach is recorded.
THEOREM TypeCorrect == Spec => []TypeOK
PROOF
  <1>1. IndInv => TypeOK
    BY DEF IndInv
  <1> QED
    BY <1>1, Invariance, PTL

\* For any signals and any depth of handlers, signal.pending is exactly the
\* signals of the saved stacks, each saved once, every saved stack resumes
\* the user context below its handler's frame, and the assertions on sigstack
\* in schedule and in pop_stack never fail.
THEOREM HandlersNest == Spec => []HandlerStack
PROOF
  <1>1. IndInv => HandlerStack
    <2> SUFFICES ASSUME IndInv PROVE HandlerStack
      OBVIOUS
    <2> DEFINE n == Len(sg.sigstack)
    <2>1. /\ n \in Nat /\ DOMAIN sg.sigstack = 1 .. n /\ Len(sg.ctx) \in Nat
          /\ Nested(sg)
      BY DEF IndInv, Good, SignalStates
    <2>2. Cardinality(sg.pending) = n
      <3> DEFINE f == [i \in 1 .. n |-> sg.sigstack[i].sig]
      <3>1. f \in Bijection(1 .. n, sg.pending)
        BY <2>1 DEF Nested, Bijection, Injection, Surjection, IsInjective
      <3>2. ExistsBijection(1 .. n, sg.pending)
        BY <3>1 DEF ExistsBijection
      <3>3. IsFiniteSet(1 .. n) /\ Cardinality(1 .. n) = n
        BY <2>1, IndexCount
      <3> QED
        BY <3>2, <3>3, FS_Bijection
    <2>3. ASSUME NEW i \in 1 .. n, i <= Len(sg.ctx)
          PROVE  LET m == Len(sg.ctx) - i + 1
                 IN  /\ sg.sigstack[i].sig = sg.ctx[m].sig
                     /\ sg.sigstack[i].ctx = SubSeq(sg.ctx, 1, m - 1)
      <3>1. Len(sg.ctx) - i + 1 - 1 = Len(sg.ctx) - i
        BY <2>1
      <3>2. /\ sg.sigstack[i].sig = sg.ctx[Len(sg.ctx) - i + 1].sig
            /\ sg.sigstack[i].ctx = SubSeq(sg.ctx, 1, Len(sg.ctx) - i)
        BY <2>1, <2>3 DEF Nested
      <3> QED
        BY <3>1, <3>2
    <2> QED
      BY <2>1, <2>2, <2>3 DEF HandlerStack, IndInv, Nested
  <1> QED
    BY <1>1, Invariance, PTL

\* Every frame of a second stack has one reference for the mapping and one
\* for each saved stack in it, so that pop_stack's page_insert returns 2.
THEOREM FramesExact == Spec => []StackFramesExact
PROOF
  <1>1. IndInv => StackFramesExact
    <2> SUFFICES ASSUME IndInv PROVE StackFramesExact
      OBVIOUS
    <2>1. DOMAIN sg.sigstack = 1 .. Len(sg.sigstack) /\ FramesCounted(sg)
      BY DEF IndInv, Good, SignalStates
    <2>2. ASSUME NEW p \in Stacks
          PROVE  Cardinality({i \in 1 .. Len(sg.sigstack) : sg.sigstack[i].stack = p})
                   = IF Saved(sg, p) THEN 1 ELSE 0
      <3> DEFINE I == {i \in 1 .. Len(sg.sigstack) : sg.sigstack[i].stack = p}
      <3>1. CASE Saved(sg, p)
        <4>1. PICK i \in 1 .. Len(sg.sigstack) : sg.sigstack[i].stack = p
          BY <3>1 DEF Saved
        <4>2. I = {i}
          BY <2>1, <4>1 DEF FramesCounted
        <4> QED
          BY <3>1, <4>2, FS_Singleton
      <3>2. CASE ~Saved(sg, p)
        <4>1. I = {}
          BY <3>2 DEF Saved
        <4> QED
          BY <3>2, <4>1, FS_EmptySet
      <3> QED
        BY <3>1, <3>2
    <2> QED
      BY <2>1, <2>2 DEF StackFramesExact, FramesCounted, IndInv
  <1> QED
    BY <1>1, Invariance, PTL

\* A sleep that handlers interrupted, to any depth, ends with its own
\* deadline: pop_stack restores what push_stack saved.
THEOREM SleepKept == Spec => []SleepRestored
PROOF
  <1>1. IndInv => SleepRestored
    BY DEF IndInv
  <1> QED
    BY <1>1, Invariance, PTL

\* check_signals leaves only what the task sent itself, bit 0 and the signals
\* that are ignored by default.
THEOREM Leftovers == Spec => []LeftoverExplained
PROOF
  <1>1. IndInv => LeftoverExplained
    BY DEF IndInv
  <1> QED
    BY <1>1, Invariance, PTL
=============================================================================
