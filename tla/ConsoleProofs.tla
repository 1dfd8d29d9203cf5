---------------------------- MODULE ConsoleProofs ----------------------------
(***************************************************************************)
(* Proofs about Console, for a ring of any size, any number of readers and *)
(* any keys: the ring is the queue of InputQueue, and a reader woken by a  *)
(* key finds a character.                                                  *)
(***************************************************************************)
EXTENDS Console, ListLemmas, FiniteSetTheorems

-----------------------------------------------------------------------------
(* The decoder.                                                            *)

\* What the maps and CAPSLOCK give is 0 or one of the characters.
LEMMA GetcGives ==
  ASSUME NEW s, NEW data
  PROVE  keyboard_getc(s, data).c \in Chars \cup {NO}
PROOF
  <1>1. \A d : /\ normalmap(d) \in KeyChars \cup {NO}
               /\ shiftmap(d) \in KeyChars \cup {NO}
               /\ ctlmap(d) \in KeyChars \cup {NO}
    BY DEF normalmap, shiftmap, ctlmap, KeyChars, NO, KEY_DEL
  <1>2. \A x, d : charcode(x, d) \in KeyChars \cup {NO}
    BY <1>1 DEF charcode
  <1>3. \A x : \A c \in KeyChars \cup {NO} : caps(x, c) \in KeyChars \cup {NO}
    BY DEF caps, KeyChars, NO, KEY_DEL
  <1>4. \A x, d : caps(x, charcode(x, d)) \in KeyChars \cup {NO}
    BY <1>2, <1>3
  <1> QED
    BY <1>4 DEF keyboard_getc, Chars

-----------------------------------------------------------------------------
(* The ring.                                                               *)

\* The characters not read yet, as a sequence
UnreadFacts ==
  /\ Used \in 0 .. BuffSize - 1 /\ (Used = 0 <=> rpos = wpos)
  /\ \A i \in 1 .. Used : Cell(i) \in 0 .. BuffSize - 1 /\ Cell(i) # wpos
  /\ Unread \in Seq(Chars \cup {NO}) /\ Len(Unread) = Used
  /\ \A i \in 1 .. Used : Unread[i] = buff[Cell(i)]
  /\ (Unread = <<>> <=> Used = 0)

\* The cells between the two positions are a sequence of characters.
LEMMA UnreadSeq ==
  RingInv => UnreadFacts
PROOF
  <1> SUFFICES ASSUME RingInv PROVE UnreadFacts
    OBVIOUS
  <1>1. BuffSize \in Nat \ {0}
    BY ConsoleAssumption
  <1>2. Used \in 0 .. BuffSize - 1 /\ (Used = 0 <=> rpos = wpos)
    BY <1>1 DEF RingInv, Used
  <1>3. \A i \in 1 .. Used : Cell(i) \in 0 .. BuffSize - 1 /\ Cell(i) # wpos
    BY <1>1 DEF RingInv, Used, Cell
  <1>4. \A i \in 1 .. Used : buff[Cell(i)] \in Chars \cup {NO}
    BY <1>3 DEF RingInv
  <1>5. Used \in Nat
    BY <1>1, <1>2
  <1>6. Unread \in [1 .. Used -> Chars \cup {NO}]
    BY <1>4 DEF Unread
  <1>7. /\ Unread \in Seq(Chars \cup {NO}) /\ Len(Unread) = Used
        /\ \A i \in 1 .. Used : Unread[i] = buff[Cell(i)]
    <2>1. \A i \in 1 .. Used : Unread[i] = buff[Cell(i)]
      BY DEF Unread
    <2>2. Unread \in Seq(Chars \cup {NO}) /\ Len(Unread) = Used
      BY <1>5, <1>6, SeqDef, LenProperties
    <2> QED
      BY <2>1, <2>2
  <1>8. Unread = <<>> <=> Used = 0
    <2>1. Unread = <<>> <=> Len(Unread) = 0
      BY <1>7, EmptySeq
    <2> QED
      BY <1>7, <2>1
  <1> QED
    BY <1>2, <1>3, <1>7, <1>8 DEF UnreadFacts

\* The same after a step
LEMMA UnreadNext ==
  RingInv' => UnreadFacts'
  BY UnreadSeq, PTL

\* A character put in the ring is the last one of the queue, unless the ring
\* is full and then looks empty.
LEMMA PutRing ==
  ASSUME RingInv, NEW c \in Chars, buff' = [buff EXCEPT ![wpos] = c],
         wpos' = Wrap(wpos + 1), rpos' = rpos
  PROVE  /\ RingInv'
         /\ Wrap(wpos + 1) = rpos =>
              Len(Unread) = BuffSize - 1 /\ Unread' = <<>>
         /\ Wrap(wpos + 1) # rpos =>
              Len(Unread) # BuffSize - 1 /\ Unread' = Append(Unread, c)
         /\ Wrap(wpos + 1) # rpos => Len(Unread)' = Len(Unread) + 1
PROOF
  <1>1. BuffSize \in Nat \ {0}
    BY ConsoleAssumption
  <1>2. wpos' \in 0 .. BuffSize - 1 /\ wpos \in 0 .. BuffSize - 1 /\ rpos \in 0 .. BuffSize - 1
    BY <1>1 DEF RingInv, Wrap
  <1>3. RingInv'
    BY <1>2 DEF RingInv
  <1>4. /\ Used \in 0 .. BuffSize - 1 /\ Len(Unread) = Used
        /\ Unread \in Seq(Chars \cup {NO})
        /\ \A i \in 1 .. Used : Cell(i) \in 0 .. BuffSize - 1 /\ Cell(i) # wpos
        /\ \A i \in 1 .. Used : Unread[i] = buff[Cell(i)]
    BY UnreadSeq DEF UnreadFacts
  <1>5. /\ Len(Unread)' = Used' /\ Unread' \in Seq(Chars \cup {NO})
        /\ \A i \in 1 .. Used' : Unread'[i] = buff'[Cell(i)']
        /\ (Unread' = <<>> <=> Used' = 0)
    BY <1>3, UnreadNext DEF UnreadFacts
  <1>6. CASE Wrap(wpos + 1) = rpos
    <2>1. Used = BuffSize - 1
      BY <1>1, <1>2, <1>6 DEF Used, Wrap
    <2>2. Used' = 0
      BY <1>1, <1>2, <1>6 DEF Used
    <2> QED
      BY <1>3, <1>4, <1>5, <1>6, <2>1, <2>2
  <1>7. CASE Wrap(wpos + 1) # rpos
    <2>1. Used # BuffSize - 1 /\ Used' = Used + 1
      BY <1>1, <1>2, <1>7 DEF Used, Wrap
    <2>2. Cell(Used + 1) = wpos
      BY <1>1, <1>2 DEF Used, Cell
    <2>3. \A i : Cell(i)' = Cell(i)
      BY DEF Cell
    <2>4. /\ Append(Unread, c) \in Seq(Chars \cup {NO})
          /\ Len(Append(Unread, c)) = Used + 1
          /\ \A i \in 1 .. Used : Append(Unread, c)[i] = Unread[i]
          /\ Append(Unread, c)[Used + 1] = c
      BY <1>4, AppendProperties
    <2>5. ASSUME NEW i \in 1 .. Used + 1 PROVE Unread'[i] = Append(Unread, c)[i]
      <3>1. Unread'[i] = buff'[Cell(i)]
        BY <1>5, <2>1, <2>3
      <3>2. CASE i = Used + 1
        <4>1. buff'[wpos] = c
          BY <1>2 DEF RingInv
        <4> QED
          BY <2>2, <2>4, <3>1, <3>2, <4>1
      <3>3. CASE i \in 1 .. Used
        <4>1. buff'[Cell(i)] = buff[Cell(i)]
          BY <1>4, <3>3 DEF RingInv
        <4> QED
          BY <1>4, <2>4, <3>1, <3>3, <4>1
      <3> QED
        BY <1>4, <3>2, <3>3
    <2>6. Unread' = Append(Unread, c)
      BY <1>5, <2>1, <2>4, <2>5, SeqEqual
    <2> QED
      BY <1>3, <1>4, <1>5, <1>7, <2>1, <2>6
  <1> QED
    BY <1>6, <1>7

\* A character taken from the ring is the first one of the queue.
LEMMA TakeRing ==
  ASSUME RingInv, rpos # wpos, rpos' = Wrap(rpos + 1), buff' = buff, wpos' = wpos
  PROVE  /\ RingInv' /\ Unread # <<>> /\ Head(Unread) = buff[rpos]
         /\ Unread' = Tail(Unread) /\ Len(Unread)' = Len(Unread) - 1
PROOF
  <1>1. BuffSize \in Nat \ {0}
    BY ConsoleAssumption
  <1>2. rpos' \in 0 .. BuffSize - 1 /\ wpos \in 0 .. BuffSize - 1 /\ rpos \in 0 .. BuffSize - 1
    BY <1>1 DEF RingInv, Wrap
  <1>3. RingInv'
    BY <1>2 DEF RingInv
  <1>4. /\ Used \in 0 .. BuffSize - 1 /\ Len(Unread) = Used /\ Used # 0 /\ Unread # <<>>
        /\ Unread \in Seq(Chars \cup {NO})
        /\ \A i \in 1 .. Used : Unread[i] = buff[Cell(i)]
    BY UnreadSeq DEF UnreadFacts
  <1>5. /\ Len(Unread)' = Used' /\ Unread' \in Seq(Chars \cup {NO})
        /\ \A i \in 1 .. Used' : Unread'[i] = buff'[Cell(i)']
    BY <1>3, UnreadNext DEF UnreadFacts
  <1>6. Used' = Used - 1
    BY <1>1, <1>2 DEF Used, Wrap
  <1>7. Cell(1) = rpos /\ \A i \in 1 .. Used - 1 : Cell(i)' = Cell(i + 1)
    BY <1>1, <1>2, <1>4 DEF Cell, Wrap
  <1>8. /\ Head(Unread) = Unread[1] /\ Tail(Unread) \in Seq(Chars \cup {NO})
        /\ Len(Tail(Unread)) = Used - 1
        /\ \A i \in 1 .. Used - 1 : Tail(Unread)[i] = Unread[i + 1]
    BY <1>4, HeadTailProperties
  <1>9. 1 \in 1 .. Used /\ \A i \in 1 .. Used - 1 : i + 1 \in 1 .. Used
    BY <1>1, <1>4
  <1>10. Head(Unread) = buff[rpos]
    BY <1>4, <1>7, <1>8, <1>9
  <1>11. ASSUME NEW i \in 1 .. Used - 1 PROVE Unread'[i] = Tail(Unread)[i]
    <2>1. Unread'[i] = buff[Cell(i + 1)]
      BY <1>5, <1>6, <1>7
    <2>2. Tail(Unread)[i] = buff[Cell(i + 1)]
      BY <1>4, <1>8, <1>9
    <2> QED
      BY <2>1, <2>2
  <1>12. Unread' = Tail(Unread)
    BY <1>5, <1>6, <1>8, <1>11, SeqEqual
  <1> QED
    BY <1>3, <1>4, <1>5, <1>6, <1>10, <1>12

\* Steps that leave the ring alone leave the queue alone.
LEMMA SameRing ==
  ASSUME UNCHANGED ringVars
  PROVE  Unread' = Unread /\ (RingInv => RingInv') /\ Len(Unread)' = Len(Unread)
  BY DEF ringVars, Unread, Used, Cell, RingInv

-----------------------------------------------------------------------------
(* The readers.                                                            *)

\* The readers awake for a character
Keyed == {t \in Readers : rd[t] = "key"}

\* They are finitely many, one more when one is woken and one less when one
\* is served.
LEMMA KeyedCount ==
  ASSUME NEW K \in SUBSET Readers
  PROVE  /\ IsFiniteSet(K) /\ Cardinality(K) \in Nat
         /\ \A x \in Readers : Cardinality(K \cup {x}) <= Cardinality(K) + 1
         /\ \A x \in K : Cardinality(K \ {x}) = Cardinality(K) - 1
         /\ \A L \in SUBSET K : Cardinality(L) \in Nat /\ Cardinality(L) <= Cardinality(K)
         /\ K = {} => Cardinality(K) = 0
PROOF
  <1>1. IsFiniteSet(K)
    BY ConsoleAssumption, FS_Subset
  <1>2. Cardinality(K) \in Nat
    BY <1>1, FS_CardinalityType
  <1>3. ASSUME NEW x \in Readers PROVE Cardinality(K \cup {x}) <= Cardinality(K) + 1
    <2>1. \/ Cardinality(K \cup {x}) = Cardinality(K)
          \/ Cardinality(K \cup {x}) = Cardinality(K) + 1
      BY <1>1, FS_AddElement, Zenon
    <2> QED
      BY <1>2, <2>1
  <1>4. \A x \in K : Cardinality(K \ {x}) = Cardinality(K) - 1
    BY <1>1, FS_RemoveElement
  <1>5. \A L \in SUBSET K : Cardinality(L) \in Nat /\ Cardinality(L) <= Cardinality(K)
    BY <1>1, FS_Subset, FS_CardinalityType
  <1>6. K = {} => Cardinality(K) = 0
    BY FS_EmptySet
  <1> QED
    BY <1>1, <1>2, <1>3, <1>4, <1>5, <1>6

\* While an excuse is good somebody is awake for a character.
LEMMA Excused ==
  ASSUME NEW x, x, Excuse(x), ~excuse', Len(Unread)' \in Nat
  PROVE  WokenFindInput'
PROOF
  <1>1. Keyed' = {}
    BY DEF Excuse, Keyed
  <1>2. Cardinality(Keyed') = 0
    BY <1>1, FS_EmptySet
  <1> QED
    BY <1>2 DEF WokenFindInput, Keyed

\* A character goes in, and the first sleeper, if any, is woken for it.
LEMMA PutInv ==
  ASSUME IndInv, NEW c \in Chars, put(c), UNCHANGED <<rpos, polled, saved>>
  PROVE  IndInv' /\ Unread' = IF Len(Unread) = BuffSize - 1 THEN <<>> ELSE Append(Unread, c)
PROOF
  <1> DEFINE h == Head(console_input_list)
  <1>1. RingInv /\ ReadersInv /\ WokenFindInput
    BY DEF IndInv
  <1>2. /\ buff' = [buff EXCEPT ![wpos] = c] /\ wpos' = Wrap(wpos + 1)
        /\ wakeup_interruptible /\ Excuse(excuse \/ Wrap(wpos + 1) = rpos)
    BY DEF put
  <1>3. /\ RingInv'
        /\ Wrap(wpos + 1) = rpos => Len(Unread) = BuffSize - 1 /\ Unread' = <<>>
        /\ Wrap(wpos + 1) # rpos =>
             Len(Unread) # BuffSize - 1 /\ Unread' = Append(Unread, c)
        /\ Wrap(wpos + 1) # rpos => Len(Unread)' = Len(Unread) + 1
    BY <1>1, <1>2, PutRing
  <1>4. Len(Unread)' \in Nat
    BY <1>3, UnreadNext, LenProperties DEF UnreadFacts
  <1>5. ReadersInv' /\ (Keyed' = Keyed \/ (h \in Readers /\ Keyed' = Keyed \cup {h}))
    <2>1. excuse' \in BOOLEAN
      BY <1>2 DEF Excuse
    <2>2. CASE console_input_list = <<>>
      <3>1. UNCHANGED <<console_input_list, rd>>
        BY <1>2, <2>2 DEF wakeup_interruptible
      <3> QED
        BY <1>1, <2>1, <3>1 DEF ReadersInv, Keyed, Awake
    <2>3. CASE console_input_list # <<>>
      <3>1. /\ console_input_list' = Tail(console_input_list)
            /\ rd' = [rd EXCEPT ![h] = "key"]
        BY <1>2, <2>3 DEF wakeup_interruptible
      <3>2. /\ h \in Readers /\ Contains(console_input_list, h)
            /\ Tail(console_input_list) \in Seq(Readers)
            /\ IsInjective(Tail(console_input_list))
            /\ \A x : Contains(Tail(console_input_list), x) <=>
                        Contains(console_input_list, x) /\ x # h
        BY <1>1, <2>3, TailList, TailContains DEF ReadersInv
      <3>3. rd[h] = "asleep"
        BY <1>1, <3>2 DEF ReadersInv
      <3>4. rd' \in [Readers -> {"user", "asleep", "key", "signal"}]
        BY <1>1, <3>1, <3>2 DEF ReadersInv
      <3>5. \A t \in Readers : rd'[t] = IF t = h THEN "key" ELSE rd[t]
        BY <1>1, <3>1, <3>2 DEF ReadersInv
      <3>6. \A t \in Readers : Contains(console_input_list', t) <=> rd'[t] = "asleep"
        BY <1>1, <3>1, <3>2, <3>5 DEF ReadersInv
      <3>7. polled' \subseteq Readers /\ \A t \in polled' : Awake(t)'
        BY <1>1, <3>5 DEF ReadersInv, Awake
      <3>8. ReadersInv'
        BY <1>1, <2>1, <3>1, <3>2, <3>4, <3>6, <3>7 DEF ReadersInv
      <3>9. Keyed' = Keyed \cup {h}
        BY <3>2, <3>5 DEF Keyed
      <3> QED
        BY <3>2, <3>8, <3>9
    <2> QED
      BY <2>2, <2>3
  <1>6. WokenFindInput'
    <2>1. CASE excuse'
      BY <2>1 DEF WokenFindInput
    <2>2. CASE ~excuse' /\ (excuse \/ Wrap(wpos + 1) = rpos)
      BY <1>2, <1>4, <2>2, Excused
    <2>3. CASE ~excuse /\ Wrap(wpos + 1) # rpos
      <3>1. Keyed \in SUBSET Readers
        BY DEF Keyed
      <3>2. Cardinality(Keyed) \in Nat /\ Cardinality(Keyed') \in Nat
        BY <3>1, <1>5, KeyedCount
      <3>3. Cardinality(Keyed') <= Cardinality(Keyed) + 1
        BY <3>1, <3>2, <1>5, KeyedCount
      <3>4. Cardinality(Keyed) <= Len(Unread)
        BY <1>1, <2>3 DEF WokenFindInput, Keyed
      <3>5. Len(Unread) \in Nat /\ Len(Unread)' = Len(Unread) + 1
        BY <1>1, <1>3, <2>3, UnreadSeq, LenProperties DEF UnreadFacts
      <3>6. Cardinality(Keyed') <= Len(Unread)'
        BY <3>2, <3>3, <3>4, <3>5
      <3> QED
        BY <3>6 DEF WokenFindInput, Keyed
    <2> QED
      BY <1>1, <2>1, <2>2, <2>3 DEF ReadersInv
  <1>7. Unread' = IF Len(Unread) = BuffSize - 1 THEN <<>> ELSE Append(Unread, c)
    BY <1>3
  <1> QED
    BY <1>3, <1>5, <1>6, <1>7 DEF IndInv

\* A character of the keyboard, of the serial port or of the key that started
\* the monitor goes to the queue.
LEMMA PutStep ==
  ASSUME IndInv, NEW c \in Chars, put(c), UNCHANGED <<rpos, polled, saved, given>>
  PROVE  IndInv' /\ Queue!Next
PROOF
  <1>1. IndInv' /\ Unread' = IF Len(Unread) = BuffSize - 1 THEN <<>> ELSE Append(Unread, c)
    BY PutInv
  <1>2. Queue!Type(c)
    BY <1>1 DEF Queue!Type
  <1> QED
    BY <1>1, <1>2 DEF Queue!Next

\* A turn of the loop puts in at most one character.
LEMMA TurnStep ==
  ASSUME IndInv, console_interrupt_turn
  PROVE  IndInv' /\ (Queue!Next \/ UNCHANGED <<Unread, given>>)
PROOF
  <1> DEFINE k == keyboard_getc(shift, Head(wire))
  <1>1. UNCHANGED <<rpos, polled, saved, given>>
    BY DEF console_interrupt_turn
  <1>2. k.c \in Chars \cup {NO}
    BY GetcGives
  <1>3. CASE k.c # NO /\ put(k.c)
    <2>1. PICK c : c = k.c
      OBVIOUS
    <2>2. c \in Chars /\ put(c)
      BY <1>2, <1>3, <2>1
    <2> QED
      BY <1>1, <2>2, PutStep
  <1>4. CASE UNCHANGED <<buff, wpos, console_input_list, rd, excuse>>
    <2>1. Unread' = Unread /\ RingInv'
      BY <1>1, <1>4, SameRing DEF ringVars, IndInv
    <2>2. ReadersInv' /\ WokenFindInput'
      BY <1>1, <1>4, <2>1 DEF IndInv, ReadersInv, WokenFindInput, Awake
    <2> QED
      BY <1>1, <2>1, <2>2 DEF IndInv
  <1> QED
    BY <1>3, <1>4 DEF console_interrupt_turn

\* So do a turn of the serial port's poll and the end of a monitor.
LEMMA OtherPuts ==
  ASSUME IndInv, COM1_getc_turn \/ command_continue
  PROVE  IndInv' /\ Queue!Next
PROOF
  <1>1. UNCHANGED <<rpos, polled, saved, given>>
    BY DEF COM1_getc_turn, command_continue
  <1>2. PICK c \in Chars : put(c)
    BY DEF COM1_getc_turn, command_continue, Chars, KeyChars
  <1> QED
    BY <1>1, <1>2, PutStep

\* The monitor takes the first character.
LEMMA MonitorStep ==
  ASSUME IndInv, monitor_getchar
  PROVE  IndInv' /\ Queue!Next
PROOF
  <1>1. /\ RingInv /\ rpos # wpos /\ rpos' = Wrap(rpos + 1) /\ Excuse(TRUE)
        /\ UNCHANGED <<buff, wpos, console_input_list, rd, polled, saved, given>>
    BY DEF IndInv, monitor_getchar
  <1>2. RingInv' /\ Unread # <<>> /\ Unread' = Tail(Unread)
    BY <1>1, TakeRing
  <1>3. Len(Unread)' \in Nat
    BY <1>2, UnreadNext, LenProperties DEF UnreadFacts
  <1>4. ReadersInv'
    BY <1>1 DEF IndInv, ReadersInv, Awake, Excuse
  <1>5. WokenFindInput'
    <2>1. CASE excuse'
      BY <2>1 DEF WokenFindInput
    <2>2. CASE ~excuse'
      BY <1>1, <1>3, <2>2, Excused
    <2> QED
      BY <1>4, <2>1, <2>2 DEF ReadersInv
  <1>6. Queue!Lose
    BY <1>1, <1>2 DEF Queue!Lose
  <1> QED
    BY <1>2, <1>4, <1>5, <1>6 DEF IndInv, Queue!Next

\* console_getc takes the first character, if there is one.
LEMMA TakeStep ==
  ASSUME IndInv, NEW t \in Readers, console_getc_take(t)
  PROVE  IndInv' /\ (Queue!Next \/ UNCHANGED <<Unread, given>>)
PROOF
  <1>1. RingInv /\ ReadersInv /\ WokenFindInput
    BY DEF IndInv
  <1>2. /\ t \in polled /\ polled' = polled \ {t} /\ rd' = [rd EXCEPT ![t] = "user"]
        /\ UNCHANGED <<buff, wpos, console_input_list, saved>>
    BY DEF console_getc_take
  <1>3. rd[t] \in {"key", "signal"}
    BY <1>1, <1>2 DEF ReadersInv, Awake
  <1>4. excuse' \in BOOLEAN
    BY DEF console_getc_take, Excuse
  <1>5. ReadersInv'
    <2>1. /\ rd' \in [Readers -> {"user", "asleep", "key", "signal"}]
          /\ \A u \in Readers : rd'[u] = IF u = t THEN "user" ELSE rd[u]
      BY <1>1, <1>2 DEF ReadersInv
    <2>2. \A u \in Readers : Contains(console_input_list', u) <=> rd'[u] = "asleep"
      BY <1>1, <1>2, <1>3, <2>1 DEF ReadersInv
    <2>3. polled' \subseteq Readers /\ \A u \in polled' : Awake(u)'
      BY <1>1, <1>2, <2>1 DEF ReadersInv, Awake
    <2> QED
      BY <1>1, <1>2, <1>4, <2>1, <2>2, <2>3 DEF ReadersInv
  <1>6. Keyed \in SUBSET Readers /\ Keyed' = Keyed \ {t}
    BY <1>1, <1>2 DEF ReadersInv, Keyed
  <1>7. /\ Cardinality(Keyed) \in Nat /\ Cardinality(Keyed') \in Nat
        /\ Cardinality(Keyed') <= Cardinality(Keyed)
        /\ t \in Keyed => Cardinality(Keyed') = Cardinality(Keyed) - 1
    BY <1>6, KeyedCount
  <1>8. Len(Unread) \in Nat
    BY <1>1, UnreadSeq, LenProperties, SMTT(30) DEF UnreadFacts
  <1>9. CASE rpos # wpos
    <2>1. /\ given' = given \/ given' = buff[rpos]
          /\ rpos' = Wrap(rpos + 1)
          /\ Excuse(excuse \/ rd[t] # "key")
      BY <1>9 DEF console_getc_take
    <2>2. /\ RingInv' /\ Unread # <<>> /\ Head(Unread) = buff[rpos]
          /\ Unread' = Tail(Unread) /\ Len(Unread)' = Len(Unread) - 1
      BY <1>1, <1>2, <1>9, <2>1, TakeRing
    <2>3. Len(Unread)' \in Nat
      BY <2>2, UnreadNext, LenProperties DEF UnreadFacts
    <2>4. WokenFindInput'
      <3>1. CASE excuse'
        BY <3>1 DEF WokenFindInput
      <3>2. CASE ~excuse' /\ (excuse \/ rd[t] # "key")
        BY <2>1, <2>3, <3>2, Excused
      <3>3. CASE ~excuse /\ rd[t] = "key"
        <4>1. t \in Keyed /\ Cardinality(Keyed) <= Len(Unread)
          BY <1>1, <1>3, <3>3 DEF WokenFindInput, Keyed
        <4>2. Cardinality(Keyed') <= Len(Unread)'
          BY <1>7, <1>8, <2>2, <4>1
        <4> QED
          BY <4>2 DEF WokenFindInput, Keyed
      <3> QED
        BY <1>1, <3>1, <3>2, <3>3 DEF ReadersInv
    <2>5. Queue!Read \/ Queue!Lose
      BY <2>1, <2>2 DEF Queue!Read, Queue!Lose
    <2> QED
      BY <1>5, <2>2, <2>4, <2>5 DEF IndInv, Queue!Next
  <1>10. CASE rpos = wpos
    <2>1. UNCHANGED <<given, rpos>> /\ Excuse(excuse)
      BY <1>10 DEF console_getc_take
    <2>2. Unread' = Unread /\ RingInv' /\ Len(Unread)' = Len(Unread)
      BY <1>1, <1>2, <2>1, SameRing DEF ringVars
    <2>3. WokenFindInput'
      <3>1. CASE excuse'
        BY <3>1 DEF WokenFindInput
      <3>2. CASE ~excuse' /\ excuse
        BY <1>8, <2>1, <2>2, <3>2, Excused
      <3>3. CASE ~excuse
        <4>1. Cardinality(Keyed) <= Len(Unread)
          BY <1>1, <3>3 DEF WokenFindInput, Keyed
        <4>2. Cardinality(Keyed') <= Len(Unread)'
          BY <1>7, <1>8, <2>2, <4>1
        <4> QED
          BY <4>2 DEF WokenFindInput, Keyed
      <3> QED
        BY <1>1, <3>1, <3>2, <3>3 DEF ReadersInv
    <2> QED
      BY <1>5, <2>1, <2>2, <2>3 DEF IndInv
  <1> QED
    BY <1>9, <1>10

\* What a step outside the ring does: it reads nothing and types nothing.
LEMMA OtherSteps ==
  ASSUME IndInv,
         \/ UseKey \/ do_irq_keyboard \/ console_interrupt_end
         \/ \E t \in Readers : console_getc(t)
  PROVE  IndInv' /\ UNCHANGED <<Unread, given>>
PROOF
  <1>1. /\ UNCHANGED ringVars
        /\ UNCHANGED <<console_input_list, rd, saved, given, excuse>>
    BY DEF UseKey, do_irq_keyboard, console_interrupt_end, console_getc, readerVars
  <1>2. RingInv' /\ Unread' = Unread
    BY <1>1, SameRing DEF IndInv
  <1>3. \/ polled' = polled
        \/ \E t \in Readers : Awake(t) /\ polled' = polled \cup {t}
    BY DEF UseKey, do_irq_keyboard, console_interrupt_end, console_getc, readerVars
  <1>4. polled' \subseteq Readers /\ \A t \in polled' : Awake(t)'
    BY <1>1, <1>3 DEF IndInv, ReadersInv, Awake
  <1>5. ReadersInv' /\ WokenFindInput'
    BY <1>1, <1>2, <1>4 DEF IndInv, ReadersInv, WokenFindInput
  <1> QED
    BY <1>1, <1>2, <1>5 DEF IndInv

\* A reader falls asleep.
LEMMA CgetcStep ==
  ASSUME IndInv, NEW t \in Readers, sys_cgetc(t)
  PROVE  IndInv' /\ UNCHANGED <<Unread, given>>
PROOF
  <1>1. /\ rd[t] = "user" /\ rd' = [rd EXCEPT ![t] = "asleep"]
        /\ console_input_list' = Append(console_input_list, t)
        /\ UNCHANGED ringVars /\ UNCHANGED <<polled, saved, given, excuse>>
    BY DEF sys_cgetc, sleep_interruptible
  <1>2. RingInv' /\ Unread' = Unread
    BY <1>1, SameRing DEF IndInv
  <1>3. ReadersInv /\ ~Contains(console_input_list, t)
    BY <1>1 DEF IndInv, ReadersInv
  <1>4. /\ console_input_list' \in Seq(Readers) /\ IsInjective(console_input_list')
        /\ \A x : Contains(console_input_list', x) <=> Contains(console_input_list, x) \/ x = t
    BY <1>1, <1>3, AppendList DEF ReadersInv
  <1>5. /\ rd' \in [Readers -> {"user", "asleep", "key", "signal"}]
        /\ \A u \in Readers : rd'[u] = IF u = t THEN "asleep" ELSE rd[u]
    BY <1>1, <1>3 DEF ReadersInv
  <1>6. t \notin polled
    BY <1>1, <1>3 DEF ReadersInv, Awake
  <1>7. polled' \subseteq Readers /\ \A u \in polled' : Awake(u)'
    BY <1>1, <1>3, <1>5, <1>6 DEF ReadersInv, Awake
  <1>8. \A u \in Readers : Contains(console_input_list', u) <=> rd'[u] = "asleep"
    BY <1>3, <1>4, <1>5 DEF ReadersInv
  <1>9. ReadersInv'
    BY <1>1, <1>3, <1>4, <1>5, <1>7, <1>8 DEF ReadersInv
  <1>10. Keyed' = Keyed
    BY <1>1, <1>5 DEF Keyed
  <1>11. WokenFindInput'
    BY <1>1, <1>2, <1>10 DEF IndInv, WokenFindInput, Keyed
  <1> QED
    BY <1>1, <1>2, <1>9, <1>11 DEF IndInv

\* A signal takes a reader out of the list without a character for it.
LEMMA SignalStep ==
  ASSUME IndInv, NEW t \in Readers, send_signal(t)
  PROVE  IndInv' /\ UNCHANGED <<Unread, given>>
PROOF
  <1>1. /\ rd[t] = "asleep" /\ rd' = [rd EXCEPT ![t] = "signal"]
        /\ console_input_list' = RemoveFirst(console_input_list, t)
        /\ UNCHANGED ringVars /\ UNCHANGED <<polled, saved, given, excuse>>
    BY DEF send_signal
  <1>2. RingInv' /\ Unread' = Unread
    BY <1>1, SameRing DEF IndInv
  <1>3. ReadersInv
    BY DEF IndInv
  <1>4. /\ console_input_list' \in Seq(Readers) /\ IsInjective(console_input_list')
        /\ \A x : Contains(console_input_list', x) <=> Contains(console_input_list, x) /\ x # t
    BY <1>1, <1>3, RemoveFirstList DEF ReadersInv
  <1>5. /\ rd' \in [Readers -> {"user", "asleep", "key", "signal"}]
        /\ \A u \in Readers : rd'[u] = IF u = t THEN "signal" ELSE rd[u]
    BY <1>1, <1>3 DEF ReadersInv
  <1>6. polled' \subseteq Readers /\ \A u \in polled' : Awake(u)'
    BY <1>1, <1>3, <1>5 DEF ReadersInv, Awake
  <1>7. \A u \in Readers : Contains(console_input_list', u) <=> rd'[u] = "asleep"
    BY <1>3, <1>4, <1>5 DEF ReadersInv
  <1>8. ReadersInv'
    BY <1>1, <1>3, <1>4, <1>5, <1>6, <1>7 DEF ReadersInv
  <1>9. Keyed' = Keyed
    BY <1>1, <1>5 DEF Keyed
  <1>10. WokenFindInput'
    BY <1>1, <1>2, <1>9 DEF IndInv, WokenFindInput, Keyed
  <1> QED
    BY <1>1, <1>2, <1>8, <1>10 DEF IndInv

\* A stack is saved: nothing is read or typed.
LEMMA HandlerStep ==
  ASSUME IndInv, NEW t \in Readers, check_signals(t)
  PROVE  IndInv' /\ UNCHANGED <<Unread, given>>
PROOF
  <1>1. /\ UNCHANGED ringVars
        /\ UNCHANGED <<console_input_list, rd, polled, given, excuse>>
    BY DEF check_signals
  <1>2. RingInv' /\ Unread' = Unread
    BY <1>1, SameRing DEF IndInv
  <1> DEFINE S == [polled : BOOLEAN, handler : BOOLEAN]
  <1>3. saved' \in [Readers -> Seq(S)]
    <2>1. PICK x \in S : x = [polled |-> t \in polled, handler |-> t \in handler]
      <3>1. (t \in polled) \in BOOLEAN /\ (t \in handler) \in BOOLEAN
        OBVIOUS
      <3>2. \A a, b \in BOOLEAN : [polled |-> a, handler |-> b] \in S
        OBVIOUS
      <3>3. [polled |-> t \in polled, handler |-> t \in handler] \in S
        BY <3>1, <3>2, Zenon
      <3> QED
        BY <3>3, Zenon
    <2>2. saved' = [saved EXCEPT ![t] = <<x>> \o @] /\ saved \in [Readers -> Seq(S)]
      BY <2>1 DEF check_signals, IndInv, ReadersInv
    <2> HIDE DEF S
    <2>3. <<x>> \o saved[t] \in Seq(S)
      BY <2>2, ConcatProperties
    <2> QED
      BY <2>2, <2>3
  <1>4. ReadersInv' /\ WokenFindInput'
    BY <1>1, <1>2, <1>3 DEF IndInv, ReadersInv, WokenFindInput, Awake
  <1> QED
    BY <1>1, <1>2, <1>4 DEF IndInv

\* A handler is over, and the call goes on without a character of its own.
LEMMA ReturnStep ==
  ASSUME IndInv, NEW t \in Readers, signal_return(t)
  PROVE  IndInv' /\ UNCHANGED <<Unread, given>>
PROOF
  <1>1. /\ rd[t] = "user" /\ rd' = [rd EXCEPT ![t] = "signal"]
        /\ saved[t] # <<>> /\ saved' = [saved EXCEPT ![t] = Tail(@)]
        /\ polled' \in {polled, polled \cup {t}}
        /\ UNCHANGED ringVars /\ UNCHANGED <<console_input_list, given, excuse>>
    BY DEF signal_return
  <1>2. RingInv' /\ Unread' = Unread
    BY <1>1, SameRing DEF IndInv
  <1>3. ReadersInv
    BY DEF IndInv
  <1>4. /\ rd' \in [Readers -> {"user", "asleep", "key", "signal"}]
        /\ \A u \in Readers : rd'[u] = IF u = t THEN "signal" ELSE rd[u]
    BY <1>1, <1>3 DEF ReadersInv
  <1>5. polled' \subseteq Readers /\ \A u \in polled' : Awake(u)'
    BY <1>1, <1>3, <1>4 DEF ReadersInv, Awake
  <1>6. saved' \in [Readers -> Seq([polled : BOOLEAN, handler : BOOLEAN])]
    <2> DEFINE S == [polled : BOOLEAN, handler : BOOLEAN]
    <2>1. saved \in [Readers -> Seq(S)]
      BY <1>3 DEF ReadersInv
    <2> HIDE DEF S
    <2>2. Tail(saved[t]) \in Seq(S)
      BY <1>1, <2>1, HeadTailProperties
    <2>3. saved' \in [Readers -> Seq(S)]
      BY <1>1, <2>1, <2>2
    <2> QED
      BY <2>3 DEF S
  <1>7. \A u \in Readers : Contains(console_input_list', u) <=> rd'[u] = "asleep"
    BY <1>1, <1>3, <1>4 DEF ReadersInv
  <1>8. ReadersInv'
    BY <1>1, <1>3, <1>4, <1>5, <1>6, <1>7 DEF ReadersInv
  <1>9. Keyed' = Keyed
    BY <1>1, <1>4 DEF Keyed
  <1>10. WokenFindInput'
    BY <1>1, <1>2, <1>9 DEF IndInv, WokenFindInput, Keyed
  <1> QED
    BY <1>1, <1>2, <1>8, <1>10 DEF IndInv

\* A reader dies, and leaves the character it was woken for.
LEMMA ExitStep ==
  ASSUME IndInv, NEW t \in Readers, do_exit(t)
  PROVE  IndInv' /\ UNCHANGED <<Unread, given>>
PROOF
  <1>1. /\ rd[t] # "asleep" /\ rd' = [rd EXCEPT ![t] = "user"] /\ polled' = polled \ {t}
        /\ saved' = [saved EXCEPT ![t] = <<>>] /\ Excuse(excuse)
        /\ UNCHANGED ringVars /\ UNCHANGED <<console_input_list, given>>
    BY DEF do_exit
  <1>2. RingInv' /\ Unread' = Unread /\ Len(Unread)' = Len(Unread)
    BY <1>1, SameRing DEF IndInv
  <1>3. ReadersInv /\ RingInv /\ WokenFindInput
    BY DEF IndInv
  <1>4. /\ rd' \in [Readers -> {"user", "asleep", "key", "signal"}]
        /\ \A u \in Readers : rd'[u] = IF u = t THEN "user" ELSE rd[u]
    BY <1>1, <1>3 DEF ReadersInv
  <1>5. polled' \subseteq Readers /\ \A u \in polled' : Awake(u)'
    BY <1>1, <1>3, <1>4 DEF ReadersInv, Awake
  <1>6. saved' \in [Readers -> Seq([polled : BOOLEAN, handler : BOOLEAN])]
    BY <1>1, <1>3, EmptySeq DEF ReadersInv
  <1>7. \A u \in Readers : Contains(console_input_list', u) <=> rd'[u] = "asleep"
    BY <1>1, <1>3, <1>4 DEF ReadersInv
  <1>8. ReadersInv'
    BY <1>1, <1>3, <1>4, <1>5, <1>6, <1>7 DEF ReadersInv, Excuse
  <1>9. Keyed \in SUBSET Readers /\ Keyed' \in SUBSET Keyed
    BY <1>1, <1>4 DEF Keyed
  <1>10. /\ Cardinality(Keyed) \in Nat /\ Cardinality(Keyed') \in Nat
         /\ Cardinality(Keyed') <= Cardinality(Keyed)
    BY <1>9, KeyedCount
  <1>11. Len(Unread) \in Nat
    BY <1>3, UnreadSeq, LenProperties, SMTT(30) DEF UnreadFacts
  <1>12. WokenFindInput'
    <2>1. CASE excuse'
      BY <2>1 DEF WokenFindInput
    <2>2. CASE ~excuse' /\ excuse
      BY <1>1, <1>2, <1>11, <2>2, Excused
    <2>3. CASE ~excuse
      <3>1. Cardinality(Keyed) <= Len(Unread)
        BY <1>3, <2>3 DEF WokenFindInput, Keyed
      <3>2. Cardinality(Keyed') <= Len(Unread)'
        BY <1>2, <1>10, <1>11, <3>1
      <3> QED
        BY <3>2 DEF WokenFindInput, Keyed
    <2> QED
      BY <1>3, <1>8, <2>1, <2>2, <2>3 DEF ReadersInv
  <1> QED
    BY <1>1, <1>2, <1>8, <1>12 DEF IndInv

-----------------------------------------------------------------------------
(* The theorems.                                                           *)

\* The console starts with nothing to read and nobody waiting.
LEMMA InitInv ==
  Init => IndInv /\ Unread = <<>>
PROOF
  <1> SUFFICES ASSUME Init PROVE IndInv /\ Unread = <<>>
    OBVIOUS
  <1>1. RingInv
    BY ConsoleAssumption DEF Init, RingInv, NO
  <1>2. Unread = <<>> /\ Len(Unread) \in Nat
    BY <1>1, UnreadSeq, LenProperties DEF Init, UnreadFacts
  <1>3. ReadersInv
    <2>1. <<>> \in Seq(Readers) /\ Len(<<>>) = 0
      BY EmptySeq
    <2>2. IsInjective(<<>>) /\ \A t : ~Contains(<<>>, t)
      BY DEF IsInjective, Contains
    <2>3. saved \in [Readers -> Seq([polled : BOOLEAN, handler : BOOLEAN])]
      BY EmptySeq DEF Init
    <2> QED
      BY <2>1, <2>2, <2>3 DEF Init, ReadersInv
  <1>4. WokenFindInput
    <2>1. {t \in Readers : rd[t] = "key"} = {}
      BY DEF Init
    <2> QED
      BY <1>2, <2>1, FS_EmptySet DEF WokenFindInput
  <1> QED
    BY <1>1, <1>2, <1>3, <1>4 DEF IndInv

\* Every step keeps the invariant and is a step of the queue or none.
LEMMA StepInv ==
  ASSUME IndInv, [Next]_vars
  PROVE  IndInv' /\ (Queue!Next \/ UNCHANGED <<Unread, given>>)
PROOF
  <1>1. CASE UNCHANGED vars
    <2>1. Unread' = Unread /\ RingInv'
      BY <1>1, SameRing DEF vars, IndInv
    <2>2. ReadersInv' /\ WokenFindInput'
      BY <1>1, <2>1 DEF vars, readerVars, IndInv, ReadersInv, WokenFindInput, Awake
    <2> QED
      BY <1>1, <2>1, <2>2 DEF vars, readerVars, IndInv
  <1>2. CASE UseKey \/ do_irq_keyboard \/ console_interrupt_end
    BY <1>2, OtherSteps
  <1>3. CASE console_interrupt_turn
    BY <1>3, TurnStep
  <1>4. ASSUME NEW t \in Readers, sys_cgetc(t)
        PROVE  IndInv' /\ (Queue!Next \/ UNCHANGED <<Unread, given>>)
    BY <1>4, CgetcStep
  <1>5. ASSUME NEW t \in Readers, send_signal(t)
        PROVE  IndInv' /\ (Queue!Next \/ UNCHANGED <<Unread, given>>)
    BY <1>5, SignalStep
  <1>6. ASSUME NEW t \in Readers, console_getc(t)
        PROVE  IndInv' /\ (Queue!Next \/ UNCHANGED <<Unread, given>>)
    BY <1>6, OtherSteps
  <1>7. ASSUME NEW t \in Readers, console_getc_take(t)
        PROVE  IndInv' /\ (Queue!Next \/ UNCHANGED <<Unread, given>>)
    BY <1>7, TakeStep
  <1>8. CASE COM1_getc_turn \/ command_continue \/ monitor_getchar
    BY <1>8, OtherPuts, MonitorStep
  <1>9. ASSUME NEW t \in Readers, check_signals(t) \/ signal_return(t) \/ do_exit(t)
        PROVE  IndInv' /\ (Queue!Next \/ UNCHANGED <<Unread, given>>)
    BY <1>9, HandlerStep, ReturnStep, ExitStep
  <1> QED
    BY <1>1, <1>2, <1>3, <1>4, <1>5, <1>6, <1>7, <1>8, <1>9 DEF Next

\* The ring's positions, the wait list and the readers awake for a character
\* agree in every state of console.cpp.
THEOREM Invariance == Spec => []IndInv
PROOF
  <1>1. Init => IndInv
    BY InitInv
  <1>2. IndInv /\ [Next]_vars => IndInv'
    BY StepInv
  <1> QED
    BY <1>1, <1>2, PTL DEF Spec

\* For every ring size and any readers, a reader that wakeup_interruptible
\* woke for a key finds a character in console_getc, unless the ring was
\* lapped or somebody was faster who was not woken for one: a reader woken by
\* a signal, the second run of a call that a handler interrupted, or the
\* kernel monitor.
THEOREM WokenReadersServed == Spec => []WokenFindInput
PROOF
  <1>1. IndInv => WokenFindInput
    BY DEF IndInv
  <1> QED
    BY <1>1, Invariance, PTL

\* For every ring size and any readers, the ring of console_interrupt and
\* console_getc implements the input queue: first in, first out, at most one
\* reader for each character, and all forgotten when it fills.
THEOREM ConsoleIsQueue == Spec => ImplementsInput
PROOF
  <1>1. Init => Unread = <<>> /\ given = 0
    BY InitInv DEF Init
  <1>2. IndInv /\ [Next]_vars => [Queue!Next]_<<Unread, given>>
    BY StepInv
  <1> QED
    BY <1>1, <1>2, Invariance, PTL DEF Spec, ImplementsInput, Queue!Spec

-----------------------------------------------------------------------------
(* Modifier keys.  The bytes on the wire are described by what shift will  *)
(* be once they are decoded: then every modifier that is on is held and no *)
(* escape is open.  In between, keys are cut anywhere.                     *)

ModBits == {"SHIFT", "CTL", "ALT"}
ShiftBits == ModBits \cup {"CAPSLOCK", "NUMLOCK", "SCROLLLOCK", "E0ESC"}
Byte == 0 .. 255

\* shift after a byte
After(s, b) == keyboard_getc(s, b).shift

\* The bytes of w take shift from s to e.
Decodes(s, w, e) ==
  \E r \in [0 .. Len(w) -> SUBSET ShiftBits] :
    /\ r[0] = s /\ r[Len(w)] = e
    /\ \A i \in 1 .. Len(w) : r[i] = After(r[i - 1], w[i])

\* With the keys h held, nothing in e is stuck.
Settled(e, h) ==
  /\ "E0ESC" \notin e
  /\ \A bit \in e \cap ModBits : \E k \in h : k.bit = bit

ModifierInv ==
  /\ wire \in Seq(Byte) /\ shift \in SUBSET ShiftBits /\ held \subseteq Modifiers
  /\ \E e \in SUBSET ShiftBits : Decodes(shift, wire, e) /\ Settled(e, held)

\* The bits of the table of keyboard_init
LEMMA CodeBits ==
  ASSUME NEW d
  PROVE  /\ shiftcode(d) \in SUBSET ModBits
         /\ togglecode(d) \in SUBSET {"CAPSLOCK", "NUMLOCK", "SCROLLLOCK"}
  BY DEF shiftcode, togglecode, ModBits

\* The escape is noted.
LEMMA EscapeByte ==
  ASSUME NEW s \in SUBSET ShiftBits
  PROVE  After(s, 224) = s \cup {"E0ESC"} /\ After(s, 224) \in SUBSET ShiftBits
  BY DEF After, keyboard_getc, ShiftBits

\* A key pressed turns on its bit, toggles apart, and closes the escape.
LEMMA PressByte ==
  ASSUME NEW s \in SUBSET ShiftBits, NEW b \in 0 .. 127
  PROVE  /\ After(s, b) \in SUBSET ShiftBits /\ "E0ESC" \notin After(s, b)
         /\ \A bit \in ModBits :
              bit \in After(s, b) <=>
                bit \in s \/ bit \in shiftcode(KeyCode("E0ESC" \in s, b))
PROOF
  <1> DEFINE code == KeyCode("E0ESC" \in s, b)
  <1>1. After(s, b) = pressed(s, code)
    BY DEF After, keyboard_getc, KeyCode
  <1>2. /\ shiftcode(code) \in SUBSET ModBits
        /\ togglecode(code) \in SUBSET {"CAPSLOCK", "NUMLOCK", "SCROLLLOCK"}
    BY CodeBits
  <1> HIDE DEF code
  <1>3. pressed(s, code) = (((s \ {"E0ESC"}) \cup shiftcode(code)) \ togglecode(code))
                             \cup (togglecode(code) \ ((s \ {"E0ESC"}) \cup shiftcode(code)))
    BY DEF pressed, SymDiff
  <1>4. "E0ESC" \notin shiftcode(code) /\ "E0ESC" \notin togglecode(code)
    BY <1>2 DEF ModBits
  <1>5. \A bit \in ModBits : bit \notin togglecode(code) /\ bit # "E0ESC"
    BY <1>2 DEF ModBits
  <1>6. After(s, b) \in SUBSET ShiftBits
    BY <1>1, <1>2, <1>3 DEF ShiftBits
  <1>7. "E0ESC" \notin After(s, b)
    BY <1>1, <1>3, <1>4
  <1>8. \A bit \in ModBits : bit \in After(s, b) <=> bit \in s \/ bit \in shiftcode(code)
    BY <1>1, <1>3, <1>5
  <1> QED
    BY <1>6, <1>7, <1>8 DEF code

\* A key released turns off its bit and closes the escape.
LEMMA ReleaseByte ==
  ASSUME NEW s \in SUBSET ShiftBits, NEW b \in 0 .. 95
  PROVE  After(s, b + 128) = s \ (shiftcode(KeyCode("E0ESC" \in s, b)) \cup {"E0ESC"})
PROOF
  <1>1. b + 128 >= 128 /\ b + 128 # 224 /\ (b + 128) % 128 = b
    OBVIOUS
  <1>2. After(s, b + 128) = released(s, b + 128)
    BY <1>1 DEF After, keyboard_getc
  <1> QED
    BY <1>1, <1>2 DEF released, KeyCode

\* Bytes are decoded from the front of the wire
LEMMA DecodesTail ==
  ASSUME NEW w \in Seq(Byte), w # <<>>, NEW s \in SUBSET ShiftBits,
         NEW e \in SUBSET ShiftBits, Decodes(s, w, e)
  PROVE  /\ Decodes(After(s, Head(w)), Tail(w), e)
         /\ After(s, Head(w)) \in SUBSET ShiftBits
PROOF
  <1>1. PICK r \in [0 .. Len(w) -> SUBSET ShiftBits] :
          /\ r[0] = s /\ r[Len(w)] = e
          /\ \A i \in 1 .. Len(w) : r[i] = After(r[i - 1], w[i])
    BY DEF Decodes
  <1>2. /\ Tail(w) \in Seq(Byte) /\ Head(w) = w[1]
        /\ Len(Tail(w)) = Len(w) - 1 /\ Len(w) \in Nat /\ Len(w) >= 1
        /\ \A i \in 1 .. Len(w) - 1 : Tail(w)[i] = w[i + 1]
    BY HeadTailProperties
  <1> DEFINE q == [i \in 0 .. Len(w) - 1 |-> r[i + 1]]
  <1>3. q \in [0 .. Len(Tail(w)) -> SUBSET ShiftBits]
    BY <1>2
  <1>4. q[0] = After(s, Head(w)) /\ q[Len(Tail(w))] = e
    BY <1>1, <1>2
  <1>5. ASSUME NEW i \in 1 .. Len(Tail(w)) PROVE q[i] = After(q[i - 1], Tail(w)[i])
    <2>1. /\ i + 1 \in 1 .. Len(w) /\ i \in 1 .. Len(w) - 1 /\ i - 1 \in 0 .. Len(w) - 1
          /\ i \in 0 .. Len(w) - 1 /\ (i - 1) + 1 = i /\ (i + 1) - 1 = i
      BY <1>2
    <2>2. q[i] = r[i + 1] /\ q[i - 1] = r[i]
      BY <2>1
    <2>3. r[i + 1] = After(r[i], w[i + 1])
      BY <1>1, <2>1
    <2> QED
      BY <1>2, <2>1, <2>2, <2>3
  <1>6. After(s, Head(w)) \in SUBSET ShiftBits
    BY <1>2, <1>3, <1>4
  <1> HIDE DEF q
  <1> QED
    BY <1>3, <1>4, <1>5, <1>6 DEF Decodes

\* and come at its end.
LEMMA DecodesAppend ==
  ASSUME NEW w \in Seq(Byte), NEW b \in Byte, NEW s \in SUBSET ShiftBits,
         NEW e \in SUBSET ShiftBits, Decodes(s, w, e), After(e, b) \in SUBSET ShiftBits
  PROVE  Append(w, b) \in Seq(Byte) /\ Decodes(s, Append(w, b), After(e, b))
PROOF
  <1>1. PICK r \in [0 .. Len(w) -> SUBSET ShiftBits] :
          /\ r[0] = s /\ r[Len(w)] = e
          /\ \A i \in 1 .. Len(w) : r[i] = After(r[i - 1], w[i])
    BY DEF Decodes
  <1>2. /\ Append(w, b) \in Seq(Byte) /\ Len(Append(w, b)) = Len(w) + 1
        /\ \A i \in 1 .. Len(w) : Append(w, b)[i] = w[i]
        /\ Append(w, b)[Len(w) + 1] = b /\ Len(w) \in Nat
    BY AppendProperties
  <1> DEFINE q == [i \in 0 .. Len(w) + 1 |-> IF i = Len(w) + 1 THEN After(e, b) ELSE r[i]]
  <1>3. q \in [0 .. Len(Append(w, b)) -> SUBSET ShiftBits]
    <2>1. ASSUME NEW i \in 0 .. Len(w) + 1 PROVE q[i] \in SUBSET ShiftBits
      <3>1. CASE i = Len(w) + 1
        BY <3>1
      <3>2. CASE i # Len(w) + 1
        <4>1. i \in 0 .. Len(w)
          BY <1>2, <3>2
        <4> QED
          BY <1>1, <3>2, <4>1
      <3> QED
        BY <3>1, <3>2
    <2> QED
      BY <1>2, <2>1
  <1>4. q[0] = s /\ q[Len(Append(w, b))] = After(e, b)
    BY <1>1, <1>2
  <1>5. ASSUME NEW i \in 1 .. Len(Append(w, b))
        PROVE  q[i] = After(q[i - 1], Append(w, b)[i])
    <2>1. CASE i = Len(w) + 1
      <3>1. q[i] = After(e, b) /\ q[i - 1] = e
        BY <1>1, <1>2, <2>1
      <3> QED
        BY <1>2, <2>1, <3>1
    <2>2. CASE i # Len(w) + 1
      <3>1. i \in 1 .. Len(w) /\ i - 1 \in 0 .. Len(w) /\ i - 1 # Len(w) + 1
        BY <1>2, <2>2
      <3>2. q[i] = r[i] /\ q[i - 1] = r[i - 1]
        BY <1>2, <2>2, <3>1
      <3> QED
        BY <1>1, <1>2, <3>1, <3>2
    <2> QED
      BY <2>1, <2>2
  <1> HIDE DEF q
  <1> QED
    BY <1>2, <1>3, <1>4, <1>5 DEF Decodes

\* The bytes of a key, one or two, at the end of the wire
LEMMA DecodesKey ==
  ASSUME NEW w \in Seq(Byte), NEW s \in SUBSET ShiftBits,
         NEW e \in SUBSET ShiftBits, Decodes(s, w, e), "E0ESC" \notin e,
         NEW ext \in BOOLEAN, NEW b \in Byte,
         After(IF ext THEN e \cup {"E0ESC"} ELSE e, b) \in SUBSET ShiftBits
  PROVE  /\ w \o KeyBytes(ext, b) \in Seq(Byte)
         /\ Decodes(s, w \o KeyBytes(ext, b), After(IF ext THEN e \cup {"E0ESC"} ELSE e, b))
PROOF
  <1>1. CASE ~ext
    <2>1. w \o KeyBytes(ext, b) = Append(w, b)
      BY <1>1 DEF KeyBytes
    <2> QED
      BY <1>1, <2>1, DecodesAppend
  <1>2. CASE ext
    <2> DEFINE w1 == Append(w, 224)
               e1 == After(e, 224)
    <2>1. w \o KeyBytes(ext, b) = Append(w1, b)
      BY <1>2 DEF KeyBytes
    <2>2. 224 \in Byte
      BY DEF Byte
    <2>3. e1 = e \cup {"E0ESC"} /\ e1 \in SUBSET ShiftBits
      BY EscapeByte
    <2>4. w1 \in Seq(Byte) /\ Decodes(s, w1, e1)
      BY <2>2, <2>3, DecodesAppend
    <2>5. After(e1, b) \in SUBSET ShiftBits
          /\ After(e1, b) = After(IF ext THEN e \cup {"E0ESC"} ELSE e, b)
      BY <1>2, <2>3
    <2> HIDE DEF w1, e1
    <2>6. Append(w1, b) \in Seq(Byte) /\ Decodes(s, Append(w1, b), After(e1, b))
      BY <2>3, <2>4, <2>5, DecodesAppend
    <2> QED
      BY <2>1, <2>5, <2>6
  <1> QED
    BY <1>1, <1>2

\* A key pressed turns on its bit only
LEMMA DecodesMake ==
  ASSUME NEW w \in Seq(Byte), NEW s \in SUBSET ShiftBits,
         NEW e \in SUBSET ShiftBits, Decodes(s, w, e), "E0ESC" \notin e,
         NEW ext \in BOOLEAN, NEW b \in 1 .. 95
  PROVE  /\ w \o Make(ext, b) \in Seq(Byte)
         /\ \E x \in SUBSET ShiftBits :
              /\ Decodes(s, w \o Make(ext, b), x) /\ "E0ESC" \notin x
              /\ \A bit \in ModBits :
                   bit \in x => bit \in e \/ bit \in shiftcode(KeyCode(ext, b))
PROOF
  <1> DEFINE d == IF ext THEN e \cup {"E0ESC"} ELSE e
  <1>1. d \in SUBSET ShiftBits /\ ("E0ESC" \in d <=> ext)
    BY DEF ShiftBits
  <1>2. b \in 0 .. 127 /\ b \in Byte
    BY DEF Byte
  <1>3. KeyCode("E0ESC" \in d, b) = KeyCode(ext, b)
    BY <1>1 DEF KeyCode
  <1>4. \A bit \in ModBits : bit \in d <=> bit \in e
    BY DEF ModBits
  <1>5. /\ After(d, b) \in SUBSET ShiftBits /\ "E0ESC" \notin After(d, b)
        /\ \A bit \in ModBits :
             bit \in After(d, b) <=> bit \in d \/ bit \in shiftcode(KeyCode(ext, b))
    <2> HIDE DEF d
    <2> QED
      BY <1>1, <1>2, <1>3, PressByte
  <1>6. w \o Make(ext, b) \in Seq(Byte) /\ Decodes(s, w \o Make(ext, b), After(d, b))
    BY <1>2, <1>5, DecodesKey DEF Make
  <1> HIDE DEF d
  <1> QED
    BY <1>4, <1>5, <1>6

\* The bytes of w take shift from s to e without the bits of a code.
DecodesOff(s, w, e, code) ==
  /\ w \in Seq(Byte)
  /\ \E x \in SUBSET ShiftBits :
       /\ Decodes(s, w, x) /\ "E0ESC" \notin x
       /\ \A bit \in ModBits : bit \in x => bit \in e /\ bit \notin shiftcode(code)

\* and a key released turns off its bit only.
LEMMA DecodesBreak ==
  ASSUME NEW w \in Seq(Byte), NEW s \in SUBSET ShiftBits,
         NEW e \in SUBSET ShiftBits, Decodes(s, w, e), "E0ESC" \notin e,
         NEW ext \in BOOLEAN, NEW b \in 1 .. 95
  PROVE  DecodesOff(s, w \o Break(ext, b), e, KeyCode(ext, b))
PROOF
  <1> DEFINE d == IF ext THEN e \cup {"E0ESC"} ELSE e
             x == After(d, b + 128)
  <1>1. d \in SUBSET ShiftBits /\ ("E0ESC" \in d <=> ext)
    BY DEF ShiftBits
  <1>2. b \in 0 .. 95 /\ b + 128 \in Byte
    BY DEF Byte
  <1>3. KeyCode("E0ESC" \in d, b) = KeyCode(ext, b)
    BY <1>1 DEF KeyCode
  <1>4. \A bit \in ModBits : bit \in d <=> bit \in e
    BY DEF ModBits
  <1>5. x = d \ (shiftcode(KeyCode(ext, b)) \cup {"E0ESC"})
    <2> HIDE DEF d
    <2> QED
      BY <1>1, <1>2, <1>3, ReleaseByte
  <1>6. x \in SUBSET ShiftBits /\ "E0ESC" \notin x
    BY <1>1, <1>5
  <1>7. w \o Break(ext, b) \in Seq(Byte) /\ Decodes(s, w \o Break(ext, b), x)
    <2>1. PICK c \in Byte : c = b + 128
      BY <1>2
    <2>2. After(d, c) \in SUBSET ShiftBits
      BY <1>6, <2>1
    <2>3. w \o KeyBytes(ext, c) \in Seq(Byte) /\ Decodes(s, w \o KeyBytes(ext, c), After(d, c))
      BY <2>2, DecodesKey
    <2> HIDE DEF d
    <2> QED
      BY <2>1, <2>3 DEF Break
  <1> HIDE DEF d, x
  <1> QED
    BY <1>4, <1>5, <1>6, <1>7 DEF DecodesOff

\* Concatenation of bytes is associative.
LEMMA BytesAssociate ==
  ASSUME NEW v \in Seq(Byte), NEW y \in Seq(Byte), NEW z \in Seq(Byte)
  PROVE  (v \o y) \o z = v \o (y \o z)
PROOF
  <1>1. \A a, c \in Seq(Byte) :
          /\ a \o c \in Seq(Byte) /\ Len(a \o c) = Len(a) + Len(c)
          /\ \A i \in 1 .. Len(a) + Len(c) :
               (a \o c)[i] = IF i <= Len(a) THEN a[i] ELSE c[i - Len(a)]
    BY ConcatProperties
  <1>2. PICK vy \in Seq(Byte) : vy = v \o y
    BY <1>1
  <1>3. PICK yz \in Seq(Byte) : yz = y \o z
    BY <1>1
  <1>4. PICK l \in Seq(Byte) : l = vy \o z
    BY <1>1
  <1>5. PICK r \in Seq(Byte) : r = v \o yz
    BY <1>1
  <1>6. /\ Len(v) \in Nat /\ Len(y) \in Nat /\ Len(z) \in Nat
        /\ Len(vy) = Len(v) + Len(y) /\ Len(yz) = Len(y) + Len(z)
        /\ Len(l) = Len(vy) + Len(z) /\ Len(r) = Len(v) + Len(yz)
    BY <1>1, <1>2, <1>3, <1>4, <1>5
  <1>7. ASSUME NEW i \in 1 .. Len(l) PROVE l[i] = r[i]
    <2>1. CASE i <= Len(v)
      <3>1. l[i] = vy[i] /\ vy[i] = v[i] /\ r[i] = v[i]
        BY <1>1, <1>2, <1>4, <1>5, <1>6, <2>1
      <3> QED
        BY <3>1
    <2>2. CASE i > Len(v) /\ i <= Len(v) + Len(y)
      <3>1. i - Len(v) \in 1 .. Len(yz) /\ i - Len(v) <= Len(y)
        BY <1>6, <2>2
      <3>2. l[i] = vy[i] /\ vy[i] = y[i - Len(v)]
        BY <1>1, <1>2, <1>4, <1>6, <2>2
      <3>3. r[i] = yz[i - Len(v)]
        BY <1>1, <1>5, <1>6, <2>2
      <3>4. yz[i - Len(v)] = y[i - Len(v)]
        BY <1>1, <1>3, <1>6, <3>1
      <3> QED
        BY <3>2, <3>3, <3>4
    <2>3. CASE i > Len(v) + Len(y)
      <3>1. i - Len(v) \in 1 .. Len(yz) /\ i - Len(v) > Len(y)
            /\ i - Len(vy) = (i - Len(v)) - Len(y)
        BY <1>6, <2>3
      <3>2. l[i] = z[i - Len(vy)]
        BY <1>1, <1>4, <1>6, <2>3
      <3>3. r[i] = yz[i - Len(v)]
        BY <1>1, <1>5, <1>6, <2>3
      <3>4. yz[i - Len(v)] = z[(i - Len(v)) - Len(y)]
        BY <1>1, <1>3, <1>6, <3>1
      <3> QED
        BY <3>1, <3>2, <3>3, <3>4
    <2> QED
      BY <1>6, <2>1, <2>2, <2>3
  <1>8. Len(l) = Len(r)
    BY <1>6
  <1>9. l = r
    <2>1. \A i \in 1 .. Len(l) : l[i] = r[i]
      BY <1>7
    <2> QED
      BY ONLY l \in Seq(Byte), r \in Seq(Byte), <1>8, <2>1, SeqEqual
  <1> QED
    BY <1>2, <1>3, <1>4, <1>5, <1>9

\* A modifier key is pressed or released, or another key struck.
LEMMA UseKeyModifiers ==
  ASSUME ModifierInv, UseKey
  PROVE  ModifierInv'
PROOF
  <1>1. PICK e \in SUBSET ShiftBits : Decodes(shift, wire, e) /\ Settled(e, held)
    BY DEF ModifierInv
  <1>2. wire \in Seq(Byte) /\ shift \in SUBSET ShiftBits /\ held \subseteq Modifiers
    BY DEF ModifierInv
  <1>3. shift' = shift
    BY DEF UseKey
  <1>4. "E0ESC" \notin e
    BY <1>1 DEF Settled
  <1>5. ASSUME NEW x \in SUBSET ShiftBits, wire' \in Seq(Byte), held' \subseteq Modifiers,
               Decodes(shift, wire', x), Settled(x, held')
        PROVE  ModifierInv'
    BY <1>2, <1>3, <1>5 DEF ModifierInv
  <1>6. ASSUME NEW k \in Modifiers \ held, wire' = wire \o k.make, held' = held \cup {k}
        PROVE  ModifierInv'
    <2>1. PICK ext \in BOOLEAN, b \in 1 .. 95 :
            k.make = Make(ext, b) /\ shiftcode(KeyCode(ext, b)) = {k.bit}
      BY <1>6, KeyboardAssumption
    <2>2. wire' = wire \o Make(ext, b)
      BY <1>6, <2>1
    <2>3. /\ wire' \in Seq(Byte)
          /\ \E x \in SUBSET ShiftBits :
               /\ Decodes(shift, wire', x) /\ "E0ESC" \notin x
               /\ \A bit \in ModBits :
                    bit \in x => bit \in e \/ bit \in shiftcode(KeyCode(ext, b))
      BY <1>1, <1>2, <1>4, <2>2, DecodesMake
    <2>4. PICK x \in SUBSET ShiftBits :
            /\ Decodes(shift, wire', x) /\ "E0ESC" \notin x
            /\ \A bit \in ModBits : bit \in x => bit \in e \/ bit = k.bit
      BY <2>1, <2>3
    <2>5. Settled(x, held')
      BY <1>1, <1>6, <2>4 DEF Settled
    <2> QED
      BY <1>2, <1>5, <1>6, <2>3, <2>4, <2>5
  <1>7. ASSUME NEW k \in held, wire' = wire \o k.break, held' = held \ {k}
        PROVE  ModifierInv'
    <2>1. PICK ext \in BOOLEAN, b \in 1 .. 95 :
            k.break = Break(ext, b) /\ shiftcode(KeyCode(ext, b)) = {k.bit}
      BY <1>2, <1>7, KeyboardAssumption
    <2>2. wire' = wire \o Break(ext, b)
      BY <1>7, <2>1
    <2>3. /\ wire' \in Seq(Byte)
          /\ \E x \in SUBSET ShiftBits :
               /\ Decodes(shift, wire', x) /\ "E0ESC" \notin x
               /\ \A bit \in ModBits :
                    bit \in x => bit \in e /\ bit \notin shiftcode(KeyCode(ext, b))
      <3>1. DecodesOff(shift, wire \o Break(ext, b), e, KeyCode(ext, b))
        BY <1>1, <1>2, <1>4, DecodesBreak
      <3> QED
        BY <2>2, <3>1 DEF DecodesOff
    <2>4. PICK x \in SUBSET ShiftBits :
            /\ Decodes(shift, wire', x) /\ "E0ESC" \notin x
            /\ \A bit \in ModBits : bit \in x => bit \in e /\ bit # k.bit
      BY <2>1, <2>3
    <2>5. Settled(x, held')
      BY <1>1, <1>7, <2>4 DEF Settled
    <2> QED
      BY <1>2, <1>5, <1>7, <2>3, <2>4, <2>5
  <1>8. ASSUME NEW bytes \in Typed, wire' = wire \o bytes, held' = held
        PROVE  ModifierInv'
    <2>1. PICK ext \in BOOLEAN, b \in 1 .. 95 :
            /\ bytes \in {Make(ext, b), Make(ext, b) \o Break(ext, b)}
            /\ shiftcode(KeyCode(ext, b)) = {}
      BY <1>8, KeyboardAssumption
    <2> DEFINE w == wire \o Make(ext, b)
    <2>2. /\ w \in Seq(Byte)
          /\ \E x \in SUBSET ShiftBits :
               /\ Decodes(shift, w, x) /\ "E0ESC" \notin x
               /\ \A bit \in ModBits :
                    bit \in x => bit \in e \/ bit \in shiftcode(KeyCode(ext, b))
      BY <1>1, <1>2, <1>4, DecodesMake
    <2>3. PICK x \in SUBSET ShiftBits :
            /\ Decodes(shift, w, x) /\ "E0ESC" \notin x
            /\ \A bit \in ModBits : bit \in x => bit \in e
      BY <2>1, <2>2
    <2>4. Settled(x, held')
      BY <1>1, <1>8, <2>3 DEF Settled
    <2>5. CASE bytes = Make(ext, b)
      BY <1>2, <1>5, <1>8, <2>2, <2>3, <2>4, <2>5
    <2>6. CASE bytes = Make(ext, b) \o Break(ext, b)
      <3>1. /\ Make(ext, b) \in Seq(Byte) /\ Break(ext, b) \in Seq(Byte)
        <4>1. b \in Byte /\ b + 128 \in Byte /\ 224 \in Byte
          BY DEF Byte
        <4>2. CASE ext
          BY <4>1, <4>2 DEF Make, Break, KeyBytes
        <4>3. CASE ~ext
          BY <4>1, <4>3 DEF Make, Break, KeyBytes
        <4> QED
          BY <4>2, <4>3
      <3>2. wire' = w \o Break(ext, b)
        <4>1. PICK m \in Seq(Byte), k \in Seq(Byte) : m = Make(ext, b) /\ k = Break(ext, b)
          BY <3>1
        <4>2. (wire \o m) \o k = wire \o (m \o k)
          BY <1>2, BytesAssociate
        <4> QED
          BY <1>8, <2>6, <4>1, <4>2
      <3> HIDE DEF w
      <3>3. /\ wire' \in Seq(Byte)
            /\ \E y \in SUBSET ShiftBits :
                 /\ Decodes(shift, wire', y) /\ "E0ESC" \notin y
                 /\ \A bit \in ModBits :
                      bit \in y => bit \in x /\ bit \notin shiftcode(KeyCode(ext, b))
        <4>1. DecodesOff(shift, w \o Break(ext, b), x, KeyCode(ext, b))
          BY <1>2, <2>2, <2>3, DecodesBreak
        <4> QED
          BY <3>2, <4>1 DEF DecodesOff
      <3>4. PICK y \in SUBSET ShiftBits :
              /\ Decodes(shift, wire', y) /\ "E0ESC" \notin y
              /\ \A bit \in ModBits : bit \in y => bit \in x
        BY <3>3
      <3>5. Settled(y, held')
        BY <2>4, <3>4 DEF Settled
      <3> QED
        BY <1>2, <1>5, <1>8, <3>3, <3>4, <3>5
    <2> QED
      BY <2>1, <2>5, <2>6
  <1> QED
    BY <1>6, <1>7, <1>8 DEF UseKey

\* A turn of the loop takes the first byte off the wire; no other step of the
\* kernel touches the wire or shift.
LEMMA StepModifiers ==
  ASSUME ModifierInv, [Next]_vars
  PROVE  ModifierInv'
PROOF
  <1>1. CASE UseKey
    BY <1>1, UseKeyModifiers
  <1>2. CASE console_interrupt_turn
    <2>1. PICK e \in SUBSET ShiftBits : Decodes(shift, wire, e) /\ Settled(e, held)
      BY DEF ModifierInv
    <2>2. /\ wire \in Seq(Byte) /\ wire # <<>> /\ wire' = Tail(wire)
          /\ shift \in SUBSET ShiftBits /\ shift' = After(shift, Head(wire))
          /\ held \subseteq Modifiers /\ held' = held
      BY <1>2 DEF ModifierInv, console_interrupt_turn, After
    <2>3. Decodes(shift', wire', e) /\ shift' \in SUBSET ShiftBits
      BY <2>1, <2>2, DecodesTail
    <2>4. wire' \in Seq(Byte)
      BY <2>2, HeadTailProperties
    <2> QED
      BY <2>1, <2>2, <2>3, <2>4 DEF ModifierInv
  <1>3. ASSUME UNCHANGED <<wire, shift, held>> PROVE ModifierInv'
    BY <1>3 DEF ModifierInv, Decodes, Settled
  <1>4. CASE UNCHANGED vars
    BY <1>3, <1>4 DEF vars
  <1>5. CASE do_irq_keyboard \/ console_interrupt_end
    BY <1>3, <1>5 DEF do_irq_keyboard, console_interrupt_end
  <1>6. ASSUME NEW t \in Readers,
               \/ sys_cgetc(t) \/ send_signal(t) \/ check_signals(t) \/ signal_return(t)
               \/ do_exit(t) \/ console_getc(t) \/ console_getc_take(t)
        PROVE  ModifierInv'
    BY <1>3, <1>6 DEF sys_cgetc, send_signal, check_signals, signal_return, do_exit,
                      console_getc, console_getc_take
  <1>7. CASE COM1_getc_turn \/ monitor_getchar \/ command_continue
    BY <1>3, <1>7 DEF COM1_getc_turn, monitor_getchar, command_continue
  <1> QED
    BY <1>1, <1>2, <1>4, <1>5, <1>6, <1>7 DEF Next

LEMMA InitModifiers == Init => ModifierInv
PROOF
  <1> SUFFICES ASSUME Init PROVE ModifierInv
    OBVIOUS
  <1>1. wire = <<>> /\ held = {} /\ shift = {}
    BY DEF Init
  <1> DEFINE r == [i \in 0 .. 0 |-> {}]
  <1>2. Len(<<>>) = 0 /\ <<>> \in Seq(Byte)
    OBVIOUS
  <1>3. r \in [0 .. 0 -> SUBSET ShiftBits] /\ r[0] = {}
    OBVIOUS
  <1>4. \A i \in 1 .. 0 : r[i] = After(r[i - 1], <<>>[i])
    OBVIOUS
  <1> HIDE DEF r
  <1>5. Decodes({}, <<>>, {})
    BY <1>2, <1>3, <1>4 DEF Decodes
  <1>6. Settled({}, {})
    BY DEF Settled
  <1> QED
    BY <1>1, <1>2, <1>5, <1>6 DEF ModifierInv

\* For any keys the tables of keyboard_init know, used in any order and with
\* their bytes cut anywhere between interrupts and polls, keyboard_getc leaves no
\* modifier on that is not held and no escape open.
THEOREM ModifiersNeverStick == Spec => []NoStuckModifier
PROOF
  <1>1. ModifierInv => NoStuckModifier
    <2> SUFFICES ASSUME ModifierInv, wire = <<>>
                 PROVE  /\ "E0ESC" \notin shift
                        /\ \A bit \in shift \cap {"SHIFT", "CTL", "ALT"} :
                             \E k \in held : k.bit = bit
      BY DEF NoStuckModifier
    <2>1. PICK e \in SUBSET ShiftBits : Decodes(shift, wire, e) /\ Settled(e, held)
      BY DEF ModifierInv
    <2>2. Len(wire) = 0
      OBVIOUS
    <2>3. e = shift
      BY <2>1, <2>2 DEF Decodes
    <2> QED
      BY <2>1, <2>3 DEF Settled, ModBits
  <1> QED
    BY <1>1, InitModifiers, StepModifiers, PTL DEF Spec

=============================================================================
