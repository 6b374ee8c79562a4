--------------------------- MODULE AudioRingProofs ---------------------------
(***************************************************************************)
(* What holds of AudioRing for every size of the ring and of the blocks    *)
(* that is a whole number of units, and for every numbers of samples.      *)
(***************************************************************************)
EXTENDS AudioRing, SequenceTheorems, TLAPS

Sound == Samples \cup {Silence}

-----------------------------------------------------------------------------
(* Arithmetic of the ring. *)

LEMMA Sizes ==
    /\ N \in Nat /\ Block \in Nat /\ 0 < Block /\ Block < N
    /\ N % 8 = 0 /\ Block % 8 = 0
BY AudioAssumption DEF Unit

\* How many samples wait, and how many of them a block takes and keeps.
LEMMA Amounts ==
    ASSUME mixhead \in 0 .. N - 1, mixtail \in 0 .. N - 1
    PROVE  /\ Pending \in 0 .. N - 1
           /\ Done \in 0 .. Pending /\ Done <= Block
           /\ Kept \in 0 .. Done /\ Kept % 8 = 0
           /\ Kept = Block \/ (Kept < Block /\ Pending - Kept < 8)
<1>1. Pending \in 0 .. N - 1
  BY Sizes DEF Pending, Behind
<1>2. Done \in 0 .. Pending /\ Done <= Block /\ (Done = Block \/ (Done < Block /\ Done = Pending))
  BY <1>1, Sizes DEF Done
<1>3. Kept \in 0 .. Done /\ Kept % 8 = 0 /\ Done - Kept < 8
  BY <1>2, Sizes DEF Kept, Unit
<1>4. Done = Block => Kept = Block
  BY <1>2, Sizes DEF Kept, Unit
<1> QED
  BY <1>1, <1>2, <1>3, <1>4, Sizes

\* Realigned, the reader has gone on by what is kept.
LEMMA Realigned ==
    ASSUME mixhead \in 0 .. N - 1, mixtail \in 0 .. N - 1, mixtail % 8 = 0
    PROVE  /\ NextTail = Ahead(mixtail + Kept)
           /\ NextTail \in 0 .. N - 1 /\ NextTail % 8 = 0
<1>1. /\ Pending \in 0 .. N - 1 /\ Done \in 0 .. Pending /\ Done <= Block
      /\ Kept \in 0 .. Done /\ Kept % 8 = 0
  BY Amounts
<1>2. NextTail = Ahead(mixtail + Kept)
  BY <1>1, Sizes DEF NextTail, Ahead, Behind
<1>3. Ahead(mixtail + Kept) \in 0 .. N - 1
  BY <1>1, Sizes DEF Ahead
<1>4. Ahead(mixtail + Kept) % 8 = 0
  BY <1>1, Sizes DEF Ahead
<1> QED
  BY <1>2, <1>3, <1>4

\* What waits, and what a block takes of it.
LEMMA Contents ==
    ASSUME mixhead \in 0 .. N - 1, mixtail \in 0 .. N - 1,
           mixbuffer \in [0 .. N - 1 -> Sound]
    PROVE  /\ Waiting \in Seq(Sound) /\ Len(Waiting) = Pending
           /\ \A i \in 1 .. Pending : Waiting[i] = mixbuffer[Ahead(mixtail + i - 1)]
           /\ Collected \in Seq(Sound) /\ Len(Collected) = Done
           /\ \A i \in 1 .. Done : Collected[i] = Waiting[i]
           /\ Taken \in Seq(Sound)
           /\ Taken = SubSeq(Waiting, 1, IF Kept = 0 THEN Pending ELSE Kept)
<1>1. /\ Pending \in 0 .. N - 1 /\ Done \in 0 .. Pending /\ Done <= Block
      /\ Kept \in 0 .. Done /\ (Kept = Block \/ (Kept < Block /\ Pending - Kept < 8))
      /\ Kept % 8 = 0
  BY Amounts
<1>2. \A i \in 1 .. Pending : Ahead(mixtail + i - 1) \in 0 .. N - 1
  BY <1>1, Sizes DEF Ahead
<1>3. Waiting \in [1 .. Pending -> Sound]
  BY <1>2 DEF Waiting
<1>4. Waiting \in Seq(Sound) /\ Len(Waiting) = Pending
  BY <1>1, <1>3, SeqDef, LenProperties
<1>5. \A i \in 1 .. Pending : Waiting[i] = mixbuffer[Ahead(mixtail + i - 1)]
  BY DEF Waiting
<1>6. /\ Collected \in Seq(Sound) /\ Len(Collected) = Done
      /\ \A i \in 1 .. Done : Collected[i] = Waiting[i]
  <2>1. \A i \in 1 .. Done : Waiting[i] \in Sound
    BY <1>1, <1>3
  <2> QED
    BY <2>1, <1>1, SubSeqProperties DEF Collected
<1>7. Kept = 0 => Done = Pending
  BY <1>1, Sizes DEF Done
<1>8. ASSUME Kept # 0
      PROVE  Taken \in Seq(Sound) /\ Taken = SubSeq(Waiting, 1, Kept)
  <2>1. /\ SubSeq(Collected, 1, Kept) \in Seq(Sound) /\ Len(SubSeq(Collected, 1, Kept)) = Kept
        /\ \A i \in 1 .. Kept : SubSeq(Collected, 1, Kept)[i] = Collected[i]
    <3>1. \A i \in 1 .. Kept : Collected[i] \in Sound
      BY <1>1, <1>3, <1>6
    <3> QED
      BY <3>1, <1>1, SubSeqProperties
  <2>2. /\ SubSeq(Waiting, 1, Kept) \in Seq(Sound) /\ Len(SubSeq(Waiting, 1, Kept)) = Kept
        /\ \A i \in 1 .. Kept : SubSeq(Waiting, 1, Kept)[i] = Waiting[i]
    <3>1. \A i \in 1 .. Kept : Waiting[i] \in Sound
      BY <1>1, <1>3
    <3> QED
      BY <3>1, <1>1, SubSeqProperties
  <2>3. \A i \in 1 .. Kept : SubSeq(Collected, 1, Kept)[i] = SubSeq(Waiting, 1, Kept)[i]
    BY <2>1, <2>2, <1>1, <1>6
  <2>4. SubSeq(Collected, 1, Kept) = SubSeq(Waiting, 1, Kept)
    BY <2>1, <2>2, <2>3, SeqEqual
  <2> QED
    BY <2>1, <2>4, <1>8 DEF Taken
<1>9. Kept = 0 => Taken \in Seq(Sound) /\ Taken = SubSeq(Waiting, 1, Pending)
  BY <1>6, <1>7 DEF Taken, Collected
<1> QED
  BY <1>4, <1>5, <1>6, <1>8, <1>9

-----------------------------------------------------------------------------
(* Type correctness, alignment and the two buffers. *)

\* Every tail that is kept anywhere is a whole number of units, and outside the
\* restart the DMA goes on with the buffer that was filled last.
AudioInv ==
    /\ TypeOK
    /\ TailAligned
    /\ my.to % 8 = 0
    /\ pc \in {"game", "leave", "fill"} => next = whichab

LEMMA AudioInit == Init => AudioInv
<1> SUFFICES ASSUME Init PROVE AudioInv
  OBVIOUS
<1>1. <<>> \in Seq(Samples \cup {Silence})
  BY EmptySeq
<1>2. TypeOK
  BY <1>1, Sizes DEF Init, TypeOK, NoCall, Silence
<1>3. TailAligned
  BY Sizes DEF Init, TailAligned, Unit
<1> QED
  BY <1>2, <1>3 DEF Init, AudioInv, NoCall

LEMMA AudioStep == AudioInv /\ [Next]_vars => AudioInv'
<1> SUFFICES ASSUME AudioInv, [Next]_vars PROVE AudioInv'
  OBVIOUS
<1> USE Sizes DEF Sound
<1>0. /\ mixbuffer \in [0 .. N - 1 -> Sound]
      /\ mixhead \in 0 .. N - 1 /\ mixtail \in 0 .. N - 1 /\ mixtail % 8 = 0
      /\ whichab \in 0 .. 1
  BY DEF AudioInv, TypeOK, TailAligned, Unit
<1>a. NextTail \in 0 .. N - 1 /\ NextTail % 8 = 0
  BY <1>0, Realigned
<1>b. Collected \in Seq(Sound) /\ Taken \in Seq(Sound) /\ Len(Collected) <= Block
  BY <1>0, Contents, Amounts
<1>1. CASE Interrupt
  <2>1. TypeOK'
    BY <1>0, <1>a, <1>b, <1>1 DEF AudioInv, TypeOK, Interrupt, play
  <2>2. TailAligned'
    BY <1>0, <1>a, <1>b, <1>1 DEF AudioInv, TypeOK, TailAligned, Interrupt, Unit
  <2> QED
    BY <2>1, <2>2, <1>1 DEF AudioInv, Interrupt
<1>2. CASE SwitchToGame
  <2>1. <<>> \in Seq(Samples \cup {Silence}) /\ Len(<<>>) = 0
    BY EmptySeq
  <2> QED
    BY <1>2, <2>1 DEF AudioInv, TypeOK, TailAligned, SwitchToGame, ring, play, ghost
<1>3. CASE SwitchToMenu
  BY <1>3 DEF AudioInv, TypeOK, TailAligned, SwitchToMenu, ring, dma, play, ghost
<1>4. CASE ResetAudio
  <2>1. <<>> \in Seq(Samples \cup {Silence}) /\ Len(<<>>) = 0
    BY EmptySeq
  <2> QED
    BY <1>4, <2>1 DEF AudioInv, TypeOK, TailAligned, ResetAudio, dma, play, Silence, Unit
<1>5. CASE PlaySound
  BY <1>5, AudioAssumption DEF AudioInv, TypeOK, TailAligned, PlaySound, ring, dma, ghost
<1>6. CASE Fill
  <2>1. number' \in Samples
    BY <1>6, AudioAssumption DEF AudioInv, TypeOK, Fill, Samples
  <2>2. mixbuffer' \in [0 .. N - 1 -> Samples \cup {Silence}]
    BY <1>6, <2>1 DEF AudioInv, TypeOK, Fill
  <2>3. head' \in 0 .. N - 1 /\ left' \in Nat
    BY <1>6 DEF AudioInv, TypeOK, Fill, NextHead
  <2> QED
    BY <1>6, <2>1, <2>2, <2>3 DEF AudioInv, TypeOK, TailAligned, Fill, dma
<1>7. CASE Filled
  BY <1>7 DEF AudioInv, TypeOK, TailAligned, Filled, dma, play, ghost
<1>8. CASE Flip
  <2>1. 1 - whichab \in 0 .. 1
    BY <1>0
  <2>2. /\ my' \in [buf : 0 .. 1, from : 0 .. N - 1, to : 0 .. N - 1,
                    taken : Seq(Samples \cup {Silence})]
        /\ my'.to = my.to
    BY <2>1, <1>8 DEF AudioInv, TypeOK, Flip
  <2> QED
    BY <2>1, <2>2, <1>8 DEF AudioInv, TypeOK, TailAligned, Flip, ring, dma, play, ghost
<1>9. CASE Collect
  <2>1. TypeOK'
    BY <1>0, <1>a, <1>b, <1>9 DEF AudioInv, TypeOK, Collect, ring, dma, play, ghost
  <2>2. TailAligned'
    BY <1>0, <1>a, <1>b, <1>9 DEF AudioInv, TypeOK, TailAligned, Collect, ring
  <2>3. my'.to % 8 = 0
    BY <1>a, <1>9 DEF AudioInv, TypeOK, Collect
  <2> QED
    BY <2>1, <2>2, <2>3, <1>9 DEF AudioInv, Collect
<1>10. CASE Store
  BY <1>10, EmptySeq DEF AudioInv, TypeOK, TailAligned, Store, dma, play, NoCall, Unit
<1>11. CASE StartDMA
  BY <1>11 DEF AudioInv, TypeOK, TailAligned, StartDMA, ring, play, ghost
<1>12. CASE UNCHANGED vars
  BY <1>12 DEF AudioInv, TypeOK, TailAligned, vars, ring, dma, play, ghost
<1> QED
  BY <1>1, <1>2, <1>3, <1>4, <1>5, <1>6, <1>7, <1>8, <1>9, <1>10, <1>11, <1>12 DEF Next, Main

LEMMA AudioAlways == Spec => []AudioInv
BY AudioInit, AudioStep, PTL DEF Spec

\* mixhead and mixtail never leave mixbuffer, wherever the interrupt falls.
THEOREM TypeCorrect == Spec => []TypeOK
<1>1. AudioInv => TypeOK
  BY DEF AudioInv
<1> QED
  BY <1>1, AudioAlways, PTL

\* The ring is read from unit boundaries only, however the interrupt and the
\* restart of the main thread interleave.
THEOREM Alignment == Spec => []TailAligned
<1>1. AudioInv => TailAligned
  BY DEF AudioInv
<1> QED
  BY <1>1, AudioAlways, PTL

\* The DMA never plays a buffer while it is filled, outside the restart.
THEOREM TwoBuffers == Spec => DoubleBuffered
<1> DEFINE A == ~Restarting /\ pc # "menu" /\ pc' # "menu"
                => soundbuffer'[playing'] = soundbuffer[playing']
<1>1. AudioInv /\ [Next]_vars => [A]_vars
  <2> SUFFICES ASSUME AudioInv, Next, ~Restarting, pc # "menu", pc' # "menu"
               PROVE  soundbuffer'[playing'] = soundbuffer[playing']
    BY DEF A
  <2>1. pc \in {"game", "leave", "fill"} /\ next = whichab /\ whichab \in 0 .. 1
    BY DEF AudioInv, TypeOK, Restarting
  <2>2. CASE Interrupt
    <3>1. playing' = whichab /\ whichab # 1 - whichab
      BY <2>1, <2>2 DEF Interrupt
    <3> QED
      BY <2>1, <2>2, <3>1 DEF AudioInv, TypeOK, Interrupt
  <2>3. CASE Main
    <3>1. soundbuffer' = soundbuffer
      BY <2>1, <2>3 DEF Main, SwitchToGame, SwitchToMenu, ResetAudio, PlaySound, Fill, Filled,
                        Flip, Collect, Store, StartDMA
    <3> QED
      BY <3>1
  <2> QED
    BY <2>2, <2>3 DEF Next
<1> QED
  BY <1>1, AudioAlways, PTL DEF Spec, DoubleBuffered, A

-----------------------------------------------------------------------------
(* The ring as a queue. *)

Sample(i) == mixbuffer[Ahead(mixtail + i - 1)]

\* What the ring holds, with what PlaySound has written but not announced.
Unread == IF pc = "fill" THEN Pending + Written ELSE Pending

Following(x) == IF x = Numbers THEN 1 ELSE x + 1

\* Unless too much was written, the ring holds consecutive samples up to the
\* last one; and the restart stores what it would compute now, unless an
\* interrupt has moved the tail, which it can only have moved forward.
QueueInv ==
    /\ whole => /\ Unread < N
                /\ \A i \in 1 .. Unread - 1 : Sample(i + 1) = Following(Sample(i))
                /\ Unread > 0 => Sample(Unread) = number
    /\ pc = "store" => /\ Pending <= Behind(mixhead - my.from)
                       /\ mixtail = my.from => my.to = NextTail /\ my.taken = Taken

\* What the inductive invariants say of the ring.
LEMMA RingFacts ==
    ASSUME AudioInv
    PROVE  /\ mixbuffer \in [0 .. N - 1 -> Sound]
           /\ mixhead \in 0 .. N - 1 /\ mixtail \in 0 .. N - 1 /\ mixtail % 8 = 0
           /\ head \in 0 .. N - 1
           /\ Pending \in 0 .. N - 1 /\ Written \in 0 .. N - 1 /\ Unread \in Nat
           /\ Kept \in 0 .. Pending
           /\ whole \in BOOLEAN
<1>1. /\ mixbuffer \in [0 .. N - 1 -> Sound]
      /\ mixhead \in 0 .. N - 1 /\ mixtail \in 0 .. N - 1 /\ mixtail % 8 = 0
      /\ head \in 0 .. N - 1 /\ whole \in BOOLEAN
  BY DEF AudioInv, TypeOK, TailAligned, Unit, Sound
<1>2. Pending \in 0 .. N - 1 /\ Kept \in 0 .. Pending
  BY <1>1, Amounts, Sizes
<1>3. Written \in 0 .. N - 1
  BY <1>1, Sizes DEF Written, Behind
<1> QED
  BY <1>1, <1>2, <1>3, Sizes DEF Unread

\* When the reader goes on by what is kept, the samples keep their order.
LEMMA Shift ==
    ASSUME AudioInv, mixbuffer' = mixbuffer, mixhead' = mixhead, mixtail' = NextTail
    PROVE  /\ Pending' = Pending - Kept
           /\ \A i \in 1 .. N - Kept : Sample(i)' = Sample(i + Kept)
           /\ Waiting' = SubSeq(Waiting, Kept + 1, Pending)
<1>1. /\ mixbuffer \in [0 .. N - 1 -> Sound]
      /\ mixhead \in 0 .. N - 1 /\ mixtail \in 0 .. N - 1 /\ mixtail % 8 = 0
      /\ Pending \in 0 .. N - 1 /\ Kept \in 0 .. Pending
  BY RingFacts
<1>2. mixtail' = Ahead(mixtail + Kept) /\ mixtail' \in 0 .. N - 1
  BY <1>1, Realigned
<1>3. Pending' = Pending - Kept
  BY <1>1, <1>2, Sizes DEF Pending, Behind, Ahead
<1>4. \A i \in 1 .. N - Kept : Ahead(mixtail' + i - 1) = Ahead(mixtail + (i + Kept) - 1)
  BY <1>1, <1>2, Sizes DEF Ahead
<1>5. \A i \in 1 .. N - Kept : Sample(i)' = Sample(i + Kept)
  BY <1>4 DEF Sample, Ahead
<1>6. /\ Waiting \in Seq(Sound) /\ Len(Waiting) = Pending
      /\ \A i \in 1 .. Pending : Waiting[i] = Sample(i)
  BY <1>1, Contents DEF Sample
<1>7. /\ Waiting' \in Seq(Sound) /\ Len(Waiting') = Pending'
      /\ \A i \in 1 .. Pending' : Waiting'[i] = Sample(i)'
  <2>1. Pending' \in Nat
    BY <1>1, <1>3
  <2>2. Waiting' = [i \in 1 .. Pending' |-> Sample(i)']
    BY DEF Waiting, Sample
  <2>3. \A i \in 1 .. Pending' : Sample(i)' \in Sound
    <3>1. \A i \in 1 .. Pending' : i \in 1 .. N - Kept /\ i + Kept \in 1 .. Pending
      BY <1>1, <1>3, Sizes
    <3>2. \A j \in 1 .. Pending : Sample(j) \in Sound
      BY <1>1, <1>6, ElementOfSeq
    <3> QED
      BY <1>5, <3>1, <3>2
  <2>4. Waiting' \in [1 .. Pending' -> Sound]
    BY <2>2, <2>3
  <2> QED
    BY <2>1, <2>2, <2>4, SeqDef, LenProperties
<1>8. /\ SubSeq(Waiting, Kept + 1, Pending) \in Seq(Sound)
      /\ Len(SubSeq(Waiting, Kept + 1, Pending)) = Pending - Kept
      /\ \A i \in 1 .. Pending - Kept : SubSeq(Waiting, Kept + 1, Pending)[i] = Waiting[i + Kept]
  <2>1. \A i \in Kept + 1 .. Pending : Waiting[i] \in Sound
    BY <1>1, <1>6, ElementOfSeq
  <2>2. /\ SubSeq(Waiting, Kept + 1, Pending) \in Seq(Sound)
        /\ Len(SubSeq(Waiting, Kept + 1, Pending))
               = IF Kept + 1 <= Pending THEN Pending - (Kept + 1) + 1 ELSE 0
        /\ \A i \in 1 .. Pending - (Kept + 1) + 1 :
               SubSeq(Waiting, Kept + 1, Pending)[i] = Waiting[(Kept + 1) + i - 1]
    BY <1>1, <2>1, SubSeqProperties
  <2>3. \A i \in 1 .. Pending - Kept : (Kept + 1) + i - 1 = i + Kept
    BY <1>1
  <2> QED
    BY <1>1, <2>2, <2>3
<1>9. \A i \in 1 .. Pending - Kept : Waiting'[i] = SubSeq(Waiting, Kept + 1, Pending)[i]
  <2> TAKE i \in 1 .. Pending - Kept
  <2>1. i \in 1 .. N - Kept /\ i + Kept \in 1 .. Pending /\ i \in 1 .. Pending'
    BY <1>1, <1>3, Sizes
  <2> QED
    BY <2>1, <1>5, <1>6, <1>7, <1>8
<1> QED
  BY <1>3, <1>5, <1>7, <1>8, <1>9, SeqEqual

\* What is left when the reader has gone on is still in order.
LEMMA ShiftOrder ==
    ASSUME AudioInv, mixbuffer' = mixbuffer, mixhead' = mixhead, mixtail' = NextTail,
           number' = number, head' = head, (pc' = "fill") = (pc = "fill"),
           whole, QueueInv
    PROVE  /\ Unread' < N
           /\ \A i \in 1 .. Unread' - 1 : Sample(i + 1)' = Following(Sample(i)')
           /\ Unread' > 0 => Sample(Unread)' = number'
<1>1. Pending \in 0 .. N - 1 /\ Written \in 0 .. N - 1 /\ Unread \in Nat /\ Kept \in 0 .. Pending
  BY RingFacts
<1>2. Pending' = Pending - Kept /\ \A i \in 1 .. N - Kept : Sample(i)' = Sample(i + Kept)
  BY Shift
<1>3. Written' = Written
  BY DEF Written, Behind
<1>4. Unread' = Unread - Kept /\ Unread < N
  BY <1>1, <1>2, <1>3 DEF Unread, QueueInv
<1>7. Unread' < N
  BY <1>1, <1>4, Sizes
<1>5. \A i \in 1 .. Unread' - 1 : Sample(i + 1)' = Following(Sample(i)')
  <2> TAKE i \in 1 .. Unread' - 1
  <2>1. i \in 1 .. N - Kept /\ i + 1 \in 1 .. N - Kept /\ i + Kept \in 1 .. Unread - 1
        /\ (i + 1) + Kept = (i + Kept) + 1
    BY <1>1, <1>4, Sizes
  <2>2. Sample(i)' = Sample(i + Kept) /\ Sample(i + 1)' = Sample((i + 1) + Kept)
    BY <1>2, <2>1
  <2>3. Sample((i + Kept) + 1) = Following(Sample(i + Kept))
    BY <2>1 DEF QueueInv
  <2> QED
    BY <2>1, <2>2, <2>3
<1>6. Unread' > 0 => Sample(Unread)' = number'
  <2> HAVE Unread' > 0
  <2>1. Unread' \in 1 .. N - Kept /\ Unread' + Kept = Unread /\ Unread > 0
    BY <1>1, <1>4, Sizes
  <2>2. \A i \in 1 .. N - Kept : Sample(i)' = Sample(i + Kept)
    BY <1>2
  <2>3. mixbuffer'[Ahead(mixtail' + Unread' - 1)] = mixbuffer[Ahead(mixtail + (Unread' + Kept) - 1)]
    BY <2>1, <2>2 DEF Sample, Ahead
  <2> QED
    BY <2>1, <2>3 DEF Sample, Ahead, QueueInv
<1> QED
  BY <1>5, <1>6, <1>7

Ordered ==
    /\ Unread < N
    /\ \A i \in 1 .. Unread - 1 : Sample(i + 1) = Following(Sample(i))
    /\ Unread > 0 => Sample(Unread) = number

\* Steps that leave the ring alone leave its order alone.
LEMMA Still ==
    ASSUME Ordered, UNCHANGED ring, UNCHANGED <<head, number>>, (pc' = "fill") = (pc = "fill")
    PROVE  Ordered'
<1>1. Pending' = Pending /\ Written' = Written
  BY DEF Pending, Written, Behind, ring
<1>2. Unread' = Unread
  BY <1>1 DEF Unread
<1>3. \A i : Sample(i)' = Sample(i)
  BY DEF Sample, Ahead, ring
<1>4. mixbuffer'[Ahead(mixtail' + Unread' - 1)] = mixbuffer[Ahead(mixtail + Unread - 1)]
  BY <1>2 DEF ring
<1> QED
  BY <1>2, <1>3, <1>4 DEF Ordered, Sample, Ahead

\* One more sample, behind the last one.
LEMMA FillOrder ==
    ASSUME AudioInv, Ordered, Fill, whole'
    PROVE  /\ Ordered'
           /\ Pending' = Pending
           /\ \A i \in 1 .. Unread : Sample(i)' = Sample(i)
<1>1. /\ mixbuffer \in [0 .. N - 1 -> Sound]
      /\ mixhead \in 0 .. N - 1 /\ mixtail \in 0 .. N - 1
      /\ head \in 0 .. N - 1
      /\ Pending \in 0 .. N - 1 /\ Written \in 0 .. N - 1
  BY RingFacts
<1>2. /\ Pending + Written < N - 1 /\ pc = "fill" /\ pc' = "fill"
      /\ head' = NextHead /\ mixhead' = mixhead /\ mixtail' = mixtail
      /\ mixbuffer' = [mixbuffer EXCEPT ![head] = number']
      /\ number' = Following(number)
  BY DEF Fill, Following
<1>3. Pending' = Pending /\ Written' = Written + 1
  BY <1>1, <1>2, Sizes DEF Pending, Written, Behind, NextHead
<1>4. Unread' = Unread + 1 /\ Unread' < N /\ Unread = Pending + Written
  BY <1>1, <1>2, <1>3, Sizes DEF Unread
<1>5. head = Ahead(mixtail + (Unread + 1) - 1)
  BY <1>1, <1>2, <1>4, Sizes DEF Ahead, Pending, Written, Behind
<1>6. \A i \in 1 .. Unread : Ahead(mixtail + i - 1) # head /\ Ahead(mixtail + i - 1) \in 0 .. N - 1
  BY <1>1, <1>2, <1>4, <1>5, Sizes DEF Ahead
<1>7. \A i \in 1 .. Unread : Sample(i)' = Sample(i)
  BY <1>1, <1>2, <1>6 DEF Sample, Ahead
<1>8. mixbuffer'[Ahead(mixtail' + Unread' - 1)] = number'
  BY <1>1, <1>2, <1>4, <1>5
<1>9. \A i \in 1 .. Unread' - 1 : Sample(i + 1)' = Following(Sample(i)')
  <2> TAKE i \in 1 .. Unread' - 1
  <2>1. i \in 1 .. Unread
    BY <1>1, <1>4
  <2>2. CASE i = Unread
    <3>1. Sample(i) = number
      BY <2>1, <2>2, <1>1, <1>4 DEF Ordered
    <3>2. Sample(i + 1)' = number'
      BY <1>4, <1>8, <2>2 DEF Sample
    <3> QED
      BY <1>2, <1>7, <2>1, <3>1, <3>2
  <2>3. CASE i # Unread
    <3>1. i + 1 \in 1 .. Unread /\ i \in 1 .. Unread - 1
      BY <2>1, <2>3, <1>1, <1>4
    <3>2. Sample(i + 1) = Following(Sample(i))
      BY <3>1 DEF Ordered
    <3>3. Sample(i)' = Sample(i)
      BY <1>7, <2>1
    <3>4. Sample(i + 1)' = Sample(i + 1)
      BY <1>7, <3>1
    <3> QED
      BY <3>2, <3>3, <3>4
  <2> QED
    BY <2>2, <2>3
<1> QED
  BY <1>3, <1>4, <1>7, <1>8, <1>9 DEF Ordered, Sample

LEMMA QueueInit == Init => QueueInv
<1> SUFFICES ASSUME Init PROVE QueueInv
  OBVIOUS
<1>1. Pending = 0
  BY Sizes DEF Init, Pending, Behind
<1>2. Unread = 0
  BY <1>1 DEF Init, Unread
<1> QED
  BY <1>2, Sizes DEF Init, QueueInv

LEMMA QueueStep == AudioInv /\ QueueInv /\ [Next]_vars => QueueInv'
<1> SUFFICES ASSUME AudioInv, QueueInv, [Next]_vars PROVE QueueInv'
  OBVIOUS
<1>0. /\ mixbuffer \in [0 .. N - 1 -> Sound]
      /\ mixhead \in 0 .. N - 1 /\ mixtail \in 0 .. N - 1
      /\ head \in 0 .. N - 1
      /\ Pending \in 0 .. N - 1 /\ Written \in 0 .. N - 1 /\ Unread \in Nat
      /\ Kept \in 0 .. Pending /\ whole \in BOOLEAN
  BY RingFacts
<1>a. whole => Ordered
  BY DEF QueueInv, Ordered
<1>b. SUFFICES /\ whole' => Ordered'
               /\ pc' = "store" => /\ Pending' <= Behind(mixhead' - my'.from)
                                   /\ mixtail' = my'.from => my'.to = NextTail' /\ my'.taken = Taken'
  BY DEF QueueInv, Ordered
<1>1. CASE Interrupt
  <2>1. mixbuffer' = mixbuffer /\ mixhead' = mixhead /\ mixtail' = NextTail /\ number' = number
        /\ head' = head /\ pc' = pc /\ my' = my /\ whole' = whole
    BY <1>1 DEF Interrupt, play
  <2>2. whole' => Ordered'
    BY <2>1, ShiftOrder DEF Ordered
  <2>3. ASSUME pc' = "store"
        PROVE  /\ Pending' <= Behind(mixhead' - my'.from)
               /\ mixtail' = my'.from => my'.to = NextTail' /\ my'.taken = Taken'
    <3>1. Pending' = Pending - Kept
      BY <2>1, Shift
    <3>2. Pending <= Behind(mixhead - my.from) /\ my.from \in 0 .. N - 1
      BY <2>1, <2>3 DEF QueueInv, AudioInv, TypeOK
    <3>3. Behind(mixhead - my.from) \in 0 .. N - 1
      BY <1>0, <3>2, Sizes DEF Behind
    <3>4. Pending' <= Behind(mixhead' - my'.from)
      BY <1>0, <2>1, <3>1, <3>2, <3>3
    <3>5. ASSUME mixtail' = my'.from PROVE my'.to = NextTail' /\ my'.taken = Taken'
      <4>1. Pending' = Behind(mixhead - my.from)
        BY <2>1, <3>5 DEF Pending
      <4>2. Kept = 0
        BY <1>0, <3>1, <3>2, <3>3, <4>1
      <4>3. mixtail' = mixtail
        BY <2>1, <4>2, <1>0, Realigned, Sizes DEF Ahead, AudioInv, TailAligned, Unit
      <4>4. NextTail' = NextTail /\ Taken' = Taken
        BY <2>1, <4>3 DEF NextTail, Taken, Collected, Waiting, Kept, Done, Pending, Ahead, Behind
      <4> QED
        BY <2>1, <2>3, <3>5, <4>3, <4>4 DEF QueueInv
    <3> QED
      BY <3>4, <3>5
  <2> QED
    BY <2>2, <2>3
<1>2. CASE SwitchToGame
  BY <1>2, <1>a, Still DEF SwitchToGame, ring, play, ghost
<1>3. CASE SwitchToMenu
  BY <1>3, <1>a, Still DEF SwitchToMenu, play, ghost
<1>4. CASE ResetAudio
  <2>1. mixhead' = 0 /\ mixtail' = 0 /\ pc' = "menu"
    BY <1>4 DEF ResetAudio
  <2>2. Pending' = 0
    BY <2>1, Sizes DEF Pending, Behind
  <2>3. Unread' = 0
    BY <2>1, <2>2 DEF Unread
  <2> QED
    BY <2>1, <2>3, Sizes DEF Ordered
<1>5. CASE PlaySound
  <2>1. pc = "game" /\ pc' = "fill" /\ mixhead' = mixhead /\ mixtail' = mixtail /\ head' = mixhead
        /\ mixbuffer' = mixbuffer /\ number' = number /\ whole' = whole
    BY <1>5 DEF PlaySound, ring, ghost
  <2>2. Pending' = Pending /\ Written' = 0
    BY <2>1, <1>0, Sizes DEF Pending, Written, Behind
  <2>3. Unread' = Unread
    BY <1>0, <2>1, <2>2 DEF Unread
  <2>4. \A i : Sample(i)' = Sample(i)
    BY <2>1 DEF Sample, Ahead
  <2>5. mixbuffer'[Ahead(mixtail' + Unread' - 1)] = mixbuffer[Ahead(mixtail + Unread - 1)]
    BY <2>1, <2>3
  <2> QED
    BY <2>1, <2>3, <2>4, <2>5, <1>a DEF Ordered, Sample, Ahead
<1>6. CASE Fill
  <2>1. whole' => whole /\ pc' = "fill"
    BY <1>6, <1>0 DEF Fill, AudioInv, TypeOK
  <2> QED
    BY <1>6, <1>a, <2>1, FillOrder DEF Fill
<1>7. CASE Filled
  <2>1. pc = "fill" /\ pc' # "fill" /\ pc' # "store" /\ mixhead' = head /\ mixtail' = mixtail
        /\ mixbuffer' = mixbuffer /\ number' = number /\ whole' = whole
    BY <1>7 DEF Filled, ghost
  <2>2. ASSUME whole PROVE Pending' = Pending + Written
    <3>1. Pending + Written < N
      BY <2>1, <2>2, <1>a DEF Ordered, Unread
    <3> QED
      BY <2>1, <3>1, <1>0, Sizes DEF Pending, Written, Behind
  <2>3. whole => Unread' = Unread
    BY <2>1, <2>2 DEF Unread
  <2>4. \A i : Sample(i)' = Sample(i)
    BY <2>1 DEF Sample, Ahead
  <2>5. whole => mixbuffer'[Ahead(mixtail' + Unread' - 1)] = mixbuffer[Ahead(mixtail + Unread - 1)]
    BY <2>1, <2>3
  <2> QED
    BY <2>1, <2>3, <2>4, <2>5, <1>a DEF Ordered, Sample, Ahead
<1>8. CASE Flip
  BY <1>8, <1>a, Still DEF Flip, play, ghost
<1>9. CASE Collect
  <2>1. UNCHANGED ring /\ UNCHANGED <<head, number, whole>> /\ pc = "collect" /\ pc' = "store"
        /\ my'.from = mixtail /\ my'.to = NextTail /\ my'.taken = Taken
    BY <1>9 DEF Collect, play, ghost, AudioInv, TypeOK
  <2>2. NextTail' = NextTail /\ Taken' = Taken /\ Pending' = Pending
    BY <2>1 DEF NextTail, Taken, Collected, Waiting, Kept, Done, Pending, Ahead, Behind, ring
  <2>3. Pending' <= Behind(mixhead' - my'.from)
    BY <2>1, <2>2, <1>0 DEF Pending, ring
  <2> QED
    BY <2>1, <2>2, <2>3, <1>a, Still
<1>10. CASE Store
  <2>1. pc = "store" /\ pc' = "start" /\ mixbuffer' = mixbuffer /\ mixhead' = mixhead
        /\ number' = number /\ head' = head /\ mixtail' = my.to
        /\ (whole' => whole /\ mixtail = my.from)
    BY <1>10, <1>0 DEF Store, play
  <2>2. whole' => whole /\ mixtail' = NextTail
    BY <2>1 DEF QueueInv
  <2>3. whole' => Ordered'
    BY <2>1, <2>2, ShiftOrder DEF Ordered
  <2> QED
    BY <2>1, <2>3
<1>11. CASE StartDMA
  BY <1>11, <1>a, Still DEF StartDMA, play, ghost
<1>12. CASE UNCHANGED vars
  <2>1. UNCHANGED ring /\ UNCHANGED <<head, number, whole, pc, my>>
    BY <1>12 DEF vars, play, ghost
  <2>2. NextTail' = NextTail /\ Taken' = Taken /\ Pending' = Pending
    BY <2>1 DEF NextTail, Taken, Collected, Waiting, Kept, Done, Pending, Ahead, Behind, ring
  <2>3. Behind(mixhead' - my'.from) = Behind(mixhead - my.from)
    BY <2>1 DEF ring, Behind
  <2> QED
    BY <2>1, <2>2, <2>3, <1>a, Still DEF QueueInv, ring
<1> QED
  BY <1>1, <1>2, <1>3, <1>4, <1>5, <1>6, <1>7, <1>8, <1>9, <1>10, <1>11, <1>12 DEF Next, Main

LEMMA QueueAlways == Spec => [](AudioInv /\ QueueInv)
<1>1. Init => AudioInv /\ QueueInv
  BY AudioInit, QueueInit
<1>2. AudioInv /\ QueueInv /\ [Next]_vars => AudioInv' /\ QueueInv'
  BY AudioStep, QueueStep
<1> QED
  BY <1>1, <1>2, PTL DEF Spec

\* The samples that wait for the DMA are consecutive ones of the emulator, as
\* long as it did not overwrite any and no restart was overtaken.
THEOREM ConsecutiveSamples == Spec => []InOrder
<1>1. AudioInv /\ QueueInv => InOrder
  <2> SUFFICES ASSUME AudioInv, QueueInv, whole, NEW i \in 1 .. Pending - 1
               PROVE  Waiting[i + 1] = IF Waiting[i] = Numbers THEN 1 ELSE Waiting[i] + 1
    BY DEF InOrder
  <2>1. Pending \in 0 .. N - 1 /\ Written \in 0 .. N - 1 /\ Unread \in Nat
    BY RingFacts
  <2>2. i \in 1 .. Unread - 1 /\ i \in 1 .. Pending /\ i + 1 \in 1 .. Pending
    BY <2>1, Sizes DEF Unread
  <2>3. Waiting[i] = Sample(i) /\ Waiting[i + 1] = Sample(i + 1)
    BY <2>2 DEF Waiting, Sample
  <2> QED
    BY <2>2, <2>3 DEF QueueInv, Following
<1> QED
  BY <1>1, QueueAlways, PTL

\* What the DMA takes and what the emulator puts in are steps of the queue.
LEMMA TakeStep ==
    ASSUME AudioInv, mixbuffer' = mixbuffer, mixhead' = mixhead, mixtail' = NextTail,
           taken' = Taken, whole, whole'
    PROVE  Queue!Take
<1>1. /\ mixbuffer \in [0 .. N - 1 -> Sound]
      /\ mixhead \in 0 .. N - 1 /\ mixtail \in 0 .. N - 1
  BY RingFacts
<1>2. /\ Pending \in 0 .. N - 1 /\ Kept \in 0 .. Pending /\ Kept % 8 = 0
      /\ Kept = Block \/ (Kept < Block /\ Pending - Kept < 8)
  BY <1>1, Amounts, Sizes
<1>3. Len(Waiting) = Pending /\ Taken = SubSeq(Waiting, 1, IF Kept = 0 THEN Pending ELSE Kept)
  BY <1>1, Contents
<1>4. Waiting' = SubSeq(Waiting, Kept + 1, Pending)
  BY Shift
<1> QED
  BY <1>2, <1>3, <1>4 DEF Queue!Take, Queue!Unit

LEMMA PutStep ==
    ASSUME AudioInv, QueueInv, Filled, whole, whole'
    PROVE  Queue!Put
<1>1. /\ mixbuffer \in [0 .. N - 1 -> Sound]
      /\ mixhead \in 0 .. N - 1 /\ mixtail \in 0 .. N - 1 /\ head \in 0 .. N - 1
      /\ Pending \in 0 .. N - 1 /\ Written \in 0 .. N - 1
  BY RingFacts
<1>2. pc = "fill" /\ mixhead' = head /\ mixtail' = mixtail /\ mixbuffer' = mixbuffer /\ taken' = taken
  BY DEF Filled, ghost
<1>3. Pending + Written < N
  BY <1>2 DEF QueueInv, Unread
<1>4. Pending' = Pending + Written
  BY <1>1, <1>2, <1>3, Sizes DEF Pending, Written, Behind
<1>5. /\ Waiting \in Seq(Sound) /\ Len(Waiting) = Pending
      /\ \A i \in 1 .. Pending : Waiting[i] = mixbuffer[Ahead(mixtail + i - 1)]
  BY <1>1, Contents
<1>6. Waiting' = [i \in 1 .. Pending' |-> mixbuffer[Ahead(mixtail + i - 1)]]
  BY <1>2 DEF Waiting, Ahead
<1>7. \A i \in 1 .. Pending' : Waiting'[i] \in Sound
  <2>1. \A i \in 1 .. Pending' : Ahead(mixtail + i - 1) \in 0 .. N - 1
    BY <1>1, <1>3, <1>4, Sizes DEF Ahead
  <2> QED
    BY <1>1, <1>6, <2>1
<1>8. Len(Waiting') = Pending'
  BY <1>1, <1>4, <1>6
<1>9. /\ SubSeq(Waiting', 1, Pending) \in Seq(Sound) /\ Len(SubSeq(Waiting', 1, Pending)) = Pending
      /\ \A i \in 1 .. Pending : SubSeq(Waiting', 1, Pending)[i] = Waiting'[i]
  <2>1. \A i \in 1 .. Pending : Waiting'[i] \in Sound
    BY <1>1, <1>4, <1>7
  <2> QED
    BY <1>1, <2>1, SubSeqProperties
<1>10. \A i \in 1 .. Pending : Waiting'[i] = Waiting[i]
  BY <1>1, <1>4, <1>5, <1>6
<1>11. SubSeq(Waiting', 1, Pending) = Waiting
  BY <1>5, <1>9, <1>10, SeqEqual
<1>12. Len(Waiting') >= Len(Waiting)
  BY <1>1, <1>4, <1>5, <1>8
<1> QED
  BY <1>2, <1>5, <1>11, <1>12 DEF Queue!Put

\* The rest leaves the queue alone.
LEMMA RingStill ==
    ASSUME UNCHANGED ring, UNCHANGED ghost
    PROVE  UNCHANGED Queue!vars
BY DEF ring, ghost, Queue!vars, Waiting, Pending, Ahead, Behind

LEMMA FillStep ==
    ASSUME AudioInv, QueueInv, Fill, whole, whole'
    PROVE  UNCHANGED Queue!vars
<1>1. Pending \in 0 .. N - 1 /\ Written \in 0 .. N - 1
  BY RingFacts
<1>2. Pending' = Pending /\ \A i \in 1 .. Unread : Sample(i)' = Sample(i)
  BY FillOrder DEF QueueInv, Ordered
<1>3. \A i \in 1 .. Pending : i \in 1 .. Unread
  BY <1>1 DEF Unread
<1>4. Waiting' = [i \in 1 .. Pending' |-> Sample(i)'] /\ Waiting = [i \in 1 .. Pending |-> Sample(i)]
  BY DEF Waiting, Sample
<1>5. Waiting' = Waiting
  BY <1>2, <1>3, <1>4
<1>6. taken' = taken /\ whole' = whole
  BY DEF Fill, AudioInv, TypeOK
<1> QED
  BY <1>5, <1>6 DEF Queue!vars

\* The ring is a queue: samples leave it in the order in which they came, in
\* whole units, until the emulator runs over the ring or an interrupt falls
\* into the restart between its reading and its storing of the tail.
THEOREM RingIsQueue == Spec => ImplementsQueue
<1>1. Init => Queue!Init
  <2> SUFFICES ASSUME Init PROVE Queue!Init
    OBVIOUS
  <2>1. Pending = 0
    BY Sizes DEF Init, Pending, Behind
  <2>2. Waiting = [i \in 1 .. 0 |-> mixbuffer[Ahead(mixtail + i - 1)]]
    BY <2>1 DEF Waiting
  <2>3. Waiting = <<>>
    BY <2>2
  <2> QED
    BY <2>3 DEF Init, Queue!Init
<1>2. AudioInv /\ QueueInv /\ [Next]_vars => [Queue!Next]_(Queue!vars)
  <2> SUFFICES ASSUME AudioInv, QueueInv, [Next]_vars
               PROVE  Queue!Next \/ UNCHANGED Queue!vars
    OBVIOUS
  <2>0. whole \in BOOLEAN
    BY RingFacts
  <2>1. CASE ~whole'
    BY <2>1 DEF Queue!Next, Queue!Break
  <2>2. CASE ResetAudio
    <3>1. mixhead' = 0 /\ mixtail' = 0 /\ taken' = taken /\ whole'
      BY <2>2 DEF ResetAudio
    <3>2. Pending' = 0
      BY <3>1, Sizes DEF Pending, Behind
    <3>3. Waiting' = [i \in 1 .. 0 |-> mixbuffer'[Ahead(mixtail' + i - 1)]]
      BY <3>2 DEF Waiting, Ahead
    <3>4. Waiting' = <<>>
      BY <3>3
    <3> QED
      BY <3>1, <3>4 DEF Queue!Next, Queue!Reset
  <2>3. CASE whole' /\ Interrupt
    <3>1. Queue!Take
      BY <2>3, TakeStep DEF Interrupt
    <3> QED
      BY <3>1 DEF Queue!Next
  <2>4. CASE whole' /\ Fill
    <3>1. whole
      BY <2>0, <2>4 DEF Fill
    <3> QED
      BY <2>4, <3>1, FillStep
  <2>5. CASE whole' /\ Filled
    <3>1. Queue!Put
      BY <2>5, PutStep DEF Filled, ghost
    <3> QED
      BY <3>1 DEF Queue!Next
  <2>6. CASE whole' /\ Store
    <3>1. whole /\ mixtail = my.from /\ pc = "store"
      BY <2>0, <2>6 DEF Store
    <3>2. mixtail' = NextTail /\ taken' = Taken
      BY <2>6, <3>1 DEF Store, QueueInv
    <3>3. Queue!Take
      BY <2>6, <3>1, <3>2, TakeStep DEF Store
    <3> QED
      BY <3>3 DEF Queue!Next
  <2>7. CASE SwitchToGame \/ SwitchToMenu \/ PlaySound \/ Flip \/ Collect \/ StartDMA \/ UNCHANGED vars
    <3>1. UNCHANGED ring /\ UNCHANGED ghost
      BY <2>7 DEF SwitchToGame, SwitchToMenu, PlaySound, Flip, Collect, StartDMA, vars
    <3> QED
      BY <3>1, RingStill
  <2> QED
    BY <2>1, <2>2, <2>3, <2>4, <2>5, <2>6, <2>7 DEF Next, Main
<1> QED
  BY <1>1, <1>2, QueueAlways, PTL DEF Spec, Queue!Spec, ImplementsQueue
==============================================================================
