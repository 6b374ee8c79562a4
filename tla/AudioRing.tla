------------------------------ MODULE AudioRing ------------------------------
(***************************************************************************)
(* The audio driver (gcaudio.cpp): the emulator writes samples into a ring *)
(* that the interrupt of the audio DMA empties into one of two buffers     *)
(* while the DMA plays the other.                                          *)
(*                                                                         *)
(* The main thread takes steps of its own; the interrupt may come between  *)
(* any two of them and runs to its end.  The build (-O3) keeps mixhead and *)
(* mixtail in registers during the loops and stores them behind, so that a *)
(* loop the interrupt falls into goes on with what it had read.            *)
(***************************************************************************)
EXTENDS Integers, Sequences

CONSTANTS
    N,              \* samples in mixbuffer
    Block,          \* samples in a buffer of the DMA
    Counts,         \* the numbers of samples a frame of the game may have
    Numbers         \* samples are numbered 1 .. Numbers, round and round

Unit    == 8
Samples == 1 .. Numbers
Silence == 0

ASSUME AudioAssumption ==
    /\ N \in Nat /\ N % Unit = 0 /\ N > Block
    /\ Block \in Nat \ {0} /\ Block % Unit = 0
    /\ Counts \subseteq Nat \ {0} /\ Numbers \in Nat \ {0}

VARIABLES
    mixbuffer, mixhead, mixtail,
    soundbuffer,        \* soundbuffer[b]: the sound in b, up to the silence behind it
    whichab, IsPlaying,
    playing, next,      \* the DMA: the buffer it plays, and the one it plays then
    pc,
    head, left,         \* PlaySound: its mixhead, and what it still has to write
    my,                 \* the call of AudioSwitchBuffers on the main thread
    number,             \* the number of the sample written last
    taken, whole        \* history, for module AudioQueue

ring  == <<mixbuffer, mixhead, mixtail>>
dma   == <<playing, next>>
play  == <<head, left>>
ghost == <<taken, whole>>
vars  == <<ring, soundbuffer, whichab, IsPlaying, dma, pc, play, my, number, ghost>>

NoCall == [buf |-> 0, from |-> 0, to |-> 0, taken |-> <<>>]

Init ==
    /\ mixbuffer = [p \in 0 .. N - 1 |-> Silence] /\ mixhead = 0 /\ mixtail = 0
    /\ soundbuffer = [b \in 0 .. 1 |-> <<>>]
    /\ whichab = 0 /\ IsPlaying = 0 /\ playing = 0 /\ next = 0
    /\ pc = "menu"
    /\ head = 0 /\ left = 0 /\ my = NoCall /\ number = 0
    /\ taken = <<>> /\ whole = TRUE

Ahead(p)  == IF p >= N THEN p - N ELSE p
Behind(p) == IF p < 0 THEN p + N ELSE p
Pending   == Behind(mixhead - mixtail)
Waiting   == [i \in 1 .. Pending |-> mixbuffer[Ahead(mixtail + i - 1)]]

-----------------------------------------------------------------------------
(* MixerCollect. *)

Done == IF Pending < Block THEN Pending ELSE Block

\* Wrong: counts the part of a unit in bytes.
BadKept == Done - ((4 * Done) % Unit)

\* "Realign to 32 bytes for DMA".
Kept == Done - (Done % Unit)

Collected == SubSeq(Waiting, 1, Done)
\* Wrong: does not realign.
BadNextTail == Ahead(mixtail + Done)

\* Wrong: steps back over all of it unless it is a whole number of units.
BadRealign == IF Kept = Done THEN Ahead(mixtail + Done) ELSE mixtail

NextTail  == Behind(Ahead(mixtail + Done) - (Done - Kept))
Taken     == IF Kept = 0 THEN Collected ELSE SubSeq(Collected, 1, Kept)

-----------------------------------------------------------------------------
(* The interrupt: AudioSwitchBuffers.  The DMA has begun with the buffer it *)
(* was given last.                                                          *)

Interrupt ==
    /\ pc # "menu"
    /\ playing' = next
    /\ whichab' = 1 - whichab
    /\ soundbuffer' = [soundbuffer EXCEPT ![1 - whichab] = Collected]
    /\ mixtail' = NextTail /\ taken' = Taken
    /\ next' = 1 - whichab
    /\ IsPlaying' = 1
    /\ UNCHANGED <<mixbuffer, mixhead, pc, play, my, number, whole>>

-----------------------------------------------------------------------------
(* The main thread. *)

\* Wrong: starts with the first buffer, whichever was filled last.
BadSwitchToGame ==
    /\ pc = "menu" /\ pc' = "game"
    /\ soundbuffer' = [b \in 0 .. 1 |-> <<>>]
    /\ playing' = 0 /\ next' = 0
    /\ UNCHANGED <<ring, whichab, IsPlaying, play, my, number, ghost>>

\* SwitchAudioMode(0).
SwitchToGame ==
    /\ pc = "menu" /\ pc' = "game"
    /\ soundbuffer' = [b \in 0 .. 1 |-> <<>>]
    /\ playing' = whichab /\ next' = whichab
    /\ UNCHANGED <<ring, whichab, IsPlaying, play, my, number, ghost>>

\* SwitchAudioMode(1): first the flag, which an interrupt may set again, then the
\* library of the menu's sounds takes the DMA over.
SwitchToMenu ==
    /\ \/ pc = "game" /\ pc' = "leave" /\ IsPlaying' = 0
       \/ pc = "leave" /\ pc' = "menu" /\ UNCHANGED IsPlaying
    /\ UNCHANGED <<ring, soundbuffer, whichab, dma, play, my, number, ghost>>

\* Wrong: forgets where the reader is.
BadResetAudio ==
    /\ pc = "menu"
    /\ mixbuffer' = [p \in 0 .. N - 1 |-> Silence] /\ mixhead' = 0
    /\ soundbuffer' = [b \in 0 .. 1 |-> <<>>]
    /\ number' = 0 /\ whole' = TRUE
    /\ UNCHANGED <<mixtail, whichab, IsPlaying, dma, pc, play, my, taken>>

\* A game is loaded, from the menu.
ResetAudio ==
    /\ pc = "menu"
    /\ mixbuffer' = [p \in 0 .. N - 1 |-> Silence] /\ mixhead' = 0 /\ mixtail' = 0
    /\ soundbuffer' = [b \in 0 .. 1 |-> <<>>]
    /\ number' = 0 /\ whole' = TRUE
    /\ UNCHANGED <<whichab, IsPlaying, dma, pc, play, my, taken>>

PlaySound ==
    /\ pc = "game" /\ pc' = "fill"
    /\ left' \in Counts
    /\ head' = mixhead
    /\ UNCHANGED <<ring, soundbuffer, whichab, IsPlaying, dma, my, number, ghost>>

\* What PlaySound has written since it read mixhead.
Written == Behind(head - mixhead)

NextHead == IF head + 1 = N THEN 0 ELSE head + 1

\* One sample.  There is no test whether the ring is full; that it is full the
\* driver will take for empty.
Fill ==
    /\ pc = "fill" /\ left > 0
    /\ number' = IF number = Numbers THEN 1 ELSE number + 1
    /\ mixbuffer' = [mixbuffer EXCEPT ![head] = number']
    /\ head' = NextHead /\ left' = left - 1
    /\ whole' = (whole /\ Pending + Written < N - 1)
    /\ UNCHANGED <<mixhead, mixtail, soundbuffer, whichab, IsPlaying, dma, pc, my, taken>>

\* "Restart Sound Processing if stopped".
Filled ==
    /\ pc = "fill" /\ left = 0
    /\ mixhead' = head
    /\ pc' = IF IsPlaying = 0 THEN "flip" ELSE "game"
    /\ UNCHANGED <<mixbuffer, mixtail, soundbuffer, whichab, IsPlaying, dma, play, my, number, ghost>>

Flip ==
    /\ pc = "flip" /\ pc' = "collect"
    /\ whichab' = 1 - whichab
    /\ my' = [my EXCEPT !.buf = 1 - whichab]
    /\ UNCHANGED <<ring, soundbuffer, IsPlaying, dma, play, number, ghost>>

Collect ==
    /\ pc = "collect" /\ pc' = "store"
    /\ soundbuffer' = [soundbuffer EXCEPT ![my.buf] = Collected]
    /\ my' = [my EXCEPT !.from = mixtail, !.to = NextTail, !.taken = Taken]
    /\ UNCHANGED <<ring, whichab, IsPlaying, dma, play, number, ghost>>

\* An interrupt since Collect has taken what this call takes again.
Store ==
    /\ pc = "store" /\ pc' = "start"
    /\ mixtail' = my.to /\ taken' = my.taken
    /\ whole' = (whole /\ mixtail = my.from)
    /\ my' = NoCall
    /\ UNCHANGED <<mixbuffer, mixhead, soundbuffer, whichab, IsPlaying, dma, play, number>>

\* AUDIO_InitDMA reads whichab again, behind the call of DCFlushRange.
StartDMA ==
    /\ pc = "start" /\ pc' = "game"
    /\ next' = whichab
    /\ IsPlaying' = 1
    /\ UNCHANGED <<ring, soundbuffer, whichab, playing, play, my, number, ghost>>

Main ==
    \/ SwitchToGame \/ SwitchToMenu \/ ResetAudio
    \/ PlaySound \/ Fill \/ Filled \/ Flip \/ Collect \/ Store \/ StartDMA

Next == Interrupt \/ Main

Spec     == Init /\ [][Next]_vars
\* The DMA keeps playing what it was given, and interrupts.
FairSpec == Spec /\ WF_vars(Interrupt)

-----------------------------------------------------------------------------
TypeOK ==
    /\ mixbuffer \in [0 .. N - 1 -> Samples \cup {Silence}]
    /\ mixhead \in 0 .. N - 1 /\ mixtail \in 0 .. N - 1
    /\ soundbuffer \in [0 .. 1 -> Seq(Samples \cup {Silence})]
    /\ whichab \in 0 .. 1 /\ IsPlaying \in 0 .. 1 /\ playing \in 0 .. 1 /\ next \in 0 .. 1
    /\ pc \in {"menu", "game", "leave", "fill", "flip", "collect", "store", "start"}
    /\ head \in 0 .. N - 1 /\ left \in Nat
    /\ my \in [buf : 0 .. 1, from : 0 .. N - 1, to : 0 .. N - 1, taken : Seq(Samples \cup {Silence})]
    /\ number \in Samples \cup {0}
    /\ taken \in Seq(Samples \cup {Silence}) /\ whole \in BOOLEAN

\* The buffers hold no more than what the DMA takes, and the ring is emptied at
\* unit boundaries only, however the two sides interleave: the memory that
\* MixerCollect starts from stays aligned.
TailAligned == mixtail % Unit = 0 /\ \A b \in 0 .. 1 : Len(soundbuffer[b]) <= Block

\* The samples that wait are consecutive ones of the emulator, unless the
\* emulator was so far ahead that it overwrote some.
InOrder ==
    whole => \A i \in 1 .. Pending - 1 :
                Waiting[i + 1] = IF Waiting[i] = Numbers THEN 1 ELSE Waiting[i] + 1

\* The DMA never plays a buffer while it is filled, unless the interrupt
\* falls into the call of the main thread that starts the sound again.
Restarting == pc \in {"flip", "collect", "store", "start"}
DoubleBuffered ==
    [][~Restarting /\ pc # "menu" /\ pc' # "menu"
       => soundbuffer'[playing'] = soundbuffer[playing']]_vars

\* While a game runs, a whole unit of samples does not wait for ever, unless the
\* emulator overwrites it.
Played ==
    \A t \in {u \in 0 .. N - 1 : u % Unit = 0} :
        (pc # "menu" /\ mixtail = t /\ Pending >= Unit /\ whole)
            ~> (pc = "menu" \/ mixtail # t \/ ~whole)

\* The ring is the queue that the emulator and the DMA believe in.
Queue == INSTANCE AudioQueue WITH queue <- Waiting
ImplementsQueue == Queue!Spec
==============================================================================
