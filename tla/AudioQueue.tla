----------------------------- MODULE AudioQueue -----------------------------
(***************************************************************************)
(* What the audio driver promises its two sides (gcaudio.cpp): the samples *)
(* of the emulator leave in the order in which they came, in blocks of a   *)
(* whole number of units of 8, the size that AUDIO_InitDMA takes, until    *)
(* one side is so far ahead of the other that the promise is void.         *)
(***************************************************************************)
EXTENDS Integers, Sequences

CONSTANTS Samples, Block

Unit == 8

VARIABLES queue, taken, whole
vars == <<queue, taken, whole>>

Init == queue = <<>> /\ taken = <<>> /\ whole = TRUE

\* More samples at the end.
Put ==
    /\ whole /\ whole'
    /\ Len(queue') >= Len(queue) /\ SubSeq(queue', 1, Len(queue)) = queue
    /\ taken' = taken

\* As many units as there are and as fit in a block.  Without a whole unit the
\* samples there are get played all the same, and stay.
Take ==
    /\ whole /\ whole'
    /\ \E n \in 0 .. Len(queue) :
          /\ n % Unit = 0
          /\ n = Block \/ (n < Block /\ Len(queue) - n < Unit)
          /\ taken' = SubSeq(queue, 1, IF n = 0 THEN Len(queue) ELSE n)
          /\ queue' = SubSeq(queue, n + 1, Len(queue))

Reset == queue' = <<>> /\ taken' = taken /\ whole'

\* The promise is void, up to the next Reset.
Break == ~whole'

Next == Put \/ Take \/ Reset \/ Break

Spec == Init /\ [][Next]_vars
=============================================================================
