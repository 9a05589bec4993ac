----------------------------- MODULE AudioInStub -----------------------------
(***************************************************************************)
(* The recording that stands in for the microphone (audio_engine/           *)
(* AudioInStub.hpp): a buffer of samples from which every callback is given *)
(* the next block, and which starts again near its end.  Samples are left   *)
(* out: a recording is its length.                                          *)
(***************************************************************************)
EXTENDS Naturals

CONSTANTS
    BlockSize,      \* samples of a block: 160 in the code
    FileSizes,      \* sizes in bytes of the files that "audioInStub" may name
    SineLength      \* samples of the tone that "sine" stands for: 160000

VARIABLES
    size_,          \* samples of the recording, 0 when there is no stub
    pos_,
    given           \* where the last block given begins (history)

stubVars == <<size_, pos_, given>>

(* loadFile: no stub for a file that is not there or empty; of an odd file the
   last byte is read behind the buffer. *)
Loaded(bytes) == bytes \div 2

Recordings == {0, SineLength} \cup {Loaded(bytes) : bytes \in FileSizes}

StubTypeOK == /\ size_ \in Recordings
              /\ pos_ \in 0 .. size_ + BlockSize
              /\ given \in 0 .. size_

(* create. *)
StubInit == /\ size_ \in Recordings
            /\ pos_ = 0 /\ given = 0

AtEnd_Late == pos_ >= size_

(* The last block of a recording of whole blocks is never reached. *)
AtEnd == pos_ + BlockSize >= size_

(* get; without a stub the callback goes on with the microphone's block. *)
Get == \/ /\ size_ > 0
          /\ given' = IF AtEnd THEN 0 ELSE pos_
          /\ pos_' = given' + BlockSize
          /\ UNCHANGED size_
       \/ size_ = 0 /\ UNCHANGED stubVars

-------------------------------------------------------------------------------
(* The callback goes round the recording: every block lies within it, follows the
   one before, and when it is the first again at most one whole block was left
   out.  A recording shorter than a block cannot provide one at all. *)
StubGoesRound ==
    [][size_ >= BlockSize =>
          /\ given' + BlockSize <= size_
          /\ given' # given =>
                \/ given' = given + BlockSize
                \/ given' = 0 /\ size_ <= given + 2 * BlockSize]_stubVars
===============================================================================
