------------------------------ MODULE ImuBurst ------------------------------
(* drivers/imu.py, WT901Driver: the IMU sends bursts of four frames (0x51     *)
(* acceleration, 0x52 angular rate, 0x53 angles, 0x54 magnetic field); a      *)
(* frame with a bad checksum is skipped.  The parser takes eleven bytes from a *)
(* header on: a byte that is damaged costs its frame, one that is missing the *)
(* next header and so the next frame too.  Only 0x51 and 0x54 reset the set of *)
(* frames seen, so what is published after losses may mix two bursts.         *)
(*                                                                            *)
(* A frame is known by its place in the stream: frame i is of kind i % 4 and  *)
(* belongs to burst i \div 4 + 1; a field of "data" holds the burst it was    *)
(* taken from (0: never received).                                            *)
EXTENDS Naturals

CONSTANTS
    MaxLostRun,     \* the longest run of consecutive frames the line loses
    MaxFrames       \* frames sent (bounds TLC)

ASSUME ImuAssumption == MaxLostRun \in Nat /\ MaxFrames \in Nat

VARIABLES
    sent,           \* frames the IMU has sent
    lostRun,        \* how many of the latest were lost in a row
    burstFrames,    \* _burst_frames
    data,           \* the accumulator
    published,      \* the last snapshot given to on_data_callback
    skipped,        \* history: two frames in a row were lost since the last 0x51
    broken          \* history: and so it was when "published" was taken

imuVars == <<sent, lostRun, burstFrames, data, published, skipped, broken>>

Kinds == 0..3
Kind(i) == i % 4
Burst(i) == i \div 4 + 1
None == [k \in Kinds |-> 0]

ImuInit ==
    /\ sent = 0 /\ lostRun = 0
    /\ burstFrames = {} /\ data = None /\ published = None
    /\ skipped = FALSE /\ broken = FALSE

(* _parse_frame on the next frame: its fields enter the accumulator.          *)
Accumulated == [data EXCEPT ![Kind(sent)] = Burst(sent)]

(* Mutant: the first frame does not reset the set.                            *)
FirstFrameAdds ==
    /\ Kind(sent) = 0
    /\ burstFrames' = burstFrames \union {0}
    /\ skipped' = FALSE
    /\ UNCHANGED <<published, broken>>

(* The first frame of a burst resets the set, the last one publishes when the *)
(* other three have been seen, and empties it.                                *)
FirstFrame ==
    /\ Kind(sent) = 0
    /\ burstFrames' = {0}
    /\ skipped' = FALSE
    /\ UNCHANGED <<published, broken>>

MiddleFrame ==
    /\ Kind(sent) \in {1, 2}
    /\ burstFrames' = burstFrames \union {Kind(sent)}
    /\ UNCHANGED <<published, skipped, broken>>

(* Mutant: the snapshot is taken before the last frame enters it.             *)
LastFrameEarly ==
    /\ Kind(sent) = 3
    /\ burstFrames' = {}
    /\ published' = IF burstFrames = {0, 1, 2} THEN data ELSE published
    /\ broken' = IF burstFrames = {0, 1, 2} THEN skipped ELSE broken
    /\ UNCHANGED skipped

LastFrame ==
    /\ Kind(sent) = 3
    /\ burstFrames' = {}
    /\ published' = IF burstFrames = {0, 1, 2} THEN Accumulated ELSE published
    /\ broken' = IF burstFrames = {0, 1, 2} THEN skipped ELSE broken
    /\ UNCHANGED skipped

Receive ==
    /\ sent < MaxFrames
    /\ sent' = sent + 1
    /\ lostRun' = 0
    /\ data' = Accumulated
    /\ FirstFrame \/ MiddleFrame \/ LastFrame

(* A frame that is damaged, or whose header went with the frame before it.    *)
Lose ==
    /\ sent < MaxFrames /\ lostRun < MaxLostRun
    /\ sent' = sent + 1
    /\ lostRun' = lostRun + 1
    /\ skipped' = IF lostRun = 0 THEN skipped ELSE TRUE
    /\ UNCHANGED <<burstFrames, data, published, broken>>

ImuNext == Receive \/ Lose

ImuSpec == ImuInit /\ [][ImuNext]_imuVars

-----------------------------------------------------------------------------
MarksOK == skipped \in BOOLEAN /\ broken \in BOOLEAN

(* The type invariant: the set never holds the frame that publishes.          *)
ImuTypeOK ==
    /\ sent \in Nat /\ lostRun \in 0..MaxLostRun
    /\ burstFrames \in SUBSET (0..2)
    /\ data \in [Kinds -> Nat] /\ published \in [Kinds -> Nat]
    /\ MarksOK

(* The four parts of a snapshot come from one burst of the sensor, whatever   *)
(* single frames were lost: only two lost in a row, after its first frame,    *)
(* can mix two bursts, against "one coherent raw measurement burst" of        *)
(* publish_imu_data.                                                          *)
Coherent == ~broken => \A j, k \in Kinds : published[j] = published[k]

(* What is published is the burst that has just ended, never an earlier one.  *)
PublishesLatest == [][published' # published => published'[3] = Burst(sent)]_imuVars

(* A burst that arrives whole is published, whatever was lost before it.      *)
WholeBurstPublished ==
    [][(sent' > sent /\ Kind(sent) = 3 /\ \A k \in Kinds : data'[k] = Burst(sent))
        => published' = data']_imuVars

(* Why single losses are harmless: while a burst is collected from its first  *)
(* frame on, the last frame heard was not its end, and all are of its burst.  *)
CollectedTogether ==
    0 \in burstFrames /\ ~skipped =>
        LET last == sent - 1 - lostRun
        IN  /\ lostRun <= 1 /\ lostRun < sent /\ Kind(last) # 3
            /\ \A k \in burstFrames : data[k] = Burst(last)
=============================================================================
