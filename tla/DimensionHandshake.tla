------------------------- MODULE DimensionHandshake -------------------------
(***************************************************************************)
(* The validation of a SLAB frame with a header of 24 bytes                  *)
(* (src/dimension_handshake.cpp), and the frames that the socket injector    *)
(* builds for it (harness/socket_injector.py).  A frame is its size and what *)
(* its header says; a feature is the offset of its first byte.              *)
(***************************************************************************)
EXTENDS Naturals, Sequences

CONSTANT MaxDimensions   \* 1024

ASSUME DimensionsAssumption == MaxDimensions \in Nat \ {0}

SlabHeaderSize == 24
Float32Size == 4

(* Wrong on purpose, as are the definitions named ...Wrong below: the payload     *)
(* without the header.                                                          *)
RequiredFrameBytesWrong(d) == d * Float32Size

RequiredFrameBytes(d) == SlabHeaderSize + d * Float32Size

ValidateFrame(frame) == /\ frame.size >= SlabHeaderSize
                        /\ frame.magic = "SLAB"
                        /\ frame.dimensions \in 1 .. MaxDimensions
                        /\ frame.size >= RequiredFrameBytes(frame.dimensions)

ExtractFeatures(frame, d) ==
    IF frame.size < RequiredFrameBytes(d) THEN <<>>
    ELSE [i \in 1 .. d |-> SlabHeaderSize + (i - 1) * Float32Size]
-----------------------------------------------------------------------------
(* struct.pack("=IQIII"): magic, event id, label, dimension, flags, unpadded.    *)
PackedWidths == <<4, 8, 4, 4, 4>>
PayloadStart == PackedWidths[1] + PackedWidths[2] + PackedWidths[3] + PackedWidths[4]
                + PackedWidths[5]

BlastFrame(dimensions) == [size       |-> PayloadStart + dimensions * Float32Size,
                           magic      |-> "SLAB",
                           dimensions |-> dimensions]

(* What is left of a frame that was cut off on the way. *)
Prefix(frame, size) == [frame EXCEPT !.size = size]
-----------------------------------------------------------------------------
(* Of a frame of the injector, exactly the whole ones of admissible dimension are *)
(* valid, and what is then extracted is the payload that was packed.  Whatever    *)
(* dimension extract_features is asked for, on whatever prefix of a frame, it     *)
(* returns no float that is not in the frame in full.                            *)
ReadsOwnBytes(n, size) ==
    LET sent == BlastFrame(n)
        frame == Prefix(sent, size)
    IN  /\ ValidateFrame(frame) <=> size = sent.size /\ n \in 1 .. MaxDimensions
        /\ ValidateFrame(frame) =>
              ExtractFeatures(frame, n) = [i \in 1 .. n |-> PayloadStart + (i - 1) * Float32Size]
        /\ \A d \in 0 .. MaxDimensions + 1 : \A i \in DOMAIN ExtractFeatures(frame, d) :
              ExtractFeatures(frame, d)[i] + Float32Size <= size
=============================================================================
