------------------------------ MODULE RawImage ------------------------------
(***************************************************************************)
(* What Parser::ReadRawImage promises its caller Decode, after sections 2  *)
(* to 6 of the specification: it takes in at most one frame header, then  *)
(* coefficient stores decoded against that frame (a later scan replaces   *)
(* an earlier one), and it either returns a frame with a store or stops   *)
(* without returning.  The tables, the comment and the input position are *)
(* internal to the parser and not part of the promise.                    *)
(***************************************************************************)

CONSTANTS
  Frames,        \* the frame headers a stream can describe
  None,          \* no frame or no store yet
  Decoded(_, _)  \* Decoded(d, f): store d was decoded against frame f

VARIABLES
  status,  \* "reading", "returned" or "stopped"
  frame,   \* the frame header taken in, or None
  store    \* the current coefficient store, or None

avars == <<status, frame, store>>

AInit ==
  /\ status = "reading"
  /\ frame = None
  /\ store = None

\* The one frame header of the stream is taken in.
ReadFrame ==
  /\ status = "reading" /\ frame = None
  /\ frame' \in Frames
  /\ UNCHANGED <<status, store>>

\* A scan is decoded against the frame; its store replaces the previous one.
ReadScan ==
  /\ status = "reading" /\ frame # None
  /\ store' # None /\ Decoded(store', frame)
  /\ UNCHANGED <<status, frame>>

\* The end of the image: the frame and the last store are returned.
Return ==
  /\ status = "reading" /\ frame # None /\ store # None
  /\ status' = "returned"
  /\ UNCHANGED <<frame, store>>

\* Reading stops without a result (an exception, or worse).
Stop ==
  /\ status = "reading"
  /\ status' = "stopped"
  /\ UNCHANGED <<frame, store>>

ANext == ReadFrame \/ ReadScan \/ Return \/ Stop

ASpec == AInit /\ [][ANext]_avars
=============================================================================
