---------------------------- MODULE FrameChannel ----------------------------
(***************************************************************************)
(* What the IPTS receiver promises to the HID layer: the frames the device *)
(* writes are handed on in the order they were written, each at most once, *)
(* and none is skipped while the HID side is live.  Nothing is said about  *)
(* rings, doorbells, threads or commands: those belong to IptsReceiver,    *)
(* which implements this specification.                                    *)
(***************************************************************************)
EXTENDS Naturals, Sequences

CONSTANTS
    Capacity,   \* how many written frames may wait to be handed on
    Frames,     \* the contents a frame can have
    NoFrame     \* what `out` holds before the first frame

VARIABLES
    chan,       \* frames written by the device and not yet handed on
    out,        \* the frame handed to the HID layer last
    phase       \* "closed": no buffers, "muted": frames are not forwarded,
                \* "live": every frame is forwarded

vars == <<chan, out, phase>>

Init == chan = <<>> /\ out = NoFrame /\ phase = "closed"

\* The device completes a frame.
Put(f) ==
    /\ Len(chan) < Capacity
    /\ chan' = Append(chan, f)
    /\ UNCHANGED <<out, phase>>

\* The oldest frame goes to the HID layer.
Take ==
    /\ chan # <<>>
    /\ phase # "closed"
    /\ out' = Head(chan)
    /\ chan' = Tail(chan)
    /\ UNCHANGED phase

\* The oldest frame is thrown away: never while the channel is live.
Drop ==
    /\ chan # <<>>
    /\ phase = "muted"
    /\ chan' = Tail(chan)
    /\ UNCHANGED <<out, phase>>

Open   == phase = "closed" /\ phase' = "muted" /\ chan' = <<>> /\ UNCHANGED out
Unmute == phase = "muted"  /\ phase' = "live"   /\ UNCHANGED <<chan, out>>
Mute   == phase = "live"   /\ phase' = "muted"  /\ UNCHANGED <<chan, out>>
Close  == phase = "muted"  /\ phase' = "closed" /\ UNCHANGED <<chan, out>>

Next ==
    \/ \E f \in Frames : Put(f)
    \/ Take \/ Drop \/ Open \/ Unmute \/ Mute \/ Close

Spec == Init /\ [][Next]_vars
=============================================================================
