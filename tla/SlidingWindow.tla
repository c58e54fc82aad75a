---------------------------- MODULE SlidingWindow ----------------------------
(***************************************************************************)
(* util::SlidingWindowFilter and the arithmetic of the values it filters:  *)
(* an Imu message is a record of its three measurements, each along one of *)
(* its axes, and a time is a record with one field.                        *)
(*                                                                         *)
(* Values are counted in units of 1 / (the size of the window), so that a  *)
(* mean is a whole number.                                                 *)
(***************************************************************************)
EXTENDS Integers, Sequences

CONSTANTS
    G, DegreesToRadians, GaussToTesla,  \* the factors, as small whole numbers
    Unknown,                            \* PUNK_DBL: what the device cannot measure
    NaN

ASSUME FactorsAssumption == {G, DegreesToRadians, GaussToTesla} \subseteq Int
ASSUME NaNAssumption == NaN \notin Int

\* Anything that is computed from what is not a number is not one either.
WithNaN(a, b, c) == IF NaN \in {a, b} THEN NaN ELSE c

Plus(a, b)  == [c \in DOMAIN a |-> WithNaN(a[c], b[c], a[c] + b[c])]
Minus(a, b) == [c \in DOMAIN a |-> WithNaN(a[c], b[c], a[c] - b[c])]
Whole(a, window) == [c \in DOMAIN a |-> WithNaN(a[c], 0, a[c] * window)]

\* What the device measures as a message; the constructors of the three parts.
Converted(reading) ==
    [acc |-> -reading.acceleration * G,
     ang |-> reading.angularRate * DegreesToRadians,
     mag |-> IF reading.magneticField = Unknown THEN NaN ELSE reading.magneticField * GaussToTesla]

EmptyFilter(zero) == [buffer |-> <<>>, mean |-> zero]

\* The window fills while it holds fewer values than its size.
FillsWhenShorter(filter, window) == Len(filter.buffer) + 1 < window
Fills(filter, window) == Len(filter.buffer) + 1 <= window

\* update(): the state of the filter after it took v ...
Updated(filter, window, v) ==
    IF window < 2 THEN filter
    ELSE IF Fills(filter, window)
         THEN [buffer |-> Append(filter.buffer, v), mean |-> Plus(filter.mean, v)]
         ELSE [buffer |-> Append(Tail(filter.buffer), v),
               mean   |-> Plus(filter.mean, Minus(v, Head(filter.buffer)))]

\* ... and what it returns: v itself until the window is full.
Filtered(filter, window, v) ==
    IF window < 2 \/ Fills(filter, window)
    THEN Whole(v, window) ELSE Updated(filter, window, v).mean
=============================================================================
