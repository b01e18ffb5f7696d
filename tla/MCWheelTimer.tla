----------------------------- MODULE MCWheelTimer -----------------------------
(***************************************************************************)
(* Small instances of WheelTimer.                                          *)
(***************************************************************************)
EXTENDS WheelTimer

\* One tick, or several at once and a remainder that is dropped.
Ticking == {TIME_UNIT, 2 * TIME_UNIT + 1}

\* Delays for two timers with TVR_SIZE = 4, TVN_SIZE = 2, where MAX_TVAL = 63: due
\* at once, placed in buckets_[1], and the longest, placed in buckets_[3] and
\* cascaded through every level on its way down.  A uint32_t goes as far as the
\* MAX_TVAL of the code and no farther.
FarAndNear == {0, 9, 63}

\* Delays around the edges of the levels for TVR_SIZE = 8, TVN_SIZE = 2, where
\* the spans are 8, 16, 32, 64 and 128: in the first level, at either side of the
\* first tick of each bucket level, and the longest, MAX_TVAL = 127.  As with 256
\* and 64, near_[2] and near_[3] are lists of buckets_[0] and near_[4..7] are not.
LevelDelays == {0, 7, 8, 15, 16, 31, 32, 63, 64, 127}
===============================================================================
