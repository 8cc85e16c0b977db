------------------------------ MODULE MCAcquire -------------------------------
EXTENDS Acquire

RewordedReleases == {1, 3}
=============================================================================
