---------------------------- MODULE MCSockStream ----------------------------
\* Small instances of SockStream for TLC.
EXTENDS SockStream

\* A header, its payload and another header, of 2, 3 and 2 bytes.
SmallBounds == <<0, 2, 5, 7>>
=============================================================================
