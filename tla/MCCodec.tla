------------------------------- MODULE MCCodec -------------------------------
\* Streams of up to three items in chunks of two: an empty chunk buffer, a full one and a
\* rest all occur, and two damages may follow each other.
EXTENDS Codec
=============================================================================
