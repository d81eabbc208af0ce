--------------------------- MODULE MCFlashBarrier ---------------------------
\* Model-checking instance of FlashBarrier: two items, the first of two windows.
EXTENDS FlashBarrier

MCShape == << <<2, 1>>, <<1>> >>
=============================================================================
