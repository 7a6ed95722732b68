------------------------- MODULE MCReaderWriterQueue -------------------------
EXTENDS ReaderWriterQueue
==============================================================================
