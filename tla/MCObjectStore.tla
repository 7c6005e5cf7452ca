--------------------------- MODULE MCObjectStore ---------------------------
EXTENDS ObjectStore, TLC
CONSTANTS i1, i2, i3, p
\* One interview may be reported twice; the row of another cannot be serialized.
MCResults == {<<i1, 1>>, <<i1, 2>>, <<i2, 1>>, <<i3, 1>>}
MCUnserializable == {<<i3, 1>>}
\* current is never read.
Unread == <<stored, refs, head, commits, saver, stream, sync, authors>>
=============================================================================
