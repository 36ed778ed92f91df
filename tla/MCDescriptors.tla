--------------------------- MODULE MCDescriptors ----------------------------
EXTENDS Descriptors

\* With a buffer of two bytes: three on stdout take two passes, and the one on
\* stderr is read into the buffer behind a longer text.
MCBurst == {<<3, 1>>}
=============================================================================
